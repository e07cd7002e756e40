CONSTANTS
  r1 = r1
  r2 = r2
  i1 = i1
  c1 = c1
  None = None
  Reindexers = {r1, r2}
  Indexers = {i1}
  Clearers = {c1}
  Mortal = {r1}
  DiskMayFail = TRUE
  h1 = h1
  h2 = h2
  w1 = w1
  w2 = w2
  Nobody = Nobody
  Hook = {h1, h2}
  Worker = {w1, w2}
  ChildOf <- Children
  MarkerMortal = {h1, w1}
  SpawnMayFail = TRUE
  Invocation = {i1, i2, i3}
  NoPid = NoPid
  LockPolls = 1
  MaxDeaths = 1
SPECIFICATION MarkersSpec
INVARIANT ExclusiveUntilDisturbed
INVARIANT OneWorkerWhileRemovalsHit
INVARIANT OneInstaller
PROPERTY OrphansGiveWay
CHECK_DEADLOCK FALSE
