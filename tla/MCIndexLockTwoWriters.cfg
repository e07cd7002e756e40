CONSTANTS
  None = None
  Reindexers = {r1, r2}
  Indexers = {i1}
  Clearers = {}
  Mortal = {}
  DiskMayFail = FALSE
SPECIFICATION Spec
INVARIANT OneWriter
CHECK_DEADLOCK FALSE
