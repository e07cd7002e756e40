SPECIFICATION PendingSpec
CONSTANTS
  s1 = s1
  s2 = s2
  p1 = p1
  Session = {s1, s2}
  Parallel = {p1}
  Of <- MCOf
  Anonymous = {s2}
  Mortal = {s1}
  Manual = manual
  ReadyGrace = 1
  FailureGrace = 2
  MaxPrompt = 2
  MaxClock = 3
  Never = never
INVARIANT SpawnsAreSerialized
PROPERTIES FailureMeansQuiet EveryTurnIsTold
CHECK_DEADLOCK FALSE
