CONSTANTS
  Call = {c1, c2}
  File = {f1, f2}
  WaitPolls = 2
  MaxEdits = 1
  MaxOther = 1
  None = None
  Server = {s1, s2, s3}
  MaxFaults = 1
  Absent = Absent
  Torn = Torn
  Path = {f1, f2}
  Debounce = 2
  MaxQueued = 2
  MaxMissed = 1
SPECIFICATION ServersSpec
INVARIANT OneCallWrites
PROPERTY EveryCallIsAnswered
INVARIANT ClearedStaysCleared
PROPERTY MarkerHeals
PROPERTY EditsAreCaughtUp
CHECK_DEADLOCK FALSE
