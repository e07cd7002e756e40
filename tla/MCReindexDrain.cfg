CONSTANTS
  None = None
  File = {f1, f2}
  Session = {s1, s2}
  Debounce = 2
  MaxWait = 3
  MinSleep = 1
  PollCap = 3
  CoarseClock = FALSE
  LastEdit = 3
  MaxEdits = 2
  MaxFaults = 1
  MaxClock = 6
CHECK_DEADLOCK FALSE
SPECIFICATION FairSpec
INVARIANT NoLostEdit
INVARIANT NotSleptPast
INVARIANT StrandedOnlyByExitWindow
PROPERTY ImplementsEditLedger
