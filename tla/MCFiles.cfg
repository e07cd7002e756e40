SPECIFICATION FilesAndHintsSpec
CONSTANTS
  Hook = {h1, h2}
  Session = {s1, s2}
  NoSession = nobody
  File = {"a", "b", "c"}
  Hint <- MCHint
  Window <- MCWindow
  Lines <- MCLines
  Unsafe = {}
  EditedFile = {"a"}
  ReadFile = {"b"}
  TopK = 1
  Depth = 2
  ReadCap = 2
  MaxEvents = 4
  None = none
  Fetcher = {p1, p2}
  Asset = {0, 1}
  Blocks = 2
  MaxBreaks = 2
  Entry = {"index.md", "doctor.md"}
  MaxKills = 1
  MaxUpdates = 1
  j1 = j1
  j2 = j2
  j3 = j3
  p1 = p1
  p2 = p2
  Job = {j1, j2, j3}
  PidOf <- MCPidOf
  JobKind <- MCJobKind
  FilesDone = 2
  NoJob = NoJob
  Chain = 2
  NoDir = NoDir
SYMMETRY Symmetry
INVARIANTS SuppressedIsKnown HintsAreOwnAndNew
INVARIANTS PublishedIsVerified InstalledIsSource SweepIsExact ProgressIsOfTheRun
CHECK_DEADLOCK FALSE
