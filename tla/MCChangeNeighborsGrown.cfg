SPECIFICATION Spec
CONSTANTS
  Hook = {h1, h2}
  Session = {s1, s2}
  NoSession = nobody
  File = {"b"}
  Hint <- MCSecondLine
  Window <- MCWhole
  Lines <- MCGrowingLines
  Unsafe = {}
  EditedFile = {"b"}
  ReadFile = {"b"}
  TopK = 1
  Depth = 2
  ReadCap = 2
  MaxEvents = 4
  None = none
SYMMETRY Symmetry
INVARIANTS SuppressedIsKnown
CHECK_DEADLOCK FALSE
