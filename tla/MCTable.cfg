CONSTANTS
  f1 = f1
  f2 = f2
  a = a
  b = b
  z = z
  None = None
  File = {f1, f2}
  Content = {a, b, z}
  Chunks <- SomeChunks
  WindowCap = 2
  DeleteBatch = 1
  MaxFaults = 1
  TableFile = {f1, f2}
  Model = {"a", "b", "wide"}
  Width <- MCWidth
  Search = {q}
  Grep = {g}
  LongLived = TRUE
  MaxChanges = 1
  MaxInterruptions = 1
  NoModel = "none"
SPECIFICATION TableSpec
SYMMETRY Symmetry
INVARIANT CountsAgree
INVARIANT TrustedMeansStored
INVARIANT CompletedIndexIsExact
INVARIANT TableHasManifestModel
INVARIANT RankedAlike
CHECK_DEADLOCK FALSE
