SPECIFICATION Spec
CONSTANTS
  Call = {c1, c2}
  File = {f1, f2}
  WaitPolls = 2
  MaxEdits = 0
  MaxOther = 0
  None = None
INVARIANT TrustedMeansStored
