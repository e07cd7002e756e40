CONSTANTS
  Invocation = {i1, i2}
  NoPid = NoPid
  LockPolls = 1
  MaxDeaths = 0
SPECIFICATION BootSpec
INVARIANT OnlyOrphansAreSwept
CHECK_DEADLOCK FALSE
