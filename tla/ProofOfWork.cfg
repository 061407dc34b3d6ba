\* Two cores, every outcome of the hash on four counters, two calls of Work.
SPECIFICATION FairSpec
CONSTANTS
  Cores = 2
  Limit = 4
  MaxBits = 2
  MaxCalls = 2
CHECK_DEADLOCK FALSE
INVARIANTS TypeOK LeastOfItsCore StillAccepted
PROPERTIES WorkReturns NoWorkAfterReturn
