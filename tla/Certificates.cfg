\* Two runs of the tool at once, one fault of any kind, one renewal.
SPECIFICATION FairSpec
CONSTANTS
  Runs = {"r1", "r2"}
  Faults = {"killed", "authority", "disk", "torn", "torncert", "late", "moving"}
  MaxFaults = 1
  MaxAges = 1
  MaxIssued = 10
  MaxSuffix = 9
INVARIANTS TypeOK NothingOverwritten PairsMatch
PROPERTY PairReturns
