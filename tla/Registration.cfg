\* Two runs whose requests may overlap, a key look-up, and every fault but an
\* unreachable resolver.
SPECIFICATION Spec
CONSTANTS
  Boxes = {"inbox"}
  Fetchers = {"f1"}
  Faults = {"timeout", "quit", "vault", "network", "push", "expiry", "redis", "full"}
  MaxRuns = 2
  MaxCrashes = 1
INVARIANTS TypeOK RegisteredKeyIsHeld CreatedIsComplete RolledBack
