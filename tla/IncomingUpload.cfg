\* Two messages of two parts share the main loop; timeouts, an expiring ticket,
\* disk errors, an unreachable Redis and a crash.
SPECIFICATION Spec
CONSTANTS
  m1 = m1
  m2 = m2
  header = header
  block = block
  catalog = catalog
  Msgs = {m1, m2}
  Parts = {header, block}
  Faults = {"timeout", "expiry", "disk", "redis"}
  MaxCrashes = 1
CHECK_DEADLOCK FALSE
SYMMETRY IncomingSymmetry
INVARIANTS TypeOK QueuedIsComplete AcceptedIsKept MovedIsGone
PROPERTY OnlyLateUploadsReturn
