\* One remote message; two workers, a retry scan and a stuck scan race for it.
SPECIFICATION Spec
CONSTANTS
  NoMsg = NoMsg
  m1 = m1
  w1 = w1
  w2 = w2
  Msgs = {m1}
  LocalMsgs = {}
  Workers = {w1, w2}
  RetryScans = {"r1"}
  StuckScans = {"s1"}
  MaxRetries = 0
  TicketReplies = {"valid", "prooferror"}
  UploadReplies = {"ok", "lost", "failed"}
  Faults = {"rename", "remove", "store"}
  Flushing = FALSE
  MaxCopies = 1
  MaxCrashes = 1
SYMMETRY WorkerSymmetry
INVARIANTS TypeOK SpoolInv NoSilentLoss
PROPERTY ImplementsDelivery
