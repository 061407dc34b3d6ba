\* A local message through two crashes and the recovery from them.
SPECIFICATION FairSpec
CONSTANTS
  NoMsg = NoMsg
  m1 = m1
  w1 = w1
  w2 = w2
  Msgs = {m1}
  LocalMsgs = {m1}
  Workers = {w1}
  RetryScans = {"r1"}
  StuckScans = {"s1"}
  MaxRetries = 0
  TicketReplies = {"valid"}
  UploadReplies = {"ok", "failed"}
  Faults = {}
  Flushing = TRUE
  MaxCopies = 1
  MaxCrashes = 2
PROPERTIES ProcessingDrains ImplementsDelivery
