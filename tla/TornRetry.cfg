\* Overlapping MoveToRetryQueue calls and the retry scan.
SPECIFICATION FairSpec
CONSTANTS
  NoMsg = NoMsg
  m1 = m1
  w1 = w1
  w2 = w2
  Msgs = {m1}
  LocalMsgs = {}
  Workers = {w1}
  RetryScans = {"r1"}
  StuckScans = {"s1"}
  MaxRetries = 0
  TicketReplies = {"error"}
  UploadReplies = {"ok", "lost", "failed"}
  Faults = {}
  Flushing = FALSE
  MaxCopies = 1
  MaxCrashes = 0
PROPERTY RetryDrains
