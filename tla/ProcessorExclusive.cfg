\* One remote message, two overlapping retry scans, no stuck scan.
SPECIFICATION FairSpec
CONSTANTS
  NoMsg = NoMsg
  m1 = m1
  w1 = w1
  w2 = w2
  Msgs = {m1}
  LocalMsgs = {}
  Workers = {w1, w2}
  RetryScans = {"r1", "r2"}
  StuckScans = {}
  MaxRetries = 1
  TicketReplies = {"valid", "error"}
  UploadReplies = {"ok", "failed"}
  Faults = {}
  Flushing = TRUE
  MaxCopies = 2
  MaxCrashes = 1
CHECK_DEADLOCK FALSE
INVARIANTS OneAttemptAtATime RetryIsReadable AtMostOnce
PROPERTIES RetryDrains AcceptedIsPickedUp
