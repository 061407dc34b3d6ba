\* One message to a server of this code, when nothing fails.
SPECIFICATION FairMailSpec
CONSTANTS
  NoMsg = NoMsg
  NoId = NoId
  m1 = m1
  w1 = w1
  t1 = t1
  TicketIds = {t1}
  Msgs = {m1}
  LocalMsgs = {}
  Workers = {w1}
  RetryScans = {"r1"}
  StuckScans = {"s1"}
  MaxRetries = 0
  TicketReplies = {"valid", "error", "prooferror"}
  UploadReplies = {"ok", "lost", "failed"}
  Faults = {}
  Flushing = FALSE
  MaxCopies = 1
  MaxCrashes = 0
  Ours = {"ours"}
  Others = {}
  OtherKinds = {}
  MaxFailures = 0
PROPERTY MailArrives
