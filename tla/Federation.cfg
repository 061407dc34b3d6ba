\* One message, to a server of this code or another program, with a crash and a failure.
SPECIFICATION FairMailSpec
CONSTANTS
  NoMsg = NoMsg
  NoId = NoId
  m1 = m1
  w1 = w1
  t1 = t1
  TicketIds = {t1}
  Msgs = {m1}
  LocalMsgs = {}
  Workers = {w1}
  RetryScans = {"r1"}
  StuckScans = {"s1"}
  MaxRetries = 0
  TicketReplies = {"valid", "error", "prooferror"}
  UploadReplies = {"ok", "lost", "failed"}
  Faults = {}
  Flushing = TRUE
  MaxCopies = 1
  MaxCrashes = 1
  Ours = {"ours"}
  Others = {"other"}
  OtherKinds = {"valid", "work", "hard"}
  MaxFailures = 1
INVARIANTS MailTypeOK RemovedIsMailed
PROPERTIES  OthersGetMail
