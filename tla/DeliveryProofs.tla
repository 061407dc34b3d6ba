---------------------------- MODULE DeliveryProofs ----------------------------
(***************************************************************************)
(* The queue processor loses no message silently, and its queues implement *)
(* the promise of Delivery.  SpoolInv is inductive: NoSilentLoss alone is  *)
(* not, because removing a processed message is right only when the worker *)
(* that removes it has seen it accepted (OnPath), and because removing one *)
(* directory of a message releases it only when it is the last (OneHome).  *)
(* The second half is about behaviours in which calls of MoveToRetryQueue  *)
(* meet nobody: one attempt at a time, and readable records.               *)
(***************************************************************************)
EXTENDS ProcessorProofs, FiniteSetTheorems

LEMMA InitSpool == Init => SpoolInv
<1> SUFFICES ASSUME Init PROVE SpoolInv
  OBVIOUS
<1>1. TypeOK
  BY InitType
<1>2. OneHome /\ NoSilentLoss
  BY DEF Init, OneHome, NoSilentLoss
<1>3. OnPath
  BY DEF Init, OnPath, IdleWorker
<1> QED BY <1>1, <1>2, <1>3 DEF SpoolInv

-----------------------------------------------------------------------------
(***************************************************************************)
(* The ways a step changes `at', and what each means for the promise.      *)
(***************************************************************************)
LEMMA MoveKeeps ==
  ASSUME SpoolInv, NEW m \in Msgs, NEW from \in Sections, NEW to \in Places,
         to = "inbox" => m \in LocalMsgs,
         from \in at[m], at' = Moved(at, m, from, to), UNCHANGED <<copies, gaveUp>>
  PROVE  /\ OneHome' /\ NoSilentLoss'
         /\ \A x \in Msgs : "inbox" \in at'[x] => x \in LocalMsgs
<1>1. at \in [Msgs -> SUBSET Places]
  BY DEF SpoolInv, TypeOK
<1>2. at'[m] = (at[m] \ {from}) \cup {to} /\ \A x \in Msgs \ {m} : at'[x] = at[x]
  BY <1>1 DEF Moved
<1>3. at[m] = {from}
  BY DEF SpoolInv, OneHome
<1>4. at'[m] = {to}
  BY <1>2, <1>3
<1> QED BY <1>2, <1>4 DEF SpoolInv, OneHome, NoSilentLoss, OnPath

LEMMA RemoveKeeps ==
  ASSUME SpoolInv, NEW m \in Msgs, Remove(m, "processing"),
         copies[m] > 0 \/ m \in gaveUp', copies' = copies, gaveUp \subseteq gaveUp'
  PROVE  /\ OneHome' /\ NoSilentLoss'
         /\ \A x \in Msgs : "inbox" \in at'[x] => x \in LocalMsgs
<1>1. at \in [Msgs -> SUBSET Places]
  BY DEF SpoolInv, TypeOK
<1>2. at'[m] = at[m] \ {"processing"} /\ \A x \in Msgs \ {m} : at'[x] = at[x]
  BY <1>1 DEF Remove, Removed
<1> QED BY <1>2 DEF SpoolInv, OneHome, NoSilentLoss, OnPath

\* A step that starts an attempt or ends one keeps the other attempts' paths.
LEMMA PathKeeps ==
  ASSUME SpoolInv, NEW w \in Workers,
         \A v \in Workers \ {w} : worker'[v] = worker[v],
         \A m \in Msgs : copies'[m] >= copies[m],
         \A m \in Msgs : "inbox" \in at'[m] => m \in LocalMsgs,
         worker'[w].pc = "local" => worker'[w].msg \in LocalMsgs,
         worker'[w].pc \in {"ticket", "upload", "complete", "remove"} => worker'[w].msg \notin LocalMsgs,
         worker'[w].pc = "remove" => copies'[worker'[w].msg] > 0,
         TypeOK'
  PROVE  OnPath'
<1> SUFFICES ASSUME NEW v \in Workers, v # w, worker[v].pc = "remove"
             PROVE  copies'[worker[v].msg] > 0
  BY DEF SpoolInv, OnPath
<1>1. worker[v].msg \in Msgs
  BY BusyWorker DEF SpoolInv
<1>2. copies[worker[v].msg] > 0
  BY DEF SpoolInv, OnPath
<1>3. copies[worker[v].msg] \in Nat /\ copies'[worker[v].msg] \in Nat
  BY <1>1, ProcessorAssumption DEF SpoolInv, TypeOK
<1> QED BY <1>1, <1>2, <1>3

\* A step that touches neither the places of directories nor the attempts.
LEMMA StillKeeps ==
  ASSUME SpoolInv, TypeOK', UNCHANGED <<at, copies, worker>>, gaveUp \subseteq gaveUp'
  PROVE  SpoolInv'
BY DEF SpoolInv, OneHome, OnPath, NoSilentLoss

\* A step of an attempt that leaves the directories where they are.
LEMMA AttemptKeeps ==
  ASSUME SpoolInv, TypeOK', NEW w \in Workers, UNCHANGED <<at, gaveUp>>,
         \A v \in Workers \ {w} : worker'[v] = worker[v],
         \A m \in Msgs : copies'[m] >= copies[m],
         worker'[w].pc = "local" => worker'[w].msg \in LocalMsgs,
         worker'[w].pc \in {"ticket", "upload", "complete", "remove"} => worker'[w].msg \notin LocalMsgs,
         worker'[w].pc = "remove" => copies'[worker'[w].msg] > 0
  PROVE  SpoolInv'
<1>1. OneHome'
  BY DEF SpoolInv, OneHome
<1>2. OnPath'
  <2>1. \A m \in Msgs : "inbox" \in at'[m] => m \in LocalMsgs
    BY DEF SpoolInv, OnPath
  <2> QED BY <2>1, PathKeeps
<1>3. NoSilentLoss'
  <2> SUFFICES ASSUME NEW m \in Msgs, copies[m] > 0 PROVE copies'[m] > 0
    BY DEF SpoolInv, NoSilentLoss
  <2>1. copies[m] \in Nat /\ copies'[m] \in Nat
    BY ProcessorAssumption DEF SpoolInv, TypeOK
  <2> QED BY <2>1
<1> QED BY <1>1, <1>2, <1>3 DEF SpoolInv

\* A rename, and the goroutine that may be started after it.
LEMMA RenameAndSpawn ==
  ASSUME SpoolInv, TypeOK', NEW m \in Msgs, NEW from \in Sections, NEW to \in Sections,
         UNCHANGED <<copies, gaveUp>>,
         \/ from \in at[m] /\ at' = Moved(at, m, from, to) /\ (Spawn(m) \/ UNCHANGED worker)
         \/ UNCHANGED <<at, worker>>
  PROVE  SpoolInv'
<1>1. CASE UNCHANGED <<at, worker>>
  BY <1>1, StillKeeps
<1>2. CASE from \in at[m] /\ at' = Moved(at, m, from, to) /\ (Spawn(m) \/ UNCHANGED worker)
  <2>1. to \in Places /\ to # "inbox"
    BY DEF Sections, Places
  <2>2. /\ OneHome' /\ NoSilentLoss'
        /\ \A x \in Msgs : "inbox" \in at'[x] => x \in LocalMsgs
    BY <1>2, <2>1, MoveKeeps
  <2>3. OnPath'
    <3>1. CASE UNCHANGED worker
      BY <2>2, <3>1 DEF SpoolInv, OnPath
    <3>2. ASSUME NEW w \in Workers,
                 worker' = [worker EXCEPT ![w] = [pc |-> "start", msg |-> m, again |-> FALSE]]
          PROVE  OnPath'
      <4>1. worker'[w].pc = "start" /\ \A v \in Workers \ {w} : worker'[v] = worker[v]
        BY <3>2 DEF SpoolInv, TypeOK
      <4>2. \A x \in Msgs : copies'[x] >= copies[x]
        BY ProcessorAssumption DEF SpoolInv, TypeOK
      <4> QED BY <2>2, <4>1, <4>2, PathKeeps
    <3> QED BY <1>2, <3>1, <3>2 DEF Spawn
  <2> QED BY <2>2, <2>3 DEF SpoolInv
<1> QED BY <1>1, <1>2

-----------------------------------------------------------------------------
\* The steps of an attempt.
LEMMA WorkerSpool ==
  ASSUME SpoolInv, TypeOK', NEW w \in Workers, ProcessMessage(w)
  PROVE  SpoolInv'
<1> USE DEF history
<1>b. worker[w].pc # "idle"
  BY DEF ProcessMessage, AddToScoreboard, Route, DeliverLocal, GetTicket, UploadMessage,
         CompleteUpload, RemoveProcessed, RetryAgain, RemoveFromScoreboard
<1>m. TypeOK /\ worker[w].msg \in Msgs
  BY <1>b, BusyWorker DEF SpoolInv
<1>c. \A m \in Msgs : copies[m] \in Nat
  BY <1>m, ProcessorAssumption DEF TypeOK
<1>g. ASSUME NEW pc, Goto(w, pc)
      PROVE  /\ worker'[w].pc = pc /\ worker'[w].msg = worker[w].msg
             /\ \A v \in Workers \ {w} : worker'[v] = worker[v]
  <2>1. worker[w] = [pc |-> worker[w].pc, msg |-> worker[w].msg, again |-> worker[w].again]
    BY <1>m DEF TypeOK, WorkerState, IdleWorker
  <2> QED BY <1>g, <1>m, <2>1 DEF TypeOK, Goto
<1>f. ASSUME Fail(w, FALSE) \/ Fail(w, TRUE)
      PROVE  /\ worker'[w].pc = "retrying"
             /\ \A v \in Workers \ {w} : worker'[v] = worker[v]
  BY <1>f, <1>m DEF TypeOK, Fail
<1>1. CASE AddToScoreboard(w)
  BY <1>1, <1>g, <1>c, AttemptKeeps DEF AddToScoreboard, spoolVars
<1>2. CASE Route(w)
  <2>1. UNCHANGED <<at, copies, gaveUp>>
    BY <1>2 DEF Route, spoolVars
  <2>2. CASE worker[w].msg \in LocalMsgs /\ Goto(w, "local")
    BY <2>1, <2>2, <1>g, <1>c, AttemptKeeps
  <2>3. CASE worker[w].msg \notin LocalMsgs /\ Goto(w, "ticket")
    BY <2>1, <2>3, <1>g, <1>c, AttemptKeeps
  <2>4. CASE Fail(w, FALSE)
    BY <2>1, <2>4, <1>f, <1>c, AttemptKeeps
  <2> QED BY <1>2, <2>2, <2>3, <2>4 DEF Route
<1>3. CASE DeliverLocal(w)
  <2>1. worker[w].msg \in LocalMsgs
    BY <1>3 DEF DeliverLocal, SpoolInv, OnPath
  <2>2. CASE Fail(w, FALSE) /\ UNCHANGED at
    BY <1>3, <2>2, <1>f, <1>c, AttemptKeeps DEF DeliverLocal
  <2>3. CASE /\ CanMove(at, worker[w].msg, "processing", "inbox")
             /\ at' = Moved(at, worker[w].msg, "processing", "inbox")
             /\ Goto(w, "done")
    <3>1. "processing" \in Sections /\ "inbox" \in Places
      BY DEF Sections, Places
    <3>2. /\ OneHome' /\ NoSilentLoss'
          /\ \A x \in Msgs : "inbox" \in at'[x] => x \in LocalMsgs
      BY <1>3, <1>m, <2>1, <2>3, <3>1, MoveKeeps DEF CanMove, DeliverLocal
    <3>3. OnPath'
      BY <1>3, <2>3, <3>2, <1>g, <1>c, PathKeeps DEF DeliverLocal
    <3> QED BY <3>2, <3>3 DEF SpoolInv
  <2> QED BY <1>3, <2>2, <2>3 DEF DeliverLocal
<1>4. CASE GetTicket(w)
  <2>1. UNCHANGED <<at, copies, gaveUp>> /\ worker[w].msg \notin LocalMsgs
    BY <1>4 DEF GetTicket, spoolVars, SpoolInv, OnPath
  <2>2. CASE Goto(w, "upload")
    BY <2>1, <2>2, <1>g, <1>c, AttemptKeeps
  <2>3. CASE Fail(w, FALSE) \/ Fail(w, TRUE)
    <3>1. worker'[w].pc = "retrying" /\ \A v \in Workers \ {w} : worker'[v] = worker[v]
      BY <2>3, <1>f
    <3> QED BY <2>1, <3>1, <1>c, AttemptKeeps
  <2> QED BY <1>4, <2>2, <2>3 DEF GetTicket
<1>5. CASE UploadMessage(w)
  <2>1. UNCHANGED <<at, copies, gaveUp>> /\ worker[w].msg \notin LocalMsgs
    BY <1>5 DEF UploadMessage, spoolVars, SpoolInv, OnPath
  <2>2. CASE Goto(w, "complete")
    BY <2>1, <2>2, <1>g, <1>c, AttemptKeeps
  <2>3. CASE Fail(w, FALSE)
    BY <2>1, <2>3, <1>f, <1>c, AttemptKeeps
  <2> QED BY <1>5, <2>2, <2>3 DEF UploadMessage
<1>6. CASE CompleteUpload(w)
  <2>1. UNCHANGED <<at, gaveUp>> /\ worker[w].msg \notin LocalMsgs
    BY <1>6 DEF CompleteUpload, spoolVars, SpoolInv, OnPath
  <2>2. PICK reply \in UploadReplies :
          /\ copies' = IF reply = "failed" THEN copies
                       ELSE [copies EXCEPT ![worker[w].msg] = AddCopy(@)]
          /\ IF reply = "ok" THEN Goto(w, "remove") /\ UNCHANGED mover ELSE Fail(w, FALSE)
    BY <1>6 DEF CompleteUpload
  <2>3. \A n \in 0 .. MaxCopies : AddCopy(n) >= n /\ AddCopy(n) > 0
    BY ProcessorAssumption DEF AddCopy
  <2>4. \A m \in Msgs : copies'[m] >= copies[m]
    BY <2>2, <2>3, <1>m, <1>c DEF TypeOK
  <2>5. CASE reply = "ok"
    <3>1. copies'[worker[w].msg] > 0
      BY <2>2, <2>3, <2>5, <1>m DEF TypeOK
    <3>2. Goto(w, "remove")
      BY <2>2, <2>5
    <3> QED BY <2>1, <2>4, <3>1, <3>2, <1>g, AttemptKeeps
  <2>6. CASE reply # "ok"
    BY <2>1, <2>2, <2>4, <2>6, <1>f, AttemptKeeps
  <2> QED BY <2>5, <2>6
<1>7. CASE RemoveProcessed(w)
  <2>1. copies[worker[w].msg] > 0
    BY <1>7 DEF RemoveProcessed, SpoolInv, OnPath
  <2>2. CASE Fail(w, FALSE) /\ UNCHANGED spoolVars
    BY <1>7, <2>2, <1>f, <1>c, AttemptKeeps DEF RemoveProcessed, spoolVars
  <2>3. CASE Remove(worker[w].msg, "processing") /\ Goto(w, "done")
    <3>1. /\ OneHome' /\ NoSilentLoss'
          /\ \A x \in Msgs : "inbox" \in at'[x] => x \in LocalMsgs
      BY <1>7, <1>m, <2>1, <2>3, RemoveKeeps DEF RemoveProcessed
    <3>2. OnPath'
      BY <1>7, <2>3, <3>1, <1>g, <1>c, PathKeeps DEF RemoveProcessed
    <3> QED BY <3>1, <3>2 DEF SpoolInv
  <2> QED BY <1>7, <2>2, <2>3 DEF RemoveProcessed
<1>8. CASE RetryAgain(w)
  <2>1. worker'[w].pc = "retrying" /\ \A v \in Workers \ {w} : worker'[v] = worker[v]
    BY <1>8, <1>m DEF RetryAgain, TypeOK, WorkerState
  <2> QED BY <1>8, <2>1, <1>c, AttemptKeeps DEF RetryAgain, spoolVars
<1>9. CASE RemoveFromScoreboard(w)
  <2>1. worker'[w].pc = "idle" /\ \A v \in Workers \ {w} : worker'[v] = worker[v]
    BY <1>9, <1>m DEF RemoveFromScoreboard, IdleWorker, TypeOK
  <2> QED BY <1>9, <2>1, <1>c, AttemptKeeps DEF RemoveFromScoreboard, spoolVars
<1> QED BY <1>1, <1>2, <1>3, <1>4, <1>5, <1>6, <1>7, <1>8, <1>9 DEF ProcessMessage

\* The steps of the handlers, the loop, the scans and MoveToRetryQueue.
LEMMA OtherSpool ==
  ASSUME SpoolInv, TypeOK',
         \/ MakeChannel \/ MoveIncoming
         \/ \E m \in Msgs : \/ QueueIncomingMessage(m) \/ ReceiveIncoming(m)
                            \/ AckIncoming(m) \/ RetryTimePasses(m)
         \/ \E t \in Threads : MoveToRetryQueue(t)
         \/ \E r \in RetryScans, force \in BOOLEAN : StartRetryScan(r, force)
         \/ \E s \in StuckScans : StartStuckScan(s) \/ CheckStuck(s)
  PROVE  SpoolInv'
<1> USE DEF spoolVars, history
<1>s. {"incoming", "processing", "retry"} \subseteq Sections
  BY DEF Sections
<1>1. CASE MakeChannel
  BY <1>1, StillKeeps DEF MakeChannel
<1>2. CASE MoveIncoming
  <2>1. loop.msg \in Msgs
    BY <1>2 DEF MoveIncoming, SpoolInv, TypeOK, LoopState
  <2> QED BY <1>2, <1>s, <2>1, RenameAndSpawn DEF MoveIncoming, CanMove
<1>3. ASSUME NEW m \in Msgs,
             QueueIncomingMessage(m) \/ ReceiveIncoming(m) \/ AckIncoming(m) \/ RetryTimePasses(m)
      PROVE  SpoolInv'
  BY <1>3, StillKeeps DEF QueueIncomingMessage, ReceiveIncoming, AckIncoming, RetryTimePasses
<1>4. ASSUME NEW t \in Threads, MoveToRetryQueue(t) PROVE SpoolInv'
  <2>1. CASE MoverRead(t) \/ MoverOpen(t) \/ MoverWrite(t)
    BY <2>1, StillKeeps DEF MoverRead, MoverOpen, MoverWrite
  <2>2. CASE MoverMove(t)
    <3>1. mover[t].msg \in Msgs
      BY <2>2, BusyMover DEF MoverMove, SpoolInv
    <3> QED BY <2>2, <1>s, <3>1, RenameAndSpawn DEF MoverMove, CanMove
  <2> QED BY <1>4, <2>1, <2>2 DEF MoveToRetryQueue
<1>5. ASSUME NEW r \in RetryScans, NEW force \in BOOLEAN, StartRetryScan(r, force) PROVE SpoolInv'
  BY <1>5, StillKeeps DEF StartRetryScan
<1>6. ASSUME NEW s \in StuckScans, StartStuckScan(s) \/ CheckStuck(s) PROVE SpoolInv'
  BY <1>6, StillKeeps DEF StartStuckScan, CheckStuck
<1> QED BY <1>1, <1>2, <1>3, <1>4, <1>5, <1>6

LEMMA ScanSpool ==
  ASSUME SpoolInv, TypeOK', NEW r \in RetryScans, NEW e \in retryScan[r].todo,
         GiveUpEntry(r, e) \/ RetryEntry(r, e)
  PROVE  SpoolInv'
<1> USE DEF spoolVars, history
<1>m. e.msg \in Msgs
  BY DEF SpoolInv, TypeOK, RetryScanState, Entry
<1>1. CASE GiveUpEntry(r, e)
  <2>1. CASE UNCHANGED spoolVars
    BY <1>1, <2>1, StillKeeps DEF GiveUpEntry
  <2>2. CASE Remove(e.msg, "processing")
    <3>1. /\ OneHome' /\ NoSilentLoss'
          /\ \A x \in Msgs : "inbox" \in at'[x] => x \in LocalMsgs
      BY <1>1, <1>m, <2>2, RemoveKeeps DEF GiveUpEntry
    <3>2. OnPath'
      BY <1>1, <3>1 DEF GiveUpEntry, SpoolInv, OnPath
    <3> QED BY <3>1, <3>2 DEF SpoolInv
  <2> QED BY <1>1, <2>1, <2>2 DEF GiveUpEntry
<1>2. CASE RetryEntry(r, e)
  <2>1. {"processing", "retry"} \subseteq Sections
    BY DEF Sections
  <2> QED BY <1>2, <1>m, <2>1, RenameAndSpawn DEF RetryEntry, CanMove
<1> QED BY <1>1, <1>2

LEMMA DiesSpool ==
  ASSUME SpoolInv, TypeOK', Dies
  PROVE  SpoolInv'
BY DEF Dies, spoolVars, SpoolInv, OneHome, OnPath, NoSilentLoss, IdleWorker

LEMMA NextSpool == SpoolInv /\ [Next]_vars => SpoolInv'
<1> SUFFICES ASSUME SpoolInv, [Next]_vars PROVE SpoolInv'
  OBVIOUS
<1>1. TypeOK'
  BY NextType DEF SpoolInv
<1>2. CASE UNCHANGED vars
  BY <1>1, <1>2, StillKeeps DEF vars
<1>3. CASE Next
  BY <1>1, <1>3, WorkerSpool, OtherSpool, ScanSpool, DiesSpool DEF Next, Crash, ProcessRetryQueue
<1> QED BY <1>2, <1>3

\* SpoolInv holds in every behaviour, however many goroutines there are.
THEOREM SpoolCorrect == Spec => []SpoolInv
<1> QED BY InitSpool, NextSpool, PTL DEF Spec

\* No message disappears without having been accepted by the remote server or
\* declared expired: for any number of messages, goroutines, faults, crashes.
THEOREM NothingLostSilently == Spec => []NoSilentLoss
<1>1. SpoolInv => NoSilentLoss
  BY DEF SpoolInv
<1> QED BY <1>1, SpoolCorrect, PTL

-----------------------------------------------------------------------------
(***************************************************************************)
(* The refinement: which steps the promise sees.                           *)
(***************************************************************************)
Unseen == UNCHANGED <<Owned, Delivered, gaveUp>>

LEMMA StutterUnseen ==
  ASSUME UNCHANGED <<at, copies, gaveUp>>
  PROVE  Unseen
BY DEF Unseen, Owned, Delivered

\* A rename between two sections.
LEMMA MoveUnseen ==
  ASSUME TypeOK, NEW m \in Msgs, NEW from \in Sections, NEW to \in Sections,
         from \in at[m], at' = Moved(at, m, from, to), UNCHANGED <<copies, gaveUp>>
  PROVE  Unseen
<1>1. at'[m] = (at[m] \ {from}) \cup {to} /\ \A x \in Msgs \ {m} : at'[x] = at[x]
  BY DEF TypeOK, Moved
<1>2. \A x \in Msgs : at'[x] \cap Sections # {} <=> at[x] \cap Sections # {}
  BY <1>1
<1>3. \A x \in Msgs : "inbox" \in at'[x] <=> "inbox" \in at[x]
  BY <1>1 DEF Sections
<1> QED BY <1>2, <1>3 DEF Unseen, Owned, Delivered

\* What remains of a message whose directory in the processing section goes.
LEMMA RemoveSeen ==
  ASSUME SpoolInv, NEW m \in Msgs, Remove(m, "processing")
  PROVE  /\ "processing" \in at[m] => m \in Owned /\ Owned' = Owned \ {m}
         /\ "processing" \notin at[m] => Owned' = Owned
         /\ UNCHANGED copies => UNCHANGED Delivered
<1>1. at'[m] = at[m] \ {"processing"} /\ \A x \in Msgs \ {m} : at'[x] = at[x]
  BY DEF Remove, Removed, SpoolInv, TypeOK
<1>2. "processing" \in at[m] => at[m] = {"processing"}
  BY DEF SpoolInv, OneHome
<1>3. "processing" \in at[m] => m \in Owned /\ Owned' = Owned \ {m}
  BY <1>1, <1>2 DEF Owned, Sections
<1>4. \A x \in Msgs : "inbox" \in at'[x] <=> "inbox" \in at[x]
  BY <1>1
<1> QED BY <1>1, <1>3, <1>4 DEF Owned, Delivered

LEMMA InitImplements == Init => Promise!DeliveryInit
<1> SUFFICES ASSUME Init PROVE Promise!DeliveryInit
  OBVIOUS
<1>1. \A m \in Msgs : at[m] = {"incoming"} /\ copies[m] = 0
  BY DEF Init
<1>2. Owned = Msgs
  BY <1>1 DEF Owned, Sections
<1>3. Delivered = [m \in Msgs |-> 0]
  BY <1>1 DEF Delivered
<1>4. gaveUp = {}
  BY DEF Init
<1> QED BY <1>2, <1>3, <1>4 DEF Promise!DeliveryInit

LEMMA WorkerImplements ==
  ASSUME SpoolInv, NEW w \in Workers, ProcessMessage(w)
  PROVE  Promise!DeliveryNext \/ Unseen
<1> USE DEF spoolVars, history
<1>b. worker[w].pc # "idle"
  BY DEF ProcessMessage, AddToScoreboard, Route, DeliverLocal, GetTicket, UploadMessage,
         CompleteUpload, RemoveProcessed, RetryAgain, RemoveFromScoreboard
<1> DEFINE m == worker[w].msg
<1>m. m \in Msgs
  BY <1>b, BusyWorker DEF SpoolInv
<1>1. CASE \/ AddToScoreboard(w) \/ Route(w) \/ GetTicket(w) \/ UploadMessage(w)
           \/ RetryAgain(w) \/ RemoveFromScoreboard(w)
  BY <1>1, StutterUnseen DEF AddToScoreboard, Route, GetTicket, UploadMessage, RetryAgain,
                             RemoveFromScoreboard
<1>2. CASE DeliverLocal(w)
  <2>1. CASE UNCHANGED at
    BY <1>2, <2>1, StutterUnseen DEF DeliverLocal
  <2>2. CASE CanMove(at, m, "processing", "inbox") /\ at' = Moved(at, m, "processing", "inbox")
    <3>1. m \in LocalMsgs
      BY <1>2 DEF DeliverLocal, SpoolInv, OnPath
    <3>2. at[m] = {"processing"}
      BY <2>2, <1>m DEF CanMove, SpoolInv, OneHome
    <3>3. at'[m] = {"inbox"} /\ \A x \in Msgs \ {m} : at'[x] = at[x]
      BY <2>2, <3>2, <1>m DEF Moved, SpoolInv, TypeOK
    <3>4. m \in Owned /\ Owned' = Owned \ {m}
      BY <3>2, <3>3, <1>m DEF Owned, Sections
    <3>5. Delivered[m] = 0
      BY <3>1, <3>2, <1>m DEF Delivered
    <3>6. Delivered' = [Delivered EXCEPT ![m] = 1]
      BY <1>2, <3>1, <3>3, <1>m DEF Delivered, DeliverLocal
    <3>7. Promise!HandOver(m)
      BY <1>2, <3>1, <3>4, <3>5, <3>6 DEF Promise!HandOver, DeliverLocal
    <3> QED BY <1>m, <3>7 DEF Promise!DeliveryNext
  <2> QED BY <1>2, <2>1, <2>2 DEF DeliverLocal
<1>3. CASE CompleteUpload(w)
  <2>1. m \notin LocalMsgs
    BY <1>3 DEF CompleteUpload, SpoolInv, OnPath
  <2>2. CASE UNCHANGED copies
    BY <1>3, <2>2, StutterUnseen DEF CompleteUpload
  <2>3. CASE copies' = [copies EXCEPT ![m] = AddCopy(@)]
    <3>1. UNCHANGED at
      BY <1>3 DEF CompleteUpload
    <3>2. Delivered' = [Delivered EXCEPT ![m] = Promise!AddCopy(@)]
      BY <2>1, <2>3, <3>1, <1>m DEF Delivered, SpoolInv, TypeOK, AddCopy, Promise!AddCopy
    <3>3. Promise!Transmit(m)
      BY <1>3, <1>m, <2>1, <3>1, <3>2 DEF Promise!Transmit, CompleteUpload, Owned
    <3> QED BY <1>m, <3>3 DEF Promise!DeliveryNext
  <2> QED BY <1>3, <2>2, <2>3 DEF CompleteUpload
<1>4. CASE RemoveProcessed(w)
  <2>1. CASE UNCHANGED at
    BY <1>4, <2>1, StutterUnseen DEF RemoveProcessed
  <2>2. CASE Remove(m, "processing")
    <3>1. copies[m] > 0 /\ m \notin LocalMsgs
      BY <1>4 DEF RemoveProcessed, SpoolInv, OnPath
    <3>2. Delivered[m] > 0 /\ UNCHANGED Delivered
      BY <1>4, <1>m, <2>2, <3>1, RemoveSeen DEF Delivered, RemoveProcessed
    <3>3. CASE "processing" \in at[m]
      <4>1. Promise!Settle(m)
        BY <1>4, <1>m, <2>2, <3>2, <3>3, RemoveSeen DEF Promise!Settle, RemoveProcessed
      <4> QED BY <1>m, <4>1 DEF Promise!DeliveryNext
    <3>4. CASE "processing" \notin at[m]
      BY <1>4, <1>m, <2>2, <3>2, <3>4, RemoveSeen DEF Unseen, RemoveProcessed
    <3> QED BY <3>3, <3>4
  <2> QED BY <1>4, <2>1, <2>2 DEF RemoveProcessed
<1> QED BY <1>1, <1>2, <1>3, <1>4 DEF ProcessMessage

LEMMA OtherImplements ==
  ASSUME SpoolInv,
         \/ MakeChannel \/ MoveIncoming \/ Crash
         \/ \E m \in Msgs : \/ QueueIncomingMessage(m) \/ ReceiveIncoming(m)
                            \/ AckIncoming(m) \/ RetryTimePasses(m)
         \/ \E t \in Threads : MoveToRetryQueue(t)
         \/ \E r \in RetryScans, force \in BOOLEAN : StartRetryScan(r, force)
         \/ \E s \in StuckScans : StartStuckScan(s) \/ CheckStuck(s)
  PROVE  Unseen
<1> USE DEF spoolVars, history
<1>s. TypeOK /\ {"incoming", "processing", "retry"} \subseteq Sections
  BY DEF Sections, SpoolInv
<1>1. CASE MoveIncoming
  <2>1. loop.msg \in Msgs
    BY <1>1, <1>s DEF MoveIncoming, TypeOK, LoopState
  <2>2. CASE UNCHANGED at
    BY <1>1, <2>2, StutterUnseen DEF MoveIncoming
  <2>3. CASE /\ CanMove(at, loop.msg, "incoming", "processing")
             /\ at' = Moved(at, loop.msg, "incoming", "processing")
    BY <1>1, <1>s, <2>1, <2>3, MoveUnseen DEF MoveIncoming, CanMove
  <2> QED BY <1>1, <2>2, <2>3 DEF MoveIncoming
<1>2. ASSUME NEW t \in Threads, MoverMove(t) PROVE Unseen
  <2>1. mover[t].msg \in Msgs
    BY <1>2, <1>s, BusyMover DEF MoverMove
  <2>2. CASE UNCHANGED at
    BY <1>2, <2>2, StutterUnseen DEF MoverMove
  <2>3. CASE /\ CanMove(at, mover[t].msg, "processing", "retry")
             /\ at' = Moved(at, mover[t].msg, "processing", "retry")
    BY <1>2, <1>s, <2>1, <2>3, MoveUnseen DEF MoverMove, CanMove
  <2> QED BY <1>2, <2>2, <2>3 DEF MoverMove
<1>3. ASSUME NEW t \in Threads, MoverRead(t) \/ MoverOpen(t) \/ MoverWrite(t) PROVE Unseen
  BY <1>3, StutterUnseen DEF MoverRead, MoverOpen, MoverWrite
<1>4. CASE MakeChannel \/ Crash
  BY <1>4, StutterUnseen DEF MakeChannel, Crash, Dies, spoolVars
<1>5. ASSUME NEW m \in Msgs,
             QueueIncomingMessage(m) \/ ReceiveIncoming(m) \/ AckIncoming(m) \/ RetryTimePasses(m)
      PROVE  Unseen
  BY <1>5, StutterUnseen DEF QueueIncomingMessage, ReceiveIncoming, AckIncoming, RetryTimePasses
<1>6. ASSUME NEW r \in RetryScans, NEW force \in BOOLEAN, StartRetryScan(r, force) PROVE Unseen
  BY <1>6, StutterUnseen DEF StartRetryScan
<1>7. ASSUME NEW s \in StuckScans, StartStuckScan(s) \/ CheckStuck(s) PROVE Unseen
  BY <1>7, StutterUnseen DEF StartStuckScan, CheckStuck
<1> QED BY <1>1, <1>2, <1>3, <1>4, <1>5, <1>6, <1>7 DEF MoveToRetryQueue

LEMMA ScanImplements ==
  ASSUME SpoolInv, NEW r \in RetryScans, NEW e \in retryScan[r].todo,
         GiveUpEntry(r, e) \/ RetryEntry(r, e)
  PROVE  Promise!DeliveryNext \/ Unseen
<1> USE DEF spoolVars, history
<1>m. TypeOK /\ e.msg \in Msgs
  BY DEF SpoolInv, TypeOK, RetryScanState, Entry
<1>1. CASE GiveUpEntry(r, e)
  <2>1. Owned' \in {Owned, Owned \ {e.msg}} /\ UNCHANGED Delivered
    <3>1. CASE UNCHANGED spoolVars
      BY <1>1, <3>1 DEF GiveUpEntry, Owned, Delivered
    <3>2. CASE Remove(e.msg, "processing")
      BY <1>1, <1>m, <3>2, RemoveSeen DEF GiveUpEntry
    <3> QED BY <1>1, <3>1, <3>2 DEF GiveUpEntry
  <2>2. Promise!GiveUp(e.msg)
    BY <1>1, <1>m, <2>1 DEF Promise!GiveUp, GiveUpEntry
  <2> QED BY <1>m, <2>2 DEF Promise!DeliveryNext
<1>2. CASE RetryEntry(r, e)
  <2>1. CASE UNCHANGED at
    BY <1>2, <2>1, StutterUnseen DEF RetryEntry
  <2>2. CASE /\ CanMove(at, e.msg, "retry", "processing")
             /\ at' = Moved(at, e.msg, "retry", "processing")
    <3>1. {"processing", "retry"} \subseteq Sections
      BY DEF Sections
    <3> QED BY <1>2, <1>m, <2>2, <3>1, MoveUnseen DEF RetryEntry, CanMove
  <2> QED BY <1>2, <2>1, <2>2 DEF RetryEntry
<1> QED BY <1>1, <1>2

LEMMA NextImplements ==
  SpoolInv /\ [Next]_vars => [Promise!DeliveryNext]_(Promise!deliveryVars)
<1> SUFFICES ASSUME SpoolInv, [Next]_vars
             PROVE  Promise!DeliveryNext \/ Unseen
  BY DEF Unseen, Promise!deliveryVars
<1>1. CASE UNCHANGED vars
  BY <1>1, StutterUnseen DEF vars
<1>2. CASE Next
  BY <1>2, WorkerImplements, OtherImplements, ScanImplements DEF Next, ProcessRetryQueue
<1> QED BY <1>1, <1>2

\* The queues keep the promise of Delivery: every message stays owned until it
\* was delivered or given up, and is never owned again.
THEOREM QueuesImplementDelivery == Spec => ImplementsDelivery
<1> QED BY InitImplements, NextImplements, SpoolCorrect, PTL
        DEF Spec, ImplementsDelivery, Promise!DeliverySpec

-----------------------------------------------------------------------------
(***************************************************************************)
(* What a behaviour can rely on in which no call of MoveToRetryQueue meets *)
(* an attempt at its message or another call for it (Apart), with stuck    *)
(* scans, failing proof exchanges, faults and crashes: the overlap of such *)
(* calls is the only way to two attempts at once and to a torn record.     *)
(* OneAttemptAtATime is not inductive, since it does not keep a scan from  *)
(* starting an attempt while a message is being uploaded: the directory    *)
(* of a worker is in the processing section or gone (AttemptInv).          *)
(***************************************************************************)
\* Worker w has not yet passed its message on.
Working(w) == worker[w].pc \notin {"idle", "retrying", "done"}

AttemptInv ==
  /\ \A w \in Workers :
       /\ mover[w].pc # "idle" => worker[w].pc = "retrying" /\ mover[w].msg = worker[w].msg
       /\ Working(w) => at[worker[w].msg] \subseteq {"processing"}
  /\ \A v, w \in Workers :
       Working(v) /\ Working(w) /\ worker[v].msg = worker[w].msg => v = w

\* What a step of worker w outside of MoveToRetryQueue can do: it touches its own
\* message only, and that only until it has passed it on.
OwnStep(w) ==
  /\ \A v \in Workers \ {w} : worker'[v] = worker[v]
  /\ \A t \in Threads \ {w} : mover'[t] = mover[t]
  /\ mover'[w] = mover[w] \/ mover'[w].pc = "read"
  /\ mover'[w].pc # "idle" => worker'[w].pc = "retrying" /\ mover'[w].msg = worker'[w].msg
  /\ Working(w)' => Working(w) /\ worker'[w].msg = worker[w].msg /\ UNCHANGED at
  /\ \A m \in Msgs : m # worker[w].msg \/ ~Working(w) => at'[m] = at[m] /\ retryFile'[m] = retryFile[m]
  /\ \A m \in Msgs : "retry" \in at'[m] => "retry" \in at[m]

\* A step of MoveToRetryQueue touches its message only.
MoveStep(t) ==
  /\ mover[t].pc # "idle"
  /\ UNCHANGED worker
  /\ \A s \in Threads \ {t} : mover'[s] = mover[s]
  /\ mover'[t].pc # "idle" => mover'[t].msg = mover[t].msg /\ UNCHANGED at
  /\ \A m \in Msgs : m # mover[t].msg => at'[m] = at[m] /\ retryFile'[m] = retryFile[m]

\* A step that starts an attempt moves the directory to the processing section.
StartStep(w, m, from) ==
  /\ worker[w].pc = "idle" /\ from \in {"incoming", "retry"}
  /\ from \in at[m] /\ at' = Moved(at, m, from, "processing")
  /\ worker' = [worker EXCEPT ![w] = [pc |-> "start", msg |-> m, again |-> FALSE]]
  /\ UNCHANGED <<retryFile, mover>>

\* A stuck scan calls MoveToRetryQueue, or goes on.
CallStep ==
  /\ UNCHANGED <<at, retryFile, worker>>
  /\ \A t \in Threads : mover'[t] = mover[t] \/ (t \notin Workers /\ mover'[t].pc = "read")

\* A step of somebody else may remove a directory, but moves none.
OtherStep ==
  /\ UNCHANGED <<worker, mover>>
  /\ \A m \in Msgs :
       /\ at'[m] \subseteq at[m]
       /\ at'[m] = {} \/ retryFile'[m].state = retryFile[m].state

LEMMA WorkerStepIsOwn ==
  ASSUME SpoolInv, AttemptInv, NEW w \in Workers, ProcessMessage(w)
  PROVE  OwnStep(w)
<1> USE DEF spoolVars, history
<1>b. worker[w].pc # "idle"
  BY DEF ProcessMessage, AddToScoreboard, Route, DeliverLocal, GetTicket, UploadMessage,
         CompleteUpload, RemoveProcessed, RetryAgain, RemoveFromScoreboard
<1>t. TypeOK /\ worker[w].msg \in Msgs /\ w \in Threads
  BY <1>b, BusyWorker DEF SpoolInv, Threads
<1>i. mover[w].pc # "idle" => worker[w].pc = "retrying" /\ mover[w].msg = worker[w].msg
  BY DEF AttemptInv
\* The worker goes on, passes its message on, or ends.
<1>g. ASSUME NEW pc, Goto(w, pc), UNCHANGED mover
      PROVE  /\ \A v \in Workers \ {w} : worker'[v] = worker[v]
             /\ worker'[w].pc = pc /\ worker'[w].msg = worker[w].msg
  <2>1. worker[w] = [pc |-> worker[w].pc, msg |-> worker[w].msg, again |-> worker[w].again]
    BY <1>t DEF TypeOK, WorkerState, IdleWorker
  <2> QED BY <1>g, <1>t, <2>1 DEF TypeOK, Goto
<1>c. ASSUME NEW m, CallMoveToRetryQueue(w, m)
      PROVE  /\ \A t \in Threads \ {w} : mover'[t] = mover[t]
             /\ mover'[w].pc = "read" /\ mover'[w].msg = m
  BY <1>c, <1>t DEF TypeOK, CallMoveToRetryQueue
<1>f. ASSUME NEW again \in BOOLEAN, Fail(w, again)
      PROVE  /\ \A v \in Workers \ {w} : worker'[v] = worker[v]
             /\ \A t \in Threads \ {w} : mover'[t] = mover[t]
             /\ worker'[w].pc = "retrying" /\ worker'[w].msg = worker[w].msg
             /\ mover'[w].pc = "read" /\ mover'[w].msg = worker[w].msg
  BY <1>f, <1>t, <1>c DEF TypeOK, Fail
<1>x. ASSUME NEW pc, Goto(w, pc), UNCHANGED <<at, retryFile, mover>>, Working(w) PROVE OwnStep(w)
  BY <1>x, <1>g, <1>i DEF OwnStep, Working
<1>y. ASSUME NEW again \in BOOLEAN, Fail(w, again), UNCHANGED <<at, retryFile>> PROVE OwnStep(w)
  BY <1>y, <1>f DEF OwnStep, Working
<1>1. CASE AddToScoreboard(w) \/ Route(w) \/ GetTicket(w) \/ UploadMessage(w) \/ CompleteUpload(w)
  <2>1. Working(w) /\ UNCHANGED <<at, retryFile>>
    BY <1>1 DEF Working, AddToScoreboard, Route, GetTicket, UploadMessage, CompleteUpload
  <2>2. \/ \E pc \in {"route", "local", "ticket", "upload", "complete", "remove"} :
             Goto(w, pc) /\ UNCHANGED mover
        \/ \E again \in BOOLEAN : Fail(w, again)
    BY <1>1 DEF AddToScoreboard, Route, GetTicket, UploadMessage, CompleteUpload
  <2> QED BY <2>1, <2>2, <1>x, <1>y
<1>2. CASE DeliverLocal(w)
  <2>1. CASE Fail(w, FALSE) /\ UNCHANGED at
    BY <1>2, <2>1, <1>y DEF DeliverLocal
  <2>2. CASE at' = Moved(at, worker[w].msg, "processing", "inbox") /\ Goto(w, "done") /\ UNCHANGED mover
    <3>1. /\ \A m \in Msgs : m # worker[w].msg => at'[m] = at[m]
          /\ \A m \in Msgs : "retry" \in at'[m] => "retry" \in at[m]
      BY <2>2, <1>t DEF Moved, TypeOK
    <3> QED BY <1>2, <2>2, <3>1, <1>g, <1>i DEF DeliverLocal, OwnStep, Working
  <2> QED BY <1>2, <2>1, <2>2 DEF DeliverLocal
<1>3. CASE RemoveProcessed(w)
  <2>1. CASE Fail(w, FALSE) /\ UNCHANGED spoolVars
    BY <2>1, <1>y
  <2>2. CASE Remove(worker[w].msg, "processing") /\ Goto(w, "done") /\ UNCHANGED mover
    <3>1. /\ \A m \in Msgs : m # worker[w].msg => at'[m] = at[m] /\ retryFile'[m] = retryFile[m]
          /\ \A m \in Msgs : "retry" \in at'[m] => "retry" \in at[m]
      BY <2>2, <1>t DEF Remove, Removed, TypeOK
    <3> QED BY <1>3, <2>2, <3>1, <1>g, <1>i DEF RemoveProcessed, OwnStep, Working
  <2> QED BY <1>3, <2>1, <2>2 DEF RemoveProcessed
<1>4. CASE RetryAgain(w)
  <2>1. /\ \A v \in Workers \ {w} : worker'[v] = worker[v]
        /\ worker'[w].pc = "retrying" /\ worker'[w].msg = worker[w].msg
    BY <1>4, <1>t DEF RetryAgain, TypeOK, WorkerState
  <2> QED BY <1>4, <2>1, <1>c DEF RetryAgain, OwnStep, Working
<1>5. CASE RemoveFromScoreboard(w)
  <2>1. mover[w].pc = "idle" /\ UNCHANGED <<at, retryFile, mover>>
    BY <1>5 DEF RemoveFromScoreboard
  <2>2. worker'[w] = IdleWorker /\ \A v \in Workers \ {w} : worker'[v] = worker[v]
    BY <1>5, <1>t DEF RemoveFromScoreboard, TypeOK
  <2> QED BY <2>1, <2>2 DEF OwnStep, Working, IdleWorker
<1> QED BY <1>1, <1>2, <1>3, <1>4, <1>5 DEF ProcessMessage

LEMMA MoverStepIsMove ==
  ASSUME TypeOK, NEW t \in Threads, MoveToRetryQueue(t)
  PROVE  MoveStep(t)
<1> USE DEF spoolVars, history
<1>b. mover[t].pc # "idle" /\ UNCHANGED worker
  BY DEF MoveToRetryQueue, MoverRead, MoverOpen, MoverWrite, MoverMove
<1>m. mover[t].msg \in Msgs
  BY <1>b, BusyMover
<1>1. mover[t] = [pc |-> mover[t].pc, msg |-> mover[t].msg, retries |-> mover[t].retries]
  BY <1>b DEF TypeOK, MoverState, IdleMover
<1>2. mover'[t].pc # "idle" => mover'[t].msg = mover[t].msg /\ UNCHANGED at
  <2>1. CASE MoverRead(t) \/ MoverOpen(t) \/ MoverWrite(t)
    BY <2>1, <1>1 DEF MoverRead, MoverOpen, MoverWrite, TypeOK
  <2>2. CASE MoverMove(t)
    BY <2>2 DEF MoverMove, TypeOK, IdleMover
  <2> QED BY <2>1, <2>2 DEF MoveToRetryQueue
<1>3. \A s \in Threads \ {t} : mover'[s] = mover[s]
  BY DEF MoveToRetryQueue, MoverRead, MoverOpen, MoverWrite, MoverMove, TypeOK
<1>4. \A m \in Msgs : m # mover[t].msg => at'[m] = at[m] /\ retryFile'[m] = retryFile[m]
  BY <1>m DEF MoveToRetryQueue, MoverRead, MoverOpen, MoverWrite, MoverMove, TypeOK, Moved
<1> QED BY <1>b, <1>2, <1>3, <1>4 DEF MoveStep

\* The loop, the requests, the clock and the retry scans.
LEMMA LoopStepKind ==
  ASSUME SpoolInv,
         \/ MakeChannel \/ MoveIncoming
         \/ \E m \in Msgs : QueueIncomingMessage(m) \/ ReceiveIncoming(m)
                              \/ AckIncoming(m) \/ RetryTimePasses(m)
  PROVE  OtherStep \/ \E w \in Workers, m \in Msgs : StartStep(w, m, "incoming")
<1> USE DEF spoolVars, scanVars, history
<1>t. TypeOK
  BY DEF SpoolInv
<1>1. CASE MakeChannel
  BY <1>1 DEF MakeChannel, OtherStep
<1>2. CASE MoveIncoming
  <2>1. loop.msg \in Msgs
    BY <1>2, <1>t DEF MoveIncoming, TypeOK, LoopState
  <2> QED BY <1>2, <2>1 DEF MoveIncoming, CanMove, Spawn, StartStep, OtherStep
<1>3. ASSUME NEW m \in Msgs, QueueIncomingMessage(m) \/ ReceiveIncoming(m) \/ AckIncoming(m)
      PROVE  OtherStep
  BY <1>3 DEF QueueIncomingMessage, ReceiveIncoming, AckIncoming, OtherStep
<1>4. ASSUME NEW m \in Msgs, RetryTimePasses(m) PROVE OtherStep
  <2>1. \A x \in Msgs : retryFile'[x].state = retryFile[x].state
    BY <1>4, <1>t DEF RetryTimePasses, TypeOK, RetryFile
  <2> QED BY <1>4, <2>1 DEF RetryTimePasses, OtherStep
<1> QED BY <1>1, <1>2, <1>3, <1>4

LEMMA ScanStepKind ==
  ASSUME SpoolInv, NEW r \in RetryScans,
         \/ \E force \in BOOLEAN : StartRetryScan(r, force)
         \/ ProcessRetryQueue(r)
  PROVE  OtherStep \/ \E w \in Workers, m \in Msgs : StartStep(w, m, "retry")
<1> USE DEF spoolVars, scanVars, history
<1>t. TypeOK
  BY DEF SpoolInv
<1>1. ASSUME NEW force \in BOOLEAN, StartRetryScan(r, force) PROVE OtherStep
  BY <1>1 DEF StartRetryScan, OtherStep
<1>2. ASSUME NEW e \in retryScan[r].todo, GiveUpEntry(r, e) PROVE OtherStep
  <2>1. CASE UNCHANGED spoolVars
    BY <1>2, <2>1 DEF GiveUpEntry, OtherStep
  <2>2. CASE Remove(e.msg, "processing")
    <3>1. \A m \in Msgs : m # e.msg => at'[m] = at[m] /\ retryFile'[m] = retryFile[m]
      BY <2>2, <1>t DEF Remove, Removed, TypeOK
    <3>2. e.msg \in Msgs /\ at'[e.msg] = at[e.msg] \ {"processing"}
      BY <2>2, <1>t DEF Remove, Removed, TypeOK, RetryScanState, Entry
    <3>3. CASE "processing" \in at[e.msg]
      <4>1. at'[e.msg] = {}
        BY <3>2, <3>3 DEF SpoolInv, OneHome
      <4> QED BY <1>2, <3>1, <3>2, <4>1 DEF GiveUpEntry, OtherStep
    <3>4. CASE "processing" \notin at[e.msg]
      <4>1. retryFile' = retryFile
        BY <2>2, <3>4 DEF Remove
      <4> QED BY <1>2, <3>1, <3>2, <4>1 DEF GiveUpEntry, OtherStep
    <3> QED BY <3>3, <3>4
  <2> QED BY <1>2, <2>1, <2>2 DEF GiveUpEntry
<1>3. ASSUME NEW e \in retryScan[r].todo, RetryEntry(r, e)
      PROVE  OtherStep \/ \E w \in Workers, m \in Msgs : StartStep(w, m, "retry")
  <2>1. e.msg \in Msgs
    BY <1>t DEF TypeOK, RetryScanState, Entry
  <2> QED BY <1>3, <2>1 DEF RetryEntry, CanMove, Spawn, StartStep, OtherStep
<1> QED BY <1>1, <1>2, <1>3 DEF ProcessRetryQueue

LEMMA StuckStepKind ==
  ASSUME TypeOK, NEW s \in StuckScans, StartStuckScan(s) \/ CheckStuck(s)
  PROVE  CallStep
<1> USE DEF spoolVars
<1>1. s \in Threads /\ s \notin Workers
  BY ProcessorAssumption DEF Threads
<1>2. ASSUME NEW m, CallMoveToRetryQueue(s, m) PROVE mover'[s].pc = "read" /\ \A t \in Threads \ {s} : mover'[t] = mover[t]
  BY <1>1, <1>2 DEF CallMoveToRetryQueue, TypeOK
<1>3. UNCHANGED <<at, retryFile, worker>> /\ (UNCHANGED mover \/ \E m \in Msgs : CallMoveToRetryQueue(s, m))
  BY DEF StartStuckScan, CheckStuck, TypeOK
<1> QED BY <1>1, <1>2, <1>3 DEF CallStep

\* Every step of the processor is of one of these kinds.
LEMMA StepKinds ==
  ASSUME SpoolInv, AttemptInv, Next
  PROVE  \/ \E w \in Workers : OwnStep(w)
         \/ \E t \in Threads : MoveStep(t) /\ MoveToRetryQueue(t)
         \/ \E w \in Workers, m \in Msgs, from \in {"incoming", "retry"} : StartStep(w, m, from)
         \/ CallStep \/ OtherStep \/ Dies
<1>1. CASE \E w \in Workers : ProcessMessage(w)
  BY <1>1, WorkerStepIsOwn
<1>2. CASE \E t \in Threads : MoveToRetryQueue(t)
  BY <1>2, MoverStepIsMove DEF SpoolInv
<1>3. CASE \E r \in RetryScans : \/ \E force \in BOOLEAN : StartRetryScan(r, force)
                                 \/ ProcessRetryQueue(r)
  BY <1>3, ScanStepKind
<1>4. CASE \/ MakeChannel \/ MoveIncoming
           \/ \E m \in Msgs : QueueIncomingMessage(m) \/ ReceiveIncoming(m)
                                \/ AckIncoming(m) \/ RetryTimePasses(m)
  BY <1>4, LoopStepKind
<1>5. CASE \E s \in StuckScans : StartStuckScan(s) \/ CheckStuck(s)
  BY <1>5, StuckStepKind DEF SpoolInv
<1>6. CASE Crash
  BY <1>6 DEF Crash
<1> QED BY <1>1, <1>2, <1>3, <1>4, <1>5, <1>6 DEF Next

-----------------------------------------------------------------------------
\* While a call of MoveToRetryQueue has a message, nobody else works on it.
LEMMA ApartOthers ==
  ASSUME Apart, NEW t \in Threads, mover[t].pc # "idle",
         NEW w \in Workers, worker[w].msg = mover[t].msg, Working(w)
  PROVE  w = t
BY DEF Apart, Engaged, Working

LEMMA AttemptStart ==
  ASSUME SpoolInv, AttemptInv, Apart',
         NEW w \in Workers, NEW m \in Msgs, NEW from \in {"incoming", "retry"}, StartStep(w, m, from)
  PROVE  /\ AttemptInv' /\ at'[m] = {"processing"}
         /\ \A x \in Msgs : x # m => at'[x] = at[x]
         /\ \A t \in Threads : mover[t].pc # "idle" => mover[t].msg # m
<1>t. TypeOK
  BY DEF SpoolInv
<1>1. at[m] = {from}
  BY DEF StartStep, SpoolInv, OneHome
<1>2. at'[m] = {"processing"} /\ \A x \in Msgs : x # m => at'[x] = at[x]
  BY <1>1, <1>t DEF StartStep, Moved, TypeOK
<1>3. ASSUME NEW v \in Workers, Working(v) PROVE worker[v].msg # m /\ worker[v].msg \in Msgs
  <2>1. worker[v].msg \in Msgs
    BY <1>3, <1>t, BusyWorker DEF Working
  <2> QED BY <1>1, <1>3, <2>1 DEF AttemptInv
<1>4. worker'[w] = [pc |-> "start", msg |-> m, again |-> FALSE]
  BY <1>t DEF StartStep, TypeOK
<1>5. UNCHANGED mover /\ \A v \in Workers : v # w => worker'[v] = worker[v]
  BY <1>t DEF StartStep, TypeOK
<1>6. mover[w].pc = "idle"
  BY DEF StartStep, AttemptInv
<1>7. ASSUME NEW t \in Threads, mover[t].pc # "idle" PROVE mover[t].msg # m
  <2>1. t # w
    BY <1>6, <1>7
  <2>2. Working(w)' /\ worker'[w].msg = m
    BY <1>4 DEF Working
  <2>3. worker'[w].msg = mover'[t].msg => w \in Engaged(mover[t].msg)'
    BY <2>2 DEF Engaged, Working
  <2>4. worker'[w].msg # mover'[t].msg
    BY <1>5, <1>7, <2>1, <2>3 DEF Apart
  <2> QED BY <1>5, <2>2, <2>4
<1>8. AttemptInv'
  <2>1. ASSUME NEW v \in Workers
        PROVE  /\ mover'[v].pc # "idle" => worker'[v].pc = "retrying" /\ mover'[v].msg = worker'[v].msg
               /\ Working(v)' => at'[worker'[v].msg] \subseteq {"processing"}
    <3>1. CASE v = w
      BY <1>2, <1>4, <1>5, <1>6, <3>1
    <3>2. CASE v # w
      <4>1. worker'[v] = worker[v] /\ mover'[v] = mover[v]
        BY <1>5, <3>2
      <4>2. Working(v)' => at'[worker'[v].msg] = at[worker[v].msg]
        BY <1>2, <1>3, <4>1 DEF Working
      <4> QED BY <4>1, <4>2 DEF AttemptInv, Working
    <3> QED BY <3>1, <3>2
  <2>2. ASSUME NEW v \in Workers, NEW u \in Workers,
               Working(v)', Working(u)', worker'[v].msg = worker'[u].msg
        PROVE  v = u
    <3>1. \A x \in Workers \ {w} : Working(x)' => Working(x) /\ worker'[x].msg = worker[x].msg /\ worker'[x].msg # m
      BY <1>3, <1>5 DEF Working
    <3>2. worker'[w].msg = m
      BY <1>4
    <3> QED BY <2>2, <3>1, <3>2 DEF AttemptInv
  <2> QED BY <2>1, <2>2 DEF AttemptInv
<1> QED BY <1>2, <1>7, <1>8

LEMMA AttemptStep ==
  ASSUME SpoolInv, AttemptInv, Apart, Apart', [Next]_vars
  PROVE  AttemptInv'
<1>t. TypeOK /\ Workers \subseteq Threads
  BY DEF SpoolInv, Threads
<1>m. \A v \in Workers : Working(v) => worker[v].msg \in Msgs
  BY <1>t, BusyWorker DEF Working
<1>1. CASE UNCHANGED vars
  BY <1>1 DEF vars, AttemptInv, Working
<1>2. CASE Dies
  <2>1. \A v \in Workers : worker'[v] = IdleWorker /\ mover'[v] = IdleMover
    BY <1>2, <1>t DEF Dies
  <2> QED BY <2>1 DEF AttemptInv, Working, IdleWorker, IdleMover
<1>3. ASSUME NEW w \in Workers, OwnStep(w) PROVE AttemptInv'
  <2>1. ASSUME NEW v \in Workers
        PROVE  /\ mover'[v].pc # "idle" => worker'[v].pc = "retrying" /\ mover'[v].msg = worker'[v].msg
               /\ Working(v)' => Working(v) /\ worker'[v].msg = worker[v].msg
    BY <1>3, <1>t DEF OwnStep, AttemptInv, Working
  <2>2. ASSUME NEW v \in Workers, Working(v)' PROVE at'[worker'[v].msg] \subseteq {"processing"}
    <3>1. Working(v) /\ worker'[v].msg = worker[v].msg /\ at[worker[v].msg] \subseteq {"processing"}
      BY <2>1, <2>2 DEF AttemptInv
    <3>2. CASE v = w
      BY <1>3, <2>2, <3>1, <3>2 DEF OwnStep
    <3>3. CASE v # w
      <4>1. worker[v].msg # worker[w].msg \/ ~Working(w)
        BY <3>1, <3>3 DEF AttemptInv
      <4> QED BY <1>3, <1>m, <3>1, <4>1 DEF OwnStep
    <3> QED BY <3>2, <3>3
  <2> QED BY <2>1, <2>2 DEF AttemptInv
<1>4. ASSUME NEW t \in Threads, MoveStep(t) PROVE AttemptInv'
  <2>1. \A v \in Workers : /\ mover'[v].pc # "idle" => mover[v].pc # "idle" /\ mover'[v].msg = mover[v].msg
                           /\ Working(v)' <=> Working(v)
    BY <1>4, <1>t DEF MoveStep, Working
  <2>2. ASSUME NEW v \in Workers, Working(v) PROVE at'[worker[v].msg] = at[worker[v].msg]
    <3>1. v # t
      BY <1>4, <2>2 DEF AttemptInv, MoveStep, Working
    <3>2. worker[v].msg # mover[t].msg
      BY <1>4, <2>2, <3>1, ApartOthers DEF MoveStep
    <3> QED BY <1>4, <1>m, <2>2, <3>2 DEF MoveStep
  <2> QED BY <1>4, <2>1, <2>2 DEF AttemptInv, MoveStep
<1>5. CASE CallStep
  BY <1>5, <1>t DEF CallStep, AttemptInv, Working
<1>6. CASE OtherStep
  BY <1>6, <1>m DEF OtherStep, AttemptInv, Working
<1>7. CASE Next
  BY <1>2, <1>3, <1>4, <1>5, <1>6, <1>7, StepKinds, AttemptStart
<1> QED BY <1>1, <1>7

LEMMA AttemptInit == Init => AttemptInv
  BY DEF Init, AttemptInv, Working, IdleWorker, IdleMover, Threads

LEMMA AttemptAlways == Spec /\ []Apart => [](SpoolInv /\ AttemptInv)
<1>1. SpoolInv /\ AttemptInv /\ Apart /\ Apart' /\ [Next]_vars => (SpoolInv /\ AttemptInv)'
  BY NextSpool, AttemptStep
<1> QED BY <1>1, InitSpool, AttemptInit, PTL DEF Spec

\* Two attempts at a message overlap only after a call of MoveToRetryQueue met
\* an attempt or another call for it, whatever retry scans start from stale
\* snapshots and whatever stuck scans, failing proofs and crashes come in between.
THEOREM AttemptsAreSerial == Spec /\ []Apart => []OneAttemptAtATime
<1>1. ASSUME SpoolInv, AttemptInv, Apart, NEW m \in Msgs PROVE Cardinality(Engaged(m)) <= 1
  <2>1. ASSUME NEW v \in Engaged(m)
        PROVE  v \in Threads /\ worker[v].msg = m /\ (Working(v) \/ (mover[v].pc # "idle" /\ mover[v].msg = m))
    <3>1. worker[v] # IdleWorker
      BY <2>1, ProcessorAssumption DEF Engaged, IdleWorker
    <3>2. worker[v].pc # "idle"
      BY <3>1, <1>1, <2>1 DEF Engaged, SpoolInv, TypeOK, WorkerState
    <3> QED BY <1>1, <2>1, <3>2 DEF Engaged, Working, AttemptInv, Threads
  <2>2. \A v, u \in Engaged(m) : v = u
    <3> SUFFICES ASSUME NEW v \in Engaged(m), NEW u \in Engaged(m) PROVE v = u
      OBVIOUS
    <3>1. CASE Working(v) /\ Working(u)
      BY <1>1, <2>1, <3>1 DEF AttemptInv, Engaged
    <3>2. CASE ~Working(v)
      BY <1>1, <2>1, <3>2 DEF Apart
    <3>3. CASE ~Working(u)
      BY <1>1, <2>1, <3>3 DEF Apart
    <3> QED BY <3>1, <3>2, <3>3
  <2>3. CASE Engaged(m) = {}
    BY <2>3, FS_EmptySet
  <2>4. CASE \E v : Engaged(m) = {v}
    <3>1. PICK v : Engaged(m) = {v}
      BY <2>4
    <3>2. Cardinality({v}) = 1
      BY FS_Singleton
    <3> QED BY <3>1, <3>2
  <2>5. Engaged(m) = {} \/ \E v : Engaged(m) = {v}
    BY <2>2
  <2> QED BY <2>3, <2>4, <2>5
<1>2. SpoolInv /\ AttemptInv /\ Apart => OneAttemptAtATime
  BY <1>1 DEF OneAttemptAtATime
<1> QED BY <1>2, AttemptAlways, PTL

-----------------------------------------------------------------------------
(***************************************************************************)
(* The retry record: between the truncation and the rename nobody else     *)
(* touches it, so that what reaches the retry section can be read.         *)
(***************************************************************************)
\* The record of message m while a call for it is at pc.
RecordOf(pc, m) ==
  /\ pc = "write" => at[m] \subseteq {"processing"} /\ (at[m] = {} \/ retryFile[m].state = "empty")
  /\ pc = "move" => "processing" \notin at[m] \/ retryFile[m].state = "ok"

RecordInv ==
  /\ RetryIsReadable
  /\ \A t \in Threads : RecordOf(mover[t].pc, mover[t].msg)

\* The steps of MoveToRetryQueue hand the record on.
LEMMA MoverRecord ==
  ASSUME "store" \notin Faults, SpoolInv, RecordInv, NEW t \in Threads, MoveToRetryQueue(t)
  PROVE  /\ "retry" \in at'[mover[t].msg] => retryFile'[mover[t].msg].state = "ok"
         /\ RecordOf(mover[t].pc, mover[t].msg)'
<1> USE DEF spoolVars
<1> DEFINE m == mover[t].msg
<1>b. mover[t].pc # "idle"
  BY DEF MoveToRetryQueue, MoverRead, MoverOpen, MoverWrite, MoverMove
<1>t. TypeOK /\ m \in Msgs /\ at[m] \subseteq Places
  BY <1>b, BusyMover DEF SpoolInv, TypeOK
<1>h. /\ "retry" \in at[m] => retryFile[m].state = "ok"
      /\ \A p, q \in at[m] : p = q
  BY <1>t DEF RecordInv, RetryIsReadable, SpoolInv, OneHome
<1>e. mover[t] = [pc |-> mover[t].pc, msg |-> m, retries |-> mover[t].retries]
  BY <1>b, <1>t DEF TypeOK, MoverState, IdleMover
<1>p. ASSUME NEW pc, mover' = [mover EXCEPT ![t].pc = pc] PROVE mover'[t].pc = pc /\ mover'[t].msg = m
  BY <1>b, <1>t, <1>e, <1>p DEF TypeOK
<1> HIDE DEF m
<1> SUFFICES /\ "retry" \in at'[m] => retryFile'[m].state = "ok"
             /\ RecordOf(mover[t].pc, mover[t].msg)'
  BY DEF m
<1>1. CASE MoverRead(t)
  <2>1. mover'[t].pc = "open" /\ UNCHANGED <<at, retryFile>>
    BY <1>1, <1>t DEF MoverRead, TypeOK
  <2> QED BY <1>h, <2>1 DEF RecordOf
<1>2. CASE MoverOpen(t)
  <2>1. UNCHANGED at
    BY <1>2 DEF MoverOpen
  <2>2. CASE /\ "processing" \in at[m]
             /\ retryFile' = [retryFile EXCEPT ![m] = Unreadable("empty")]
             /\ mover' = [mover EXCEPT ![t].pc = "write"]
    <3>1. retryFile'[m].state = "empty"
      BY <1>t, <2>2 DEF TypeOK, Unreadable
    <3>2. at[m] = {"processing"}
      BY <1>h, <2>2
    <3> QED BY <1>p, <2>1, <2>2, <3>1, <3>2 DEF RecordOf
  <2>3. CASE "processing" \notin at[m] /\ mover' = [mover EXCEPT ![t].pc = "move"] /\ UNCHANGED retryFile
    BY <1>h, <1>p, <2>1, <2>3 DEF RecordOf
  <2> QED BY <1>2, <2>2, <2>3 DEF MoverOpen, m
<1>3. CASE MoverWrite(t)
  <2>1. UNCHANGED at /\ mover'[t].pc = "move" /\ mover'[t].msg = m
    BY <1>3, <1>p DEF MoverWrite
  <2>2. CASE at[m] = {}
    BY <2>1, <2>2 DEF RecordOf
  <2>3. CASE at[m] # {}
    <3>1. retryFile[m].state = "empty"
      BY <1>3, <2>3 DEF MoverWrite, RecordInv, RecordOf, m
    <3>2. PICK f \in Written(retryFile[m], mover[t].retries) : retryFile' = [retryFile EXCEPT ![m] = f]
      BY <1>3, <2>3 DEF MoverWrite, m
    <3>3. f = RetryInfo(mover[t].retries)
      BY <3>1, <3>2 DEF Written
    <3>4. retryFile'[m].state = "ok"
      BY <1>t, <3>2, <3>3 DEF TypeOK, RetryInfo
    <3> QED BY <2>1, <3>4 DEF RecordOf
  <2> QED BY <2>2, <2>3
<1>4. CASE MoverMove(t)
  <2>1. mover'[t].pc = "idle" /\ UNCHANGED retryFile
    BY <1>4, <1>t DEF MoverMove, TypeOK, IdleMover
  <2>2. CASE UNCHANGED at
    BY <1>h, <2>1, <2>2 DEF RecordOf
  <2>3. CASE "processing" \in at[m]
    BY <1>4, <2>1, <2>3 DEF MoverMove, RecordInv, RecordOf, m
  <2> QED BY <1>4, <2>1, <2>2, <2>3 DEF MoverMove, CanMove, m
<1> QED BY <1>1, <1>2, <1>3, <1>4 DEF MoveToRetryQueue

LEMMA RecordStep ==
  ASSUME "store" \notin Faults, SpoolInv, AttemptInv, RecordInv, Apart, Apart', [Next]_vars
  PROVE  RecordInv'
<1>t. TypeOK /\ Workers \subseteq Threads
  BY DEF SpoolInv, Threads
<1>r. RecordInv <=> RetryIsReadable /\ \A t \in Threads : RecordOf(mover[t].pc, mover[t].msg)
  BY DEF RecordInv
<1>s. RecordInv' <=> RetryIsReadable' /\ \A t \in Threads : RecordOf(mover[t].pc, mover[t].msg)'
  BY DEF RecordInv
<1>m. \A t \in Threads : mover[t].pc # "idle" => mover[t].msg \in Msgs
  BY <1>t, BusyMover
<1>i. \A pc \in {"idle", "read"} : \A m : RecordOf(pc, m)'
  BY DEF RecordOf
\* A call that stays as it was, for a message that stays as it was.
<1>k. ASSUME NEW t \in Threads, mover'[t] = mover[t],
             mover[t].pc # "idle" => UNCHANGED <<at[mover[t].msg], retryFile[mover[t].msg]>>
      PROVE  RecordOf(mover[t].pc, mover[t].msg)'
  BY <1>k, <1>r DEF RecordOf
<1>1. CASE UNCHANGED vars
  BY <1>1, <1>k, <1>s DEF vars, RecordInv, RetryIsReadable
<1>2. CASE Dies
  <2>1. UNCHANGED <<at, retryFile>> /\ \A t \in Threads : mover'[t].pc = "idle"
    BY <1>2 DEF Dies, spoolVars, IdleMover
  <2> QED BY <1>i, <1>s, <2>1 DEF RecordInv, RetryIsReadable
<1>3. ASSUME NEW w \in Workers, OwnStep(w) PROVE RecordInv'
  <2>1. ASSUME NEW m \in Msgs, "retry" \in at'[m] PROVE retryFile'[m].state = "ok"
    <3>1. "retry" \in at[m]
      BY <1>3, <2>1 DEF OwnStep
    <3>2. m # worker[w].msg \/ ~Working(w)
      BY <3>1 DEF AttemptInv
    <3> QED BY <1>3, <2>1, <3>1, <3>2 DEF OwnStep, RecordInv, RetryIsReadable
  <2>2. ASSUME NEW t \in Threads PROVE RecordOf(mover[t].pc, mover[t].msg)'
    <3>1. CASE mover'[t].pc \in {"idle", "read"}
      BY <1>i, <3>1
    <3>2. CASE mover'[t].pc \notin {"idle", "read"}
      <4>1. mover'[t] = mover[t]
        BY <1>3, <3>2 DEF OwnStep
      <4>2. mover[t].msg # worker[w].msg \/ ~Working(w)
        <5> SUFFICES ASSUME mover[t].msg = worker[w].msg, Working(w) PROVE FALSE
          OBVIOUS
        <5>1. w = t
          BY <3>2, <4>1, ApartOthers
        <5> QED BY <3>2, <4>1, <5>1 DEF AttemptInv, Working
      <4> QED BY <1>3, <1>k, <1>m, <4>1, <4>2 DEF OwnStep
    <3> QED BY <3>1, <3>2
  <2> QED BY <1>s, <2>1, <2>2 DEF RetryIsReadable
<1>4. ASSUME NEW t \in Threads, MoveStep(t), MoveToRetryQueue(t) PROVE RecordInv'
  <2>1. /\ "retry" \in at'[mover[t].msg] => retryFile'[mover[t].msg].state = "ok"
        /\ RecordOf(mover[t].pc, mover[t].msg)'
    BY <1>4, MoverRecord
  <2>2. RetryIsReadable'
    BY <1>4, <2>1 DEF MoveStep, RecordInv, RetryIsReadable
  <2>3. ASSUME NEW u \in Threads \ {t} PROVE RecordOf(mover[u].pc, mover[u].msg)'
    <3>1. mover[u].pc # "idle" => mover[u].msg # mover[t].msg
      BY <1>4, <2>3 DEF Apart, MoveStep
    <3> QED BY <1>4, <1>k, <1>m, <2>3, <3>1 DEF MoveStep
  <2> QED BY <1>s, <2>1, <2>2, <2>3
<1>5. ASSUME NEW w \in Workers, NEW m \in Msgs, NEW from \in {"incoming", "retry"},
             StartStep(w, m, from)
      PROVE  RecordInv'
  <2>1. /\ at'[m] = {"processing"} /\ \A x \in Msgs : x # m => at'[x] = at[x]
        /\ \A t \in Threads : mover[t].pc # "idle" => mover[t].msg # m
    BY <1>5, AttemptStart
  <2>2. UNCHANGED <<retryFile, mover>>
    BY <1>5 DEF StartStep
  <2>3. RetryIsReadable'
    BY <2>1, <2>2 DEF RecordInv, RetryIsReadable
  <2> QED BY <1>k, <1>m, <1>s, <2>1, <2>2, <2>3
<1>6. CASE CallStep
  <2>1. RetryIsReadable'
    BY <1>6 DEF CallStep, RecordInv, RetryIsReadable
  <2> QED BY <1>6, <1>i, <1>k, <1>s, <2>1 DEF CallStep
<1>7. CASE OtherStep
  <2>1. RetryIsReadable'
    BY <1>7 DEF OtherStep, RecordInv, RetryIsReadable
  <2>2. ASSUME NEW t \in Threads PROVE RecordOf(mover[t].pc, mover[t].msg)'
    BY <1>7, <1>m, <1>r, <2>2 DEF OtherStep, RecordOf
  <2> QED BY <1>s, <2>1, <2>2
<1>8. CASE Next
  BY <1>2, <1>3, <1>4, <1>5, <1>6, <1>7, <1>8, StepKinds
<1> QED BY <1>1, <1>8

\* While records can be stored, a message comes to the retry section without a
\* record that the next scan can read only after a call of MoveToRetryQueue met
\* an attempt or another call for the message.
THEOREM RetryStaysReadable ==
  ASSUME "store" \notin Faults
  PROVE  Spec /\ []Apart => []RetryIsReadable
<1>1. Init => RecordInv
  BY DEF Init, RecordInv, RecordOf, RetryIsReadable, IdleMover, Threads
<1>2. SpoolInv /\ AttemptInv /\ RecordInv /\ Apart /\ Apart' /\ [Next]_vars => RecordInv'
  BY RecordStep
<1>3. RecordInv => RetryIsReadable
  BY DEF RecordInv
<1> QED BY <1>1, <1>2, <1>3, AttemptAlways, PTL DEF Spec
=============================================================================
