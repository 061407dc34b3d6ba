--------------------------- MODULE ProcessorProofs ---------------------------
(***************************************************************************)
(* Theorems about the queue processor, for any messages, goroutines,       *)
(* replies, faults and crashes.                                            *)
(***************************************************************************)
EXTENDS ProcessorProperties, TLAPS

LEMMA BumpInCounts == \A n \in Counts : Bump(n) \in Counts
  BY SpoolAssumption DEF Counts, Bump

LEMMA RetryFiles ==
  /\ \A n \in Counts : RetryInfo(n) \in RetryFile
  /\ Unreadable("empty") \in RetryFile /\ Unreadable("garbled") \in RetryFile
  /\ NoRetryFile \in RetryFile
  /\ 0 \in Counts
  BY SpoolAssumption DEF RetryInfo, Unreadable, NoRetryFile, RetryFile, Counts

LEMMA MovedType ==
  ASSUME at \in [Msgs -> SUBSET Places], NEW m, NEW from \in Places, NEW to \in Places
  PROVE  Moved(at, m, from, to) \in [Msgs -> SUBSET Places]
  BY DEF Moved

LEMMA RemoveType ==
  ASSUME TypeOK, NEW m, NEW section, Remove(m, section)
  PROVE  at' \in [Msgs -> SUBSET Places] /\ retryFile' \in [Msgs -> RetryFile]
  BY RetryFiles DEF TypeOK, Remove, Removed

LEMMA SpawnType ==
  ASSUME TypeOK, NEW m \in Msgs, Spawn(m)
  PROVE  worker' \in [Workers -> WorkerState]
  BY DEF TypeOK, Spawn, WorkerState

LEMMA GotoType ==
  ASSUME TypeOK, NEW w \in Workers, worker[w].pc # "idle",
         NEW pc \in {"route", "local", "ticket", "upload", "complete", "remove", "done"},
         Goto(w, pc)
  PROVE  worker' \in [Workers -> WorkerState]
  BY DEF TypeOK, Goto, WorkerState, IdleWorker

LEMMA BusyWorker ==
  ASSUME TypeOK, NEW w \in Workers, worker[w].pc # "idle"
  PROVE  worker[w].msg \in Msgs
  BY DEF TypeOK, WorkerState, IdleWorker

LEMMA BusyMover ==
  ASSUME TypeOK, NEW t \in Threads, mover[t].pc # "idle"
  PROVE  mover[t].msg \in Msgs /\ mover[t].retries \in Counts
  BY DEF TypeOK, MoverState, IdleMover

LEMMA CallType ==
  ASSUME TypeOK, NEW t \in Threads, NEW m \in Msgs, CallMoveToRetryQueue(t, m)
  PROVE  mover' \in [Threads -> MoverState]
  BY RetryFiles DEF TypeOK, CallMoveToRetryQueue, MoverState

LEMMA FailType ==
  ASSUME TypeOK, NEW w \in Workers, worker[w].pc # "idle", NEW again \in BOOLEAN, Fail(w, again)
  PROVE  worker' \in [Workers -> WorkerState] /\ mover' \in [Threads -> MoverState]
<1>1. worker[w].msg \in Msgs
  BY BusyWorker
<1>2. w \in Threads
  BY DEF Threads
<1>3. mover' \in [Threads -> MoverState]
  BY <1>1, <1>2, CallType DEF Fail
<1>4. worker' \in [Workers -> WorkerState]
  BY <1>1 DEF TypeOK, Fail, WorkerState
<1> QED BY <1>3, <1>4

-----------------------------------------------------------------------------
\* One lemma per component of Next: its steps keep the type.
LEMMA LoopType ==
  ASSUME TypeOK,
         \/ MakeChannel \/ MoveIncoming
         \/ \E m \in Msgs : QueueIncomingMessage(m) \/ ReceiveIncoming(m) \/ AckIncoming(m)
  PROVE  TypeOK'
<1> USE DEF TypeOK, spoolVars, scanVars, history
<1>1. CASE MakeChannel
  BY <1>1 DEF MakeChannel, LoopState
<1>2. CASE MoveIncoming
  <2>1. loop.msg \in Msgs
    BY <1>2 DEF MoveIncoming, LoopState
  <2>2. loop' \in LoopState
    BY <1>2 DEF MoveIncoming, LoopState
  <2>3. at' \in [Msgs -> SUBSET Places]
    BY <1>2, MovedType DEF MoveIncoming, Places, Sections
  <2>4. worker' \in [Workers -> WorkerState]
    BY <1>2, <2>1, SpawnType DEF MoveIncoming
  <2> QED BY <1>2, <2>2, <2>3, <2>4 DEF MoveIncoming
<1>3. ASSUME NEW m \in Msgs, QueueIncomingMessage(m) PROVE TypeOK'
  BY <1>3 DEF QueueIncomingMessage, UploadState
<1>4. ASSUME NEW m \in Msgs, ReceiveIncoming(m) PROVE TypeOK'
  BY <1>4 DEF ReceiveIncoming, UploadState, LoopState
<1>5. ASSUME NEW m \in Msgs, AckIncoming(m) PROVE TypeOK'
  BY <1>5 DEF AckIncoming, UploadState
<1> QED BY <1>1, <1>2, <1>3, <1>4, <1>5

LEMMA MoverType ==
  ASSUME TypeOK, NEW t \in Threads, MoveToRetryQueue(t)
  PROVE  TypeOK'
<1> USE DEF spoolVars, scanVars, history
<1>m. mover[t].msg \in Msgs /\ mover[t].retries \in Counts
  BY BusyMover DEF MoveToRetryQueue, MoverRead, MoverOpen, MoverWrite, MoverMove
<1>1. CASE MoverRead(t)
  <2>1. NextRetries(mover[t].msg) \in Counts
    BY <1>m, BumpInCounts, RetryFiles DEF NextRetries, TypeOK, RetryFile
  <2> QED BY <1>1, <1>m, <2>1 DEF MoverRead, TypeOK, MoverState
<1>2. CASE MoverOpen(t)
  <2>1. retryFile' \in [Msgs -> RetryFile]
    BY <1>2, RetryFiles DEF MoverOpen, TypeOK
  <2>2. mover' \in [Threads -> MoverState]
    BY <1>2 DEF MoverOpen, TypeOK, MoverState, IdleMover
  <2> QED BY <1>2, <2>1, <2>2 DEF MoverOpen, TypeOK
<1>3. CASE MoverWrite(t)
  <2>1. retryFile' \in [Msgs -> RetryFile]
    BY <1>3, <1>m, RetryFiles DEF MoverWrite, TypeOK, Written
  <2>2. mover' \in [Threads -> MoverState]
    BY <1>3 DEF MoverWrite, TypeOK, MoverState, IdleMover
  <2> QED BY <1>3, <2>1, <2>2 DEF MoverWrite, TypeOK
<1>4. CASE MoverMove(t)
  <2>1. at' \in [Msgs -> SUBSET Places]
    BY <1>4, MovedType DEF MoverMove, TypeOK, Places, Sections
  <2>2. mover' \in [Threads -> MoverState]
    BY <1>4 DEF MoverMove, TypeOK, MoverState
  <2> QED BY <1>4, <2>1, <2>2 DEF MoverMove, TypeOK
<1> QED BY <1>1, <1>2, <1>3, <1>4 DEF MoveToRetryQueue

LEMMA WorkerType ==
  ASSUME TypeOK, NEW w \in Workers, ProcessMessage(w)
  PROVE  TypeOK'
<1> USE DEF spoolVars, scanVars, history
<1>b. worker[w].pc # "idle"
  BY DEF ProcessMessage, AddToScoreboard, Route, DeliverLocal, GetTicket, UploadMessage,
         CompleteUpload, RemoveProcessed, RetryAgain, RemoveFromScoreboard
<1>m. worker[w].msg \in Msgs /\ w \in Threads
  BY <1>b, BusyWorker DEF Threads
<1>f. /\ \A pc \in {"route", "local", "ticket", "upload", "complete", "remove", "done"} :
           Goto(w, pc) => worker' \in [Workers -> WorkerState]
      /\ \A again \in BOOLEAN :
           Fail(w, again) => worker' \in [Workers -> WorkerState] /\ mover' \in [Threads -> MoverState]
  BY <1>b, GotoType, FailType
<1>1. CASE AddToScoreboard(w)
  BY <1>1, <1>m, <1>f DEF AddToScoreboard, TypeOK
<1>2. CASE Route(w)
  <2>1. worker' \in [Workers -> WorkerState] /\ mover' \in [Threads -> MoverState]
    BY <1>2, <1>f DEF Route, TypeOK
  <2> QED BY <1>2, <2>1 DEF Route, TypeOK
<1>3. CASE DeliverLocal(w)
  <2>1. worker' \in [Workers -> WorkerState] /\ mover' \in [Threads -> MoverState]
    BY <1>3, <1>f DEF DeliverLocal, TypeOK
  <2>2. at' \in [Msgs -> SUBSET Places]
    <3>1. {"processing", "inbox"} \subseteq Places
      BY DEF Places, Sections
    <3>2. Moved(at, worker[w].msg, "processing", "inbox") \in [Msgs -> SUBSET Places]
      BY <3>1, MovedType DEF TypeOK
    <3> QED BY <1>3, <3>2 DEF DeliverLocal, TypeOK
  <2> QED BY <1>3, <2>1, <2>2 DEF DeliverLocal, TypeOK
<1>4. CASE GetTicket(w)
  <2>1. worker' \in [Workers -> WorkerState] /\ mover' \in [Threads -> MoverState]
    <3>1. CASE Goto(w, "upload") /\ UNCHANGED mover
      BY <3>1, <1>f DEF TypeOK
    <3>2. CASE Fail(w, FALSE) \/ Fail(w, TRUE)
      BY <3>2, <1>f
    <3> QED BY <1>4, <3>1, <3>2 DEF GetTicket
  <2> QED BY <1>4, <2>1 DEF GetTicket, TypeOK
<1>5. CASE UploadMessage(w)
  <2>1. worker' \in [Workers -> WorkerState] /\ mover' \in [Threads -> MoverState]
    BY <1>5, <1>f DEF UploadMessage, TypeOK
  <2> QED BY <1>5, <2>1 DEF UploadMessage, TypeOK
<1>6. CASE CompleteUpload(w)
  <2>1. worker' \in [Workers -> WorkerState] /\ mover' \in [Threads -> MoverState]
    BY <1>6, <1>f DEF CompleteUpload, TypeOK
  <2>2. \A n \in 0 .. MaxCopies : AddCopy(n) \in 0 .. MaxCopies
    BY ProcessorAssumption DEF AddCopy
  <2>3. copies' \in [Msgs -> 0 .. MaxCopies]
    BY <1>6, <1>m, <2>2 DEF CompleteUpload, TypeOK
  <2> QED BY <1>6, <2>1, <2>3 DEF CompleteUpload, TypeOK
<1>7. CASE RemoveProcessed(w)
  <2>1. worker' \in [Workers -> WorkerState] /\ mover' \in [Threads -> MoverState]
    BY <1>7, <1>f DEF RemoveProcessed, TypeOK
  <2>2. at' \in [Msgs -> SUBSET Places] /\ retryFile' \in [Msgs -> RetryFile]
    BY <1>7, RemoveType DEF RemoveProcessed, TypeOK
  <2> QED BY <1>7, <2>1, <2>2 DEF RemoveProcessed, TypeOK
<1>8. CASE RetryAgain(w)
  <2>1. mover' \in [Threads -> MoverState]
    BY <1>8, <1>m, CallType DEF RetryAgain
  <2>2. worker' \in [Workers -> WorkerState]
    <3>1. worker[w] \in WorkerState \ {IdleWorker}
      BY <1>b, <1>m DEF TypeOK, IdleWorker
    <3>2. [worker[w] EXCEPT !.again = FALSE] \in WorkerState
      BY <3>1 DEF WorkerState
    <3> QED BY <1>8, <3>2 DEF RetryAgain, TypeOK
  <2> QED BY <1>8, <2>1, <2>2 DEF RetryAgain, TypeOK
<1>9. CASE RemoveFromScoreboard(w)
  BY <1>9 DEF RemoveFromScoreboard, TypeOK, WorkerState
<1> QED BY <1>1, <1>2, <1>3, <1>4, <1>5, <1>6, <1>7, <1>8, <1>9 DEF ProcessMessage

LEMMA RetryScanType ==
  ASSUME TypeOK,
         \/ \E m \in Msgs : RetryTimePasses(m)
         \/ \E r \in RetryScans, force \in BOOLEAN : StartRetryScan(r, force)
         \/ \E r \in RetryScans : ProcessRetryQueue(r)
  PROVE  TypeOK'
<1> USE DEF spoolVars, scanVars, history
<1>1. ASSUME NEW m \in Msgs, RetryTimePasses(m) PROVE TypeOK'
  <2>1. retryFile[m] \in RetryFile
    BY DEF TypeOK
  <2>2. [retryFile[m] EXCEPT !.due = TRUE] \in RetryFile
    BY <2>1 DEF RetryFile
  <2> QED BY <1>1, <2>2 DEF RetryTimePasses, TypeOK
<1>2. ASSUME NEW r \in RetryScans, NEW force \in BOOLEAN, StartRetryScan(r, force) PROVE TypeOK'
  <2>1. RetryInfoFromQueue \in SUBSET Entry
    BY DEF RetryInfoFromQueue, Entry, TypeOK, RetryFile
  <2> QED BY <1>2, <2>1 DEF StartRetryScan, TypeOK, RetryScanState
<1>3. ASSUME NEW r \in RetryScans, NEW e \in retryScan[r].todo, GiveUpEntry(r, e) \/ RetryEntry(r, e)
      PROVE TypeOK'
  <2>1. e \in Entry /\ e.msg \in Msgs
    BY DEF TypeOK, RetryScanState, Entry
  <2>2. ASSUME EntryDone(r, e) PROVE retryScan' \in [RetryScans -> RetryScanState]
    BY <2>2 DEF EntryDone, TypeOK, RetryScanState
  <2>3. CASE GiveUpEntry(r, e)
    <3>1. retryScan' \in [RetryScans -> RetryScanState]
      <4>1. [retryScan[r] EXCEPT !.expired = {e}] \in RetryScanState
        BY <2>1 DEF TypeOK, RetryScanState
      <4> QED BY <2>2, <2>3, <4>1 DEF GiveUpEntry, TypeOK
    <3>2. at' \in [Msgs -> SUBSET Places] /\ retryFile' \in [Msgs -> RetryFile]
      BY <2>3, RemoveType DEF GiveUpEntry, TypeOK
    <3> QED BY <2>1, <2>3, <3>1, <3>2 DEF GiveUpEntry, TypeOK
  <2>4. CASE RetryEntry(r, e)
    <3>1. retryScan' \in [RetryScans -> RetryScanState]
      BY <2>2, <2>4 DEF RetryEntry
    <3>2. Moved(at, e.msg, "retry", "processing") \in [Msgs -> SUBSET Places]
      BY MovedType DEF TypeOK, Places, Sections
    <3>3. Spawn(e.msg) => worker' \in [Workers -> WorkerState]
      BY <2>1, SpawnType
    <3>4. at' \in [Msgs -> SUBSET Places]
      BY <2>4, <3>2 DEF RetryEntry, TypeOK
    <3>5. worker' \in [Workers -> WorkerState]
      BY <2>4, <3>3 DEF RetryEntry, TypeOK
    <3> QED BY <2>4, <3>1, <3>4, <3>5 DEF RetryEntry, TypeOK
  <2> QED BY <1>3, <2>3, <2>4
<1> QED BY <1>1, <1>2, <1>3 DEF ProcessRetryQueue

LEMMA StuckScanType ==
  ASSUME TypeOK, NEW s \in StuckScans, StartStuckScan(s) \/ CheckStuck(s)
  PROVE  TypeOK'
<1> USE DEF spoolVars, scanVars, history
<1>1. CASE StartStuckScan(s)
  BY <1>1 DEF StartStuckScan, TypeOK
<1>2. CASE CheckStuck(s)
  <2>1. PICK m \in stuckScan[s] : CheckStuck(s)!(m)
    BY <1>2 DEF CheckStuck
  <2>2. m \in Msgs /\ s \in Threads
    BY DEF TypeOK, Threads
  <2>3. mover' \in [Threads -> MoverState]
    BY <2>1, <2>2, CallType DEF TypeOK
  <2> QED BY <2>1, <2>3 DEF TypeOK
<1> QED BY <1>1, <1>2

LEMMA DiesType ==
  ASSUME TypeOK, Dies, crashes' \in 0 .. MaxCrashes
  PROVE  TypeOK'
BY DEF TypeOK, Dies, spoolVars, UploadState, LoopState, WorkerState, MoverState,
       RetryScanState, IdleRetryScan

LEMMA CrashType ==
  ASSUME TypeOK, Crash
  PROVE  TypeOK'
<1>1. crashes' \in 0 .. MaxCrashes
  BY ProcessorAssumption DEF TypeOK, Crash
<1> QED BY <1>1, DiesType DEF Crash

LEMMA InitType == Init => TypeOK
<1> SUFFICES ASSUME Init PROVE TypeOK
  OBVIOUS
<1>1. retryFile \in [Msgs -> RetryFile]
  BY RetryFiles DEF Init
<1>2. copies \in [Msgs -> 0 .. MaxCopies] /\ crashes \in 0 .. MaxCrashes
  BY ProcessorAssumption DEF Init
<1>3. retryScan \in [RetryScans -> RetryScanState]
  BY DEF Init, RetryScanState, IdleRetryScan
<1> QED BY <1>1, <1>2, <1>3 DEF Init, TypeOK, Places, Sections, UploadState, LoopState,
           WorkerState, MoverState

LEMMA NextType == TypeOK /\ [Next]_vars => TypeOK'
<1> SUFFICES ASSUME TypeOK, [Next]_vars PROVE TypeOK'
  OBVIOUS
<1>1. CASE UNCHANGED vars
  BY <1>1 DEF vars, TypeOK
<1>2. CASE Next
  BY <1>2, LoopType, MoverType, WorkerType, RetryScanType, StuckScanType, CrashType DEF Next
<1> QED BY <1>1, <1>2

\* Every variable of the queue processor keeps its type, in every behaviour.
THEOREM TypeCorrect == Spec => []TypeOK
<1> QED BY InitType, NextType, PTL DEF Spec
=============================================================================
