------------------------------ MODULE Processor ------------------------------
(***************************************************************************)
(* The queue processor of bm-server: the main loop, the ProcessMessage     *)
(* goroutines, the scans of the retry queue and of the processing queue,   *)
(* MoveToRetryQueue and the scoreboard (cmd/bm-server/processor and        *)
(* mainLoop of cmd/bm-server/main.go), over the spool directories.  Every  *)
(* access to shared state is a step of its own, so that goroutines         *)
(* interleave as they do in the program; a crash loses everything but the  *)
(* spool.  The upload that fills the incoming section is external here.    *)
(***************************************************************************)
EXTENDS Spool, FiniteSets

CONSTANTS
  LocalMsgs,      \* messages whose recipient has an account on this server
  Workers,        \* ProcessMessage goroutines that can exist at once
  RetryScans,     \* ProcessRetryQueue goroutines that can exist at once
  StuckScans,     \* ProcessStuckProcessingMessages goroutines at once
  TicketReplies,  \* what the remote server answers to the ticket requests
  UploadReplies,  \* what becomes of the CompleteUpload call
  Faults,         \* file operations that may fail
  Flushing,       \* whether FlushQueues is called
  MaxCopies,      \* bound on the counted copies at the remote server
  MaxCrashes,     \* bound on crashes
  NoMsg

ASSUME ProcessorAssumption ==
  /\ LocalMsgs \subseteq Msgs
  /\ NoMsg \notin Msgs
  /\ Workers \cap StuckScans = {}
  /\ TicketReplies \subseteq {"valid", "error", "prooferror"}
  /\ UploadReplies \subseteq {"ok", "lost", "failed"}
  /\ Faults \subseteq {"rename", "remove", "store"}
  /\ Flushing \in BOOLEAN
  /\ MaxCopies \in Nat \ {0}
  /\ MaxCrashes \in Nat

VARIABLES
  at,          \* at[m]: the places with a directory for m (persistent)
  retryFile,   \* retryFile[m]: the .retry.json of m (persistent)
  upload,      \* upload[m]: the CompleteIncoming handler of m
  loop,        \* the main loop
  worker,      \* the ProcessMessage goroutines
  mover,       \* calls of MoveToRetryQueue, per calling goroutine
  scoreboard,
  retryScan,   \* the ProcessRetryQueue goroutines
  stuckScan,   \* stuckScan[s]: directories a stuck scan still has to look at
  copies,      \* history: copies of m accepted by the remote server
  gaveUp,      \* history: messages logged as given up
  crashes

spoolVars == <<at, retryFile>>
scanVars  == <<retryScan, stuckScan>>
history   == <<copies, gaveUp, crashes>>
vars == <<at, retryFile, upload, loop, worker, mover, scoreboard, retryScan,
          stuckScan, copies, gaveUp, crashes>>

Threads == Workers \cup StuckScans

UploadState == {"uploaded", "sending", "blocked", "sent", "acked", "failed"}
IdleWorker    == [pc |-> "idle", msg |-> NoMsg, again |-> FALSE]
IdleMover     == [pc |-> "idle", msg |-> NoMsg, retries |-> 0]
IdleRetryScan == [force |-> FALSE, todo |-> {}, expired |-> {}]

LoopState   == [pc : {"start", "select"}, msg : {NoMsg}] \cup [pc : {"move"}, msg : Msgs]
WorkerState ==
  {IdleWorker} \cup
  [pc : {"start", "route", "local", "ticket", "upload", "complete", "remove", "retrying", "done"},
   msg : Msgs,
   again : BOOLEAN]   \* a second MoveToRetryQueue follows the first
MoverState  ==
  {IdleMover} \cup [pc : {"read", "open", "write", "move"}, msg : Msgs, retries : Counts]
Entry == [msg : Msgs, retries : Counts, due : BOOLEAN]
RetryScanState ==
  [force : BOOLEAN, todo : SUBSET Entry, expired : SUBSET Entry]

\* All messages have just been uploaded; no handler has completed one yet.
Init ==
  /\ at = [m \in Msgs |-> {"incoming"}]
  /\ retryFile = [m \in Msgs |-> NoRetryFile]
  /\ upload = [m \in Msgs |-> "uploaded"]
  /\ loop = [pc |-> "start", msg |-> NoMsg]
  /\ worker = [w \in Workers |-> IdleWorker]
  /\ mover = [t \in Threads |-> IdleMover]
  /\ scoreboard = {}
  /\ retryScan = [r \in RetryScans |-> IdleRetryScan]
  /\ stuckScan = [s \in StuckScans |-> {}]
  /\ copies = [m \in Msgs |-> 0]
  /\ gaveUp = {}
  /\ crashes = 0

(***************************************************************************)
(* Effects shared by the steps below.                                      *)
(***************************************************************************)
\* The directory of section goes, and with it the .retry.json inside it.
Remove(m, section) ==
  /\ at' = Removed(at, m, section)
  /\ retryFile' = IF section \in at[m] THEN [retryFile EXCEPT ![m] = NoRetryFile] ELSE retryFile

\* `go ProcessMessage(m)' by an idle goroutine slot.
Spawn(m) ==
  \E w \in Workers :
    /\ worker[w].pc = "idle"
    /\ worker' = [worker EXCEPT ![w] = [pc |-> "start", msg |-> m, again |-> FALSE]]

\* Worker w goes on at pc.
Goto(w, pc) == worker' = [worker EXCEPT ![w].pc = pc]

\* Thread t calls MoveToRetryQueue(m).
CallMoveToRetryQueue(t, m) ==
  mover' = [mover EXCEPT ![t] = [pc |-> "read", msg |-> m, retries |-> 0]]

\* Worker w fails its message: MoveToRetryQueue, once or twice.
Fail(w, again) ==
  /\ worker' = [worker EXCEPT ![w] = [pc |-> "retrying", msg |-> worker[w].msg, again |-> again]]
  /\ CallMoveToRetryQueue(w, worker[w].msg)

-----------------------------------------------------------------------------
(***************************************************************************)
(* CompleteIncoming and the main loop.                                     *)
(***************************************************************************)
\* mainLoop makes the channel; handlers may have used the nil channel before.
MakeChannel ==
  /\ loop.pc = "start"
  /\ loop' = [loop EXCEPT !.pc = "select"]
  /\ UNCHANGED <<spoolVars, upload, worker, mover, scoreboard, scanVars, history>>

\* Mutant of QueueIncomingMessage: a send that gives up when nobody receives.
QueueIncomingMessageOrDrop(m) ==
  /\ upload[m] = "uploaded"
  /\ upload' = [upload EXCEPT ![m] = IF loop.pc = "select" THEN "sending" ELSE "sent"]
  /\ UNCHANGED <<spoolVars, loop, worker, mover, scoreboard, scanVars, history>>

\* The handler sends on the channel; a send on the nil channel blocks for ever.
QueueIncomingMessage(m) ==
  /\ upload[m] = "uploaded"
  /\ upload' = [upload EXCEPT ![m] = IF loop.pc = "start" THEN "blocked" ELSE "sending"]
  /\ UNCHANGED <<spoolVars, loop, worker, mover, scoreboard, scanVars, history>>

\* The unbuffered channel passes the message ID from the handler to the loop.
ReceiveIncoming(m) ==
  /\ loop.pc = "select"
  /\ upload[m] = "sending"
  /\ upload' = [upload EXCEPT ![m] = "sent"]
  /\ loop' = [pc |-> "move", msg |-> m]
  /\ UNCHANGED <<spoolVars, worker, mover, scoreboard, scanVars, history>>

\* The handler removes the ticket and answers 202.
AckIncoming(m) ==
  /\ upload[m] = "sent"
  /\ upload' = [upload EXCEPT ![m] = "acked"]
  /\ UNCHANGED <<spoolVars, loop, worker, mover, scoreboard, scanVars, history>>

\* The loop moves the message; when that fails it forgets about it.
MoveIncoming ==
  /\ loop.pc = "move"
  /\ loop' = [pc |-> "select", msg |-> NoMsg]
  /\ \/ /\ CanMove(at, loop.msg, "incoming", "processing")
        /\ at' = Moved(at, loop.msg, "incoming", "processing")
        /\ Spawn(loop.msg)
     \/ /\ "rename" \in Faults
        /\ UNCHANGED <<at, worker>>
  /\ UNCHANGED <<retryFile, upload, mover, scoreboard, scanVars, history>>

-----------------------------------------------------------------------------
(***************************************************************************)
(* MoveToRetryQueue, called by a worker or by a stuck scan.                *)
(***************************************************************************)
\* Mutant of NextRetries: counts a failed attempt twice.
NextRetriesTwice(m) ==
  IF HasRetryInfo(at, retryFile, m, "processing") THEN retryFile[m].retries + 2 ELSE 0

\* GetRetryInfo: one more retry when it can be read, a fresh record if not.
NextRetries(m) ==
  IF HasRetryInfo(at, retryFile, m, "processing") THEN Bump(retryFile[m].retries) ELSE 0

\* Mutant of MoverRead: StoreRetryInfo is left out.
MoverReadOnly(t) ==
  /\ mover[t].pc = "read"
  /\ mover' = [mover EXCEPT ![t] = [pc |-> "move", msg |-> mover[t].msg, retries |-> NextRetries(mover[t].msg)]]
  /\ UNCHANGED <<spoolVars, upload, loop, worker, scoreboard, scanVars, history>>

MoverRead(t) ==
  /\ mover[t].pc = "read"
  /\ mover' = [mover EXCEPT ![t] = [pc |-> "open", msg |-> mover[t].msg, retries |-> NextRetries(mover[t].msg)]]
  /\ UNCHANGED <<spoolVars, upload, loop, worker, scoreboard, scanVars, history>>

\* Mutant of MoverOpen: StoreRetryInfo creates the path, as StoreHeader does.
MoverOpenMkdir(t) ==
  LET m == mover[t].msg IN
  /\ mover[t].pc = "open"
  /\ at' = [at EXCEPT ![m] = @ \cup {"processing"}]
  /\ retryFile' = [retryFile EXCEPT ![m] = Unreadable("empty")]
  /\ mover' = [mover EXCEPT ![t].pc = "write"]
  /\ UNCHANGED <<upload, loop, worker, scoreboard, scanVars, history>>

\* WriteFile opens and truncates the file in the processing section, if any.
MoverOpen(t) ==
  LET m == mover[t].msg IN
  /\ mover[t].pc = "open"
  /\ \/ /\ "processing" \in at[m]
        /\ retryFile' = [retryFile EXCEPT ![m] = Unreadable("empty")]
        /\ mover' = [mover EXCEPT ![t].pc = "write"]
     \/ /\ "processing" \notin at[m] \/ "store" \in Faults
        /\ mover' = [mover EXCEPT ![t].pc = "move"]
        /\ UNCHANGED retryFile
  /\ UNCHANGED <<at, upload, loop, worker, scoreboard, scanVars, history>>

\* WriteFile writes through its handle, wherever the directory is by now.
MoverWrite(t) ==
  LET m == mover[t].msg IN
  /\ mover[t].pc = "write"
  /\ mover' = [mover EXCEPT ![t].pc = "move"]
  /\ \/ /\ at[m] # {}
        /\ \E f \in Written(retryFile[m], mover[t].retries) :
             retryFile' = [retryFile EXCEPT ![m] = f]
     \/ /\ at[m] = {} \/ "store" \in Faults
        /\ UNCHANGED retryFile
  /\ UNCHANGED <<at, upload, loop, worker, scoreboard, scanVars, history>>

\* MoveMessage to the retry section; a failure is only logged.
MoverMove(t) ==
  LET m == mover[t].msg
      ok == CanMove(at, m, "processing", "retry") IN
  /\ mover[t].pc = "move"
  /\ mover' = [mover EXCEPT ![t] = IdleMover]
  /\ \/ ok /\ at' = Moved(at, m, "processing", "retry")
     \/ (~ok \/ "rename" \in Faults) /\ UNCHANGED at
  /\ UNCHANGED <<retryFile, upload, loop, worker, scoreboard, scanVars, history>>

MoveToRetryQueue(t) == MoverRead(t) \/ MoverOpen(t) \/ MoverWrite(t) \/ MoverMove(t)

-----------------------------------------------------------------------------
(***************************************************************************)
(* ProcessMessage.                                                         *)
(***************************************************************************)
AddToScoreboard(w) ==
  /\ worker[w].pc = "start"
  /\ scoreboard' = scoreboard \cup {worker[w].msg}
  /\ Goto(w, "route")
  /\ UNCHANGED <<spoolVars, upload, loop, mover, scanVars, history>>

\* Read the header, resolve the recipient and look for a local account.
Route(w) ==
  LET m == worker[w].msg IN
  /\ worker[w].pc = "route"
  /\ \/ /\ "processing" \in at[m]
        /\ Goto(w, IF m \in LocalMsgs THEN "local" ELSE "ticket")
        /\ UNCHANGED mover
     \/ Fail(w, FALSE)   \* no readable header, or the address does not resolve
  /\ UNCHANGED <<spoolVars, upload, loop, scoreboard, scanVars, history>>

\* deliverLocal: one rename into the inbox of the recipient.
DeliverLocal(w) ==
  LET m == worker[w].msg
      ok == CanMove(at, m, "processing", "inbox") IN
  /\ worker[w].pc = "local"
  /\ \/ /\ ok
        /\ at' = Moved(at, m, "processing", "inbox")
        /\ Goto(w, "done")
        /\ UNCHANGED mover
     \/ /\ ~ok \/ "rename" \in Faults
        /\ Fail(w, FALSE)
        /\ UNCHANGED at
  /\ UNCHANGED <<retryFile, upload, loop, scoreboard, scanVars, history>>

(***************************************************************************)
(* deliverRemote asks for a ticket and does the proof of work for it.      *)
(* When the exchange of the proof fails with an error, both deliverRemote  *)
(* and its caller move the message to the retry queue.                     *)
(***************************************************************************)
GetTicket(w) ==
  /\ worker[w].pc = "ticket"
  /\ \/ "valid" \in TicketReplies /\ Goto(w, "upload") /\ UNCHANGED mover
     \/ "error" \in TicketReplies /\ Fail(w, FALSE)
     \/ "prooferror" \in TicketReplies /\ Fail(w, TRUE)
  /\ UNCHANGED <<spoolVars, upload, loop, scoreboard, scanVars, history>>

\* The parallel uploads read the message from the processing section.
UploadMessage(w) ==
  /\ worker[w].pc = "upload"
  /\ \/ "processing" \in at[worker[w].msg] /\ Goto(w, "complete") /\ UNCHANGED mover
     \/ Fail(w, FALSE)   \* a file is gone, or the network fails
  /\ UNCHANGED <<spoolVars, upload, loop, scoreboard, scanVars, history>>

AddCopy(n) == IF n < MaxCopies THEN n + 1 ELSE n

\* Mutant of CompleteUpload: its error is ignored.
CompleteUploadUnchecked(w) ==
  /\ worker[w].pc = "complete"
  /\ \E reply \in UploadReplies :
       copies' = IF reply = "failed" THEN copies
                 ELSE [copies EXCEPT ![worker[w].msg] = AddCopy(@)]
  /\ Goto(w, "remove")
  /\ UNCHANGED <<spoolVars, upload, loop, mover, scoreboard, scanVars, gaveUp, crashes>>

\* Mutant of CompleteUpload: every answer is taken for a failure.
CompleteUploadInverted(w) ==
  /\ worker[w].pc = "complete"
  /\ \E reply \in UploadReplies :
       copies' = IF reply = "failed" THEN copies
                 ELSE [copies EXCEPT ![worker[w].msg] = AddCopy(@)]
  /\ Fail(w, FALSE)
  /\ UNCHANGED <<spoolVars, upload, loop, scoreboard, scanVars, gaveUp, crashes>>

\* CompleteUpload: accepted; accepted, but the answer is lost; not accepted.
CompleteUpload(w) ==
  /\ worker[w].pc = "complete"
  /\ \E reply \in UploadReplies :
       /\ copies' = IF reply = "failed" THEN copies
                    ELSE [copies EXCEPT ![worker[w].msg] = AddCopy(@)]
       /\ IF reply = "ok" THEN Goto(w, "remove") /\ UNCHANGED mover
                          ELSE Fail(w, FALSE)
  /\ UNCHANGED <<spoolVars, upload, loop, scoreboard, scanVars, gaveUp, crashes>>

RemoveProcessed(w) ==
  /\ worker[w].pc = "remove"
  /\ \/ Remove(worker[w].msg, "processing") /\ Goto(w, "done") /\ UNCHANGED mover
     \/ "remove" \in Faults /\ Fail(w, FALSE) /\ UNCHANGED spoolVars
  /\ UNCHANGED <<upload, loop, scoreboard, scanVars, history>>

\* MoveToRetryQueue returned inside deliverRemote; the caller calls it again.
RetryAgain(w) ==
  /\ worker[w].pc = "retrying" /\ worker[w].again
  /\ mover[w].pc = "idle"
  /\ worker' = [worker EXCEPT ![w].again = FALSE]
  /\ CallMoveToRetryQueue(w, worker[w].msg)
  /\ UNCHANGED <<spoolVars, upload, loop, scoreboard, scanVars, history>>

\* The deferred RemoveFromScoreboard, and the end of the goroutine.
RemoveFromScoreboard(w) ==
  /\ \/ worker[w].pc = "done"
     \/ worker[w].pc = "retrying" /\ ~worker[w].again
  /\ mover[w].pc = "idle"
  /\ scoreboard' = scoreboard \ {worker[w].msg}
  /\ worker' = [worker EXCEPT ![w] = IdleWorker]
  /\ UNCHANGED <<spoolVars, upload, loop, mover, scanVars, history>>

ProcessMessage(w) ==
  \/ AddToScoreboard(w) \/ Route(w) \/ DeliverLocal(w) \/ GetTicket(w)
  \/ UploadMessage(w) \/ CompleteUpload(w) \/ RemoveProcessed(w)
  \/ RetryAgain(w) \/ RemoveFromScoreboard(w)

-----------------------------------------------------------------------------
(***************************************************************************)
(* ProcessRetryQueue.                                                      *)
(***************************************************************************)
RetryTimePasses(m) ==
  /\ retryFile[m].state = "ok" /\ ~retryFile[m].due
  /\ "retry" \in at[m]
  /\ retryFile' = [retryFile EXCEPT ![m].due = TRUE]
  /\ UNCHANGED <<at, upload, loop, worker, mover, scoreboard, scanVars, history>>

\* Mutant of RetryInfoFromQueue: looks for the records in the wrong section.
RetryInfoFromProcessing ==
  {[msg |-> m, retries |-> retryFile[m].retries, due |-> retryFile[m].due] :
     m \in {x \in Msgs : HasRetryInfo(at, retryFile, x, "processing")}}

\* GetRetryInfoFromQueue skips a message whose .retry.json it cannot read.
RetryInfoFromQueue ==
  {[msg |-> m, retries |-> retryFile[m].retries, due |-> retryFile[m].due] :
     m \in {x \in Msgs : HasRetryInfo(at, retryFile, x, "retry")}}

\* The retry ticker (force = FALSE) or FlushQueues (TRUE) starts a scan.
StartRetryScan(r, force) ==
  /\ retryScan[r] = IdleRetryScan
  /\ RetryInfoFromQueue # {}
  /\ retryScan' = [retryScan EXCEPT ![r] =
       [force |-> force, todo |-> RetryInfoFromQueue, expired |-> {}]]
  /\ UNCHANGED <<spoolVars, upload, loop, worker, mover, scoreboard, stuckScan, history>>

IsExpired(e) == e.retries > MaxRetries

\* Entry e of r's snapshot is dealt with.
EntryDone(r, e) ==
  LET rest == retryScan[r].todo \ {e} IN
  retryScan' = [retryScan EXCEPT ![r] =
    [force |-> rest # {} /\ @.force, todo |-> rest, expired |-> {}]]

\* `Giving up': the code removes the directory from the processing section.
GiveUpEntry(r, e) ==
  /\ IsExpired(e) /\ e \notin retryScan[r].expired
  /\ gaveUp' = gaveUp \cup {e.msg}
  /\ \/ /\ Remove(e.msg, "processing")
        /\ retryScan' = [retryScan EXCEPT ![r].expired = {e}]
     \/ "remove" \in Faults /\ UNCHANGED spoolVars /\ EntryDone(r, e)
  /\ UNCHANGED <<upload, loop, worker, mover, scoreboard, stuckScan, copies, crashes>>

\* Mutant of RetryEntry: starts an attempt also when MoveMessage failed.
RetryEntryUnchecked(r, e) ==
  LET m == e.msg
      go == (retryScan[r].force \/ e.due) IN
  /\ ~IsExpired(e) \/ e \in retryScan[r].expired
  /\ EntryDone(r, e)
  /\ IF go THEN Spawn(m) ELSE UNCHANGED worker
  /\ at' = IF go /\ CanMove(at, m, "retry", "processing")
           THEN Moved(at, m, "retry", "processing") ELSE at
  /\ UNCHANGED <<retryFile, upload, loop, mover, scoreboard, stuckScan, history>>

RetryEntry(r, e) ==
  LET m == e.msg
      go == (retryScan[r].force \/ e.due)
      ok == CanMove(at, m, "retry", "processing") IN
  /\ ~IsExpired(e) \/ e \in retryScan[r].expired
  /\ EntryDone(r, e)
  /\ \/ /\ go /\ ok
        /\ at' = Moved(at, m, "retry", "processing")
        /\ Spawn(m)
     \/ /\ ~go \/ ~ok \/ "rename" \in Faults
        /\ UNCHANGED <<at, worker>>
  /\ UNCHANGED <<retryFile, upload, loop, mover, scoreboard, stuckScan, history>>

\* An entry given up on is looked at to its end before the next one.
ProcessRetryQueue(r) ==
  \E e \in retryScan[r].todo :
    /\ retryScan[r].expired \subseteq {e}
    /\ GiveUpEntry(r, e) \/ RetryEntry(r, e)

-----------------------------------------------------------------------------
(***************************************************************************)
(* ProcessStuckProcessingMessages.                                         *)
(***************************************************************************)
StartStuckScan(s) ==
  /\ stuckScan[s] = {} /\ mover[s].pc = "idle"
  /\ stuckScan' = [stuckScan EXCEPT ![s] = {m \in Msgs : "processing" \in at[m]}]
  /\ UNCHANGED <<spoolVars, upload, loop, worker, mover, scoreboard, retryScan, history>>

\* Mutant of CheckStuck: the test of the scoreboard is inverted.
CheckStuckInverted(s) ==
  \E m \in stuckScan[s] :
    /\ mover[s].pc = "idle"
    /\ stuckScan' = [stuckScan EXCEPT ![s] = @ \ {m}]
    /\ IF m \in scoreboard THEN CallMoveToRetryQueue(s, m) ELSE UNCHANGED mover
    /\ UNCHANGED <<spoolVars, upload, loop, worker, scoreboard, retryScan, history>>

\* One directory of the listing: moved away when it is not in the scoreboard.
CheckStuck(s) ==
  \E m \in stuckScan[s] :
    /\ mover[s].pc = "idle"
    /\ stuckScan' = [stuckScan EXCEPT ![s] = @ \ {m}]
    /\ IF m \in scoreboard THEN UNCHANGED mover ELSE CallMoveToRetryQueue(s, m)
    /\ UNCHANGED <<spoolVars, upload, loop, worker, scoreboard, retryScan, history>>

-----------------------------------------------------------------------------
(***************************************************************************)
(* The process dies (a signal, a panic, a fatal concurrent map access) and *)
(* is started again.  Open requests fail; goroutines and scoreboard go.    *)
(***************************************************************************)
Dies ==
  /\ upload' = [m \in Msgs |-> IF upload[m] \in {"sending", "blocked", "sent"}
                               THEN "failed" ELSE upload[m]]
  /\ loop' = [pc |-> "start", msg |-> NoMsg]
  /\ worker' = [w \in Workers |-> IdleWorker]
  /\ mover' = [t \in Threads |-> IdleMover]
  /\ scoreboard' = {}
  /\ retryScan' = [r \in RetryScans |-> IdleRetryScan]
  /\ stuckScan' = [s \in StuckScans |-> {}]
  /\ UNCHANGED <<spoolVars, copies, gaveUp>>

Crash == crashes < MaxCrashes /\ crashes' = crashes + 1 /\ Dies

Next ==
  \/ MakeChannel \/ MoveIncoming \/ Crash
  \/ \E m \in Msgs : QueueIncomingMessage(m) \/ ReceiveIncoming(m)
                       \/ AckIncoming(m) \/ RetryTimePasses(m)
  \/ \E w \in Workers : ProcessMessage(w)
  \/ \E t \in Threads : MoveToRetryQueue(t)
  \/ \E r \in RetryScans :
       \/ StartRetryScan(r, FALSE)
       \/ Flushing /\ StartRetryScan(r, TRUE)
       \/ ProcessRetryQueue(r)
  \/ \E s \in StuckScans : StartStuckScan(s) \/ CheckStuck(s)

Spec == Init /\ [][Next]_vars
=============================================================================
