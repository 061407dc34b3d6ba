------------------------- MODULE ProcessorProperties -------------------------
(***************************************************************************)
(* What the queue processor should guarantee.                              *)
(***************************************************************************)
EXTENDS Processor

\* Every variable has its type: the shape of the spool and of the goroutines.
TypeOK ==
  /\ at \in [Msgs -> SUBSET Places]
  /\ retryFile \in [Msgs -> RetryFile]
  /\ upload \in [Msgs -> UploadState]
  /\ loop \in LoopState
  /\ worker \in [Workers -> WorkerState]
  /\ mover \in [Threads -> MoverState]
  /\ scoreboard \in SUBSET Msgs
  /\ retryScan \in [RetryScans -> RetryScanState]
  /\ stuckScan \in [StuckScans -> SUBSET Msgs]
  /\ copies \in [Msgs -> 0 .. MaxCopies]
  /\ gaveUp \in SUBSET Msgs
  /\ crashes \in 0 .. MaxCrashes

(***************************************************************************)
(* Safety for every interleaving, crash and fault.                         *)
(***************************************************************************)
\* A message whose directory is gone was accepted by the remote server or
\* was declared expired: no other order of the goroutines that race for a
\* directory (a stuck scan against the worker it did not see, two workers
\* against each other) makes one disappear.
NoSilentLoss ==
  \A m \in Msgs : at[m] = {} => copies[m] > 0 \/ m \in gaveUp

\* The queues implement the promise of Delivery: a message stays owned until
\* it was delivered or given up, is never owned again (no late write brings
\* its directory back), and reaches a local inbox once.
Owned == {m \in Msgs : at[m] \cap Sections # {}}
Delivered ==
  [m \in Msgs |-> IF m \in LocalMsgs THEN (IF "inbox" \in at[m] THEN 1 ELSE 0) ELSE copies[m]]
Promise == INSTANCE Delivery WITH owned <- Owned, delivered <- Delivered
ImplementsDelivery == Promise!DeliverySpec

\* A directory lies in one place: it is moved, never copied.
OneHome == \A m \in Msgs : \A p, q \in at[m] : p = q

\* An attempt is on the path of its recipient, local or remote, and removes
\* the message only after the remote server took it.
OnPath ==
  /\ \A m \in Msgs : "inbox" \in at[m] => m \in LocalMsgs
  /\ \A w \in Workers :
       /\ worker[w].pc = "local" => worker[w].msg \in LocalMsgs
       /\ worker[w].pc \in {"ticket", "upload", "complete", "remove"} => worker[w].msg \notin LocalMsgs
       /\ worker[w].pc = "remove" => copies[worker[w].msg] > 0

\* The inductive invariant behind NoSilentLoss and ImplementsDelivery: every
\* step of every goroutine keeps it, from any state that satisfies it.
SpoolInv == TypeOK /\ OneHome /\ OnPath /\ NoSilentLoss

(***************************************************************************)
(* Safety while the calls of MoveToRetryQueue for a message do not overlap *)
(* with an attempt at it or with each other.  The run has no stuck scan    *)
(* and no failing proof exchange, where that is so; the theorems are about *)
(* every processor and assume Apart.                                       *)
(***************************************************************************)
Engaged(m) ==
  {w \in Workers : worker[w].msg = m /\ (worker[w].pc \notin {"retrying", "done"} \/ mover[w].pc # "idle")}

\* A call of MoveToRetryQueue has its message alone.
Apart ==
  \A t \in Threads : mover[t].pc # "idle" =>
    /\ \A w \in Engaged(mover[t].msg) : w = t
    /\ \A s \in Threads : mover[s].pc # "idle" /\ mover[s].msg = mover[t].msg => s = t

\* Between its start and its end in one of the queues an attempt to deliver a
\* message is the only one, although overlapping retry scans start attempts
\* from snapshots that may be stale.
OneAttemptAtATime == \A m \in Msgs : Cardinality(Engaged(m)) <= 1

\* A message in the retry section carries a retry record that the next scan
\* can read; without one the scan would pass it over for ever.
RetryIsReadable == \A m \in Msgs : "retry" \in at[m] => retryFile[m].state = "ok"

\* When no answer to CompleteUpload is lost, the remote server gets a message
\* at most once, whatever attempts failed before.
AtMostOnce == \A m \in Msgs : copies[m] <= 1

(***************************************************************************)
(* Progress.  Goroutines are scheduled, tickers fire, the clock advances   *)
(* and the loop selects what is ready; requests, flushes and crashes need  *)
(* not happen.  The two steps that start a goroutine are strongly fair:    *)
(* they wait for a slot in Workers, where the code never waits.            *)
(***************************************************************************)
Fairness ==
  /\ WF_vars(MakeChannel) /\ SF_vars(MoveIncoming)
  /\ \A m \in Msgs : /\ WF_vars(ReceiveIncoming(m)) /\ WF_vars(AckIncoming(m))
                     /\ WF_vars(RetryTimePasses(m))
  /\ \A w \in Workers : WF_vars(ProcessMessage(w) \/ MoveToRetryQueue(w))
  /\ \A r \in RetryScans : WF_vars(StartRetryScan(r, FALSE)) /\ SF_vars(ProcessRetryQueue(r))
  /\ \A s \in StuckScans : /\ WF_vars(StartStuckScan(s))
                           /\ WF_vars(CheckStuck(s) \/ MoveToRetryQueue(s))
FairSpec == Spec /\ Fairness

\* A message does not stay in the processing section: its worker finishes it,
\* or, when the worker died in a crash, a stuck scan moves it away.
ProcessingDrains == \A m \in Msgs : "processing" \in at[m] ~> "processing" \notin at[m]

\* A message does not stay in the retry section: it is tried again.
RetryDrains == \A m \in Msgs : "retry" \in at[m] ~> "retry" \notin at[m]

\* A message whose upload was acknowledged leaves the incoming section, unless the
\* server dies before (stuck.go:33 only logs what it finds there).
AcceptedIsPickedUp ==
  \A m \in Msgs : upload[m] = "acked" ~> "incoming" \notin at[m] \/ crashes > 0
=============================================================================
