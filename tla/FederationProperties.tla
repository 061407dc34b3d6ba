------------------------- MODULE FederationProperties -------------------------
(***************************************************************************)
(* What mail between servers should guarantee.                             *)
(***************************************************************************)
EXTENDS Federation, ProcessorProperties

\* Every variable has its type, and only an attempt that waits for a ticket is
\* in an exchange.
MailTypeOK ==
  /\ TypeOK
  /\ home \in [Msgs -> Servers]
  /\ registered \in SUBSET Msgs /\ published \in SUBSET registered
  /\ exchange \in [Workers -> Exchange]
  /\ failures \in 0 .. MaxFailures
  /\ \A w \in Workers : exchange[w] # "ask" => worker[w].pc = "ticket"

\* A message that has left the sending server was completed at the server that
\* the resolver named, for a recipient who was registered there before, unless
\* a scan gave it up: also when attempts and stuck scans work on it at once,
\* answers are lost, and the server dies.
RemovedIsMailed ==
  \A m \in Msgs : at[m] = {} => (copies[m] > 0 /\ m \in published) \/ m \in gaveUp

(***************************************************************************)
(* Progress.  As for Processor: goroutines are scheduled and tickers fire. *)
(***************************************************************************)
WorkerStep(w) ==
  \/ Attempt(w) \/ Panic(w)
  \/ (LocalStep(w) \/ MoveToRetryQueue(w)) /\ UNCHANGED <<directoryVars, exchange, failures>>

MailFairness ==
  /\ WF_vars(MakeChannel) /\ SF_vars(MoveIncoming)
  /\ \A m \in Msgs : /\ WF_vars(ReceiveIncoming(m)) /\ WF_vars(AckIncoming(m))
                     /\ WF_vars(RetryTimePasses(m))
  /\ \A w \in Workers : WF_mailVars(WorkerStep(w))
  /\ \A r \in RetryScans : WF_vars(StartRetryScan(r, FALSE)) /\ SF_vars(ProcessRetryQueue(r))
  /\ \A s \in StuckScans : /\ WF_vars(StartStuckScan(s))
                           /\ WF_vars(CheckStuck(s) \/ MoveToRetryQueue(s))
FairMailSpec == MailSpec /\ MailFairness

\* The worker has been told to do more work than there is.
WorksForEver(w) == exchange[w] = "hard"


\* Nothing takes the message up again: its record in the retry section is one
\* that no scan can read, or its worker has more work than there is.
PassedOver(m) ==
  \/ "retry" \in at[m] /\ retryFile[m].state # "ok"
  \/ \E w \in Workers : worker[w].msg = m /\ WorksForEver(w)

\* A message to another program, taken out of the incoming section and for a
\* recipient who is published in the end, is accepted there, through refused
\* and lost answers and a server that ends itself; or a scan that gave it up has
\* removed it (RemovedIsMailed: nobody else does); or it is passed over for ever,
\* since calls of MoveToRetryQueue have torn its record or the other server asks
\* for more work than there is; or stuck scans take it from its worker again and
\* again, before the worker has entered it in the scoreboard.
OthersGetMail ==
  \A m \in Msgs :
    home[m] \in Others /\ <>(m \in published) /\ <>("incoming" \notin at[m]) =>
      <>(copies[m] > 0 \/ at[m] = {}) \/ <>[]PassedOver(m) \/ []<>~Apart

(***************************************************************************)
(* Documented behaviour that the code does not have.                       *)
(***************************************************************************)
\* docs/status.md:20: mail is sent to an actual destination mail server (here: of
\* a recipient who was published before the mail was uploaded, when no stuck scan
\* takes the message from its worker).
MailArrives ==
  \A m \in Msgs :
    [](Apart /\ (upload[m] = "uploaded" \/ m \in published)) => (upload[m] = "acked" ~> copies[m] > 0)
=============================================================================
