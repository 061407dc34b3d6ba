--------------------------- MODULE FederationProofs ---------------------------
(***************************************************************************)
(* Theorems about mail between servers and about their tickets, for any    *)
(* messages, servers, goroutines, answers and faults.  A step of the mail  *)
(* is a step of the queue of Processor, or the death of the server, or one *)
(* of the other side, which the queue does not see: SpoolInv carries over. *)
(***************************************************************************)
EXTENDS FederationProperties, TicketStoreProperties, DeliveryProofs

-----------------------------------------------------------------------------
(***************************************************************************)
(* Tickets.  GrantedIsEarned is not inductive: a ticket may be answered as *)
(* valid from the one that is stored, so each of those must be earned.     *)
(***************************************************************************)
Earned(t) ==
  \/ t.for = "client"
  \/ t.for = "subscription" /\ known
  \/ t.for = "work" /\ t.work

StoreInv ==
  /\ StoreTypeOK
  /\ \A i \in granted : tickets[i].valid
  /\ \A i \in TicketIds : IF tickets[i].valid THEN Earned(tickets[i])
                                              ELSE tickets[i] = NoTicket \/ tickets[i].for = "work"

LEMMA TicketTypes ==
  /\ \A for \in {"client", "subscription", "work"} : Validated(for) \in Ticket
  /\ NoTicket \in Ticket
BY DEF Validated, NoTicket, Ticket

\* What an answer stores is a ticket that may be, and a ticket that is answered
\* as valid is stored with the answer or was before.
LEMMA AnswerIsEarned ==
  ASSUME StoreInv, NEW r \in Request, NEW id \in TicketIds, r.id \in {NoId, id},
         NEW fails \in SUBSET RedisFaults
  PROVE  LET a == GetLocalTicket(r, id, tickets[id], known, fails)
         IN  /\ a.id = id /\ a.stored \in Ticket
             /\ a.stored = NoTicket \/ (a.stored.valid /\ Earned(a.stored))
             /\ a.kind = "valid" => a.stored.valid \/ (a.stored = NoTicket /\ tickets[id].valid)
<1> DEFINE a == GetLocalTicket(r, id, tickets[id], known, fails)
           Good(x) == /\ x.id = id /\ x.stored \in Ticket
                      /\ x.stored = NoTicket \/ (x.stored.valid /\ Earned(x.stored))
                      /\ x.kind = "valid" => x.stored.valid \/ (x.stored = NoTicket /\ tickets[id].valid)
<1>1. NewValidated(r, id) = id /\ id # NoId
  BY TicketsAssumption DEF NewValidated
<1>2. \A kind \in {"closed", "refused", "notfound", "work"} : Good(Answer(kind, id))
  BY TicketTypes DEF Answer
<1>3. ASSUME NEW t \in Ticket, t.valid, Earned(t) PROVE Good(Storing("valid", id, t, fails))
  BY <1>2, <1>3 DEF Storing
<1>t. tickets[id] \in Ticket
  BY DEF StoreInv, StoreTypeOK
<1>4. Good(handleSubscription(id, known, fails))
  <2>1. known => Earned(Validated("subscription"))
    BY DEF Earned, Validated
  <2>2. known => Good(Storing("valid", id, Validated("subscription"), fails))
    BY <1>3, <2>1, TicketTypes DEF Validated
  <2> QED BY <1>2, <2>2 DEF handleSubscription
<1>5. Good(validate(tickets[id], id, fails))
  <2> DEFINE t == tickets[id]
             u == [valid |-> TRUE, for |-> t.for, work |-> TRUE]
  <2>1. CASE t = NoTicket \/ "fetch" \in fails
    BY <1>2, <2>1 DEF validate
  <2>2. CASE ~(t = NoTicket \/ "fetch" \in fails) /\ t.valid
    <3>1. Good(Answer("valid", id))
      BY <2>2, TicketTypes DEF Answer
    <3> QED BY <2>2, <3>1 DEF validate
  <2>3. CASE ~(t = NoTicket \/ "fetch" \in fails) /\ ~t.valid /\ t.work
    <3>1. t.for = "work"
      BY <2>3, <1>t DEF StoreInv, Ticket, NoTicket
    <3>2. u \in Ticket /\ Earned(u)
      BY <2>3, <3>1, <1>t DEF Ticket, Earned
    <3>3. Good(Storing("valid", id, u, fails))
      BY <1>3, <1>t, <3>2 DEF Ticket
    <3> QED BY <2>3, <3>3 DEF validate
  <2>4. CASE ~(t = NoTicket \/ "fetch" \in fails) /\ ~t.valid /\ ~t.work
    BY <1>2, <2>4 DEF validate
  <2> QED BY <2>1, <2>2, <2>3, <2>4
<1>6. Good(a)
  <2>1. r.has \in {"yes", "no", "none"} /\ r.sub \in BOOLEAN
    BY DEF Request
  <2> QED BY <1>1, <1>2, <1>4, <1>5, <2>1 DEF GetLocalTicket
<1> QED BY <1>6

LEMMA StoreStep == StoreInv /\ [StoreNext]_storeVars => StoreInv'
<1> SUFFICES ASSUME StoreInv, [StoreNext]_storeVars PROVE StoreInv'
  OBVIOUS
<1>1. CASE UNCHANGED storeVars
  BY <1>1 DEF storeVars, StoreInv, StoreTypeOK, Earned
<1>2. CASE PeerRequest
  <2>1. PICK r \in Request, fails \in SUBSET RedisFaults :
          \E id \in IF r.id = NoId THEN FreshIds ELSE {r.id} :
            /\ Serve(GetLocalTicket(r, id, tickets[id], known, fails))
            /\ UNCHANGED known
    BY <1>2 DEF PeerRequest
  <2>2. PICK id \in IF r.id = NoId THEN FreshIds ELSE {r.id} :
          Serve(GetLocalTicket(r, id, tickets[id], known, fails)) /\ UNCHANGED known
    BY <2>1
  <2>3. id \in TicketIds /\ r.id \in {NoId, id}
    BY <2>2 DEF FreshIds, Request
  <2> DEFINE a == GetLocalTicket(r, id, tickets[id], known, fails)
  <2>4. /\ a.id = id /\ a.stored \in Ticket
        /\ a.stored = NoTicket \/ (a.stored.valid /\ Earned(a.stored))
        /\ a.kind = "valid" => a.stored.valid \/ (a.stored = NoTicket /\ tickets[id].valid)
    BY <2>3, AnswerIsEarned
  <2>5. Serve(a) /\ UNCHANGED known
    BY <2>2
  <2> HIDE DEF a
  <2>6. tickets' = IF a.stored = NoTicket THEN tickets ELSE [tickets EXCEPT ![id] = a.stored]
    BY <2>4, <2>5 DEF Serve
  <2>7. /\ tickets' \in [TicketIds -> Ticket]
        /\ \A i \in TicketIds : tickets'[i] = tickets[i] \/ (i = id /\ tickets'[i] = a.stored /\ a.stored.valid)
        /\ a.stored.valid => tickets'[id] = a.stored
    <3>1. tickets \in [TicketIds -> Ticket] /\ ~NoTicket.valid
      BY DEF StoreInv, StoreTypeOK, NoTicket
    <3> QED BY <2>3, <2>4, <2>6, <3>1
  <2>8. StoreTypeOK'
    BY <2>3, <2>4, <2>5, <2>7 DEF Serve, StoreInv, StoreTypeOK
  <2>9. \A i \in granted' : tickets'[i].valid
    <3>1. ASSUME NEW i \in granted PROVE tickets'[i].valid
      BY <2>7, <3>1 DEF StoreInv, StoreTypeOK
    <3>2. a.kind = "valid" => tickets'[id].valid
      BY <2>3, <2>4, <2>6, <2>7
    <3> QED BY <2>4, <2>5, <3>1, <3>2 DEF Serve
  <2>10. ASSUME NEW i \in TicketIds
         PROVE  (IF tickets[i].valid THEN Earned(tickets[i])
                                     ELSE tickets[i] = NoTicket \/ tickets[i].for = "work")'
    <3>1. CASE tickets'[i] = tickets[i]
      BY <2>5, <3>1 DEF StoreInv, Earned
    <3>2. CASE tickets'[i] = a.stored /\ a.stored.valid
      <4>1. Earned(a.stored)
        BY <2>4, <3>2 DEF NoTicket
      <4> QED BY <2>5, <3>2, <4>1 DEF Earned
    <3> QED BY <2>7, <3>1, <3>2
  <2> QED BY <2>8, <2>9, <2>10 DEF StoreInv
<1>3. CASE GetRemoteTicket
  <2>1. PICK fresh \in FreshIds : tickets' = [tickets EXCEPT ![fresh] = Validated("client")]
    BY <1>3 DEF GetRemoteTicket
  <2>2. Validated("client") \in Ticket /\ Validated("client").valid /\ Validated("client").for = "client"
    BY TicketTypes DEF Validated
  <2> QED BY <1>3, <2>1, <2>2 DEF GetRemoteTicket, FreshIds, StoreInv, StoreTypeOK, Earned
<1>4. CASE Expire
  <2>1. PICK i \in TicketIds : tickets' = [tickets EXCEPT ![i] = NoTicket] /\ granted' = granted \ {i} /\ UNCHANGED known
    BY <1>4 DEF Expire
  <2>2. NoTicket \in Ticket /\ ~NoTicket.valid
    BY TicketTypes DEF NoTicket
  <2> QED BY <2>1, <2>2 DEF StoreInv, StoreTypeOK, Earned
<1> QED BY <1>1, <1>2, <1>3, <1>4 DEF StoreNext

\* A ticket is answered as valid only if it rests on an account, a subscription or
\* work: whatever IDs are named, tickets are overwritten or calls to Redis fail.
THEOREM TicketsAreEarned == StoreSpec => []GrantedIsEarned
<1>1. StoreInit => StoreInv
  BY TicketTypes DEF StoreInit, StoreInv, StoreTypeOK, NoTicket
<1>2. StoreInv => GrantedIsEarned
  BY DEF StoreInv, StoreTypeOK, GrantedIsEarned, Earned
<1> QED BY <1>1, <1>2, StoreStep, PTL DEF StoreSpec

-----------------------------------------------------------------------------
(***************************************************************************)
(* The steps of the mail, as the queue sees them.                          *)
(***************************************************************************)
LEMMA MailSteps ==
  ASSUME MailNext
  PROVE  Next \/ (Dies /\ UNCHANGED crashes) \/ UNCHANGED vars
<1>1. CASE QueueStep
  BY <1>1 DEF QueueStep, Queue, LocalStep, Next, ProcessMessage
<1>2. CASE CrashStep
  BY <1>2 DEF CrashStep, Next
<1>3. ASSUME NEW w \in Workers, Attempt(w) PROVE Next \/ UNCHANGED vars
  <2>1. Route(w) \/ GetTicket(w) \/ UploadMessage(w) \/ CompleteUpload(w) \/ UNCHANGED vars
    BY <1>3 DEF Attempt, Resolve, GetAnonymousTicket, AskOurs, AskOthers, Proceed, Work,
                GetAnonymousTicketByProof, Upload, Complete
  <2> QED BY <2>1 DEF Next, ProcessMessage
<1>4. ASSUME NEW w \in Workers, Panic(w) PROVE Dies /\ UNCHANGED crashes
  BY <1>4 DEF Panic
<1>5. ASSUME NEW m \in Msgs, Register(m) PROVE UNCHANGED vars
  BY <1>5 DEF Register
<1> QED BY <1>1, <1>2, <1>3, <1>4, <1>5 DEF MailNext

LEMMA MailSpool == SpoolInv /\ [MailNext]_mailVars => SpoolInv'
<1> SUFFICES ASSUME SpoolInv, [MailNext]_mailVars PROVE SpoolInv'
  OBVIOUS
<1>1. CASE Next \/ UNCHANGED vars
  BY <1>1, NextSpool
<1>2. CASE Dies /\ UNCHANGED crashes
  <2>1. TypeOK'
    BY <1>2, DiesType DEF SpoolInv, TypeOK
  <2> QED BY <1>2, <2>1, DiesSpool
<1> QED BY <1>1, <1>2, MailSteps DEF mailVars

\* An attempt that has resolved its address and is not over.
Beyond(w) == worker[w].pc \in {"ticket", "upload", "complete", "remove"}

\* The queue's own steps leave an attempt alone that asks for a ticket, bring none
\* that far, and count no copies.
LEMMA QueueSeen ==
  ASSUME TypeOK, Queue
  PROVE  /\ UNCHANGED copies
         /\ \A v \in Workers : worker[v].pc = "ticket" \/ Beyond(v)' => worker'[v] = worker[v]
<1> USE DEF history, scanVars
<1>s. ASSUME NEW m, Spawn(m)
      PROVE  \A v \in Workers : worker[v].pc = "ticket" \/ Beyond(v)' => worker'[v] = worker[v]
  BY <1>s DEF TypeOK, Spawn, Beyond
<1>1. ASSUME NEW w \in Workers, LocalStep(w)
      PROVE  /\ UNCHANGED copies
             /\ \A v \in Workers : worker[v].pc = "ticket" \/ Beyond(v)' => worker'[v] = worker[v]
  <2>1. worker[w].pc \notin {"idle", "ticket"} /\ UNCHANGED copies
    BY <1>1 DEF LocalStep, AddToScoreboard, DeliverLocal, RemoveProcessed, RetryAgain, RemoveFromScoreboard
  <2>2. worker[w] = [pc |-> worker[w].pc, msg |-> worker[w].msg, again |-> worker[w].again]
    BY <2>1 DEF TypeOK, WorkerState, IdleWorker
  <2>3. \A v \in Workers \ {w} : worker'[v] = worker[v]
    BY <1>1 DEF TypeOK, LocalStep, AddToScoreboard, DeliverLocal, RemoveProcessed, RetryAgain,
                RemoveFromScoreboard, Goto, Fail
  <2>4. worker'[w].pc \in {"idle", "route", "done", "retrying"}
    BY <1>1, <2>2 DEF TypeOK, LocalStep, AddToScoreboard, DeliverLocal, RemoveProcessed, RetryAgain,
                      RemoveFromScoreboard, Goto, Fail, IdleWorker
  <2> QED BY <2>1, <2>3, <2>4 DEF Beyond
<1>2. CASE MakeChannel \/ MoveIncoming
  BY <1>2, <1>s DEF MakeChannel, MoveIncoming
<1>3. ASSUME NEW m \in Msgs,
             QueueIncomingMessage(m) \/ ReceiveIncoming(m) \/ AckIncoming(m) \/ RetryTimePasses(m)
      PROVE  UNCHANGED <<copies, worker>>
  BY <1>3 DEF QueueIncomingMessage, ReceiveIncoming, AckIncoming, RetryTimePasses
<1>4. ASSUME NEW t \in Threads, MoveToRetryQueue(t) PROVE UNCHANGED <<copies, worker>>
  BY <1>4 DEF MoveToRetryQueue, MoverRead, MoverOpen, MoverWrite, MoverMove
<1>5. ASSUME NEW r \in RetryScans, NEW force \in BOOLEAN, StartRetryScan(r, force)
      PROVE  UNCHANGED <<copies, worker>>
  BY <1>5 DEF StartRetryScan
<1>6. ASSUME NEW r \in RetryScans, ProcessRetryQueue(r)
      PROVE  /\ UNCHANGED copies
             /\ \A v \in Workers : worker[v].pc = "ticket" \/ Beyond(v)' => worker'[v] = worker[v]
  BY <1>6, <1>s DEF ProcessRetryQueue, GiveUpEntry, RetryEntry
<1>7. ASSUME NEW s \in StuckScans, StartStuckScan(s) \/ CheckStuck(s) PROVE UNCHANGED <<copies, worker>>
  BY <1>7 DEF StartStuckScan, CheckStuck
<1> QED BY <1>1, <1>2, <1>3, <1>4, <1>5, <1>6, <1>7 DEF Queue

\* What the steps of an attempt do to it: the others stay, and it comes beyond the
\* resolver only by resolving.
LEMMA AttemptSeen ==
  ASSUME TypeOK, NEW w \in Workers,
         Route(w) \/ GetTicket(w) \/ UploadMessage(w) \/ CompleteUpload(w)
  PROVE  /\ \A v \in Workers \ {w} : worker'[v] = worker[v]
         /\ Beyond(w)' => worker'[w].msg = worker[w].msg
         /\ worker'[w].pc = "ticket" => Route(w) /\ ~FailsNow(w)
         /\ Beyond(w)' /\ ~Beyond(w) => Route(w) /\ ~FailsNow(w)
         /\ \A m \in Msgs : copies'[m] = copies[m] \/ (m = worker[w].msg /\ Beyond(w))
<1> USE DEF history
<1>1. worker[w].pc \in {"route", "ticket", "upload", "complete"}
  BY DEF Route, GetTicket, UploadMessage, CompleteUpload
<1>2. worker[w] = [pc |-> worker[w].pc, msg |-> worker[w].msg, again |-> worker[w].again]
  BY <1>1 DEF TypeOK, WorkerState, IdleWorker
<1>3. \A v \in Workers \ {w} : worker'[v] = worker[v]
  BY DEF TypeOK, Route, GetTicket, UploadMessage, CompleteUpload, Goto, Fail
<1>4. CASE Route(w)
  <2>1. /\ worker[w].pc = "route" /\ UNCHANGED copies
        /\ worker'[w].pc \in {"local", "ticket", "retrying"} /\ worker'[w].msg = worker[w].msg
    BY <1>2, <1>4 DEF TypeOK, Route, Goto, Fail
  <2> QED BY <1>3, <1>4, <2>1 DEF Beyond, FailsNow
<1>5. CASE GetTicket(w) \/ UploadMessage(w) \/ CompleteUpload(w)
  <2>1. Beyond(w) /\ worker'[w].msg = worker[w].msg
    BY <1>2, <1>5 DEF TypeOK, GetTicket, UploadMessage, CompleteUpload, Goto, Fail, Beyond
  <2>2. worker'[w].pc \in {"upload", "complete", "remove", "retrying"}
    BY <1>2, <1>5 DEF TypeOK, GetTicket, UploadMessage, CompleteUpload, Goto, Fail
  <2>3. \A m \in Msgs : copies'[m] = copies[m] \/ m = worker[w].msg
    BY <1>5 DEF TypeOK, GetTicket, UploadMessage, CompleteUpload
  <2> QED BY <1>3, <2>1, <2>2, <2>3
<1> QED BY <1>4, <1>5

-----------------------------------------------------------------------------
(***************************************************************************)
(* RemovedIsMailed is not inductive: what a worker beyond the resolver     *)
(* sends counts as mailed only if its recipient was published (SentInv).   *)
(***************************************************************************)
SentInv ==
  /\ \A w \in Workers : Beyond(w) => worker[w].msg \in published
  /\ \A m \in Msgs : copies[m] > 0 => m \in published

\* What the steps do to the variables that Processor does not have.
LEMMA ExchangeStep ==
  ASSUME MailTypeOK, MailNext
  PROVE  /\ exchange' \in [Workers -> Exchange] /\ failures' \in 0 .. MaxFailures
         /\ published \subseteq published' /\ published' \subseteq registered'
         /\ registered' \subseteq Msgs /\ UNCHANGED home
<1> USE DEF MailTypeOK, directoryVars
<1>a. "ask" \in Exchange /\ "proof" \in Exchange
  BY DEF Exchange
<1>f. Fails => failures' \in 0 .. MaxFailures
  BY FederationAssumption DEF Fails
<1>1. CASE QueueStep
  BY <1>1 DEF QueueStep
<1>2. CASE CrashStep
  BY <1>1, <1>2, <1>a DEF CrashStep
<1>3. ASSUME NEW w \in Workers, Attempt(w)
      PROVE  /\ exchange' \in [Workers -> Exchange] /\ failures' \in 0 .. MaxFailures
             /\ UNCHANGED directoryVars
  <2>1. ASSUME NEW next, Proceed(w, next) PROVE exchange' \in [Workers -> Exchange]
    BY <1>a, <2>1 DEF Proceed, ExchangeTo
  <2>2. CASE GetAnonymousTicket(w)
    BY <1>f, <2>1, <2>2 DEF GetAnonymousTicket, AskOurs, AskOthers
  <2>3. CASE Work(w) \/ GetAnonymousTicketByProof(w)
    BY <1>a, <1>f, <2>3 DEF Work, GetAnonymousTicketByProof, ExchangeTo
  <2>4. CASE Resolve(w) \/ Upload(w) \/ Complete(w)
    BY <1>f, <2>4 DEF Resolve, Upload, Complete
  <2> QED BY <1>3, <2>2, <2>3, <2>4 DEF Attempt
<1>4. ASSUME NEW w \in Workers, Panic(w) PROVE exchange' \in [Workers -> Exchange] /\ UNCHANGED <<directoryVars, failures>>
  BY <1>4, <1>a DEF Panic
<1>5. ASSUME NEW m \in Msgs, Register(m)
      PROVE  /\ UNCHANGED <<home, exchange, failures>>
             /\ published \subseteq published' /\ published' \subseteq registered' /\ registered' \subseteq Msgs
  BY <1>5 DEF Register
<1> QED BY <1>1, <1>2, <1>3, <1>4, <1>5 DEF MailNext

\* An attempt is in an exchange only while it waits for its ticket.
LEMMA ExchangeOf ==
  ASSUME MailTypeOK, NEW w \in Workers, Attempt(w)
  PROVE  /\ \A v \in Workers \ {w} : worker'[v] = worker[v] /\ exchange'[v] = exchange[v]
         /\ exchange'[w] = "ask" \/ worker'[w].pc = "ticket"
<1>e. /\ exchange \in [Workers -> Exchange] /\ TypeOK
      /\ exchange[w] # "ask" => worker[w].pc = "ticket"
  BY DEF MailTypeOK
<1>s. Route(w) \/ GetTicket(w) \/ UploadMessage(w) \/ CompleteUpload(w)
        => \A v \in Workers \ {w} : worker'[v] = worker[v]
  BY <1>e, AttemptSeen
<1>1. ASSUME NEW pc, ExchangeTo(w, pc)
      PROVE  exchange'[w] = pc /\ \A v \in Workers \ {w} : exchange'[v] = exchange[v]
  BY <1>1, <1>e DEF ExchangeTo
<1>2. CASE Resolve(w) \/ Upload(w) \/ Complete(w)
  <2>1. UNCHANGED exchange /\ worker[w].pc # "ticket"
    BY <1>2 DEF Resolve, Upload, Complete, Route, UploadMessage, CompleteUpload
  <2> QED BY <1>2, <1>e, <1>s, <2>1 DEF Resolve, Upload, Complete
<1>3. CASE GetAnonymousTicket(w)
  <2>1. PICK next : Proceed(w, next)
    BY <1>3 DEF GetAnonymousTicket, AskOurs, AskOthers
  <2>2. CASE next \in Exchange /\ ExchangeTo(w, next) /\ UNCHANGED vars
    <3>1. UNCHANGED worker /\ worker[w].pc = "ticket"
      BY <1>3, <2>2 DEF GetAnonymousTicket, vars
    <3> QED BY <1>1, <2>2, <3>1
  <2>3. CASE GetTicket(w) /\ ExchangeTo(w, "ask")
    BY <1>1, <1>s, <2>3
  <2> QED BY <2>1, <2>2, <2>3 DEF Proceed
<1>4. CASE Work(w)
  <2>1. UNCHANGED worker /\ worker[w].pc = "ticket" /\ ExchangeTo(w, "proof")
    BY <1>4 DEF Work, vars
  <2> QED BY <1>1, <2>1
<1>5. CASE GetAnonymousTicketByProof(w)
  BY <1>1, <1>5, <1>s DEF GetAnonymousTicketByProof
<1> QED BY <1>2, <1>3, <1>4, <1>5 DEF Attempt

LEMMA MailTypeStep ==
  ASSUME MailTypeOK, SpoolInv, [MailNext]_mailVars
  PROVE  MailTypeOK'
<1>t. TypeOK /\ TypeOK'
  BY MailSpool DEF SpoolInv
<1>1. CASE UNCHANGED mailVars
  BY <1>1, <1>t DEF mailVars, directoryVars, vars, MailTypeOK
<1>2. CASE MailNext
  <2>1. ASSUME NEW v \in Workers, exchange'[v] # "ask" PROVE worker'[v].pc = "ticket"
    <3>i. \A u \in Workers : exchange[u] # "ask" => worker[u].pc = "ticket"
      BY DEF MailTypeOK
    <3>1. CASE QueueStep
      BY <1>t, <2>1, <3>1, <3>i, QueueSeen DEF QueueStep
    <3>2. CASE CrashStep \/ \E w \in Workers : Panic(w)
      BY <2>1, <3>2 DEF CrashStep, Panic
    <3>3. ASSUME NEW w \in Workers, Attempt(w) PROVE worker'[v].pc = "ticket"
      BY <2>1, <3>3, <3>i, ExchangeOf
    <3>4. ASSUME NEW m \in Msgs, Register(m) PROVE worker'[v].pc = "ticket"
      BY <2>1, <3>4, <3>i DEF Register, vars
    <3> QED BY <1>2, <3>1, <3>2, <3>3, <3>4 DEF MailNext
  <2> QED BY <1>2, <1>t, <2>1, ExchangeStep DEF MailTypeOK
<1> QED BY <1>1, <1>2

LEMMA SentStep ==
  ASSUME MailTypeOK, SpoolInv, SentInv, [MailNext]_mailVars
  PROVE  SentInv'
<1>t. TypeOK
  BY DEF SpoolInv
<1>1. CASE UNCHANGED mailVars
  BY <1>1 DEF mailVars, directoryVars, vars, SentInv, Beyond
<1>2. CASE MailNext
  <2>p. published \subseteq published'
    BY <1>2, ExchangeStep
  <2>1. CASE QueueStep
    BY <1>t, <2>1, <2>p, QueueSeen DEF QueueStep, SentInv, Beyond
  <2>2. CASE CrashStep \/ \E w \in Workers : Panic(w)
    <3>1. UNCHANGED copies /\ \A v \in Workers : worker'[v] = IdleWorker
      BY <2>2 DEF CrashStep, Crash, Panic, Dies
    <3> QED BY <2>p, <3>1 DEF SentInv, Beyond, IdleWorker
  <2>3. ASSUME NEW w \in Workers, Attempt(w) PROVE SentInv'
    <3>1. CASE UNCHANGED vars
      BY <2>p, <3>1 DEF vars, SentInv, Beyond
    <3>2. CASE Route(w) \/ GetTicket(w) \/ UploadMessage(w) \/ CompleteUpload(w)
      <4>1. Route(w) /\ ~FailsNow(w) => worker[w].msg \in published
        BY <2>3 DEF Attempt, Resolve, Resolves, Knows, Route, GetAnonymousTicket, Work,
                    GetAnonymousTicketByProof, Upload, Complete, UploadMessage, CompleteUpload
      <4>2. Beyond(w)' => worker'[w].msg = worker[w].msg /\ worker[w].msg \in published
        BY <1>t, <3>2, <4>1, AttemptSeen DEF SentInv
      <4>3. \A v \in Workers \ {w} : worker'[v] = worker[v]
        BY <1>t, <3>2, AttemptSeen
      <4>4. \A m \in Msgs : copies'[m] = copies[m] \/ m \in published
        BY <1>t, <3>2, AttemptSeen DEF SentInv
      <4> QED BY <2>p, <4>2, <4>3, <4>4 DEF SentInv, Beyond
    <3> QED BY <2>3, <3>1, <3>2 DEF Attempt, Resolve, GetAnonymousTicket, AskOurs, AskOthers, Proceed,
            Work, GetAnonymousTicketByProof, Upload, Complete
  <2>4. ASSUME NEW m \in Msgs, Register(m) PROVE SentInv'
    BY <2>4, <2>p DEF Register, vars, SentInv, Beyond
  <2> QED BY <1>2, <2>1, <2>2, <2>3, <2>4 DEF MailNext
<1> QED BY <1>1, <1>2

LEMMA MailAlways == MailSpec => [](SpoolInv /\ MailTypeOK /\ SentInv)
<1>1. MailInit => SpoolInv /\ MailTypeOK /\ SentInv
  <2> SUFFICES ASSUME MailInit PROVE SpoolInv /\ MailTypeOK /\ SentInv
    OBVIOUS
  <2>1. SpoolInv /\ TypeOK
    BY InitSpool DEF MailInit, SpoolInv
  <2>2. MailTypeOK
    BY <2>1, FederationAssumption DEF MailInit, MailTypeOK, Exchange
  <2>3. SentInv
    BY DEF MailInit, Init, SentInv, Beyond, IdleWorker
  <2> QED BY <2>1, <2>2, <2>3
<1>2. SpoolInv /\ MailTypeOK /\ SentInv /\ [MailNext]_mailVars => (SpoolInv /\ MailTypeOK /\ SentInv)'
  BY MailSpool, MailTypeStep, SentStep
<1> QED BY <1>1, <1>2, PTL DEF MailSpec

\* Every variable of the mail between servers keeps its type, and an attempt is
\* in an exchange only while it waits for its ticket.
THEOREM MailTypeCorrect == MailSpec => []MailTypeOK
<1> QED BY MailAlways, PTL

\* A message that has left the sending server was completed at the server that the
\* resolver named, for a published recipient, unless a retry scan gave it up.
THEOREM RemovedWasMailed == MailSpec => []RemovedIsMailed
<1>1. SpoolInv /\ SentInv => RemovedIsMailed
  BY DEF SpoolInv, NoSilentLoss, SentInv, RemovedIsMailed
<1> QED BY <1>1, MailAlways, PTL
=============================================================================
