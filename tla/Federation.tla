------------------------------ MODULE Federation ------------------------------
(***************************************************************************)
(* Mail between servers: the queue of Processor, with the resolver and the *)
(* recipients' servers that its attempts talk to.  An attempt resolves the *)
(* address, asks the recipient's server for a ticket, works for it if told *)
(* to, and uploads.  A server of Ours runs this code, and answers as       *)
(* Tickets says; one of Others runs another program of the same protocol.  *)
(* Where Processor lets the outcome of the exchange be anything, here the  *)
(* other side determines it: each step of an attempt is the step of        *)
(* Processor, restricted to what the answer leads to.                      *)
(***************************************************************************)
EXTENDS Processor, Tickets

CONSTANTS
  Ours,        \* receiving servers that run this code
  Others,      \* receiving servers that run another program
  OtherKinds,  \* what Others answer when they do not refuse
  MaxFailures  \* bound on calls that get no answer, or one that refuses

Servers == Ours \cup Others

ASSUME FederationAssumption ==
  /\ Ours \cap Others = {}
  /\ OtherKinds \subseteq {"valid", "work", "hard"}
  /\ MaxFailures \in Nat
  /\ TicketReplies = {"valid", "error", "prooferror"}
  /\ UploadReplies = {"ok", "lost", "failed"}

VARIABLES
  home,       \* home[m]: the server with the account of the recipient
  registered, \* recipients with an account
  published,  \* recipients whose information is at the resolver
  exchange,   \* exchange[w]: how far worker w is with its ticket
  failures

directoryVars == <<home, registered, published>>
mailVars      == <<vars, directoryVars, exchange, failures>>

\* ask: no ticket yet; hard: for more bits than any counter has; nowork: the
\* ticket has no work in it.
Exchange == {"ask", "work", "hard", "nowork", "proof"}

MailInit ==
  /\ Init
  /\ home \in [Msgs -> Servers]
  /\ registered = {} /\ published = {}
  /\ exchange = [w \in Workers |-> "ask"]
  /\ failures = 0

\* A call gets no answer within 15 seconds, none at all, or one that refuses.
Fails == failures < MaxFailures /\ failures' = failures + 1

\* What the step of Processor made of the attempt.
FailsNow(w)   == worker'[w].pc = "retrying"
Twice(w)      == worker'[w].again
ExchangeTo(w, pc) == exchange' = [exchange EXCEPT ![w] = pc]

-----------------------------------------------------------------------------
(***************************************************************************)
(* Resolving the address of the recipient.                                 *)
(***************************************************************************)
\* GetResolveService adds its repositories to the chain once more on each call;
\* only how often a remote resolver is asked depends on that.
Chain == {"sqlite", "remote", "dht"}

\* sqlite passes a function for the address, which fails; dht knows nobody.
Knows(repo, m) == repo = "remote" /\ m \in published

\* Any error of a repository is `not found'.
Resolves(m) == \E repo \in Chain : Knows(repo, m)

Resolve(w) ==
  LET m == worker[w].msg
      found == "processing" \in at[m] /\ Resolves(m) IN
  /\ Route(w)
  /\ IF FailsNow(w) THEN (IF found THEN Fails ELSE UNCHANGED failures)
                    ELSE Resolves(m) /\ UNCHANGED failures
  /\ UNCHANGED <<directoryVars, exchange>>

-----------------------------------------------------------------------------

\* GetAnonymousTicket takes every 412 for a ticket to work for; `upload' and
\* `move' end the exchange.
AfterAnswer(kind) ==
  CASE kind = "valid"    -> "upload"
    [] kind = "notfound" -> "nowork"
    [] kind \in {"work", "hard"}      -> kind
    [] kind \in {"refused", "closed"} -> "move"

\* The exchange goes on to next: by itself, or as Processor says at its end.
Proceed(w, next) ==
  \/ /\ next \in Exchange
     /\ ExchangeTo(w, next)
     /\ UNCHANGED vars
  \/ /\ next \in {"upload", "move"}
     /\ GetTicket(w)
     /\ IF next = "upload" THEN ~FailsNow(w) ELSE FailsNow(w) /\ ~Twice(w)
     /\ ExchangeTo(w, "ask")

Has(m) == IF m \in registered THEN "yes" ELSE "no"

\* A request without a subscription or an ID.  What a server of this code has
\* under the ID that it makes for it is nothing.
AskOurs(w) ==
  LET m == worker[w].msg
      r == [has |-> Has(m), sub |-> FALSE, id |-> NoId] IN
  /\ home[m] \in Ours
  /\ \E fresh \in TicketIds :
       Proceed(w, AfterAnswer(GetLocalTicket(r, fresh, NoTicket, FALSE, {}).kind))
  /\ UNCHANGED failures

\* Another program answers in its own way, also with an error in a 412.
AskOthers(w) ==
  /\ home[worker[w].msg] \in Others
  /\ \/ (\E kind \in OtherKinds : Proceed(w, AfterAnswer(kind))) /\ UNCHANGED failures
     \/ Proceed(w, AfterAnswer("notfound")) /\ Fails

GetAnonymousTicket(w) ==
  /\ worker[w].pc = "ticket" /\ exchange[w] = "ask"
  /\ AskOurs(w) \/ AskOthers(w) \/ (Proceed(w, "move") /\ Fails)
  /\ UNCHANGED directoryVars

\* Work ends when some counter has the bits, see ProofOfWork; for more bits it
\* waits for ever, and the message stays in the scoreboard.
Work(w) ==
  /\ worker[w].pc = "ticket" /\ exchange[w] = "work"
  /\ ExchangeTo(w, "proof")
  /\ UNCHANGED <<vars, directoryVars, failures>>

\* Work on a ticket without any is a nil dereference in a goroutine of its own,
\* which ends the server and every attempt with it.
Panic(w) ==
  /\ worker[w].pc = "ticket" /\ exchange[w] = "nowork"
  /\ Dies /\ UNCHANGED crashes
  /\ exchange' = [v \in Workers |-> "ask"]
  /\ UNCHANGED <<directoryVars, failures>>

\* The ticket ID and the proof, without the addresses.  An answer that is an
\* error makes deliverRemote and its caller both move the message; one without
\* a valid ticket is moved once.
GetAnonymousTicketByProof(w) ==
  /\ worker[w].pc = "ticket" /\ exchange[w] = "proof"
  /\ GetTicket(w)
  /\ IF FailsNow(w) THEN Fails ELSE UNCHANGED failures
  /\ ExchangeTo(w, "ask")
  /\ UNCHANGED directoryVars

-----------------------------------------------------------------------------
(***************************************************************************)
(* The upload.                                                             *)
(***************************************************************************)
\* All parts in parallel; when one fails the message is deleted there again.
Upload(w) ==
  /\ UploadMessage(w)
  /\ IF FailsNow(w) /\ "processing" \in at[worker[w].msg] THEN Fails ELSE UNCHANGED failures
  /\ UNCHANGED <<directoryVars, exchange>>

\* Mutant of Complete: an answer that does not come is none that refuses.
CompleteUnchecked(w) ==
  /\ CompleteUploadUnchecked(w)
  /\ failures' = failures
  /\ UNCHANGED <<directoryVars, exchange>>

\* Without an answer the recipient's server may have the message or not.
Complete(w) ==
  /\ CompleteUpload(w)
  /\ IF FailsNow(w) THEN Fails ELSE UNCHANGED failures
  /\ UNCHANGED <<directoryVars, exchange>>

Attempt(w) ==
  \/ Resolve(w) \/ GetAnonymousTicket(w) \/ Work(w) \/ GetAnonymousTicketByProof(w)
  \/ Upload(w) \/ Complete(w)

-----------------------------------------------------------------------------
(***************************************************************************)
(* Everything else is the queue's own affair.                              *)
(***************************************************************************)
LocalStep(w) ==
  AddToScoreboard(w) \/ DeliverLocal(w) \/ RemoveProcessed(w) \/ RetryAgain(w) \/ RemoveFromScoreboard(w)

Queue ==
  \/ MakeChannel \/ MoveIncoming
  \/ \E m \in Msgs : QueueIncomingMessage(m) \/ ReceiveIncoming(m)
                       \/ AckIncoming(m) \/ RetryTimePasses(m)
  \/ \E w \in Workers : LocalStep(w)
  \/ \E t \in Threads : MoveToRetryQueue(t)
  \/ \E r \in RetryScans : \/ StartRetryScan(r, FALSE)
                           \/ Flushing /\ StartRetryScan(r, TRUE)
                           \/ ProcessRetryQueue(r)
  \/ \E s \in StuckScans : StartStuckScan(s) \/ CheckStuck(s)

QueueStep == Queue /\ UNCHANGED <<directoryVars, exchange, failures>>

CrashStep ==
  /\ Crash
  /\ exchange' = [w \in Workers |-> "ask"]
  /\ UNCHANGED <<directoryVars, failures>>

\* Mutant of Register: the resolver first.
PublishFirst(m) ==
  /\ m \notin registered
  /\ published' = published \cup {m}
  /\ registered' = IF m \in published THEN registered \cup {m} ELSE registered
  /\ UNCHANGED <<vars, home, exchange, failures>>

\* create-account registers at the server, then at the resolver.
Register(m) ==
  /\ m \notin published
  /\ registered' = registered \cup {m}
  /\ published' = IF m \in registered THEN published \cup {m} ELSE published
  /\ UNCHANGED <<vars, home, exchange, failures>>

MailNext ==
  \/ QueueStep \/ CrashStep
  \/ \E w \in Workers : Attempt(w) \/ Panic(w)
  \/ \E m \in Msgs : Register(m)

MailSpec == MailInit /\ [][MailNext]_mailVars
=============================================================================
