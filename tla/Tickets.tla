------------------------------- MODULE Tickets -------------------------------
(***************************************************************************)
(* What a bm-server answers to a request for a ticket that comes without   *)
(* an account (GetLocalTicket of cmd/bm-server/handler/ticket.go).  The    *)
(* module has no state: an answer is computed from the request, from what  *)
(* Redis has under the ID, and from the calls to Redis that fail.          *)
(***************************************************************************)
EXTENDS Naturals

CONSTANTS TicketIds,  \* bound on the tickets of a server at once
          NoId        \* the empty ticket ID

ASSUME TicketsAssumption == NoId \notin TicketIds

\* for: what the ticket was stored for; work: the proof stored with it is done.
Ticket == [valid : BOOLEAN, for : {"none", "client", "subscription", "work"}, work : BOOLEAN]
Validated(for) == [valid |-> TRUE, for |-> for, work |-> FALSE]
Unvalidated    == [valid |-> FALSE, for |-> "work", work |-> FALSE]
NoTicket       == [valid |-> FALSE, for |-> "none", work |-> FALSE]

\* has: the recipient has an account here, has not, or is left out; sub: the
\* request names a subscription.
Request == [has : {"yes", "no", "none"}, sub : BOOLEAN, id : TicketIds \cup {NoId}]

\* An answer about the ticket id, and the ticket stored under it, if any.
Answer(kind, id)     == [kind |-> kind, id |-> id, stored |-> NoTicket]
Storing(kind, id, t, fails) ==
  IF "store" \in fails THEN Answer("refused", id) ELSE [kind |-> kind, id |-> id, stored |-> t]

\* The calls to Redis.
RedisCalls == {"has", "fetch", "store"}

\* Known: the list may write without work.  A Has that fails counts as no.
handleSubscription(id, known, fails) ==
  IF known /\ "has" \notin fails
  THEN Storing("valid", id, Validated("subscription"), fails)
  ELSE Answer("refused", id)

\* Mutant of validate: the ticket of the request is as good as a stored one.
validateRequest(t, id, fails) ==
  IF t.valid THEN Answer("valid", id) ELSE Storing("valid", id, Validated("work"), fails)

\* The ticket as it was stored decides, not the one that carries the proof of
\* the request; one that is not found is a 412 with an error for a body.
validate(t, id, fails) ==
  IF t = NoTicket \/ "fetch" \in fails THEN Answer("notfound", id)
  ELSE IF t.valid THEN Answer("valid", id)
  ELSE IF t.work THEN Storing("valid", id, [valid |-> TRUE, for |-> t.for, work |-> TRUE], fails)
  ELSE Answer("work", id)

\* Mutant of NewValidated: a ticket is made without an ID.
NewValidatedNot(r, fresh) == r.id

\* The ID that a ticket has after getTicketFromRequest: NewValidated makes one
\* if the request has none.
NewValidated(r, fresh) == IF r.id = NoId THEN fresh ELSE r.id

\* The answer to request r; fresh is the ID that would be made, found what is
\* stored under the ID of the request.  No ticket without an ID is left when it
\* comes to storing an unvalidated one.  The empty address of a request for
\* proof makes Exists slice out of range; the connection is closed.
GetLocalTicket(r, fresh, found, known, fails) ==
  LET id == NewValidated(r, fresh) IN
  IF r.has = "none" THEN Answer("closed", id)
  ELSE IF r.has = "no" THEN Answer("refused", id)
  ELSE IF r.sub THEN handleSubscription(id, known, fails)
  ELSE IF id = NoId THEN Storing("work", fresh, Unvalidated, fails)
  ELSE validate(found, id, fails)
=============================================================================
