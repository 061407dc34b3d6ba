----------------------------- MODULE TicketStore -----------------------------
(***************************************************************************)
(* The tickets that a bm-server keeps in Redis: other servers and lists    *)
(* ask for tickets, clients with an account are given theirs at once, and  *)
(* tickets expire or are removed with the upload they were for.  A request *)
(* may name any ID, with or without a subscription.                        *)
(***************************************************************************)
EXTENDS Tickets

CONSTANTS RedisFaults  \* calls to Redis that may fail

ASSUME TicketStoreAssumption == RedisFaults \subseteq RedisCalls

VARIABLES
  known,    \* the list that asks has a subscription of the recipient
  tickets,  \* tickets[i]: what Redis has under i
  granted   \* history: tickets answered as valid to a request without an account

storeVars == <<known, tickets, granted>>

StoreInit ==
  /\ known \in BOOLEAN
  /\ tickets = [i \in TicketIds |-> NoTicket]
  /\ granted = {}

\* The IDs that a random generator may make next.
FreshIds == {i \in TicketIds : tickets[i] = NoTicket /\ i \notin granted}

\* The ticket is stored, and the answer goes out.
Serve(a) ==
  /\ tickets' = IF a.stored = NoTicket THEN tickets ELSE [tickets EXCEPT ![a.id] = a.stored]
  /\ granted' = IF a.kind = "valid" THEN granted \cup {a.id} ELSE granted

\* A request without an account; it names an ID or has one made.
PeerRequest ==
  \E r \in Request, fails \in SUBSET RedisFaults :
    \E id \in IF r.id = NoId THEN FreshIds ELSE {r.id} :
      /\ Serve(GetLocalTicket(r, id, tickets[id], known, fails))
      /\ UNCHANGED known

\* A client with an account gets a ticket at once, unless Redis fails.
GetRemoteTicket ==
  \E fresh \in FreshIds :
    /\ tickets' = [tickets EXCEPT ![fresh] = Validated("client")]
    /\ UNCHANGED <<known, granted>>

\* The 30 minutes are over, or the upload was completed or given up.
Expire ==
  \E i \in TicketIds :
    /\ tickets[i] # NoTicket
    /\ tickets' = [tickets EXCEPT ![i] = NoTicket]
    /\ granted' = granted \ {i}
    /\ UNCHANGED known

StoreNext == PeerRequest \/ GetRemoteTicket \/ Expire

StoreSpec == StoreInit /\ [][StoreNext]_storeVars
=============================================================================
