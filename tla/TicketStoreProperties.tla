------------------------- MODULE TicketStoreProperties -------------------------
(***************************************************************************)
(* What the tickets of a server should guarantee.                          *)
(***************************************************************************)
EXTENDS TicketStore

\* Every variable has its type.
StoreTypeOK ==
  /\ known \in BOOLEAN
  /\ tickets \in [TicketIds -> Ticket]
  /\ granted \in SUBSET TicketIds

\* A ticket that was answered as valid is one that may be used for an upload,
\* and rests on the account of a client, on a subscription that the server has,
\* or on work that the ticket in Redis records: whatever IDs requests name,
\* whatever tickets they overwrite, expire before or lose to a failing Redis.
GrantedIsEarned ==
  \A i \in granted :
    /\ tickets[i].valid
    /\ \/ tickets[i].for = "client"
       \/ tickets[i].for = "subscription" /\ known
       \/ tickets[i].for = "work" /\ tickets[i].work
=============================================================================
