------------------------------- MODULE Delivery -------------------------------
(***************************************************************************)
(* What bm-server promises about an uploaded message, without its queues:  *)
(* it owns the message until it has delivered it at least once or has      *)
(* given up on it, and never owns it again afterwards.  A message for a    *)
(* local account is delivered once; one for another server may arrive      *)
(* there several times, also after the server let go of it.                *)
(***************************************************************************)
EXTENDS Naturals

CONSTANTS Msgs, LocalMsgs, MaxCopies

VARIABLES owned,      \* messages the server still has to deliver
          delivered,  \* copies handed over, counted up to MaxCopies
          gaveUp      \* messages the server has declared expired

deliveryVars == <<owned, delivered, gaveUp>>

AddCopy(n) == IF n < MaxCopies THEN n + 1 ELSE n

DeliveryInit ==
  /\ owned = Msgs
  /\ delivered = [m \in Msgs |-> 0]
  /\ gaveUp = {}

\* A box of a local account takes the directory: delivery and release are one.
HandOver(m) ==
  /\ m \in owned \cap LocalMsgs
  /\ delivered[m] = 0
  /\ owned' = owned \ {m}
  /\ delivered' = [delivered EXCEPT ![m] = 1]
  /\ UNCHANGED gaveUp

Transmit(m) ==
  /\ m \in Msgs \ LocalMsgs
  /\ delivered' = [delivered EXCEPT ![m] = AddCopy(@)]
  /\ UNCHANGED <<owned, gaveUp>>

Settle(m) ==
  /\ m \in owned
  /\ delivered[m] > 0
  /\ owned' = owned \ {m}
  /\ UNCHANGED <<delivered, gaveUp>>

GiveUp(m) ==
  /\ m \in Msgs
  /\ owned' \in {owned, owned \ {m}}
  /\ gaveUp' = gaveUp \cup {m}
  /\ UNCHANGED delivered

DeliveryNext ==
  \E m \in Msgs : HandOver(m) \/ Transmit(m) \/ Settle(m) \/ GiveUp(m)

DeliverySpec == DeliveryInit /\ [][DeliveryNext]_deliveryVars
=============================================================================
