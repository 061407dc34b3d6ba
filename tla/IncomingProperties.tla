-------------------------- MODULE IncomingProperties --------------------------
(***************************************************************************)
(* What the upload of a message should guarantee.                          *)
(***************************************************************************)
EXTENDS Incoming

\* Every variable has its type.
TypeOK ==
  /\ ticket \in [Msgs -> {"none", "valid"}]
  /\ incoming \in [Msgs -> Dir]
  /\ queued \in [Msgs -> Dir]
  /\ put \in [Msgs -> [Parts -> PutState]]
  /\ reply \in [Msgs -> [Parts -> {"none", "ok", "failed"}]]
  /\ client \in [Msgs -> ClientState]
  /\ final \in [Msgs -> FinalState]
  /\ loop \in SUBSET Msgs
  /\ deleted \in SUBSET Msgs
  /\ crashes \in 0 .. MaxCrashes

\* What reaches the processing section is a whole message, and it stays one:
\* although the handlers of its parts run concurrently, time out and fail, none
\* of them is still writing when the main loop moves the directory.
QueuedIsComplete == \A m \in Msgs : queued[m].there => Complete(queued[m])

\* A message that the server accepted is kept whole, in the section it was
\* uploaded to or in the next one: nothing deletes or changes it afterwards.
AcceptedIsKept ==
  \A m \in Msgs : client[m] = "accepted" => Complete(incoming[m]) \/ Complete(queued[m])

\* No upload brings back the directory of a message in the incoming section
\* once it was moved on: it would lie there without a ticket for ever.
MovedIsGone == \A m \in Msgs : queued[m].there => ~incoming[m].there

\* A message whose deletion was answered comes back in the incoming section only
\* by an upload that its client had given up on, with its handler still at work:
\* a client that waits for the answers leaves nothing behind.
OnlyLateUploadsReturn ==
  [][\A m \in deleted : ~incoming[m].there /\ incoming'[m].there =>
       \E p \in Parts : put[m][p].pc # put'[m][p].pc /\ reply[m][p] = "failed"]_vars
=============================================================================
