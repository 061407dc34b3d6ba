------------------------ MODULE ProofOfWorkProperties ------------------------
(***************************************************************************)
(* What the proof of work should guarantee.                                *)
(***************************************************************************)
EXTENDS ProofOfWork

\* Every variable has its type: no core goes on at the end of the counters.
TypeOK ==
  /\ level \in [Counters -> Bits] /\ required \in Bits
  /\ account \in Pow \cup {NoPow} /\ registered \in Pow \cup {NoPow}
  /\ pc \in {"idle", "work", "return"} /\ call \in 0 .. MaxCalls
  /\ work \in [Calls -> Pow \cup {NoPow}]
  /\ cancelled \subseteq Calls
  /\ core \in [Calls -> [Core -> Goroutine]]

\* The proof in the vault is valid, and the first one that its core could find:
\* the cores divide the counters among them and leave none out, whatever calls
\* before have left running.
LeastOfItsCore ==
  account # NoPow =>
    /\ IsValid(account)
    /\ \A c \in Counters : c < account.proof /\ (account.proof - c) % Cores = 0 => ~Hits(c, account.bits)

\* The server that has registered an account would do so again: update-pow, run
\* with whatever bits, never leaves a weaker proof in the vault.
StillAccepted == registered # NoPow => Sufficient(account, required)

\* Work returns if any counter that is tried has enough bits.
WorkReturns ==
  \A k \in Calls : (call = k /\ pc = "work" /\ \E c \in Counters : Hits(c, work[k].bits)) ~> pc = "return"

\* A call that has returned.
Returned(k) == k < call \/ (k = call /\ pc = "idle")

\* No goroutine starts on another hash once its call has returned: it only ends
\* what it is at.
NoWorkAfterReturn ==
  [][\A k \in Calls, i \in Core :
       Returned(k) /\ core[k][i].pc # "hash" => core'[k][i].pc # "hash"]_vars
=============================================================================
