--------------------------- MODULE VaultProperties ---------------------------
(***************************************************************************)
(* What the vault of the client should guarantee.                          *)
(***************************************************************************)
EXTENDS Vault

\* Every variable has its type.
TypeOK ==
  /\ vault \in File /\ tmp \in File
  /\ lockFile \in {NoInode} \cup Inodes
  /\ proc \in [Procs -> Proc]
  /\ commands \in 0 .. MaxCommands /\ faults \in 0 .. MaxFaults
  /\ saved \in Content
  /\ raced \in BOOLEAN /\ stale \in BOOLEAN

\* writeFileData: `Make sure we are the only one working on it'.  Two processes
\* are between lock and unlock at once only after one has unlinked the lock
\* file that the other had already opened.
OneInside == raced \/ \A p, q \in Procs : Inside(p) /\ Inside(q) => p = q

\* The vault, which holds the only copy of the private keys, can be read at
\* every moment, through kills, full disks and refused locks, unless a process
\* unlinked the lock file of another.
VaultReadable == raced \/ vault.state = "whole"

\* What the user was told is saved is in the vault, through whatever other
\* commands do, unless one of them wrote back a vault it had read before.
SavedIsKept ==
  raced \/ stale \/ (vault.state = "whole" /\ \A a \in Accounts : saved[a] \subseteq vault.content[a])
=============================================================================
