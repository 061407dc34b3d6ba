------------------------------- MODULE MCVault -------------------------------
(***************************************************************************)
(* Small instances of the vault for TLC.                                   *)
(***************************************************************************)
EXTENDS VaultProperties, TLC

CONSTANTS p1, p2, a1, a2

\* Processes are alike, and so are addresses.
VaultSymmetry == Permutations(Procs) \cup Permutations(Accounts)
=============================================================================
