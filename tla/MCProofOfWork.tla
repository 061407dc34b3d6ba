---------------------------- MODULE MCProofOfWork ----------------------------
(***************************************************************************)
(* Small instances of the proof of work for TLC.                           *)
(***************************************************************************)
EXTENDS ProofOfWorkProperties
=============================================================================
