----------------------------- MODULE MCFederation -----------------------------
(***************************************************************************)
(* Small instances of the mail between servers for TLC.                    *)
(***************************************************************************)
EXTENDS FederationProperties

CONSTANTS m1, w1, t1
=============================================================================
