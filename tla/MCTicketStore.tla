----------------------------- MODULE MCTicketStore -----------------------------
(***************************************************************************)
(* Small instances of the tickets of a server for TLC.                     *)
(***************************************************************************)
EXTENDS TicketStoreProperties

CONSTANTS t1, t2, t3, t4
=============================================================================
