------------------------------ MODULE MCIncoming ------------------------------
(***************************************************************************)
(* Small instances of the upload for TLC.                                  *)
(***************************************************************************)
EXTENDS IncomingProperties, TLC

CONSTANTS m1, m2, header, block, catalog

\* The parts of a message are handled alike, and so are the messages.
IncomingSymmetry == Permutations(Msgs) \cup Permutations(Parts)
=============================================================================
