----------------------------- MODULE MCProcessor -----------------------------
(***************************************************************************)
(* Small instances of the queue processor for TLC.                         *)
(***************************************************************************)
EXTENDS ProcessorProperties, TLC

CONSTANTS m1, w1, w2

\* Workers are interchangeable goroutines (used where no liveness is checked).
WorkerSymmetry == Permutations(Workers)
=============================================================================
