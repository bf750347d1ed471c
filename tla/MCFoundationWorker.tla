------------------------- MODULE MCFoundationWorker -------------------------
(* Instances of FoundationWorker for TLC. *)
EXTENDS FoundationWorker, TLC
=============================================================================
