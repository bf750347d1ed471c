--------------------------- MODULE MCTruthLedger ---------------------------
(* Instances of TruthLedger for TLC. *)
EXTENDS TruthLedger, TLC

(* Requests in flight are interchangeable, and so are idempotency keys. *)
Symmetry == Permutations(Procs) \cup Permutations(Keys)
=============================================================================
