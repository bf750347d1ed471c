-------------------------- MODULE MCProductOutbox --------------------------
(* Instances of ProductOutbox for TLC. *)
EXTENDS ProductOutbox, TLC
============================================================================
