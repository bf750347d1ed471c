------------------------- MODULE MCFoundationChain --------------------------
(* Instances of FoundationChain for TLC. *)
EXTENDS FoundationChain, TLC

(* Relays are interchangeable, and so are tokens. *)
Symmetry == Permutations(Relays) \cup Permutations(Tokens)
=============================================================================
