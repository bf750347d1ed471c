-------------------------- MODULE MCObjectiveClient ---------------------------
(* Instances of ObjectiveClient for TLC. *)
EXTENDS ObjectiveClient, TLC

CONSTANTS owner, contributor

(* The owner in two browsers, one of whose requests may be late, while the *)
(* note is corrected; and the owner with a contributor.                    *)
Alone == [people |-> {owner}, requests |-> 2, revisions |-> 2, interruptions |-> 2]
Together == [people |-> {owner, contributor}, requests |-> 1, revisions |-> 1,
             interruptions |-> 1]

TheCasts == {Alone, Together}

(* Texts are interchangeable, and so are the requests in progress. *)
Symmetry == Permutations(Texts) \cup Permutations(Calls)
=============================================================================
