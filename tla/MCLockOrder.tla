---------------------------- MODULE MCLockOrder -----------------------------
(* Instances of LockOrder for TLC. *)
EXTENDS LockOrder, TLC

(* Two sessions run any commands; three run the commands that lock most of *)
(* each other's rows; three run what locks in the global authority order.  *)
Pairs == {[t \in Txns |-> IF t = idle THEN {} ELSE Commands] : idle \in Txns}

Trios ==
    { {"relationship.end", "activity.create"},
      {"source.correct", "claim.create"},
      Relaying \cup Foundation }

MCCasts == Pairs \cup {[t \in Txns |-> kinds] : kinds \in Trios}

(* A command and a publish.                                                *)
MixedCasts ==
    {f \in [Txns -> {{"activity.create"}, {"publish"}}] :
        \E t, u \in Txns : f[t] # f[u]}

Symmetry == Permutations(Txns) \cup Permutations(Keys)
=============================================================================
