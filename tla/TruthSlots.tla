----------------------------- MODULE TruthSlots -----------------------------
(***************************************************************************)
(* What the truth ledger promises its readers, without commands, locks or  *)
(* authority: every coordinate (a subject and a predicate) has a set of    *)
(* open proposals and at most one current fact.  Each step is one whole    *)
(* command: a proposal is decided once, a fact is backed by proposals that *)
(* were open until that step, and the fact it replaces is the current one. *)
(***************************************************************************)
CONSTANTS
    Coordinates,   \* where facts live
    SingleOpen,    \* the coordinates with one open proposal at a time
    ClaimIds,
    FactIds

VARIABLES
    open,      \* the open proposals of a coordinate
    current,   \* the current fact of a coordinate, a set of at most one
    named      \* every claim and every fact ever recorded

vars == <<open, current, named>>

Init ==
    /\ open = [c \in Coordinates |-> {}]
    /\ current = [c \in Coordinates |-> {}]
    /\ named = [claims |-> {}, facts |-> {}]

Propose(c, x) ==
    /\ x \notin named.claims
    /\ c \in SingleOpen => open[c] = {}
    /\ open' = [open EXCEPT ![c] = @ \cup {x}]
    /\ named' = [named EXCEPT !.claims = @ \cup {x}]
    /\ UNCHANGED current

Discard(c, x) ==
    /\ c \in SingleOpen
    /\ x \in open[c]
    /\ open' = [open EXCEPT ![c] = @ \ {x}]
    /\ UNCHANGED <<current, named>>

Rework(c, x, y) ==
    /\ c \in SingleOpen
    /\ x \in open[c]
    /\ y \notin named.claims
    /\ open' = [open EXCEPT ![c] = {y}]
    /\ named' = [named EXCEPT !.claims = @ \cup {y}]
    /\ UNCHANGED current

(* The fact of support takes the place of what the coordinate holds. *)
Install(c, f, support) ==
    /\ f \notin named.facts
    /\ support # {} /\ support \subseteq open[c]
    /\ open' = [open EXCEPT ![c] = @ \ support]
    /\ current' = [current EXCEPT ![c] = {f}]
    /\ named' = [named EXCEPT !.facts = @ \cup {f}]

Accept(c, f, support) ==
    /\ current[c] = {}
    /\ Install(c, f, support)

Supersede(c, f, g, support) ==
    /\ current[c] = {f}
    /\ Install(c, g, support)

Revoke(c, f) ==
    /\ current[c] = {f}
    /\ c \in SingleOpen => open[c] = {}
    /\ current' = [current EXCEPT ![c] = {}]
    /\ UNCHANGED <<open, named>>

Next ==
    \E c \in Coordinates :
        \/ \E x \in ClaimIds :
              \/ Propose(c, x)
              \/ Discard(c, x)
              \/ \E y \in ClaimIds : Rework(c, x, y)
        \/ \E f \in FactIds :
              \/ Revoke(c, f)
              \/ \E support \in SUBSET ClaimIds :
                    \/ Accept(c, f, support)
                    \/ \E g \in FactIds : Supersede(c, f, g, support)

Spec == Init /\ [][Next]_vars
=============================================================================
