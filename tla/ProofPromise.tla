---------------------------- MODULE ProofPromise ----------------------------
(***************************************************************************)
(* What the foundation chain promises of one proof key: each proof takes   *)
(* effect at most once, and only while no newer proof has replaced it.     *)
(***************************************************************************)
CONSTANTS Jobs, None

VARIABLES
    created,  \* jobs whose proof was committed
    latest,   \* the job of the newest proof
    applied   \* jobs that took effect

vars == <<created, latest, applied>>

Init ==
    /\ created = {}
    /\ latest = None
    /\ applied = {}

Create(j) ==
    /\ j \notin created
    /\ created' = created \cup {j}
    /\ latest' = j
    /\ UNCHANGED applied

Apply ==
    /\ latest \in created \ applied
    /\ applied' = applied \cup {latest}
    /\ UNCHANGED <<created, latest>>

Next == (\E j \in Jobs : Create(j)) \/ Apply

Spec == Init /\ [][Next]_vars
=============================================================================
