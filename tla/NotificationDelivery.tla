------------------------ MODULE NotificationDelivery ------------------------
(***************************************************************************)
(* What the product outbox promises of a notification, without relays,     *)
(* claims, leases or locks: delivery is at least once and unordered,       *)
(* "published" means that the broker has a copy, "failed" that the last    *)
(* permitted send was refused, and "unconfirmed" claims nothing at all.    *)
(***************************************************************************)
EXTENDS Naturals

CONSTANTS Events, AttemptLimit

VARIABLES
    status,   \* absent, open, published, failed or unconfirmed, per event
    copies    \* the attempts whose message is on the queue, per event

vars == <<status, copies>>

Attempts == 1..AttemptLimit

Init ==
    /\ status = [e \in Events |-> "absent"]
    /\ copies = [e \in Events |-> {}]

Announce(e) ==
    /\ status[e] = "absent"
    /\ status' = [status EXCEPT ![e] = "open"]
    /\ UNCHANGED copies

(* A copy may still arrive after the outbox has stopped trying.            *)
Deliver(e, a) ==
    /\ status[e] # "absent"
    /\ status[e] = "failed" => a # AttemptLimit
    /\ copies' = [copies EXCEPT ![e] = @ \cup {a}]
    /\ UNCHANGED status

Publish(e) ==
    /\ status[e] = "open"
    /\ copies[e] # {}
    /\ status' = [status EXCEPT ![e] = "published"]
    /\ UNCHANGED copies

Refuse(e) ==
    /\ status[e] = "open"
    /\ AttemptLimit \notin copies[e]
    /\ status' = [status EXCEPT ![e] = "failed"]
    /\ UNCHANGED copies

(* One claim of a relay may give up several events at once.                *)
Abandon ==
    \E S \in SUBSET {e \in Events : status[e] = "open"} :
        /\ status' = [e \in Events |-> IF e \in S THEN "unconfirmed" ELSE status[e]]
        /\ UNCHANGED copies

Next ==
    \/ \E e \in Events :
          \/ Announce(e) \/ Publish(e) \/ Refuse(e)
          \/ \E a \in Attempts : Deliver(e, a)
    \/ Abandon

Spec == Init /\ [][Next]_vars
=============================================================================
