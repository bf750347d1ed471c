------------------------- MODULE MCAccountCommands -------------------------
(* One process serves each kind of command while access changes, and two   *)
(* race for the relationship and for one key of a creation.                *)
EXTENDS AccountCommands, TLC

CONSTANTS p1, p2, k1, k2, none

MCProcs == {p1, p2}
MCKeys == {k1, k2}
MCSpaces == 1 .. 5
MCGrants == 1 .. 2

Tree ==
    [s \in MCSpaces |->
        [status |-> IF s <= 3 THEN "live" ELSE "none",
         parent |-> IF s \in {2, 3} THEN s - 1 ELSE none,
         mode |-> "inherit", class |-> 0]]

Unused2 == [status |-> "none", space |-> none, relation |-> none]
OnSpace(s, relation) == [status |-> "live", space |-> s, relation |-> relation]

(* A contributor of Home who inherits Other, or has a grant of it as well. *)
Inherits == <<OnSpace(2, "contributor"), Unused2>>
Direct == <<OnSpace(2, "contributor"), OnSpace(3, "contributor")>>

Request(kind, k) == [kind |-> kind, key |-> k]

Case(first, second, role, rows, budget) ==
    [requests |-> p1 :> first @@ p2 :> second, spaces |-> Tree,
     grants |-> rows, role |-> role, budget |-> budget]

Alone(kind, role, rows) == Case({Request(kind, k1)}, {}, role, rows, 1)

MCCasts ==
    {Alone(kind, "admin", Inherits) : kind \in {"organization", "initiative", "tombstone"}}
      \cup {Alone(kind, "member", Inherits) :
               kind \in {"activity", "relationship", "end", "content", "revise", "capture", "accept"}}
      \cup {Alone(kind, "member", Direct) : kind \in {"correct", "accept"}}
      \cup {Case({Request("end", k1)}, {}, "member", Direct, 2)}
      \cup {Case({Request("end", k1)}, {Request("end", k)}, "member", Inherits, 0) : k \in MCKeys}
      \cup {Case({Request("organization", k1)}, {Request("organization", k1)}, "admin", Inherits, 0),
            Case({Request("initiative", k1)}, {Request("activity", k2)}, "admin", Inherits, 0)}
=============================================================================
