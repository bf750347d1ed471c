---------------------------- MODULE SpaceAccess -----------------------------
(***************************************************************************)
(* How a command finds out whether its human actor may touch a Space,      *)
(* while administrators change Spaces, grants, the membership and the      *)
(* policy version under it.  One actor of one workspace.  A decision is a  *)
(* sequence of statements of a READ COMMITTED transaction, each of which   *)
(* sees what is committed when it runs.  It comes in four modes:           *)
(*                                                                         *)
(*   unlocked nothing is locked (the first look of relationship.end)       *)
(*   plain    nothing but the policy version is locked                     *)
(*   locked   the rows the decision relies on are locked FOR SHARE as it   *)
(*            finds them (lockAuthority)                                   *)
(*   batch    all the rows are found first without locks, then locked and  *)
(*            compared, then found again (relationship.end)                *)
(*                                                                         *)
(* Reason codes, explanations and the tenant, user and person rows are     *)
(* left out; the rows a statement locks are locked at once, their order    *)
(* is the subject of module LockOrder.                                     *)
(***************************************************************************)
EXTENDS Naturals, Sequences, FiniteSets

CONSTANTS
    Procs,       \* requests served at the same time
    Spaces,      \* ids of Spaces; rows are ordered by id
    Root,        \* the Space of the whole workspace
    Grants,      \* ids of the actor's grants, which are ordered too
    Ceiling,     \* the highest access class the actor may see
    MaxChanges,  \* bound on what administrators change
    None

ASSUME AccessAssumption ==
    /\ Spaces \subseteq Nat /\ Root \in Spaces
    /\ Grants \subseteq Nat
    /\ Ceiling \in Nat /\ MaxChanges \in Nat
    /\ None \notin Spaces \cup Grants

VARIABLES
    spaces,   \* access.spaces
    grants,   \* access.access_relationships of the actor
    actor,    \* identity.memberships: role and status, and the policy version
    changes,  \* how often administrators have changed any of these
    locks,    \* row locks: <<process, row, mode>>
    txn       \* the transaction each process runs

access == <<spaces, grants, actor, changes>>

Relations == {"contributor", "viewer"}
Admin == actor.role = "admin"

Live(s) == spaces[s].status = "live"

(* The target and its ancestors as far as none is archived, nearest first. *)
Chain[s \in Spaces] ==
    IF ~Live(s) THEN <<>>
    ELSE IF spaces[s].parent = None THEN <<s>>
         ELSE <<s>> \o Chain[spaces[s].parent]

LowestOf(S) == IF S = {} THEN None ELSE CHOOSE g \in S : \A h \in S : g <= h

On(s) == {g \in Grants : grants[g].status = "live" /\ grants[g].space = s}

(* Ancestors whose grants reach s: no nearer Space is restricted.          *)
Reaching(s) ==
    {i \in 2 .. Len(Chain[s]) :
        \A j \in 1 .. i - 1 : spaces[Chain[s][j]].mode = "inherit"}

(* The grants the statement of canReadSpaceResource puts first.            *)
DirectGrant(s) == LowestOf(On(s))

InheritedGrant(s) ==
    LET near == {i \in Reaching(s) : On(Chain[s][i]) # {}} IN
    IF near = {} THEN None
    ELSE LowestOf(On(Chain[s][LowestOf(near)]))

(* loadInheritedAuthorityPath: the Spaces from s up to the one that was    *)
(* granted, if none before it is restricted.                               *)
PathTo(s, top) ==
    LET at == {i \in Reaching(s) : Chain[s][i] = top} IN
    IF at = {} THEN <<>> ELSE SubSeq(Chain[s], 1, LowestOf(at))

ContributorGrant(s) == LowestOf({g \in On(s) : grants[g].relation = "contributor"})

(* What it means that the actor may enter, read, contribute to, own        *)
(* something in, or manage a Space.                                        *)
Readable(s) ==
    \/ Admin \/ s = Root \/ On(s) # {}
    \/ \E i \in Reaching(s) : On(Chain[s][i]) # {}

May(need, s) ==
    /\ actor.active /\ actor.policy
    /\ Live(s) /\ Readable(s)
    /\ need # "enter" => spaces[s].class <= Ceiling
    /\ need = "contribute" => Admin \/ ContributorGrant(s) # None
    /\ need = "manage" => Admin

----------------------------------------------------------------------------
(* Row locks.                                                              *)

Policy == <<"policy", 0>>
Membership == <<"membership", 0>>
SpaceRows(S) == {<<"space", s>> : s \in S}
GrantRows(S) == {<<"grant", g>> : g \in S}

Lockable(p, row, mode) ==
    \A l \in locks : l[2] = row /\ l[1] # p => l[3] = "share" /\ mode = "share"

Lock(p, some, mode) ==
    /\ \A row \in some : Lockable(p, row, mode)
    /\ locks' = locks \cup {<<p, row, mode>> : row \in some}

----------------------------------------------------------------------------
(* Administrators, each in a transaction of one statement.                 *)

Change(row) ==
    /\ changes < MaxChanges
    /\ \A l \in locks : l[2] # row
    /\ changes' = changes + 1
    /\ UNCHANGED <<locks, txn>>

SetSpace(s, field, value) ==
    /\ Live(s)
    /\ Change(<<"space", s>>)
    /\ spaces' = [spaces EXCEPT ![s][field] = value]
    /\ UNCHANGED <<grants, actor>>

Archive(s) == SetSpace(s, "status", "archived")
Enclose(s) == SetSpace(s, "mode", "restricted")
Classify(s) == SetSpace(s, "class", Ceiling + 1)
Move(s, t) ==
    /\ Live(t) /\ t # spaces[s].parent
    /\ s \notin {Chain[t][i] : i \in DOMAIN Chain[t]}
    /\ SetSpace(s, "parent", t)

SetGrant(g, row) ==
    /\ Change(<<"grant", g>>)
    /\ grants' = [grants EXCEPT ![g] = row]
    /\ UNCHANGED <<spaces, actor>>

Revoke(g) ==
    grants[g].status = "live" /\ SetGrant(g, [grants[g] EXCEPT !.status = "revoked"])
Grant(g, s, relation) ==
    /\ grants[g].status = "none"
    /\ SetGrant(g, [status |-> "live", space |-> s, relation |-> relation])

SetActor(row, field, value) ==
    /\ actor[field] # value
    /\ Change(row)
    /\ actor' = [actor EXCEPT ![field] = value]
    /\ UNCHANGED <<spaces, grants>>

Suspend == SetActor(Membership, "active", FALSE)
Promote(role) == SetActor(Membership, "role", role)
RetirePolicy == SetActor(Policy, "policy", FALSE)

Administer ==
    \/ \E s \in Spaces \ {Root} :
          Archive(s) \/ Enclose(s) \/ Classify(s) \/ \E t \in Spaces : Move(s, t)
    \/ \E g \in Grants :
          Revoke(g) \/ \E s \in Spaces, r \in Relations : Grant(g, s, r)
    \/ Suspend \/ RetirePolicy \/ \E role \in {"member", "admin"} : Promote(role)

----------------------------------------------------------------------------
(* One decision after another: todo is the sequence of <<need, Space>> that *)
(* are still to be made, after is where the command goes on.               *)

Nothing == [spaces |-> {}, grants |-> {}, paths |-> {}]

Become(p, t) == txn' = [txn EXCEPT ![p] = t]
Step(p, pc) == Become(p, [txn[p] EXCEPT !.pc = pc])
Deny(p) == Step(p, "denied") /\ UNCHANGED locks

Need(p) == Head(txn[p].todo)[1]
Target(p) == Head(txn[p].todo)[2]
Mode(p) == txn[p].mode
Plain(p) == Mode(p) \in {"unlocked", "plain"}
At(p, pc) == txn[p].pc = pc

SpaceRow(s) == <<s, spaces[s]>>
GrantRow(g) == <<g, grants[g]>>

(* Rows that a batch has found; two versions of one row are inconsistent.  *)
Consistent(found) ==
    /\ \A r, t \in found.spaces : r[1] = t[1] => r = t
    /\ \A r, t \in found.grants : r[1] = t[1] => r = t
    /\ \A r, t \in found.paths : r[1] = t[1] /\ r[2] = t[2] => r = t

Found(p, S, G, P) ==
    [txn[p].found EXCEPT
        !.spaces = @ \cup {SpaceRow(s) : s \in S},
        !.grants = @ \cup {GrantRow(g) : g \in G},
        !.paths = @ \cup P]

(* Goes on to pc with what is found, or denies when it is inconsistent.    *)
Discover(p, S, G, P, pc) ==
    LET found == Found(p, S, G, P) IN
    /\ IF Consistent(found) THEN Become(p, [txn[p] EXCEPT !.pc = pc, !.found = found])
       ELSE Step(p, "denied")
    /\ UNCHANGED locks

(* What t becomes when the decisions of todo are to be made.               *)
Decide(t, todo, mode, after) ==
    [t EXCEPT !.todo = todo, !.mode = mode, !.after = after,
              !.pc = IF mode = "batch" THEN "scope" ELSE "actor"]

ActorRows ==
    [mode \in {"unlocked", "plain", "locked"} |->
        IF mode = "unlocked" THEN {}
        ELSE IF mode = "plain" THEN {Policy} ELSE {Policy, Membership}]

(* canInTransaction and preauthorizeRelationshipEnd.                       *)
CheckActor(p) ==
    /\ At(p, "actor")
    /\ IF actor.policy /\ actor.active
       THEN /\ Lock(p, ActorRows[Mode(p)], "share")
            /\ Become(p, [txn[p] EXCEPT !.pc = "scope", !.role = actor.role])
       ELSE Deny(p)

(* The access class, before the Space is locked; what somebody owns is     *)
(* loaded with its Space locked (loadTruthAuthorityTarget).                *)
LoadScope(p) ==
    /\ At(p, "scope")
    /\ IF Need(p) = "enter" \/ spaces[Target(p)].class <= Ceiling
       THEN /\ Lock(p, IF Need(p) = "own" THEN SpaceRows({Target(p)}) ELSE {}, "share")
            /\ Step(p, "target")
       ELSE Deny(p)

(* Mutant: a locked decision does not lock the Space itself.               *)
LoadTargetUnlocked(p) ==
    /\ At(p, "target")
    /\ Live(Target(p))
    /\ Mode(p) # "batch"
    /\ Step(p, "look")
    /\ UNCHANGED locks

LoadTarget(p) ==
    /\ At(p, "target")
    /\ IF ~Live(Target(p)) THEN Deny(p)
       ELSE CASE Plain(p) -> Step(p, "look") /\ UNCHANGED locks
              [] Mode(p) = "locked" ->
                    Lock(p, SpaceRows({Target(p)}), "share") /\ Step(p, "look")
              [] Mode(p) = "batch" -> Discover(p, {Target(p)}, {}, {}, "look")

(* The statement of canReadSpaceResource.  An administrator needs no grant, *)
(* and no statement either when the Space was locked or found just before. *)
Look(p) ==
    LET s == Target(p)
        free == txn[p].role = "admin" \/ s = Root
        seen == Live(s) \/ (txn[p].role = "admin" /\ ~Plain(p)) IN
    /\ At(p, "look")
    /\ \/ /\ seen /\ free
          /\ Become(p, [txn[p] EXCEPT !.pc = "need", !.grant = None])
       \/ /\ seen /\ ~free /\ DirectGrant(s) # None
          /\ Become(p, [txn[p] EXCEPT !.pc = "direct", !.grant = DirectGrant(s),
                                   !.other = InheritedGrant(s)])
       \/ /\ seen /\ ~free /\ DirectGrant(s) = None /\ InheritedGrant(s) # None
          /\ Become(p, [txn[p] EXCEPT !.pc = "path", !.grant = InheritedGrant(s)])
       \/ /\ ~seen \/ (~free /\ DirectGrant(s) = None /\ InheritedGrant(s) = None)
          /\ Step(p, "denied")
    /\ UNCHANGED locks

(* A grant that is relied upon is confirmed, locked or found.              *)
Confirm(p, g, pc) ==
    CASE Plain(p) -> Step(p, pc) /\ UNCHANGED locks
      [] Mode(p) = "locked" -> Lock(p, GrantRows({g}), "share") /\ Step(p, pc)
      [] Mode(p) = "batch" -> Discover(p, {}, {g}, {}, pc)

(* A direct grant that is gone leaves the inherited one.  A plain decision *)
(* does not look again.                                                    *)
ConfirmDirect(p) ==
    LET g == txn[p].grant IN
    /\ At(p, "direct")
    /\ \/ /\ Plain(p) \/ grants[g].status = "live"
          /\ Confirm(p, g, "need")
       \/ /\ ~Plain(p) /\ grants[g].status # "live"
          /\ IF txn[p].other = None THEN Step(p, "denied")
             ELSE Become(p, [txn[p] EXCEPT !.pc = "path", !.grant = txn[p].other])
          /\ UNCHANGED locks

(* The path of an inherited grant: in locked mode it is read, its Spaces   *)
(* are locked, and it is read again.                                       *)
FindPath(p) ==
    LET path == PathTo(Target(p), grants[txn[p].grant].space) IN
    /\ At(p, "path")
    /\ IF Plain(p) THEN Step(p, "need") /\ UNCHANGED locks
       ELSE IF path = <<>> THEN Deny(p)
       ELSE IF Mode(p) = "locked"
       THEN Become(p, [txn[p] EXCEPT !.pc = "lockPath", !.path = path]) /\ UNCHANGED locks
       ELSE Discover(p, {path[i] : i \in DOMAIN path}, {},
                     {<<Target(p), grants[txn[p].grant].space, path>>}, "inherited")

LockPath(p) ==
    LET path == txn[p].path IN
    /\ At(p, "lockPath")
    /\ IF PathTo(Target(p), path[Len(path)]) = path
       THEN /\ Lock(p, SpaceRows({path[i] : i \in DOMAIN path}), "share")
            /\ Step(p, "inherited")
       ELSE Deny(p)

ConfirmInherited(p) ==
    LET g == txn[p].grant IN
    /\ At(p, "inherited")
    /\ IF grants[g].status = "live" THEN Confirm(p, g, "need") ELSE Deny(p)

(* Owners and administrators manage; a contributor has a grant of the      *)
(* Space itself.  The reads of a resource need nothing more.               *)
Needed(p) ==
    LET need == Need(p)
        g == ContributorGrant(Target(p)) IN
    /\ At(p, "need")
    /\ IF \/ need = "manage" /\ txn[p].role # "admin"
          \/ need = "contribute" /\ txn[p].role # "admin" /\ g = None
       THEN Deny(p)
       ELSE IF need = "contribute" /\ txn[p].role # "admin"
       THEN Confirm(p, g, "decided")
       ELSE Step(p, "decided") /\ UNCHANGED locks

(* The decision is made; the next one, or the rest of the command.         *)
Decided(p) ==
    LET t == txn[p]
        rest == Tail(t.todo) IN
    /\ At(p, "decided")
    /\ IF rest = <<>> THEN Become(p, [t EXCEPT !.pc = t.after, !.todo = rest])
       ELSE Become(p, Decide(t, rest, t.mode, t.after))
    /\ UNCHANGED locks

----------------------------------------------------------------------------
(* lockAndReauthorizeRelationshipAuthority.  Snapshot is taken of the      *)
(* actor and of all that was found.                                        *)

StartBatch(p, t, requests) ==
    IF actor.policy /\ actor.active
    THEN Become(p, [Decide(t, requests, "batch", "lockActor") EXCEPT
                       !.role = actor.role, !.found = Nothing, !.requests = requests])
    ELSE Step(p, "denied")

LockActor(p) ==
    /\ At(p, "lockActor")
    /\ IF actor.policy /\ actor.active /\ actor.role = txn[p].role
       THEN Lock(p, {Policy, Membership}, "share") /\ Step(p, "lockSpaces")
       ELSE Deny(p)

(* Mutant: it waits until the rows are what was found.                     *)
LockSpacesWaiting(p) ==
    LET rows == txn[p].found.spaces IN
    /\ At(p, "lockSpaces")
    /\ \A r \in rows : SpaceRow(r[1]) = r
    /\ Lock(p, SpaceRows({r[1] : r \in rows}), "share") /\ Step(p, "lockGrants")

LockSpaces(p) ==
    LET rows == txn[p].found.spaces IN
    /\ At(p, "lockSpaces")
    /\ IF \A r \in rows : SpaceRow(r[1]) = r
       THEN Lock(p, SpaceRows({r[1] : r \in rows}), "share") /\ Step(p, "lockGrants")
       ELSE Deny(p)

LockGrants(p) ==
    LET rows == txn[p].found.grants IN
    /\ At(p, "lockGrants")
    /\ IF \A r \in rows : GrantRow(r[1]) = r
       THEN /\ Lock(p, GrantRows({r[1] : r \in rows}), "share")
            /\ Become(p, [Decide(txn[p], txn[p].requests, "batch", "compare") EXCEPT
                              !.expected = txn[p].found, !.found = Nothing])
       ELSE Deny(p)

Compare(p, pc) ==
    /\ At(p, "compare")
    /\ Step(p, IF txn[p].found = txn[p].expected THEN pc ELSE "denied")
    /\ UNCHANGED locks

Authorize(p) ==
    /\ \/ CheckActor(p) \/ LoadScope(p) \/ LoadTarget(p) \/ Look(p)
       \/ ConfirmDirect(p) \/ FindPath(p) \/ LockPath(p) \/ ConfirmInherited(p)
       \/ Needed(p) \/ Decided(p)
       \/ LockActor(p) \/ LockSpaces(p) \/ LockGrants(p) \/ Compare(p, "next")
    /\ UNCHANGED access
=============================================================================
