------------------------ MODULE AccountCommandsProofs -------------------------
(***************************************************************************)
(* Theorems about the commands of the account command bus: the Space that  *)
(* governs a creation stays live, within the actor's class and under the   *)
(* active policy version until the creation commits; a child Space is only *)
(* ever seen complete, made by one command that has made no other; what    *)
(* relationship.end, source.correct, source.tombstone and fact.accept have *)
(* decided is still true when they commit; and no command is refused       *)
(* without need.                                                           *)
(*                                                                         *)
(* The first invariant (IInv) says of every step of a script that it is    *)
(* ahead or that what it achieves still holds: a row lock that was taken   *)
(* is held, and what was read under it is still true.  The second (AInv)   *)
(* says that every decision that is made so far follows from rows that its *)
(* transaction holds or, in a batch, has found and will compare.  The      *)
(* third (DInv) says of a transaction under which access has not changed   *)
(* that every statement finds what there is, and its session in the Space  *)
(* it looks in.  The last (TInv) is about types.                           *)
(***************************************************************************)
EXTENDS AccountCommands, SequenceTheorems, TLAPS, WellFoundedInduction

----------------------------------------------------------------------------
(* The records of the transactions.                                        *)

Fields == {"pc", "key", "kind", "script", "todo", "mode", "after", "role",
           "grant", "other", "path", "found", "expected", "requests", "since",
           "scope", "child", "version", "rows", "replay", "runs"}

(* Every process has a transaction record. *)
Shape ==
    /\ txn = [p \in Procs |-> txn[p]]
    /\ \A p \in Procs : DOMAIN txn[p] = Fields

(* The other processes keep theirs. *)
OthersKeep(p) == \A q \in Procs : q # p => txn'[q] = txn[q]

(* A step of p replaces the record of p by t and no other. *)
Replaced(p, t) == Shape' /\ OthersKeep(p) /\ txn'[p] = t

LEMMA BecomeReplaces ==
    ASSUME Shape, NEW p \in Procs, NEW STATE t, DOMAIN t = Fields, Become(p, t)
    PROVE  Replaced(p, t)
BY DEF Become, Replaced, Shape, OthersKeep

(* What the steps of a decision leave as it is. *)
Lasting == {"key", "kind", "script", "requests", "since", "scope", "child",
            "version", "rows", "replay", "runs"}
Steady(p) == \A x \in Lasting : txn'[p][x] = txn[p][x]
SameDecision(p) == \A x \in {"todo", "mode", "after"} : txn'[p][x] = txn[p][x]

LEMMA StepReplaces ==
    ASSUME Shape, NEW p \in Procs, NEW STATE pc, Step(p, pc)
    PROVE  /\ Shape' /\ OthersKeep(p) /\ txn'[p].pc = pc
           /\ \A x \in Fields \ {"pc"} : txn'[p][x] = txn[p][x]
           /\ Steady(p) /\ SameDecision(p)
BY BecomeReplaces DEF Shape, Fields, Step, Replaced, Steady, SameDecision, Lasting

----------------------------------------------------------------------------
(* Row locks.                                                              *)

(* A row that is locked for update is locked by one process. *)
LocksExclusive ==
    \A l, m \in locks : l[2] = m[2] /\ l[3] = "update" => l[1] = m[1]

(* A statement of p keeps all locks and takes none that it may not take. *)
LocksGrow(p, mode) ==
    /\ locks \subseteq locks'
    /\ \A l \in locks' \ locks :
          \E row : l = <<p, row, mode>> /\ Lockable(p, row, mode)

LEMMA LockGrows ==
    ASSUME NEW p, NEW STATE S, NEW mode, Lock(p, S, mode)
    PROVE  LocksGrow(p, mode) /\ \A row \in S : <<p, row, mode>> \in locks'
BY DEF Lock, LocksGrow

LEMMA NoLockGrows ==
    ASSUME NEW p, NEW mode, UNCHANGED locks
    PROVE  LocksGrow(p, mode)
BY DEF LocksGrow

LEMMA GrowingKeepsExclusive ==
    ASSUME LocksExclusive, NEW p, NEW mode \in {"share", "update"}, LocksGrow(p, mode)
    PROVE  LocksExclusive'
BY DEF LocksExclusive, LocksGrow, Lockable

LEMMA ReleaseKeepsExclusive ==
    ASSUME LocksExclusive, NEW p, Release(p)
    PROVE  /\ LocksExclusive'
           /\ \A l \in locks : l[1] # p => l \in locks'
BY DEF LocksExclusive, Release

----------------------------------------------------------------------------
(* Decisions.                                                              *)

Modes == {"unlocked", "plain", "locked", "batch"}
Inner == {"target", "look", "direct", "path", "lockPath", "inherited", "need", "decided"}
Deciding == {"actor", "scope"} \cup Inner
Batching == {"lockActor", "lockSpaces", "lockGrants", "compare"}

(* Where a decision of p goes on. *)
Begun(p) ==
    /\ At(p, "actor") /\ txn'[p].pc = "scope" /\ SameDecision(p)
    /\ actor.policy
    /\ Mode(p) = "plain" => <<p, Policy, "share">> \in locks'

Scoped(p) ==
    /\ At(p, "scope") /\ txn'[p].pc = "target" /\ SameDecision(p)
    /\ Need(p) = "enter" \/ spaces[Target(p)].class <= Ceiling

Looked(p) ==
    txn[p].pc \in Inner /\ txn'[p].pc \in Inner \cup {"denied"} /\ SameDecision(p)

Concluded(p) ==
    /\ At(p, "decided")
    /\ txn'[p].mode = Mode(p) /\ txn'[p].after = txn[p].after
    /\ txn'[p].todo = Tail(txn[p].todo)
    /\ txn'[p].pc = IF Tail(txn[p].todo) = <<>> THEN txn[p].after
                    ELSE IF Mode(p) = "batch" THEN "scope" ELSE "actor"

Compared(p) ==
    /\ txn[p].pc \in Batching
    /\ \/ txn'[p].pc \in {"lockSpaces", "lockGrants", "next"} /\ SameDecision(p)
       \/ txn'[p].pc = "scope" /\ txn'[p].mode = "batch" /\ txn'[p].after = "compare"

Denied(p) == txn'[p].pc = "denied" /\ SameDecision(p)

Moves(p) ==
    Begun(p) \/ Scoped(p) \/ Looked(p) \/ Concluded(p) \/ Compared(p) \/ Denied(p)

Effect(p) == Shape' /\ OthersKeep(p) /\ Steady(p) /\ LocksGrow(p, "share") /\ Moves(p)

LEMMA DenyEffect ==
    ASSUME Shape, NEW p \in Procs, Deny(p)
    PROVE  Effect(p)
BY NoLockGrows, StepReplaces DEF Deny, Effect, Moves, Denied

LEMMA BecomeKeepsDecision ==
    ASSUME Shape, NEW p \in Procs, NEW STATE t, Become(p, t), DOMAIN t = Fields,
           \A x \in Lasting \cup {"todo", "mode", "after"} : t[x] = txn[p][x]
    PROVE  Shape' /\ OthersKeep(p) /\ Steady(p) /\ SameDecision(p) /\ txn'[p].pc = t.pc
BY BecomeReplaces DEF Replaced, Steady, SameDecision

LEMMA CheckActorEffect ==
    ASSUME Shape, NEW p \in Procs, CheckActor(p)
    PROVE  Effect(p)
<1>1. CASE ~(actor.policy /\ actor.active)
  BY <1>1, DenyEffect DEF CheckActor
<1>2. CASE actor.policy /\ actor.active
  <2> DEFINE t == [txn[p] EXCEPT !.pc = "scope", !.role = actor.role]
  <2>1. Lock(p, ActorRows[Mode(p)], "share") /\ Become(p, t) /\ At(p, "actor")
    BY <1>2 DEF CheckActor
  <2>2. DOMAIN t = Fields /\ t.pc = "scope"
    BY DEF Shape, Fields
  <2>3. \A x \in Lasting \cup {"todo", "mode", "after"} : t[x] = txn[p][x]
    BY DEF Shape, Fields, Lasting
  <2> HIDE DEF t
  <2>4. Shape' /\ OthersKeep(p) /\ Steady(p) /\ SameDecision(p) /\ txn'[p].pc = "scope"
    BY <2>1, <2>2, <2>3, BecomeKeepsDecision
  <2>5. /\ LocksGrow(p, "share")
        /\ \A row \in ActorRows[Mode(p)] : <<p, row, "share">> \in locks'
    BY <2>1, LockGrows
  <2>6. Mode(p) = "plain" => Policy \in ActorRows[Mode(p)]
    BY DEF ActorRows
  <2>7. Begun(p)
    BY <1>2, <2>1, <2>4, <2>5, <2>6 DEF Begun
  <2>8. QED
    BY <2>4, <2>5, <2>7 DEF Effect, Moves
<1>3. QED
  BY <1>1, <1>2

LEMMA LoadScopeEffect ==
    ASSUME Shape, NEW p \in Procs, LoadScope(p)
    PROVE  Effect(p)
BY DenyEffect, LockGrows, StepReplaces DEF LoadScope, Scoped, Effect, Moves

(* A step to pc inside of a decision, with or without locks.               *)
InnerStep(p, pc) == txn[p].pc \in Inner /\ pc \in Inner \cup {"denied"}

LEMMA StepEffect ==
    ASSUME Shape, NEW p \in Procs, NEW STATE pc, InnerStep(p, pc),
           Step(p, pc), LocksGrow(p, "share")
    PROVE  Effect(p)
BY StepReplaces DEF Looked, InnerStep, Effect, Moves

LEMMA InnerBecomeEffect ==
    ASSUME Shape, NEW p \in Procs, NEW STATE t, Become(p, t), DOMAIN t = Fields,
           \A x \in Lasting \cup {"todo", "mode", "after"} : t[x] = txn[p][x],
           InnerStep(p, t.pc), LocksGrow(p, "share")
    PROVE  Effect(p)
BY BecomeKeepsDecision DEF Looked, InnerStep, Effect, Moves

LEMMA DiscoverEffect ==
    ASSUME Shape, NEW p \in Procs, NEW STATE S, NEW STATE G, NEW STATE P,
           NEW STATE pc, InnerStep(p, pc), Discover(p, S, G, P, pc)
    PROVE  Effect(p)
BY NoLockGrows, StepEffect, InnerBecomeEffect DEF Discover, InnerStep, Shape, Fields, Lasting

LEMMA ConfirmEffect ==
    ASSUME Shape, NEW p \in Procs, NEW STATE g, NEW STATE pc, InnerStep(p, pc),
           Mode(p) \in Modes, Confirm(p, g, pc)
    PROVE  Effect(p)
BY NoLockGrows, StepEffect, LockGrows, DiscoverEffect DEF Confirm, Plain, Modes

LEMMA LoadTargetEffect ==
    ASSUME Shape, NEW p \in Procs, Mode(p) \in Modes, LoadTarget(p)
    PROVE  Effect(p)
<1>1. InnerStep(p, "look") /\ InnerStep(p, "denied")
  BY DEF LoadTarget, At, InnerStep, Inner
<1>2. CASE ~Live(Target(p))
  BY <1>2, DenyEffect DEF LoadTarget
<1>3. CASE Live(Target(p)) /\ Plain(p)
  BY <1>1, <1>3, NoLockGrows, StepEffect DEF LoadTarget, Plain
<1>4. CASE Live(Target(p)) /\ Mode(p) = "locked"
  BY <1>1, <1>4, LockGrows, StepEffect DEF LoadTarget, Plain
<1>5. CASE Live(Target(p)) /\ Mode(p) = "batch"
  BY <1>1, <1>5, DiscoverEffect DEF LoadTarget, Plain
<1>6. QED
  BY <1>2, <1>3, <1>4, <1>5 DEF Modes, Plain

LEMMA LookEffect ==
    ASSUME Shape, NEW p \in Procs, Look(p)
    PROVE  Effect(p)
<1> DEFINE direct == DirectGrant(Target(p))
           inherited == InheritedGrant(Target(p))
           t1 == [txn[p] EXCEPT !.pc = "need", !.grant = None]
           t2 == [txn[p] EXCEPT !.pc = "direct", !.grant = direct, !.other = inherited]
           t3 == [txn[p] EXCEPT !.pc = "path", !.grant = inherited]
<1>1. /\ LocksGrow(p, "share")
      /\ \A pc \in Inner \cup {"denied"} : InnerStep(p, pc)
  BY NoLockGrows DEF Look, At, InnerStep, Inner
<1>2. Become(p, t1) \/ Become(p, t2) \/ Become(p, t3) \/ Step(p, "denied")
  BY DEF Look
<1> HIDE DEF direct, inherited
<1>3. /\ DOMAIN t1 = Fields /\ DOMAIN t2 = Fields /\ DOMAIN t3 = Fields
      /\ t1.pc = "need" /\ t2.pc = "direct" /\ t3.pc = "path"
  BY DEF Shape, Fields
<1>4. \A x \in Lasting \cup {"todo", "mode", "after"} :
         t1[x] = txn[p][x] /\ t2[x] = txn[p][x] /\ t3[x] = txn[p][x]
  BY DEF Shape, Fields, Lasting
<1>5. InnerStep(p, t1.pc) /\ InnerStep(p, t2.pc) /\ InnerStep(p, t3.pc)
  BY <1>1, <1>3 DEF Inner
<1> HIDE DEF t1, t2, t3
<1>6. CASE Become(p, t1)
  BY <1>1, <1>3, <1>4, <1>5, <1>6, InnerBecomeEffect
<1>7. CASE Become(p, t2)
  BY <1>1, <1>3, <1>4, <1>5, <1>7, InnerBecomeEffect
<1>8. CASE Become(p, t3)
  BY <1>1, <1>3, <1>4, <1>5, <1>8, InnerBecomeEffect
<1>9. CASE Step(p, "denied")
  BY <1>1, <1>9, StepEffect
<1>10. QED
  BY <1>2, <1>6, <1>7, <1>8, <1>9

LEMMA ConfirmDirectEffect ==
    ASSUME Shape, NEW p \in Procs, Mode(p) \in Modes, ConfirmDirect(p)
    PROVE  Effect(p)
<1> DEFINE t == [txn[p] EXCEPT !.pc = "path", !.grant = txn[p].other]
<1>1. \A pc \in Inner \cup {"denied"} : InnerStep(p, pc)
  BY DEF ConfirmDirect, At, InnerStep, Inner
<1>2. \/ Confirm(p, txn[p].grant, "need")
      \/ UNCHANGED locks /\ (Step(p, "denied") \/ Become(p, t))
  BY DEF ConfirmDirect
<1>3. CASE Confirm(p, txn[p].grant, "need")
  BY <1>1, <1>3, ConfirmEffect DEF Inner
<1>4. CASE UNCHANGED locks /\ Step(p, "denied")
  BY <1>1, <1>4, NoLockGrows, StepEffect
<1>5. CASE UNCHANGED locks /\ Become(p, t)
  BY <1>1, <1>5, NoLockGrows, InnerBecomeEffect DEF Shape, Fields, Inner, Lasting
<1>6. QED
  BY <1>2, <1>3, <1>4, <1>5

LEMMA FindPathEffect ==
    ASSUME Shape, NEW p \in Procs, Mode(p) \in Modes, FindPath(p)
    PROVE  Effect(p)
<1> DEFINE top == grants[txn[p].grant].space
           path == PathTo(Target(p), top)
           S == {path[i] : i \in DOMAIN path}
           P == {<<Target(p), top, path>>}
           t == [txn[p] EXCEPT !.pc = "lockPath", !.path = path]
<1>1. \A pc \in Inner \cup {"denied"} : InnerStep(p, pc)
  BY DEF FindPath, At, InnerStep, Inner
<1>2. \/ UNCHANGED locks /\ (Step(p, "need") \/ Step(p, "denied") \/ Become(p, t))
      \/ Discover(p, S, {}, P, "inherited")
  BY DEF FindPath, Deny
<1> HIDE DEF top, path
<1>3. CASE UNCHANGED locks /\ (Step(p, "need") \/ Step(p, "denied"))
  BY <1>1, <1>3, NoLockGrows, StepEffect DEF Inner
<1>4. CASE UNCHANGED locks /\ Become(p, t)
  BY <1>1, <1>4, NoLockGrows, InnerBecomeEffect DEF Shape, Fields, Inner, Lasting
<1>5. CASE Discover(p, S, {}, P, "inherited")
  BY <1>1, <1>5, DiscoverEffect DEF Inner
<1>6. QED
  BY <1>2, <1>3, <1>4, <1>5

LEMMA LockPathEffect ==
    ASSUME Shape, NEW p \in Procs, LockPath(p)
    PROVE  Effect(p)
BY LockGrows, StepEffect, DenyEffect DEF LockPath, At, InnerStep, Inner

LEMMA ConfirmInheritedEffect ==
    ASSUME Shape, NEW p \in Procs, Mode(p) \in Modes, ConfirmInherited(p)
    PROVE  Effect(p)
BY DenyEffect, ConfirmEffect DEF ConfirmInherited, At, InnerStep, Inner

LEMMA NeededEffect ==
    ASSUME Shape, NEW p \in Procs, Mode(p) \in Modes, Needed(p)
    PROVE  Effect(p)
BY DenyEffect, ConfirmEffect, StepEffect, NoLockGrows DEF Needed, At, InnerStep, Inner

LEMMA DecidedEffect ==
    ASSUME Shape, NEW p \in Procs, Decided(p)
    PROVE  Effect(p)
<1> DEFINE rest == Tail(txn[p].todo)
           t1 == [txn[p] EXCEPT !.pc = txn[p].after, !.todo = rest]
           t2 == Decide(txn[p], rest, txn[p].mode, txn[p].after)
<1>1. LocksGrow(p, "share") /\ At(p, "decided")
  BY NoLockGrows DEF Decided
<1>2. IF rest = <<>> THEN Become(p, t1) ELSE Become(p, t2)
  BY DEF Decided
<1> HIDE DEF rest
<1>3. DOMAIN t1 = Fields /\ DOMAIN t2 = Fields
  BY DEF Shape, Fields, Decide
<1>4. /\ t1.pc = txn[p].after /\ t1.todo = rest
      /\ t1.mode = txn[p].mode /\ t1.after = txn[p].after
      /\ \A x \in Lasting : t1[x] = txn[p][x]
  BY DEF Shape, Fields, Lasting
<1>5. /\ t2.pc = (IF txn[p].mode = "batch" THEN "scope" ELSE "actor") /\ t2.todo = rest
      /\ t2.mode = txn[p].mode /\ t2.after = txn[p].after
      /\ \A x \in Lasting : t2[x] = txn[p][x]
  BY DEF Shape, Fields, Lasting, Decide
<1> HIDE DEF t1, t2
<1>6. Replaced(p, t1) \/ Replaced(p, t2)
  BY <1>2, <1>3, BecomeReplaces
<1>7. Shape' /\ OthersKeep(p) /\ Steady(p)
  BY <1>4, <1>5, <1>6 DEF Replaced, Steady
<1>8. Concluded(p)
  <2>1. CASE rest = <<>>
    <3>1. Replaced(p, t1)
      BY <1>2, <1>3, <2>1, BecomeReplaces
    <3>2. QED
      BY <1>1, <1>4, <2>1, <3>1 DEF Replaced, Concluded, Mode, rest
  <2>2. CASE rest # <<>>
    <3>1. Replaced(p, t2)
      BY <1>2, <1>3, <2>2, BecomeReplaces
    <3>2. QED
      BY <1>1, <1>5, <2>2, <3>1 DEF Replaced, Concluded, Mode, rest
  <2>3. QED
    BY <2>1, <2>2
<1>9. QED
  BY <1>1, <1>7, <1>8 DEF Effect, Moves

(* A step to pc of a batch.                                                *)
LEMMA BatchStepEffect ==
    ASSUME Shape, NEW p \in Procs, txn[p].pc \in Batching,
           NEW pc \in {"lockSpaces", "lockGrants", "next", "denied"}, Step(p, pc),
           LocksGrow(p, "share")
    PROVE  Effect(p)
BY StepReplaces DEF Effect, Moves, Compared, Denied

LEMMA LockActorEffect ==
    ASSUME Shape, NEW p \in Procs, LockActor(p)
    PROVE  Effect(p)
BY LockGrows, BatchStepEffect, DenyEffect DEF LockActor, At, Batching

LEMMA LockSpacesEffect ==
    ASSUME Shape, NEW p \in Procs, LockSpaces(p)
    PROVE  Effect(p)
BY LockGrows, BatchStepEffect, DenyEffect DEF LockSpaces, At, Batching

LEMMA LockGrantsEffect ==
    ASSUME Shape, NEW p \in Procs, LockGrants(p)
    PROVE  Effect(p)
<1> DEFINE S == GrantRows({r[1] : r \in txn[p].found.grants})
           d == Decide(txn[p], txn[p].requests, "batch", "compare")
           t == [d EXCEPT !.expected = txn[p].found, !.found = Nothing]
<1>1. Deny(p) \/ (Lock(p, S, "share") /\ Become(p, t))
  BY DEF LockGrants
<1>2. DOMAIN d = Fields /\ d.pc = "scope" /\ d.mode = "batch" /\ d.after = "compare"
  BY DEF Shape, Fields, Decide
<1>3. \A x \in Lasting : d[x] = txn[p][x]
  BY DEF Shape, Fields, Lasting, Decide
<1> HIDE DEF S, d
<1>4. DOMAIN t = Fields /\ t.pc = "scope" /\ t.mode = "batch" /\ t.after = "compare"
  BY <1>2 DEF Fields
<1>5. \A x \in Lasting : t[x] = txn[p][x]
  BY <1>2, <1>3 DEF Fields, Lasting
<1> HIDE DEF t
<1>6. CASE Lock(p, S, "share") /\ Become(p, t)
  <2>1. LocksGrow(p, "share") /\ txn[p].pc \in Batching
    BY <1>6, LockGrows DEF LockGrants, At, Batching
  <2>2. Replaced(p, t)
    BY <1>4, <1>6, BecomeReplaces
  <2>3. Steady(p) /\ Compared(p)
    BY <1>4, <1>5, <2>1, <2>2 DEF Replaced, Steady, Compared
  <2>4. QED
    BY <2>1, <2>2, <2>3 DEF Replaced, Effect, Moves
<1>7. QED
  BY <1>1, <1>6, DenyEffect

LEMMA CompareEffect ==
    ASSUME Shape, NEW p \in Procs, Compare(p, "next")
    PROVE  Effect(p)
BY NoLockGrows, BatchStepEffect DEF Compare, At, Batching

(* What a step of a decision does, as far as the command is concerned.     *)
LEMMA AuthorizeEffect ==
    ASSUME Shape, NEW p \in Procs, Authorize(p),
           txn[p].pc \in Deciding => Mode(p) \in Modes
    PROVE  Effect(p) /\ UNCHANGED access /\ txn[p].pc \in Deciding \cup Batching
<1>1. UNCHANGED access /\ txn[p].pc \in Deciding \cup Batching
  BY DEF Authorize, CheckActor, LoadScope, LoadTarget, Look, ConfirmDirect, FindPath, LockPath,
         ConfirmInherited, Needed, Decided, LockActor, LockSpaces, LockGrants, Compare,
         At, Deciding, Inner, Batching
<1>2. CASE CheckActor(p) \/ LoadScope(p) \/ Look(p) \/ LockPath(p) \/ Decided(p)
  BY <1>1, <1>2, CheckActorEffect, LoadScopeEffect, LookEffect, LockPathEffect, DecidedEffect
<1>3. CASE LoadTarget(p) \/ ConfirmDirect(p) \/ FindPath(p) \/ ConfirmInherited(p) \/ Needed(p)
  <2>1. Mode(p) \in Modes
    BY <1>3 DEF LoadTarget, ConfirmDirect, FindPath, ConfirmInherited, Needed, At,
                Deciding, Inner
  <2>2. QED
    BY <1>1, <1>3, <2>1, LoadTargetEffect, ConfirmDirectEffect, FindPathEffect,
       ConfirmInheritedEffect, NeededEffect
<1>4. CASE LockActor(p) \/ LockSpaces(p) \/ LockGrants(p) \/ Compare(p, "next")
  BY <1>1, <1>4, LockActorEffect, LockSpacesEffect, LockGrantsEffect, CompareEffect
<1>5. QED
  BY <1>2, <1>3, <1>4 DEF Authorize

----------------------------------------------------------------------------
(* Scripts.                                                                *)

StepsIn(script) == {script[i] : i \in DOMAIN script}
StepsOf(kind) == StepsIn(Script[kind])

(* A step that does this is ahead. *)
Ahead(script, do) == \E i \in DOMAIN script : script[i].do = do

(* The decisions of todo are about Spaces, and one that is more than to    *)
(* enter is about s.                                                       *)
Powers == {"enter", "read", "contribute", "manage", "own"}
AboutSpaces(todo) == todo # <<>> /\ todo \in Seq(Powers \X Spaces)
Scopes(d, s) == d[1] # "enter" /\ d[2] = s
Governs(todo, s) == \E i \in DOMAIN todo : Scopes(todo[i], s)

StepOk(x) ==
    /\ x.do = "lock" => x.mode \in {"share", "update"}
    /\ x.do = "decide" => x.mode \in Modes \ {"batch"} /\ AboutSpaces(x.todo)

LEMMA StepDo ==
    /\ \A row, mode : LockStep(row, mode).do = "lock"
                      /\ LockStep(row, mode).row = row /\ LockStep(row, mode).mode = mode
    /\ \A mode, todo : DecideStep(mode, todo).do = "decide"
                       /\ DecideStep(mode, todo).mode = mode /\ DecideStep(mode, todo).todo = todo
    /\ \A todo : BatchStep(todo).do = "batch"
    /\ \A tables : WriteStep(tables).do = "write"
    /\ ReserveStep.do = "reserve" /\ ChildStep.do = "child"
    /\ VersionStep.do = "version" /\ EndStep.do = "end"
BY DEF LockStep, DecideStep, BatchStep, WriteStep, ReserveStep, ChildStep, VersionStep, EndStep

LEMMA StepsAreOk ==
    /\ \A row : StepOk(LockStep(row, "update")) /\ StepOk(LockStep(row, "share"))
    /\ \A mode \in Modes \ {"batch"} : \A todo :
          AboutSpaces(todo) => StepOk(DecideStep(mode, todo))
    /\ \A todo : StepOk(BatchStep(todo))
    /\ \A tables : StepOk(WriteStep(tables))
    /\ StepOk(ReserveStep) /\ StepOk(ChildStep) /\ StepOk(VersionStep) /\ StepOk(EndStep)
BY StepDo DEF StepOk

(* The decisions of the scripts are such ones.                             *)
TodoOk(todo, s) == AboutSpaces(todo) /\ Governs(todo, s)

LEMMA ShortTodos ==
    ASSUME NEW s, NEW x \in Powers \X Spaces, NEW y \in Powers \X Spaces,
           NEW z \in Powers \X Spaces, Scopes(x, s)
    PROVE  TodoOk(<<x>>, s) /\ TodoOk(<<x, y>>, s) /\ TodoOk(<<x, y, z>>, s)
BY DEF Governs, TodoOk, AboutSpaces

LEMMA NeedsScope ==
    ASSUME NEW s \in Spaces
    PROVE  \A a \in {"manage", "contribute", "read", "own"} :
              <<a, s>> \in Powers \X Spaces /\ Scopes(<<a, s>>, s)
<1> TAKE a \in {"manage", "contribute", "read", "own"}
<1>1. a \in Powers /\ a # "enter"
  BY DEF Powers
<1>2. <<a, s>> \in Powers \X Spaces
  BY <1>1
<1>3. Scopes(<<a, s>>, s)
  BY <1>1 DEF Scopes
<1>4. QED
  BY <1>2, <1>3

(* What is true of a script of this kind.                                  *)
ScriptOk(script) ==
    /\ script \in Seq(StepsIn(script))
    /\ \A x \in StepsIn(script) : StepOk(x)
    /\ Ahead(script, "reserve")

Childless(script) == \A x \in StepsIn(script) : x.do # "child"

Creates(script) ==
    /\ \A x \in StepsIn(script) : x.do \notin {"write", "end"}
    /\ Ahead(script, "child")

GovernedBy(script, s) ==
    /\ script # <<>> /\ Head(script) = SpaceLock(s)
    /\ Ahead(Tail(script), "decide")
    /\ \A x \in StepsIn(script) :
          x.do = "decide" => x.mode = "plain" /\ Governs(x.todo, s)

IsOf(script, a, b, c, d) ==
    /\ script \in Seq(StepsIn(script)) /\ StepsIn(script) = {a, b, c, d}
    /\ \A x \in StepsIn(script) : StepOk(x)
    /\ Ahead(script, b.do) /\ Ahead(script, c.do) /\ Ahead(script, d.do)
    /\ Head(script) = a /\ Tail(script) = <<b, c, d>>
    /\ Ahead(<<b, c, d>>, b.do)

LEMMA FourSteps ==
    ASSUME NEW a, NEW b, NEW c, NEW d, StepOk(a), StepOk(b), StepOk(c), StepOk(d),
           NEW script, script = <<a, b, c, d>>
    PROVE  IsOf(script, a, b, c, d)
BY DEF StepsIn, Ahead, IsOf

LEMMA FiveSteps ==
    ASSUME NEW a, NEW b, NEW c, NEW d, NEW e,
           NEW script, script = <<a, b, c, d, e>>
    PROVE  /\ script \in Seq(StepsIn(script))
           /\ StepsIn(script) = {a, b, c, d, e}
           /\ Ahead(script, b.do) /\ Ahead(script, d.do)
BY DEF StepsIn, Ahead

LEMMA SevenSteps ==
    ASSUME NEW a, NEW b, NEW c, NEW d, NEW e, NEW f, NEW g,
           NEW script, script = <<a, b, c, d, e, f, g>>
    PROVE  /\ script \in Seq(StepsIn(script))
           /\ StepsIn(script) = {a, b, c, d, e, f, g}
           /\ Ahead(script, d.do)
BY DEF StepsIn, Ahead

(* The scripts of creations: lock the Space, decide, reserve, and create.  *)
LEMMA CreationScript ==
    ASSUME NEW s \in Spaces, NEW todo, TodoOk(todo, s),
           NEW create, create.do \in {"child", "write"}, StepOk(create),
           NEW script, script = <<SpaceLock(s), DecideStep("plain", todo), ReserveStep, create>>
    PROVE  /\ ScriptOk(script) /\ GovernedBy(script, s)
           /\ create.do = "child" => Creates(script)
           /\ create.do = "write" => Childless(script)
<1> DEFINE lock == SpaceLock(s)
           decide == DecideStep("plain", todo)
<1>1. lock.do = "lock" /\ decide.do = "decide" /\ decide.mode = "plain" /\ decide.todo = todo
      /\ ReserveStep.do = "reserve"
  BY StepDo DEF SpaceLock
<1>2. StepOk(lock) /\ StepOk(decide) /\ StepOk(ReserveStep)
  BY StepsAreOk DEF SpaceLock, Modes, TodoOk
<1> script = <<lock, decide, ReserveStep, create>>
  OBVIOUS
<1> HIDE DEF decide, lock
<1>3. /\ script \in Seq(StepsIn(script))
      /\ StepsIn(script) = {lock, decide, ReserveStep, create}
      /\ \A x \in StepsIn(script) : StepOk(x)
      /\ Ahead(script, "reserve") /\ Ahead(script, create.do)
      /\ Head(script) = lock /\ Ahead(Tail(script), "decide") /\ script # <<>>
  BY <1>1, <1>2, FourSteps DEF IsOf
<1>4. ScriptOk(script)
  BY <1>3 DEF ScriptOk
<1>5. GovernedBy(script, s)
  BY <1>1, <1>3 DEF GovernedBy, lock, TodoOk
<1>6. create.do = "child" => Creates(script)
  BY <1>1, <1>3 DEF Creates
<1>7. create.do = "write" => Childless(script)
  BY <1>1, <1>3 DEF Childless
<1>8. QED
  BY <1>4, <1>5, <1>6, <1>7

LEMMA CreatingScripts ==
    /\ \A script \in {CreateOrganization, CreateInitiative, CreateActivity,
                      CreateRelationship, CreateContent} : ScriptOk(script)
    /\ GovernedBy(CreateOrganization, Root) /\ Creates(CreateOrganization)
    /\ \A script \in {CreateInitiative, CreateActivity, CreateRelationship, CreateContent} :
          GovernedBy(script, Home)
    /\ Creates(CreateInitiative)
    /\ \A script \in {CreateActivity, CreateRelationship, CreateContent} : Childless(script)
<1>1. Root \in Spaces /\ Home \in Spaces /\ Other \in Spaces
  BY AccessAssumption, WorkAssumption
<1>2. /\ \A a \in {"manage", "contribute", "read", "own"} : \A s \in {Root, Home, Other} :
            <<a, s>> \in Powers \X Spaces /\ Scopes(<<a, s>>, s)
  BY <1>1, NeedsScope
<1>3. /\ \A tables : WriteStep(tables).do = "write" /\ StepOk(WriteStep(tables))
      /\ ChildStep.do = "child" /\ StepOk(ChildStep)
  BY StepDo, StepsAreOk
<1>4. /\ ScriptOk(CreateOrganization) /\ GovernedBy(CreateOrganization, Root)
      /\ Creates(CreateOrganization)
  <2> DEFINE todo == <<<<"manage", Root>>, <<"manage", Root>>>>
  <2>1. TodoOk(todo, Root)
    BY <1>2, ShortTodos
  <2>2. CreateOrganization = <<SpaceLock(Root), DecideStep("plain", todo), ReserveStep, ChildStep>>
    BY DEF CreateOrganization
  <2> HIDE DEF todo
  <2>3. QED
    BY <1>1, <1>3, <2>1, <2>2, CreationScript
<1>5. ScriptOk(CreateInitiative) /\ GovernedBy(CreateInitiative, Home) /\ Creates(CreateInitiative)
  <2> DEFINE todo == <<<<"contribute", Home>>, <<"manage", Home>>, <<"read", Home>>>>
  <2>1. TodoOk(todo, Home)
    BY <1>2, ShortTodos
  <2>2. CreateInitiative = <<SpaceLock(Home), DecideStep("plain", todo), ReserveStep, ChildStep>>
    BY DEF CreateInitiative
  <2> HIDE DEF todo
  <2>3. QED
    BY <1>1, <1>3, <2>1, <2>2, CreationScript
<1>6. ScriptOk(CreateActivity) /\ GovernedBy(CreateActivity, Home) /\ Childless(CreateActivity)
  <2> DEFINE todo == <<<<"contribute", Home>>, <<"read", Home>>>>
             write == WriteStep({"activity"} \cup Messages)
  <2>1. TodoOk(todo, Home)
    BY <1>2, ShortTodos
  <2>2. CreateActivity = <<SpaceLock(Home), DecideStep("plain", todo), ReserveStep, write>>
    BY DEF CreateActivity
  <2>3. write.do = "write" /\ StepOk(write)
    BY <1>3
  <2> HIDE DEF todo, write
  <2>4. QED
    BY <1>1, <2>1, <2>2, <2>3, CreationScript
<1>7. /\ ScriptOk(CreateRelationship) /\ GovernedBy(CreateRelationship, Home)
      /\ Childless(CreateRelationship)
  <2> DEFINE todo == <<<<"contribute", Home>>, <<"read", Other>>, <<"read", Home>>>>
             write == WriteStep({"relationship"} \cup Messages)
  <2>1. TodoOk(todo, Home)
    BY <1>2, ShortTodos
  <2>2. \A x, y, z : <<x>> \o <<y, z>> = <<x, y, z>>
    <3> TAKE x, y, z
    <3> DEFINE S == {x, y, z}
               one == <<x>>
               two == <<y, z>>
    <3>1. one \in Seq(S) /\ two \in Seq(S)
      OBVIOUS
    <3>2. Len(one) = 1 /\ Len(two) = 2 /\ one[1] = x /\ two[1] = y /\ two[2] = z
      OBVIOUS
    <3> HIDE DEF S, one, two
    <3>3. /\ one \o two \in Seq(S) /\ Len(one \o two) = 1 + 2
          /\ \A i \in 1 .. 1 + 2 : (one \o two)[i] = IF i <= 1 THEN one[i] ELSE two[i - 1]
      BY <3>1, <3>2, ConcatProperties
    <3>4. (one \o two)[1] = x /\ (one \o two)[2] = y /\ (one \o two)[3] = z
      BY <3>2, <3>3
    <3>5. one \o two = <<x, y, z>>
      <4> DEFINE all == one \o two
      <4>1. all \in Seq(S) /\ Len(all) = 3 /\ all[1] = x /\ all[2] = y /\ all[3] = z
        BY <3>3, <3>4
      <4> HIDE DEF all
      <4>2. all = <<x, y, z>>
        BY <4>1
      <4>3. QED
        BY <4>2 DEF all
    <3>6. QED
      BY <3>5 DEF one, two
  <2>3. <<<<"contribute", Home>>>> \o EndpointReads = todo
    BY <2>2 DEF EndpointReads
  <2>4. CreateRelationship = <<SpaceLock(Home), DecideStep("plain", todo), ReserveStep, write>>
    BY <2>3 DEF CreateRelationship
  <2>5. write.do = "write" /\ StepOk(write)
    BY <1>3
  <2> HIDE DEF todo, write
  <2>6. QED
    BY <1>1, <2>1, <2>4, <2>5, CreationScript
<1>8. ScriptOk(CreateContent) /\ GovernedBy(CreateContent, Home) /\ Childless(CreateContent)
  <2> DEFINE todo == <<<<"contribute", Home>>>>
             write == WriteStep({"content", "revision"} \cup Messages)
  <2>1. TodoOk(todo, Home)
    BY <1>2, ShortTodos
  <2>2. CreateContent = <<SpaceLock(Home), DecideStep("plain", todo), ReserveStep, write>>
    BY DEF CreateContent
  <2>3. write.do = "write" /\ StepOk(write)
    BY <1>3
  <2> HIDE DEF todo, write
  <2>4. QED
    BY <1>1, <2>1, <2>2, <2>3, CreationScript
<1>9. QED
  BY <1>4, <1>5, <1>6, <1>7, <1>8

LEMMA ChangingScripts ==
    \A script \in {ReviseContent, CaptureSource, AcceptFact, CorrectSource, TombstoneSource,
                   EndRelationship} : ScriptOk(script) /\ Childless(script)
<1>1. \A a \in {"manage", "contribute", "read", "own"} : \A s \in {Root, Home, Other} :
          <<a, s>> \in Powers \X Spaces /\ Scopes(<<a, s>>, s)
  BY NeedsScope, AccessAssumption, WorkAssumption
<1> DEFINE c(s) == <<<<"contribute", s>>>>
           own == <<<<"own", Other>>>>
           rc == <<<<"read", Other>>, <<"contribute", Other>>>>
           rm == <<<<"read", Other>>, <<"manage", Other>>>>
           rr == <<<<"read", Other>>, <<"read", Other>>>>
<1>2. /\ TodoOk(c(Home), Home) /\ TodoOk(own, Other)
      /\ TodoOk(rc, Other) /\ TodoOk(rm, Other) /\ TodoOk(rr, Other)
  BY <1>1, ShortTodos
<1> HIDE DEF c, own, rc, rm, rr
<1>3. \A mode \in {"plain", "locked", "unlocked"} : \A todo \in {c(Home), own, rc, rm, rr} :
          StepOk(DecideStep(mode, todo))
  BY <1>2, StepsAreOk DEF Modes, TodoOk
<1>4. /\ \A row : StepOk(LockStep(row, "update")) /\ StepOk(LockStep(row, "share"))
      /\ \A tables : StepOk(WriteStep(tables))
      /\ \A todo : StepOk(BatchStep(todo))
      /\ StepOk(ReserveStep) /\ StepOk(VersionStep) /\ StepOk(EndStep)
  BY StepsAreOk
<1>5. /\ \A row, mode : LockStep(row, mode).do = "lock"
      /\ \A mode, todo : DecideStep(mode, todo).do = "decide"
      /\ \A todo : BatchStep(todo).do = "batch"
      /\ \A tables : WriteStep(tables).do = "write"
      /\ ReserveStep.do = "reserve" /\ VersionStep.do = "version" /\ EndStep.do = "end"
  BY StepDo
<1>6. ASSUME NEW lock, NEW decide, NEW write, StepOk(lock), StepOk(decide), StepOk(write),
             lock.do = "lock" \/ lock.do = "decide", decide.do = "decide", write.do = "write"
      PROVE  /\ ScriptOk(<<lock, decide, ReserveStep, write>>)
             /\ Childless(<<lock, decide, ReserveStep, write>>)
             /\ ScriptOk(<<lock, ReserveStep, decide, write>>)
             /\ Childless(<<lock, ReserveStep, decide, write>>)
  <2>1. ASSUME NEW b, NEW d, StepOk(b), StepOk(d), b.do = "reserve" \/ d.do = "reserve",
               b.do # "child", d.do # "child"
        PROVE  ScriptOk(<<lock, b, d, write>>) /\ Childless(<<lock, b, d, write>>)
    <3> DEFINE script == <<lock, b, d, write>>
    <3>0. script = <<lock, b, d, write>>
      OBVIOUS
    <3> HIDE DEF script
    <3>1. IsOf(script, lock, b, d, write)
      BY <1>6, <2>1, <3>0, FourSteps
    <3>2. Ahead(script, "reserve")
      BY <2>1, <3>1 DEF IsOf
    <3>3. ScriptOk(script) /\ Childless(script)
      BY <1>6, <2>1, <3>1, <3>2 DEF ScriptOk, Childless, IsOf
    <3>4. QED
      BY <3>3 DEF script
  <2>2. QED
    BY <1>4, <1>5, <1>6, <2>1
<1>7. ScriptOk(ReviseContent) /\ Childless(ReviseContent)
  BY <1>3, <1>4, <1>5, <1>6 DEF ReviseContent, c
<1>8. ScriptOk(CaptureSource) /\ Childless(CaptureSource)
  BY <1>3, <1>4, <1>5, <1>6 DEF CaptureSource, c
<1>9. ScriptOk(AcceptFact) /\ Childless(AcceptFact)
  BY <1>3, <1>4, <1>5, <1>6 DEF AcceptFact, own, rr
<1>10. ASSUME NEW a, NEW b, NEW d, NEW e, NEW w, StepOk(a), StepOk(b), StepOk(d), StepOk(e),
              StepOk(w), b.do = "reserve" \/ e.do = "reserve", a.do # "child",
              b.do # "child", d.do # "child", e.do # "child", w.do # "child"
       PROVE  ScriptOk(<<a, b, d, e, w>>) /\ Childless(<<a, b, d, e, w>>)
  BY <1>10, FiveSteps DEF ScriptOk, Childless
<1>11. ScriptOk(CorrectSource) /\ Childless(CorrectSource)
  BY <1>3, <1>4, <1>5, <1>10 DEF CorrectSource, rc
<1>12. ScriptOk(TombstoneSource) /\ Childless(TombstoneSource)
  BY <1>3, <1>4, <1>5, <1>10 DEF TombstoneSource, rm
<1>13. ScriptOk(EndRelationship) /\ Childless(EndRelationship)
  <2> DEFINE a == DecideStep("unlocked", c(Home))
             b == LockStep(RelationshipRow, "update")
             d == BatchStep(EndRequests)
             w == WriteStep(Messages)
             script == <<a, b, d, ReserveStep, VersionStep, EndStep, w>>
  <2>1. EndRelationship = script
    BY DEF EndRelationship, c
  <2>2. /\ StepOk(a) /\ StepOk(b) /\ StepOk(d) /\ StepOk(w)
        /\ StepOk(ReserveStep) /\ StepOk(VersionStep) /\ StepOk(EndStep)
    BY <1>3, <1>4
  <2>3. /\ a.do = "decide" /\ b.do = "lock" /\ d.do = "batch" /\ w.do = "write"
        /\ ReserveStep.do = "reserve" /\ VersionStep.do = "version" /\ EndStep.do = "end"
    BY <1>5
  <2> HIDE DEF a, b, d, w
  <2>0. script = <<a, b, d, ReserveStep, VersionStep, EndStep, w>>
    OBVIOUS
  <2> HIDE DEF script
  <2>4. /\ script \in Seq(StepsIn(script))
        /\ StepsIn(script) = {a, b, d, ReserveStep, VersionStep, EndStep, w}
        /\ Ahead(script, "reserve")
    BY <2>0, <2>3, SevenSteps
  <2>5. ScriptOk(script) /\ Childless(script)
    BY <2>2, <2>3, <2>4 DEF ScriptOk, Childless
  <2>6. QED
    BY <2>1, <2>5
<1>14. QED
  BY <1>7, <1>8, <1>9, <1>11, <1>12, <1>13

(* What the invariant needs to know of the scripts.                        *)
LEMMA ScriptsAreOk ==
    ASSUME NEW kind \in Kinds
    PROVE  /\ ScriptOk(Script[kind])
           /\ kind \in Creations => Creates(Script[kind])
           /\ kind \notin Creations => Childless(Script[kind])
           /\ kind \in Creating => GovernedBy(Script[kind], ReservationSpace(kind))
           /\ ReservationSpace(kind) \in {Root, Home, Other}
BY CreatingScripts, ChangingScripts DEF Kinds, Script, ReservationSpace, Creations, Creating

----------------------------------------------------------------------------
(* The invariant.                                                          *)

(* A transaction that may still change something. *)
Active(p) == txn[p].pc \notin {"idle", "denied", "invalid"} /\ ~txn[p].replay

(* The Space of the reservation, which governs a creation. *)
Place(p) == ReservationSpace(txn[p].kind)

(* Transactions have the kind, the key and what is left of the script of   *)
(* a request; only creations leave the Space of the reservation. *)
TxnOk(p) ==
    /\ At(p, "idle") => txn[p].child = None
    /\ ~At(p, "idle") =>
          /\ txn[p].kind \in Kinds /\ txn[p].key \in Keys /\ txn[p].replay \in BOOLEAN
          /\ txn[p].script \in Seq(StepsOf(txn[p].kind))
          /\ txn[p].kind \notin Creations => txn[p].child = None /\ txn[p].scope = Place(p)

DecisionOk(p) ==
    txn[p].pc \in Deciding =>
        /\ Mode(p) \in Modes
        /\ txn[p].after \in {"next", "lockActor", "compare"}
        /\ Mode(p) = "plain" => AboutSpaces(txn[p].todo)

(* A command is completed in the Space of its reservation, after all. *)
CommitOk(p) ==
    At(p, "commit") /\ ~txn[p].replay => txn[p].script = <<>> /\ txn[p].scope = Place(p)

(* The reservation is ahead, or no other can complete the command. *)
Reserved(p) ==
    <<p, KeyRow(txn[p].key), "update">> \in locks /\ commands[txn[p].key] = None

ReserveOk(p) == Active(p) => Ahead(txn[p].script, "reserve") \/ Reserved(p)

(* A child Space that is made is no row yet and nobody else makes it; it   *)
(* is ahead, empty or complete. *)
Complement(kind) == {"space", "grant"} \cup {kind} \cup Messages

ChildFresh(p) ==
    txn[p].child # None =>
        /\ txn[p].child \in Spaces /\ spaces[txn[p].child].status = "none"
        /\ \A q \in Procs : q # p => txn[q].child # txn[p].child

ChildMade(p) ==
    \/ txn[p].child = None /\ txn[p].kind \notin txn[p].rows /\ Ahead(txn[p].script, "child")
    \/ txn[p].child # None /\ txn[p].rows = {"space", "grant"} /\ Ahead(txn[p].script, "child")
    \/ txn[p].child # None /\ txn[p].rows = Complement(txn[p].kind)

ChildOk(p) == ChildFresh(p) /\ (Active(p) /\ txn[p].kind \in Creations => ChildMade(p))

(* The Space that governs a creation is locked and live, its class is      *)
(* checked under that lock, and so is the policy version that is locked    *)
(* with the decision. *)
Fresh(p) == At(p, "next") /\ txn[p].script = Script[txn[p].kind]

Holds(p) == <<p, <<"space", Place(p)>>, "update">> \in locks /\ Live(Place(p))

Scoping(p) ==
    \/ Ahead(txn[p].script, "decide")
    \/ /\ txn[p].pc \in Deciding /\ Mode(p) = "plain"
       /\ \E i \in DOMAIN txn[p].todo :
             Scopes(txn[p].todo[i], Place(p)) /\ (i > 1 \/ txn[p].pc \in {"actor", "scope"})

Permitting(p) ==
    \/ Ahead(txn[p].script, "decide")
    \/ At(p, "actor") /\ Mode(p) = "plain"

Fits(p) == spaces[Place(p)].class <= Ceiling
Permitted(p) == actor.policy /\ <<p, Policy, "share">> \in locks

Governed(p) ==
    Holds(p) /\ (Scoping(p) \/ Fits(p)) /\ (Permitting(p) \/ Permitted(p))

GovernOk(p) == Active(p) /\ txn[p].kind \in Creating => Fresh(p) \/ Governed(p)

SpaceRecords ==
    [status : {"none", "live", "archived"}, parent : Spaces \cup {None},
     mode : {"inherit", "restricted"}, class : 0 .. Ceiling + 1]

(* The tables: rows are not deleted, and effects are those of commands. *)
TablesOk ==
    /\ cast \in Casts
    /\ spaces \in [Spaces -> SpaceRecords]
    /\ actor \in [role : {"member", "admin"}, active : BOOLEAN, policy : BOOLEAN]
    /\ commands \in [Keys -> Kinds \cup {None}]
    /\ \A s \in Spaces : cast.spaces[s].status # "none" => spaces[s].status # "none"
    /\ \A e \in effects :
          /\ e = <<e[1], e[2], e[3]>> /\ e[1] \in Keys /\ e[3] \in Spaces
          /\ commands[e[1]] # None /\ spaces[e[3]].status # "none"

ProcOk(p) ==
    TxnOk(p) /\ DecisionOk(p) /\ CommitOk(p) /\ ReserveOk(p) /\ ChildOk(p) /\ GovernOk(p)

IInv ==
    /\ Shape /\ TablesOk /\ LocksExclusive
    /\ \A p \in Procs : ProcOk(p)
    /\ ChildSpacesAreComplete

LEMMA InitOk == Init => IInv
<1> SUFFICES ASSUME Init PROVE IInv
  OBVIOUS
<1>1. cast \in Casts /\ spaces = cast.spaces /\ locks = {} /\ effects = {}
      /\ commands = [k \in Keys |-> None] /\ txn = [p \in Procs |-> Idle]
      /\ actor = [role |-> cast.role, active |-> TRUE, policy |-> TRUE]
  BY DEF Init
<1>2. Idle.pc = "idle" /\ Idle.child = None /\ Idle.replay = FALSE /\ DOMAIN Idle = Fields
  BY DEF Idle, Fields
<1>3. /\ cast.spaces \in [Spaces -> SpaceRecords] /\ cast.role \in {"member", "admin"}
  BY <1>1, CastAssumption DEF SpaceRecords
<1>4. TablesOk
  BY <1>1, <1>3 DEF TablesOk
<1>5. Shape
  BY <1>1, <1>2 DEF Shape
<1>6. LocksExclusive
  BY <1>1 DEF LocksExclusive
<1>7. ASSUME NEW p \in Procs PROVE ProcOk(p)
  <2>1. txn[p].pc = "idle" /\ txn[p].child = None
    BY <1>1, <1>2
  <2>2. TxnOk(p) /\ CommitOk(p) /\ ~Active(p)
    BY <2>1 DEF TxnOk, CommitOk, Active, At
  <2>3. DecisionOk(p)
    BY <2>1 DEF DecisionOk, Deciding, Inner
  <2>4. ReserveOk(p) /\ ChildOk(p) /\ GovernOk(p)
    BY <2>1, <2>2 DEF ReserveOk, ChildOk, ChildFresh, GovernOk
  <2>5. QED
    BY <2>2, <2>3, <2>4 DEF ProcOk
<1>8. ChildSpacesAreComplete
  BY <1>1 DEF ChildSpacesAreComplete
<1>9. QED
  BY <1>4, <1>5, <1>6, <1>7, <1>8 DEF IInv

(* What somebody else may not do to a transaction that q has open.         *)
Undisturbed(q) ==
    /\ txn'[q] = txn[q]
    /\ \A l \in locks : l[1] = q => l \in locks'
    /\ Reserved(q) => commands'[txn[q].key] = None
    /\ ChildFresh(q) => ChildFresh(q)'
    /\ Holds(q) =>
          /\ spaces'[Place(q)].status = "live"
          /\ spaces'[Place(q)].class = spaces[Place(q)].class
    /\ Permitted(q) => actor'.policy

LEMMA UndisturbedKeeps ==
    ASSUME NEW q \in Procs, ProcOk(q), Undisturbed(q)
    PROVE  ProcOk(q)'
<1>1. txn'[q] = txn[q] /\ Place(q)' = Place(q)
  BY DEF Undisturbed, Place
<1>2. TxnOk(q)' /\ DecisionOk(q)' /\ CommitOk(q)'
  BY <1>1 DEF ProcOk, TxnOk, DecisionOk, CommitOk, At, Mode
<1>3. (Active(q)' <=> Active(q)) /\ (Fresh(q)' <=> Fresh(q)) /\ (ChildMade(q)' <=> ChildMade(q))
  BY <1>1 DEF Active, Fresh, At, ChildMade
<1>4. (Scoping(q)' <=> Scoping(q)) /\ (Permitting(q)' <=> Permitting(q))
  BY <1>1 DEF Scoping, Permitting, At, Mode
<1>5. \A row, mode : <<q, row, mode>> \in locks => <<q, row, mode>> \in locks'
  BY DEF Undisturbed
<1>6. Reserved(q) => Reserved(q)'
  BY <1>1, <1>5 DEF Reserved, Undisturbed
<1>7. Holds(q) => Holds(q)' /\ (Fits(q) => Fits(q)')
  BY <1>1, <1>5 DEF Holds, Fits, Live, Undisturbed
<1>8. Permitted(q) => Permitted(q)'
  BY <1>5 DEF Permitted, Undisturbed
<1>9. ReserveOk(q)'
  BY <1>1, <1>3, <1>6 DEF ProcOk, ReserveOk
<1>10. ChildOk(q)'
  BY <1>1, <1>3 DEF ProcOk, ChildOk, Undisturbed
<1>11. Governed(q) => Governed(q)'
  BY <1>4, <1>7, <1>8 DEF Governed
<1>12. GovernOk(q)'
  BY <1>1, <1>3, <1>11 DEF ProcOk, GovernOk
<1>13. QED
  BY <1>2, <1>9, <1>10, <1>12 DEF ProcOk

(* A statement of p that changes no row disturbs nobody, as long as a      *)
(* child Space it makes is one that nobody makes.                          *)
LEMMA OthersUndisturbed ==
    ASSUME NEW p \in Procs, NEW q \in Procs, q # p, OthersKeep(p), Shape,
           \A l \in locks : l[1] = q => l \in locks',
           UNCHANGED <<spaces, actor, commands>>,
           txn'[p].child # txn[p].child =>
               txn'[p].child = None \/ \A r \in Procs : txn[r].child # txn'[p].child
    PROVE  Undisturbed(q)
BY DEF OthersKeep, ChildFresh, Undisturbed, Reserved, Holds, Live, Permitted

LEMMA LaterItem ==
    ASSUME NEW S, NEW q \in Seq(S), NEW i \in 1 .. Len(q), i > 1
    PROVE  Tail(q) # <<>> /\ i - 1 \in DOMAIN Tail(q) /\ Tail(q)[i - 1] = q[i]
<1>1. q # <<>> /\ Len(q) \in Nat /\ Len(q) > 1
  OBVIOUS
<1>2. Len(Tail(q)) = Len(q) - 1 /\ \A j \in 1 .. Len(q) - 1 : Tail(q)[j] = q[j + 1]
  BY <1>1, HeadTailProperties
<1>3. Tail(q) \in Seq(S) /\ DOMAIN Tail(q) = 1 .. Len(Tail(q))
  BY <1>1, HeadTailProperties
<1>4. i - 1 \in 1 .. Len(q) - 1 /\ (i - 1) + 1 = i
  BY <1>1
<1>5. i - 1 \in DOMAIN Tail(q) /\ Tail(q)[i - 1] = q[i]
  BY <1>2, <1>3, <1>4
<1>6. Tail(q) # <<>>
  BY <1>5
<1>7. QED
  BY <1>5, <1>6

LEMMA TailOfTodo ==
    ASSUME NEW todo, AboutSpaces(todo), Tail(todo) # <<>>
    PROVE  AboutSpaces(Tail(todo))
BY DEF AboutSpaces

LEMMA DecisionKeepsProc ==
    ASSUME Shape, NEW p \in Procs, ProcOk(p), Effect(p), UNCHANGED <<access, work>>,
           txn[p].pc \in Deciding \cup Batching,
           txn'[p].child # None => \A q \in Procs : q # p => txn'[q].child # txn'[p].child
    PROVE  ProcOk(p)'
<1>1. /\ txn'[p].kind = txn[p].kind /\ txn'[p].key = txn[p].key
      /\ txn'[p].script = txn[p].script /\ txn'[p].scope = txn[p].scope
      /\ txn'[p].child = txn[p].child /\ txn'[p].rows = txn[p].rows
      /\ txn'[p].replay = txn[p].replay
  BY DEF Effect, Steady, Lasting
<1>2. UNCHANGED <<spaces, actor, commands>>
  BY DEF access, work
<1>3. \A row, mode : <<p, row, mode>> \in locks => <<p, row, mode>> \in locks'
  BY DEF Effect, LocksGrow
<1>4. SameDecision(p) => /\ txn'[p].todo = txn[p].todo /\ txn'[p].mode = txn[p].mode
                         /\ txn'[p].after = txn[p].after
  BY DEF SameDecision
<1>5. txn[p].pc \notin {"idle", "denied", "invalid", "commit", "next"}
  BY DEF Deciding, Inner, Batching
<1>6. txn'[p].pc \notin {"idle", "invalid", "commit"}
  BY DEF Effect, Moves, Begun, Scoped, Looked, Concluded, Compared, Denied, At, Inner,
         Deciding, ProcOk, DecisionOk
<1>7. Place(p)' = Place(p)
  BY <1>1 DEF Place
<1>8. TxnOk(p)'
  BY <1>1, <1>5, <1>6, <1>7 DEF ProcOk, TxnOk, At
<1>9. DecisionOk(p)'
  <2>1. CASE Begun(p) \/ Scoped(p) \/ Looked(p) \/ Denied(p)
    BY <1>4, <2>1 DEF ProcOk, DecisionOk, Begun, Scoped, Looked, Denied, At, Deciding, Inner, Mode
  <2>2. CASE Concluded(p)
    <3>1. txn[p].pc \in Deciding /\ DecisionOk(p)
      BY <2>2 DEF Concluded, At, Deciding, Inner, ProcOk
    <3>2. CASE Tail(txn[p].todo) = <<>>
      BY <2>2, <3>1, <3>2 DEF Concluded, DecisionOk, Deciding, Inner
    <3>3. CASE Tail(txn[p].todo) # <<>>
      BY <2>2, <3>1, <3>3, TailOfTodo DEF DecisionOk, Concluded, Mode
    <3>4. QED
      BY <3>2, <3>3
  <2>3. CASE Compared(p)
    BY <1>4, <2>3 DEF Compared, DecisionOk, Deciding, Inner, Batching, Mode, Modes
  <2>4. QED
    BY <2>1, <2>2, <2>3 DEF Effect, Moves
<1>10. CommitOk(p)'
  BY <1>6 DEF CommitOk, At
<1>11. Active(p)' => Active(p)
  BY <1>1, <1>5 DEF Active
<1>12. Reserved(p) => Reserved(p)'
  BY <1>1, <1>2, <1>3 DEF Reserved
<1>13. ReserveOk(p)'
  BY <1>1, <1>11, <1>12 DEF ProcOk, ReserveOk
<1>14. ChildOk(p)'
  BY <1>1, <1>2, <1>11 DEF ProcOk, ChildOk, ChildFresh, ChildMade
<1>15. ASSUME Active(p)', txn[p].kind \in Creating PROVE Governed(p)'
  <2>1. Governed(p)
    BY <1>5, <1>11, <1>15 DEF ProcOk, GovernOk, Fresh, At
  <2>2. Holds(p)'
    BY <1>2, <1>3, <1>7, <2>1 DEF Governed, Holds, Live
  <2>3. Permitted(p) => Permitted(p)'
    BY <1>2, <1>3 DEF Permitted
  <2>4. Permitting(p)' \/ Permitted(p)'
    <3>1. CASE Permitted(p) \/ Ahead(txn[p].script, "decide")
      BY <1>1, <2>3, <3>1 DEF Permitting
    <3>2. CASE At(p, "actor") /\ Mode(p) = "plain"
      <4>1. Begun(p)
        BY <1>15, <3>2 DEF Effect, Moves, Begun, Scoped, Looked, Concluded, Compared, Denied,
                           At, Inner, Batching, Active
      <4>2. QED
        BY <1>2, <3>2, <4>1 DEF Begun, Permitted
    <3>3. QED
      BY <2>1, <3>1, <3>2 DEF Governed, Permitting
  <2>5. Fits(p)' <=> Fits(p)
    BY <1>2, <1>7 DEF Fits
  <2>6. Scoping(p)' \/ Fits(p)'
    <3>1. CASE Fits(p) \/ Ahead(txn[p].script, "decide")
      BY <1>1, <2>5, <3>1 DEF Scoping
    <3>2. CASE ~Fits(p) /\ ~Ahead(txn[p].script, "decide")
      <4> DEFINE todo == txn[p].todo
                 Here(i, pc) == Scopes(todo[i], Place(p)) /\ (i > 1 \/ pc \in {"actor", "scope"})
      <4>1. /\ txn[p].pc \in Deciding /\ Mode(p) = "plain"
            /\ \E i \in DOMAIN todo : Here(i, txn[p].pc)
        BY <2>1, <3>2 DEF Governed, Scoping
      <4>2. PICK i \in DOMAIN todo : Here(i, txn[p].pc)
        BY <4>1
      <4>3. CASE Concluded(p)
        <5>1. todo \in Seq(Powers \X Spaces) /\ todo # <<>>
          BY <4>1 DEF ProcOk, DecisionOk, AboutSpaces
        <5>2. i > 1 /\ i \in 1 .. Len(todo)
          BY <4>2, <4>3, <5>1 DEF Concluded, At
        <5>3. /\ Tail(todo) # <<>> /\ i - 1 \in DOMAIN Tail(todo)
              /\ Tail(todo)[i - 1] = todo[i]
          BY <5>1, <5>2, LaterItem
        <5>4. txn'[p].todo = Tail(todo) /\ txn'[p].pc = "actor" /\ txn'[p].mode = "plain"
          BY <4>1, <4>3, <5>3 DEF Concluded
        <5>5. Scopes(txn'[p].todo[i - 1], Place(p)') /\ i - 1 \in DOMAIN txn'[p].todo
          BY <1>7, <4>2, <5>3, <5>4
        <5>6. QED
          BY <5>4, <5>5 DEF Scoping, Deciding, Mode
      <4>4. CASE ~Concluded(p)
        <5>1. Begun(p) \/ Scoped(p) \/ Looked(p)
          BY <1>15, <4>1, <4>4 DEF Effect, Moves, Compared, Denied, Deciding, Inner, Batching,
                                   Active
        <5>2. txn'[p].todo = todo /\ txn'[p].mode = "plain"
          BY <1>4, <4>1, <5>1 DEF Begun, Scoped, Looked, Mode
        <5>3. txn'[p].pc \in Deciding
          BY <1>15, <5>1 DEF Begun, Scoped, Looked, Deciding, Inner, Active
        <5>4. CASE i > 1 \/ txn'[p].pc \in {"actor", "scope"}
          BY <1>7, <4>2, <5>2, <5>3, <5>4 DEF Scoping, Mode
        <5>5. CASE ~(i > 1) /\ txn'[p].pc \notin {"actor", "scope"}
          <6>1. Scoped(p)
            BY <4>2, <5>1, <5>5 DEF Begun, Looked, Inner
          <6>2. todo \in Seq(Powers \X Spaces) /\ todo # <<>>
            BY <4>1 DEF ProcOk, DecisionOk, AboutSpaces
          <6>3. i = 1 /\ Head(todo) = todo[1]
            BY <4>2, <5>5, <6>2
          <6>4. Need(p) # "enter" /\ Target(p) = Place(p)
            BY <4>2, <6>3 DEF Need, Target, Scopes
          <6>5. Fits(p)
            BY <6>1, <6>4 DEF Scoped, Fits
          <6>6. QED
            BY <3>2, <6>5
        <5>6. QED
          BY <5>4, <5>5
      <4>5. QED
        BY <4>3, <4>4
    <3>3. QED
      BY <3>1, <3>2
  <2>7. QED
    BY <2>2, <2>4, <2>6 DEF Governed
<1>16. GovernOk(p)'
  BY <1>1, <1>15 DEF GovernOk
<1>17. QED
  BY <1>8, <1>9, <1>10, <1>13, <1>14, <1>16 DEF ProcOk

LEMMA ChildStaysFresh ==
    ASSUME NEW p \in Procs, ChildFresh(p), OthersKeep(p), UNCHANGED spaces,
           txn'[p].child = txn[p].child
    PROVE  ChildFresh(p)'
BY DEF ChildFresh, OthersKeep

(* A statement that changes no row keeps the invariant if it keeps it for  *)
(* the process that makes it.                                              *)
LEMMA QuietStep ==
    ASSUME IInv, NEW p \in Procs, Shape', OthersKeep(p), UNCHANGED <<access, work>>,
           NEW mode \in {"share", "update"}, LocksGrow(p, mode),
           txn'[p].child # txn[p].child =>
               txn'[p].child = None \/ \A r \in Procs : txn[r].child # txn'[p].child,
           ProcOk(p)'
    PROVE  IInv'
<1>1. UNCHANGED <<spaces, actor, commands, cast, effects>>
  BY DEF access, work
<1>2. LocksExclusive'
  BY GrowingKeepsExclusive DEF IInv
<1>3. TablesOk' /\ ChildSpacesAreComplete'
  BY <1>1 DEF IInv, TablesOk, ChildSpacesAreComplete
<1>4. ASSUME NEW q \in Procs PROVE ProcOk(q)'
  BY <1>1, OthersUndisturbed, UndisturbedKeeps DEF IInv, LocksGrow
<1>5. QED
  BY <1>2, <1>3, <1>4 DEF IInv

LEMMA DecisionOkStep ==
    ASSUME IInv, NEW p \in Procs, Authorize(p), UNCHANGED work
    PROVE  IInv'
<1>1. Shape /\ ProcOk(p) /\ (txn[p].pc \in Deciding => Mode(p) \in Modes)
  BY DEF IInv, ProcOk, DecisionOk
<1>2. Effect(p) /\ UNCHANGED access /\ txn[p].pc \in Deciding \cup Batching
  BY <1>1, AuthorizeEffect
<1>3. Shape' /\ OthersKeep(p) /\ LocksGrow(p, "share") /\ txn'[p].child = txn[p].child
  BY <1>2 DEF Effect, Steady, Lasting
<1>4. ChildFresh(p)'
  BY <1>1, <1>2, <1>3, ChildStaysFresh DEF access, ProcOk, ChildOk
<1>5. ProcOk(p)'
  BY <1>1, <1>2, <1>4, DecisionKeepsProc DEF ChildFresh
<1>6. QED
  BY <1>2, <1>3, <1>5, QuietStep

(* A command that is refused changes nothing any more.                     *)
LEMMA StopKeepsProc ==
    ASSUME Shape, NEW p \in Procs, ProcOk(p), NEW pc \in {"denied", "invalid"}, Step(p, pc),
           ~At(p, "idle"), UNCHANGED spaces
    PROVE  ProcOk(p)'
<1>1. /\ Shape' /\ OthersKeep(p) /\ txn'[p].pc = pc
      /\ \A x \in Fields \ {"pc"} : txn'[p][x] = txn[p][x]
  BY StepReplaces
<1>2. /\ txn'[p].kind = txn[p].kind /\ txn'[p].key = txn[p].key
      /\ txn'[p].replay = txn[p].replay /\ txn'[p].script = txn[p].script
      /\ txn'[p].child = txn[p].child /\ txn'[p].scope = txn[p].scope
  BY <1>1 DEF Fields
<1>3. TxnOk(p)'
  BY <1>1, <1>2 DEF ProcOk, TxnOk, At, Place
<1>4. DecisionOk(p)' /\ CommitOk(p)' /\ ~Active(p)'
  BY <1>1 DEF DecisionOk, CommitOk, Active, At, Deciding, Inner
<1>5. ChildFresh(p)'
  BY <1>1, <1>2, ChildStaysFresh DEF ProcOk, ChildOk
<1>6. ReserveOk(p)' /\ ChildOk(p)' /\ GovernOk(p)'
  BY <1>4, <1>5 DEF ReserveOk, ChildOk, GovernOk
<1>7. QED
  BY <1>3, <1>4, <1>6 DEF ProcOk

LEMMA StopOk ==
    ASSUME IInv, NEW p \in Procs, NEW pc \in {"denied", "invalid"}, Step(p, pc),
           ~At(p, "idle"), UNCHANGED <<access, work>>,
           NEW mode \in {"share", "update"}, LocksGrow(p, mode)
    PROVE  IInv'
BY StepReplaces, StopKeepsProc, QuietStep DEF IInv, access, Fields

----------------------------------------------------------------------------
(* The steps of a script.                                                  *)

LEMMA HeadAndTail ==
    ASSUME NEW S, NEW script \in Seq(S), script # <<>>
    PROVE  /\ Head(script) \in S /\ Tail(script) \in Seq(S)
           /\ \A do : Ahead(script, do) /\ Head(script).do # do => Ahead(Tail(script), do)
<1>1. Head(script) \in S /\ Tail(script) \in Seq(S)
  OBVIOUS
<1>2. ASSUME NEW do, Ahead(script, do), Head(script).do # do
      PROVE  Ahead(Tail(script), do)
  <2>1. PICK i \in DOMAIN script : script[i].do = do
    BY <1>2 DEF Ahead
  <2>2. i # 1
    BY <1>2, <2>1
  <2>3. i - 1 \in DOMAIN Tail(script) /\ Tail(script)[i - 1] = script[i]
    BY <2>1, <2>2
  <2>4. QED
    BY <2>1, <2>3 DEF Ahead
<1>3. QED
  BY <1>1, <1>2

LEMMA ReadyFacts ==
    ASSUME NEW p \in Procs, NEW do, Ready(p, do), ProcOk(p)
    PROVE  /\ At(p, "next") /\ ~At(p, "idle") /\ txn[p].kind \in Kinds
           /\ StepOf(p).do = do /\ StepOf(p) \in StepsOf(txn[p].kind)
           /\ Rest(p) \in Seq(StepsOf(txn[p].kind))
           /\ \A other : Ahead(txn[p].script, other) /\ other # do => Ahead(Rest(p), other)
           /\ StepOk(StepOf(p))
           /\ txn[p].kind \in Creations => do \notin {"write", "end"}
           /\ txn[p].kind \notin Creations => do # "child"
           /\ txn[p].kind \in Creating /\ Fresh(p) =>
                 StepOf(p) = SpaceLock(Place(p)) /\ Ahead(Rest(p), "decide")
           /\ txn[p].kind \in Creating /\ do = "decide" =>
                 StepOf(p).mode = "plain" /\ Governs(StepOf(p).todo, Place(p))
<1> DEFINE script == txn[p].script
           kind == txn[p].kind
<1>1. /\ At(p, "next") /\ ~At(p, "idle") /\ script # <<>> /\ Head(script).do = do
  BY DEF Ready, At
<1>2. kind \in Kinds /\ script \in Seq(StepsOf(kind))
  BY <1>1 DEF ProcOk, TxnOk
<1>3. /\ Head(script) \in StepsOf(kind) /\ Tail(script) \in Seq(StepsOf(kind))
      /\ \A other : Ahead(script, other) /\ Head(script).do # other => Ahead(Tail(script), other)
  BY <1>1, <1>2, HeadAndTail
<1>4. /\ ScriptOk(Script[kind])
      /\ kind \in Creations => Creates(Script[kind])
      /\ kind \notin Creations => Childless(Script[kind])
      /\ kind \in Creating => GovernedBy(Script[kind], ReservationSpace(kind))
  BY <1>2, ScriptsAreOk
<1>5. StepOk(Head(script))
  BY <1>3, <1>4 DEF ScriptOk, StepsOf
<1>6. /\ kind \in Creations => do \notin {"write", "end"}
      /\ kind \notin Creations => do # "child"
  BY <1>1, <1>3, <1>4 DEF Creates, Childless, StepsOf
<1>7. kind \in Creating /\ Fresh(p) =>
          Head(script) = SpaceLock(Place(p)) /\ Ahead(Tail(script), "decide")
  BY <1>4 DEF GovernedBy, Fresh, Place
<1>8. kind \in Creating /\ do = "decide" =>
          Head(script).mode = "plain" /\ Governs(Head(script).todo, Place(p))
  BY <1>1, <1>3, <1>4 DEF GovernedBy, StepsOf, Place
<1>9. QED
  BY <1>1, <1>2, <1>3, <1>5, <1>6, <1>7, <1>8 DEF StepOf, Rest

(* A step of a script is done and the next one is ready. *)
Passes(p) ==
    /\ txn'[p].pc = "next" /\ txn'[p].script = Rest(p)
    /\ txn'[p].kind = txn[p].kind /\ txn'[p].key = txn[p].key
    /\ txn'[p].replay = txn[p].replay
    /\ txn[p].kind \notin Creations =>
          txn'[p].child = txn[p].child /\ txn'[p].scope = txn[p].scope

LEMMA PassKeeps ==
    ASSUME NEW p \in Procs, ProcOk(p), NEW do, Ready(p, do), Passes(p),
           NEW mode, LocksGrow(p, mode), UNCHANGED <<spaces, actor, commands>>
    PROVE  /\ TxnOk(p)' /\ DecisionOk(p)' /\ CommitOk(p)'
           /\ do # "reserve" => ReserveOk(p)'
           /\ do \notin {"lock", "decide"} => GovernOk(p)'
           /\ do = "lock" /\ Active(p)' /\ txn[p].kind \in Creating => Fresh(p) \/ Governed(p)'
<1>1. /\ At(p, "next") /\ ~At(p, "idle") /\ txn[p].kind \in Kinds
      /\ Rest(p) \in Seq(StepsOf(txn[p].kind))
      /\ \A other : Ahead(txn[p].script, other) /\ other # do => Ahead(Rest(p), other)
      /\ txn[p].kind \in Creating /\ Fresh(p) => StepOf(p) = SpaceLock(Place(p))
      /\ StepOf(p).do = do
  BY ReadyFacts
<1>2. Place(p)' = Place(p)
  BY DEF Place, Passes
<1>3. TxnOk(p)'
  BY <1>1, <1>2 DEF ProcOk, TxnOk, Passes, At
<1>4. DecisionOk(p)' /\ CommitOk(p)'
  BY DEF DecisionOk, CommitOk, Passes, Deciding, Inner, At
<1>5. Active(p)' => Active(p)
  BY <1>1 DEF Active, Passes, At
<1>6. \A row, m : <<p, row, m>> \in locks => <<p, row, m>> \in locks'
  BY DEF LocksGrow
<1>7. ASSUME do # "reserve" PROVE ReserveOk(p)'
  BY <1>1, <1>5, <1>6, <1>7 DEF Reserved, Passes, ProcOk, ReserveOk
<1>8. ASSUME do # "decide", Governed(p) PROVE Governed(p)'
  <2>1. Holds(p)' /\ (Fits(p) => Fits(p)') /\ (Permitted(p) => Permitted(p)')
    BY <1>2, <1>6, <1>8 DEF Governed, Holds, Fits, Permitted, Live
  <2>2. Ahead(txn[p].script, "decide") => Ahead(Rest(p), "decide")
    BY <1>1, <1>8
  <2>3. (Scoping(p) => Scoping(p)') /\ (Permitting(p) => Permitting(p)')
    BY <1>1, <2>2 DEF Scoping, Permitting, Passes, At, Deciding, Inner
  <2>4. QED
    BY <1>8, <2>1, <2>3 DEF Governed
<1>9. Fresh(p) /\ txn[p].kind \in Creating => do = "lock"
  BY <1>1, StepDo DEF SpaceLock
<1>10. Active(p)' /\ txn[p].kind \in Creating => Fresh(p) \/ Governed(p)
  BY <1>5 DEF ProcOk, GovernOk
<1>11. do \notin {"lock", "decide"} => GovernOk(p)'
  BY <1>8, <1>9, <1>10 DEF GovernOk, Passes
<1>12. QED
  BY <1>3, <1>4, <1>7, <1>8, <1>10, <1>11

(* The child Space is not touched by a step that is not about it. *)
LEMMA PassKeepsChild ==
    ASSUME NEW p \in Procs, ProcOk(p), NEW do, Ready(p, do), Passes(p), OthersKeep(p),
           UNCHANGED spaces, do # "child", txn'[p].child = txn[p].child,
           txn[p].kind \in Creations => txn'[p].rows = txn[p].rows
    PROVE  ChildOk(p)'
<1>1. ChildFresh(p)'
  BY ChildStaysFresh DEF ProcOk, ChildOk
<1>2. Active(p)' => Active(p)
  BY DEF Active, Passes, Ready, At
<1>3. Ahead(txn[p].script, "child") => Ahead(Rest(p), "child")
  BY ReadyFacts
<1>4. txn[p].kind \in Creations /\ ChildMade(p) => ChildMade(p)'
  BY <1>3 DEF ChildMade, Passes
<1>5. QED
  BY <1>1, <1>2, <1>4 DEF ProcOk, ChildOk, Passes

(* What a record becomes that goes on to the rest of its script. *)
GoesOn(p, t) ==
    /\ DOMAIN t = Fields /\ t.pc = "next" /\ t.script = Rest(p)
    /\ \A x \in {"kind", "key", "replay", "child", "scope"} : t[x] = txn[p][x]
    /\ txn[p].kind \in Creations => t.rows = txn[p].rows

LEMMA GoingOn ==
    ASSUME Shape, NEW p \in Procs, NEW STATE t, Become(p, t), GoesOn(p, t)
    PROVE  /\ Shape' /\ OthersKeep(p) /\ Passes(p) /\ txn'[p].child = txn[p].child
           /\ txn[p].kind \in Creations => txn'[p].rows = txn[p].rows
BY BecomeReplaces DEF GoesOn, Replaced, Passes

LEMMA AdvanceGoesOn ==
    ASSUME Shape, NEW p \in Procs, At(p, "next")
    PROVE  /\ GoesOn(p, [txn[p] EXCEPT !.script = Rest(p)])
           /\ \A v : GoesOn(p, [txn[p] EXCEPT !.script = Rest(p), !.version = v])
           /\ txn[p].kind \notin Creations =>
                 \A rows : GoesOn(p, [txn[p] EXCEPT !.script = Rest(p), !.rows = rows])
BY DEF GoesOn, Shape, Fields, At

(* A step that is neither a lock, nor a decision, nor the reservation, nor *)
(* about the child Space.                                                  *)
LEMMA GoOnOk ==
    ASSUME IInv, NEW p \in Procs, NEW do, Ready(p, do),
           do \notin {"lock", "decide", "reserve", "child"},
           NEW STATE t, Become(p, t), GoesOn(p, t), UNCHANGED <<access, work>>,
           NEW mode \in {"share", "update"}, LocksGrow(p, mode)
    PROVE  IInv'
BY GoingOn, PassKeeps, PassKeepsChild, QuietStep DEF IInv, access, work, ProcOk

LEMMA CheckVersionOk ==
    ASSUME IInv, NEW p \in Procs, CheckVersion(p)
    PROVE  IInv'
<1>1. /\ Ready(p, "version") /\ At(p, "next") /\ ~At(p, "idle") /\ Shape
      /\ LocksGrow(p, "share") /\ UNCHANGED <<access, work>>
  BY NoLockGrows DEF CheckVersion, Ready, At, IInv
<1>2. CASE Advance(p)
  BY <1>1, <1>2, AdvanceGoesOn, GoOnOk DEF Advance
<1>3. CASE Invalid(p)
  BY <1>1, <1>3, StopOk DEF Invalid
<1>4. QED
  BY <1>2, <1>3 DEF CheckVersion

LEMMA StartAuthorityBatchOk ==
    ASSUME IInv, NEW p \in Procs, StartAuthorityBatch(p)
    PROVE  IInv'
<1> DEFINE t0 == [txn[p] EXCEPT !.script = Rest(p)]
           d == Decide(t0, StepOf(p).todo, "batch", "lockActor")
           t == [d EXCEPT !.role = actor.role, !.found = Nothing,
                          !.requests = StepOf(p).todo]
<1>1. /\ Ready(p, "batch") /\ At(p, "next") /\ ~At(p, "idle") /\ Shape
      /\ LocksGrow(p, "share") /\ UNCHANGED <<access, work>> /\ ProcOk(p)
      /\ UNCHANGED <<spaces, actor, commands>>
  BY NoLockGrows DEF StartAuthorityBatch, Ready, At, IInv, access, work
<1>2. Step(p, "denied") \/ Become(p, t)
  BY DEF StartAuthorityBatch, StartBatch
<1>3. CASE Step(p, "denied")
  BY <1>1, <1>3, StopOk
<1>4. CASE Become(p, t)
  <2>1. /\ DOMAIN t0 = Fields /\ t0.script = Rest(p)
        /\ \A x \in Fields \ {"script"} : t0[x] = txn[p][x]
    BY <1>1 DEF Shape, Fields
  <2> HIDE DEF t0
  <2>2. /\ DOMAIN d = Fields /\ d.pc = "scope" /\ d.mode = "batch" /\ d.after = "lockActor"
        /\ \A x \in Fields \ {"pc", "mode", "after", "todo"} : d[x] = t0[x]
    BY <2>1 DEF Decide, Fields
  <2> HIDE DEF d
  <2>3. /\ DOMAIN t = Fields /\ t.pc = "scope" /\ t.mode = "batch" /\ t.after = "lockActor"
        /\ \A x \in {"script", "kind", "key", "replay", "child", "scope", "rows"} : t[x] = d[x]
    BY <2>2 DEF Fields
  <2> HIDE DEF t
  <2>4. /\ t.script = Rest(p)
        /\ \A x \in {"kind", "key", "replay", "child", "scope", "rows"} : t[x] = txn[p][x]
    BY <2>1, <2>2, <2>3 DEF Fields
  <2>5. Shape' /\ OthersKeep(p) /\ txn'[p] = t
    BY <1>1, <1>4, <2>3, BecomeReplaces DEF Replaced
  <2>6. /\ txn[p].kind \in Kinds /\ Rest(p) \in Seq(StepsOf(txn[p].kind))
        /\ \A other : Ahead(txn[p].script, other) /\ other # "batch" => Ahead(Rest(p), other)
        /\ txn[p].kind \in Creating /\ Fresh(p) => StepOf(p) = SpaceLock(Place(p))
        /\ StepOf(p).do = "batch"
    BY <1>1, ReadyFacts
  <2>7. Place(p)' = Place(p)
    BY <2>4, <2>5 DEF Place
  <2>8. TxnOk(p)' /\ DecisionOk(p)' /\ CommitOk(p)'
    BY <1>1, <2>3, <2>4, <2>5, <2>6, <2>7 DEF ProcOk, TxnOk, DecisionOk, CommitOk, At, Mode, Modes
  <2>9. /\ Active(p)' => Active(p)
        /\ \A row, m : <<p, row, m>> \in locks => <<p, row, m>> \in locks'
    BY <1>1, <2>4, <2>5 DEF Active, At, LocksGrow
  <2>10. ReserveOk(p)'
    <3>1. Reserved(p) => Reserved(p)'
      BY <1>1, <2>4, <2>5, <2>9 DEF Reserved
    <3>2. QED
      BY <2>4, <2>5, <2>6, <2>9, <3>1 DEF ProcOk, ReserveOk, IInv
  <2>11. ChildOk(p)'
    <3>1. ChildFresh(p)'
      BY <1>1, <2>4, <2>5, ChildStaysFresh DEF ProcOk, ChildOk
    <3>2. txn[p].kind \in Creations /\ ChildMade(p) => ChildMade(p)'
      BY <2>4, <2>5, <2>6 DEF ChildMade
    <3>3. QED
      BY <1>1, <2>4, <2>5, <2>9, <3>1, <3>2 DEF ProcOk, ChildOk
  <2>12. GovernOk(p)'
    <3>1. SUFFICES ASSUME Active(p)', txn[p].kind \in Creating PROVE Governed(p)'
      BY <2>4, <2>5 DEF GovernOk
    <3>2. ~Fresh(p)
      BY <2>6, <3>1, StepDo DEF SpaceLock
    <3>3. Governed(p)
      BY <1>1, <2>9, <3>1, <3>2 DEF ProcOk, GovernOk
    <3>4. Holds(p)' /\ (Fits(p) => Fits(p)') /\ (Permitted(p) => Permitted(p)')
      BY <1>1, <2>7, <2>9, <3>3 DEF Governed, Holds, Fits, Permitted, Live
    <3>5. (Scoping(p) => Scoping(p)') /\ (Permitting(p) => Permitting(p)')
      BY <1>1, <2>4, <2>5, <2>6 DEF Scoping, Permitting, At, Deciding, Inner
    <3>6. QED
      BY <3>3, <3>4, <3>5 DEF Governed
  <2>13. ProcOk(p)' /\ txn'[p].child = txn[p].child
    BY <2>4, <2>5, <2>8, <2>10, <2>11, <2>12 DEF ProcOk
  <2>14. QED
    BY <1>1, <2>5, <2>13, QuietStep
<1>5. QED
  BY <1>2, <1>3, <1>4

LEMMA WriteEndOk ==
    ASSUME IInv, NEW p \in Procs, WriteEnd(p)
    PROVE  IInv'
<1> DEFINE t == [txn[p] EXCEPT !.script = Rest(p), !.rows = {"ended"}]
<1>1. /\ Ready(p, "end") /\ At(p, "next") /\ ~At(p, "idle") /\ Shape /\ ProcOk(p)
      /\ LocksGrow(p, "share") /\ UNCHANGED <<access, work>>
  BY NoLockGrows DEF WriteEnd, Ready, At, IInv
<1>2. Step(p, "denied") \/ Invalid(p) \/ Become(p, t)
  BY DEF WriteEnd
<1>3. CASE Step(p, "denied") \/ Invalid(p)
  BY <1>1, <1>3, StopOk DEF Invalid
<1>4. CASE Become(p, t)
  BY <1>1, <1>4, ReadyFacts, AdvanceGoesOn, GoOnOk
<1>5. QED
  BY <1>2, <1>3, <1>4

LEMMA WriteRowsOk ==
    ASSUME IInv, NEW p \in Procs, WriteRows(p)
    PROVE  IInv'
<1> DEFINE t == [txn[p] EXCEPT !.script = Rest(p), !.rows = @ \cup StepOf(p).tables]
<1>1. /\ Ready(p, "write") /\ At(p, "next") /\ ~At(p, "idle") /\ Shape /\ ProcOk(p)
      /\ LocksGrow(p, "share") /\ UNCHANGED <<access, work>>
  BY NoLockGrows DEF WriteRows, Ready, At, IInv
<1>2. Invalid(p) \/ Become(p, t)
  BY DEF WriteRows
<1>3. CASE Invalid(p)
  BY <1>1, <1>3, StopOk DEF Invalid
<1>4. CASE Become(p, t)
  BY <1>1, <1>4, ReadyFacts, GoOnOk DEF GoesOn, Shape, Fields, At
<1>5. QED
  BY <1>2, <1>3, <1>4

LEMMA LockRowOk ==
    ASSUME IInv, NEW p \in Procs, LockRow(p)
    PROVE  IInv'
<1> DEFINE t1 == [txn[p] EXCEPT !.script = Rest(p)]
           t2 == [txn[p] EXCEPT !.script = Rest(p), !.version = relationship]
<1>1. /\ Ready(p, "lock") /\ At(p, "next") /\ ~At(p, "idle") /\ Shape /\ ProcOk(p)
      /\ UNCHANGED <<access, work>> /\ UNCHANGED <<spaces, actor, commands>>
  BY DEF LockRow, Ready, At, IInv, access, work
<1>2. \/ Invalid(p) /\ UNCHANGED locks
      \/ /\ Lock(p, {StepOf(p).row}, StepOf(p).mode)
         /\ Become(p, t1) \/ Become(p, t2)
         /\ StepOf(p).row[1] = "space" => Live(StepOf(p).row[2])
  BY DEF LockRow, Advance
<1>3. CASE Invalid(p) /\ UNCHANGED locks
  BY <1>1, <1>3, NoLockGrows, StopOk DEF Invalid
<1>4. CASE /\ Lock(p, {StepOf(p).row}, StepOf(p).mode)
           /\ Become(p, t1) \/ Become(p, t2)
           /\ StepOf(p).row[1] = "space" => Live(StepOf(p).row[2])
  <2>1. GoesOn(p, t1) /\ GoesOn(p, t2)
    BY <1>1, AdvanceGoesOn
  <2> HIDE DEF t1, t2
  <2>2. /\ Shape' /\ OthersKeep(p) /\ Passes(p) /\ txn'[p].child = txn[p].child
        /\ txn[p].kind \in Creations => txn'[p].rows = txn[p].rows
    BY <1>1, <1>4, <2>1, GoingOn
  <2>3. /\ StepOk(StepOf(p)) /\ StepOf(p).do = "lock" /\ txn[p].kind \in Kinds
        /\ txn[p].kind \in Creating /\ Fresh(p) =>
              StepOf(p) = SpaceLock(Place(p)) /\ Ahead(Rest(p), "decide")
    BY <1>1, ReadyFacts
  <2>4. StepOf(p).mode \in {"share", "update"}
    BY <2>3 DEF StepOk
  <2>5. LocksGrow(p, StepOf(p).mode) /\ <<p, StepOf(p).row, StepOf(p).mode>> \in locks'
    BY <1>4, LockGrows
  <2>6. /\ TxnOk(p)' /\ DecisionOk(p)' /\ CommitOk(p)' /\ ReserveOk(p)'
        /\ Active(p)' /\ txn[p].kind \in Creating => Fresh(p) \/ Governed(p)'
    BY <1>1, <2>2, <2>5, PassKeeps
  <2>7. ChildOk(p)'
    BY <1>1, <2>2, PassKeepsChild
  <2>8. ASSUME txn[p].kind \in Creating, Fresh(p)
        PROVE  Governed(p)'
    <3>1. StepOf(p) = SpaceLock(Place(p)) /\ Ahead(Rest(p), "decide")
      BY <2>3, <2>8
    <3>2. StepOf(p).row = <<"space", Place(p)>> /\ StepOf(p).mode = "update"
      BY <3>1, StepDo DEF SpaceLock
    <3>3. Place(p)' = Place(p)
      BY <2>2 DEF Place, Passes
    <3>4. Holds(p)'
      BY <1>1, <1>4, <2>5, <3>2, <3>3 DEF Holds, Live
    <3>5. Scoping(p)' /\ Permitting(p)'
      BY <2>2, <3>1 DEF Scoping, Permitting, Passes
    <3>6. QED
      BY <3>4, <3>5 DEF Governed
  <2>9. GovernOk(p)'
    BY <2>2, <2>6, <2>8 DEF GovernOk, Passes
  <2>10. QED
    BY <1>1, <2>2, <2>4, <2>5, <2>6, <2>7, <2>9, QuietStep DEF ProcOk
<1>5. QED
  BY <1>2, <1>3, <1>4

LEMMA StartDecisionsOk ==
    ASSUME IInv, NEW p \in Procs, StartDecisions(p)
    PROVE  IInv'
<1> DEFINE t0 == [txn[p] EXCEPT !.script = Rest(p)]
           todo == StepOf(p).todo
           mode == StepOf(p).mode
           t == Decide(t0, todo, mode, "next")
<1>1. /\ Ready(p, "decide") /\ At(p, "next") /\ ~At(p, "idle") /\ Shape
      /\ LocksGrow(p, "share") /\ UNCHANGED <<access, work>> /\ ProcOk(p)
      /\ UNCHANGED <<spaces, actor, commands>> /\ Become(p, t)
  BY NoLockGrows DEF StartDecisions, Ready, At, IInv, access, work
<1>2. /\ txn[p].kind \in Kinds /\ Rest(p) \in Seq(StepsOf(txn[p].kind))
      /\ \A other : Ahead(txn[p].script, other) /\ other # "decide" => Ahead(Rest(p), other)
      /\ txn[p].kind \in Creating /\ Fresh(p) => StepOf(p) = SpaceLock(Place(p))
      /\ txn[p].kind \in Creating => mode = "plain" /\ Governs(todo, Place(p))
      /\ StepOk(StepOf(p)) /\ StepOf(p).do = "decide"
  BY <1>1, ReadyFacts
<1>3. mode \in Modes \ {"batch"} /\ AboutSpaces(todo)
  BY <1>2 DEF StepOk
<1>4. DOMAIN t0 = Fields /\ t0.script = Rest(p) /\ \A x \in Fields \ {"script"} : t0[x] = txn[p][x]
  BY <1>1 DEF Shape, Fields
<1> HIDE DEF t0, todo, mode
<1>5. /\ DOMAIN t = Fields /\ t.pc = "actor" /\ t.mode = mode /\ t.after = "next"
      /\ t.todo = todo /\ \A x \in Fields \ {"pc", "mode", "after", "todo"} : t[x] = t0[x]
  BY <1>3, <1>4 DEF Decide, Fields
<1> HIDE DEF t
<1>6. /\ t.script = Rest(p)
      /\ \A x \in {"kind", "key", "replay", "child", "scope", "rows"} : t[x] = txn[p][x]
  BY <1>4, <1>5 DEF Fields
<1>7. Shape' /\ OthersKeep(p) /\ txn'[p] = t
  BY <1>1, <1>5, BecomeReplaces DEF Replaced
<1>8. Place(p)' = Place(p)
  BY <1>6, <1>7 DEF Place
<1>9. TxnOk(p)' /\ CommitOk(p)'
  BY <1>1, <1>2, <1>5, <1>6, <1>7, <1>8 DEF ProcOk, TxnOk, CommitOk, At
<1>10. DecisionOk(p)'
  BY <1>3, <1>5, <1>7 DEF DecisionOk, Mode
<1>11. /\ Active(p)' => Active(p)
       /\ \A row, m : <<p, row, m>> \in locks => <<p, row, m>> \in locks'
  BY <1>1, <1>6, <1>7 DEF Active, At, LocksGrow
<1>12. ReserveOk(p)'
  BY <1>1, <1>2, <1>6, <1>7, <1>11 DEF Reserved, ProcOk, ReserveOk
<1>13. ChildOk(p)'
  <2>1. ChildFresh(p)'
    BY <1>1, <1>6, <1>7, ChildStaysFresh DEF ProcOk, ChildOk
  <2>2. txn[p].kind \in Creations /\ ChildMade(p) => ChildMade(p)'
    BY <1>2, <1>6, <1>7 DEF ChildMade
  <2>3. QED
    BY <1>1, <1>6, <1>7, <1>11, <2>1, <2>2 DEF ProcOk, ChildOk
<1>14. GovernOk(p)'
  <2>1. SUFFICES ASSUME Active(p)', txn[p].kind \in Creating PROVE Governed(p)'
    BY <1>6, <1>7 DEF GovernOk
  <2>2. ~Fresh(p)
    BY <1>2, <2>1, StepDo DEF SpaceLock
  <2>3. Holds(p)
    BY <1>1, <1>11, <2>1, <2>2 DEF ProcOk, GovernOk, Governed
  <2>4. Holds(p)'
    BY <1>1, <1>8, <1>11, <2>3 DEF Holds, Live
  <2>5. mode = "plain" /\ \E i \in DOMAIN todo : Scopes(todo[i], Place(p))
    BY <1>2, <2>1 DEF Governs
  <2>6. Scoping(p)' /\ Permitting(p)'
    BY <1>5, <1>7, <1>8, <2>5 DEF Scoping, Permitting, At, Mode, Deciding
  <2>7. QED
    BY <2>4, <2>6 DEF Governed
<1>15. ProcOk(p)' /\ txn'[p].child = txn[p].child
  BY <1>6, <1>7, <1>9, <1>10, <1>12, <1>13, <1>14 DEF ProcOk
<1>16. QED
  BY <1>1, <1>7, <1>15, QuietStep

LEMMA ReserveOkStep ==
    ASSUME IInv, NEW p \in Procs, Reserve(p)
    PROVE  IInv'
<1> DEFINE t == [txn[p] EXCEPT !.pc = "commit", !.replay = TRUE]
           t1 == [txn[p] EXCEPT !.script = Rest(p)]
<1>1. /\ Ready(p, "reserve") /\ At(p, "next") /\ ~At(p, "idle") /\ Shape /\ ProcOk(p)
      /\ UNCHANGED <<access, work>> /\ UNCHANGED <<spaces, actor, commands>>
      /\ Lock(p, {KeyRow(txn[p].key)}, "update")
  BY DEF Reserve, Ready, At, IInv, access, work
<1>2. LocksGrow(p, "update") /\ <<p, KeyRow(txn[p].key), "update">> \in locks'
  BY <1>1, LockGrows
<1>3. \/ Invalid(p) \/ Become(p, t)
      \/ Become(p, t1) /\ commands[txn[p].key] = None
  BY DEF Reserve, Advance
<1>4. CASE Invalid(p)
  BY <1>1, <1>2, <1>4, StopOk DEF Invalid
<1>5. CASE Become(p, t)
  <2>1. /\ DOMAIN t = Fields /\ t.pc = "commit" /\ t.replay = TRUE
        /\ \A x \in Fields \ {"pc", "replay"} : t[x] = txn[p][x]
    BY <1>1 DEF Shape, Fields
  <2> HIDE DEF t
  <2>2. Shape' /\ OthersKeep(p) /\ txn'[p] = t
    BY <1>1, <1>5, <2>1, BecomeReplaces DEF Replaced
  <2>3. \A x \in {"kind", "key", "script", "child", "scope"} : txn'[p][x] = txn[p][x]
    BY <2>1, <2>2 DEF Fields
  <2>4. TxnOk(p)' /\ CommitOk(p)' /\ ~Active(p)'
    BY <1>1, <2>1, <2>2, <2>3 DEF ProcOk, TxnOk, CommitOk, Active, At, Place
  <2>5. DecisionOk(p)'
    BY <2>1, <2>2 DEF DecisionOk, Deciding, Inner
  <2>6. ChildFresh(p)'
    BY <1>1, <2>2, <2>3, ChildStaysFresh DEF ProcOk, ChildOk
  <2>7. ProcOk(p)'
    BY <2>4, <2>5, <2>6 DEF ProcOk, ReserveOk, ChildOk, GovernOk
  <2>8. QED
    BY <1>1, <1>2, <2>2, <2>3, <2>7, QuietStep
<1>6. CASE Become(p, t1) /\ commands[txn[p].key] = None
  <2>1. GoesOn(p, t1)
    BY <1>1, AdvanceGoesOn
  <2> HIDE DEF t1
  <2>2. /\ Shape' /\ OthersKeep(p) /\ Passes(p) /\ txn'[p].child = txn[p].child
        /\ txn[p].kind \in Creations => txn'[p].rows = txn[p].rows
    BY <1>1, <1>6, <2>1, GoingOn
  <2>3. TxnOk(p)' /\ DecisionOk(p)' /\ CommitOk(p)' /\ GovernOk(p)'
    BY <1>1, <1>2, <2>2, PassKeeps
  <2>4. ChildOk(p)'
    BY <1>1, <2>2, PassKeepsChild
  <2>5. ReserveOk(p)'
    BY <1>1, <1>2, <1>6, <2>2 DEF ReserveOk, Reserved, Passes
  <2>6. QED
    BY <1>1, <1>2, <2>2, <2>3, <2>4, <2>5, QuietStep DEF ProcOk
<1>7. QED
  BY <1>3, <1>4, <1>5, <1>6

----------------------------------------------------------------------------
(* The child Space of a creation.                                          *)

LEMMA LowestIsOne ==
    ASSUME NEW S, S \subseteq Nat, S # {}
    PROVE  LowestOf(S) \in S
<1> DEFINE R == {ss \in Nat \X Nat : ss[1] < ss[2]}
<1>1. IsWellFoundedOn(R, Nat)
  BY NatLessThanWellFounded DEF OpToRel
<1> HIDE DEF R
<1>2. PICK g \in S : \A h \in Nat : <<h, g>> \in R => h \notin S
  BY <1>1, WFMin
<1>3. ASSUME NEW h \in S PROVE g <= h
  <2>1. <<h, g>> \notin R
    BY <1>2, <1>3
  <2>2. <<h, g>> \in Nat \X Nat /\ <<h, g>>[1] = h /\ <<h, g>>[2] = g
    BY <1>2, <1>3
  <2>3. ~(h < g)
    BY <2>1, <2>2 DEF R
  <2>4. g \in Nat /\ h \in Nat
    BY <1>2, <1>3
  <2>5. QED
    BY <2>3, <2>4
<1>4. \E k \in S : \A h \in S : k <= h
  BY <1>2, <1>3
<1>5. QED
  BY <1>4 DEF LowestOf

(* A step about the child Space that is not the last.                      *)
Works(p) ==
    /\ txn'[p].pc = "next"
    /\ \A x \in {"kind", "key", "replay", "script"} : txn'[p][x] = txn[p][x]

LEMMA WorkKeeps ==
    ASSUME NEW p \in Procs, ProcOk(p), Ready(p, "child"), Works(p),
           NEW mode, LocksGrow(p, mode), UNCHANGED <<spaces, actor, commands>>
    PROVE  /\ txn[p].kind \in Creations /\ Ahead(txn[p].script, "child")
           /\ TxnOk(p)' /\ DecisionOk(p)' /\ CommitOk(p)' /\ ReserveOk(p)' /\ GovernOk(p)'
           /\ Active(p)' => Active(p)
<1>1. /\ At(p, "next") /\ ~At(p, "idle") /\ txn[p].kind \in Creations
      /\ txn[p].kind \in Creating /\ Fresh(p) => StepOf(p) = SpaceLock(Place(p))
      /\ StepOf(p).do = "child" /\ txn[p].kind \in Kinds
  BY ReadyFacts
<1>2. txn[p].script \in Seq(StepsOf(txn[p].kind)) /\ txn[p].script # <<>>
  BY <1>1 DEF ProcOk, TxnOk, Ready
<1>3. Ahead(txn[p].script, "child")
  BY <1>1, <1>2 DEF StepOf, Ahead
<1>4. Place(p)' = Place(p)
  BY DEF Place, Works
<1>5. TxnOk(p)'
  BY <1>1, <1>4 DEF ProcOk, TxnOk, Works, At
<1>6. DecisionOk(p)' /\ CommitOk(p)'
  BY DEF DecisionOk, CommitOk, Works, Deciding, Inner, At
<1>7. /\ Active(p)' => Active(p)
      /\ \A row, m : <<p, row, m>> \in locks => <<p, row, m>> \in locks'
  BY <1>1 DEF Active, Works, At, LocksGrow
<1>8. ReserveOk(p)'
  BY <1>7 DEF Reserved, Works, ProcOk, ReserveOk
<1>9. GovernOk(p)'
  <2>1. SUFFICES ASSUME Active(p)', txn[p].kind \in Creating PROVE Governed(p)'
    BY DEF GovernOk, Works
  <2>2. ~Fresh(p)
    BY <1>1, <2>1, StepDo DEF SpaceLock
  <2>3. Governed(p)
    BY <1>7, <2>1, <2>2 DEF ProcOk, GovernOk
  <2>4. Holds(p)' /\ (Fits(p) => Fits(p)') /\ (Permitted(p) => Permitted(p)')
    BY <1>4, <1>7, <2>3 DEF Governed, Holds, Fits, Permitted, Live
  <2>5. (Scoping(p) => Scoping(p)') /\ (Permitting(p) => Permitting(p)')
    BY <1>1 DEF Scoping, Permitting, Works, At, Deciding, Inner
  <2>6. QED
    BY <2>3, <2>4, <2>5 DEF Governed
<1>10. QED
  BY <1>1, <1>3, <1>5, <1>6, <1>7, <1>8, <1>9

LEMMA CreationRows ==
    ASSUME NEW kind \in Creations
    PROVE  /\ kind \notin {"space", "grant"} /\ kind \in Complement(kind)
           /\ {"space", "grant"} \cup {kind} \cup Messages = Complement(kind)
BY DEF Creations, Complement

LEMMA OpenChildOk ==
    ASSUME IInv, NEW p \in Procs, OpenChild(p)
    PROVE  IInv'
<1> DEFINE parent == ReservationSpace(txn[p].kind)
           child == LowestOf(Unused)
           t == [txn[p] EXCEPT !.child = child, !.scope = child, !.rows = {"space", "grant"}]
<1>1. /\ Ready(p, "child") /\ At(p, "next") /\ ~At(p, "idle") /\ Shape /\ ProcOk(p)
      /\ UNCHANGED <<access, work>> /\ UNCHANGED <<spaces, actor, commands>>
  BY DEF OpenChild, Ready, At, IInv, access, work
<1>2. \/ Invalid(p) /\ UNCHANGED locks
      \/ Lock(p, {<<"space", parent>>, <<"space", child>>}, "update") /\ Become(p, t)
  BY DEF OpenChild
<1>3. CASE Invalid(p) /\ UNCHANGED locks
  BY <1>1, <1>3, NoLockGrows, StopOk DEF Invalid
<1>4. CASE Lock(p, {<<"space", parent>>, <<"space", child>>}, "update") /\ Become(p, t)
  <2>1. LocksGrow(p, "update")
    BY <1>4, LockGrows
  <2>2. child # None => child \in Unused
    BY AccessAssumption, LowestIsOne DEF Unused, LowestOf
  <2> HIDE DEF child
  <2>3. /\ DOMAIN t = Fields /\ t.child = child /\ t.rows = {"space", "grant"}
        /\ \A x \in Fields \ {"child", "scope", "rows"} : t[x] = txn[p][x]
    BY <1>1 DEF Shape, Fields
  <2> HIDE DEF t
  <2>4. Shape' /\ OthersKeep(p) /\ txn'[p] = t
    BY <1>1, <1>4, <2>3, BecomeReplaces DEF Replaced
  <2>5. Works(p)
    BY <1>1, <2>3, <2>4 DEF Works, Fields, At
  <2>6. /\ txn[p].kind \in Creations /\ Ahead(txn[p].script, "child")
        /\ TxnOk(p)' /\ DecisionOk(p)' /\ CommitOk(p)' /\ ReserveOk(p)' /\ GovernOk(p)'
    BY <1>1, <2>1, <2>5, WorkKeeps
  <2>7. child = None \/ \A r \in Procs : txn[r].child # child
    BY <2>2 DEF Unused
  <2>8. ChildFresh(p)'
    BY <1>1, <2>2, <2>3, <2>4, <2>7 DEF Unused, OthersKeep, ChildFresh
  <2>9. ChildMade(p)'
    BY <2>3, <2>4, <2>5, <2>6, CreationRows DEF ChildMade, Works
  <2>10. ProcOk(p)'
    BY <2>6, <2>8, <2>9 DEF ProcOk, ChildOk
  <2>11. QED
    BY <1>1, <2>1, <2>3, <2>4, <2>7, <2>10, QuietStep
<1>5. QED
  BY <1>2, <1>3, <1>4

LEMMA FillChildOk ==
    ASSUME IInv, NEW p \in Procs, FillChild(p)
    PROVE  IInv'
<1> DEFINE t == [txn[p] EXCEPT !.rows = @ \cup {txn[p].kind} \cup Messages]
<1>1. /\ Ready(p, "child") /\ At(p, "next") /\ ~At(p, "idle") /\ Shape /\ ProcOk(p)
      /\ UNCHANGED <<access, work>> /\ UNCHANGED <<spaces, actor, commands>>
      /\ LocksGrow(p, "share") /\ txn[p].child # None /\ txn[p].kind \notin txn[p].rows
  BY NoLockGrows DEF FillChild, Ready, At, IInv, access, work
<1>2. Invalid(p) \/ Become(p, t)
  BY DEF FillChild
<1>3. CASE Invalid(p)
  BY <1>1, <1>3, StopOk DEF Invalid
<1>4. CASE Become(p, t)
  <2>1. /\ DOMAIN t = Fields /\ t.rows = txn[p].rows \cup {txn[p].kind} \cup Messages
        /\ \A x \in Fields \ {"rows"} : t[x] = txn[p][x]
    BY <1>1 DEF Shape, Fields
  <2> HIDE DEF t
  <2>2. Shape' /\ OthersKeep(p) /\ txn'[p] = t
    BY <1>1, <1>4, <2>1, BecomeReplaces DEF Replaced
  <2>3. Works(p) /\ txn'[p].child = txn[p].child
    BY <1>1, <2>1, <2>2 DEF Works, Fields, At
  <2>4. /\ txn[p].kind \in Creations /\ Active(p)' => Active(p)
        /\ txn[p].kind \in Creations
        /\ TxnOk(p)' /\ DecisionOk(p)' /\ CommitOk(p)' /\ ReserveOk(p)' /\ GovernOk(p)'
    BY <1>1, <2>3, WorkKeeps
  <2>5. ChildFresh(p)'
    BY <1>1, <2>2, <2>3, ChildStaysFresh DEF ProcOk, ChildOk
  <2>6. Active(p) => ChildMade(p)'
    <3>1. Active(p) => txn[p].rows = {"space", "grant"}
      BY <1>1, <2>4, CreationRows DEF ProcOk, ChildOk, ChildMade
    <3>2. Active(p) => t.rows = Complement(txn[p].kind)
      BY <2>1, <2>4, <3>1, CreationRows
    <3>3. QED
      BY <1>1, <2>2, <2>3, <3>2 DEF ChildMade, Works
  <2>7. ProcOk(p)'
    BY <2>4, <2>5, <2>6 DEF ProcOk, ChildOk
  <2>8. QED
    BY <1>1, <2>2, <2>3, <2>7, QuietStep
<1>5. QED
  BY <1>2, <1>3, <1>4

LEMMA CloseChildOk ==
    ASSUME IInv, NEW p \in Procs, CloseChild(p)
    PROVE  IInv'
<1> DEFINE t == [txn[p] EXCEPT !.script = Rest(p), !.scope = ReservationSpace(txn[p].kind)]
<1>1. /\ Ready(p, "child") /\ At(p, "next") /\ ~At(p, "idle") /\ Shape /\ ProcOk(p)
      /\ UNCHANGED <<access, work>> /\ UNCHANGED <<spaces, actor, commands>>
      /\ LocksGrow(p, "share") /\ txn[p].kind \in txn[p].rows /\ Become(p, t)
  BY NoLockGrows DEF CloseChild, Ready, At, IInv, access, work
<1>2. txn[p].kind \in Creations
  BY <1>1, ReadyFacts
<1>3. /\ DOMAIN t = Fields /\ t.script = Rest(p)
      /\ \A x \in Fields \ {"script", "scope"} : t[x] = txn[p][x]
  BY <1>1 DEF Shape, Fields
<1> HIDE DEF t
<1>4. Shape' /\ OthersKeep(p) /\ txn'[p] = t
  BY <1>1, <1>3, BecomeReplaces DEF Replaced
<1>5. Passes(p) /\ txn'[p].child = txn[p].child /\ txn'[p].rows = txn[p].rows
  BY <1>1, <1>2, <1>3, <1>4 DEF Passes, Fields, At
<1>6. TxnOk(p)' /\ DecisionOk(p)' /\ CommitOk(p)' /\ ReserveOk(p)' /\ GovernOk(p)'
  BY <1>1, <1>5, PassKeeps
<1>7. ChildFresh(p)'
  BY <1>1, <1>4, <1>5, ChildStaysFresh DEF ProcOk, ChildOk
<1>8. Active(p)' => Active(p)
  BY <1>1, <1>5 DEF Active, Passes, At
<1>9. Active(p) => ChildMade(p)'
  BY <1>1, <1>2, <1>5, CreationRows DEF ProcOk, ChildOk, ChildMade, Passes
<1>10. ProcOk(p)'
  BY <1>6, <1>7, <1>8, <1>9 DEF ProcOk, ChildOk
<1>11. QED
  BY <1>1, <1>4, <1>5, <1>10, QuietStep

----------------------------------------------------------------------------
(* The ends of a transaction.                                              *)

LEMMA BeginOk ==
    ASSUME IInv, NEW p \in Procs, NEW request \in cast.requests[p], Begin(p, request)
    PROVE  IInv'
<1> DEFINE kind == request.kind
           t == [Idle EXCEPT !.pc = "next", !.key = request.key, !.kind = request.kind,
                             !.script = Script[request.kind], !.since = changes,
                             !.scope = ReservationSpace(request.kind),
                             !.runs = txn[p].runs + 1]
<1>1. /\ Become(p, t) /\ At(p, "idle") /\ Shape /\ UNCHANGED <<access, work>>
      /\ LocksGrow(p, "share")
  BY NoLockGrows DEF Begin, Become, IInv
<1>2. kind \in Kinds /\ request.key \in Keys
  BY CastAssumption DEF IInv, TablesOk
<1>3. /\ ScriptOk(Script[kind])
      /\ kind \in Creations => Creates(Script[kind])
      /\ kind \in Creating => GovernedBy(Script[kind], ReservationSpace(kind))
  BY <1>2, ScriptsAreOk
<1>4. /\ DOMAIN t = Fields /\ t.pc = "next" /\ t.kind = kind /\ t.key = request.key
      /\ t.script = Script[kind] /\ t.scope = ReservationSpace(kind)
      /\ t.child = None /\ t.rows = {} /\ t.replay = FALSE
  BY DEF Idle, Fields
<1> HIDE DEF t
<1>5. Shape' /\ OthersKeep(p) /\ txn'[p] = t
  BY <1>1, <1>4, BecomeReplaces DEF Replaced
<1>6. TxnOk(p)'
  BY <1>2, <1>3, <1>4, <1>5 DEF TxnOk, At, Place, ScriptOk, StepsOf
<1>7. DecisionOk(p)' /\ CommitOk(p)'
  BY <1>4, <1>5 DEF DecisionOk, CommitOk, Deciding, Inner, At
<1>8. ReserveOk(p)'
  BY <1>3, <1>4, <1>5 DEF ReserveOk, ScriptOk
<1>9. ChildOk(p)'
  BY <1>3, <1>4, <1>5 DEF ChildOk, ChildFresh, ChildMade, Creates
<1>10. GovernOk(p)'
  BY <1>4, <1>5 DEF GovernOk, Fresh, At
<1>11. QED
  BY <1>1, <1>4, <1>5, <1>6, <1>7, <1>8, <1>9, <1>10, QuietStep DEF ProcOk

LEMMA CompleteOk ==
    ASSUME IInv, NEW p \in Procs, Complete(p)
    PROVE  IInv'
<1>1. /\ At(p, "next") /\ txn[p].script = <<>> /\ ~At(p, "idle") /\ Shape /\ ProcOk(p)
      /\ UNCHANGED <<access, work>> /\ UNCHANGED <<spaces, actor, commands>>
      /\ LocksGrow(p, "share")
  BY NoLockGrows DEF Complete, At, IInv, access, work
<1>2. Invalid(p) \/ (txn[p].scope = Place(p) /\ Step(p, "commit"))
  BY DEF Complete, InScope, Place
<1>3. CASE Invalid(p)
  BY <1>1, <1>3, StopOk DEF Invalid
<1>4. CASE txn[p].scope = Place(p) /\ Step(p, "commit")
  <2>1. /\ Shape' /\ OthersKeep(p) /\ txn'[p].pc = "commit"
        /\ \A x \in {"kind", "key", "script", "scope", "child", "rows", "replay"} :
              txn'[p][x] = txn[p][x]
    BY <1>1, <1>4, StepReplaces DEF Fields
  <2>2. Place(p)' = Place(p)
    BY <2>1 DEF Place
  <2>3. TxnOk(p)' /\ CommitOk(p)'
    BY <1>1, <1>4, <2>1, <2>2 DEF ProcOk, TxnOk, CommitOk, At
  <2>4. DecisionOk(p)'
    BY <2>1 DEF DecisionOk, Deciding, Inner
  <2>5. /\ Active(p)' => Active(p)
        /\ \A row, m : <<p, row, m>> \in locks => <<p, row, m>> \in locks'
    BY <1>1, <2>1 DEF Active, At, LocksGrow
  <2>6. ReserveOk(p)'
    BY <1>1, <2>1, <2>5 DEF ProcOk, ReserveOk, Reserved
  <2>7. ChildFresh(p)'
    BY <1>1, <2>1, ChildStaysFresh DEF ProcOk, ChildOk
  <2>8. ChildOk(p)'
    BY <1>1, <2>1, <2>5, <2>7 DEF ProcOk, ChildOk, ChildMade
  <2>9. GovernOk(p)'
    <3>1. SUFFICES ASSUME Active(p)', txn[p].kind \in Creating PROVE Governed(p)'
      BY <2>1 DEF GovernOk
    <3>2. ~Fresh(p)
      BY <1>1, <3>1, ScriptsAreOk DEF Fresh, GovernedBy, ProcOk, TxnOk
    <3>3. Governed(p)
      BY <1>1, <2>5, <3>1, <3>2 DEF ProcOk, GovernOk
    <3>4. Holds(p)' /\ (Fits(p) => Fits(p)') /\ (Permitted(p) => Permitted(p)')
      BY <1>1, <2>2, <2>5, <3>3 DEF Governed, Holds, Fits, Permitted, Live
    <3>5. ~Scoping(p) /\ ~Permitting(p)
      BY <1>1 DEF Scoping, Permitting, At, Deciding, Inner, Ahead
    <3>6. QED
      BY <3>3, <3>4, <3>5 DEF Governed
  <2>10. QED
    BY <1>1, <2>1, <2>3, <2>4, <2>6, <2>8, <2>9, QuietStep DEF ProcOk
<1>5. QED
  BY <1>2, <1>3, <1>4

LEMMA FinishLeavesIdle ==
    ASSUME Shape, NEW p \in Procs, Finish(p)
    PROVE  /\ Shape' /\ OthersKeep(p) /\ txn'[p].child = None /\ ProcOk(p)'
<1> DEFINE t == [Idle EXCEPT !.runs = txn[p].runs]
<1>1. DOMAIN t = Fields /\ t.pc = "idle" /\ t.child = None
  BY DEF Idle, Fields
<1>2. Become(p, t)
  BY DEF Finish, Become
<1> HIDE DEF t
<1>3. Shape' /\ OthersKeep(p) /\ txn'[p] = t
  BY <1>1, <1>2, BecomeReplaces DEF Replaced
<1>4. TxnOk(p)' /\ CommitOk(p)' /\ ~Active(p)'
  BY <1>1, <1>3 DEF TxnOk, CommitOk, Active, At
<1>5. DecisionOk(p)'
  BY <1>1, <1>3 DEF DecisionOk, Deciding, Inner
<1>6. ReserveOk(p)' /\ ChildOk(p)' /\ GovernOk(p)'
  BY <1>1, <1>3, <1>4 DEF ReserveOk, ChildOk, ChildFresh, GovernOk
<1>7. QED
  BY <1>1, <1>3, <1>4, <1>5, <1>6 DEF ProcOk

LEMMA RollbackOk ==
    ASSUME IInv, NEW p \in Procs, Rollback(p)
    PROVE  IInv'
<1>1. /\ Shape /\ Finish(p) /\ Release(p) /\ UNCHANGED <<access, work>>
      /\ UNCHANGED <<spaces, actor, commands, cast, effects>> /\ LocksExclusive
  BY DEF Rollback, IInv, access, work
<1>2. Shape' /\ OthersKeep(p) /\ txn'[p].child = None /\ ProcOk(p)'
  BY <1>1, FinishLeavesIdle
<1>3. LocksExclusive' /\ \A l \in locks : l[1] # p => l \in locks'
  BY <1>1, ReleaseKeepsExclusive
<1>4. TablesOk' /\ ChildSpacesAreComplete'
  BY <1>1 DEF IInv, TablesOk, ChildSpacesAreComplete
<1>5. ASSUME NEW q \in Procs, q # p PROVE ProcOk(q)'
  BY <1>1, <1>2, <1>3, <1>5, OthersUndisturbed, UndisturbedKeeps DEF IInv
<1>6. QED
  BY <1>2, <1>3, <1>4, <1>5 DEF IInv

(* What a transaction that commits leaves to the others.                   *)
LEMMA CommitDisturbsNobody ==
    ASSUME IInv, NEW p \in Procs, NEW q \in Procs, q # p, OthersKeep(p),
           txn'[p].child = None, Reserved(p), ChildFresh(p),
           \A l \in locks : l[1] # p => l \in locks', UNCHANGED actor,
           commands' = [commands EXCEPT ![txn[p].key] = txn[p].kind],
           \A s \in Spaces : s # txn[p].child => spaces'[s] = spaces[s],
           ~At(p, "idle")
    PROVE  Undisturbed(q)
<1>1. /\ txn'[q] = txn[q] /\ \A l \in locks : l[1] = q => l \in locks'
  BY DEF OthersKeep
<1>2. ASSUME Reserved(q) PROVE commands'[txn[q].key] = None
  BY <1>2 DEF Reserved, KeyRow, IInv, LocksExclusive, TablesOk
<1>3. ASSUME ChildFresh(q), txn[q].child # None
      PROVE  /\ spaces'[txn[q].child].status = "none"
             /\ \A r \in Procs : r # q => txn'[r].child # txn[q].child
  BY <1>3 DEF ChildFresh, OthersKeep
<1>4. ChildFresh(q) => ChildFresh(q)'
  BY <1>1, <1>3 DEF ChildFresh
<1>5. ASSUME Holds(q)
      PROVE  /\ spaces'[Place(q)].status = "live"
             /\ spaces'[Place(q)].class = spaces[Place(q)].class
  BY <1>5, AccessAssumption, WorkAssumption DEF Holds, Live, ChildFresh, Place, ReservationSpace
<1>6. QED
  BY <1>1, <1>2, <1>4, <1>5 DEF Undisturbed, Permitted

LEMMA CommitOkStep ==
    ASSUME IInv, NEW p \in Procs, Commit(p)
    PROVE  IInv'
<1> DEFINE key == txn[p].key
           kind == txn[p].kind
           child == txn[p].child
           rows == txn[p].rows
           place == PlaceOf(txn[p])
           new == {<<key, table, place>> : table \in rows}
<1>1. /\ Shape /\ Finish(p) /\ Release(p) /\ LocksExclusive /\ ProcOk(p) /\ TablesOk
      /\ At(p, "commit") /\ ~At(p, "idle") /\ UNCHANGED <<actor, cast>>
  BY DEF Commit, IInv, At
<1>2. Shape' /\ OthersKeep(p) /\ txn'[p].child = None /\ ProcOk(p)'
  BY <1>1, FinishLeavesIdle
<1>3. LocksExclusive' /\ \A l \in locks : l[1] # p => l \in locks'
  BY <1>1, ReleaseKeepsExclusive
<1>4. CASE txn[p].replay
  <2>1. UNCHANGED <<spaces, commands, effects>>
    BY <1>4 DEF Commit
  <2>2. TablesOk' /\ ChildSpacesAreComplete'
    BY <1>1, <2>1 DEF IInv, TablesOk, ChildSpacesAreComplete
  <2>3. ASSUME NEW q \in Procs, q # p PROVE ProcOk(q)'
    <3>1. Undisturbed(q)
      BY <1>1, <1>2, <1>3, <2>1, <2>3, OthersUndisturbed
    <3>2. QED
      BY <3>1, UndisturbedKeeps DEF IInv
  <2>4. QED
    BY <1>2, <1>3, <2>2, <2>3 DEF IInv
<1>5. CASE ~txn[p].replay
  <2>1. /\ commands' = [commands EXCEPT ![key] = kind]
        /\ effects' = effects \cup new
        /\ spaces' = IF child = None THEN spaces ELSE [spaces EXCEPT ![child] = NewSpace(txn[p])]
    BY <1>5 DEF Commit
  <2>2. /\ txn[p].script = <<>> /\ txn[p].scope = Place(p) /\ Active(p)
        /\ kind \in Kinds /\ key \in Keys
    BY <1>1, <1>5 DEF ProcOk, CommitOk, TxnOk, Active, At
  <2>3. \A do : ~Ahead(txn[p].script, do)
    BY <2>2 DEF Ahead
  <2>4. Reserved(p) /\ commands[key] = None
    BY <1>1, <2>2, <2>3 DEF ProcOk, ReserveOk, Reserved
  <2>5. /\ ChildFresh(p)
        /\ child # None => child \in Spaces /\ spaces[child].status = "none"
    BY <1>1 DEF ProcOk, ChildOk, ChildFresh
  <2>6. child # None => kind \in Creations /\ rows = Complement(kind)
    BY <1>1, <2>2, <2>3 DEF ProcOk, TxnOk, ChildOk, ChildMade
  <2>7. Place(p) \in Spaces /\ cast.spaces[Place(p)].status # "none"
        /\ spaces[Place(p)].status # "none"
    BY <1>1, AccessAssumption, WorkAssumption, CastAssumption
       DEF Place, ReservationSpace, TablesOk
  <2>8. place = IF child = None THEN Place(p) ELSE child
    BY <2>2 DEF PlaceOf
  <2>9. /\ NewSpace(txn[p]) \in SpaceRecords /\ NewSpace(txn[p]).status = "live"
    BY <1>1, <2>2, <2>7, AccessAssumption DEF TablesOk, SpaceRecords, NewSpace
  <2> HIDE DEF place
  <2>10. /\ spaces' \in [Spaces -> SpaceRecords] /\ place \in Spaces
         /\ \A s \in Spaces : s # child => spaces'[s] = spaces[s]
         /\ \A s \in Spaces : spaces[s].status # "none" => spaces'[s].status # "none"
         /\ spaces'[place].status # "none"
         /\ \A s \in Spaces : spaces'[s].status # "none" /\ s # child => spaces[s].status # "none"
    <3>1. spaces \in [Spaces -> SpaceRecords] /\ None \notin Spaces
      BY <1>1, AccessAssumption DEF TablesOk
    <3>2. CASE child = None
      BY <2>1, <2>7, <2>8, <3>1, <3>2
    <3>3. CASE child # None
      BY <2>1, <2>5, <2>8, <2>9, <3>1, <3>3
    <3>4. QED
      BY <3>2, <3>3
  <2>11. /\ commands' \in [Keys -> Kinds \cup {None}] /\ commands'[key] = kind /\ kind # None
         /\ \A k \in Keys : k # key => commands'[k] = commands[k]
    BY <1>1, <2>1, <2>2, CastAssumption DEF TablesOk
  <2>12. \A e \in new : e = <<e[1], e[2], e[3]>> /\ e[1] = key /\ e[3] = place
    OBVIOUS
  <2> HIDE DEF new
  <2>13. TablesOk'
    <3>1. ASSUME NEW e \in effects'
          PROVE  /\ e = <<e[1], e[2], e[3]>> /\ e[1] \in Keys /\ e[3] \in Spaces
                 /\ commands'[e[1]] # None /\ spaces'[e[3]].status # "none"
      <4>1. CASE e \in effects
        BY <1>1, <2>4, <2>10, <2>11, <4>1 DEF TablesOk
      <4>2. CASE e \in new
        BY <2>2, <2>10, <2>11, <2>12, <4>2
      <4>3. QED
        BY <2>1, <3>1, <4>1, <4>2
    <3>2. \A s \in Spaces : cast.spaces[s].status # "none" => spaces'[s].status # "none"
      BY <1>1, <2>10 DEF TablesOk
    <3>3. QED
      BY <1>1, <2>10, <2>11, <3>1, <3>2 DEF TablesOk
  <2>14. ChildSpacesAreComplete'
    <3> DEFINE Of(k, s, E) == {e \in E : e[3] = s \/ e[1] = k}
               Whole(k, kd, s) == {<<k, table, s>> : table \in {"space", "grant", kd} \cup Messages}
    <3>1. ASSUME NEW s \in Spaces, cast.spaces[s].status = "none", spaces'[s].status # "none"
          PROVE  \E k \in Keys : commands'[k] \in Creations /\
                                 Of(k, s, effects') = Whole(k, commands'[k], s)
      <4>1. CASE s = child
        <5>1. child # None /\ place = child
          BY <2>8, <4>1, AccessAssumption DEF place
        <5>2. Of(key, s, effects) = {}
          BY <1>1, <2>4, <2>5, <4>1, <5>1 DEF TablesOk
        <5>3. Of(key, s, new) = new
          BY <2>12
        <5>4. Of(key, s, effects') = new
          BY <2>1, <5>2, <5>3
        <5>5. rows = {"space", "grant", kind} \cup Messages
          BY <2>6, <5>1 DEF Complement
        <5>6. new = Whole(key, kind, s)
          BY <4>1, <5>1, <5>5 DEF new
        <5>7. QED
          BY <2>2, <2>6, <2>11, <5>1, <5>4, <5>6
      <4>2. CASE s # child
        <5>1. spaces[s].status # "none"
          BY <2>10, <3>1, <4>2
        <5>2. PICK k \in Keys : /\ commands[k] \in Creations
                                /\ Of(k, s, effects) = Whole(k, commands[k], s)
          BY <3>1, <5>1 DEF IInv, ChildSpacesAreComplete
        <5>3. commands[key] \notin Creations
          BY <2>4, CastAssumption DEF Creations, Kinds, Script
        <5>4. k # key /\ commands'[k] = commands[k]
          BY <2>11, <5>2, <5>3
        <5>5. place # s
          BY <2>7, <2>8, <3>1, <4>2 DEF place
        <5>6. Of(k, s, new) = {}
          BY <2>12, <5>4, <5>5
        <5>7. Of(k, s, effects') = Of(k, s, effects)
          BY <2>1, <5>6
        <5>8. QED
          BY <5>2, <5>4, <5>7
      <4>3. QED
        BY <4>1, <4>2
    <3>2. QED
      BY <1>1, <3>1 DEF ChildSpacesAreComplete
  <2>15. ASSUME NEW q \in Procs, q # p PROVE ProcOk(q)'
    <3>1. Undisturbed(q)
      BY <1>1, <1>2, <1>3, <2>1, <2>4, <2>5, <2>10, <2>15, CommitDisturbsNobody
    <3>2. QED
      BY <3>1, UndisturbedKeeps DEF IInv
  <2>16. QED
    BY <1>2, <1>3, <2>13, <2>14, <2>15 DEF IInv
<1>6. QED
  BY <1>4, <1>5

----------------------------------------------------------------------------
(* Administrators.                                                         *)

(* Rows that a transaction relies on are locked, so they do not change.    *)
LEMMA AccessChangeOk ==
    ASSUME IInv, UNCHANGED <<locks, txn, work>>,
           spaces' \in [Spaces -> SpaceRecords],
           \A s \in Spaces : spaces'[s].status = "none" <=> spaces[s].status = "none",
           \A l \in locks, s \in Spaces : l[2] = <<"space", s>> => spaces'[s] = spaces[s],
           actor' \in [role : {"member", "admin"}, active : BOOLEAN, policy : BOOLEAN],
           \A l \in locks : l[2] = Policy => actor'.policy = actor.policy
    PROVE  IInv'
<1>1. UNCHANGED <<cast, commands, effects, txn, locks>>
  BY DEF work
<1>2. Shape' /\ LocksExclusive'
  BY <1>1 DEF IInv, Shape, LocksExclusive
<1>3. TablesOk'
  BY <1>1 DEF IInv, TablesOk
<1>4. ChildSpacesAreComplete'
  BY <1>1 DEF IInv, ChildSpacesAreComplete
<1>5. ASSUME NEW q \in Procs PROVE ProcOk(q)'
  <2>1. Place(q) \in Spaces
    BY AccessAssumption, WorkAssumption DEF Place, ReservationSpace
  <2>2. Holds(q) => spaces'[Place(q)] = spaces[Place(q)] /\ spaces[Place(q)].status = "live"
    BY <2>1 DEF Holds, Live
  <2>3. Permitted(q) => actor'.policy
    BY DEF Permitted
  <2>4. ChildFresh(q) => ChildFresh(q)'
    BY <1>1 DEF ChildFresh
  <2>5. Undisturbed(q)
    BY <1>1, <2>2, <2>3, <2>4 DEF Undisturbed, Reserved
  <2>6. QED
    BY <2>5, UndisturbedKeeps DEF IInv
<1>6. QED
  BY <1>2, <1>3, <1>4, <1>5 DEF IInv

LEMMA SpaceChangeOk ==
    ASSUME IInv, UNCHANGED work, NEW s \in Spaces, Live(s), Change(<<"space", s>>),
           NEW STATE r, r \in SpaceRecords, r.status # "none",
           spaces' = [spaces EXCEPT ![s] = r], UNCHANGED actor
    PROVE  IInv'
BY AccessChangeOk DEF Change, IInv, TablesOk, Live

LEMMA AdministerSpaceOk ==
    ASSUME IInv, UNCHANGED work, NEW s \in Spaces, NEW t \in Spaces,
           Archive(s) \/ Enclose(s) \/ Classify(s) \/ Move(s, t)
    PROVE  IInv'
<1>1. spaces \in [Spaces -> SpaceRecords]
  BY DEF IInv, TablesOk
<1>2. ASSUME NEW field \in {"status", "mode", "class", "parent"}, NEW STATE value,
             SetSpace(s, field, value),
             NEW STATE r, r = [spaces[s] EXCEPT ![field] = value],
             r \in SpaceRecords, r.status # "none"
      PROVE  IInv'
  BY <1>1, <1>2, SpaceChangeOk DEF SetSpace
<1>3. Live(s) => spaces[s] \in SpaceRecords /\ spaces[s].status = "live"
  BY <1>1 DEF Live
<1>4. CASE Archive(s)
  <2> DEFINE r == [spaces[s] EXCEPT !["status"] = "archived"]
  <2>1. SetSpace(s, "status", "archived") /\ Live(s)
    BY <1>4 DEF Archive, SetSpace
  <2>2. r \in SpaceRecords /\ r.status = "archived"
    BY <1>3, <2>1 DEF SpaceRecords
  <2>3. QED
    BY <1>2, <2>1, <2>2
<1>5. CASE Enclose(s)
  <2> DEFINE r == [spaces[s] EXCEPT !["mode"] = "restricted"]
  <2>1. SetSpace(s, "mode", "restricted") /\ Live(s)
    BY <1>5 DEF Enclose, SetSpace
  <2>2. r \in SpaceRecords /\ r.status = "live"
    BY <1>3, <2>1 DEF SpaceRecords
  <2>3. QED
    BY <1>2, <2>1, <2>2
<1>6. CASE Classify(s)
  <2> DEFINE r == [spaces[s] EXCEPT !["class"] = Ceiling + 1]
  <2>1. SetSpace(s, "class", Ceiling + 1) /\ Live(s)
    BY <1>6 DEF Classify, SetSpace
  <2>2. Ceiling + 1 \in 0 .. Ceiling + 1
    BY AccessAssumption
  <2>3. r \in SpaceRecords /\ r.status = "live"
    BY <1>3, <2>1, <2>2 DEF SpaceRecords
  <2>4. QED
    BY <1>2, <2>1, <2>3
<1>7. CASE Move(s, t)
  <2> DEFINE r == [spaces[s] EXCEPT !["parent"] = t]
  <2>1. SetSpace(s, "parent", t) /\ Live(s)
    BY <1>7 DEF Move, SetSpace
  <2>2. r \in SpaceRecords /\ r.status = "live"
    BY <1>3, <2>1 DEF SpaceRecords
  <2>3. QED
    BY <1>2, <2>1, <2>2
<1>8. QED
  BY <1>4, <1>5, <1>6, <1>7

LEMMA AdministerActorOk ==
    ASSUME IInv, UNCHANGED work,
           Suspend \/ RetirePolicy \/ \E role \in {"member", "admin"} : Promote(role)
    PROVE  IInv'
BY AccessChangeOk DEF IInv, TablesOk, Suspend, RetirePolicy, Promote, SetActor, Change

LEMMA AdministerOk ==
    ASSUME IInv, Administer, UNCHANGED work
    PROVE  IInv'
<1>1. CASE \E s \in Spaces \ {Root} :
              Archive(s) \/ Enclose(s) \/ Classify(s) \/ \E t \in Spaces : Move(s, t)
  BY <1>1, AdministerSpaceOk, AccessAssumption
<1>2. CASE \E g \in Grants :
              Revoke(g) \/ \E s \in Spaces, r \in Relations : Grant(g, s, r)
  BY <1>2, AccessChangeOk DEF Revoke, Grant, SetGrant, Change, IInv, TablesOk
<1>3. CASE Suspend \/ RetirePolicy \/ \E role \in {"member", "admin"} : Promote(role)
  BY <1>3, AdministerActorOk
<1>4. QED
  BY <1>1, <1>2, <1>3 DEF Administer

LEMMA StutterOk == IInv /\ UNCHANGED vars => IInv'
BY AccessChangeOk DEF vars, access, IInv, TablesOk

----------------------------------------------------------------------------
(* The theorems.                                                           *)

LEMMA NextOk == IInv /\ [Next]_vars => IInv'
<1> SUFFICES ASSUME IInv, [Next]_vars PROVE IInv'
  OBVIOUS
<1>1. ASSUME NEW p \in Procs, NEW request \in cast.requests[p], Begin(p, request)
      PROVE  IInv'
  BY <1>1, BeginOk
<1>2. ASSUME NEW p \in Procs, Serve(p)
      PROVE  IInv'
  <2>1. CASE LockRow(p) \/ StartDecisions(p) \/ StartAuthorityBatch(p) \/ Decision(p)
    BY <2>1, LockRowOk, StartDecisionsOk, StartAuthorityBatchOk, DecisionOkStep DEF Decision
  <2>2. CASE Reserve(p) \/ CheckVersion(p) \/ WriteEnd(p) \/ WriteRows(p)
    BY <2>2, ReserveOkStep, CheckVersionOk, WriteEndOk, WriteRowsOk
  <2>3. CASE OpenChild(p) \/ FillChild(p) \/ CloseChild(p)
    BY <2>3, OpenChildOk, FillChildOk, CloseChildOk
  <2>4. CASE Complete(p) \/ Commit(p)
    BY <2>4, CompleteOk, CommitOkStep
  <2>5. QED
    BY <1>2, <2>1, <2>2, <2>3, <2>4 DEF Serve
<1>3. ASSUME NEW p \in Procs, Refused(p) \/ Lost(p)
      PROVE  IInv'
  BY <1>3, RollbackOk DEF Refused, Lost
<1>4. CASE Administer /\ UNCHANGED work
  BY <1>4, AdministerOk
<1>5. CASE UNCHANGED vars
  BY <1>5, StutterOk
<1>6. QED
  BY <1>1, <1>2, <1>3, <1>4, <1>5 DEF Next

(* The invariant holds for every behaviour of the account commands: what a *)
(* command has locked, decided, reserved and made so far is still so.      *)
THEOREM AccountCommandsInvariance == Spec => []IInv
<1>1. Init => IInv
  BY InitOk
<1>2. IInv /\ [Next]_vars => IInv'
  BY NextOk
<1>3. QED
  BY <1>1, <1>2, PTL DEF Spec

(* A creation commits in a Space that is still live, within the actor's    *)
(* class and under the active policy version: the update lock its first    *)
(* statement takes on the row of the Space, the check of the class under   *)
(* it and the share lock on the policy version last until then, although   *)
(* the actor and its grants are not locked.                                *)
THEOREM GoverningSpaceStands == Spec => []GoverningSpaceHolds
<1>1. IInv => GoverningSpaceHolds
  <2> SUFFICES ASSUME IInv, NEW p \in Procs, Writes(p), txn[p].kind \in Creating
               PROVE  Live(Place(p)) /\ spaces[Place(p)].class <= Ceiling /\ actor.policy
    BY DEF GoverningSpaceHolds, Place
  <2>1. At(p, "commit") /\ Active(p) /\ ProcOk(p)
    BY DEF IInv, Writes, Active, At
  <2>2. ~Fresh(p)
    BY <2>1 DEF Fresh, At
  <2>3. Governed(p) /\ txn[p].script = <<>>
    BY <2>1, <2>2 DEF ProcOk, GovernOk, CommitOk, Active
  <2>4. ~Scoping(p) /\ ~Permitting(p)
    BY <2>1, <2>3 DEF Scoping, Permitting, Ahead, At, Deciding, Inner
  <2>5. QED
    BY <2>3, <2>4 DEF Governed, Holds, Fits, Permitted
<1>2. QED
  BY <1>1, AccountCommandsInvariance, PTL

(* Whoever sees a Space that a command has made sees all that belongs to   *)
(* it, made by the one command that completed under its key, which has     *)
(* made nothing else.                                                      *)
THEOREM ChildSpacesStandComplete == Spec => []ChildSpacesAreComplete
<1>1. IInv => ChildSpacesAreComplete
  BY DEF IInv
<1>2. QED
  BY <1>1, AccountCommandsInvariance, PTL

----------------------------------------------------------------------------
(* Authority.                                                              *)

(* No live Space is its own ancestor: every set of live Spaces has one     *)
(* whose parent is outside of it. *)
ParentsExist(table) ==
    \A s \in Spaces : table[s].status = "live" /\ table[s].parent # None =>
        table[s].parent \in Spaces /\ table[table[s].parent].status # "none"

Rooted(table) ==
    \A S \in SUBSET Spaces :
        S # {} /\ (\A s \in S : table[s].status = "live") =>
            \E s \in S : table[s].parent \notin S

GrantsOk == grants = [g \in Grants |-> grants[g]]

(* A row that p has locked. *)
HeldBy(p, row) == \E mode : <<p, row, mode>> \in locks

(* The evidence of a decision: the rows that are locked or found.  *)
SpaceEvidence(p) ==
    IF Mode(p) = "batch" THEN txn[p].found.spaces
    ELSE {SpaceRow(s) : s \in {s \in Spaces : Live(s) /\ HeldBy(p, <<"space", s>>)}}

GrantEvidence(p) ==
    IF Mode(p) = "batch" THEN txn[p].found.grants
    ELSE {GrantRow(g) : g \in {g \in Grants : HeldBy(p, <<"grant", g>>)}}

(* What rows E of Spaces and G of grants show. *)
Shown(E, s) == \E r \in E : r[1] = s

GrantOn(G, s) == \E r \in G : r[2].status = "live" /\ r[2].space = s

Contributes(G, s) ==
    \E r \in G : r[2].status = "live" /\ r[2].space = s /\ r[2].relation = "contributor"

Trail(E, path) ==
    /\ path \in Seq(Spaces) /\ path # <<>>
    /\ \A i \in 1 .. Len(path) :
          \E r \in E :
              /\ r[1] = path[i]
              /\ i < Len(path) => r[2].parent = path[i + 1] /\ r[2].mode = "inherit"

TrailTo(E, s, top) ==
    \E path : Trail(E, path) /\ path[1] = s /\ path[Len(path)] = top

Reach(E, G, role, s) ==
    \/ role = "admin" \/ s = Root \/ GrantOn(G, s)
    \/ \E top : TrailTo(E, s, top) /\ GrantOn(G, top)

Item(E, G, role, n) ==
    /\ Shown(E, n[2]) /\ Reach(E, G, role, n[2])
    /\ n[1] = "contribute" => role = "admin" \/ Contributes(G, n[2])
    /\ n[1] = "manage" => role = "admin"

Proven(p, n) == Item(SpaceEvidence(p), GrantEvidence(p), txn[p].role, n)

(* The policy version and the membership are locked. *)
Sure(p) ==
    /\ HeldBy(p, Policy) /\ HeldBy(p, Membership)
    /\ actor.policy /\ actor.active /\ txn[p].role = actor.role

Known(g) == g \in Grants /\ grants[g].status # "none"

(* How far the decision at the head of todo has come. *)
Careful(p) == Mode(p) \in {"locked", "batch"}

HeadOk(p) ==
    LET E == SpaceEvidence(p)
        s == Target(p)
        g == txn[p].grant
        pc == txn[p].pc
        path == txn[p].path IN
    /\ AboutSpaces(txn[p].todo)
    /\ pc \in Inner \ {"target"} => Shown(E, s)
    /\ pc = "direct" =>
          /\ Known(g) /\ grants[g].space = s
          /\ txn[p].other # None => Known(txn[p].other)
    /\ pc \in {"path", "lockPath", "inherited"} => Known(g)
    /\ pc = "lockPath" =>
          /\ Mode(p) = "locked"
          /\ path \in Seq(Spaces) /\ path # <<>> /\ path[Len(path)] = grants[g].space
    /\ pc = "inherited" => TrailTo(E, s, grants[g].space)
    /\ pc \in {"need", "decided"} => Reach(E, GrantEvidence(p), txn[p].role, s)
    /\ pc = "decided" => Proven(p, Head(txn[p].todo))

(* What a batch has found are rows of live Spaces and of grants. *)
FoundOk(p) ==
    /\ \A r \in txn[p].found.spaces : r[1] \in Spaces /\ r[2].status = "live"
    /\ \A r \in txn[p].found.grants : r[1] \in Grants

SpacesHeld(p, rows) ==
    \A r \in rows :
        /\ r[1] \in Spaces /\ r[2].status = "live"
        /\ HeldBy(p, <<"space", r[1]>>) /\ spaces[r[1]] = r[2]

GrantsHeld(p, rows) ==
    \A r \in rows : r[1] \in Grants /\ HeldBy(p, <<"grant", r[1]>>) /\ grants[r[1]] = r[2]

(* The decisions that count. *)
Locking == {"correct", "tombstone", "accept"}

LastTodo(kind) ==
    CASE kind = "correct" -> <<<<"read", Other>>, <<"contribute", Other>>>>
      [] kind = "tombstone" -> <<<<"read", Other>>, <<"manage", Other>>>>
      [] kind = "accept" -> <<<<"read", Other>>, <<"read", Other>>>>
      [] OTHER -> EndRequests

LastDo(kind) == IF kind = "end" THEN "batch" ELSE "decide"

(* The last decisions of the script are begun. *)
Last(p) == ~Ahead(txn[p].script, LastDo(txn[p].kind))

EndOf(L, rest) ==
    /\ Len(rest) <= Len(L)
    /\ \A j \in 1 .. Len(rest) : rest[j] = L[Len(L) - Len(rest) + j]

Passed(p) ==
    LET L == LastTodo(txn[p].kind)
        todo == txn[p].todo IN
    /\ todo \in Seq(Powers \X Spaces) /\ EndOf(L, todo)
    /\ txn[p].pc \in Deciding <=> todo # <<>>
    /\ \A i \in 1 .. Len(L) - Len(todo) : Proven(p, L[i])

Fit(s) == spaces[s].class <= Ceiling

LockedOk(p) ==
    /\ Mode(p) = "locked" /\ Passed(p)
    /\ Sure(p) \/ (At(p, "actor") /\ Len(txn[p].todo) = 2)
    /\ \/ Len(txn[p].todo) = 2
       \/ Len(txn[p].todo) = 1 /\ txn[p].pc \in {"actor", "scope"}
       \/ Fit(Other)

Unscoped(p, n) ==
    \E i \in DOMAIN txn[p].todo : txn[p].todo[i] = n /\ (i > 1 \/ At(p, "scope"))

First(p) ==
    \/ txn[p].pc \in Deciding /\ txn[p].after = "lockActor"
    \/ txn[p].pc \in {"lockActor", "lockSpaces", "lockGrants"}

BatchOk(p) ==
    /\ Mode(p) = "batch" /\ txn[p].requests = EndRequests
    /\ ~At(p, "actor")
    /\ FoundOk(p)
    /\ txn[p].pc \in {"lockSpaces", "lockGrants"} => Sure(p)
    /\ At(p, "lockGrants") => SpacesHeld(p, txn[p].found.spaces)
    /\ ~First(p) =>
          /\ txn[p].pc \in Deciding => txn[p].after = "compare"
          /\ Sure(p) /\ Passed(p)
          /\ SpacesHeld(p, txn[p].expected.spaces) /\ GrantsHeld(p, txn[p].expected.grants)
          /\ \A i \in DOMAIN EndRequests :
                LET n == EndRequests[i] IN
                n[1] # "enter" =>
                    Unscoped(p, n) \/ Fit(n[2]) \/ ~Shown(txn[p].expected.spaces, n[2])
          /\ txn[p].pc \notin Deciding \cup Batching => txn[p].found = txn[p].expected

AuthOk(p) ==
    Active(p) /\ txn[p].kind \in Guarded =>
        /\ EndOf(Script[txn[p].kind], txn[p].script)
        /\ Careful(p) /\ txn[p].pc \in Deciding => HeadOk(p)
        /\ Mode(p) = "locked" /\ txn[p].pc \in Inner \cup {"scope"} => Sure(p)
        /\ txn[p].kind \in Locking /\ txn[p].pc \in Deciding => Mode(p) = "locked"
        /\ txn[p].kind \in Locking \/ ~Last(p) =>
              txn[p].pc \notin Batching /\ (txn[p].pc \in Deciding => txn[p].after = "next")
        /\ Last(p) => IF txn[p].kind \in Locking THEN LockedOk(p) ELSE BatchOk(p)

AInv ==
    /\ ParentsExist(spaces) /\ Rooted(spaces) /\ GrantsOk
    /\ \A p \in Procs : AuthOk(p)

----------------------------------------------------------------------------
(* The ancestors of a Space.                                               *)

(* A way up through live Spaces, and one that cannot go on. *)
Climb(path) ==
    /\ path \in Seq(Spaces) /\ path # <<>>
    /\ \A i \in 1 .. Len(path) : Live(path[i])
    /\ \A i \in 1 .. Len(path) - 1 : path[i + 1] = spaces[path[i]].parent

Whole(path) ==
    /\ Climb(path)
    /\ spaces[path[Len(path)]].parent # None => ~Live(spaces[path[Len(path)]].parent)

LEMMA LeastOf ==
    ASSUME NEW S, S \subseteq Nat, S # {}
    PROVE  \E m \in S : \A k \in S : ~(k < m)
<1> DEFINE R == {ss \in Nat \X Nat : ss[1] < ss[2]}
<1>1. IsWellFoundedOn(R, Nat)
  BY NatLessThanWellFounded DEF OpToRel
<1>2. PICK m \in S : \A k \in S : ~(<<k, m>> \in R)
  BY <1>1, WFMin
<1>3. \A k \in S : ~(k < m)
  BY <1>2
<1>4. QED
  BY <1>3

(* There is one way up from a Space, so every other is part of it.         *)
LEMMA ClimbIsPrefix ==
    ASSUME NEW c, NEW d, Climb(c), Whole(d), c[1] = d[1]
    PROVE  Len(c) <= Len(d) /\ \A i \in 1 .. Len(c) : c[i] = d[i]
<1> DEFINE Bad == {i \in 1 .. Len(c) : i > Len(d) \/ c[i] # d[i]}
<1>1. /\ Len(c) \in Nat \ {0} /\ Len(d) \in Nat \ {0}
      /\ \A i \in 1 .. Len(c) : c[i] \in Spaces /\ Live(c[i])
      /\ \A i \in 1 .. Len(c) - 1 : c[i + 1] = spaces[c[i]].parent
      /\ \A i \in 1 .. Len(d) - 1 : d[i + 1] = spaces[d[i]].parent
      /\ spaces[d[Len(d)]].parent # None => ~Live(spaces[d[Len(d)]].parent)
  BY DEF Climb, Whole
<1>2. ASSUME Bad # {} PROVE FALSE
  <2>1. Bad \subseteq Nat
    BY <1>1
  <2>2. PICK m \in Bad : \A k \in Bad : ~(k < m)
    BY <1>2, <2>1, LeastOf, Zenon
  <2>3. m \in 1 .. Len(c) /\ m # 1
    BY <1>1, <2>2
  <2>4. m - 1 \in 1 .. Len(c) - 1 /\ m - 1 \notin Bad /\ (m - 1) + 1 = m
    BY <1>1, <2>2, <2>3
  <2>5. m - 1 <= Len(d) /\ c[m - 1] = d[m - 1]
    BY <1>1, <2>4
  <2>6. c[m] = spaces[d[m - 1]].parent /\ c[m] \in Spaces /\ Live(c[m])
    BY <1>1, <2>3, <2>4, <2>5
  <2>7. c[m] # None
    BY <2>6, AccessAssumption
  <2>8. m - 1 # Len(d)
    BY <1>1, <2>6, <2>7
  <2>9. m - 1 \in 1 .. Len(d) - 1
    BY <1>1, <2>4, <2>5, <2>8
  <2>10. d[m] = spaces[d[m - 1]].parent
    BY <1>1, <2>4, <2>9
  <2>11. QED
    BY <1>1, <2>2, <2>6, <2>9, <2>10
<1>3. \A i \in 1 .. Len(c) : ~(i > Len(d)) /\ c[i] = d[i]
  BY <1>2
<1>4. Len(c) <= Len(d)
  BY <1>1, <1>3
<1>5. QED
  BY <1>3, <1>4

LEMMA WholeIsUnique ==
    ASSUME NEW c, NEW d, Whole(c), Whole(d), c[1] = d[1]
    PROVE  c = d
BY ClimbIsPrefix, SeqEqual DEF Whole, Climb

(* The Space and then the way up from its parent.                          *)
LEMMA ConsIsSeq ==
    ASSUME NEW S, NEW s \in S, NEW c \in Seq(S)
    PROVE  /\ <<s>> \o c \in Seq(S) /\ Len(<<s>> \o c) = 1 + Len(c)
           /\ (<<s>> \o c)[1] = s
           /\ \A i \in 1 .. Len(c) : (<<s>> \o c)[i + 1] = c[i]
           /\ <<s>> \o c # <<>>
<1> DEFINE one == <<s>>
<1>1. one \in Seq(S) /\ Len(one) = 1 /\ one[1] = s
  OBVIOUS
<1> HIDE DEF one
<1>2. /\ one \o c \in Seq(S) /\ Len(one \o c) = 1 + Len(c)
      /\ \A i \in 1 .. 1 + Len(c) : (one \o c)[i] = IF i <= 1 THEN one[i] ELSE c[i - 1]
  <2>1. /\ one \o c \in Seq(S) /\ Len(one \o c) = Len(one) + Len(c)
        /\ \A i \in 1 .. Len(one) + Len(c) :
              (one \o c)[i] = IF i <= Len(one) THEN one[i] ELSE c[i - Len(one)]
    BY <1>1, ConcatProperties
  <2>2. QED
    BY <1>1, <2>1
<1>3. Len(c) \in Nat
  OBVIOUS
<1>4. (one \o c)[1] = s /\ \A i \in 1 .. Len(c) : (one \o c)[i + 1] = c[i]
  BY <1>1, <1>2, <1>3
<1>5. one \o c # <<>>
  BY <1>2, <1>3
<1>6. QED
  BY <1>2, <1>4, <1>5 DEF one

LEMMA ConsIsWhole ==
    ASSUME NEW s \in Spaces, Live(s), NEW c, Whole(c), spaces[s].parent = c[1]
    PROVE  Whole(<<s>> \o c) /\ (<<s>> \o c)[1] = s
<1> DEFINE d == <<s>> \o c
<1>1. c \in Seq(Spaces) /\ Len(c) \in Nat \ {0}
  BY DEF Whole, Climb
<1>2. /\ d \in Seq(Spaces) /\ d # <<>> /\ Len(d) = 1 + Len(c) /\ d[1] = s
      /\ \A i \in 1 .. Len(c) : d[i + 1] = c[i]
  BY <1>1, ConsIsSeq
<1> HIDE DEF d
<1>3. \A i \in 1 .. Len(d) : i = 1 \/ (i - 1 \in 1 .. Len(c) /\ d[i] = c[i - 1])
  <2> TAKE i \in 1 .. Len(d)
  <2>1. i = 1 \/ (i - 1 \in 1 .. Len(c) /\ (i - 1) + 1 = i)
    BY <1>1, <1>2
  <2>2. QED
    BY <1>2, <2>1
<1>4. \A i \in 1 .. Len(d) : Live(d[i])
  BY <1>2, <1>3 DEF Whole, Climb
<1>5. \A i \in 1 .. Len(d) - 1 : d[i + 1] = spaces[d[i]].parent
  <2> TAKE i \in 1 .. Len(d) - 1
  <2>1. i \in 1 .. Len(c) /\ d[i + 1] = c[i]
    BY <1>1, <1>2
  <2>2. CASE i = 1
    BY <1>2, <2>1, <2>2
  <2>3. CASE i # 1
    BY <1>1, <1>2, <1>3, <2>1, <2>3 DEF Whole, Climb
  <2>4. QED
    BY <2>2, <2>3
<1>6. d[Len(d)] = c[Len(c)]
  BY <1>1, <1>2
<1>7. Whole(d)
  BY <1>2, <1>4, <1>5, <1>6 DEF Whole, Climb
<1>8. QED
  BY <1>2, <1>7 DEF d

LEMMA OneIsWhole ==
    ASSUME NEW s \in Spaces, Live(s), spaces[s].parent # None => ~Live(spaces[s].parent)
    PROVE  Whole(<<s>>) /\ <<s>>[1] = s
BY DEF Whole, Climb

Placed == \A s \in Spaces : spaces[s].parent \in Spaces \cup {None}

LEMMA WholeExists ==
    ASSUME Placed, Rooted(spaces), NEW s \in Spaces, Live(s)
    PROVE  \E c : Whole(c) /\ c[1] = s
<1> DEFINE S == {x \in Spaces : Live(x) /\ ~\E c : Whole(c) /\ c[1] = x}
<1>1. SUFFICES ASSUME S # {} PROVE FALSE
  OBVIOUS
<1>2. S \in SUBSET Spaces /\ \A x \in S : spaces[x].status = "live"
  BY DEF Live
<1>3. PICK x \in S : spaces[x].parent \notin S
  BY <1>1, <1>2 DEF Rooted
<1>4. x \in Spaces /\ Live(x) /\ ~\E c : Whole(c) /\ c[1] = x
  OBVIOUS
<1>5. CASE spaces[x].parent # None => ~Live(spaces[x].parent)
  BY <1>4, <1>5, OneIsWhole
<1>6. CASE spaces[x].parent # None /\ Live(spaces[x].parent)
  BY <1>3, <1>4, <1>6, ConsIsWhole DEF Placed
<1>7. QED
  BY <1>5, <1>6

(* What the definition of Chain says of a function.                        *)
Unfolded(f) ==
    f = [s \in Spaces |->
            IF ~Live(s) THEN <<>>
            ELSE IF spaces[s].parent = None THEN <<s>>
                 ELSE <<s>> \o f[spaces[s].parent]]

WholeFrom(s) == CHOOSE c : Whole(c) /\ c[1] = s

LEMMA WholeFromIs ==
    ASSUME Placed, Rooted(spaces), NEW s \in Spaces, Live(s)
    PROVE  /\ Whole(WholeFrom(s)) /\ WholeFrom(s)[1] = s
           /\ \A c : Whole(c) /\ c[1] = s => c = WholeFrom(s)
<1>1. Whole(WholeFrom(s)) /\ WholeFrom(s)[1] = s
  BY WholeExists, Zenon DEF WholeFrom
<1>2. QED
  BY <1>1, WholeIsUnique

Ways == [s \in Spaces |-> IF Live(s) THEN WholeFrom(s) ELSE <<>>]

LEMMA WaysUnfold ==
    ASSUME Placed, Rooted(spaces)
    PROVE  Unfolded(Ways)
<1>1. ASSUME NEW s \in Spaces
      PROVE  Ways[s] = IF ~Live(s) THEN <<>>
                       ELSE IF spaces[s].parent = None THEN <<s>>
                            ELSE <<s>> \o Ways[spaces[s].parent]
  <2>1. CASE ~Live(s)
    BY <2>1 DEF Ways
  <2>2. CASE Live(s) /\ spaces[s].parent = None
    BY <2>2, OneIsWhole, WholeFromIs DEF Ways
  <2>3. CASE Live(s) /\ spaces[s].parent # None /\ ~Live(spaces[s].parent)
    <3>1. Whole(<<s>>) /\ <<s>>[1] = s
      BY <2>3, OneIsWhole
    <3>2. spaces[s].parent \in Spaces /\ Ways[spaces[s].parent] = <<>>
      BY <2>3 DEF Ways, Placed
    <3>3. <<s>> \o <<>> = <<s>>
      OBVIOUS
    <3>4. QED
      BY <2>3, <3>1, <3>2, <3>3, WholeFromIs DEF Ways
  <2>4. CASE Live(s) /\ spaces[s].parent # None /\ Live(spaces[s].parent)
    <3> DEFINE q == spaces[s].parent
    <3>1. q \in Spaces /\ Live(q) /\ Ways[q] = WholeFrom(q)
      BY <2>4 DEF Ways, Placed
    <3>2. Whole(WholeFrom(q)) /\ WholeFrom(q)[1] = q
      BY <3>1, WholeFromIs
    <3>3. Whole(<<s>> \o WholeFrom(q)) /\ (<<s>> \o WholeFrom(q))[1] = s
      BY <2>4, <3>2, ConsIsWhole
    <3>4. Ways[s] = <<s>> \o WholeFrom(q)
      BY <2>4, <3>3, WholeFromIs DEF Ways
    <3>5. QED
      BY <2>4, <3>1, <3>4
  <2>5. QED
    BY <2>1, <2>2, <2>3, <2>4
<1>2. Ways = [s \in Spaces |-> Ways[s]]
  BY DEF Ways
<1>3. QED
  BY <1>1, <1>2, Zenon DEF Unfolded

LEMMA ChainUnfolds ==
    ASSUME Placed, Rooted(spaces)
    PROVE  Unfolded(Chain)
<1>1. Chain = CHOOSE f : Unfolded(f)
  BY Zenon DEF Chain, Unfolded
<1>2. \E f : Unfolded(f)
  BY WaysUnfold, Zenon
<1>3. Unfolded(CHOOSE f : Unfolded(f))
  BY <1>2, Zenon
<1>4. QED
  BY <1>1, <1>3, Zenon

(* Chain is the way up as far as it goes.                                  *)
LEMMA ChainIsWhole ==
    ASSUME Placed, Rooted(spaces), NEW s \in Spaces
    PROVE  /\ ~Live(s) => Chain[s] = <<>>
           /\ Live(s) => Whole(Chain[s]) /\ Chain[s][1] = s
<1> DEFINE S == {x \in Spaces : Live(x) /\ Chain[x] # Ways[x]}
           Step1(f, x) == IF ~Live(x) THEN <<>>
                          ELSE IF spaces[x].parent = None THEN <<x>>
                               ELSE <<x>> \o f[spaces[x].parent]
<1>1. \A x \in Spaces : Chain[x] = Step1(Chain, x)
  <2>1. Unfolded(Chain)
    BY ChainUnfolds
  <2> DEFINE f == Chain
  <2>2. f = [x \in Spaces |-> Step1(f, x)]
    BY <2>1, Zenon DEF Unfolded
  <2> HIDE DEF f, Step1
  <2>3. \A x \in Spaces : f[x] = Step1(f, x)
    BY <2>2
  <2>4. QED
    BY <2>3 DEF f
<1>2. \A x \in Spaces : Ways[x] = Step1(Ways, x)
  <2>1. Unfolded(Ways)
    BY WaysUnfold
  <2> DEFINE f == Ways
  <2>2. f = [x \in Spaces |-> Step1(f, x)]
    BY <2>1, Zenon DEF Unfolded
  <2> HIDE DEF f, Step1
  <2>3. \A x \in Spaces : f[x] = Step1(f, x)
    BY <2>2
  <2>4. QED
    BY <2>3 DEF f
<1>3. S = {}
  <2>1. SUFFICES ASSUME S # {} PROVE FALSE
    OBVIOUS
  <2>2. S \in SUBSET Spaces /\ \A x \in S : spaces[x].status = "live"
    BY DEF Live
  <2>3. PICK x \in S : spaces[x].parent \notin S
    BY <2>1, <2>2 DEF Rooted
  <2>4. x \in Spaces /\ Live(x) /\ Chain[x] # Ways[x]
    OBVIOUS
  <2>5. CASE spaces[x].parent = None
    BY <1>1, <1>2, <2>4, <2>5
  <2>6. CASE spaces[x].parent # None
    <3>1. spaces[x].parent \in Spaces
      BY <2>4, <2>6 DEF Placed
    <3>2. Chain[spaces[x].parent] = Ways[spaces[x].parent]
      BY <1>1, <1>2, <2>3, <3>1
    <3>3. QED
      BY <1>1, <1>2, <2>4, <2>6, <3>2
  <2>7. QED
    BY <2>5, <2>6
<1>4. CASE ~Live(s)
  BY <1>1, <1>4
<1>5. CASE Live(s)
  BY <1>3, <1>5, WholeFromIs DEF Ways
<1>6. QED
  BY <1>4, <1>5

----------------------------------------------------------------------------
(* What evidence is worth.                                                 *)

LEMMA LowestOfSome ==
    ASSUME NEW S, S \subseteq Grants \/ S \subseteq Nat, LowestOf(S) # None
    PROVE  LowestOf(S) \in S
BY AccessAssumption, LowestIsOne DEF LowestOf

(* The path to a Space whose grants reach s.                               *)
PathOk(s, top, path) ==
    /\ path \in Seq(Spaces) /\ path # <<>> /\ path[1] = s /\ path[Len(path)] = top
    /\ \A i \in 1 .. Len(path) : Live(path[i])
    /\ \A i \in 1 .. Len(path) - 1 :
          spaces[path[i]].parent = path[i + 1] /\ spaces[path[i]].mode = "inherit"

LEMMA PathToOk ==
    ASSUME Placed, Rooted(spaces), NEW s \in Spaces, NEW top,
           PathTo(s, top) # <<>>
    PROVE  PathOk(s, top, PathTo(s, top))
<1> DEFINE chain == Chain[s]
           at == {i \in Reaching(s) : chain[i] = top}
           k == LowestOf(at)
           path == SubSeq(chain, 1, k)
<1>1. at # {} /\ PathTo(s, top) = path
  BY DEF PathTo
<1>2. Whole(chain) /\ chain[1] = s
  BY <1>1, ChainIsWhole DEF Reaching
<1>3. Reaching(s) = {i \in 2 .. Len(chain) : \A j \in 1 .. i - 1 : spaces[chain[j]].mode = "inherit"}
  BY DEF Reaching
<1> HIDE DEF chain
<1>4. /\ chain \in Seq(Spaces) /\ Len(chain) \in Nat
      /\ \A i \in 1 .. Len(chain) : Live(chain[i])
      /\ \A i \in 1 .. Len(chain) - 1 : chain[i + 1] = spaces[chain[i]].parent
  BY <1>2 DEF Whole, Climb
<1>5. at \subseteq Nat
  BY <1>3, <1>4
<1>6. k \in at
  BY <1>1, <1>5, LowestIsOne
<1> HIDE DEF k
<1>7. /\ k \in 2 .. Len(chain) /\ chain[k] = top
      /\ \A j \in 1 .. k - 1 : spaces[chain[j]].mode = "inherit"
  BY <1>3, <1>6
<1>8. /\ path \in Seq(Spaces) /\ Len(path) = k
      /\ \A i \in 1 .. k : path[i] = chain[i]
  BY <1>4, <1>7
<1> HIDE DEF path
<1>9. path # <<>> /\ path[1] = s /\ path[Len(path)] = top
  BY <1>2, <1>4, <1>7, <1>8
<1>10. \A i \in 1 .. Len(path) : Live(path[i])
  BY <1>4, <1>7, <1>8
<1>11. \A i \in 1 .. Len(path) - 1 :
          spaces[path[i]].parent = path[i + 1] /\ spaces[path[i]].mode = "inherit"
  <2> TAKE i \in 1 .. Len(path) - 1
  <2>1. i \in 1 .. k /\ i + 1 \in 1 .. k /\ i \in 1 .. k - 1 /\ i \in 1 .. Len(chain) - 1
    BY <1>4, <1>7, <1>8
  <2>2. QED
    BY <1>4, <1>7, <1>8, <2>1
<1>12. QED
  BY <1>1, <1>8, <1>9, <1>10, <1>11 DEF PathOk

(* The rows of a path show it.                                             *)
LEMMA PathIsTrail ==
    ASSUME NEW s, NEW top, NEW path, PathOk(s, top, path), NEW E,
           \A i \in 1 .. Len(path) : SpaceRow(path[i]) \in E
    PROVE  TrailTo(E, s, top)
<1>1. Trail(E, path)
  <2>1. ASSUME NEW i \in 1 .. Len(path)
        PROVE  \E r \in E : /\ r[1] = path[i]
                            /\ i < Len(path) => r[2].parent = path[i + 1] /\ r[2].mode = "inherit"
    <3> DEFINE r == SpaceRow(path[i])
    <3>1. r \in E /\ r[1] = path[i] /\ r[2] = spaces[path[i]]
      BY DEF SpaceRow
    <3>2. path \in Seq(Spaces)
      BY DEF PathOk
    <3>3. i < Len(path) => i \in 1 .. Len(path) - 1
      BY <3>2
    <3>4. i < Len(path) => r[2].parent = path[i + 1] /\ r[2].mode = "inherit"
      BY <3>1, <3>3 DEF PathOk
    <3> HIDE DEF r
    <3>5. QED
      BY <3>1, <3>4
  <2>2. QED
    BY <2>1 DEF Trail, PathOk
<1>2. QED
  BY <1>1 DEF TrailTo, PathOk

(* More evidence shows no less.                                            *)
LEMMA MoreShows ==
    ASSUME NEW E, NEW F, E \subseteq F
    PROVE  /\ \A s : Shown(E, s) => Shown(F, s)
           /\ \A s : GrantOn(E, s) => GrantOn(F, s)
           /\ \A s : Contributes(E, s) => Contributes(F, s)
           /\ \A s, top : TrailTo(E, s, top) => TrailTo(F, s, top)
BY DEF Trail, TrailTo, Shown, GrantOn, Contributes

LEMMA MoreReaches ==
    ASSUME NEW E, NEW F, E \subseteq F, NEW G, NEW H, G \subseteq H, NEW role, NEW s,
           Reach(E, G, role, s)
    PROVE  Reach(F, H, role, s)
BY MoreShows, Zenon DEF Reach

LEMMA MoreProves ==
    ASSUME NEW E, NEW F, E \subseteq F, NEW G, NEW H, G \subseteq H, NEW role, NEW n,
           Item(E, G, role, n)
    PROVE  Item(F, H, role, n)
<1>1. Shown(E, n[2]) => Shown(F, n[2])
  BY MoreShows
<1>2. Contributes(G, n[2]) => Contributes(H, n[2])
  BY MoreShows
<1>3. Reach(E, G, role, n[2]) => Reach(F, H, role, n[2])
  BY MoreReaches, Zenon
<1>4. QED
  BY <1>1, <1>2, <1>3 DEF Item

(* Rows that are as they were found. *)
CurrentSpaces(E) ==
    \A r \in E : r[1] \in Spaces /\ r[2].status = "live" /\ spaces[r[1]] = r[2]

CurrentGrants(G) == \A r \in G : r[1] \in Grants /\ grants[r[1]] = r[2]

LEMMA TrailIsClimb ==
    ASSUME NEW E, CurrentSpaces(E), NEW path, Trail(E, path)
    PROVE  /\ Climb(path)
           /\ \A i \in 1 .. Len(path) - 1 : spaces[path[i]].mode = "inherit"
BY DEF Trail, CurrentSpaces, Live, Climb

LEMMA ReachIsReadable ==
    ASSUME Placed, Rooted(spaces), NEW E, NEW G, CurrentSpaces(E), CurrentGrants(G),
           NEW s, Shown(E, s), Reach(E, G, actor.role, s)
    PROVE  s \in Spaces /\ Live(s) /\ Readable(s)
<1>1. s \in Spaces /\ Live(s)
  BY DEF Shown, CurrentSpaces, Live
<1>2. \A t : GrantOn(G, t) => On(t) # {}
  BY DEF GrantOn, CurrentGrants, On
<1>3. CASE actor.role = "admin" \/ s = Root \/ GrantOn(G, s)
  BY <1>1, <1>2, <1>3 DEF Readable, Admin
<1>4. ASSUME NEW top, TrailTo(E, s, top), GrantOn(G, top)
      PROVE  Readable(s)
  <2>1. PICK c : Trail(E, c) /\ c[1] = s /\ c[Len(c)] = top
    BY <1>4 DEF TrailTo
  <2>2. Climb(c) /\ \A i \in 1 .. Len(c) - 1 : spaces[c[i]].mode = "inherit"
    BY <2>1, TrailIsClimb
  <2>3. Whole(Chain[s]) /\ Chain[s][1] = s
    BY <1>1, ChainIsWhole
  <2>4. Len(c) <= Len(Chain[s]) /\ \A i \in 1 .. Len(c) : c[i] = Chain[s][i]
    BY <2>1, <2>2, <2>3, ClimbIsPrefix
  <2>5. Len(c) \in Nat \ {0} /\ Len(Chain[s]) \in Nat
    BY <2>2, <2>3 DEF Whole, Climb
  <2>6. On(top) # {}
    BY <1>2, <1>4
  <2>7. CASE Len(c) = 1
    BY <2>1, <2>6, <2>7 DEF Readable
  <2>8. CASE Len(c) # 1
    <3>1. Len(c) \in 2 .. Len(Chain[s])
      <4>1. \A a \in Nat \ {0}, b \in Nat : a <= b /\ a # 1 => a \in 2 .. b
        OBVIOUS
      <4>2. QED
        BY <2>4, <2>5, <2>8, <4>1
    <3>2. \A j \in 1 .. Len(c) - 1 : j \in 1 .. Len(c)
      BY <2>5
    <3>3. \A j \in 1 .. Len(c) - 1 : spaces[Chain[s][j]].mode = "inherit"
      BY <2>2, <2>4, <3>2
    <3>4. Len(c) \in Reaching(s)
      BY <3>1, <3>3 DEF Reaching
    <3>5. Chain[s][Len(c)] = top
      BY <2>1, <2>4, <2>5
    <3>6. QED
      BY <2>6, <3>4, <3>5 DEF Readable
  <2>9. QED
    BY <2>7, <2>8
<1>5. QED
  BY <1>1, <1>3, <1>4 DEF Reach

LEMMA ItemAllows ==
    ASSUME Placed, Rooted(spaces), NEW E, NEW G, CurrentSpaces(E), CurrentGrants(G),
           actor.active, actor.policy, NEW n, Item(E, G, actor.role, n),
           n[1] # "enter" => Fit(n[2])
    PROVE  May(n[1], n[2])
<1> DEFINE s == n[2]
<1>1. s \in Spaces /\ Live(s) /\ Readable(s)
  BY ReachIsReadable DEF Item
<1>2. n[1] # "enter" => spaces[s].class <= Ceiling
  BY DEF Fit
<1>3. ASSUME n[1] = "contribute", ~Admin PROVE ContributorGrant(s) # None
  <2> DEFINE S == {g \in On(s) : grants[g].relation = "contributor"}
  <2>1. PICK r \in G : r[2].status = "live" /\ r[2].space = s /\ r[2].relation = "contributor"
    BY <1>3 DEF Item, Contributes, Admin
  <2>2. r[1] \in Grants /\ grants[r[1]] = r[2]
    BY DEF CurrentGrants
  <2>3. r[1] \in S
    BY <2>1, <2>2 DEF On
  <2>4. S \subseteq Grants /\ S \subseteq Nat /\ S # {}
    BY <2>3, AccessAssumption DEF On
  <2> HIDE DEF S
  <2>5. LowestOf(S) \in S
    BY <2>4, LowestIsOne
  <2>6. ContributorGrant(s) = LowestOf(S)
    BY DEF ContributorGrant, S
  <2>7. QED
    BY <2>4, <2>5, <2>6, AccessAssumption
<1>4. n[1] = "manage" => Admin
  BY DEF Item, Admin
<1>5. QED
  BY <1>1, <1>2, <1>3, <1>4 DEF May

----------------------------------------------------------------------------
(* The tree of Spaces.                                                     *)

Tree(table) == ParentsExist(table) /\ Rooted(table)

LEMMA TablesArePlaced ==
    ASSUME TablesOk
    PROVE  /\ Placed
           /\ \A s \in Spaces : spaces[s] \in SpaceRecords
           /\ \A s \in Spaces : spaces[s].status \in {"none", "live", "archived"}
BY DEF TablesOk, Placed, SpaceRecords

LEMMA SameWayKeepsTree ==
    ASSUME NEW a, NEW b, Tree(a),
           \A s \in Spaces : b[s].status = "live" =>
               a[s].status = "live" /\ b[s].parent = a[s].parent,
           \A s \in Spaces : a[s].status # "none" => b[s].status # "none"
    PROVE  Tree(b)
BY DEF Tree, ParentsExist, Rooted

(* A Space is not moved below itself.                                      *)
LEMMA MoveKeepsTree ==
    ASSUME Placed, Tree(spaces), NEW s \in Spaces, NEW t \in Spaces, Live(t),
           s \notin {Chain[t][i] : i \in DOMAIN Chain[t]}, NEW b,
           b[s].parent = t, \A x \in Spaces : b[x].status = spaces[x].status,
           \A x \in Spaces : x # s => b[x].parent = spaces[x].parent
    PROVE  Tree(b)
<1>1. ParentsExist(b)
  BY DEF ParentsExist, Live, Tree
<1>2. Rooted(b)
  <2> SUFFICES ASSUME NEW S \in SUBSET Spaces, S # {}, \A x \in S : b[x].status = "live",
                      \A x \in S : b[x].parent \in S
               PROVE  FALSE
    BY DEF Rooted
  <2>1. \A x \in S : spaces[x].status = "live"
    OBVIOUS
  <2>2. CASE s \notin S
    BY <2>1, <2>2 DEF Tree, Rooted
  <2>3. CASE s \in S
    <3> DEFINE chain == Chain[t]
               T == {x \in S : \E i \in 1 .. Len(chain) : chain[i] = x}
    <3>1. Whole(chain) /\ chain[1] = t
      BY ChainIsWhole DEF Tree
    <3>2. \A i \in DOMAIN chain : chain[i] # s
      OBVIOUS
    <3> HIDE DEF chain
    <3>3. /\ chain \in Seq(Spaces) /\ Len(chain) \in Nat \ {0} /\ DOMAIN chain = 1 .. Len(chain)
          /\ \A i \in 1 .. Len(chain) - 1 : chain[i + 1] = spaces[chain[i]].parent
          /\ spaces[chain[Len(chain)]].parent # None => ~Live(spaces[chain[Len(chain)]].parent)
      BY <3>1 DEF Whole, Climb
    <3>4. t \in S
      BY <2>3
    <3>5. t \in T
      BY <3>1, <3>3, <3>4
    <3>6. ASSUME NEW x \in T PROVE spaces[x].parent \in T
      <4>1. PICK i \in 1 .. Len(chain) : chain[i] = x
        OBVIOUS
      <4>2. x # s /\ x \in S
        BY <3>2, <3>3, <4>1
      <4>3. spaces[x].parent \in S
        BY <4>2
      <4>4. spaces[x].parent # None /\ Live(spaces[x].parent)
        BY <2>1, <4>3, AccessAssumption DEF Live
      <4>5. i # Len(chain)
        BY <3>3, <4>1, <4>4
      <4>6. i \in 1 .. Len(chain) - 1 /\ i + 1 \in 1 .. Len(chain)
        <5>1. \A n \in Nat \ {0} : \A j \in 1 .. n :
                 j # n => j \in 1 .. n - 1 /\ j + 1 \in 1 .. n
          OBVIOUS
        <5>2. Len(chain) \in Nat \ {0}
          BY <3>3
        <5>3. QED
          BY <4>1, <4>5, <5>1, <5>2
      <4>7. chain[i + 1] = spaces[x].parent
        BY <3>3, <4>1, <4>6
      <4>8. QED
        BY <4>3, <4>6, <4>7
    <3>7. T \in SUBSET Spaces /\ T # {} /\ \A x \in T : spaces[x].status = "live"
      BY <2>1, <3>5
    <3> HIDE DEF T
    <3>8. QED
      BY <3>6, <3>7 DEF Tree, Rooted
  <2>4. QED
    BY <2>2, <2>3
<1>3. QED
  BY <1>1, <1>2 DEF Tree

(* A new Space is nobody's parent yet.                                     *)
LEMMA NewSpaceKeepsTree ==
    ASSUME NEW a, NEW b, Tree(a), NEW c \in Spaces, a[c].status = "none",
           b[c].status = "live", b[c].parent \in Spaces, a[b[c].parent].status # "none",
           \A x \in Spaces : x # c => b[x] = a[x]
    PROVE  Tree(b)
<1> DEFINE q == b[c].parent
<1>1. q \in Spaces /\ q # c /\ b[q].status # "none"
  OBVIOUS
<1>2. ParentsExist(b)
  BY <1>1 DEF ParentsExist, Tree
<1>3. Rooted(b)
  <2> SUFFICES ASSUME NEW S \in SUBSET Spaces, S # {}, \A x \in S : b[x].status = "live",
                      \A x \in S : b[x].parent \in S
               PROVE  FALSE
    BY DEF Rooted
  <2> DEFINE T == S \ {c}
  <2>1. \A x \in T : a[x] = b[x] /\ a[x].status = "live"
    OBVIOUS
  <2>2. ASSUME NEW x \in T PROVE a[x].parent \in T
    BY <2>1, AccessAssumption DEF Tree, ParentsExist
  <2>3. T # {}
    BY <1>1
  <2>4. T \in SUBSET Spaces
    OBVIOUS
  <2> HIDE DEF T
  <2>5. QED
    BY <2>1, <2>2, <2>3, <2>4 DEF Tree, Rooted
<1>4. QED
  BY <1>2, <1>3 DEF Tree

LEMMA InitTree == Init => Tree(spaces) /\ GrantsOk
BY CastAssumption DEF Init, SpaceRecords, GrantsOk, ParentsExist, Rooted, Tree

----------------------------------------------------------------------------
(* What the others leave to a transaction.                                 *)

Untouched(q) ==
    /\ txn'[q] = txn[q]
    /\ \A row, mode : <<q, row, mode>> \in locks => <<q, row, mode>> \in locks'
    /\ \A s \in Spaces : Live(s) /\ HeldBy(q, <<"space", s>>) => spaces'[s] = spaces[s]
    /\ \A g \in Grants : HeldBy(q, <<"grant", g>>) => grants'[g] = grants[g]
    /\ \A g \in Grants :
          grants[g].status # "none" =>
              grants'[g].status # "none" /\ grants'[g].space = grants[g].space
    /\ HeldBy(q, Policy) => actor'.policy = actor.policy
    /\ HeldBy(q, Membership) => actor'.active = actor.active /\ actor'.role = actor.role

LEMMA UntouchedHolds ==
    ASSUME NEW q \in Procs, Untouched(q)
    PROVE  /\ \A row : HeldBy(q, row) => HeldBy(q, row)'
           /\ SpaceEvidence(q) \subseteq SpaceEvidence(q)'
           /\ GrantEvidence(q) \subseteq GrantEvidence(q)'
           /\ Sure(q) => Sure(q)'
           /\ \A g : Known(g) => Known(g)' /\ grants'[g].space = grants[g].space
           /\ \A rows : SpacesHeld(q, rows) => SpacesHeld(q, rows)'
           /\ \A rows : GrantsHeld(q, rows) => GrantsHeld(q, rows)'
<1>1. \A row : HeldBy(q, row) => HeldBy(q, row)'
  BY DEF Untouched, HeldBy
<1>2. txn'[q] = txn[q] /\ Mode(q)' = Mode(q)
  BY DEF Untouched, Mode
<1>3. SpaceEvidence(q) \subseteq SpaceEvidence(q)'
  BY <1>1, <1>2 DEF SpaceEvidence, Untouched, Live, SpaceRow
<1>4. GrantEvidence(q) \subseteq GrantEvidence(q)'
  BY <1>1, <1>2 DEF GrantEvidence, Untouched, GrantRow
<1>5. Sure(q) => Sure(q)'
  BY <1>1, <1>2 DEF Sure, Policy, Membership, Untouched
<1>6. \A g : Known(g) => Known(g)' /\ grants'[g].space = grants[g].space
  BY DEF Untouched, Known
<1>7. ASSUME NEW rows, SpacesHeld(q, rows) PROVE SpacesHeld(q, rows)'
  BY <1>1, <1>7 DEF SpacesHeld, Untouched, Live
<1>8. ASSUME NEW rows, GrantsHeld(q, rows) PROVE GrantsHeld(q, rows)'
  BY <1>1, <1>8 DEF GrantsHeld, Untouched
<1>9. QED
  BY <1>1, <1>3, <1>4, <1>5, <1>6, <1>7, <1>8

LEMMA UntouchedProves ==
    ASSUME NEW q \in Procs, Untouched(q)
    PROVE  /\ \A n : Proven(q, n) => Proven(q, n)'
           /\ HeadOk(q) => HeadOk(q)'
           /\ Passed(q) => Passed(q)'
<1>1. /\ SpaceEvidence(q) \subseteq SpaceEvidence(q)'
      /\ GrantEvidence(q) \subseteq GrantEvidence(q)'
      /\ \A g : Known(g) => Known(g)' /\ grants'[g].space = grants[g].space
  BY UntouchedHolds
<1>2. txn'[q] = txn[q] /\ Target(q)' = Target(q) /\ Mode(q)' = Mode(q)
  BY DEF Untouched, Target, Mode
<1>3. \A n : Proven(q, n) => Proven(q, n)'
  BY <1>1, <1>2, MoreProves DEF Proven
<1>4. HeadOk(q) => HeadOk(q)'
  <2> SUFFICES ASSUME HeadOk(q) PROVE HeadOk(q)'
    OBVIOUS
  <2>1. /\ \A s : Shown(SpaceEvidence(q), s) => Shown(SpaceEvidence(q)', s)
        /\ \A s, top : TrailTo(SpaceEvidence(q), s, top) => TrailTo(SpaceEvidence(q)', s, top)
    BY <1>1, MoreShows
  <2>2. \A role, s : Reach(SpaceEvidence(q), GrantEvidence(q), role, s) =>
                     Reach(SpaceEvidence(q)', GrantEvidence(q)', role, s)
    BY <1>1, MoreReaches
  <2>3. QED
    BY <1>1, <1>2, <1>3, <2>1, <2>2 DEF HeadOk
<1>5. Passed(q) => Passed(q)'
  BY <1>2, <1>3 DEF Passed
<1>6. QED
  BY <1>3, <1>4, <1>5

(* Spaces that are locked and live stay fit. *)
LEMMA UntouchedFits ==
    ASSUME NEW q \in Procs, Untouched(q), NEW s \in Spaces, Live(s), HeldBy(q, <<"space", s>>)
    PROVE  Fit(s) => Fit(s)'
BY DEF Untouched, Fit

LEMMA LockingTodo ==
    ASSUME NEW kind \in Locking
    PROVE  /\ LastTodo(kind) \in Seq(Powers \X Spaces) /\ Len(LastTodo(kind)) = 2
           /\ \A i \in 1 .. 2 : LastTodo(kind)[i][2] = Other /\ LastTodo(kind)[i][1] # "enter"
           /\ LastTodo(kind)[1] = <<"read", Other>>
           /\ LastTodo(kind)[2] = CASE kind = "correct" -> <<"contribute", Other>>
                                    [] kind = "tombstone" -> <<"manage", Other>>
                                    [] OTHER -> <<"read", Other>>
<1> DEFINE D == Powers \X Spaces
           a == <<"read", Other>>
           b == <<"contribute", Other>>
           c == <<"manage", Other>>
<1>1. a \in D /\ b \in D /\ c \in D
  BY WorkAssumption DEF Powers
<1>2. \A x \in {a, b, c} : x[2] = Other /\ x[1] # "enter"
  OBVIOUS
<1>3. /\ kind = "correct" => LastTodo(kind) = <<a, b>>
      /\ kind = "tombstone" => LastTodo(kind) = <<a, c>>
      /\ kind = "accept" => LastTodo(kind) = <<a, a>>
  BY DEF LastTodo
<1>4. kind = "correct" \/ kind = "tombstone" \/ kind = "accept"
  BY DEF Locking
<1> HIDE DEF a, b, c, D
<1>5. \A x, y \in {a, b, c} :
         /\ <<x, y>> \in Seq(D) /\ Len(<<x, y>>) = 2 /\ <<x, y>>[1] = x /\ <<x, y>>[2] = y
  BY <1>1
<1>6. PICK y \in {a, b, c} :
         /\ LastTodo(kind) = <<a, y>>
         /\ y = CASE kind = "correct" -> b [] kind = "tombstone" -> c [] OTHER -> a
  BY <1>3, <1>4
<1>7. /\ LastTodo(kind) \in Seq(D) /\ Len(LastTodo(kind)) = 2
      /\ LastTodo(kind)[1] = a /\ LastTodo(kind)[2] = y
  BY <1>5, <1>6
<1>8. \A i \in 1 .. 2 : LastTodo(kind)[i] = a \/ LastTodo(kind)[i] = y
  BY <1>7
<1>9. \A i \in 1 .. 2 : LastTodo(kind)[i][2] = Other /\ LastTodo(kind)[i][1] # "enter"
  BY <1>2, <1>8
<1>10. QED
  BY <1>6, <1>7, <1>9 DEF a, b, c, D

(* After the first of the two decisions, Other is shown. *)
LEMMA LockedShows ==
    ASSUME NEW q \in Procs, txn[q].kind \in Locking, LockedOk(q), Len(txn[q].todo) # 2
    PROVE  Shown(SpaceEvidence(q), Other) /\ Live(Other) /\ HeldBy(q, <<"space", Other>>)
<1> DEFINE L == LastTodo(txn[q].kind)
           todo == txn[q].todo
<1>1. Len(L) = 2 /\ L[1] = <<"read", Other>> /\ L \in Seq(Powers \X Spaces)
  BY LockingTodo
<1>2. todo \in Seq(Powers \X Spaces) /\ Len(todo) <= Len(L)
  BY DEF LockedOk, Passed, EndOf
<1>3. 1 \in 1 .. Len(L) - Len(todo)
  BY <1>1, <1>2
<1>4. Proven(q, L[1])
  BY <1>3 DEF LockedOk, Passed
<1> HIDE DEF L
<1>5. Shown(SpaceEvidence(q), Other)
  BY <1>1, <1>4 DEF Proven, Item
<1>6. Mode(q) # "batch"
  BY DEF LockedOk
<1>7. Live(Other) /\ HeldBy(q, <<"space", Other>>)
  <2>1. PICK r \in SpaceEvidence(q) : r[1] = Other
    BY <1>5 DEF Shown
  <2>2. PICK s \in Spaces : Live(s) /\ HeldBy(q, <<"space", s>>) /\ r = SpaceRow(s)
    BY <1>6, <2>1 DEF SpaceEvidence
  <2>3. s = Other
    BY <2>1, <2>2 DEF SpaceRow
  <2>4. QED
    BY <2>2, <2>3
<1>8. QED
  BY <1>5, <1>7

LEMMA UntouchedLocked ==
    ASSUME NEW q \in Procs, Untouched(q), txn[q].kind \in Locking, LockedOk(q)
    PROVE  LockedOk(q)'
<1>1. txn'[q] = txn[q] /\ Mode(q)' = Mode(q)
  BY DEF Untouched, Mode
<1>2. (Sure(q) => Sure(q)') /\ (Passed(q) => Passed(q)')
  BY UntouchedHolds, UntouchedProves
<1>3. ASSUME Len(txn[q].todo) # 2, Fit(Other) PROVE Fit(Other)'
  BY <1>3, LockedShows, UntouchedFits, WorkAssumption
<1>4. QED
  BY <1>1, <1>2, <1>3 DEF LockedOk, At

LEMMA TwoAndTwo ==
    ASSUME NEW a, NEW b, NEW c, NEW d
    PROVE  <<a, b>> \o <<c, d>> = <<a, b, c, d>>
<1> DEFINE one == <<a, b>>
           two == <<c, d>>
           all == <<a, b, c, d>>
           S == {a, b, c, d}
<1>1. /\ one \in Seq(S) /\ Len(one) = 2 /\ one[1] = a /\ one[2] = b
      /\ two \in Seq(S) /\ Len(two) = 2 /\ two[1] = c /\ two[2] = d
  OBVIOUS
<1>2. /\ all \in Seq(S) /\ Len(all) = 4
      /\ all[1] = a /\ all[2] = b /\ all[3] = c /\ all[4] = d
  OBVIOUS
<1> HIDE DEF one, two, all
<1> HIDE DEF S
<1>3. /\ one \o two \in Seq(S) /\ Len(one \o two) = 2 + 2
      /\ \A i \in 1 .. 2 + 2 : (one \o two)[i] = IF i <= 2 THEN one[i] ELSE two[i - 2]
  <2>1. one \in Seq(S) /\ two \in Seq(S)
    BY <1>1
  <2>2. /\ one \o two \in Seq(S) /\ Len(one \o two) = Len(one) + Len(two)
        /\ \A i \in 1 .. Len(one) + Len(two) :
              (one \o two)[i] = IF i <= Len(one) THEN one[i] ELSE two[i - Len(one)]
    BY <2>1, ConcatProperties
  <2>3. QED
    BY <1>1, <2>2
<1> DEFINE sum == one \o two
<1>4. sum \in Seq(S) /\ Len(sum) = 4
  BY <1>1, <1>3
<1>5. sum[1] = a /\ sum[2] = b /\ sum[3] = c /\ sum[4] = d
  BY <1>1, <1>3
<1> HIDE DEF sum
<1>6. sum = all
  BY <1>2, <1>4, <1>5
<1>7. QED
  BY <1>6 DEF one, two, all, sum

LEMMA EndSpaces ==
    /\ EndRequests = <<<<"read", Other>>, <<"read", Home>>, <<"contribute", Home>>, <<"enter", Home>>>>
    /\ DOMAIN EndRequests = 1 .. 4 /\ Len(EndRequests) = 4
    /\ EndRequests \in Seq(Powers \X Spaces)
    /\ \A i \in DOMAIN EndRequests :
          EndRequests[i] \in Powers \X Spaces /\ EndRequests[i][2] \in {Home, Other}
BY TwoAndTwo, WorkAssumption DEF EndRequests, EndpointReads, Powers

LEMMA UntouchedBatch ==
    ASSUME NEW q \in Procs, Untouched(q), BatchOk(q)
    PROVE  BatchOk(q)'
<1> DEFINE X == txn[q].expected
<1>1. txn'[q] = txn[q] /\ Mode(q)' = Mode(q) /\ (First(q)' <=> First(q))
  BY DEF Untouched, Mode, First
<1>2. /\ (Sure(q) => Sure(q)') /\ (Passed(q) => Passed(q)')
      /\ \A rows : SpacesHeld(q, rows) => SpacesHeld(q, rows)'
      /\ \A rows : GrantsHeld(q, rows) => GrantsHeld(q, rows)'
  BY UntouchedHolds, UntouchedProves
<1>3. FoundOk(q)'
  BY <1>1 DEF BatchOk, FoundOk
<1>4. \A n : Unscoped(q, n) <=> Unscoped(q, n)'
  BY <1>1 DEF Unscoped, At
<1>5. ASSUME NEW s, SpacesHeld(q, X.spaces), Fit(s), Shown(X.spaces, s)
      PROVE  Fit(s)'
  BY <1>5, UntouchedFits DEF Shown, SpacesHeld, Live
<1>6. ASSUME ~First(q)
      PROVE  \A i \in DOMAIN EndRequests :
                LET n == EndRequests[i] IN
                n[1] # "enter" =>
                    (Unscoped(q, n) \/ Fit(n[2]) \/ ~Shown(X.spaces, n[2]))'
  <2> TAKE i \in DOMAIN EndRequests
  <2> DEFINE n == EndRequests[i]
  <2> SUFFICES ASSUME n[1] # "enter"
               PROVE  (Unscoped(q, n) \/ Fit(n[2]) \/ ~Shown(X.spaces, n[2]))'
    OBVIOUS
  <2>1. SpacesHeld(q, X.spaces) /\ (Unscoped(q, n) \/ Fit(n[2]) \/ ~Shown(X.spaces, n[2]))
    BY <1>6 DEF BatchOk
  <2>2. Shown(X.spaces, n[2])' <=> Shown(X.spaces, n[2])
    BY <1>1 DEF Shown
  <2>3. CASE Shown(X.spaces, n[2]) /\ Fit(n[2])
    BY <1>5, <2>1, <2>3
  <2>4. CASE ~Shown(X.spaces, n[2])
    BY <2>2, <2>4
  <2>5. CASE Unscoped(q, n)
    BY <1>4, <2>5
  <2>6. QED
    BY <2>1, <2>3, <2>4, <2>5
<1> HIDE DEF X
<1>7. /\ (At(q, "actor") <=> At(q, "actor")') /\ (At(q, "lockGrants") <=> At(q, "lockGrants")')
  BY <1>1 DEF At
<1>8. QED
  BY <1>1, <1>2, <1>3, <1>6, <1>7 DEF BatchOk, X

LEMMA UntouchedKeepsAuth ==
    ASSUME NEW q \in Procs, Untouched(q), AuthOk(q)
    PROVE  AuthOk(q)'
<1>1. /\ txn'[q] = txn[q] /\ Mode(q)' = Mode(q) /\ (Active(q)' <=> Active(q))
      /\ (Careful(q)' <=> Careful(q))
      /\ (Last(q)' <=> Last(q))
  BY DEF Untouched, Mode, Active, Careful, Last
<1>2. (HeadOk(q) => HeadOk(q)') /\ (Sure(q) => Sure(q)')
  BY UntouchedHolds, UntouchedProves
<1>3. txn[q].kind \in Locking /\ LockedOk(q) => LockedOk(q)'
  BY UntouchedLocked
<1>4. BatchOk(q) => BatchOk(q)'
  BY UntouchedBatch
<1>5. QED
  BY <1>1, <1>2, <1>3, <1>4 DEF AuthOk

----------------------------------------------------------------------------
(* Who leaves the others what they rely on.                                *)

LEMMA QuietLeavesOthers ==
    ASSUME NEW p \in Procs, NEW q \in Procs, q # p, OthersKeep(p), UNCHANGED access,
           \A l \in locks : l[1] # p => l \in locks'
    PROVE  Untouched(q)
BY DEF access, OthersKeep, Untouched

(* Rows that are locked are not changed. *)
RowsStay ==
    /\ \A l \in locks, s \in Spaces : l[2] = <<"space", s>> => spaces'[s] = spaces[s]
    /\ \A l \in locks, g \in Grants : l[2] = <<"grant", g>> => grants'[g] = grants[g]
    /\ \A l \in locks : l[2] = Policy => actor'.policy = actor.policy
    /\ \A l \in locks : l[2] = Membership =>
          actor'.active = actor.active /\ actor'.role = actor.role

GrantsStay ==
    \A g \in Grants :
        grants[g].status # "none" =>
            grants'[g].status # "none" /\ grants'[g].space = grants[g].space

LEMMA ChangeLeavesAll ==
    ASSUME NEW q \in Procs, UNCHANGED <<locks, txn>>, RowsStay, GrantsStay
    PROVE  Untouched(q)
BY DEF HeldBy, RowsStay, Untouched, GrantsStay

LEMMA SpaceChangeLeaves ==
    ASSUME TablesOk, NEW s \in Spaces, NEW field \in {"status", "mode", "class", "parent"},
           NEW value, SetSpace(s, field, value)
    PROVE  /\ RowsStay /\ GrantsStay /\ UNCHANGED <<locks, txn, grants>>
           /\ Live(s) /\ spaces' = [spaces EXCEPT ![s] = [spaces[s] EXCEPT ![field] = value]]
           /\ \A x \in Spaces : x # s => spaces'[x] = spaces[x]
           /\ spaces'[s] = [spaces[s] EXCEPT ![field] = value]
BY DEF SetSpace, Change, TablesOk, RowsStay, GrantsStay

LEMMA AdministerSpaceLeaves ==
    ASSUME TablesOk, Tree(spaces), NEW s \in Spaces, NEW t \in Spaces,
           Archive(s) \/ Enclose(s) \/ Classify(s) \/ Move(s, t)
    PROVE  RowsStay /\ GrantsStay /\ UNCHANGED <<locks, txn, grants>> /\ Tree(spaces')
<1> DEFINE Same == \A x \in Spaces : x # s => spaces'[x] = spaces[x]
<1>1. spaces[s] \in SpaceRecords /\ Placed
  BY TablesArePlaced
<1>2. ASSUME NEW r, r = spaces'[s], Same, Live(s), r.parent = spaces[s].parent, r.status # "none"
      PROVE  Tree(spaces')
  BY <1>2, SameWayKeepsTree DEF Live
<1>3. CASE Archive(s)
  <2>1. SetSpace(s, "status", "archived")
    BY <1>3 DEF Archive
  <2>2. /\ RowsStay /\ GrantsStay /\ UNCHANGED <<locks, txn, grants>> /\ Live(s) /\ Same
        /\ spaces'[s] = [spaces[s] EXCEPT !["status"] = "archived"]
    BY <2>1, SpaceChangeLeaves
  <2>3. spaces'[s].parent = spaces[s].parent /\ spaces'[s].status = "archived"
    BY <1>1, <2>2 DEF SpaceRecords
  <2>4. QED
    BY <1>2, <2>2, <2>3
<1>4. CASE Enclose(s)
  <2>1. SetSpace(s, "mode", "restricted")
    BY <1>4 DEF Enclose
  <2>2. /\ RowsStay /\ GrantsStay /\ UNCHANGED <<locks, txn, grants>> /\ Live(s) /\ Same
        /\ spaces'[s] = [spaces[s] EXCEPT !["mode"] = "restricted"]
    BY <2>1, SpaceChangeLeaves
  <2>3. spaces'[s].parent = spaces[s].parent /\ spaces'[s].status = "live"
    BY <1>1, <2>2 DEF SpaceRecords, Live
  <2>4. QED
    BY <1>2, <2>2, <2>3
<1>5. CASE Classify(s)
  <2>1. SetSpace(s, "class", Ceiling + 1)
    BY <1>5 DEF Classify
  <2>2. /\ RowsStay /\ GrantsStay /\ UNCHANGED <<locks, txn, grants>> /\ Live(s) /\ Same
        /\ spaces'[s] = [spaces[s] EXCEPT !["class"] = Ceiling + 1]
    BY <2>1, SpaceChangeLeaves
  <2>3. spaces'[s].parent = spaces[s].parent /\ spaces'[s].status = "live"
    BY <1>1, <2>2 DEF SpaceRecords, Live
  <2>4. QED
    BY <1>2, <2>2, <2>3
<1>6. CASE Move(s, t)
  <2>1. SetSpace(s, "parent", t) /\ Live(t) /\ s \notin {Chain[t][i] : i \in DOMAIN Chain[t]}
    BY <1>6 DEF Move
  <2>2. /\ RowsStay /\ GrantsStay /\ UNCHANGED <<locks, txn, grants>> /\ Live(s) /\ Same
        /\ spaces'[s] = [spaces[s] EXCEPT !["parent"] = t]
    BY <2>1, SpaceChangeLeaves
  <2>3. spaces'[s].parent = t /\ spaces'[s].status = spaces[s].status
    BY <1>1, <2>2 DEF SpaceRecords
  <2>4. /\ \A x \in Spaces : spaces'[x].status = spaces[x].status
        /\ \A x \in Spaces : x # s => spaces'[x].parent = spaces[x].parent
    BY <2>2, <2>3
  <2>5. Tree(spaces')
    BY <1>1, <2>1, <2>3, <2>4, MoveKeepsTree
  <2>6. QED
    BY <2>2, <2>5
<1>7. QED
  BY <1>3, <1>4, <1>5, <1>6

LEMMA GrantChangeLeaves ==
    ASSUME GrantsOk, NEW g \in Grants, NEW row, SetGrant(g, row),
           grants[g].status # "none" => row.status # "none" /\ row.space = grants[g].space
    PROVE  /\ RowsStay /\ GrantsStay /\ UNCHANGED <<locks, txn, spaces>>
           /\ GrantsOk'
BY DEF SetGrant, Change, GrantsOk, RowsStay, GrantsStay

LEMMA AdministerLeaves ==
    ASSUME TablesOk, Tree(spaces), GrantsOk, Administer
    PROVE  RowsStay /\ GrantsStay /\ UNCHANGED <<locks, txn>> /\ Tree(spaces') /\ GrantsOk'
<1>1. CASE \E s \in Spaces \ {Root} :
              Archive(s) \/ Enclose(s) \/ Classify(s) \/ \E t \in Spaces : Move(s, t)
  BY <1>1, AccessAssumption, AdministerSpaceLeaves DEF GrantsOk
<1>2. CASE \E g \in Grants :
              Revoke(g) \/ \E s \in Spaces, r \in Relations : Grant(g, s, r)
  <2>1. PICK g \in Grants : Revoke(g) \/ \E s \in Spaces, r \in Relations : Grant(g, s, r)
    BY <1>2
  <2>2. \E row : SetGrant(g, row) /\ (grants[g].status # "none" =>
                    row.status # "none" /\ row.space = grants[g].space)
    <3>1. CASE Revoke(g)
      <4> DEFINE row == [grants[g] EXCEPT !.status = "revoked"]
      <4>1. SetGrant(g, row)
        BY <3>1 DEF Revoke
      <4>2. grants[g].status = "live"
        BY <3>1 DEF Revoke
      <4>3. row.status # "none" /\ row.space = grants[g].space
        BY <4>2
      <4>4. QED
        BY <4>1, <4>3
    <3>2. CASE \E s \in Spaces, r \in Relations : Grant(g, s, r)
      BY <3>2 DEF Grant
    <3>3. QED
      BY <2>1, <3>1, <3>2
  <2>3. RowsStay /\ GrantsStay /\ UNCHANGED <<locks, txn, spaces>> /\ GrantsOk'
    BY <2>2, GrantChangeLeaves
  <2>4. QED
    BY <2>3
<1>3. CASE Suspend \/ RetirePolicy \/ \E role \in {"member", "admin"} : Promote(role)
  <2>1. UNCHANGED <<spaces, grants, locks, txn>>
    BY <1>3 DEF Suspend, RetirePolicy, Promote, SetActor, Change
  <2>2. actor = [role |-> actor.role, active |-> actor.active, policy |-> actor.policy]
    BY DEF TablesOk
  <2>3. CASE RetirePolicy
    <3>1. (\A l \in locks : l[2] # Policy) /\ actor' = [actor EXCEPT !["policy"] = FALSE]
      BY <2>3 DEF RetirePolicy, SetActor, Change
    <3>2. actor'.active = actor.active /\ actor'.role = actor.role
      BY <2>2, <3>1
    <3>3. QED
      BY <2>1, <3>1, <3>2 DEF RowsStay, GrantsStay, GrantsOk
  <2>4. CASE Suspend \/ \E role \in {"member", "admin"} : Promote(role)
    <3>1. \A l \in locks : l[2] # Membership
      BY <2>4 DEF Suspend, Promote, SetActor, Change
    <3>2. actor'.policy = actor.policy
      BY <2>2, <2>4 DEF Suspend, Promote, SetActor
    <3>3. QED
      BY <2>1, <3>1, <3>2 DEF RowsStay, GrantsStay, GrantsOk
  <2>5. QED
    BY <1>3, <2>3, <2>4
<1>4. QED
  BY <1>1, <1>2, <1>3 DEF Administer

(* A transaction that commits adds a Space that nobody relies on yet.      *)
LEMMA CommitLeaves ==
    ASSUME IInv, Tree(spaces), NEW p \in Procs, Commit(p)
    PROVE  /\ \A q \in Procs : q # p => Untouched(q)
           /\ Tree(spaces') /\ UNCHANGED grants /\ OthersKeep(p) /\ ~Active(p)'
<1> DEFINE child == txn[p].child
<1>1. /\ Shape /\ Finish(p) /\ Release(p) /\ LocksExclusive /\ ProcOk(p) /\ TablesOk
      /\ At(p, "commit") /\ UNCHANGED <<actor, grants>>
  BY DEF Commit, IInv, At
<1>2. OthersKeep(p) /\ \A l \in locks : l[1] # p => l \in locks'
  BY <1>1, FinishLeavesIdle, ReleaseKeepsExclusive
<1>3. ~Active(p)'
  BY <1>1 DEF Finish, Idle, Shape, Active
<1>4. (\A s \in Spaces : Live(s) => spaces'[s] = spaces[s]) /\ Tree(spaces')
  <2>1. CASE txn[p].replay \/ child = None
    BY <2>1 DEF Commit
  <2>2. CASE ~txn[p].replay /\ child # None
    <3>1. spaces' = [spaces EXCEPT ![child] = NewSpace(txn[p])]
      BY <2>2 DEF Commit
    <3>2. child \in Spaces /\ spaces[child].status = "none"
      BY <1>1, <2>2 DEF ProcOk, ChildOk, ChildFresh
    <3>3. txn[p].scope = Place(p)
      BY <1>1, <2>2 DEF ProcOk, CommitOk
    <3>4. Place(p) \in Spaces /\ spaces[Place(p)].status # "none"
      BY <1>1, AccessAssumption, WorkAssumption, CastAssumption
         DEF Place, ReservationSpace, TablesOk
    <3>5. spaces \in [Spaces -> SpaceRecords]
      BY <1>1 DEF TablesOk
    <3>6. /\ spaces'[child] = NewSpace(txn[p])
          /\ \A x \in Spaces : x # child => spaces'[x] = spaces[x]
      BY <3>1, <3>2, <3>5
    <3>7. NewSpace(txn[p]).status = "live" /\ NewSpace(txn[p]).parent = Place(p)
      BY <3>3 DEF NewSpace
    <3>8. Tree(spaces')
      BY <3>2, <3>4, <3>6, <3>7, NewSpaceKeepsTree
    <3>9. QED
      BY <3>2, <3>6, <3>8 DEF Live
  <2>3. QED
    BY <2>1, <2>2
<1>5. ASSUME NEW q \in Procs, q # p PROVE Untouched(q)
  BY <1>1, <1>2, <1>4, <1>5 DEF OthersKeep, Untouched
<1>6. QED
  BY <1>1, <1>2, <1>3, <1>4, <1>5

----------------------------------------------------------------------------
(* What a step of its own decision adds to what a transaction knows.       *)

Kept == {"kind", "script", "replay", "requests", "todo", "mode", "after", "role", "expected"}

(* The evidence grows and the decisions stay. *)
Learns(p) ==
    /\ \A x \in Kept : txn'[p][x] = txn[p][x]
    /\ UNCHANGED access /\ locks \subseteq locks'
    /\ SpaceEvidence(p) \subseteq SpaceEvidence(p)'
    /\ GrantEvidence(p) \subseteq GrantEvidence(p)'
    /\ FoundOk(p) => FoundOk(p)'

(* The rows S of Spaces and G of grants are evidence when p is at pc. *)
Takes(p, S, G, pc) ==
    /\ Learns(p) /\ txn'[p].pc = pc
    /\ \A x \in {"grant", "other", "path"} : txn'[p][x] = txn[p][x]
    /\ \A s \in S : SpaceRow(s) \in SpaceEvidence(p)'
    /\ \A g \in G : GrantRow(g) \in GrantEvidence(p)'

LEMMA GrowingEvidence ==
    ASSUME NEW p \in Procs, UNCHANGED access, locks \subseteq locks',
           txn'[p].mode = txn[p].mode,
           txn[p].found.spaces \subseteq txn'[p].found.spaces,
           txn[p].found.grants \subseteq txn'[p].found.grants
    PROVE  /\ SpaceEvidence(p) \subseteq SpaceEvidence(p)'
           /\ GrantEvidence(p) \subseteq GrantEvidence(p)'
BY DEF Mode, HeldBy, access, Live, SpaceRow, GrantRow, SpaceEvidence, GrantEvidence

LEMMA LearningKeeps ==
    ASSUME NEW p \in Procs, Learns(p)
    PROVE  /\ Mode(p)' = Mode(p) /\ Target(p)' = Target(p) /\ (Careful(p)' <=> Careful(p))
           /\ \A n : Proven(p, n) => Proven(p, n)'
           /\ \A s : Shown(SpaceEvidence(p), s) => Shown(SpaceEvidence(p)', s)
           /\ \A s, top : TrailTo(SpaceEvidence(p), s, top) => TrailTo(SpaceEvidence(p)', s, top)
           /\ \A role, s : Reach(SpaceEvidence(p), GrantEvidence(p), role, s) =>
                           Reach(SpaceEvidence(p)', GrantEvidence(p)', role, s)
           /\ Sure(p) => Sure(p)'
           /\ \A rows : SpacesHeld(p, rows) => SpacesHeld(p, rows)'
           /\ \A rows : GrantsHeld(p, rows) => GrantsHeld(p, rows)'
           /\ UNCHANGED <<spaces, grants, actor>>
<1>1. /\ txn'[p].todo = txn[p].todo /\ txn'[p].mode = txn[p].mode /\ txn'[p].role = txn[p].role
      /\ UNCHANGED <<spaces, grants, actor>> /\ locks \subseteq locks'
      /\ SpaceEvidence(p) \subseteq SpaceEvidence(p)'
      /\ GrantEvidence(p) \subseteq GrantEvidence(p)'
  BY DEF Learns, Kept, access
<1>2. \A row : HeldBy(p, row) => HeldBy(p, row)'
  BY <1>1 DEF HeldBy
<1>3. \A n : Proven(p, n) => Proven(p, n)'
  BY <1>1, MoreProves DEF Proven
<1>4. /\ \A s : Shown(SpaceEvidence(p), s) => Shown(SpaceEvidence(p)', s)
      /\ \A s, top : TrailTo(SpaceEvidence(p), s, top) => TrailTo(SpaceEvidence(p)', s, top)
  BY <1>1, MoreShows
<1>5. \A role, s : Reach(SpaceEvidence(p), GrantEvidence(p), role, s) =>
                   Reach(SpaceEvidence(p)', GrantEvidence(p)', role, s)
  BY <1>1, MoreReaches
<1>6. Sure(p) => Sure(p)'
  BY <1>1, <1>2 DEF Policy, Membership, Sure
<1>7. /\ \A rows : SpacesHeld(p, rows) => SpacesHeld(p, rows)'
      /\ \A rows : GrantsHeld(p, rows) => GrantsHeld(p, rows)'
  BY <1>1, <1>2 DEF SpacesHeld, GrantsHeld
<1>8. Mode(p)' = Mode(p) /\ Target(p)' = Target(p) /\ (Careful(p)' <=> Careful(p))
  BY <1>1 DEF Mode, Target, Careful
<1>9. QED
  BY <1>1, <1>3, <1>4, <1>5, <1>6, <1>7, <1>8

(* A step that finds nothing new. *)
LEMMA BecomeLearns ==
    ASSUME Shape, NEW p \in Procs, NEW STATE t, Become(p, t), DOMAIN t = Fields,
           \A x \in Kept \cup {"found"} : t[x] = txn[p][x],
           UNCHANGED access, locks \subseteq locks'
    PROVE  Learns(p) /\ txn'[p] = t
BY BecomeReplaces, GrowingEvidence DEF Replaced, Kept, FoundOk, Learns

LEMMA StepLearns ==
    ASSUME Shape, NEW p \in Procs, NEW STATE pc, Step(p, pc),
           UNCHANGED access, locks \subseteq locks'
    PROVE  Takes(p, {}, {}, pc)
BY BecomeLearns DEF Step, Shape, Fields, Kept, Takes

LEMMA LockLearns ==
    ASSUME Shape, NEW p \in Procs, NEW STATE pc, NEW STATE S, S \subseteq Spaces,
           \A s \in S : Live(s), Mode(p) # "batch",
           Lock(p, SpaceRows(S), "share"), Step(p, pc), UNCHANGED access
    PROVE  Takes(p, S, {}, pc)
<1>1. locks \subseteq locks' /\ \A s \in S : <<p, <<"space", s>>, "share">> \in locks'
  BY DEF Lock, SpaceRows
<1>2. Takes(p, {}, {}, pc)
  BY <1>1, StepLearns
<1>3. Mode(p)' # "batch"
  BY <1>2, LearningKeeps DEF Takes
<1>4. ASSUME NEW s \in S PROVE SpaceRow(s) \in SpaceEvidence(p)'
  BY <1>1, <1>3, <1>4 DEF Live, HeldBy, SpaceRow, access, SpaceEvidence
<1>5. QED
  BY <1>2, <1>4 DEF Takes

LEMMA LockGrantLearns ==
    ASSUME Shape, NEW p \in Procs, NEW STATE pc, NEW STATE g, g \in Grants, Mode(p) # "batch",
           Lock(p, GrantRows({g}), "share"), Step(p, pc), UNCHANGED access
    PROVE  Takes(p, {}, {g}, pc)
<1>1. locks \subseteq locks' /\ <<p, <<"grant", g>>, "share">> \in locks'
  BY DEF Lock, GrantRows
<1>2. Takes(p, {}, {}, pc)
  BY <1>1, StepLearns
<1>3. Mode(p)' # "batch"
  BY <1>2, LearningKeeps DEF Takes
<1>4. GrantRow(g) \in GrantEvidence(p)'
  BY <1>1, <1>3 DEF HeldBy, GrantRow, access, GrantEvidence
<1>5. QED
  BY <1>2, <1>4 DEF Takes

LEMMA DiscoverLearns ==
    ASSUME Shape, NEW p \in Procs, NEW STATE pc, NEW STATE S, S \subseteq Spaces,
           \A s \in S : Live(s), NEW STATE G, G \subseteq Grants, NEW STATE P,
           Mode(p) = "batch", Discover(p, S, G, P, pc), UNCHANGED access
    PROVE  txn'[p].pc = "denied" \/ Takes(p, S, G, pc)
<1> DEFINE found == Found(p, S, G, P)
           t == [txn[p] EXCEPT !.pc = pc, !.found = found]
<1>1. UNCHANGED locks /\ (Become(p, t) \/ Step(p, "denied"))
  BY DEF Discover
<1>2. CASE Step(p, "denied")
  BY <1>2, StepReplaces
<1>3. CASE Become(p, t)
  <2>1. /\ txn[p].found.spaces \cup {SpaceRow(s) : s \in S} = found.spaces
        /\ txn[p].found.grants \cup {GrantRow(g) : g \in G} = found.grants
    BY DEF Found
  <2> HIDE DEF found
  <2>2. /\ DOMAIN t = Fields /\ t.pc = pc /\ t.found = found
        /\ \A x \in Fields \ {"pc", "found"} : t[x] = txn[p][x]
    BY DEF Shape, Fields
  <2>3. txn'[p] = t
    BY <1>3, <2>2, BecomeReplaces DEF Replaced
  <2> HIDE DEF t
  <2>4. /\ \A x \in Kept : txn'[p][x] = txn[p][x]
        /\ \A x \in {"grant", "other", "path"} : txn'[p][x] = txn[p][x]
    BY <2>2, <2>3 DEF Fields, Kept
  <2>5. txn'[p].mode = txn[p].mode /\ Mode(p)' = "batch"
    BY <2>4 DEF Kept, Mode
  <2>6. /\ txn[p].found.spaces \subseteq txn'[p].found.spaces
        /\ txn[p].found.grants \subseteq txn'[p].found.grants
    BY <2>1, <2>2, <2>3
  <2>7. /\ SpaceEvidence(p) \subseteq SpaceEvidence(p)'
        /\ GrantEvidence(p) \subseteq GrantEvidence(p)'
    BY <1>1, <2>5, <2>6, GrowingEvidence
  <2>8. /\ \A s \in S : SpaceRow(s) \in SpaceEvidence(p)'
        /\ \A g \in G : GrantRow(g) \in GrantEvidence(p)'
    BY <2>1, <2>2, <2>3, <2>5 DEF SpaceEvidence, GrantEvidence
  <2>9. FoundOk(p) => FoundOk(p)'
    BY <2>1, <2>2, <2>3 DEF SpaceRow, GrantRow, Live, FoundOk
  <2>10. QED
    BY <1>1, <2>2, <2>3, <2>4, <2>7, <2>8, <2>9 DEF Takes, Learns
<1>4. QED
  BY <1>1, <1>2, <1>3

LEMMA ConfirmLearns ==
    ASSUME Shape, NEW p \in Procs, NEW STATE pc, NEW STATE g, g \in Grants, Careful(p),
           Confirm(p, g, pc), UNCHANGED access
    PROVE  txn'[p].pc = "denied" \/ Takes(p, {}, {g}, pc)
BY LockGrantLearns, DiscoverLearns DEF Confirm, Plain, Careful

----------------------------------------------------------------------------
(* The statements of a decision.                                           *)

Deepens(p) == Learns(p) /\ txn'[p].pc \in Inner /\ HeadOk(p)'

TargetOk(p) ==
    /\ Head(txn[p].todo) \in Powers \X Spaces /\ Target(p) \in Spaces
    /\ Head(txn[p].todo) = <<Need(p), Target(p)>>

LEMMA TargetIsSpace ==
    ASSUME NEW p \in Procs, HeadOk(p)
    PROVE  TargetOk(p) /\ AboutSpaces(txn[p].todo)
BY DEF HeadOk, AboutSpaces, TargetOk, Target, Need

LEMMA LoadTargetDeepens ==
    ASSUME Shape, NEW p \in Procs, Careful(p), HeadOk(p), LoadTarget(p), UNCHANGED access
    PROVE  txn'[p].pc = "denied" \/ Deepens(p)
<1> DEFINE s == Target(p)
<1>1. s \in Spaces /\ AboutSpaces(txn[p].todo)
  BY TargetIsSpace DEF TargetOk
<1>2. CASE ~Live(s)
  BY <1>2, StepReplaces DEF LoadTarget, Deny
<1>3. CASE Live(s)
  <2>1. txn'[p].pc = "denied" \/ Takes(p, {s}, {}, "look")
    BY <1>1, <1>3, LockLearns, DiscoverLearns DEF LoadTarget, Plain, Careful
  <2>2. SUFFICES ASSUME Takes(p, {s}, {}, "look") PROVE Deepens(p)
    BY <2>1
  <2>3. Learns(p) /\ txn'[p].pc = "look" /\ SpaceRow(s) \in SpaceEvidence(p)'
    BY <2>2 DEF Takes
  <2>4. txn'[p].todo = txn[p].todo /\ Target(p)' = s
    BY <2>3, LearningKeeps DEF Learns, Kept
  <2>5. Shown(SpaceEvidence(p)', s)
    BY <2>3 DEF Shown, SpaceRow
  <2> HIDE DEF s
  <2>6. HeadOk(p)'
    BY <1>1, <2>3, <2>4, <2>5 DEF HeadOk, Inner
  <2>7. QED
    BY <2>3, <2>6 DEF Deepens, Inner
<1>4. QED
  BY <1>2, <1>3

LEMMA DirectGrantIsOn ==
    ASSUME NEW s \in Spaces, DirectGrant(s) # None
    PROVE  Known(DirectGrant(s)) /\ grants[DirectGrant(s)].space = s
BY LowestOfSome DEF On, DirectGrant, Known

LEMMA InheritedGrantIsOne ==
    ASSUME NEW s \in Spaces, InheritedGrant(s) # None
    PROVE  Known(InheritedGrant(s))
BY LowestOfSome DEF InheritedGrant, On, Known

LEMMA LookDeepens ==
    ASSUME Shape, NEW p \in Procs, Careful(p), HeadOk(p), Look(p), UNCHANGED access
    PROVE  txn'[p].pc = "denied" \/ Deepens(p)
<1> DEFINE s == Target(p)
           free == txn[p].role = "admin" \/ s = Root
           direct == DirectGrant(s)
           inherited == InheritedGrant(s)
           t1 == [txn[p] EXCEPT !.pc = "need", !.grant = None]
           t2 == [txn[p] EXCEPT !.pc = "direct", !.grant = direct, !.other = inherited]
           t3 == [txn[p] EXCEPT !.pc = "path", !.grant = inherited]
<1>1. s \in Spaces /\ AboutSpaces(txn[p].todo)
  BY TargetIsSpace DEF TargetOk
<1>2. /\ direct # None => Known(direct) /\ grants[direct].space = s
      /\ inherited # None => Known(inherited)
  BY <1>1, DirectGrantIsOn, InheritedGrantIsOne
<1>3. At(p, "look") /\ locks \subseteq locks' /\ Shown(SpaceEvidence(p), s)
  BY DEF Look, HeadOk, Inner, At
<1>4. \/ Become(p, t1) /\ free
      \/ Become(p, t2) /\ direct # None
      \/ Become(p, t3) /\ inherited # None
      \/ Step(p, "denied")
  BY DEF Look
<1> HIDE DEF s, direct, inherited
<1>5. /\ DOMAIN t1 = Fields /\ DOMAIN t2 = Fields /\ DOMAIN t3 = Fields
      /\ t1.pc = "need" /\ t2.pc = "direct" /\ t3.pc = "path"
      /\ t2.grant = direct /\ t2.other = inherited /\ t3.grant = inherited
  BY DEF Shape, Fields
<1>6. \A x \in Kept \cup {"found"} : t1[x] = txn[p][x] /\ t2[x] = txn[p][x] /\ t3[x] = txn[p][x]
  BY DEF Shape, Fields, Kept
<1> HIDE DEF t1, t2, t3
<1>7. ASSUME NEW STATE t, Become(p, t), DOMAIN t = Fields, \A x \in Kept \cup {"found"} : t[x] = txn[p][x]
      PROVE  /\ Learns(p) /\ txn'[p] = t /\ txn'[p].todo = txn[p].todo
             /\ Target(p)' = s /\ Shown(SpaceEvidence(p)', s) /\ UNCHANGED grants
             /\ txn'[p].role = txn[p].role
  BY <1>3, <1>7, BecomeLearns, LearningKeeps DEF Learns, Kept, s
<1>8. CASE Become(p, t1) /\ free
  <2>1. /\ Learns(p) /\ txn'[p] = t1 /\ txn'[p].todo = txn[p].todo
        /\ Target(p)' = s /\ Shown(SpaceEvidence(p)', s)
        /\ txn'[p].role = txn[p].role
    BY <1>5, <1>6, <1>7, <1>8
  <2>2. Reach(SpaceEvidence(p)', GrantEvidence(p)', txn'[p].role, s)
    BY <1>8, <2>1 DEF Reach
  <2>3. HeadOk(p)'
    BY <1>1, <1>5, <2>1, <2>2 DEF HeadOk, Inner
  <2>4. QED
    BY <1>5, <2>1, <2>3 DEF Deepens, Inner
<1>9. CASE Become(p, t2) /\ direct # None
  <2>1. /\ Learns(p) /\ txn'[p] = t2 /\ txn'[p].todo = txn[p].todo
        /\ Target(p)' = s /\ Shown(SpaceEvidence(p)', s) /\ UNCHANGED grants
    BY <1>5, <1>6, <1>7, <1>9
  <2>2. \A g : Known(g) => Known(g)' /\ grants'[g].space = grants[g].space
    BY <2>1 DEF Known
  <2>3. /\ Known(txn[p].grant)' /\ grants'[txn'[p].grant].space = s
        /\ txn'[p].other # None => Known(txn[p].other)'
    BY <1>2, <1>5, <1>9, <2>1, <2>2
  <2>4. HeadOk(p)'
    BY <1>1, <1>5, <2>1, <2>2, <2>3 DEF HeadOk, Inner
  <2>5. QED
    BY <1>5, <2>1, <2>4 DEF Deepens, Inner
<1>10. CASE Become(p, t3) /\ inherited # None
  <2>1. /\ Learns(p) /\ txn'[p] = t3 /\ txn'[p].todo = txn[p].todo
        /\ Target(p)' = s /\ Shown(SpaceEvidence(p)', s) /\ UNCHANGED grants
    BY <1>5, <1>6, <1>7, <1>10
  <2>2. Known(txn[p].grant)'
    BY <1>2, <1>5, <1>10, <2>1 DEF Known
  <2>3. HeadOk(p)'
    BY <1>1, <1>5, <2>1, <2>2 DEF HeadOk, Inner
  <2>4. QED
    BY <1>5, <2>1, <2>3 DEF Deepens, Inner
<1>11. CASE Step(p, "denied")
  BY <1>11, StepReplaces
<1>12. QED
  BY <1>4, <1>8, <1>9, <1>10, <1>11

LEMMA ConfirmDirectDeepens ==
    ASSUME Shape, NEW p \in Procs, Careful(p), HeadOk(p), ConfirmDirect(p), UNCHANGED access
    PROVE  txn'[p].pc = "denied" \/ Deepens(p)
<1> DEFINE s == Target(p)
           g == txn[p].grant
           t == [txn[p] EXCEPT !.pc = "path", !.grant = txn[p].other]
<1>1. s \in Spaces /\ AboutSpaces(txn[p].todo)
  BY TargetIsSpace DEF TargetOk
<1>2. /\ At(p, "direct") /\ Shown(SpaceEvidence(p), s) /\ Known(g) /\ grants[g].space = s
      /\ txn[p].other # None => Known(txn[p].other)
  BY DEF ConfirmDirect, HeadOk, Inner, At
<1>3. \/ Confirm(p, g, "need") /\ grants[g].status = "live"
      \/ Step(p, "denied")
      \/ Become(p, t) /\ UNCHANGED locks /\ txn[p].other # None
  BY DEF ConfirmDirect, Careful, Plain
<1>4. CASE Confirm(p, g, "need") /\ grants[g].status = "live"
  <2>1. txn'[p].pc = "denied" \/ Takes(p, {}, {g}, "need")
    BY <1>2, <1>4, ConfirmLearns DEF Known
  <2>2. SUFFICES ASSUME Takes(p, {}, {g}, "need") PROVE Deepens(p)
    BY <2>1
  <2>3. Learns(p) /\ txn'[p].pc = "need" /\ GrantRow(g) \in GrantEvidence(p)'
    BY <2>2 DEF Takes
  <2>4. /\ txn'[p].todo = txn[p].todo /\ Target(p)' = s /\ Shown(SpaceEvidence(p)', s)
    BY <1>2, <2>3, LearningKeeps DEF Learns, Kept
  <2>5. GrantOn(GrantEvidence(p)', s)
    BY <1>2, <1>4, <2>3 DEF GrantOn, GrantRow
  <2>6. Reach(SpaceEvidence(p)', GrantEvidence(p)', txn'[p].role, s)
    BY <2>5 DEF Reach
  <2> HIDE DEF s, g
  <2>7. HeadOk(p)'
    BY <1>1, <2>3, <2>4, <2>6 DEF HeadOk, Inner
  <2>8. QED
    BY <2>3, <2>7 DEF Deepens, Inner
<1>5. CASE Become(p, t) /\ UNCHANGED locks /\ txn[p].other # None
  <2>1. /\ DOMAIN t = Fields /\ t.pc = "path" /\ t.grant = txn[p].other
        /\ \A x \in Kept \cup {"found"} : t[x] = txn[p][x]
    BY DEF Shape, Fields, Kept
  <2> HIDE DEF t, s, g
  <2>2. Learns(p) /\ txn'[p] = t
    BY <1>5, <2>1, BecomeLearns
  <2>3. /\ txn'[p].todo = txn[p].todo /\ Target(p)' = s /\ Shown(SpaceEvidence(p)', s)
        /\ UNCHANGED grants
    BY <1>2, <2>2, LearningKeeps DEF Learns, Kept, s
  <2>4. Known(txn[p].grant)'
    BY <1>2, <1>5, <2>1, <2>2, <2>3 DEF Known
  <2>5. HeadOk(p)'
    BY <1>1, <2>1, <2>2, <2>3, <2>4 DEF HeadOk, Inner
  <2>6. QED
    BY <2>1, <2>2, <2>5 DEF Deepens, Inner
<1>6. CASE Step(p, "denied")
  BY <1>6, StepReplaces
<1>7. QED
  BY <1>3, <1>4, <1>5, <1>6

LEMMA FindPathDeepens ==
    ASSUME Shape, Placed, Rooted(spaces), NEW p \in Procs, Careful(p), HeadOk(p), FindPath(p),
           UNCHANGED access
    PROVE  txn'[p].pc = "denied" \/ Deepens(p)
<1> DEFINE s == Target(p)
           g == txn[p].grant
           top == grants[g].space
           path == PathTo(s, top)
           t == [txn[p] EXCEPT !.pc = "lockPath", !.path = path]
           S == {path[i] : i \in DOMAIN path}
           P == {<<s, top, path>>}
<1>1. s \in Spaces /\ AboutSpaces(txn[p].todo)
  BY TargetIsSpace DEF TargetOk
<1>2. At(p, "path") /\ Shown(SpaceEvidence(p), s) /\ Known(g)
  BY DEF FindPath, HeadOk, Inner, At
<1>3. \/ Step(p, "denied")
      \/ path # <<>> /\ Mode(p) = "locked" /\ Become(p, t) /\ UNCHANGED locks
      \/ path # <<>> /\ Mode(p) # "locked" /\ Discover(p, S, {}, P, "inherited")
  BY DEF FindPath, Deny, Careful, Plain
<1>4. path # <<>> => PathOk(s, top, path)
  BY <1>1, PathToOk
<1> HIDE DEF s, path, top
<1>5. CASE path # <<>> /\ Mode(p) = "locked" /\ Become(p, t) /\ UNCHANGED locks
  <2>1. /\ DOMAIN t = Fields /\ t.pc = "lockPath" /\ t.path = path /\ t.grant = g
        /\ \A x \in Kept \cup {"found"} : t[x] = txn[p][x]
    BY DEF Shape, Fields, Kept
  <2> HIDE DEF t, g
  <2>2. Learns(p) /\ txn'[p] = t
    BY <1>5, <2>1, BecomeLearns
  <2>3. /\ txn'[p].todo = txn[p].todo /\ Target(p)' = s /\ Shown(SpaceEvidence(p)', s)
        /\ UNCHANGED grants /\ Mode(p)' = "locked"
    BY <1>2, <1>5, <2>2, LearningKeeps DEF Learns, Kept, s
  <2>4. Known(txn[p].grant)'
    BY <1>2, <2>1, <2>2, <2>3 DEF Known
  <2>5. path \in Seq(Spaces) /\ path # <<>> /\ path[Len(path)] = grants'[txn'[p].grant].space
    BY <1>4, <1>5, <2>1, <2>2, <2>3 DEF PathOk, top, g
  <2>6. HeadOk(p)'
    BY <1>1, <2>1, <2>2, <2>3, <2>4, <2>5 DEF HeadOk, Inner
  <2>7. QED
    BY <2>1, <2>2, <2>6 DEF Deepens, Inner
<1>6. CASE path # <<>> /\ Mode(p) # "locked" /\ Discover(p, S, {}, P, "inherited")
  <2>1. S \subseteq Spaces /\ \A x \in S : Live(x)
    BY <1>4, <1>6 DEF PathOk
  <2>2. \A i \in 1 .. Len(path) : path[i] \in S
    BY <1>4, <1>6 DEF PathOk
  <2> HIDE DEF S, P
  <2>3. Mode(p) = "batch" /\ {} \subseteq Grants
    BY <1>6 DEF Careful
  <2>4. txn'[p].pc = "denied" \/ Takes(p, S, {}, "inherited")
    BY <1>6, <2>1, <2>3, DiscoverLearns
  <2>5. SUFFICES ASSUME Takes(p, S, {}, "inherited") PROVE Deepens(p)
    BY <2>4
  <2>6. /\ Learns(p) /\ txn'[p].pc = "inherited" /\ txn'[p].grant = g
        /\ \A i \in 1 .. Len(path) : SpaceRow(path[i]) \in SpaceEvidence(p)'
    BY <2>2, <2>5 DEF Takes
  <2> HIDE DEF g
  <2>7. /\ txn'[p].todo = txn[p].todo /\ Target(p)' = s /\ Shown(SpaceEvidence(p)', s)
        /\ UNCHANGED grants
    BY <1>2, <2>6, LearningKeeps DEF Learns, Kept, s
  <2>8. TrailTo(SpaceEvidence(p)', s, top)
    BY <1>4, <1>6, <2>6, PathIsTrail
  <2>9. Known(txn[p].grant)' /\ grants'[txn'[p].grant].space = top
    BY <1>2, <2>6, <2>7 DEF Known, top, g
  <2>10. HeadOk(p)'
    BY <1>1, <2>6, <2>7, <2>8, <2>9 DEF HeadOk, Inner
  <2>11. QED
    BY <2>6, <2>10 DEF Deepens, Inner
<1>7. CASE Step(p, "denied")
  BY <1>7, StepReplaces
<1>8. QED
  BY <1>3, <1>5, <1>6, <1>7

LEMMA LockPathDeepens ==
    ASSUME Shape, Placed, Rooted(spaces), NEW p \in Procs, Careful(p), HeadOk(p), LockPath(p),
           UNCHANGED access
    PROVE  txn'[p].pc = "denied" \/ Deepens(p)
<1> DEFINE s == Target(p)
           g == txn[p].grant
           path == txn[p].path
           top == path[Len(path)]
           S == {path[i] : i \in DOMAIN path}
<1>1. s \in Spaces /\ AboutSpaces(txn[p].todo)
  BY TargetIsSpace DEF TargetOk
<1>2. /\ At(p, "lockPath") /\ Shown(SpaceEvidence(p), s) /\ Known(g) /\ Mode(p) = "locked"
      /\ path # <<>> /\ top = grants[g].space
  BY DEF LockPath, HeadOk, Inner, At
<1>3. \/ Step(p, "denied")
      \/ PathTo(s, top) = path /\ Lock(p, SpaceRows(S), "share") /\ Step(p, "inherited")
  BY DEF LockPath, Deny
<1>4. CASE Step(p, "denied")
  BY <1>4, StepReplaces
<1>5. CASE PathTo(s, top) = path /\ Lock(p, SpaceRows(S), "share") /\ Step(p, "inherited")
  <2>1. PathOk(s, top, path)
    BY <1>1, <1>2, <1>5, PathToOk
  <2> HIDE DEF s, path, top
  <2>2. path \in Seq(Spaces) /\ DOMAIN path = 1 .. Len(path) /\ \A i \in 1 .. Len(path) : Live(path[i])
    BY <2>1 DEF PathOk
  <2>3. S \subseteq Spaces /\ (\A x \in S : Live(x)) /\ \A i \in 1 .. Len(path) : path[i] \in S
    BY <2>2
  <2> HIDE DEF S
  <2>4. Takes(p, S, {}, "inherited")
    BY <1>2, <1>5, <2>3, LockLearns
  <2>5. /\ Learns(p) /\ txn'[p].pc = "inherited" /\ txn'[p].grant = g
        /\ \A i \in 1 .. Len(path) : SpaceRow(path[i]) \in SpaceEvidence(p)'
    BY <2>3, <2>4 DEF Takes
  <2> HIDE DEF g
  <2>6. /\ txn'[p].todo = txn[p].todo /\ Target(p)' = s /\ Shown(SpaceEvidence(p)', s)
        /\ UNCHANGED grants
    BY <1>2, <2>5, LearningKeeps DEF Learns, Kept, s
  <2>7. TrailTo(SpaceEvidence(p)', s, top)
    BY <2>1, <2>5, PathIsTrail
  <2>8. Known(txn[p].grant)' /\ grants'[txn'[p].grant].space = top
    BY <1>2, <2>5, <2>6 DEF Known
  <2>9. HeadOk(p)'
    BY <1>1, <2>5, <2>6, <2>7, <2>8 DEF HeadOk, Inner
  <2>10. QED
    BY <2>5, <2>9 DEF Deepens, Inner
<1>6. QED
  BY <1>3, <1>4, <1>5

LEMMA ConfirmInheritedDeepens ==
    ASSUME Shape, NEW p \in Procs, Careful(p), HeadOk(p), ConfirmInherited(p), UNCHANGED access
    PROVE  txn'[p].pc = "denied" \/ Deepens(p)
<1> DEFINE s == Target(p)
           g == txn[p].grant
           top == grants[g].space
<1>1. s \in Spaces /\ AboutSpaces(txn[p].todo)
  BY TargetIsSpace DEF TargetOk
<1>2. /\ At(p, "inherited") /\ Shown(SpaceEvidence(p), s) /\ Known(g)
      /\ TrailTo(SpaceEvidence(p), s, top)
  BY DEF ConfirmInherited, HeadOk, Inner, At
<1>3. \/ Confirm(p, g, "need") /\ grants[g].status = "live"
      \/ Step(p, "denied")
  BY DEF ConfirmInherited, Deny
<1>4. CASE Confirm(p, g, "need") /\ grants[g].status = "live"
  <2>1. txn'[p].pc = "denied" \/ Takes(p, {}, {g}, "need")
    BY <1>2, <1>4, ConfirmLearns DEF Known
  <2>2. SUFFICES ASSUME Takes(p, {}, {g}, "need") PROVE Deepens(p)
    BY <2>1
  <2>3. Learns(p) /\ txn'[p].pc = "need" /\ GrantRow(g) \in GrantEvidence(p)'
    BY <2>2 DEF Takes
  <2>4. /\ txn'[p].todo = txn[p].todo /\ Target(p)' = s /\ Shown(SpaceEvidence(p)', s)
    BY <1>2, <2>3, LearningKeeps DEF Learns, Kept
  <2>5. TrailTo(SpaceEvidence(p)', s, top)
    BY <1>2, <2>3, LearningKeeps
  <2>6. GrantOn(GrantEvidence(p)', top)
    BY <1>4, <2>3 DEF GrantOn, GrantRow
  <2> HIDE DEF s, g, top
  <2>7. Reach(SpaceEvidence(p)', GrantEvidence(p)', txn'[p].role, s)
    BY <2>5, <2>6 DEF Reach
  <2>8. HeadOk(p)'
    BY <1>1, <2>3, <2>4, <2>7 DEF HeadOk, Inner
  <2>9. QED
    BY <2>3, <2>8 DEF Deepens, Inner
<1>5. CASE Step(p, "denied")
  BY <1>5, StepReplaces
<1>6. QED
  BY <1>3, <1>4, <1>5

LEMMA ContributorGrantIsOn ==
    ASSUME NEW s \in Spaces, ContributorGrant(s) # None
    PROVE  /\ ContributorGrant(s) \in Grants
           /\ grants[ContributorGrant(s)].status = "live"
           /\ grants[ContributorGrant(s)].space = s
           /\ grants[ContributorGrant(s)].relation = "contributor"
BY LowestOfSome DEF On, ContributorGrant

LEMMA NeededDeepens ==
    ASSUME Shape, NEW p \in Procs, Careful(p), HeadOk(p), Needed(p), UNCHANGED access
    PROVE  txn'[p].pc = "denied" \/ Deepens(p)
<1> DEFINE s == Target(p)
           n == Head(txn[p].todo)
           g == ContributorGrant(s)
           role == txn[p].role
<1>1. s \in Spaces /\ AboutSpaces(txn[p].todo) /\ n = <<Need(p), s>>
  BY TargetIsSpace DEF TargetOk
<1>2. /\ At(p, "need") /\ Shown(SpaceEvidence(p), s)
      /\ Reach(SpaceEvidence(p), GrantEvidence(p), role, s)
  BY DEF Needed, HeadOk, Inner, At
<1>3. \/ Step(p, "denied")
      \/ /\ Need(p) = "contribute" /\ g # None /\ Confirm(p, g, "decided")
      \/ /\ Need(p) = "manage" => role = "admin"
         /\ Need(p) = "contribute" => role = "admin"
         /\ Step(p, "decided") /\ UNCHANGED locks
  BY DEF Needed, Deny
<1>4. ASSUME Learns(p), txn'[p].pc = "decided",
             Need(p) = "contribute" => role = "admin" \/ Contributes(GrantEvidence(p)', s),
             Need(p) = "manage" => role = "admin"
      PROVE  Deepens(p)
  <2>1. txn'[p].todo = txn[p].todo /\ txn'[p].role = role
    BY <1>4 DEF Learns, Kept
  <2>2. /\ Target(p)' = s /\ Shown(SpaceEvidence(p)', s)
        /\ Reach(SpaceEvidence(p)', GrantEvidence(p)', role, s)
    BY <1>2, <1>4, LearningKeeps
  <2>3. n[1] = Need(p) /\ n[2] = s
    BY <1>1
  <2> HIDE DEF s, n, role
  <2>4. Item(SpaceEvidence(p)', GrantEvidence(p)', role, n)
    BY <1>4, <2>2, <2>3 DEF Item
  <2>5. Proven(p, n)'
    BY <2>1, <2>4 DEF Proven, n
  <2>6. Proven(p, Head(txn[p].todo))'
    BY <2>5 DEF n
  <2>7. HeadOk(p)'
    BY <1>1, <1>4, <2>1, <2>2, <2>6 DEF HeadOk, Inner
  <2>8. QED
    BY <1>4, <2>7 DEF Deepens, Inner
<1>5. CASE Need(p) = "contribute" /\ g # None /\ Confirm(p, g, "decided")
  <2>1. g \in Grants /\ grants[g].status = "live" /\ grants[g].space = s
        /\ grants[g].relation = "contributor"
    BY <1>1, <1>5, ContributorGrantIsOn
  <2> HIDE DEF g, s
  <2>2. txn'[p].pc = "denied" \/ Takes(p, {}, {g}, "decided")
    BY <1>5, <2>1, ConfirmLearns
  <2>3. SUFFICES ASSUME Takes(p, {}, {g}, "decided") PROVE Deepens(p)
    BY <2>2
  <2>4. Learns(p) /\ txn'[p].pc = "decided" /\ GrantRow(g) \in GrantEvidence(p)'
    BY <2>3 DEF Takes
  <2>5. Contributes(GrantEvidence(p)', s)
    BY <2>1, <2>4 DEF Contributes, GrantRow
  <2>6. QED
    BY <1>4, <1>5, <2>4, <2>5
<1>6. CASE /\ Need(p) = "manage" => role = "admin"
           /\ Need(p) = "contribute" => role = "admin"
           /\ Step(p, "decided") /\ UNCHANGED locks
  <2>1. Takes(p, {}, {}, "decided")
    BY <1>6, StepLearns
  <2>2. QED
    BY <1>4, <1>6, <2>1 DEF Takes
<1>7. CASE Step(p, "denied")
  BY <1>7, StepReplaces
<1>8. QED
  BY <1>3, <1>5, <1>6, <1>7

----------------------------------------------------------------------------
(* The steps of its own decisions keep what AuthOk says.                   *)

LEMMA EndOfTail ==
    ASSUME NEW S, NEW rest \in Seq(S), rest # <<>>, NEW L, Len(L) \in Nat, EndOf(L, rest)
    PROVE  /\ EndOf(L, Tail(rest)) /\ Tail(rest) \in Seq(S)
           /\ Len(Tail(rest)) = Len(rest) - 1
           /\ Head(rest) = L[Len(L) - Len(rest) + 1]
           /\ Len(rest) \in Nat /\ Len(rest) >= 1 /\ Len(rest) <= Len(L)
BY HeadTailProperties DEF EndOf

LEMMA LastTodos ==
    ASSUME NEW kind \in Guarded
    PROVE  LastTodo(kind) \in Seq(Powers \X Spaces) /\ Len(LastTodo(kind)) \in {2, 4}
BY LockingTodo, EndSpaces DEF LastTodo, Locking

LEMMA LearningPasses ==
    ASSUME NEW p \in Procs, Learns(p), Passed(p),
           txn'[p].pc \in Deciding <=> txn[p].pc \in Deciding
    PROVE  Passed(p)'
BY LearningKeeps DEF Learns, Kept, Passed

(* The Space of the decision that is made has an access class that fits.   *)
LEMMA ScopedFits ==
    ASSUME NEW p \in Procs, Scoped(p), NEW n, n[1] # "enter", Head(txn[p].todo) = n
    PROVE  Fit(n[2])
BY DEF Scoped, Need, Target, Fit

LEMMA HeadOfOne ==
    ASSUME NEW D, NEW q \in Seq(D), Len(q) = 1
    PROVE  q # <<>> /\ Head(q) = q[1]
OBVIOUS

LEMMA LearningLocked ==
    ASSUME NEW p \in Procs, Learns(p), LockedOk(p), txn[p].kind \in Locking,
           txn[p].pc \in Deciding \ {"actor"}, txn'[p].pc \in Inner,
           At(p, "scope") => Scoped(p)
    PROVE  LockedOk(p)'
<1> DEFINE todo == txn[p].todo
           L == LastTodo(txn[p].kind)
<1>1. txn'[p].todo = todo /\ txn'[p].kind = txn[p].kind /\ Mode(p)' = Mode(p)
  BY LearningKeeps DEF Learns, Kept
<1>2. Passed(p)'
  BY LearningPasses DEF LockedOk, Deciding
<1>3. Sure(p)'
  BY LearningKeeps DEF LockedOk, At, Deciding
<1>4. Fit(Other)' <=> Fit(Other)
  BY LearningKeeps DEF Fit
<1>5. ASSUME Len(todo) = 1, At(p, "scope") PROVE Fit(Other)
  <2>1. L \in Seq(Powers \X Spaces) /\ Len(L) = 2 /\ L[2][1] # "enter" /\ L[2][2] = Other
    BY LockingTodo
  <2>2. todo \in Seq(Powers \X Spaces) /\ EndOf(L, todo)
    BY DEF LockedOk, Passed
  <2> HIDE DEF L
  <2>3. todo # <<>> /\ Head(todo) = todo[1]
    BY <1>5, <2>2, HeadOfOne
  <2>4. todo[1] = L[2]
    BY <1>5, <2>1, <2>2 DEF EndOf
  <2>5. QED
    BY <1>5, <2>1, <2>3, <2>4, ScopedFits
<1>6. Len(todo) = 2 \/ Fit(Other)
  BY <1>5 DEF LockedOk, At, Deciding
<1>7. QED
  BY <1>1, <1>2, <1>3, <1>4, <1>6 DEF LockedOk

LEMMA LearningBatch ==
    ASSUME NEW p \in Procs, Learns(p), BatchOk(p),
           txn[p].pc \in Deciding \ {"actor"}, txn'[p].pc \in Inner,
           At(p, "scope") => Scoped(p)
    PROVE  BatchOk(p)'
<1> DEFINE todo == txn[p].todo
<1>1. /\ txn'[p].todo = todo /\ txn'[p].kind = txn[p].kind /\ Mode(p)' = Mode(p)
      /\ txn'[p].requests = txn[p].requests /\ txn'[p].after = txn[p].after
      /\ txn'[p].expected = txn[p].expected
  BY LearningKeeps DEF Learns, Kept
<1>2. FoundOk(p)'
  BY DEF Learns, BatchOk
<1>3. /\ txn'[p].pc \in Deciding
      /\ txn[p].pc \notin Batching /\ txn'[p].pc \notin Batching /\ txn'[p].pc # "actor"
  BY DEF Deciding, Inner, Batching
<1>4. First(p)' <=> First(p)
  BY <1>1, <1>3 DEF First, Batching
<1>5. ASSUME ~First(p)
      PROVE  /\ Sure(p)' /\ Passed(p)'
             /\ SpacesHeld(p, txn[p].expected.spaces)' /\ GrantsHeld(p, txn[p].expected.grants)'
  BY <1>1, <1>3, <1>5, LearningPasses, LearningKeeps DEF BatchOk
<1>6. ASSUME ~First(p)
      PROVE  \A i \in DOMAIN EndRequests :
                LET n == EndRequests[i] IN
                n[1] # "enter" =>
                    (Unscoped(p, n) \/ Fit(n[2]) \/ ~Shown(txn[p].expected.spaces, n[2]))'
  <2> TAKE i \in DOMAIN EndRequests
  <2> DEFINE n == EndRequests[i]
             X == txn[p].expected.spaces
  <2> SUFFICES ASSUME n[1] # "enter"
               PROVE  (Unscoped(p, n) \/ Fit(n[2]) \/ ~Shown(X, n[2]))'
    OBVIOUS
  <2>1. Unscoped(p, n) \/ Fit(n[2]) \/ ~Shown(X, n[2])
    BY <1>6 DEF BatchOk
  <2>2. Shown(X, n[2])' <=> Shown(X, n[2])
    BY <1>1 DEF Shown
  <2>3. Fit(n[2]) => Fit(n[2])'
    BY LearningKeeps DEF Fit
  <2>4. CASE Unscoped(p, n)
    BY <1>1, <1>6, <2>3, <2>4, ScopedFits DEF Unscoped, BatchOk, Passed
  <2>5. QED
    BY <2>1, <2>2, <2>3, <2>4
<1>7. First(p) \/ txn[p].after = "compare"
  BY DEF BatchOk
<1>8. QED
  BY <1>1, <1>2, <1>3, <1>4, <1>5, <1>6, <1>7 DEF BatchOk, At, Batching

LEMMA LearningKeepsAuth ==
    ASSUME NEW p \in Procs, AuthOk(p), Active(p), txn[p].kind \in Guarded, Learns(p),
           txn[p].pc \in Deciding \ {"actor"}, txn'[p].pc \in Inner,
           At(p, "scope") => Scoped(p), Careful(p) => HeadOk(p)'
    PROVE  AuthOk(p)'
<1>1. /\ txn'[p].script = txn[p].script /\ txn'[p].kind = txn[p].kind
      /\ txn'[p].after = txn[p].after
      /\ Mode(p)' = Mode(p) /\ (Careful(p)' <=> Careful(p))
  BY LearningKeeps DEF Learns, Kept
<1>2. Last(p)' <=> Last(p)
  BY <1>1 DEF Last
<1>3. txn[p].pc \in Deciding /\ txn'[p].pc \in Deciding /\ txn'[p].pc \notin Batching
      /\ txn[p].pc \in Inner \cup {"scope"}
  BY DEF Deciding, Inner, Batching
<1>4. Sure(p) => Sure(p)'
  BY LearningKeeps
<1>5. Last(p) => IF txn[p].kind \in Locking THEN LockedOk(p)' ELSE BatchOk(p)'
  BY LearningLocked, LearningBatch DEF AuthOk
<1>6. QED
  BY <1>1, <1>2, <1>3, <1>4, <1>5 DEF AuthOk

LEMMA LoadScopeAuth ==
    ASSUME Shape, NEW p \in Procs, AuthOk(p), Active(p), txn[p].kind \in Guarded,
           LoadScope(p), UNCHANGED access
    PROVE  txn'[p].pc = "denied" \/ AuthOk(p)'
<1> DEFINE S == IF Need(p) = "own" THEN SpaceRows({Target(p)}) ELSE {}
           fits == Need(p) = "enter" \/ spaces[Target(p)].class <= Ceiling
<1>1. CASE ~fits
  BY <1>1, StepReplaces DEF LoadScope, Deny
<1>2. CASE fits
  <2>1. Lock(p, S, "share") /\ Step(p, "target") /\ At(p, "scope")
    BY <1>2 DEF LoadScope
  <2> HIDE DEF S
  <2>2. locks \subseteq locks'
    BY <2>1 DEF Lock
  <2>3. Takes(p, {}, {}, "target")
    BY <2>1, <2>2, StepLearns
  <2>4. Learns(p) /\ txn'[p].pc = "target" /\ txn'[p].todo = txn[p].todo
    BY <2>3 DEF Takes, Learns, Kept
  <2>5. Scoped(p)
    BY <1>2, <2>1, StepReplaces DEF Scoped
  <2>6. txn[p].pc \in Deciding \ {"actor"} /\ txn'[p].pc \in Inner
    BY <2>1, <2>4 DEF At, Deciding, Inner
  <2>7. Careful(p) => AboutSpaces(txn[p].todo)
    BY <2>6 DEF AuthOk, HeadOk
  <2>8. Careful(p) => HeadOk(p)'
    BY <2>4, <2>7 DEF HeadOk
  <2>9. QED
    BY <2>4, <2>5, <2>6, <2>8, LearningKeepsAuth
<1>3. QED
  BY <1>1, <1>2

(* The actor is read and, in locked mode, kept as it is.                   *)
LEMMA CheckActorAuth ==
    ASSUME Shape, NEW p \in Procs, AuthOk(p), Active(p), txn[p].kind \in Guarded,
           CheckActor(p), UNCHANGED access
    PROVE  txn'[p].pc = "denied" \/ AuthOk(p)'
<1> DEFINE t == [txn[p] EXCEPT !.pc = "scope", !.role = actor.role]
           rows == ActorRows[Mode(p)]
<1>1. CASE ~(actor.policy /\ actor.active)
  BY <1>1, StepReplaces DEF CheckActor, Deny
<1>2. CASE actor.policy /\ actor.active
  <2>1. Lock(p, rows, "share") /\ Become(p, t) /\ At(p, "actor")
    BY <1>2 DEF CheckActor
  <2>2. Mode(p) = "locked" => Policy \in rows /\ Membership \in rows
    BY DEF ActorRows
  <2> HIDE DEF rows
  <2>3. /\ DOMAIN t = Fields /\ t.pc = "scope" /\ t.role = actor.role
        /\ \A x \in Fields \ {"pc", "role"} : t[x] = txn[p][x]
    BY DEF Shape, Fields
  <2> HIDE DEF t
  <2>4. txn'[p] = t /\ locks \subseteq locks' /\ UNCHANGED <<spaces, grants, actor>>
        /\ \A row \in rows : <<p, row, "share">> \in locks'
    BY <2>1, <2>3, BecomeReplaces DEF Replaced, Lock, access
  <2>5. /\ txn'[p].pc = "scope" /\ txn'[p].role = actor.role
        /\ txn'[p].kind = txn[p].kind /\ txn'[p].script = txn[p].script
        /\ txn'[p].todo = txn[p].todo /\ txn'[p].mode = txn[p].mode
        /\ txn'[p].after = txn[p].after /\ txn'[p].found = txn[p].found
        /\ txn'[p].replay = txn[p].replay
        /\ Mode(p)' = Mode(p) /\ (Last(p)' <=> Last(p)) /\ (Careful(p)' <=> Careful(p))
    BY <2>3, <2>4 DEF Fields, Mode, Last, Careful
  <2>6. Mode(p) = "locked" => Sure(p)'
    BY <1>2, <2>2, <2>4, <2>5 DEF Sure, HeldBy
  <2>7. txn[p].pc \in Deciding /\ txn[p].pc = "actor" /\ txn'[p].pc \in Deciding
        /\ txn'[p].pc \notin Batching /\ txn'[p].pc \notin Inner
    BY <2>1, <2>5 DEF At, Deciding, Inner, Batching
  <2>8. Careful(p) => HeadOk(p)'
    BY <2>5, <2>7 DEF AuthOk, HeadOk, Inner
  <2>9. ASSUME Last(p) PROVE txn[p].kind \in Locking /\ LockedOk(p)'
    <3>1. txn[p].kind \in Locking /\ LockedOk(p)
      BY <2>1, <2>9 DEF AuthOk, BatchOk
    <3> DEFINE L == LastTodo(txn[p].kind)
               todo == txn[p].todo
    <3>2. Passed(p) /\ Mode(p) = "locked" /\ (Sure(p) \/ Len(todo) = 2)
      BY <3>1 DEF LockedOk
    <3>3. SpaceEvidence(p) \subseteq SpaceEvidence(p)' /\ GrantEvidence(p) \subseteq GrantEvidence(p)'
      BY <2>4, <2>5, GrowingEvidence
    <3>4. ASSUME Sure(p) PROVE \A n : Proven(p, n) => Proven(p, n)'
      BY <2>5, <3>3, <3>4, MoreProves DEF Sure, Proven
    <3>5. Passed(p)'
      <4>1. CASE Sure(p)
        BY <2>5, <2>7, <3>2, <3>4, <4>1 DEF Passed
      <4>2. CASE Len(todo) = 2
        <5>1. Len(L) = 2
          BY <3>1, LockingTodo
        <5> HIDE DEF L
        <5>2. 1 .. Len(L) - Len(todo) = {}
          BY <4>2, <5>1
        <5>3. QED
          BY <2>5, <2>7, <3>2, <5>2 DEF Passed, L
      <4>3. QED
        BY <3>2, <4>1, <4>2
    <3>6. Fit(Other)' <=> Fit(Other)
      BY <2>4 DEF Fit
    <3>7. Len(todo) = 2 \/ Len(todo) = 1 \/ Fit(Other)
      BY <3>1 DEF LockedOk
    <3>8. QED
      BY <2>5, <2>6, <3>1, <3>2, <3>5, <3>6, <3>7 DEF LockedOk
  <2>10. QED
    BY <2>5, <2>6, <2>7, <2>8, <2>9 DEF AuthOk
<1>3. QED
  BY <1>1, <1>2

(* A decision that is made is proven; the next one begins.                 *)
Recalls(p) ==
    /\ \A x \in {"kind", "script", "replay", "requests", "mode", "after", "role", "expected", "found"} :
          txn'[p][x] = txn[p][x]
    /\ UNCHANGED <<locks, spaces, grants, actor>>

LEMMA DecidedRecalls ==
    ASSUME Shape, NEW p \in Procs, Decided(p), UNCHANGED access
    PROVE  /\ Recalls(p) /\ At(p, "decided")
           /\ txn'[p].todo = Tail(txn[p].todo)
           /\ txn'[p].pc = IF Tail(txn[p].todo) = <<>> THEN txn[p].after
                           ELSE IF Mode(p) = "batch" THEN "scope" ELSE "actor"
<1> DEFINE rest == Tail(txn[p].todo)
           t1 == [txn[p] EXCEPT !.pc = txn[p].after, !.todo = rest]
           t2 == Decide(txn[p], rest, txn[p].mode, txn[p].after)
           Same == {"kind", "script", "replay", "requests", "mode", "after", "role", "expected", "found"}
<1>1. At(p, "decided") /\ IF rest = <<>> THEN Become(p, t1) ELSE Become(p, t2)
  BY DEF Decided
<1> HIDE DEF rest
<1>2. /\ DOMAIN t1 = Fields /\ t1.pc = txn[p].after /\ t1.todo = rest
      /\ \A x \in Same : t1[x] = txn[p][x]
  BY DEF Shape, Fields
<1>3. /\ DOMAIN t2 = Fields /\ t2.pc = (IF txn[p].mode = "batch" THEN "scope" ELSE "actor")
      /\ t2.todo = rest /\ \A x \in Same : t2[x] = txn[p][x]
  BY DEF Shape, Fields, Decide
<1> HIDE DEF t1, t2
<1>4. IF rest = <<>> THEN txn'[p] = t1 ELSE txn'[p] = t2
  BY <1>1, <1>2, <1>3, BecomeReplaces DEF Replaced
<1>5. UNCHANGED <<locks, spaces, grants, actor>>
  BY DEF Decided, access
<1>6. Recalls(p)
  BY <1>2, <1>3, <1>4, <1>5 DEF Recalls
<1>7. QED
  BY <1>1, <1>2, <1>3, <1>4, <1>6 DEF Mode, rest

LEMMA RecallingKeeps ==
    ASSUME NEW p \in Procs, Recalls(p)
    PROVE  /\ Mode(p)' = Mode(p) /\ (Careful(p)' <=> Careful(p)) /\ (Last(p)' <=> Last(p))
           /\ \A n : Proven(p, n) => Proven(p, n)'
           /\ Sure(p) => Sure(p)'
           /\ FoundOk(p) => FoundOk(p)'
           /\ \A rows : SpacesHeld(p, rows) => SpacesHeld(p, rows)'
           /\ \A rows : GrantsHeld(p, rows) => GrantsHeld(p, rows)'
<1>1. /\ txn'[p].kind = txn[p].kind /\ txn'[p].script = txn[p].script
      /\ txn'[p].mode = txn[p].mode /\ txn'[p].role = txn[p].role
      /\ txn'[p].found = txn[p].found
      /\ UNCHANGED <<locks, spaces, grants, actor>>
  BY DEF Recalls
<1>2. \A row : HeldBy(p, row)' <=> HeldBy(p, row)
  BY <1>1 DEF HeldBy
<1>3. Mode(p)' = Mode(p)
  BY <1>1 DEF Mode
<1>4. SpaceEvidence(p)' = SpaceEvidence(p) /\ GrantEvidence(p)' = GrantEvidence(p)
  BY <1>1, <1>2, <1>3 DEF SpaceEvidence, GrantEvidence, Live, SpaceRow, GrantRow
<1>5. \A n : Proven(p, n) => Proven(p, n)'
  BY <1>1, <1>4, MoreProves DEF Proven
<1>6. Sure(p) => Sure(p)'
  BY <1>1, <1>2 DEF Policy, Membership, Sure
<1>7. QED
  BY <1>1, <1>2, <1>3, <1>5, <1>6 DEF Careful, Last, FoundOk, SpacesHeld, GrantsHeld

LEMMA DecidedPasses ==
    ASSUME NEW p \in Procs, txn[p].kind \in Guarded, Recalls(p), Passed(p), HeadOk(p),
           At(p, "decided"), txn'[p].todo = Tail(txn[p].todo),
           txn'[p].pc \in Deciding <=> Tail(txn[p].todo) # <<>>
    PROVE  Passed(p)'
<1> DEFINE D == Powers \X Spaces
           L == LastTodo(txn[p].kind)
           todo == txn[p].todo
           done == Len(L) - Len(todo)
<1>1. L \in Seq(D) /\ Len(L) \in Nat
  BY LastTodos
<1>2. /\ todo \in Seq(D) /\ todo # <<>> /\ EndOf(L, todo)
      /\ \A i \in 1 .. done : Proven(p, L[i])
  BY DEF Passed, At, Deciding, Inner
<1>3. txn'[p].kind = txn[p].kind
  BY DEF Recalls
<1>4. Proven(p, Head(todo))
  BY DEF HeadOk, At
<1>5. \A n : Proven(p, n) => Proven(p, n)'
  BY RecallingKeeps
<1> HIDE DEF D, L, todo
<1>6. /\ EndOf(L, Tail(todo)) /\ Tail(todo) \in Seq(D) /\ Len(Tail(todo)) = Len(todo) - 1
      /\ Head(todo) = L[Len(L) - Len(todo) + 1]
      /\ Len(todo) \in Nat /\ Len(todo) >= 1 /\ Len(todo) <= Len(L)
  BY <1>1, <1>2, EndOfTail
<1>7. ASSUME NEW i \in 1 .. Len(L) - Len(Tail(todo)) PROVE Proven(p, L[i])
  BY <1>1, <1>2, <1>4, <1>6
<1>8. txn'[p].todo = Tail(todo) /\ LastTodo(txn'[p].kind) = L
  BY <1>3 DEF todo, L
<1>9. \A i \in 1 .. Len(L) - Len(Tail(todo)) : \A n : n = L[i] => Proven(p, n)'
  BY <1>5, <1>7
<1>10. txn'[p].pc \in Deciding <=> Tail(todo) # <<>>
  BY DEF todo
<1>11. QED
  BY <1>6, <1>8, <1>9, <1>10 DEF Passed, D

LEMMA TailOfTwo ==
    ASSUME NEW S, NEW q \in Seq(S), Len(q) = 2
    PROVE  Len(Tail(q)) = 1 /\ Tail(q) # <<>>
<1>1. q # <<>>
  OBVIOUS
<1>2. Len(Tail(q)) = 1
  BY <1>1, HeadTailProperties
<1>3. Tail(q) \in Seq(S)
  BY <1>1, HeadTailProperties
<1>4. \A r \in Seq(S) : Len(r) = 1 => r # <<>>
  OBVIOUS
<1>5. QED
  BY <1>2, <1>3, <1>4

LEMMA DecidedLocked ==
    ASSUME NEW p \in Procs, txn[p].kind \in Locking, Recalls(p), LockedOk(p), HeadOk(p),
           At(p, "decided"), txn'[p].todo = Tail(txn[p].todo),
           txn'[p].pc = (IF Tail(txn[p].todo) = <<>> THEN txn[p].after ELSE "actor"),
           txn[p].after \notin Deciding
    PROVE  LockedOk(p)'
<1> DEFINE todo == txn[p].todo
<1>1. Mode(p)' = "locked" /\ Passed(p) /\ Sure(p) /\ (Len(todo) = 2 \/ Fit(Other))
  BY RecallingKeeps DEF LockedOk, At
<1>2. txn'[p].pc \in Deciding <=> Tail(todo) # <<>>
  BY DEF Deciding
<1>3. txn[p].kind \in Guarded
  BY DEF Locking, Guarded
<1>4. Passed(p)'
  BY <1>1, <1>2, <1>3, DecidedPasses
<1>5. Sure(p)'
  BY <1>1, RecallingKeeps
<1>6. Fit(Other)' <=> Fit(Other)
  BY DEF Recalls, Fit
<1>7. Len(todo) = 2 => Len(Tail(todo)) = 1 /\ txn'[p].pc = "actor"
  BY <1>1, TailOfTwo DEF Passed
<1>8. QED
  BY <1>1, <1>4, <1>5, <1>6, <1>7 DEF LockedOk

LEMMA DecidedBatch ==
    ASSUME NEW p \in Procs, txn[p].kind \in Guarded, Recalls(p), BatchOk(p), HeadOk(p),
           At(p, "decided"), txn'[p].todo = Tail(txn[p].todo),
           txn'[p].pc = (IF Tail(txn[p].todo) = <<>> THEN txn[p].after ELSE "scope")
    PROVE  BatchOk(p)'
<1> DEFINE todo == txn[p].todo
<1>1. /\ Mode(p)' = "batch" /\ txn'[p].requests = EndRequests
      /\ txn'[p].after = txn[p].after /\ txn'[p].expected = txn[p].expected
      /\ FoundOk(p)'
  BY RecallingKeeps DEF BatchOk, Recalls
<1>2. txn[p].pc \in Deciding
  BY DEF At, Deciding, Inner
<1>3. CASE First(p)
  BY <1>1, <1>3 DEF First, At, Deciding, BatchOk
<1>4. CASE ~First(p)
  <2>1. /\ txn[p].after = "compare" /\ Sure(p) /\ Passed(p)
        /\ SpacesHeld(p, txn[p].expected.spaces) /\ GrantsHeld(p, txn[p].expected.grants)
    BY <1>2, <1>4 DEF BatchOk
  <2>2. txn'[p].pc \in Deciding <=> Tail(todo) # <<>>
    BY <2>1 DEF Deciding, Inner
  <2>3. Passed(p)'
    BY <2>1, <2>2, DecidedPasses
  <2>4. /\ Sure(p)'
        /\ SpacesHeld(p, txn[p].expected.spaces)' /\ GrantsHeld(p, txn[p].expected.grants)'
    BY <1>1, <2>1, RecallingKeeps
  <2>5. ASSUME NEW i \in DOMAIN EndRequests, EndRequests[i][1] # "enter"
        PROVE  (\/ Unscoped(p, EndRequests[i]) \/ Fit(EndRequests[i][2])
                \/ ~Shown(txn[p].expected.spaces, EndRequests[i][2]))'
    <3> DEFINE n == EndRequests[i]
               X == txn[p].expected.spaces
    <3>1. Unscoped(p, n) \/ Fit(n[2]) \/ ~Shown(X, n[2])
      BY <1>4, <2>5 DEF BatchOk
    <3>2. Shown(X, n[2])' <=> Shown(X, n[2])
      BY <1>1 DEF Shown
    <3>3. Fit(n[2]) => Fit(n[2])'
      BY DEF Recalls, Fit
    <3>4. Unscoped(p, n) => Unscoped(p, n)'
      <4> SUFFICES ASSUME Unscoped(p, n) PROVE Unscoped(p, n)'
        OBVIOUS
      <4>1. PICK k \in DOMAIN todo : todo[k] = n /\ k > 1
        BY DEF Unscoped, At
      <4>2. todo \in Seq(Powers \X Spaces)
        BY <2>1 DEF Passed
      <4>3. k \in 1 .. Len(todo)
        BY <4>1, <4>2
      <4>4. Tail(todo) # <<>> /\ k - 1 \in DOMAIN Tail(todo) /\ Tail(todo)[k - 1] = n
        BY <4>1, <4>2, <4>3, LaterItem
      <4>5. txn'[p].pc = "scope"
        BY <4>4
      <4>6. QED
        BY <4>4, <4>5 DEF Unscoped, At
    <3> HIDE DEF n, X
    <3>5. (Unscoped(p, n) \/ Fit(n[2]) \/ ~Shown(X, n[2]))'
      BY <3>1, <3>2, <3>3, <3>4
    <3>6. QED
      BY <3>5 DEF n, X
  <2>6. txn'[p].pc \in Deciding \cup Batching /\ txn'[p].pc \in {"compare", "scope"}
    BY <2>1 DEF Deciding, Batching
  <2>7. QED
    BY <1>1, <2>1, <2>3, <2>4, <2>5, <2>6 DEF BatchOk, At
<1>5. QED
  BY <1>3, <1>4

LEMMA DecidedAuth ==
    ASSUME Shape, NEW p \in Procs, ProcOk(p), AuthOk(p), Active(p), txn[p].kind \in Guarded,
           Decided(p), UNCHANGED access
    PROVE  AuthOk(p)'
<1> DEFINE rest == Tail(txn[p].todo)
<1>1. /\ Recalls(p) /\ At(p, "decided") /\ txn'[p].todo = rest
      /\ txn'[p].pc = IF rest = <<>> THEN txn[p].after
                      ELSE IF Mode(p) = "batch" THEN "scope" ELSE "actor"
  BY DecidedRecalls
<1>2. txn[p].pc \in Inner /\ txn[p].pc \in Deciding
  BY <1>1 DEF At, Inner, Deciding
<1>3. txn[p].after \in {"next", "lockActor", "compare"}
  BY <1>2 DEF ProcOk, DecisionOk
<1>4. txn[p].after \notin Deciding
  BY <1>3 DEF Deciding, Inner
<1>5. /\ txn'[p].kind = txn[p].kind /\ txn'[p].script = txn[p].script
      /\ txn'[p].after = txn[p].after /\ Mode(p)' = Mode(p)
      /\ (Careful(p)' <=> Careful(p)) /\ (Last(p)' <=> Last(p))
  BY <1>1, RecallingKeeps DEF Recalls
<1>6. txn'[p].pc \notin Inner /\ (Mode(p) = "locked" => txn'[p].pc # "scope")
  BY <1>1, <1>3 DEF Inner
<1>7. ASSUME Careful(p), txn'[p].pc \in Deciding PROVE HeadOk(p)'
  <2>1. AboutSpaces(txn[p].todo) /\ rest # <<>>
    BY <1>1, <1>2, <1>4, <1>7 DEF AuthOk, HeadOk
  <2>2. AboutSpaces(rest)
    BY <2>1, TailOfTodo
  <2>3. QED
    BY <1>1, <1>6, <2>2 DEF HeadOk, Inner
<1>8. ASSUME txn[p].kind \in Locking \/ ~Last(p)
      PROVE  txn'[p].pc \notin Batching /\ txn'[p].after = "next"
  BY <1>1, <1>2, <1>5, <1>8 DEF AuthOk, Batching
<1>9. ASSUME Last(p), txn[p].kind \in Locking PROVE LockedOk(p)'
  BY <1>1, <1>2, <1>4, <1>9, DecidedLocked DEF AuthOk, LockedOk, Careful
<1>10. ASSUME Last(p), txn[p].kind \notin Locking PROVE BatchOk(p)'
  BY <1>1, <1>2, <1>10, DecidedBatch DEF AuthOk, BatchOk, Careful
<1>11. EndOf(Script[txn'[p].kind], txn'[p].script)
  BY <1>5 DEF AuthOk
<1>12. txn[p].kind \in Locking => Mode(p) = "locked"
  BY <1>2 DEF AuthOk
<1>13. QED
  BY <1>5, <1>6, <1>7, <1>8, <1>9, <1>10, <1>11, <1>12 DEF AuthOk

(* A batch finds, locks, compares and finds again.                         *)
LEMMA BatchStepAuth ==
    ASSUME NEW p \in Procs, AuthOk(p), Active(p), Learns(p), BatchOk(p)',
           Last(p), txn[p].kind \notin Locking, txn'[p].pc \notin Deciding
    PROVE  AuthOk(p)'
BY DEF Learns, Kept, Last, Deciding, AuthOk, Active

LEMMA InBatch ==
    ASSUME NEW p \in Procs, AuthOk(p), Active(p), txn[p].kind \in Guarded,
           txn[p].pc \in Batching
    PROVE  Last(p) /\ txn[p].kind \notin Locking /\ BatchOk(p)
BY DEF AuthOk

LEMMA LockActorAuth ==
    ASSUME Shape, NEW p \in Procs, AuthOk(p), Active(p), txn[p].kind \in Guarded,
           LockActor(p), UNCHANGED access
    PROVE  txn'[p].pc = "denied" \/ AuthOk(p)'
<1> DEFINE S == {Policy, Membership}
<1>1. txn[p].pc \in Batching
  BY DEF LockActor, At, Batching
<1>2. Last(p) /\ txn[p].kind \notin Locking /\ BatchOk(p)
  BY <1>1, InBatch
<1>3. \/ Step(p, "denied")
      \/ /\ actor.policy /\ actor.active /\ actor.role = txn[p].role
         /\ Lock(p, S, "share") /\ Step(p, "lockSpaces")
  BY DEF LockActor, Deny
<1>4. CASE Step(p, "denied")
  BY <1>4, StepReplaces
<1>5. CASE /\ actor.policy /\ actor.active /\ actor.role = txn[p].role
           /\ Lock(p, S, "share") /\ Step(p, "lockSpaces")
  <2>1. locks \subseteq locks' /\ \A row \in S : <<p, row, "share">> \in locks'
    BY <1>5 DEF Lock
  <2> HIDE DEF S
  <2>2. Takes(p, {}, {}, "lockSpaces")
    BY <1>5, <2>1, StepLearns
  <2>3. /\ Learns(p) /\ txn'[p].pc = "lockSpaces" /\ txn'[p].role = txn[p].role
        /\ txn'[p].requests = txn[p].requests /\ Mode(p)' = Mode(p) /\ UNCHANGED actor
    BY <2>2, LearningKeeps DEF Takes, Learns, Kept
  <2>4. Sure(p)'
    BY <1>5, <2>1, <2>3 DEF Sure, HeldBy, S
  <2>5. First(p)'
    BY <2>3 DEF First
  <2>6. BatchOk(p)'
    BY <1>2, <2>3, <2>4, <2>5 DEF BatchOk, At, Learns
  <2>7. txn'[p].pc \notin Deciding
    BY <2>3 DEF Deciding, Inner
  <2>8. QED
    BY <1>2, <2>3, <2>6, <2>7, BatchStepAuth
<1>6. QED
  BY <1>3, <1>4, <1>5

LEMMA LockSpacesAuth ==
    ASSUME Shape, NEW p \in Procs, AuthOk(p), Active(p), txn[p].kind \in Guarded,
           LockSpaces(p), UNCHANGED access
    PROVE  txn'[p].pc = "denied" \/ AuthOk(p)'
<1> DEFINE rows == txn[p].found.spaces
           S == SpaceRows({r[1] : r \in rows})
<1>1. txn[p].pc \in Batching
  BY DEF LockSpaces, At, Batching
<1>2. Last(p) /\ txn[p].kind \notin Locking /\ BatchOk(p)
  BY <1>1, InBatch
<1>3. \/ Step(p, "denied")
      \/ /\ \A r \in rows : SpaceRow(r[1]) = r
         /\ Lock(p, S, "share") /\ Step(p, "lockGrants")
  BY DEF LockSpaces, Deny
<1>4. CASE Step(p, "denied")
  BY <1>4, StepReplaces
<1>5. CASE /\ \A r \in rows : SpaceRow(r[1]) = r
           /\ Lock(p, S, "share") /\ Step(p, "lockGrants")
  <2>1. /\ locks \subseteq locks'
        /\ \A r \in rows : <<p, <<"space", r[1]>>, "share">> \in locks'
    BY <1>5 DEF Lock, SpaceRows
  <2> HIDE DEF S
  <2>2. Takes(p, {}, {}, "lockGrants")
    BY <1>5, <2>1, StepLearns
  <2>3. /\ Learns(p) /\ txn'[p].pc = "lockGrants"
        /\ txn'[p].requests = txn[p].requests /\ Mode(p)' = Mode(p) /\ UNCHANGED spaces
    BY <2>2, LearningKeeps DEF Takes, Learns, Kept
  <2>4. txn'[p].found = txn[p].found
    BY <1>5, StepReplaces DEF Fields
  <2>5. Sure(p)'
    BY <1>2, <2>3, LearningKeeps DEF LockSpaces, BatchOk, At
  <2>6. ASSUME NEW r \in rows
        PROVE  /\ r[1] \in Spaces /\ r[2].status = "live"
               /\ HeldBy(p, <<"space", r[1]>>)' /\ spaces'[r[1]] = r[2]
    <3>1. SpaceRow(r[1]) = r
      BY <1>5
    <3>2. spaces[r[1]] = r[2]
      BY <3>1 DEF SpaceRow
    <3>3. QED
      BY <1>2, <2>1, <2>3, <3>2 DEF BatchOk, FoundOk, HeldBy
  <2>7. SpacesHeld(p, txn[p].found.spaces)'
    BY <2>4, <2>6 DEF SpacesHeld
  <2>8. First(p)'
    BY <2>3 DEF First
  <2>9. BatchOk(p)'
    BY <1>2, <2>3, <2>5, <2>7, <2>8 DEF BatchOk, At, Learns
  <2>10. txn'[p].pc \notin Deciding
    BY <2>3 DEF Deciding, Inner
  <2>11. QED
    BY <1>2, <2>3, <2>9, <2>10, BatchStepAuth
<1>6. QED
  BY <1>3, <1>4, <1>5

LEMMA CompareAuth ==
    ASSUME Shape, NEW p \in Procs, AuthOk(p), Active(p), txn[p].kind \in Guarded,
           Compare(p, "next"), UNCHANGED access
    PROVE  txn'[p].pc = "denied" \/ AuthOk(p)'
<1> DEFINE X == txn[p].expected
<1>1. txn[p].pc \in Batching /\ At(p, "compare")
  BY DEF Compare, At, Batching
<1>2. Last(p) /\ txn[p].kind \notin Locking /\ BatchOk(p)
  BY <1>1, InBatch
<1>3. \/ Step(p, "denied")
      \/ txn[p].found = X /\ Step(p, "next") /\ UNCHANGED locks
  BY DEF Compare
<1>4. CASE Step(p, "denied")
  BY <1>4, StepReplaces
<1>5. CASE txn[p].found = X /\ Step(p, "next") /\ UNCHANGED locks
  <2>1. Takes(p, {}, {}, "next")
    BY <1>5, StepLearns
  <2>2. /\ Learns(p) /\ txn'[p].pc = "next" /\ txn'[p].todo = txn[p].todo
        /\ txn'[p].expected = X
        /\ txn'[p].requests = txn[p].requests /\ Mode(p)' = Mode(p) /\ UNCHANGED spaces
    BY <2>1, LearningKeeps DEF Takes, Learns, Kept
  <2>3. txn'[p].found = txn[p].found
    BY <1>5, StepReplaces DEF Fields
  <2>4. ~First(p)
    BY <1>1 DEF First, At, Deciding, Inner
  <2>5. /\ Sure(p) /\ Passed(p) /\ SpacesHeld(p, X.spaces) /\ GrantsHeld(p, X.grants)
    BY <1>2, <2>4 DEF BatchOk
  <2>6. txn[p].pc \notin Deciding /\ txn'[p].pc \notin Deciding \cup Batching
    BY <1>1, <2>2 DEF At, Deciding, Inner, Batching
  <2>7. Passed(p)' /\ Sure(p)'
    BY <2>2, <2>5, <2>6, LearningKeeps, LearningPasses
  <2>8. SpacesHeld(p, txn[p].expected.spaces)' /\ GrantsHeld(p, txn[p].expected.grants)'
    BY <2>2, <2>5, LearningKeeps
  <2>9. ASSUME NEW i \in DOMAIN EndRequests, EndRequests[i][1] # "enter"
        PROVE  (\/ Unscoped(p, EndRequests[i]) \/ Fit(EndRequests[i][2])
                \/ ~Shown(txn[p].expected.spaces, EndRequests[i][2]))'
    <3> DEFINE n == EndRequests[i]
               Y == txn[p].expected.spaces
    <3>1. Unscoped(p, n) \/ Fit(n[2]) \/ ~Shown(Y, n[2])
      BY <1>2, <2>4, <2>9 DEF BatchOk
    <3>2. Shown(Y, n[2])' <=> Shown(Y, n[2])
      BY <2>2 DEF Shown
    <3>3. Fit(n[2]) => Fit(n[2])'
      BY <2>2 DEF Fit
    <3>4. Unscoped(p, n) => Unscoped(p, n)'
      BY <1>1, <2>2 DEF Unscoped, At
    <3> HIDE DEF n, Y
    <3>5. (Unscoped(p, n) \/ Fit(n[2]) \/ ~Shown(Y, n[2]))'
      BY <3>1, <3>2, <3>3, <3>4
    <3>6. QED
      BY <3>5 DEF n, Y
  <2>10. FoundOk(p)' /\ txn'[p].pc \notin {"lockSpaces", "lockGrants", "actor"}
    BY <1>2, <2>2 DEF BatchOk, Learns
  <2> HIDE DEF X
  <2>11. BatchOk(p)'
    BY <1>2, <1>5, <2>2, <2>3, <2>6, <2>7, <2>8, <2>9, <2>10 DEF BatchOk, At
  <2>12. QED
    BY <1>2, <2>2, <2>6, <2>11, BatchStepAuth
<1>6. QED
  BY <1>3, <1>4, <1>5

LEMMA EndDecisionsBegin ==
    AboutSpaces(EndRequests) /\ EndOf(EndRequests, EndRequests)
BY EndSpaces, EmptySeq DEF AboutSpaces, EndOf

LEMMA LockGrantsAuth ==
    ASSUME Shape, NEW p \in Procs, AuthOk(p), Active(p), txn[p].kind \in Guarded,
           LockGrants(p), UNCHANGED access
    PROVE  txn'[p].pc = "denied" \/ AuthOk(p)'
<1> DEFINE rows == txn[p].found.grants
           S == GrantRows({r[1] : r \in rows})
           d == Decide(txn[p], txn[p].requests, "batch", "compare")
           t == [d EXCEPT !.expected = txn[p].found, !.found = Nothing]
           Same == {"kind", "script", "requests", "role"}
<1>1. txn[p].pc \in Batching /\ At(p, "lockGrants")
  BY DEF LockGrants, At, Batching
<1>2. Last(p) /\ txn[p].kind \notin Locking /\ BatchOk(p) /\ txn[p].kind = "end"
  BY <1>1, InBatch DEF Guarded, Locking
<1>3. \/ Step(p, "denied")
      \/ /\ \A r \in rows : GrantRow(r[1]) = r
         /\ Lock(p, S, "share") /\ Become(p, t)
  BY DEF LockGrants, Deny
<1>4. CASE Step(p, "denied")
  BY <1>4, StepReplaces
<1>5. CASE /\ \A r \in rows : GrantRow(r[1]) = r
           /\ Lock(p, S, "share") /\ Become(p, t)
  <2>1. /\ locks \subseteq locks'
        /\ \A r \in rows : <<p, <<"grant", r[1]>>, "share">> \in locks'
    BY <1>5 DEF Lock, GrantRows
  <2>2. /\ DOMAIN d = Fields /\ d.pc = "scope" /\ d.mode = "batch" /\ d.after = "compare"
        /\ d.todo = txn[p].requests /\ \A x \in Same : d[x] = txn[p][x]
    BY DEF Shape, Fields, Decide
  <2> HIDE DEF S, d
  <2>3. /\ DOMAIN t = Fields /\ t.pc = "scope" /\ t.mode = "batch" /\ t.after = "compare"
        /\ t.todo = txn[p].requests /\ \A x \in Same : t[x] = txn[p][x]
        /\ t.expected = txn[p].found /\ t.found = Nothing
    BY <2>2 DEF Fields
  <2> HIDE DEF t
  <2>4. txn'[p] = t /\ txn[p].requests = EndRequests
    BY <1>2, <1>5, <2>3, BecomeReplaces DEF Replaced, BatchOk
  <2>5. /\ txn'[p].pc = "scope" /\ Mode(p)' = "batch" /\ txn'[p].after = "compare"
        /\ txn'[p].todo = EndRequests /\ txn'[p].requests = EndRequests
        /\ txn'[p].expected = txn[p].found /\ txn'[p].found = Nothing
        /\ txn'[p].kind = "end" /\ txn'[p].script = txn[p].script /\ txn'[p].role = txn[p].role
    BY <1>2, <2>3, <2>4 DEF Mode
  <2>6. UNCHANGED <<spaces, grants, actor>> /\ \A row : HeldBy(p, row) => HeldBy(p, row)'
    BY <2>1 DEF access, HeldBy
  <2>7. Sure(p) /\ SpacesHeld(p, txn[p].found.spaces) /\ FoundOk(p)
    BY <1>1, <1>2 DEF BatchOk, At
  <2>8. Sure(p)'
    BY <2>5, <2>6, <2>7 DEF Sure, Policy, Membership
  <2>9. SpacesHeld(p, txn[p].expected.spaces)'
    BY <2>5, <2>6, <2>7 DEF SpacesHeld
  <2>10. GrantsHeld(p, txn[p].expected.grants)'
    <3>1. ASSUME NEW r \in rows
          PROVE  r[1] \in Grants /\ HeldBy(p, <<"grant", r[1]>>)' /\ grants'[r[1]] = r[2]
      <4>1. GrantRow(r[1]) = r
        BY <1>5
      <4>2. grants[r[1]] = r[2]
        BY <4>1 DEF GrantRow
      <4>3. QED
        BY <2>1, <2>6, <2>7, <4>2 DEF FoundOk, HeldBy
    <3>2. QED
      BY <2>5, <3>1 DEF GrantsHeld
  <2>11. FoundOk(p)'
    BY <2>5 DEF FoundOk, Nothing
  <2>12. LastTodo(txn'[p].kind) = EndRequests
    BY <2>5 DEF LastTodo
  <2>13. Passed(p)'
    <3>1. EndRequests # <<>> /\ txn'[p].pc \in Deciding
      BY <2>5, EndDecisionsBegin DEF AboutSpaces, Deciding
    <3>2. 1 .. Len(EndRequests) - Len(EndRequests) = {}
      BY EndSpaces
    <3>3. QED
      BY <2>5, <2>12, <3>1, <3>2, EndSpaces, EndDecisionsBegin DEF Passed
  <2>14. \A i \in DOMAIN EndRequests : Unscoped(p, EndRequests[i])'
    BY <2>5 DEF Unscoped, At
  <2>15. txn'[p].pc \in Deciding /\ txn'[p].pc \notin Inner /\ txn'[p].pc \notin Batching
    BY <2>5 DEF Deciding, Inner, Batching
  <2>16. BatchOk(p)'
    BY <2>5, <2>8, <2>9, <2>10, <2>11, <2>13, <2>14, <2>15 DEF BatchOk, At
  <2>17. Last(p)' /\ EndOf(Script[txn'[p].kind], txn'[p].script)
    BY <1>2, <2>5 DEF Last, AuthOk
  <2>18. HeadOk(p)'
    BY <2>5, <2>15, EndDecisionsBegin DEF HeadOk, Inner
  <2>19. txn'[p].kind \notin Locking
    BY <2>5 DEF Locking
  <2>20. QED
    BY <2>5, <2>16, <2>17, <2>18, <2>19 DEF AuthOk
<1>6. QED
  BY <1>3, <1>4, <1>5

(* A statement inside of a decision that is not yet made.                  *)
LEMMA InnerAuth ==
    ASSUME Shape, Placed, Rooted(spaces), NEW p \in Procs, ProcOk(p), AuthOk(p), Active(p),
           txn[p].kind \in Guarded, UNCHANGED access,
           LoadTarget(p) \/ Look(p) \/ ConfirmDirect(p) \/ FindPath(p) \/ LockPath(p)
               \/ ConfirmInherited(p) \/ Needed(p)
    PROVE  txn'[p].pc = "denied" \/ AuthOk(p)'
<1>1. txn[p].pc \in Inner
  BY DEF LoadTarget, Look, ConfirmDirect, FindPath, LockPath, ConfirmInherited, Needed, At, Inner
<1>2. txn[p].pc \in Deciding \ {"actor"} /\ ~At(p, "scope")
  BY <1>1 DEF Deciding, Inner, At
<1>3. CASE Careful(p)
  <2>1. HeadOk(p)
    BY <1>2, <1>3 DEF AuthOk
  <2>2. txn'[p].pc = "denied" \/ Deepens(p)
    BY <1>3, <2>1, LoadTargetDeepens, LookDeepens, ConfirmDirectDeepens, FindPathDeepens,
       LockPathDeepens, ConfirmInheritedDeepens, NeededDeepens
  <2>3. QED
    BY <1>2, <2>2, LearningKeepsAuth DEF Deepens
<1>4. CASE ~Careful(p)
  <2>1. Mode(p) \in Modes
    BY <1>2 DEF ProcOk, DecisionOk
  <2>2. Effect(p)
    BY <2>1, LoadTargetEffect, LookEffect, ConfirmDirectEffect, FindPathEffect, LockPathEffect,
       ConfirmInheritedEffect, NeededEffect
  <2>3. (~Begun(p) /\ ~Scoped(p) /\ ~Concluded(p)) \/ Needed(p)
    BY <1>1 DEF Begun, Scoped, Concluded, At, Inner, LoadTarget, Look, ConfirmDirect, FindPath,
                LockPath, ConfirmInherited
  <2>4. ~Begun(p) /\ ~Scoped(p) /\ ~Concluded(p)
    BY <2>3 DEF Begun, Scoped, Concluded, At, Needed
  <2>5. txn'[p].pc \in Inner \cup {"denied"} /\ SameDecision(p)
    BY <1>2, <2>2, <2>4 DEF Effect, Moves, Looked, Compared, Denied, Deciding, Inner, Batching
  <2>6. SUFFICES ASSUME txn'[p].pc \in Inner PROVE AuthOk(p)'
    BY <2>5
  <2>7. /\ txn'[p].kind = txn[p].kind /\ txn'[p].script = txn[p].script
        /\ txn'[p].after = txn[p].after /\ Mode(p)' = Mode(p)
        /\ (Last(p)' <=> Last(p)) /\ (Careful(p)' <=> Careful(p))
    BY <2>2, <2>5 DEF Effect, Steady, Lasting, SameDecision, Mode, Last, Careful
  <2>8. txn'[p].pc \in Deciding /\ txn'[p].pc \notin Batching
    BY <2>6 DEF Deciding, Inner, Batching
  <2>9. ~Last(p) /\ txn[p].kind \notin Locking
    BY <1>2, <1>4 DEF AuthOk, LockedOk, BatchOk, Careful
  <2>10. Mode(p) # "locked"
    BY <1>4 DEF Careful
  <2>11. QED
    BY <1>2, <1>4, <2>7, <2>8, <2>9, <2>10 DEF AuthOk
<1>5. QED
  BY <1>3, <1>4

LEMMA DecisionAuth ==
    ASSUME IInv, Tree(spaces), NEW p \in Procs, AuthOk(p), Decision(p)
    PROVE  AuthOk(p)'
<1>1. Shape /\ ProcOk(p) /\ TablesOk /\ Authorize(p) /\ UNCHANGED access
  BY DEF IInv, Decision, Authorize
<1>2. Placed /\ Rooted(spaces)
  BY <1>1, TablesArePlaced DEF Tree
<1>3. txn[p].pc \in Deciding => Mode(p) \in Modes
  BY <1>1 DEF ProcOk, DecisionOk
<1>4. Effect(p) /\ txn[p].pc \in Deciding \cup Batching
  BY <1>1, <1>3, AuthorizeEffect
<1>5. txn'[p].kind = txn[p].kind /\ txn'[p].replay = txn[p].replay
  BY <1>4 DEF Effect, Steady, Lasting
<1>6. txn[p].pc \notin {"idle", "denied", "invalid"}
  BY <1>4 DEF Deciding, Inner, Batching
<1>7. SUFFICES ASSUME Active(p)', txn'[p].kind \in Guarded PROVE AuthOk(p)'
  BY DEF AuthOk
<1>8. Active(p) /\ txn[p].kind \in Guarded /\ txn'[p].pc # "denied"
  BY <1>5, <1>6, <1>7 DEF Active
<1>9. CASE LoadTarget(p) \/ Look(p) \/ ConfirmDirect(p) \/ FindPath(p) \/ LockPath(p)
               \/ ConfirmInherited(p) \/ Needed(p)
  BY <1>1, <1>2, <1>8, <1>9, InnerAuth
<1>10. CASE CheckActor(p) \/ LoadScope(p) \/ Decided(p)
  BY <1>1, <1>8, <1>10, CheckActorAuth, LoadScopeAuth, DecidedAuth
<1>11. CASE LockActor(p) \/ LockSpaces(p) \/ LockGrants(p) \/ Compare(p, "next")
  BY <1>1, <1>8, <1>11, LockActorAuth, LockSpacesAuth, LockGrantsAuth, CompareAuth
<1>12. QED
  BY <1>1, <1>9, <1>10, <1>11 DEF Authorize

----------------------------------------------------------------------------
(* The scripts of the commands whose authority is locked: the last of      *)
(* their decisions are those of LastTodo.                                  *)

Later(S, i, do) == \E k \in DOMAIN S : k > i /\ S[k].do = do

DictatesLocked(S, todo) ==
    /\ \E n \in Nat : DOMAIN S = 1 .. n /\ Len(S) = n
    /\ Ahead(S, "decide")
    /\ \A i \in DOMAIN S :
          /\ S[i].do # "batch"
          /\ S[i].do = "decide" =>
                /\ S[i].mode = "locked" /\ AboutSpaces(S[i].todo)
                /\ S[i].todo = todo \/ Later(S, i, "decide")

DictatesBatch(S) ==
    /\ \E n \in Nat : DOMAIN S = 1 .. n /\ Len(S) = n
    /\ Ahead(S, "batch")
    /\ \A i \in DOMAIN S :
          /\ S[i].do = "decide" => S[i].mode = "unlocked" /\ Later(S, i, "batch")
          /\ S[i].do = "batch" => S[i].todo = EndRequests /\ ~Later(S, i, "batch")

LEMMA LastTodoIsAbout ==
    ASSUME NEW kind \in Guarded
    PROVE  AboutSpaces(LastTodo(kind))
BY LastTodos, EmptySeq DEF AboutSpaces

LEMMA OwnIsAbout == AboutSpaces(<<<<"own", Other>>>>)
BY NeedsScope, WorkAssumption, ShortTodos DEF TodoOk

LEMMA CorrectDictates == DictatesLocked(CorrectSource, LastTodo("correct"))
BY StepDo, LastTodoIsAbout DEF CorrectSource, LastTodo, Guarded, Ahead, DictatesLocked

LEMMA TombstoneDictates == DictatesLocked(TombstoneSource, LastTodo("tombstone"))
BY StepDo, LastTodoIsAbout DEF TombstoneSource, LastTodo, Guarded, Ahead, DictatesLocked

LEMMA AcceptDictates == DictatesLocked(AcceptFact, LastTodo("accept"))
<1> DEFINE T == LastTodo("accept")
           U == <<<<"own", Other>>>>
           a == DecideStep("locked", U)
           b == DecideStep("locked", T)
           c == WriteStep({"fact"} \cup Messages)
           S == AcceptFact
<1>1. S = <<a, ReserveStep, b, c>>
  BY DEF AcceptFact, LastTodo
<1>2. /\ a.do = "decide" /\ a.mode = "locked" /\ a.todo = U
      /\ b.do = "decide" /\ b.mode = "locked" /\ b.todo = T
      /\ c.do = "write" /\ ReserveStep.do = "reserve"
  BY StepDo
<1>3. AboutSpaces(T) /\ AboutSpaces(U)
  BY LastTodoIsAbout, OwnIsAbout DEF Guarded
<1> HIDE DEF T, U, a, b, c, S
<1>4. /\ DOMAIN S = 1 .. 4 /\ Len(S) = 4 /\ S[1] = a /\ S[2] = ReserveStep /\ S[3] = b /\ S[4] = c
  BY <1>1
<1>5. Ahead(S, "decide")
  BY <1>2, <1>4 DEF Ahead
<1>6. Later(S, 1, "decide")
  BY <1>2, <1>4 DEF Later
<1>7. ASSUME NEW i \in DOMAIN S
      PROVE  /\ S[i].do # "batch"
             /\ S[i].do = "decide" =>
                   /\ S[i].mode = "locked" /\ AboutSpaces(S[i].todo)
                   /\ S[i].todo = T \/ Later(S, i, "decide")
  BY <1>2, <1>3, <1>4, <1>6
<1>8. DictatesLocked(S, T)
  BY <1>4, <1>5, <1>7 DEF DictatesLocked
<1>9. QED
  BY <1>8 DEF S, T

LEMMA EndDictates == DictatesBatch(EndRelationship)
BY StepDo DEF EndRelationship, BatchStep, Ahead, Later, DictatesBatch

LEMMA ScriptOfGuarded ==
    ASSUME NEW kind \in Guarded
    PROVE  /\ kind \in Kinds /\ kind \notin Creations
           /\ kind \in Locking => DictatesLocked(Script[kind], LastTodo(kind))
           /\ kind \notin Locking => kind = "end" /\ DictatesBatch(Script[kind])
<1>1. /\ Script["end"] = EndRelationship /\ Script["correct"] = CorrectSource
      /\ Script["tombstone"] = TombstoneSource /\ Script["accept"] = AcceptFact
      /\ {"end", "correct", "tombstone", "accept"} \subseteq Kinds
  BY DEF Script, Kinds
<1>2. kind \notin Creations
  BY DEF Guarded, Creations
<1>3. QED
  BY <1>1, <1>2, CorrectDictates, TombstoneDictates, AcceptDictates, EndDictates
     DEF Guarded, Locking

(* The head of what is left of a script, and what comes after it.          *)
LEMMA HeadOfRest ==
    ASSUME NEW S, NEW n \in Nat, DOMAIN S = 1 .. n, Len(S) = n,
           NEW T, NEW rest \in Seq(T), rest # <<>>, EndOf(S, rest)
    PROVE  \E i \in DOMAIN S :
              /\ Head(rest) = S[i]
              /\ \A do : Ahead(Tail(rest), do) <=> Later(S, i, do)
<1> DEFINE i == n - Len(rest) + 1
<1>1. /\ EndOf(S, Tail(rest)) /\ Tail(rest) \in Seq(T)
      /\ Len(Tail(rest)) = Len(rest) - 1
      /\ Head(rest) = S[n - Len(rest) + 1]
      /\ Len(rest) \in Nat /\ Len(rest) >= 1 /\ Len(rest) <= n
  BY EndOfTail
<1>2. i \in DOMAIN S /\ i \in Nat
  BY <1>1
<1>3. /\ DOMAIN Tail(rest) = 1 .. n - i
      /\ \A j \in 1 .. n - i : Tail(rest)[j] = S[i + j]
  BY <1>1 DEF EndOf
<1>4. Head(rest) = S[i]
  BY <1>1
<1> HIDE DEF i
<1>5. ASSUME NEW do, Ahead(Tail(rest), do) PROVE Later(S, i, do)
  <2>1. PICK j \in 1 .. n - i : S[i + j].do = do
    BY <1>3, <1>5 DEF Ahead
  <2>2. i + j \in DOMAIN S /\ i + j > i
    BY <1>2, <2>1
  <2>3. QED
    BY <2>1, <2>2 DEF Later
<1>6. ASSUME NEW do, Later(S, i, do) PROVE Ahead(Tail(rest), do)
  <2>1. PICK k \in DOMAIN S : k > i /\ S[k].do = do
    BY <1>6 DEF Later
  <2>2. k - i \in 1 .. n - i /\ i + (k - i) = k
    BY <1>2, <2>1
  <2>3. Tail(rest)[k - i] = S[k] /\ k - i \in DOMAIN Tail(rest)
    BY <1>3, <2>2
  <2>4. QED
    BY <2>1, <2>3 DEF Ahead
<1>7. QED
  BY <1>2, <1>4, <1>5, <1>6

----------------------------------------------------------------------------
(* The other steps of a script keep what is known.                         *)

Plods(p) ==
    /\ At(p, "next") /\ txn'[p].pc \in {"next", "commit"}
    /\ \A x \in {"kind", "replay", "requests", "todo", "mode", "after", "role", "expected", "found"} :
          txn'[p][x] = txn[p][x]
    /\ UNCHANGED access /\ locks \subseteq locks'
    /\ \/ txn'[p].script = txn[p].script
       \/ /\ txn[p].script # <<>> /\ txn'[p].script = Rest(p)
          /\ StepOf(p).do \notin {"decide", "batch"}

LEMMA PloddingKeeps ==
    ASSUME NEW p \in Procs, Plods(p)
    PROVE  /\ Mode(p)' = Mode(p) /\ UNCHANGED <<spaces, grants, actor>>
           /\ \A n : Proven(p, n) => Proven(p, n)'
           /\ Sure(p) => Sure(p)'
           /\ FoundOk(p) => FoundOk(p)'
           /\ \A rows : SpacesHeld(p, rows) => SpacesHeld(p, rows)'
           /\ \A rows : GrantsHeld(p, rows) => GrantsHeld(p, rows)'
<1>1. /\ txn'[p].mode = txn[p].mode /\ txn'[p].role = txn[p].role
      /\ txn'[p].found = txn[p].found
      /\ UNCHANGED <<spaces, grants, actor>> /\ locks \subseteq locks'
  BY DEF Plods, access
<1>2. \A row : HeldBy(p, row) => HeldBy(p, row)'
  BY <1>1 DEF HeldBy
<1>3. /\ SpaceEvidence(p) \subseteq SpaceEvidence(p)'
      /\ GrantEvidence(p) \subseteq GrantEvidence(p)'
  BY <1>1, GrowingEvidence DEF Plods
<1>4. \A n : Proven(p, n) => Proven(p, n)'
  BY <1>1, <1>3, MoreProves DEF Proven
<1>5. Sure(p) => Sure(p)'
  BY <1>1, <1>2 DEF Policy, Membership, Sure
<1>6. QED
  BY <1>1, <1>2, <1>4, <1>5 DEF Mode, FoundOk, SpacesHeld, GrantsHeld

LEMMA PloddingScript ==
    ASSUME NEW p \in Procs, txn[p].kind \in Guarded, ProcOk(p), Plods(p),
           EndOf(Script[txn[p].kind], txn[p].script)
    PROVE  /\ EndOf(Script[txn'[p].kind], txn'[p].script) /\ (Last(p)' <=> Last(p))
<1> DEFINE kind == txn[p].kind
           script == txn[p].script
           T == StepsOf(kind)
           S == Script[kind]
<1>1. script \in Seq(T)
  BY DEF ProcOk, TxnOk, Plods, At
<1>2. txn'[p].kind = kind
  BY DEF Plods
<1>3. Len(S) \in Nat
  BY ScriptOfGuarded DEF DictatesLocked, DictatesBatch
<1>4. CASE txn'[p].script = script
  BY <1>2, <1>4 DEF Last
<1>5. CASE /\ script # <<>> /\ txn'[p].script = Tail(script)
           /\ Head(script).do \notin {"decide", "batch"}
  <2> HIDE DEF S, T
  <2>1. EndOf(S, Tail(script))
    BY <1>1, <1>3, <1>5, EndOfTail DEF S
  <2>2. \A do : Ahead(script, do) /\ Head(script).do # do => Ahead(Tail(script), do)
    BY <1>1, <1>5, HeadAndTail
  <2>3. ASSUME NEW do, Ahead(Tail(script), do) PROVE Ahead(script, do)
    BY <1>1, <1>5, <2>3, HeadTailProperties DEF Ahead
  <2>4. LastDo(kind) \in {"decide", "batch"}
    BY DEF LastDo
  <2>5. Ahead(Tail(script), LastDo(kind)) <=> Ahead(script, LastDo(kind))
    BY <1>5, <2>2, <2>3, <2>4
  <2>6. QED
    BY <1>2, <1>5, <2>1, <2>5 DEF Last, S
<1>6. QED
  BY <1>4, <1>5 DEF Plods, Rest, StepOf

LEMMA PloddingAuth ==
    ASSUME NEW p \in Procs, ProcOk(p), AuthOk(p), Active(p), txn[p].kind \in Guarded, Plods(p)
    PROVE  AuthOk(p)'
<1>1. /\ txn'[p].kind = txn[p].kind /\ txn'[p].todo = txn[p].todo
      /\ txn'[p].expected = txn[p].expected /\ txn'[p].found = txn[p].found
      /\ txn'[p].requests = txn[p].requests /\ txn'[p].after = txn[p].after
      /\ txn[p].pc = "next" /\ txn'[p].pc \in {"next", "commit"}
  BY DEF Plods, At
<1>2. \A pc \in {"next", "commit"} :
          pc \notin Deciding /\ pc \notin Inner /\ pc \notin Batching /\ pc \notin {"actor", "scope"}
  BY DEF Deciding, Inner, Batching
<1>3. EndOf(Script[txn'[p].kind], txn'[p].script) /\ (Last(p)' <=> Last(p))
  BY PloddingScript DEF AuthOk
<1>4. Passed(p) => Passed(p)'
  BY <1>1, <1>2, PloddingKeeps DEF Passed
<1>5. LockedOk(p) => LockedOk(p)'
  BY <1>1, <1>2, <1>4, PloddingKeeps DEF Fit, LockedOk, At
<1>6. ASSUME BatchOk(p) PROVE BatchOk(p)'
  <2>1. ~First(p) /\ ~First(p)'
    BY <1>1, <1>2 DEF First
  <2>2. /\ Sure(p)' /\ Passed(p)' /\ FoundOk(p)' /\ Mode(p)' = "batch"
        /\ SpacesHeld(p, txn[p].expected.spaces)'
        /\ GrantsHeld(p, txn[p].expected.grants)'
    BY <1>1, <1>4, <1>6, <2>1, PloddingKeeps DEF BatchOk
  <2>3. ASSUME NEW n PROVE (Unscoped(p, n) => Unscoped(p, n)') /\ (Fit(n[2]) => Fit(n[2])')
    BY <1>1, PloddingKeeps DEF Unscoped, At, Fit
  <2>4. QED
    BY <1>1, <1>2, <1>6, <2>1, <2>2, <2>3 DEF BatchOk, At
<1>7. QED
  BY <1>1, <1>2, <1>3, <1>5, <1>6 DEF AuthOk

Unmoved == {"kind", "replay", "requests", "todo", "mode", "after", "role", "expected", "found"}

(* What a record becomes that plods on to the rest of its script. *)
PlodsTo(p, t) ==
    /\ DOMAIN t = Fields /\ t.pc = "next" /\ t.script = Rest(p)
    /\ \A x \in Unmoved : t[x] = txn[p][x]

LEMMA BecomePlods ==
    ASSUME Shape, NEW p \in Procs, NEW do, Ready(p, do), do \notin {"decide", "batch"},
           NEW STATE t, Become(p, t), PlodsTo(p, t), UNCHANGED access, locks \subseteq locks'
    PROVE  Plods(p)
BY BecomeReplaces DEF Replaced, PlodsTo, Ready, StepOf, Plods, Unmoved

LEMMA AdvancingPlods ==
    ASSUME Shape, NEW p \in Procs, At(p, "next")
    PROVE  /\ PlodsTo(p, [txn[p] EXCEPT !.script = Rest(p)])
           /\ \A v : PlodsTo(p, [txn[p] EXCEPT !.script = Rest(p), !.version = v])
           /\ \A rows : PlodsTo(p, [txn[p] EXCEPT !.script = Rest(p), !.rows = rows])
BY DEF Shape, Fields, At, Unmoved, PlodsTo

(* A step that is refused, or one that goes on. *)
LEMMA StopAuth ==
    ASSUME Shape, NEW p \in Procs, NEW pc \in {"denied", "invalid"}, Step(p, pc)
    PROVE  AuthOk(p)'
BY StepReplaces DEF AuthOk, Active

LEMMA PlodAuth ==
    ASSUME NEW p \in Procs, ProcOk(p), AuthOk(p), Plods(p)
    PROVE  AuthOk(p)'
BY PloddingAuth DEF Plods, At, AuthOk, Active

LEMMA LockRowAuth ==
    ASSUME Shape, NEW p \in Procs, ProcOk(p), AuthOk(p), LockRow(p)
    PROVE  AuthOk(p)'
<1> DEFINE t1 == [txn[p] EXCEPT !.script = Rest(p)]
           t2 == [txn[p] EXCEPT !.script = Rest(p), !.version = relationship]
<1>1. Ready(p, "lock") /\ At(p, "next") /\ UNCHANGED access
  BY DEF LockRow, Ready
<1>2. \/ Invalid(p)
      \/ /\ Lock(p, {StepOf(p).row}, StepOf(p).mode)
         /\ Become(p, t1) \/ Become(p, t2)
  BY DEF LockRow, Advance
<1>3. PlodsTo(p, t1) /\ PlodsTo(p, t2)
  BY <1>1, AdvancingPlods
<1>4. CASE Invalid(p)
  BY <1>4, StopAuth DEF Invalid
<1>5. CASE /\ Lock(p, {StepOf(p).row}, StepOf(p).mode)
           /\ Become(p, t1) \/ Become(p, t2)
  BY <1>1, <1>3, <1>5, BecomePlods, PlodAuth DEF Lock
<1>6. QED
  BY <1>2, <1>4, <1>5

LEMMA ReserveAuth ==
    ASSUME Shape, NEW p \in Procs, ProcOk(p), AuthOk(p), Reserve(p)
    PROVE  AuthOk(p)'
<1> DEFINE t == [txn[p] EXCEPT !.pc = "commit", !.replay = TRUE]
           t1 == [txn[p] EXCEPT !.script = Rest(p)]
<1>1. /\ Ready(p, "reserve") /\ At(p, "next") /\ UNCHANGED access
      /\ Lock(p, {KeyRow(txn[p].key)}, "update")
  BY DEF Reserve, Ready
<1>2. Invalid(p) \/ Become(p, t) \/ Become(p, t1)
  BY DEF Reserve, Advance
<1>3. CASE Invalid(p)
  BY <1>3, StopAuth DEF Invalid
<1>4. CASE Become(p, t)
  <2>1. DOMAIN t = Fields /\ t.replay = TRUE
    BY <1>1 DEF Shape, Fields
  <2> HIDE DEF t
  <2>2. txn'[p] = t
    BY <1>4, <2>1, BecomeReplaces DEF Replaced
  <2>3. QED
    BY <2>1, <2>2 DEF AuthOk, Active
<1>5. CASE Become(p, t1)
  <2>1. locks \subseteq locks'
    BY <1>1 DEF Lock
  <2>2. PlodsTo(p, t1)
    BY <1>1, AdvancingPlods
  <2> HIDE DEF t1
  <2>3. Plods(p)
    BY <1>1, <1>5, <2>1, <2>2, BecomePlods
  <2>4. QED
    BY <2>3, PlodAuth
<1>6. QED
  BY <1>2, <1>3, <1>4, <1>5

LEMMA CheckVersionAuth ==
    ASSUME Shape, NEW p \in Procs, ProcOk(p), AuthOk(p), CheckVersion(p)
    PROVE  AuthOk(p)'
BY AdvancingPlods, BecomePlods, PlodAuth, StopAuth DEF CheckVersion, Ready, Advance, Invalid

LEMMA WriteEndAuth ==
    ASSUME Shape, NEW p \in Procs, ProcOk(p), AuthOk(p), WriteEnd(p)
    PROVE  AuthOk(p)'
BY AdvancingPlods, BecomePlods, PlodAuth, StopAuth DEF WriteEnd, Ready, Invalid

LEMMA WriteRowsAuth ==
    ASSUME Shape, NEW p \in Procs, ProcOk(p), AuthOk(p), WriteRows(p)
    PROVE  AuthOk(p)'
BY AdvancingPlods, BecomePlods, PlodAuth, StopAuth DEF WriteRows, Ready, Invalid

LEMMA CompleteAuth ==
    ASSUME Shape, NEW p \in Procs, ProcOk(p), AuthOk(p), Complete(p)
    PROVE  AuthOk(p)'
BY StepReplaces, PlodAuth, StopAuth DEF Complete, Plods, Fields, Invalid

(* The step that is next in the script of such a command.                  *)
LEMMA NextOfGuarded ==
    ASSUME NEW p \in Procs, ProcOk(p), txn[p].kind \in Guarded,
           EndOf(Script[txn[p].kind], txn[p].script), NEW do, Ready(p, do)
    PROVE  /\ EndOf(Script[txn[p].kind], Rest(p))
           /\ \E i \in DOMAIN Script[txn[p].kind] :
                 /\ StepOf(p) = Script[txn[p].kind][i] /\ StepOf(p).do = do
                 /\ \A x : Ahead(Rest(p), x) <=> Later(Script[txn[p].kind], i, x)
<1> DEFINE S == Script[txn[p].kind]
           rest == txn[p].script
           T == StepsOf(txn[p].kind)
<1>1. rest \in Seq(T) /\ rest # <<>> /\ Head(rest).do = do
  BY DEF ProcOk, TxnOk, Ready, At
<1>2. PICK n \in Nat : DOMAIN S = 1 .. n /\ Len(S) = n
  BY ScriptOfGuarded DEF DictatesLocked, DictatesBatch
<1>3. EndOf(S, rest)
  OBVIOUS
<1> HIDE DEF S, rest, T
<1>4. EndOf(S, Tail(rest))
  BY <1>1, <1>2, <1>3, EndOfTail
<1>5. \E i \in DOMAIN S : Head(rest) = S[i] /\ \A x : Ahead(Tail(rest), x) <=> Later(S, i, x)
  BY <1>1, <1>2, <1>3, HeadOfRest
<1>6. QED
  BY <1>1, <1>4, <1>5 DEF S, rest, Rest, StepOf

(* What the decisions that begin find. *)
Begins(p) ==
    /\ txn'[p].script = Rest(p) /\ txn'[p].kind = txn[p].kind
    /\ txn'[p].replay = txn[p].replay /\ txn'[p].todo = StepOf(p).todo

LEMMA StartDecisionsBegins ==
    ASSUME Shape, NEW p \in Procs, StartDecisions(p), StepOf(p).mode # "batch"
    PROVE  /\ Begins(p) /\ txn'[p].pc = "actor" /\ txn'[p].mode = StepOf(p).mode
           /\ txn'[p].after = "next"
<1> DEFINE t0 == [txn[p] EXCEPT !.script = Rest(p)]
           todo == StepOf(p).todo
           mode == StepOf(p).mode
           t == Decide(t0, todo, mode, "next")
<1>1. Become(p, t)
  BY DEF StartDecisions
<1>2. DOMAIN t0 = Fields /\ t0.script = Rest(p) /\ \A x \in Fields \ {"script"} : t0[x] = txn[p][x]
  BY DEF Shape, Fields
<1> HIDE DEF t0, todo
<1>3. /\ DOMAIN t = Fields /\ t.pc = "actor" /\ t.mode = mode /\ t.after = "next"
      /\ t.todo = todo /\ \A x \in Fields \ {"pc", "mode", "after", "todo"} : t[x] = t0[x]
  BY <1>2 DEF Decide, Fields
<1> HIDE DEF t
<1>4. t.script = Rest(p) /\ \A x \in {"kind", "replay"} : t[x] = txn[p][x]
  BY <1>2, <1>3 DEF Fields
<1>5. txn'[p] = t
  BY <1>1, <1>3, BecomeReplaces DEF Replaced
<1>6. QED
  BY <1>3, <1>4, <1>5 DEF Begins, todo

LEMMA WholeTodo ==
    ASSUME NEW kind \in Guarded
    PROVE  EndOf(LastTodo(kind), LastTodo(kind))
BY LastTodos DEF EndOf

(* Nothing is decided yet of the last decisions. *)
LEMMA BeginPasses ==
    ASSUME NEW p \in Procs, txn'[p].kind \in Guarded, txn'[p].todo = LastTodo(txn'[p].kind),
           txn'[p].pc \in Deciding
    PROVE  Passed(p)'
BY LastTodos, WholeTodo, LastTodoIsAbout DEF AboutSpaces, Passed

LEMMA StartDecisionsAuth ==
    ASSUME Shape, NEW p \in Procs, ProcOk(p), AuthOk(p), StartDecisions(p)
    PROVE  AuthOk(p)'
<1> DEFINE kind == txn[p].kind
           S == Script[kind]
<1>1. Ready(p, "decide")
  BY DEF StartDecisions
<1>2. At(p, "next") /\ StepOk(StepOf(p)) /\ StepOf(p).do = "decide"
  BY <1>1, ReadyFacts
<1>3. /\ Begins(p) /\ txn'[p].pc = "actor" /\ Mode(p)' = StepOf(p).mode
      /\ txn'[p].after = "next"
  BY <1>2, StartDecisionsBegins DEF StepOk, Mode
<1>4. SUFFICES ASSUME Active(p)', txn'[p].kind \in Guarded PROVE AuthOk(p)'
  BY DEF AuthOk
<1>5. kind \in Guarded /\ Active(p)
  BY <1>2, <1>3, <1>4 DEF Active, Begins, At
<1>6. EndOf(S, txn[p].script)
  BY <1>5 DEF AuthOk
<1>7. PICK i \in DOMAIN S :
          /\ StepOf(p) = S[i] /\ StepOf(p).do = "decide"
          /\ \A x : Ahead(Rest(p), x) <=> Later(S, i, x)
  BY <1>1, <1>5, <1>6, NextOfGuarded
<1>8. EndOf(S, Rest(p))
  BY <1>1, <1>5, <1>6, NextOfGuarded
<1> HIDE DEF S
<1>9. "actor" \in Deciding /\ "actor" \notin Inner \cup {"scope"} /\ "actor" \notin Batching
  BY DEF Deciding, Inner, Batching
<1>10. AboutSpaces(StepOf(p).todo)
  BY <1>2 DEF StepOk
<1>11. HeadOk(p)'
  BY <1>3, <1>9, <1>10 DEF HeadOk, Begins, Inner
<1>12. CASE kind \in Locking
  <2>1. DictatesLocked(S, LastTodo(kind))
    BY <1>5, <1>12, ScriptOfGuarded DEF S
  <2>2. S[i].mode = "locked" /\ (S[i].todo = LastTodo(kind) \/ Later(S, i, "decide"))
    BY <1>7, <2>1 DEF DictatesLocked
  <2>3. Mode(p)' = "locked"
    BY <1>3, <1>7, <2>2
  <2>4. LastDo(kind) = "decide"
    BY <1>12 DEF LastDo, Locking
  <2>5. ASSUME Last(p)' PROVE LockedOk(p)'
    <3>1. ~Ahead(Rest(p), "decide")
      BY <1>3, <2>4, <2>5 DEF Last, Begins
    <3>2. StepOf(p).todo = LastTodo(kind)
      BY <1>7, <2>2, <3>1
    <3>3. txn'[p].kind = kind /\ txn'[p].todo = LastTodo(kind)
      BY <1>3, <3>2 DEF Begins
    <3>4. Passed(p)'
      BY <1>3, <1>4, <1>9, <3>3, BeginPasses
    <3>5. Len(LastTodo(kind)) = 2
      BY <1>12, LockingTodo
    <3>6. QED
      BY <1>3, <2>3, <3>3, <3>4, <3>5 DEF LockedOk, At
  <2>6. QED
    BY <1>3, <1>8, <1>9, <1>11, <1>12, <2>3, <2>5 DEF AuthOk, Begins, S
<1>13. CASE kind \notin Locking
  <2>1. kind = "end" /\ DictatesBatch(S)
    BY <1>5, <1>13, ScriptOfGuarded DEF S
  <2>2. S[i].mode = "unlocked" /\ Later(S, i, "batch")
    BY <1>7, <2>1 DEF DictatesBatch
  <2>3. Mode(p)' = "unlocked"
    BY <1>3, <1>7, <2>2
  <2>4. ~Last(p)'
    BY <1>3, <1>7, <2>1, <2>2 DEF Last, Begins, LastDo
  <2>5. QED
    BY <1>3, <1>8, <1>9, <1>13, <2>3, <2>4 DEF AuthOk, Begins, S, Careful
<1>14. QED
  BY <1>12, <1>13

LEMMA StartBatchBegins ==
    ASSUME Shape, NEW p \in Procs, StartAuthorityBatch(p), StepOf(p).todo = EndRequests
    PROVE  \/ txn'[p].pc = "denied"
           \/ /\ Begins(p) /\ txn'[p].pc = "scope" /\ txn'[p].mode = "batch"
              /\ txn'[p].after = "lockActor" /\ txn'[p].requests = EndRequests
              /\ txn'[p].found = Nothing
<1> DEFINE t0 == [txn[p] EXCEPT !.script = Rest(p)]
           d == Decide(t0, EndRequests, "batch", "lockActor")
           t == [d EXCEPT !.role = actor.role, !.found = Nothing, !.requests = EndRequests]
<1>1. Become(p, t) \/ Step(p, "denied")
  BY DEF StartAuthorityBatch, StartBatch
<1>2. CASE Step(p, "denied")
  BY <1>2, StepReplaces
<1>3. CASE Become(p, t)
  <2>1. DOMAIN t0 = Fields /\ t0.script = Rest(p) /\ \A x \in Fields \ {"script"} : t0[x] = txn[p][x]
    BY DEF Shape, Fields
  <2> HIDE DEF t0
  <2>2. /\ DOMAIN d = Fields /\ d.pc = "scope" /\ d.mode = "batch" /\ d.after = "lockActor"
        /\ d.todo = EndRequests /\ \A x \in Fields \ {"pc", "mode", "after", "todo"} : d[x] = t0[x]
    BY <2>1 DEF Decide, Fields
  <2> HIDE DEF d
  <2>3. /\ DOMAIN t = Fields /\ t.found = Nothing /\ t.requests = EndRequests
        /\ \A x \in Fields \ {"role", "found", "requests"} : t[x] = d[x]
    BY <2>2 DEF Fields
  <2> HIDE DEF t
  <2>4. /\ t.pc = "scope" /\ t.mode = "batch" /\ t.after = "lockActor" /\ t.todo = EndRequests
        /\ t.script = Rest(p) /\ t.kind = txn[p].kind /\ t.replay = txn[p].replay
    BY <2>1, <2>2, <2>3 DEF Fields
  <2>5. txn'[p] = t
    BY <1>3, <2>3, BecomeReplaces DEF Replaced
  <2>6. QED
    BY <2>3, <2>4, <2>5 DEF Begins
<1>4. QED
  BY <1>1, <1>2, <1>3

LEMMA StartAuthorityBatchAuth ==
    ASSUME Shape, NEW p \in Procs, ProcOk(p), AuthOk(p), StartAuthorityBatch(p)
    PROVE  AuthOk(p)'
<1> DEFINE kind == txn[p].kind
           S == Script[kind]
<1>1. Ready(p, "batch") /\ txn[p].pc = "next"
  BY DEF StartAuthorityBatch, Ready, At
<1>2. CASE Step(p, "denied")
  BY <1>2, StopAuth
<1>3. CASE ~(Active(p) /\ kind \in Guarded)
  <2> DEFINE t0 == [txn[p] EXCEPT !.script = Rest(p)]
             d == Decide(t0, StepOf(p).todo, "batch", "lockActor")
             t == [d EXCEPT !.role = actor.role, !.found = Nothing, !.requests = StepOf(p).todo]
  <2>1. Become(p, t) \/ Step(p, "denied")
    BY DEF StartAuthorityBatch, StartBatch
  <2>2. DOMAIN t = Fields /\ t.kind = kind /\ t.replay = txn[p].replay
    BY DEF Decide, Shape, Fields
  <2> HIDE DEF t
  <2>3. Become(p, t) => txn'[p] = t
    BY <2>2, BecomeReplaces DEF Replaced
  <2>4. QED
    BY <1>1, <1>2, <1>3, <2>1, <2>2, <2>3 DEF AuthOk, Active
<1>4. CASE Active(p) /\ kind \in Guarded
  <2>1. EndOf(S, txn[p].script)
    BY <1>4 DEF AuthOk
  <2>2. PICK i \in DOMAIN S :
            /\ StepOf(p) = S[i] /\ StepOf(p).do = "batch"
            /\ \A x : Ahead(Rest(p), x) <=> Later(S, i, x)
    BY <1>1, <1>4, <2>1, NextOfGuarded
  <2>3. EndOf(S, Rest(p))
    BY <1>1, <1>4, <2>1, NextOfGuarded
  <2> HIDE DEF S
  <2>4. kind \notin Locking
    BY <1>4, <2>2, ScriptOfGuarded DEF DictatesLocked, S
  <2>5. kind = "end" /\ DictatesBatch(S)
    BY <1>4, <2>4, ScriptOfGuarded DEF S
  <2>6. StepOf(p).todo = EndRequests /\ ~Later(S, i, "batch")
    BY <2>2, <2>5 DEF DictatesBatch
  <2>7. \/ txn'[p].pc = "denied"
        \/ /\ Begins(p) /\ txn'[p].pc = "scope" /\ txn'[p].mode = "batch"
           /\ txn'[p].after = "lockActor" /\ txn'[p].requests = EndRequests
           /\ txn'[p].found = Nothing
    BY <2>6, StartBatchBegins
  <2>8. CASE txn'[p].pc = "denied"
    BY <2>8 DEF AuthOk, Active
  <2>9. CASE /\ Begins(p) /\ txn'[p].pc = "scope" /\ txn'[p].mode = "batch"
             /\ txn'[p].after = "lockActor" /\ txn'[p].requests = EndRequests
             /\ txn'[p].found = Nothing
    <3>1. "scope" \in Deciding /\ "scope" \notin Inner /\ "scope" \notin Batching
      BY DEF Deciding, Inner, Batching
    <3>2. txn'[p].todo = EndRequests /\ txn'[p].kind = "end" /\ txn'[p].script = Rest(p)
          /\ Mode(p)' = "batch"
      BY <2>5, <2>6, <2>9 DEF Begins, Mode
    <3>3. HeadOk(p)'
      BY <2>9, <3>1, <3>2, EndDecisionsBegin DEF HeadOk, Inner
    <3>4. Last(p)'
      BY <2>2, <2>6, <3>2 DEF Last, LastDo
    <3>5. First(p)'
      BY <2>9, <3>1 DEF First
    <3>6. FoundOk(p)'
      BY <2>9 DEF FoundOk, Nothing
    <3>7. BatchOk(p)'
      BY <2>9, <3>2, <3>5, <3>6 DEF BatchOk, At
    <3>8. "end" \notin Locking /\ EndOf(Script["end"], Rest(p))
      BY <2>3, <2>5 DEF Locking, S
    <3>9. QED
      BY <2>9, <3>1, <3>2, <3>3, <3>4, <3>7, <3>8 DEF AuthOk
  <2>10. QED
    BY <2>7, <2>8, <2>9
<1>5. QED
  BY <1>3, <1>4

LEMMA BeginAuth ==
    ASSUME Shape, NEW p \in Procs, NEW request, Begin(p, request)
    PROVE  AuthOk(p)'
<1> DEFINE kind == request.kind
           S == Script[kind]
           t == [Idle EXCEPT !.pc = "next", !.key = request.key, !.kind = request.kind,
                             !.script = Script[request.kind], !.since = changes,
                             !.scope = ReservationSpace(request.kind),
                             !.runs = txn[p].runs + 1]
<1>1. Become(p, t)
  BY DEF Begin, Become
<1>2. DOMAIN t = Fields /\ t.pc = "next" /\ t.kind = kind /\ t.script = S /\ t.mode = None
  BY DEF Idle, Fields
<1> HIDE DEF t
<1>3. txn'[p] = t
  BY <1>1, <1>2, BecomeReplaces DEF Replaced
<1>4. SUFFICES ASSUME kind \in Guarded PROVE AuthOk(p)'
  BY <1>2, <1>3 DEF AuthOk
<1>5. PICK n \in Nat : DOMAIN S = 1 .. n /\ Len(S) = n
  BY <1>4, ScriptOfGuarded DEF DictatesLocked, DictatesBatch
<1>6. EndOf(S, S)
  BY <1>5 DEF EndOf
<1>7. Ahead(S, LastDo(kind))
  BY <1>4, ScriptOfGuarded DEF DictatesLocked, LastDo, Locking, DictatesBatch
<1>8. ~Last(p)'
  BY <1>2, <1>3, <1>7 DEF Last
<1>9. "next" \notin Deciding /\ "next" \notin Inner \cup {"scope"} /\ "next" \notin Batching
  BY DEF Deciding, Inner, Batching
<1>10. QED
  BY <1>2, <1>3, <1>6, <1>8, <1>9 DEF AuthOk

(* A creation has no such decisions. *)
LEMMA ChildAuth ==
    ASSUME Shape, NEW p \in Procs, ProcOk(p),
           OpenChild(p) \/ FillChild(p) \/ CloseChild(p)
    PROVE  AuthOk(p)'
<1> DEFINE t1(c) == [txn[p] EXCEPT !.child = c, !.scope = c, !.rows = {"space", "grant"}]
           t2 == [txn[p] EXCEPT !.rows = @ \cup {txn[p].kind} \cup Messages]
           t3 == [txn[p] EXCEPT !.script = Rest(p), !.scope = ReservationSpace(txn[p].kind)]
<1>1. Ready(p, "child")
  BY DEF OpenChild, FillChild, CloseChild
<1>2. txn[p].kind \in Creations
  BY <1>1, ReadyFacts
<1>3. txn[p].kind \notin Guarded
  BY <1>2 DEF Creations, Guarded
<1>4. Invalid(p) \/ Become(p, t1(LowestOf(Unused))) \/ Become(p, t2) \/ Become(p, t3)
  BY DEF OpenChild, FillChild, CloseChild
<1>5. /\ \A c : DOMAIN t1(c) = Fields /\ t1(c).kind = txn[p].kind
      /\ DOMAIN t2 = Fields /\ t2.kind = txn[p].kind
      /\ DOMAIN t3 = Fields /\ t3.kind = txn[p].kind
  BY DEF Shape, Fields
<1> HIDE DEF t1, t2, t3
<1>6. CASE Invalid(p)
  BY <1>6, StopAuth DEF Invalid
<1>7. CASE Become(p, t1(LowestOf(Unused)))
  BY <1>3, <1>5, <1>7, BecomeReplaces DEF Replaced, AuthOk
<1>8. CASE Become(p, t2)
  BY <1>3, <1>5, <1>8, BecomeReplaces DEF Replaced, AuthOk
<1>9. CASE Become(p, t3)
  BY <1>3, <1>5, <1>9, BecomeReplaces DEF Replaced, AuthOk
<1>10. QED
  BY <1>4, <1>6, <1>7, <1>8, <1>9

LEMMA FinishAuth ==
    ASSUME Shape, NEW p \in Procs, Finish(p)
    PROVE  AuthOk(p)'
<1> DEFINE t == [Idle EXCEPT !.runs = txn[p].runs]
<1>1. Become(p, t) /\ DOMAIN t = Fields /\ t.pc = "idle"
  BY DEF Finish, Become, Idle, Fields
<1> HIDE DEF t
<1>2. txn'[p] = t
  BY <1>1, BecomeReplaces DEF Replaced
<1>3. QED
  BY <1>1, <1>2 DEF AuthOk, Active

----------------------------------------------------------------------------
(* Every step keeps what AuthOk says of every process.                     *)

LEMMA BecomeLeavesOthers ==
    ASSUME Shape, NEW p \in Procs, \E t : txn' = [txn EXCEPT ![p] = t]
    PROVE  OthersKeep(p)
BY DEF Shape, OthersKeep

LEMMA OwnStepLeaves ==
    ASSUME Shape, NEW p \in Procs,
           \/ LockRow(p) \/ StartDecisions(p) \/ StartAuthorityBatch(p) \/ Reserve(p)
           \/ CheckVersion(p) \/ WriteEnd(p) \/ WriteRows(p) \/ OpenChild(p) \/ FillChild(p)
           \/ CloseChild(p) \/ Complete(p)
    PROVE  OthersKeep(p) /\ UNCHANGED access /\ \A l \in locks : l[1] # p => l \in locks'
<1>1. UNCHANGED access
  BY DEF LockRow, StartDecisions, StartAuthorityBatch, Reserve, CheckVersion, WriteEnd, WriteRows,
         OpenChild, FillChild, CloseChild, Complete
<1>2. locks \subseteq locks'
  BY DEF LockRow, StartDecisions, StartAuthorityBatch, Reserve, CheckVersion, WriteEnd, WriteRows,
         OpenChild, FillChild, CloseChild, Complete, Lock
<1>3. \E t : txn' = [txn EXCEPT ![p] = t]
  <2>1. CASE LockRow(p) \/ Reserve(p) \/ CheckVersion(p)
    BY <2>1 DEF LockRow, Reserve, CheckVersion, Advance, Invalid, Step, Become
  <2>2. CASE StartDecisions(p) \/ StartAuthorityBatch(p)
    BY <2>2 DEF StartDecisions, StartAuthorityBatch, StartBatch, Step, Become
  <2>3. CASE WriteEnd(p) \/ WriteRows(p) \/ Complete(p)
    BY <2>3 DEF WriteEnd, WriteRows, Complete, Invalid, Step, Become
  <2>4. CASE OpenChild(p) \/ FillChild(p) \/ CloseChild(p)
    BY <2>4 DEF OpenChild, FillChild, CloseChild, Invalid, Step, Become
  <2>5. QED
    BY <2>1, <2>2, <2>3, <2>4
<1>4. QED
  BY <1>1, <1>2, <1>3, BecomeLeavesOthers

LEMMA DecisionLeaves ==
    ASSUME IInv, NEW p \in Procs, Decision(p)
    PROVE  OthersKeep(p) /\ UNCHANGED access /\ \A l \in locks : l[1] # p => l \in locks'
BY AuthorizeEffect DEF IInv, Decision, Authorize, ProcOk, DecisionOk, Effect, LocksGrow

(* A step of p that changes no row of access. *)
LEMMA QuietKeepsAuthority ==
    ASSUME AInv, NEW p \in Procs, OthersKeep(p), UNCHANGED access,
           \A l \in locks : l[1] # p => l \in locks', AuthOk(p)'
    PROVE  AInv'
BY QuietLeavesOthers, UntouchedKeepsAuth DEF access, AInv, ParentsExist, Rooted, GrantsOk

LEMMA ServeKeepsAuthority ==
    ASSUME IInv, AInv, NEW p \in Procs, Serve(p)
    PROVE  AInv'
<1>1. Shape /\ ProcOk(p) /\ AuthOk(p) /\ Tree(spaces) /\ GrantsOk
  BY DEF IInv, AInv, Tree
<1>2. CASE \/ LockRow(p) \/ StartDecisions(p) \/ StartAuthorityBatch(p) \/ Reserve(p)
           \/ CheckVersion(p) \/ WriteEnd(p) \/ WriteRows(p) \/ OpenChild(p) \/ FillChild(p)
           \/ CloseChild(p) \/ Complete(p)
  <2>1. AuthOk(p)'
    BY <1>1, <1>2, LockRowAuth, StartDecisionsAuth, StartAuthorityBatchAuth, ReserveAuth,
       CheckVersionAuth, WriteEndAuth, WriteRowsAuth, ChildAuth, CompleteAuth
  <2>2. QED
    BY <1>1, <1>2, <2>1, OwnStepLeaves, QuietKeepsAuthority
<1>3. CASE Decision(p)
  BY <1>1, <1>3, DecisionAuth, DecisionLeaves, QuietKeepsAuthority
<1>4. CASE Commit(p)
  BY <1>1, <1>4, CommitLeaves, UntouchedKeepsAuth DEF AuthOk, AInv, Tree, GrantsOk
<1>5. QED
  BY <1>2, <1>3, <1>4 DEF Serve

LEMMA RollbackKeepsAuthority ==
    ASSUME IInv, AInv, NEW p \in Procs, Rollback(p)
    PROVE  AInv'
BY FinishLeavesIdle, ReleaseKeepsExclusive, FinishAuth, QuietKeepsAuthority DEF Rollback, IInv

LEMMA BeginKeepsAuthority ==
    ASSUME IInv, AInv, NEW p \in Procs, NEW request, Begin(p, request)
    PROVE  AInv'
BY BecomeLeavesOthers, BeginAuth, QuietKeepsAuthority DEF Begin, IInv

LEMMA ChangeKeepsAuthority ==
    ASSUME AInv, RowsStay, GrantsStay, UNCHANGED <<locks, txn>>, Tree(spaces'), GrantsOk'
    PROVE  AInv'
BY ChangeLeavesAll, UntouchedKeepsAuth DEF AInv, Tree

LEMMA NextKeepsAuthority == IInv /\ AInv /\ [Next]_vars => AInv'
<1> SUFFICES ASSUME IInv, AInv, [Next]_vars PROVE AInv'
  OBVIOUS
<1>1. ASSUME NEW p \in Procs, NEW request \in cast.requests[p], Begin(p, request)
      PROVE  AInv'
  BY <1>1, BeginKeepsAuthority
<1>2. ASSUME NEW p \in Procs, Serve(p)
      PROVE  AInv'
  BY <1>2, ServeKeepsAuthority
<1>3. ASSUME NEW p \in Procs, Refused(p) \/ Lost(p)
      PROVE  AInv'
  BY <1>3, RollbackKeepsAuthority DEF Refused, Lost
<1>4. CASE Administer
  BY <1>4, AdministerLeaves, ChangeKeepsAuthority DEF IInv, AInv, Tree
<1>5. CASE UNCHANGED vars
  <2>1. UNCHANGED <<spaces, grants, actor, locks, txn>>
    BY <1>5 DEF vars, access
  <2>2. RowsStay /\ GrantsStay /\ Tree(spaces') /\ GrantsOk'
    BY <2>1 DEF RowsStay, GrantsStay, AInv, Tree, GrantsOk
  <2>3. QED
    BY <2>1, <2>2, ChangeKeepsAuthority
<1>6. QED
  BY <1>1, <1>2, <1>3, <1>4, <1>5 DEF Next

LEMMA InitAuthority == Init => AInv
BY InitTree DEF Init, Idle, AuthOk, Active, AInv, Tree

----------------------------------------------------------------------------
(* What the last decisions are about is all that a command needs.          *)

LEMMA LockingNeeds ==
    ASSUME NEW kind \in Locking, NEW n \in Needs(kind)
    PROVE  (\E i \in 1 .. 2 : n = LastTodo(kind)[i]) \/ (kind = "accept" /\ n = <<"own", Other>>)
<1> DEFINE S == Script[kind]
           T == LastTodo(kind)
           U == <<<<"own", Other>>>>
           About(x) == \E i \in 1 .. 2 : x = T[i]
<1>1. DOMAIN T = 1 .. 2
  BY LockingTodo
<1>2. PICK i \in DOMAIN S : S[i].do \in {"decide", "batch"} /\ \E j \in DOMAIN S[i].todo : n = S[i].todo[j]
  BY DEF Needs
<1>3. DOMAIN U = 1 .. 1 /\ U[1] = <<"own", Other>>
  OBVIOUS
<1>4. ASSUME NEW todo, todo = T \/ (kind = "accept" /\ todo = U),
             NEW j \in DOMAIN todo, n = todo[j]
      PROVE  About(n) \/ (kind = "accept" /\ n = <<"own", Other>>)
  BY <1>1, <1>3, <1>4
<1>5. S[i].todo = T \/ (kind = "accept" /\ S[i].todo = U)
  BY <1>2, StepDo DEF Script, CorrectSource, LastTodo, TombstoneSource, AcceptFact, Locking
<1> HIDE DEF S, U
<1>6. PICK j \in DOMAIN S[i].todo : n = S[i].todo[j]
  BY <1>2
<1>7. QED
  BY <1>4, <1>5, <1>6

LEMMA EndNeeds ==
    ASSUME NEW n \in Needs("end")
    PROVE  \E i \in DOMAIN EndRequests : n = EndRequests[i]
<1> DEFINE S == Script["end"]
           U == <<<<"contribute", Home>>>>
           a == DecideStep("unlocked", U)
           b == LockStep(RelationshipRow, "update")
           c == BatchStep(EndRequests)
           d == WriteStep(Messages)
<1>1. PICK i \in DOMAIN S : S[i].do \in {"decide", "batch"} /\ \E j \in DOMAIN S[i].todo : n = S[i].todo[j]
  BY DEF Needs
<1>2. S = <<a, b, c, ReserveStep, VersionStep, EndStep, d>>
  BY DEF Script, EndRelationship
<1>3. /\ a.todo = U /\ b.do = "lock" /\ c.todo = EndRequests
      /\ ReserveStep.do = "reserve" /\ VersionStep.do = "version" /\ EndStep.do = "end"
      /\ d.do = "write"
  BY StepDo DEF BatchStep
<1>4. DOMAIN U = 1 .. 1 /\ U[1] = <<"contribute", Home>>
  OBVIOUS
<1>5. 3 \in DOMAIN EndRequests /\ EndRequests[3] = <<"contribute", Home>>
  BY EndSpaces
<1> HIDE DEF S, a, b, c, d, U
<1>6. S[i] \in {a, b, c, d, ReserveStep, VersionStep, EndStep}
  BY <1>2
<1>7. S[i].todo = U \/ S[i].todo = EndRequests
  BY <1>1, <1>3, <1>6
<1>8. QED
  BY <1>1, <1>4, <1>5, <1>7

(* What is proven under the locks at the commit is true then.              *)
LEMMA ProvenIsAllowed ==
    ASSUME IInv, AInv, NEW p \in Procs, Sure(p), CurrentSpaces(SpaceEvidence(p)),
           CurrentGrants(GrantEvidence(p)), NEW n, Proven(p, n), n[1] # "enter" => Fit(n[2])
    PROVE  May(n[1], n[2])
BY TablesArePlaced, ItemAllows DEF IInv, AInv, Sure, Proven

LEMMA LockedCommitAllowed ==
    ASSUME IInv, AInv, NEW p \in Procs, txn[p].kind \in Locking, LockedOk(p), At(p, "commit")
    PROVE  Allowed(txn[p].kind)
<1> DEFINE kind == txn[p].kind
           L == LastTodo(kind)
<1>1. "commit" \notin Deciding /\ "commit" \notin {"actor", "scope"}
  BY DEF Deciding, Inner
<1>2. Mode(p) = "locked" /\ Passed(p) /\ txn[p].todo = <<>>
  BY <1>1 DEF LockedOk, Passed, At
<1>3. Len(txn[p].todo) = 0
  BY <1>2
<1>4. Sure(p) /\ Fit(Other)
  BY <1>1, <1>3 DEF LockedOk, At
<1>5. CurrentSpaces(SpaceEvidence(p)) /\ CurrentGrants(GrantEvidence(p))
  <2>1. SpaceEvidence(p) = {SpaceRow(s) : s \in {s \in Spaces : Live(s) /\ HeldBy(p, <<"space", s>>)}}
    BY <1>2 DEF SpaceEvidence
  <2>2. GrantEvidence(p) = {GrantRow(g) : g \in {g \in Grants : HeldBy(p, <<"grant", g>>)}}
    BY <1>2 DEF GrantEvidence
  <2>3. \A s \in Spaces : Live(s) =>
            /\ SpaceRow(s)[1] = s /\ SpaceRow(s)[2] = spaces[s]
            /\ spaces[s].status = "live"
    BY DEF SpaceRow, Live
  <2>4. \A g \in Grants : GrantRow(g)[1] = g /\ GrantRow(g)[2] = grants[g]
    BY DEF GrantRow
  <2>5. CurrentSpaces(SpaceEvidence(p))
    <3>1. ASSUME NEW r \in SpaceEvidence(p)
          PROVE  r[1] \in Spaces /\ r[2].status = "live" /\ spaces[r[1]] = r[2]
      <4>1. PICK s \in Spaces : Live(s) /\ r = SpaceRow(s)
        BY <2>1
      <4>2. QED
        BY <2>3, <4>1
    <3>2. QED
      BY <3>1 DEF CurrentSpaces
  <2>6. CurrentGrants(GrantEvidence(p))
    <3>1. ASSUME NEW r \in GrantEvidence(p)
          PROVE  r[1] \in Grants /\ grants[r[1]] = r[2]
      <4>1. PICK g \in Grants : r = GrantRow(g)
        BY <2>2
      <4>2. QED
        BY <2>4, <4>1
    <3>2. QED
      BY <3>1 DEF CurrentGrants
  <2>7. QED
    BY <2>5, <2>6
<1>6. Len(L) = 2 /\ \A i \in 1 .. 2 : L[i][2] = Other /\ L[i][1] # "enter"
  BY LockingTodo
<1>7. \A i \in 1 .. 2 : Proven(p, L[i])
  BY <1>2, <1>3, <1>6 DEF Passed
<1> HIDE DEF L
<1>8. ASSUME NEW i \in 1 .. 2 PROVE May(L[i][1], L[i][2])
  BY <1>4, <1>5, <1>6, <1>7, ProvenIsAllowed
<1>9. L[1] = <<"read", Other>>
  BY LockingTodo DEF L
<1>10. May("read", Other)
  BY <1>8, <1>9
<1>11. May("own", Other)
  BY <1>10 DEF May
<1>12. ASSUME NEW n \in Needs(kind) PROVE May(n[1], n[2])
  BY <1>8, <1>11, LockingNeeds DEF L
<1>13. QED
  BY <1>12 DEF Allowed

LEMMA BatchCommitAllowed ==
    ASSUME IInv, AInv, NEW p \in Procs, txn[p].kind = "end", BatchOk(p), At(p, "commit")
    PROVE  Allowed(txn[p].kind)
<1>1. "commit" \notin Deciding /\ "commit" \notin Batching
  BY DEF Deciding, Inner, Batching
<1>2. ~First(p)
  BY <1>1 DEF First, At, Batching
<1>3. /\ Mode(p) = "batch" /\ Sure(p) /\ Passed(p) /\ txn[p].found = txn[p].expected
      /\ SpacesHeld(p, txn[p].found.spaces) /\ GrantsHeld(p, txn[p].found.grants)
      /\ \A i \in DOMAIN EndRequests :
            EndRequests[i][1] # "enter" =>
                \/ Unscoped(p, EndRequests[i]) \/ Fit(EndRequests[i][2])
                \/ ~Shown(txn[p].found.spaces, EndRequests[i][2])
  BY <1>1, <1>2 DEF BatchOk, At
<1>4. txn[p].todo = <<>>
  BY <1>1, <1>3 DEF Passed, At
<1>5. \A n : ~Unscoped(p, n)
  BY <1>4 DEF Unscoped
<1>6. SpaceEvidence(p) = txn[p].found.spaces /\ GrantEvidence(p) = txn[p].found.grants
  BY <1>3 DEF SpaceEvidence, GrantEvidence
<1>7. CurrentSpaces(SpaceEvidence(p)) /\ CurrentGrants(GrantEvidence(p))
  BY <1>3, <1>6 DEF CurrentSpaces, CurrentGrants, SpacesHeld, GrantsHeld
<1>8. ASSUME NEW i \in DOMAIN EndRequests PROVE Proven(p, EndRequests[i])
  BY <1>3, <1>4, <1>8, EndSpaces DEF LastTodo, Passed
<1>9. ASSUME NEW n \in Needs("end") PROVE May(n[1], n[2])
  <2>1. PICK i \in DOMAIN EndRequests : n = EndRequests[i]
    BY EndNeeds
  <2>2. Proven(p, n)
    BY <1>8, <2>1
  <2>3. Shown(txn[p].found.spaces, n[2])
    BY <1>6, <2>2 DEF Proven, Item
  <2>4. n[1] # "enter" => Fit(n[2])
    BY <1>3, <1>5, <2>1, <2>3
  <2>5. QED
    BY <1>3, <1>7, <2>2, <2>4, ProvenIsAllowed
<1>10. QED
  BY <1>9 DEF Allowed

----------------------------------------------------------------------------
(* The theorems about authority.                                           *)

(* At every moment of every behaviour, what a command with a locked        *)
(* decision (source.correct, source.tombstone, fact.accept) has decided so *)
(* far is shown by rows that it holds, and what relationship.end has       *)
(* compared is what it holds; no live Space is its own ancestor.           *)
THEOREM AuthorityInvariance == Spec => []AInv
<1>1. Init => AInv
  BY InitAuthority
<1>2. IInv /\ AInv /\ [Next]_vars => AInv'
  BY NextKeepsAuthority
<1>3. QED
  BY <1>1, <1>2, AccountCommandsInvariance, PTL DEF Spec

(* When relationship.end, source.correct, source.tombstone or fact.accept  *)
(* commits, its actor may still do all that the command asked for, whatever *)
(* administrators have changed since it was decided: the rows that the     *)
(* decision rests on are locked, and no row that was not looked at could   *)
(* take the authority away (lockAuthority and                              *)
(* lockAndReauthorizeRelationshipAuthority).                               *)
THEOREM CommitsStandAuthorized == Spec => []CommitsAreAuthorized
<1>1. IInv /\ AInv => CommitsAreAuthorized
  <2> SUFFICES ASSUME IInv, AInv, NEW p \in Procs, Writes(p), txn[p].kind \in Guarded
               PROVE  Allowed(txn[p].kind)
    BY DEF CommitsAreAuthorized
  <2>1. At(p, "commit") /\ Active(p) /\ ProcOk(p) /\ AuthOk(p)
    BY DEF IInv, AInv, Writes, Active, At
  <2>2. txn[p].script = <<>>
    BY <2>1 DEF ProcOk, CommitOk, Active
  <2>3. Last(p)
    BY <2>2 DEF Last, Ahead
  <2>4. CASE txn[p].kind \in Locking
    BY <2>1, <2>3, <2>4, LockedCommitAllowed DEF AuthOk
  <2>5. CASE txn[p].kind \notin Locking
    BY <2>1, <2>3, <2>5, BatchCommitAllowed DEF Guarded, Locking, AuthOk
  <2>6. QED
    BY <2>4, <2>5
<1>2. QED
  BY <1>1, AccountCommandsInvariance, AuthorityInvariance, PTL

----------------------------------------------------------------------------
(* Refusals.  As long as no administrator changes anything, what a         *)
(* decision reads of a Space of the scripts is what it read before, and a  *)
(* command that its actor may give is not refused.                         *)

Targets == {Root, Home, Other}

(* Why the actor may read s, by which grant and along which Spaces. *)
Way(s) ==
    IF Admin \/ s = Root THEN "free"
    ELSE IF DirectGrant(s) # None THEN "direct"
    ELSE IF InheritedGrant(s) # None THEN "inherited" ELSE "none"

Reader(s) == IF DirectGrant(s) # None THEN DirectGrant(s) ELSE InheritedGrant(s)
Top(s) == grants[Reader(s)].space
Via(s) == PathTo(s, Top(s))

(* What the decisions about s can read and find. *)
GroundsOf(s) ==
    [way |-> Way(s), reader |-> Reader(s), row |-> SpaceRow(s),
     path |-> IF Way(s) = "inherited" THEN Via(s) ELSE <<>>,
     spaces |-> {SpaceRow(s)} \cup
                IF Way(s) = "inherited" THEN {SpaceRow(Via(s)[i]) : i \in DOMAIN Via(s)} ELSE {},
     grants |-> IF Way(s) \in {"direct", "inherited"} THEN {GrantRow(Reader(s))} ELSE {},
     paths |-> IF Way(s) = "inherited" THEN {<<s, Top(s), Via(s)>>} ELSE {},
     contributors |-> IF Admin \/ ContributorGrant(s) = None THEN {}
                      ELSE {GrantRow(ContributorGrant(s))},
     powers |-> {need \in Powers : May(need, s)}]

Grounds == [s \in Targets |-> GroundsOf(s)]

(* All that the decisions of EndRequests find. *)
Everything(gr) ==
    [spaces |-> gr[Home].spaces \cup gr[Other].spaces,
     grants |-> gr[Home].grants \cup gr[Other].grants \cup gr[Home].contributors,
     paths |-> gr[Home].paths \cup gr[Other].paths]

Covers(F, E) ==
    F.spaces \subseteq E.spaces /\ F.grants \subseteq E.grants /\ F.paths \subseteq E.paths

Partly(found, gr) ==
    /\ found = [spaces |-> found.spaces, grants |-> found.grants, paths |-> found.paths]
    /\ Covers(found, Everything(gr))

(* A decision that is made has found this. *)
Gathers(found, n, gr) ==
    /\ Covers(gr[n[2]], found)
    /\ n[1] = "contribute" => gr[n[2]].contributors \subseteq found.grants

(* How much the decision at the head of todo has found. *)
HeadGathers(t, gr) ==
    LET n == Head(t.todo)
        f == gr[n[2]] IN
    /\ t.pc \in Inner \ {"target"} => f.row \in t.found.spaces
    /\ t.pc \in {"inherited", "need", "decided"} =>
          f.spaces \subseteq t.found.spaces /\ f.paths \subseteq t.found.paths
    /\ t.pc \in {"need", "decided"} => f.grants \subseteq t.found.grants
    /\ t.pc = "decided" => Gathers(t.found, n, gr)

Gathering(t, gr) ==
    /\ t.kind = "end" /\ t.requests = EndRequests
    /\ t.pc # "actor" /\ t.after \in {"lockActor", "compare"}
    /\ Partly(t.found, gr) /\ EndOf(EndRequests, t.todo)
    /\ \A i \in 1 .. Len(EndRequests) - Len(t.todo) : Gathers(t.found, EndRequests[i], gr)
    /\ HeadGathers(t, gr)
    /\ t.after = "compare" => t.expected = Everything(gr)

(* A decision that finds what there is. *)
Succeeding(t, role, gr) ==
    LET f == gr[Head(t.todo)[2]] IN
    /\ t.todo \in Seq(Needs(t.kind)) /\ t.todo # <<>> /\ t.mode \in Modes
    /\ t.pc # "actor" => t.role = role
    /\ t.pc = "direct" => f.way = "direct" /\ t.grant = f.reader
    /\ t.pc \in {"path", "lockPath", "inherited"} => f.way = "inherited" /\ t.grant = f.reader
    /\ t.pc = "lockPath" => t.mode = "locked" /\ t.path = f.path
    /\ IF t.mode = "batch" THEN Gathering(t, gr) ELSE t.after = "next"

(* A transaction that is refused nothing. *)
Smooth(t, role, gr) ==
    /\ t.pc # "denied"
    /\ t.pc \in Deciding => Succeeding(t, role, gr)
    /\ t.pc \in Batching =>
          /\ t.kind = "end" /\ t.requests = EndRequests
          /\ t.role = role /\ t.found = Everything(gr)
          /\ t.pc = "compare" => t.expected = Everything(gr)
    /\ t.pc = "next" /\ t.kind = "end" /\ ~Ahead(t.script, "batch") => t.found = Everything(gr)

(* Nothing has changed since p began, and its actor may do what it asks. *)
Calm(p) == changes = txn[p].since /\ Allowed(txn[p].kind)

SmoothOk(p) ==
    Calm(p) =>
        /\ Smooth(txn[p], actor.role, Grounds)
        /\ At(p, "invalid") => txn[p].kind = "end" /\ relationship # 1 /\ Reserved(p)

OrderOk(p) ==
    /\ EndOf(Script[txn[p].kind], txn[p].script)
    /\ txn[p].since \in Nat /\ txn[p].since <= changes

(* A creation is in the Space of its reservation but while the child Space *)
(* is filled. *)
ScopeOk(p) ==
    txn[p].kind \in Creations =>
        /\ Len(txn[p].script) > 1 => txn[p].child = None
        /\ txn[p].scope = IF Len(txn[p].script) = 1 /\ txn[p].child # None
                          THEN txn[p].child ELSE Place(p)

(* The version of the relationship that p has read under its lock. *)
VersionOk(p) ==
    /\ "ended" \in txn[p].rows => txn[p].kind = "end"
    /\ txn[p].kind = "end" =>
          /\ Len(txn[p].script) < 6 =>
                txn[p].version = relationship /\ <<p, RelationshipRow, "update">> \in locks
          /\ Len(txn[p].script) < 3 => txn[p].version = 1

DueOk(p) ==
    ~At(p, "idle") =>
        /\ OrderOk(p)
        /\ txn[p].replay => At(p, "commit")
        /\ Active(p) => ScopeOk(p) /\ VersionOk(p)
        /\ SmoothOk(p)

DInv ==
    /\ changes \in Nat /\ relationship \in Nat \ {0}
    /\ \A p \in Procs : DueOk(p)

----------------------------------------------------------------------------
(* The rows of the Spaces that there are, the grants and the membership    *)
(* are as before. *)
AccessAsBefore ==
    /\ \A s \in Spaces : spaces[s].status # "none" => spaces'[s] = spaces[s]
    /\ \A s \in Spaces : spaces'[s].status = "none" => spaces[s].status = "none"
    /\ grants' = grants /\ actor' = actor

ChainsAreWhole ==
    /\ \A s \in Spaces :
          /\ ~Live(s) => Chain[s] = <<>>
          /\ Live(s) => Whole(Chain[s]) /\ Chain[s][1] = s
    /\ \A c, d : Whole(c) /\ Whole(d) /\ c[1] = d[1] => c = d

LEMMA TreesHaveChains == Placed /\ Rooted(spaces) => ChainsAreWhole
BY ChainIsWhole, WholeIsUnique DEF ChainsAreWhole

(* A chain that is whole stays so, since what its last Space has for a     *)
(* parent is a row too. *)
LEMMA ChainsStay ==
    ASSUME Placed, Tree(spaces), Placed', Rooted(spaces)', AccessAsBefore,
           NEW s \in Spaces, spaces[s].status # "none"
    PROVE  /\ Chain'[s] = Chain[s]
           /\ \A i \in DOMAIN Chain[s] :
                 Chain[s][i] \in Spaces /\ spaces'[Chain[s][i]] = spaces[Chain[s][i]]
<1>1. ChainsAreWhole
  BY TreesHaveChains DEF Tree
<1>2. ChainsAreWhole'
  <2>1. (Placed /\ Rooted(spaces) => ChainsAreWhole)'
    BY TreesHaveChains, PTL
  <2>2. QED
    BY <2>1
<1>3. spaces'[s] = spaces[s]
  BY DEF AccessAsBefore
<1>4. CASE ~Live(s)
  BY <1>1, <1>2, <1>3, <1>4 DEF Live, ChainsAreWhole
<1>5. CASE Live(s)
  <2>1. PICK c : c = Chain[s] /\ Whole(c) /\ c[1] = s
    BY <1>1, <1>5 DEF ChainsAreWhole
  <2>2. PICK n : n = Len(c)
    OBVIOUS
  <2>3. /\ c \in Seq(Spaces) /\ c # <<>> /\ n \in Nat \ {0} /\ DOMAIN c = 1 .. n
        /\ \A i \in 1 .. n : c[i] \in Spaces /\ spaces[c[i]].status = "live"
        /\ \A i \in 1 .. n - 1 : c[i + 1] = spaces[c[i]].parent
        /\ spaces[c[n]].parent # None => spaces[spaces[c[n]].parent].status # "live"
    BY <2>1, <2>2 DEF Whole, Climb, Live
  <2>4. \A i \in 1 .. n : spaces'[c[i]] = spaces[c[i]]
    BY <2>3 DEF AccessAsBefore
  <2>5. n \in 1 .. n
    BY <2>3
  <2>6. spaces[c[n]].parent # None => spaces'[spaces[c[n]].parent].status # "live"
    BY <2>3, <2>5 DEF Tree, ParentsExist, AccessAsBefore
  <2>7. Whole(c)'
    BY <2>2, <2>3, <2>4, <2>5, <2>6 DEF Whole, Climb, Live
  <2>8. Live(s)'
    BY <1>3, <1>5 DEF Live
  <2>9. Whole(Chain[s])' /\ Chain'[s][1] = s
    BY <1>2, <2>8 DEF ChainsAreWhole
  <2>10. Chain'[s] = c
    BY <1>2, <2>1, <2>7, <2>9 DEF ChainsAreWhole
  <2>11. QED
    BY <2>1, <2>3, <2>4, <2>10
<1>6. QED
  BY <1>4, <1>5

(* What is read of one Space of a chain that stays. *)
LEMMA ReadingsStay ==
    ASSUME NEW s \in Spaces, spaces'[s] = spaces[s], grants' = grants, actor' = actor,
           Chain'[s] = Chain[s],
           \A i \in DOMAIN Chain[s] : spaces'[Chain[s][i]] = spaces[Chain[s][i]],
           Chain[s] = <<>> \/ Chain[s] \in Seq(Spaces)
    PROVE  /\ Reaching(s)' = Reaching(s) /\ DirectGrant(s)' = DirectGrant(s)
           /\ InheritedGrant(s)' = InheritedGrant(s)
           /\ ContributorGrant(s)' = ContributorGrant(s)
           /\ \A top : PathTo(s, top)' = PathTo(s, top)
           /\ \A top : \A i \in DOMAIN PathTo(s, top) :
                 spaces'[PathTo(s, top)[i]] = spaces[PathTo(s, top)[i]]
           /\ \A need : May(need, s)' = May(need, s)
<1> DEFINE c == Chain[s]
<1>1. \A x : On(x)' = On(x)
  BY DEF On
<1>2. Reaching(s)' = Reaching(s)
  BY DEF Reaching
<1>3. DirectGrant(s)' = DirectGrant(s)
  BY <1>1 DEF DirectGrant
<1>4. InheritedGrant(s)' = InheritedGrant(s)
  BY <1>1, <1>2 DEF InheritedGrant
<1>5. ContributorGrant(s)' = ContributorGrant(s)
  BY <1>1 DEF ContributorGrant
<1>6. \A top : PathTo(s, top)' = PathTo(s, top)
  BY <1>2 DEF PathTo
<1>7. ASSUME NEW top, NEW i \in DOMAIN PathTo(s, top)
      PROVE  spaces'[PathTo(s, top)[i]] = spaces[PathTo(s, top)[i]]
  <2> DEFINE at == {k \in Reaching(s) : Chain[s][k] = top}
             k == LowestOf(at)
  <2>1. at # {} /\ PathTo(s, top) = SubSeq(Chain[s], 1, k)
    <3>1. PathTo(s, top) = IF at = {} THEN <<>> ELSE SubSeq(Chain[s], 1, k)
      BY DEF PathTo
    <3>2. PathTo(s, top) # <<>>
      BY <1>7
    <3> HIDE DEF at, k
    <3>3. QED
      BY <3>1, <3>2
  <2>2. at \subseteq 2 .. Len(Chain[s])
    BY DEF Reaching
  <2>3. PICK c1 : c1 = Chain[s]
    OBVIOUS
  <2>4. c1 \in Seq(Spaces)
    BY <2>1, <2>2, <2>3
  <2> HIDE DEF at
  <2>5. k \in at
    <3>1. Len(c1) \in Nat
      BY <2>4
    <3>2. at \subseteq Nat
      BY <2>2, <2>3, <3>1
    <3>3. QED
      BY <2>1, <3>2, LowestIsOne
  <2> HIDE DEF k
  <2>6. k \in Nat /\ 1 <= k /\ k <= Len(c1) /\ Len(c1) \in Nat /\ DOMAIN c1 = 1 .. Len(c1)
    BY <2>2, <2>3, <2>4, <2>5
  <2>7. i \in 1 .. k /\ PathTo(s, top)[i] = c1[i]
    BY <1>7, <2>1, <2>3, <2>4, <2>6
  <2>8. i \in DOMAIN Chain[s]
    BY <2>3, <2>6, <2>7
  <2>9. QED
    BY <2>3, <2>7, <2>8
<1>8. Readable(s)' = Readable(s)
  BY <1>1, <1>2 DEF Readable, Admin
<1>9. \A need : May(need, s)' = May(need, s)
  BY <1>5, <1>8 DEF May, Live, Admin
<1>10. QED
  BY <1>2, <1>3, <1>4, <1>5, <1>6, <1>7, <1>9

LEMMA ScriptSpaces ==
    ASSUME TablesOk, NEW s \in Targets
    PROVE  s \in Spaces /\ spaces[s].status # "none"
BY AccessAssumption, WorkAssumption, CastAssumption DEF Targets, TablesOk

LEMMA GroundsStay ==
    ASSUME TablesOk, Tree(spaces), TablesOk', Rooted(spaces)', AccessAsBefore
    PROVE  Grounds' = Grounds
<1>1. Placed /\ Placed'
  <2>1. (TablesOk => Placed)'
    BY TablesArePlaced, PTL
  <2>2. QED
    BY <2>1, TablesArePlaced
<1>2. ASSUME NEW s \in Targets
      PROVE  GroundsOf(s)' = GroundsOf(s)
  <2>1. s \in Spaces /\ spaces[s].status # "none"
    BY ScriptSpaces
  <2>2. /\ Chain'[s] = Chain[s]
        /\ \A i \in DOMAIN Chain[s] :
              Chain[s][i] \in Spaces /\ spaces'[Chain[s][i]] = spaces[Chain[s][i]]
    BY <1>1, <2>1, ChainsStay
  <2>3. spaces'[s] = spaces[s] /\ grants' = grants /\ actor' = actor
    BY <2>1 DEF AccessAsBefore
  <2>4. Chain[s] = <<>> \/ Chain[s] \in Seq(Spaces)
    BY <1>1, <2>1, ChainIsWhole DEF Whole, Climb, Tree
  <2>5. /\ DirectGrant(s)' = DirectGrant(s) /\ InheritedGrant(s)' = InheritedGrant(s)
        /\ ContributorGrant(s)' = ContributorGrant(s)
        /\ \A top : PathTo(s, top)' = PathTo(s, top)
        /\ \A top : \A i \in DOMAIN PathTo(s, top) :
              spaces'[PathTo(s, top)[i]] = spaces[PathTo(s, top)[i]]
        /\ \A need : May(need, s)' = May(need, s)
    BY <2>1, <2>2, <2>3, <2>4, ReadingsStay
  <2>6. Way(s)' = Way(s) /\ Reader(s)' = Reader(s)
    BY <2>3, <2>5 DEF Way, Reader, Admin
  <2>7. Top(s)' = Top(s)
    BY <2>3, <2>6 DEF Top
  <2>8. Via(s)' = Via(s)
    BY <2>5, <2>7 DEF Via
  <2>9. SpaceRow(s)' = SpaceRow(s) /\ \A g : GrantRow(g)' = GrantRow(g)
    BY <2>3 DEF SpaceRow, GrantRow
  <2>10. \A i \in DOMAIN Via(s) : SpaceRow(Via(s)[i])' = SpaceRow(Via(s)[i])
    BY <2>5, <2>8 DEF Via, SpaceRow
  <2>11. {SpaceRow(Via(s)[i]) : i \in DOMAIN Via(s)}' = {SpaceRow(Via(s)[i]) : i \in DOMAIN Via(s)}
    BY <2>8, <2>10
  <2>12. QED
    BY <2>3, <2>5, <2>6, <2>7, <2>8, <2>9, <2>11 DEF GroundsOf, Admin
<1>3. QED
  BY <1>2 DEF Grounds

LEMMA LowestIsSome ==
    ASSUME NEW S, S \subseteq Grants, S # {}
    PROVE  LowestOf(S) \in S /\ LowestOf(S) # None
BY LowestIsOne, AccessAssumption

(* The inherited grant is live, on a Space that s reaches. *)
LEMMA InheritedReaches ==
    ASSUME NEW s \in Spaces, NEW k \in Reaching(s), On(Chain[s][k]) # {}, Len(Chain[s]) \in Nat
    PROVE  /\ InheritedGrant(s) # None /\ InheritedGrant(s) \in Grants
           /\ grants[InheritedGrant(s)].status = "live"
           /\ \E i \in Reaching(s) : Chain[s][i] = grants[InheritedGrant(s)].space
<1> DEFINE near == {i \in Reaching(s) : On(Chain[s][i]) # {}}
           m == LowestOf(near)
           S == On(Chain[s][m])
<1>1. near # {} /\ near \subseteq Nat
  <2>1. near # {}
    OBVIOUS
  <2>2. Reaching(s) \subseteq 2 .. Len(Chain[s])
    BY DEF Reaching
  <2>3. 2 .. Len(Chain[s]) \subseteq Nat
    OBVIOUS
  <2>4. QED
    BY <2>1, <2>2, <2>3
<1>2. InheritedGrant(s) = LowestOf(S)
  BY <1>1 DEF InheritedGrant
<1>3. m \in near
  BY <1>1, LowestIsOne
<1> HIDE DEF m
<1>4. m \in Reaching(s) /\ S # {}
  BY <1>3
<1>5. \A g \in S : g \in Grants /\ grants[g].status = "live" /\ grants[g].space = Chain[s][m]
  BY DEF On
<1> HIDE DEF S
<1>6. S \subseteq Grants
  BY <1>5
<1>7. LowestOf(S) \in S /\ LowestOf(S) # None
  BY <1>4, <1>6, LowestIsSome
<1>8. QED
  BY <1>2, <1>4, <1>5, <1>7

LEMMA PathIsSome ==
    ASSUME NEW s \in Spaces, NEW top, NEW k \in Reaching(s), Chain[s][k] = top,
           Chain[s] \in Seq(Spaces)
    PROVE  PathTo(s, top) # <<>>
<1> DEFINE at == {i \in Reaching(s) : Chain[s][i] = top}
           m == LowestOf(at)
<1>1. PICK c : c = Chain[s]
  OBVIOUS
<1>2. c \in Seq(Spaces) /\ Len(c) \in Nat
  BY <1>1
<1>3. at # {} /\ at \subseteq 2 .. Len(c)
  BY <1>1 DEF Reaching
<1>4. PathTo(s, top) = SubSeq(c, 1, m)
  BY <1>1, <1>3 DEF PathTo
<1> HIDE DEF at
<1>5. at \subseteq Nat
  BY <1>2, <1>3
<1>6. m \in at
  BY <1>3, <1>5, LowestIsOne
<1> HIDE DEF m
<1>7. m \in Nat /\ 2 <= m /\ m <= Len(c)
  BY <1>2, <1>3, <1>6
<1>8. Len(SubSeq(c, 1, m)) = m
  BY <1>2, <1>7
<1>9. SubSeq(c, 1, m) # <<>>
  BY <1>7, <1>8
<1>10. QED
  BY <1>4, <1>9

(* What an actor who may do this in s has.                                 *)
LEMMA AllowedReads ==
    ASSUME TablesOk, Tree(spaces), NEW s \in Targets, NEW need, May(need, s)
    PROVE  /\ s \in Spaces /\ actor.active /\ actor.policy /\ Live(s)
           /\ need # "enter" => spaces[s].class <= Ceiling
           /\ need = "manage" => Admin
           /\ need = "contribute" /\ ~Admin => ContributorGrant(s) # None
           /\ Way(s) \in {"free", "direct", "inherited"}
           /\ Way(s) \in {"direct", "inherited"} =>
                 Reader(s) \in Grants /\ grants[Reader(s)].status = "live"
           /\ Way(s) = "inherited" =>
                 Via(s) # <<>> /\ PathTo(s, Via(s)[Len(Via(s))]) = Via(s)
<1>1. s \in Spaces
  BY ScriptSpaces
<1>2. /\ actor.active /\ actor.policy /\ Live(s) /\ Readable(s)
      /\ need # "enter" => spaces[s].class <= Ceiling
      /\ need = "manage" => Admin
      /\ need = "contribute" /\ ~Admin => ContributorGrant(s) # None
  BY DEF May
<1>3. Placed
  BY TablesArePlaced
<1>4. Chain[s] \in Seq(Spaces) /\ Len(Chain[s]) \in Nat
  BY <1>1, <1>2, <1>3, ChainIsWhole DEF Tree, Whole, Climb
<1>5. On(s) # {} => DirectGrant(s) # None
  BY LowestIsSome DEF On, DirectGrant
<1>6. Way(s) \in {"free", "direct", "inherited"}
  BY <1>1, <1>2, <1>4, <1>5, InheritedReaches DEF Way, Readable
<1>7. ASSUME Way(s) = "direct"
      PROVE  Reader(s) \in Grants /\ grants[Reader(s)].status = "live"
  BY <1>7, LowestIsSome DEF Way, Reader, DirectGrant, LowestOf, On
<1>8. ASSUME Way(s) = "inherited"
      PROVE  /\ Reader(s) \in Grants /\ grants[Reader(s)].status = "live"
             /\ Via(s) # <<>> /\ PathTo(s, Via(s)[Len(Via(s))]) = Via(s)
  <2>1. DirectGrant(s) = None /\ InheritedGrant(s) # None /\ Reader(s) = InheritedGrant(s)
        /\ ~Admin /\ s # Root
    BY <1>8 DEF Way, Reader
  <2>2. PICK k \in Reaching(s) : On(Chain[s][k]) # {}
    BY <1>2, <1>5, <2>1 DEF Readable
  <2>3. /\ InheritedGrant(s) \in Grants /\ grants[InheritedGrant(s)].status = "live"
        /\ \E i \in Reaching(s) : Chain[s][i] = grants[InheritedGrant(s)].space
    BY <1>1, <1>4, <2>2, InheritedReaches
  <2>4. Via(s) # <<>>
    BY <1>1, <1>4, <2>1, <2>3, PathIsSome DEF Via, Top
  <2>5. Via(s)[Len(Via(s))] = Top(s)
    BY <1>1, <1>3, <2>4, PathToOk DEF Via, PathOk, Tree
  <2>6. QED
    BY <2>1, <2>3, <2>4, <2>5 DEF Via
<1>9. QED
  BY <1>1, <1>2, <1>6, <1>7, <1>8

----------------------------------------------------------------------------
(* What the scripts ask for.                                               *)

Ask == Powers \X Targets
Asks(todo) == todo \in Seq(Ask) /\ todo # <<>>

(* A step of a script of this kind, apart from the Space that it locks. *)
Suits(x, kind) ==
    /\ x.do \in {"decide", "batch"} => Asks(x.todo)
    /\ x.do \in {"batch", "version", "end"} => kind = "end"
    /\ x.do = "batch" => x.todo = EndRequests
    /\ x.do = "write" => "ended" \notin x.tables

(* The Space that a step locks is one that is asked for. *)
LocksAsked(x, kind) ==
    x.do = "lock" /\ x.row[1] = "space" => \E n \in Needs(kind) : n[2] = x.row[2]

LEMMA ShortAsks ==
    ASSUME NEW x \in Ask, NEW y \in Ask, NEW z \in Ask
    PROVE  Asks(<<x>>) /\ Asks(<<x, y>>) /\ Asks(<<x, y, z>>)
BY DEF Asks

LEMMA NeedsAreAsked ==
    \A a \in Powers : \A s \in Targets : <<a, s>> \in Ask
BY DEF Ask

LEMMA EndAsks == Asks(EndRequests)
BY EndSpaces DEF Ask, Powers, Targets, Asks

LEMMA StepsSuit ==
    ASSUME NEW kind
    PROVE  /\ \A row, mode : Suits(LockStep(row, mode), kind)
           /\ \A mode, todo : Asks(todo) => Suits(DecideStep(mode, todo), kind)
           /\ \A tables : "ended" \notin tables => Suits(WriteStep(tables), kind)
           /\ Suits(ReserveStep, kind) /\ Suits(ChildStep, kind)
           /\ kind = "end" =>
                 /\ Suits(BatchStep(EndRequests), kind)
                 /\ Suits(VersionStep, kind) /\ Suits(EndStep, kind)
BY StepDo, EndAsks DEF BatchStep, WriteStep, Suits

LEMMA NeedsFromSteps ==
    ASSUME NEW kind
    PROVE  /\ \A x \in StepsOf(kind) : x.do \in {"decide", "batch"} =>
                  \A j \in DOMAIN x.todo : x.todo[j] \in Needs(kind)
           /\ \A n \in Needs(kind) : \E x \in StepsOf(kind) :
                  x.do \in {"decide", "batch"} /\ \E j \in DOMAIN x.todo : n = x.todo[j]
BY DEF Needs, StepsOf, StepsIn

(* A lock of the Space that governs the script. *)
LEMMA GoverningLockAsked ==
    ASSUME NEW kind \in Kinds, kind \in Creating
    PROVE  \E n \in Needs(kind) : n[2] = ReservationSpace(kind)
BY ScriptsAreOk, NeedsFromSteps DEF GovernedBy, ScriptOk, StepsOf, Ahead, Governs, Scopes

(* Rows of other tables than that of Spaces may be locked by any script. *)
LEMMA OtherLocks ==
    ASSUME NEW kind
    PROVE  /\ \A row, mode : row[1] # "space" => LocksAsked(LockStep(row, mode), kind)
           /\ \A x : x.do # "lock" => LocksAsked(x, kind)
           /\ kind \in Kinds /\ kind \in Creating =>
                 LocksAsked(SpaceLock(ReservationSpace(kind)), kind)
BY StepDo, GoverningLockAsked DEF SpaceLock, LocksAsked

LEMMA OneAndTwo ==
    ASSUME NEW x, NEW y, NEW z
    PROVE  <<x>> \o <<y, z>> = <<x, y, z>>
<1> DEFINE S == {x, y, z}
           one == <<x>>
           two == <<y, z>>
           all == one \o two
<1>1. one \in Seq(S) /\ two \in Seq(S)
  OBVIOUS
<1>2. Len(one) = 1 /\ Len(two) = 2 /\ one[1] = x /\ two[1] = y /\ two[2] = z
  OBVIOUS
<1> HIDE DEF S, one, two
<1>3. /\ all \in Seq(S) /\ Len(all) = 1 + 2
      /\ \A i \in 1 .. 1 + 2 : all[i] = IF i <= 1 THEN one[i] ELSE two[i - 1]
  BY <1>1, <1>2, ConcatProperties
<1>4. all[1] = x /\ all[2] = y /\ all[3] = z
  BY <1>2, <1>3
<1> HIDE DEF all
<1>5. all = <<x, y, z>>
  BY <1>3, <1>4
<1>6. QED
  BY <1>5 DEF all, one, two

(* A step of a script that asks and locks what it may. *)
Fitting(x, kind) == Suits(x, kind) /\ LocksAsked(x, kind)

LEMMA FittingSteps ==
    ASSUME NEW kind
    PROVE  /\ \A row, mode : row[1] # "space" => Fitting(LockStep(row, mode), kind)
           /\ \A mode, todo : Asks(todo) => Fitting(DecideStep(mode, todo), kind)
           /\ \A tables : "ended" \notin tables => Fitting(WriteStep(tables), kind)
           /\ Fitting(ReserveStep, kind) /\ Fitting(ChildStep, kind)
           /\ kind \in Kinds /\ kind \in Creating =>
                 Fitting(SpaceLock(ReservationSpace(kind)), kind)
           /\ kind = "end" =>
                 /\ Fitting(BatchStep(EndRequests), kind)
                 /\ Fitting(VersionStep, kind) /\ Fitting(EndStep, kind)
BY StepDo, StepsSuit, OtherLocks DEF Fitting, SpaceLock

LEMMA ShortScriptsFit ==
    ASSUME NEW kind, NEW a, NEW b, NEW c, NEW d, Fitting(a, kind), Fitting(b, kind),
           Fitting(c, kind), Fitting(d, kind)
    PROVE  /\ \A x \in StepsIn(<<a, b, c, d>>) : Fitting(x, kind)
           /\ \A e : Fitting(e, kind) =>
                 \A x \in StepsIn(<<a, b, c, d, e>>) : Fitting(x, kind)
           /\ \A e, f, g : Fitting(e, kind) /\ Fitting(f, kind) /\ Fitting(g, kind) =>
                 \A x \in StepsIn(<<a, b, c, d, e, f, g>>) : Fitting(x, kind)
BY DEF StepsIn

LEMMA WrittenTables ==
    /\ \A table \in {"activity", "relationship", "revision", "source", "tombstone", "fact"} :
          "ended" \notin {table} \cup Messages
    /\ "ended" \notin {"content", "revision"} \cup Messages
    /\ "ended" \notin Messages
    /\ \A row \in {ItemRow, SourceRow, ActivityRow, RelationshipRow} : row[1] # "space"
BY DEF Messages, ItemRow, SourceRow, ActivityRow, RelationshipRow

(* Each script asks about Spaces of the scripts, locks a Space that it     *)
(* asks about, and ends the relationship only to end it. *)
LEMMA ScriptsFit ==
    ASSUME NEW kind \in Kinds
    PROVE  \A x \in StepsOf(kind) : Fitting(x, kind)
<1> DEFINE c == <<<<"contribute", Home>>>>
           cr == <<<<"contribute", Home>>, <<"read", Home>>>>
           crr == <<<<"contribute", Home>>, <<"read", Other>>, <<"read", Home>>>>
           cmr == <<<<"contribute", Home>>, <<"manage", Home>>, <<"read", Home>>>>
           mm == <<<<"manage", Root>>, <<"manage", Root>>>>
           own == <<<<"own", Other>>>>
           rc == <<<<"read", Other>>, <<"contribute", Other>>>>
           rm == <<<<"read", Other>>, <<"manage", Other>>>>
           rr == <<<<"read", Other>>, <<"read", Other>>>>
<1>1. /\ Asks(c) /\ Asks(cr) /\ Asks(crr) /\ Asks(cmr) /\ Asks(mm) /\ Asks(own)
      /\ Asks(rc) /\ Asks(rm) /\ Asks(rr)
  BY NeedsAreAsked, ShortAsks DEF Powers, Targets
<1>2. <<<<"contribute", Home>>>> \o EndpointReads = crr
  BY OneAndTwo DEF EndpointReads
<1>3. /\ "organization" \in Creating /\ ReservationSpace("organization") = Root
      /\ \A k \in {"initiative", "activity", "relationship", "content"} :
            k \in Creating /\ ReservationSpace(k) = Home
  BY DEF Creating, ReservationSpace
<1>4. CASE kind = "organization"
  <2> DEFINE s == SpaceLock(Root)
             t == DecideStep("plain", mm)
             u == ReserveStep
             v == ChildStep
  <2>1. Script[kind] = <<s, t, u, v>>
    BY <1>4 DEF Script, CreateOrganization, mm
  <2> HIDE DEF mm
  <2>2. Fitting(s, kind) /\ Fitting(t, kind) /\ Fitting(u, kind) /\ Fitting(v, kind)
    BY <1>1, <1>3, <1>4, FittingSteps, WrittenTables
  <2> HIDE DEF s, t, u, v
  <2>3. QED
    BY <2>1, <2>2, ShortScriptsFit DEF StepsOf
<1>5. CASE kind = "initiative"
  <2> DEFINE s == SpaceLock(Home)
             t == DecideStep("plain", cmr)
             u == ReserveStep
             v == ChildStep
  <2>1. Script[kind] = <<s, t, u, v>>
    BY <1>5 DEF Script, CreateInitiative, cmr
  <2> HIDE DEF cmr
  <2>2. Fitting(s, kind) /\ Fitting(t, kind) /\ Fitting(u, kind) /\ Fitting(v, kind)
    BY <1>1, <1>3, <1>5, FittingSteps, WrittenTables
  <2> HIDE DEF s, t, u, v
  <2>3. QED
    BY <2>1, <2>2, ShortScriptsFit DEF StepsOf
<1>6. CASE kind = "activity"
  <2> DEFINE s == SpaceLock(Home)
             t == DecideStep("plain", cr)
             u == ReserveStep
             v == WriteStep({"activity"} \cup Messages)
  <2>1. Script[kind] = <<s, t, u, v>>
    BY <1>6 DEF Script, CreateActivity, cr
  <2> HIDE DEF cr
  <2>2. Fitting(s, kind) /\ Fitting(t, kind) /\ Fitting(u, kind) /\ Fitting(v, kind)
    BY <1>1, <1>3, <1>6, FittingSteps, WrittenTables
  <2> HIDE DEF s, t, u, v
  <2>3. QED
    BY <2>1, <2>2, ShortScriptsFit DEF StepsOf
<1>7. CASE kind = "relationship"
  <2> DEFINE s == SpaceLock(Home)
             t == DecideStep("plain", crr)
             u == ReserveStep
             v == WriteStep({"relationship"} \cup Messages)
  <2>1. Script[kind] = <<s, t, u, v>>
    BY <1>2, <1>7 DEF Script, CreateRelationship
  <2> HIDE DEF crr
  <2>2. Fitting(s, kind) /\ Fitting(t, kind) /\ Fitting(u, kind) /\ Fitting(v, kind)
    BY <1>1, <1>3, <1>7, FittingSteps, WrittenTables
  <2> HIDE DEF s, t, u, v
  <2>3. QED
    BY <2>1, <2>2, ShortScriptsFit DEF StepsOf
<1>8. CASE kind = "content"
  <2> DEFINE s == SpaceLock(Home)
             t == DecideStep("plain", c)
             u == ReserveStep
             v == WriteStep({"content", "revision"} \cup Messages)
  <2>1. Script[kind] = <<s, t, u, v>>
    BY <1>8 DEF Script, CreateContent, c
  <2> HIDE DEF c
  <2>2. Fitting(s, kind) /\ Fitting(t, kind) /\ Fitting(u, kind) /\ Fitting(v, kind)
    BY <1>1, <1>3, <1>8, FittingSteps, WrittenTables
  <2> HIDE DEF s, t, u, v
  <2>3. QED
    BY <2>1, <2>2, ShortScriptsFit DEF StepsOf
<1>9. CASE kind = "revise"
  <2> DEFINE s == LockStep(ItemRow, "update")
             t == DecideStep("plain", c)
             u == ReserveStep
             v == WriteStep({"revision"} \cup Messages)
  <2>1. Script[kind] = <<s, t, u, v>>
    BY <1>9 DEF Script, ReviseContent, c
  <2> HIDE DEF c
  <2>2. Fitting(s, kind) /\ Fitting(t, kind) /\ Fitting(u, kind) /\ Fitting(v, kind)
    BY <1>1, <1>9, FittingSteps, WrittenTables
  <2> HIDE DEF s, t, u, v
  <2>3. QED
    BY <2>1, <2>2, ShortScriptsFit DEF StepsOf
<1>10. CASE kind = "capture"
  <2> DEFINE s == LockStep(ActivityRow, "share")
             t == DecideStep("plain", c)
             u == ReserveStep
             v == WriteStep({"source"} \cup Messages)
  <2>1. Script[kind] = <<s, t, u, v>>
    BY <1>10 DEF Script, CaptureSource, c
  <2> HIDE DEF c
  <2>2. Fitting(s, kind) /\ Fitting(t, kind) /\ Fitting(u, kind) /\ Fitting(v, kind)
    BY <1>1, <1>10, FittingSteps, WrittenTables
  <2> HIDE DEF s, t, u, v
  <2>3. QED
    BY <2>1, <2>2, ShortScriptsFit DEF StepsOf
<1>11. CASE kind = "accept"
  <2> DEFINE s == DecideStep("locked", own)
             t == ReserveStep
             u == DecideStep("locked", rr)
             v == WriteStep({"fact"} \cup Messages)
  <2>1. Script[kind] = <<s, t, u, v>>
    BY <1>11 DEF Script, AcceptFact, own, rr
  <2> HIDE DEF own, rr
  <2>2. Fitting(s, kind) /\ Fitting(t, kind) /\ Fitting(u, kind) /\ Fitting(v, kind)
    BY <1>1, <1>11, FittingSteps, WrittenTables
  <2> HIDE DEF s, t, u, v
  <2>3. QED
    BY <2>1, <2>2, ShortScriptsFit DEF StepsOf
<1>12. CASE kind = "correct"
  <2> DEFINE s == DecideStep("locked", rc)
             t == ReserveStep
             u == LockStep(SourceRow, "update")
             v == DecideStep("locked", rc)
             w == WriteStep({"source"} \cup Messages)
  <2>1. Script[kind] = <<s, t, u, v, w>>
    BY <1>12 DEF Script, CorrectSource, rc
  <2> HIDE DEF rc
  <2>2. Fitting(s, kind) /\ Fitting(t, kind) /\ Fitting(u, kind) /\ Fitting(v, kind) /\ Fitting(w, kind)
    BY <1>1, <1>12, FittingSteps, WrittenTables
  <2> HIDE DEF s, t, u, v, w
  <2>3. QED
    BY <2>1, <2>2, ShortScriptsFit DEF StepsOf
<1>13. CASE kind = "tombstone"
  <2> DEFINE s == DecideStep("locked", rm)
             t == LockStep(SourceRow, "update")
             u == DecideStep("locked", rm)
             v == ReserveStep
             w == WriteStep({"tombstone"} \cup Messages)
  <2>1. Script[kind] = <<s, t, u, v, w>>
    BY <1>13 DEF Script, TombstoneSource, rm
  <2> HIDE DEF rm
  <2>2. Fitting(s, kind) /\ Fitting(t, kind) /\ Fitting(u, kind) /\ Fitting(v, kind) /\ Fitting(w, kind)
    BY <1>1, <1>13, FittingSteps, WrittenTables
  <2> HIDE DEF s, t, u, v, w
  <2>3. QED
    BY <2>1, <2>2, ShortScriptsFit DEF StepsOf
<1>14. CASE kind = "end"
  <2> DEFINE s == DecideStep("unlocked", c)
             t == LockStep(RelationshipRow, "update")
             u == BatchStep(EndRequests)
             w == WriteStep(Messages)
  <2>1. Script[kind] = <<s, t, u, ReserveStep, VersionStep, EndStep, w>>
    BY <1>14 DEF Script, EndRelationship, c
  <2> HIDE DEF c
  <2>2. /\ Fitting(s, kind) /\ Fitting(t, kind) /\ Fitting(u, kind) /\ Fitting(w, kind)
        /\ Fitting(ReserveStep, kind) /\ Fitting(VersionStep, kind) /\ Fitting(EndStep, kind)
    BY <1>1, <1>14, FittingSteps, WrittenTables
  <2> HIDE DEF s, t, u, w
  <2>3. QED
    BY <2>1, <2>2, ShortScriptsFit DEF StepsOf
<1>15. QED
  BY <1>4, <1>5, <1>6, <1>7, <1>8, <1>9, <1>10, <1>11, <1>12, <1>13, <1>14 DEF Kinds, Script

----------------------------------------------------------------------------
(* Where a script has come.                                                *)

(* The step that is done at each place of relationship.end. *)
LEMMA EndScript ==
    /\ Len(Script["end"]) = 7
    /\ \A i \in 1 .. 7 :
          /\ Script["end"][i].do = "decide" <=> i = 1
          /\ Script["end"][i].do = "lock" <=> i = 2
          /\ Script["end"][i].do = "batch" <=> i = 3
          /\ Script["end"][i].do = "reserve" <=> i = 4
          /\ Script["end"][i].do = "version" <=> i = 5
          /\ Script["end"][i].do = "end" <=> i = 6
          /\ Script["end"][i].do = "write" <=> i = 7
    /\ Script["end"][2] = LockStep(RelationshipRow, "update")
BY StepDo DEF Script, EndRelationship, BatchStep

LEMMA CreationScripts ==
    ASSUME NEW kind \in Creations
    PROVE  /\ Len(Script[kind]) = 4
           /\ \A i \in 1 .. 4 :
                 /\ Script[kind][i].do = "child" <=> i = 4
                 /\ Script[kind][i].do \in {"lock", "decide", "reserve", "child"}
BY StepDo DEF Script, CreateOrganization, CreateInitiative, SpaceLock, Creations

(* The places of what is left of a script. *)
LEMMA RestPlaces ==
    ASSUME NEW L, NEW m \in Nat, Len(L) = m, NEW T, NEW script \in Seq(T), EndOf(L, script)
    PROVE  /\ Len(script) \in Nat /\ Len(script) <= m
           /\ script # <<>> =>
                 /\ Len(script) >= 1 /\ m - Len(script) + 1 \in 1 .. m
                 /\ Head(script) = L[m - Len(script) + 1]
                 /\ Tail(script) \in Seq(T) /\ EndOf(L, Tail(script))
                 /\ Len(Tail(script)) = Len(script) - 1
<1>1. Len(script) \in Nat /\ Len(script) <= m /\ DOMAIN script = 1 .. Len(script)
  BY DEF EndOf
<1>2. ASSUME script # <<>>
      PROVE  /\ Len(script) >= 1 /\ m - Len(script) + 1 \in 1 .. m
             /\ Head(script) = L[m - Len(script) + 1]
             /\ Tail(script) \in Seq(T) /\ EndOf(L, Tail(script))
             /\ Len(Tail(script)) = Len(script) - 1
  BY <1>1, <1>2, EndOfTail
<1>3. QED
  BY <1>1, <1>2

(* A step that is at one place only is ahead until it is passed. *)
LEMMA RestAhead ==
    ASSUME NEW L, NEW m \in Nat, Len(L) = m, NEW T, NEW script \in Seq(T), EndOf(L, script),
           NEW do, NEW k \in 1 .. m, \A i \in 1 .. m : L[i].do = do <=> i = k
    PROVE  Ahead(script, do) <=> Len(script) > m - k
<1> DEFINE n == Len(script)
<1>1. \A i \in 1 .. n : script[i] = L[m - n + i]
  BY DEF EndOf
<1>2. n \in Nat /\ n <= m /\ DOMAIN script = 1 .. n
  BY DEF EndOf
<1> HIDE DEF n
<1>3. ASSUME Ahead(script, do) PROVE n > m - k
  BY <1>1, <1>2, <1>3 DEF Ahead
<1>4. ASSUME n > m - k PROVE Ahead(script, do)
  <2>1. n - (m - k) \in 1 .. n /\ m - n + (n - (m - k)) = k
    BY <1>2, <1>4
  <2>2. script[n - (m - k)] = L[k]
    BY <1>1, <2>1
  <2>3. script[n - (m - k)].do = do
    BY <2>2
  <2>4. QED
    BY <1>2, <2>1, <2>3 DEF Ahead
<1>5. QED
  BY <1>3, <1>4 DEF n

LEMMA EndPlaces ==
    ASSUME NEW T, NEW script \in Seq(T), EndOf(Script["end"], script)
    PROVE  /\ Len(script) \in Nat
           /\ Ahead(script, "batch") <=> Len(script) > 4
           /\ Ahead(script, "reserve") <=> Len(script) > 3
           /\ script # <<>> =>
                 /\ Len(Tail(script)) = Len(script) - 1
                 /\ Head(script).do = "decide" => Len(script) = 7
                 /\ Head(script).do = "lock" =>
                       Len(script) = 6 /\ Head(script) = LockStep(RelationshipRow, "update")
                 /\ Head(script).do = "batch" => Len(script) = 5
                 /\ Head(script).do = "reserve" => Len(script) = 4
                 /\ Head(script).do = "version" => Len(script) = 3
                 /\ Head(script).do = "end" => Len(script) = 2
                 /\ Head(script).do = "write" => Len(script) = 1
                 /\ Head(script).do # "child"
<1> DEFINE L == Script["end"]
           n == Len(script)
           m == 7
           b == 3
           r == 4
<1>1. /\ Len(L) = m /\ EndOf(L, script) /\ m \in Nat /\ b \in 1 .. m /\ r \in 1 .. m
  BY EndScript
<1>a. \A i \in 1 .. m : L[i].do = "batch" <=> i = b
  BY EndScript
<1>b. \A i \in 1 .. m : L[i].do = "reserve" <=> i = r
  BY EndScript
<1> HIDE DEF L, n, m, b, r
<1>2. Ahead(script, "batch") <=> n > m - b
  BY <1>1, <1>a, RestAhead DEF n
<1>3. Ahead(script, "reserve") <=> n > m - r
  BY <1>1, <1>b, RestAhead DEF n
<1>4. n \in Nat /\ n <= 7
  BY <1>1, RestPlaces DEF n, m
<1>5. ASSUME script # <<>>
      PROVE  /\ Len(Tail(script)) = n - 1 /\ 7 - n + 1 \in 1 .. 7
             /\ Head(script) = L[7 - n + 1]
  <2>1. /\ Len(Tail(script)) = n - 1 /\ m - n + 1 \in 1 .. m
        /\ Head(script) = L[m - n + 1]
    BY <1>1, <1>5, RestPlaces DEF n
  <2>2. QED
    BY <2>1 DEF m
<1>6. \A k \in 1 .. 7 : k = 7 - n + 1 => n = 8 - k
  BY <1>4
<1>7. \A i \in 1 .. 7 :
          /\ L[i].do = "decide" => i = 1
          /\ L[i].do = "lock" => i = 2 /\ L[i] = LockStep(RelationshipRow, "update")
          /\ L[i].do = "batch" => i = 3
          /\ L[i].do = "reserve" => i = 4
          /\ L[i].do = "version" => i = 5
          /\ L[i].do = "end" => i = 6
          /\ L[i].do = "write" => i = 7
          /\ L[i].do # "child"
  BY EndScript DEF L
<1>8. ASSUME script # <<>>
      PROVE  \E k \in 1 .. 7 : n = 8 - k /\ Head(script) = L[k]
  BY <1>5, <1>6, <1>8
<1>9. ASSUME script # <<>>
      PROVE  /\ Head(script).do = "decide" => n = 7
             /\ Head(script).do = "lock" =>
                   n = 6 /\ Head(script) = LockStep(RelationshipRow, "update")
             /\ Head(script).do = "batch" => n = 5
             /\ Head(script).do = "reserve" => n = 4
             /\ Head(script).do = "version" => n = 3
             /\ Head(script).do = "end" => n = 2
             /\ Head(script).do = "write" => n = 1
             /\ Head(script).do # "child"
  BY <1>7, <1>8, <1>9
<1>10. QED
  BY <1>2, <1>3, <1>4, <1>5, <1>9 DEF n, m, b, r

LEMMA CreationPlaces ==
    ASSUME NEW kind \in Creations, NEW T, NEW script \in Seq(T), EndOf(Script[kind], script)
    PROVE  /\ Len(script) \in Nat
           /\ Ahead(script, "child") <=> Len(script) > 0
           /\ script # <<>> =>
                 /\ Len(Tail(script)) = Len(script) - 1 /\ Len(script) >= 1
                 /\ Head(script).do = "child" <=> Len(script) = 1
<1> DEFINE L == Script[kind]
           n == Len(script)
           m == 4
<1>1. Len(L) = m /\ m \in Nat /\ m \in 1 .. m /\ \A i \in 1 .. m : L[i].do = "child" <=> i = m
  BY CreationScripts
<1> HIDE DEF L
<1>2. EndOf(L, script)
  BY DEF L
<1> HIDE DEF n, m
<1>3. n \in Nat /\ n <= m
  BY <1>1, <1>2, RestPlaces DEF n
<1>4. Ahead(script, "child") <=> n > m - m
  <2>1. PICK k : k = m
    OBVIOUS
  <2>2. k \in Nat /\ Len(L) = k /\ k \in 1 .. k
    BY <1>1, <2>1
  <2>3. \A i \in 1 .. k : L[i].do = "child" <=> i = k
    BY <1>1, <2>1
  <2>4. Ahead(script, "child") <=> Len(script) > k - k
    BY <1>2, <2>2, <2>3, RestAhead
  <2>5. QED
    BY <2>1, <2>4 DEF n
<1>5. ASSUME script # <<>>
      PROVE  /\ Len(Tail(script)) = n - 1 /\ n >= 1 /\ m - n + 1 \in 1 .. m
             /\ Head(script) = L[m - n + 1]
  BY <1>1, <1>2, <1>5, RestPlaces DEF n
<1>6. m - n + 1 = m <=> n = 1
  BY <1>1, <1>3
<1>7. script # <<>> => (Head(script).do = "child" <=> n = 1)
  BY <1>1, <1>5, <1>6
<1>8. QED
  BY <1>3, <1>4, <1>5, <1>7 DEF n, m

----------------------------------------------------------------------------
(* A decision goes on.                                                     *)

LEMMA AllIsFound ==
    ASSUME NEW found, NEW gr, Partly(found, gr),
           \A i \in DOMAIN EndRequests : Gathers(found, EndRequests[i], gr)
    PROVE  found = Everything(gr)
BY EndSpaces DEF Gathers, Partly, Covers, Everything

(* The request at the head of a batch. *)
LEMMA HeadOfBatch ==
    ASSUME NEW S, NEW todo \in Seq(S), todo # <<>>, EndOf(EndRequests, todo)
    PROVE  /\ Len(todo) \in 1 .. 4
           /\ Head(todo) = EndRequests[4 - Len(todo) + 1]
           /\ Head(todo)[2] \in {Home, Other}
           /\ Head(todo)[1] = "contribute" => Head(todo)[2] = Home
           /\ EndOf(EndRequests, Tail(todo)) /\ Len(Tail(todo)) = Len(todo) - 1
<1> DEFINE L == EndRequests
           m == 4
           n == Len(todo)
<1>1. Len(L) = m /\ EndOf(L, todo) /\ m \in Nat
  BY EndSpaces
<1>2. \A i \in 1 .. m : L[i][2] \in {Home, Other} /\ (L[i][1] = "contribute" => L[i][2] = Home)
  BY EndSpaces
<1> HIDE DEF L, m, n
<1>3. /\ n \in Nat /\ n <= m /\ n >= 1 /\ m - n + 1 \in 1 .. m
      /\ Head(todo) = L[m - n + 1] /\ EndOf(L, Tail(todo)) /\ Len(Tail(todo)) = n - 1
  BY <1>1, RestPlaces DEF n
<1>4. Head(todo)[2] \in {Home, Other} /\ (Head(todo)[1] = "contribute" => Head(todo)[2] = Home)
  BY <1>2, <1>3
<1>5. QED
  BY <1>3, <1>4 DEF L, m, n

(* What a step of a decision leaves as it is. *)
Relays(t, u) ==
    /\ u.kind = t.kind /\ u.todo = t.todo /\ u.mode = t.mode /\ u.after = t.after
    /\ u.role = t.role /\ u.requests = t.requests /\ u.expected = t.expected

LEMMA InnerSmooth ==
    ASSUME NEW t, NEW u, NEW role, NEW gr, Succeeding(t, role, gr),
           t.pc \in Inner \cup {"scope"}, u.pc \in Inner, Relays(t, u),
           u.pc = "direct" => gr[Head(t.todo)[2]].way = "direct" /\ u.grant = gr[Head(t.todo)[2]].reader,
           u.pc \in {"path", "lockPath", "inherited"} =>
               gr[Head(t.todo)[2]].way = "inherited" /\ u.grant = gr[Head(t.todo)[2]].reader,
           u.pc = "lockPath" => u.mode = "locked" /\ u.path = gr[Head(t.todo)[2]].path,
           t.mode = "batch" =>
               Partly(u.found, gr) /\ Covers(t.found, u.found) /\ HeadGathers(u, gr)
    PROVE  Smooth(u, role, gr)
BY DEF Inner, Batching, Succeeding, Gathers, Covers, Gathering, Relays, Smooth

(* A decision that is not of a batch. *)
LEMMA ScopeSmooth ==
    ASSUME NEW t, NEW u, NEW role, NEW gr, u.pc \in {"actor", "scope"},
           u.todo \in Seq(Needs(u.kind)), u.todo # <<>>, u.mode \in Modes \ {"batch"},
           u.pc = "scope" => u.role = role, u.after = "next"
    PROVE  Smooth(u, role, gr)
BY DEF Inner, Batching, Succeeding, Smooth

(* The next request of a batch. *)
LEMMA BatchSmooth ==
    ASSUME NEW u, NEW role, NEW gr, u.pc = "scope",
           u.todo \in Seq(Needs(u.kind)), u.todo # <<>>, u.mode = "batch", u.role = role,
           Gathering(u, gr)
    PROVE  Smooth(u, role, gr)
BY DEF Succeeding, Modes, Smooth, Batching

(* What the rows are that can be found. *)
LEMMA EverythingIsRead ==
    /\ \A r \in Everything(Grounds).spaces : r = SpaceRow(r[1])
    /\ \A r \in Everything(Grounds).grants : r = GrantRow(r[1])
    /\ \A r \in Everything(Grounds).paths : r = <<r[1], r[2], PathTo(r[1], r[2])>>
BY DEF Targets, Grounds, SpaceRow, GrantRow, GroundsOf, Via, Everything

LEMMA PartlyIsConsistent ==
    ASSUME NEW found, Partly(found, Grounds)
    PROVE  Consistent(found)
BY EverythingIsRead DEF Partly, Covers, Consistent

(* A batch that finds more of what there is. *)
FindsMore(p, S, G, P, pc) ==
    /\ \A x \in Fields \ {"pc", "found"} : txn'[p][x] = txn[p][x]
    /\ txn'[p].pc = pc
    /\ Partly(txn'[p].found, Grounds) /\ Covers(txn[p].found, txn'[p].found)
    /\ {SpaceRow(s) : s \in S} \subseteq txn'[p].found.spaces
    /\ {GrantRow(g) : g \in G} \subseteq txn'[p].found.grants
    /\ P \subseteq txn'[p].found.paths

LEMMA DiscoverFinds ==
    ASSUME Shape, NEW p \in Procs, NEW STATE S, NEW STATE G, NEW STATE P, NEW STATE pc,
           Discover(p, S, G, P, pc), Partly(txn[p].found, Grounds),
           {SpaceRow(s) : s \in S} \subseteq Everything(Grounds).spaces,
           {GrantRow(g) : g \in G} \subseteq Everything(Grounds).grants,
           P \subseteq Everything(Grounds).paths
    PROVE  FindsMore(p, S, G, P, pc)
<1> DEFINE found == Found(p, S, G, P)
           t == [txn[p] EXCEPT !.pc = pc, !.found = found]
<1>1. /\ found = [spaces |-> found.spaces, grants |-> found.grants, paths |-> found.paths]
      /\ found.spaces = txn[p].found.spaces \cup {SpaceRow(s) : s \in S}
      /\ found.grants = txn[p].found.grants \cup {GrantRow(g) : g \in G}
      /\ found.paths = txn[p].found.paths \cup P
  <2> DEFINE f == txn[p].found
  <2>1. f = [spaces |-> f.spaces, grants |-> f.grants, paths |-> f.paths]
    BY DEF Partly
  <2>2. found = [f EXCEPT !.spaces = @ \cup {SpaceRow(s) : s \in S},
                          !.grants = @ \cup {GrantRow(g) : g \in G},
                          !.paths = @ \cup P]
    BY DEF Found
  <2> HIDE DEF found, f
  <2>3. QED
    BY <2>1, <2>2 DEF f
<1>2. Partly(found, Grounds) /\ Covers(txn[p].found, found)
  <2> HIDE DEF found
  <2>1. QED
    BY <1>1 DEF Partly, Covers
<1>3. Become(p, t)
  BY <1>2, PartlyIsConsistent DEF Discover
<1> HIDE DEF found
<1>4. /\ DOMAIN t = Fields /\ t.pc = pc /\ t.found = found
      /\ \A x \in Fields \ {"pc", "found"} : t[x] = txn[p][x]
  BY DEF Shape, Fields
<1> HIDE DEF t
<1>5. Replaced(p, t)
  BY <1>3, <1>4, BecomeReplaces
<1>6. txn'[p] = t
  BY <1>5 DEF Replaced
<1>7. QED
  BY <1>1, <1>2, <1>4, <1>6 DEF FindsMore

LEMMA NeedIsAsk ==
    ASSUME NEW kind \in Kinds, NEW n \in Needs(kind)
    PROVE  n \in Ask
BY NeedsFromSteps, ScriptsFit DEF Fitting, Suits, Asks

(* What a decision that is allowed finds in the Space it is about.         *)
Eased(p) ==
    LET s == Target(p) IN
    /\ s \in Targets /\ s \in Spaces /\ Mode(p) \in Modes
    /\ actor.active /\ actor.policy /\ Live(s)
    /\ Need(p) # "enter" => spaces[s].class <= Ceiling
    /\ Need(p) = "manage" => Admin
    /\ Need(p) = "contribute" /\ ~Admin => ContributorGrant(s) # None
    /\ Way(s) \in {"free", "direct", "inherited"}
    /\ Way(s) \in {"direct", "inherited"} => grants[Reader(s)].status = "live"
    /\ Way(s) = "inherited" => Via(s) # <<>> /\ PathTo(s, Via(s)[Len(Via(s))]) = Via(s)
    /\ Grounds[s] = GroundsOf(s)

(* Such a decision, which is made with the role that the actor has. *)
Calmly(p) ==
    /\ Shape /\ Succeeding(txn[p], actor.role, Grounds) /\ Eased(p)
    /\ txn[p].kind \in Kinds /\ ~txn[p].replay

LEMMA CalmDecision ==
    ASSUME IInv, AInv, NEW p \in Procs, Calm(p), Smooth(txn[p], actor.role, Grounds),
           txn[p].pc \in Deciding, DueOk(p)
    PROVE  Calmly(p)
<1>1. ~At(p, "idle") /\ ~At(p, "commit")
  BY DEF Deciding, Inner, At
<1>2. txn[p].kind \in Kinds
  BY <1>1 DEF IInv, ProcOk, TxnOk
<1>3. Succeeding(txn[p], actor.role, Grounds)
  BY DEF Smooth
<1>4. txn[p].todo \in Seq(Needs(txn[p].kind)) /\ txn[p].todo # <<>> /\ Mode(p) \in Modes
  BY <1>3 DEF Succeeding, Mode
<1>5. PICK n : n = Head(txn[p].todo) /\ n \in Needs(txn[p].kind)
  BY <1>4
<1>6. n \in Ask /\ n = <<n[1], n[2]>> /\ n[2] \in Targets
  BY <1>2, <1>5, NeedIsAsk DEF Ask
<1>7. May(n[1], n[2])
  BY <1>5 DEF Calm, Allowed
<1>8. Need(p) = n[1] /\ Target(p) = n[2]
  BY <1>5 DEF Need, Target
<1>9. TablesOk /\ Tree(spaces)
  BY DEF IInv, AInv, Tree
<1>10. Eased(p)
  BY <1>4, <1>6, <1>7, <1>8, <1>9, AllowedReads DEF Grounds, Eased
<1>11. ~txn[p].replay /\ Shape
  BY <1>1 DEF DueOk, IInv
<1>12. QED
  BY <1>2, <1>3, <1>10, <1>11 DEF Calmly

(* What a batch that is allowed may find. *)
LEMMA BatchRows ==
    ASSUME NEW p \in Procs, Calmly(p), Mode(p) = "batch"
    PROVE  /\ Gathering(txn[p], Grounds)
           /\ Partly(txn[p].found, Grounds) /\ HeadGathers(txn[p], Grounds)
           /\ GroundsOf(Target(p)).spaces \subseteq Everything(Grounds).spaces
           /\ GroundsOf(Target(p)).grants \subseteq Everything(Grounds).grants
           /\ GroundsOf(Target(p)).paths \subseteq Everything(Grounds).paths
           /\ Need(p) = "contribute" =>
                 GroundsOf(Target(p)).contributors \subseteq Everything(Grounds).grants
<1>1. Gathering(txn[p], Grounds) /\ txn[p].todo \in Seq(Needs(txn[p].kind)) /\ txn[p].todo # <<>>
  BY DEF Calmly, Succeeding, Mode
<1>2. EndOf(EndRequests, txn[p].todo) /\ Partly(txn[p].found, Grounds) /\ HeadGathers(txn[p], Grounds)
  BY <1>1 DEF Gathering
<1>3. Target(p) \in {Home, Other} /\ (Need(p) = "contribute" => Target(p) = Home)
  BY <1>1, <1>2, HeadOfBatch DEF Target, Need
<1>4. \A s \in Targets : Grounds[s] = GroundsOf(s)
  BY DEF Grounds
<1>5. Home \in Targets /\ Other \in Targets
  BY DEF Targets
<1>6. /\ Everything(Grounds).spaces = GroundsOf(Home).spaces \cup GroundsOf(Other).spaces
      /\ Everything(Grounds).grants = GroundsOf(Home).grants \cup GroundsOf(Other).grants
                                       \cup GroundsOf(Home).contributors
      /\ Everything(Grounds).paths = GroundsOf(Home).paths \cup GroundsOf(Other).paths
  BY <1>4, <1>5 DEF Everything
<1>7. QED
  BY <1>1, <1>2, <1>3, <1>6

(* The parts of what is found. *)
LEMMA GroundsAre ==
    ASSUME NEW s
    PROVE  /\ GroundsOf(s).way = Way(s) /\ GroundsOf(s).reader = Reader(s)
           /\ GroundsOf(s).row = SpaceRow(s)
           /\ Way(s) = "inherited" =>
                 /\ GroundsOf(s).path = Via(s)
                 /\ GroundsOf(s).spaces = {SpaceRow(s)} \cup {SpaceRow(Via(s)[i]) : i \in DOMAIN Via(s)}
                 /\ GroundsOf(s).paths = {<<s, Top(s), Via(s)>>}
           /\ Way(s) # "inherited" =>
                 GroundsOf(s).spaces = {SpaceRow(s)} /\ GroundsOf(s).paths = {}
           /\ Way(s) \in {"direct", "inherited"} => GroundsOf(s).grants = {GrantRow(Reader(s))}
           /\ Way(s) = "free" => GroundsOf(s).grants = {}
           /\ Admin => GroundsOf(s).contributors = {}
           /\ ~Admin /\ ContributorGrant(s) # None =>
                 GroundsOf(s).contributors = {GrantRow(ContributorGrant(s))}
BY DEF GroundsOf

(* How a decision may go on. *)
Leads(p) ==
    LET s == Target(p)
        u == txn'[p] IN
    /\ u.pc = "direct" => Way(s) = "direct" /\ u.grant = Reader(s)
    /\ u.pc \in {"path", "lockPath", "inherited"} => Way(s) = "inherited" /\ u.grant = Reader(s)
    /\ u.pc = "lockPath" => Mode(p) = "locked" /\ u.path = Via(s)

(* How much it has found then. *)
Collects(p) ==
    LET s == Target(p)
        u == txn'[p] IN
    /\ Partly(u.found, Grounds) /\ Covers(txn[p].found, u.found)
    /\ u.pc # "target" => SpaceRow(s) \in u.found.spaces
    /\ u.pc \in {"inherited", "need", "decided"} =>
          GroundsOf(s).spaces \subseteq u.found.spaces /\ GroundsOf(s).paths \subseteq u.found.paths
    /\ u.pc \in {"need", "decided"} => GroundsOf(s).grants \subseteq u.found.grants
    /\ u.pc = "decided" /\ Need(p) = "contribute" =>
          GroundsOf(s).contributors \subseteq u.found.grants

LEMMA LeadingSmooth ==
    ASSUME NEW p \in Procs, Calmly(p), txn[p].pc \in Inner \cup {"scope"}, txn'[p].pc \in Inner,
           Relays(txn[p], txn'[p]), Leads(p), Mode(p) = "batch" => Collects(p)
    PROVE  Smooth(txn'[p], actor.role, Grounds)
<1> DEFINE t == txn[p]
           u == txn'[p]
           gr == Grounds
           f == gr[Head(t.todo)[2]]
<1>1. Succeeding(t, actor.role, gr) /\ Grounds[Target(p)] = GroundsOf(Target(p))
  BY DEF Calmly, Eased
<1>2. f = GroundsOf(Target(p)) /\ u.todo = t.todo /\ u.mode = t.mode
  BY <1>1 DEF Target, Relays
<1>3. /\ u.pc = "direct" => f.way = "direct" /\ u.grant = f.reader
      /\ u.pc \in {"path", "lockPath", "inherited"} => f.way = "inherited" /\ u.grant = f.reader
      /\ u.pc = "lockPath" => u.mode = "locked" /\ u.path = f.path
  BY <1>2, GroundsAre DEF Leads, Mode
<1>4. ASSUME t.mode = "batch"
      PROVE  Partly(u.found, gr) /\ Covers(t.found, u.found) /\ HeadGathers(u, gr)
  <2>1. Collects(p)
    BY <1>4 DEF Mode
  <2>2. f.row = SpaceRow(Target(p)) /\ Head(u.todo)[1] = Need(p)
    BY <1>2, GroundsAre DEF Need
  <2>3. u.pc = "decided" => Gathers(u.found, Head(u.todo), gr)
    BY <1>2, <2>1, <2>2 DEF Collects, Gathers, Covers
  <2>4. HeadGathers(u, gr)
    BY <1>2, <2>1, <2>2, <2>3 DEF Collects, HeadGathers
  <2>5. QED
    BY <2>1, <2>4 DEF Collects
<1> HIDE DEF t, u, gr
<1>5. QED
  BY <1>1, <1>3, <1>4, InnerSmooth DEF t, u, gr

(* Steps that find nothing new. *)
LEMMA KeepingCollects ==
    ASSUME NEW p \in Procs, Calmly(p), txn'[p].found = txn[p].found,
           Mode(p) = "batch" =>
               LET s == Target(p)
                   f == txn[p].found
                   pc == txn'[p].pc IN
               /\ pc # "target" => SpaceRow(s) \in f.spaces
               /\ pc \in {"inherited", "need", "decided"} =>
                     GroundsOf(s).spaces \subseteq f.spaces /\ GroundsOf(s).paths \subseteq f.paths
               /\ pc \in {"need", "decided"} => GroundsOf(s).grants \subseteq f.grants
               /\ pc = "decided" /\ Need(p) = "contribute" =>
                     GroundsOf(s).contributors \subseteq f.grants
    PROVE  Mode(p) = "batch" => Collects(p)
BY BatchRows DEF Collects, Covers

LEMMA StepRelays ==
    ASSUME Shape, NEW p \in Procs, NEW STATE pc, Step(p, pc)
    PROVE  /\ Relays(txn[p], txn'[p]) /\ txn'[p].pc = pc /\ txn'[p].found = txn[p].found
           /\ txn'[p].grant = txn[p].grant /\ txn'[p].path = txn[p].path
BY StepReplaces DEF Relays, Fields

LEMMA FindingRelays ==
    ASSUME NEW p \in Procs, NEW S, NEW G, NEW P, NEW pc, FindsMore(p, S, G, P, pc)
    PROVE  /\ Relays(txn[p], txn'[p]) /\ txn'[p].pc = pc
           /\ txn'[p].grant = txn[p].grant /\ txn'[p].path = txn[p].path
BY DEF FindsMore, Relays, Fields

LEMMA LoadScopeSmooth ==
    ASSUME NEW p \in Procs, Calmly(p), LoadScope(p)
    PROVE  Smooth(txn'[p], actor.role, Grounds)
<1>1. At(p, "scope") /\ Step(p, "target") /\ Shape
  BY DEF LoadScope, Calmly, Eased
<1>2. /\ Relays(txn[p], txn'[p]) /\ txn'[p].pc = "target" /\ txn'[p].found = txn[p].found
  BY <1>1, StepRelays
<1>3. Mode(p) = "batch" => Collects(p)
  BY <1>2, KeepingCollects
<1>4. txn[p].pc \in Inner \cup {"scope"} /\ txn'[p].pc \in Inner /\ Leads(p)
  BY <1>1, <1>2 DEF Inner, At, Leads
<1>5. QED
  BY <1>2, <1>3, <1>4, LeadingSmooth

LEMMA LoadTargetSmooth ==
    ASSUME NEW p \in Procs, Calmly(p), LoadTarget(p)
    PROVE  Smooth(txn'[p], actor.role, Grounds)
<1> DEFINE s == Target(p)
<1>1. At(p, "target") /\ Live(s) /\ Mode(p) \in Modes /\ Shape
  BY DEF LoadTarget, Calmly, Eased
<1>2. CASE Mode(p) # "batch"
  <2>1. Step(p, "look")
    BY <1>1, <1>2 DEF LoadTarget, Modes, Plain
  <2>2. Relays(txn[p], txn'[p]) /\ txn'[p].pc = "look"
    BY <1>1, <2>1, StepRelays
  <2>3. txn[p].pc \in Inner \cup {"scope"} /\ txn'[p].pc \in Inner /\ Leads(p)
    BY <1>1, <2>2 DEF Inner, At, Leads
  <2>4. QED
    BY <1>2, <2>2, <2>3, LeadingSmooth
<1>3. CASE Mode(p) = "batch"
  <2>1. Discover(p, {s}, {}, {}, "look")
    BY <1>1, <1>3 DEF LoadTarget, Plain
  <2>2. SpaceRow(s) \in Everything(Grounds).spaces /\ Partly(txn[p].found, Grounds)
    BY <1>3, BatchRows, GroundsAre
  <2>3. FindsMore(p, {s}, {}, {}, "look")
    BY <1>1, <2>1, <2>2, DiscoverFinds
  <2>4. Relays(txn[p], txn'[p]) /\ txn'[p].pc = "look"
    BY <2>3, FindingRelays
  <2>5. Collects(p)
    BY <2>3, <2>4 DEF FindsMore, Collects
  <2>6. txn[p].pc \in Inner \cup {"scope"} /\ txn'[p].pc \in Inner /\ Leads(p)
    BY <1>1, <2>4 DEF Inner, At, Leads
  <2>7. QED
    BY <2>4, <2>5, <2>6, LeadingSmooth
<1>4. QED
  BY <1>2, <1>3

LEMMA LookSmooth ==
    ASSUME NEW p \in Procs, Calmly(p), Look(p)
    PROVE  Smooth(txn'[p], actor.role, Grounds)
<1> DEFINE s == Target(p)
           t1 == [txn[p] EXCEPT !.pc = "need", !.grant = None]
           t2 == [txn[p] EXCEPT !.pc = "direct", !.grant = DirectGrant(s), !.other = InheritedGrant(s)]
           t3 == [txn[p] EXCEPT !.pc = "path", !.grant = InheritedGrant(s)]
<1>1. At(p, "look") /\ Live(s) /\ Shape /\ txn[p].role = actor.role
  BY DEF Look, Calmly, Eased, Succeeding, At
<1>2. Way(s) \in {"free", "direct", "inherited"}
  BY DEF Calmly, Eased
<1>3. (txn[p].role = "admin" \/ s = Root) <=> (Admin \/ s = Root)
  BY <1>1 DEF Admin
<1>4. \/ Way(s) = "free" /\ Become(p, t1)
      \/ Way(s) = "direct" /\ Become(p, t2) /\ Reader(s) = DirectGrant(s)
      \/ Way(s) = "inherited" /\ Become(p, t3) /\ Reader(s) = InheritedGrant(s)
  BY <1>1, <1>2, <1>3 DEF Way, Look, Reader
<1>5. Mode(p) = "batch" => SpaceRow(s) \in txn[p].found.spaces
  <2>1. SUFFICES ASSUME Mode(p) = "batch" PROVE SpaceRow(s) \in txn[p].found.spaces
    OBVIOUS
  <2>2. HeadGathers(txn[p], Grounds)
    BY <2>1, BatchRows
  <2>3. txn[p].pc \in Inner \ {"target"} /\ Grounds[Head(txn[p].todo)[2]].row = SpaceRow(s)
    BY <1>1, GroundsAre DEF Inner, At, Calmly, Eased, Target
  <2>4. QED
    BY <2>2, <2>3 DEF HeadGathers
<1>6. /\ t1.pc = "need" /\ t2.pc = "direct" /\ t3.pc = "path"
      /\ t2.grant = DirectGrant(s) /\ t3.grant = InheritedGrant(s)
      /\ DOMAIN t1 = Fields /\ DOMAIN t2 = Fields /\ DOMAIN t3 = Fields
      /\ Relays(txn[p], t1) /\ Relays(txn[p], t2) /\ Relays(txn[p], t3)
      /\ t1.found = txn[p].found /\ t2.found = txn[p].found /\ t3.found = txn[p].found
  BY <1>1 DEF Shape, Fields, Relays
<1>7. txn[p].pc \in Inner \cup {"scope"}
  BY <1>1 DEF Inner, At
<1> HIDE DEF t1, t2, t3, s
<1>8. CASE Way(s) = "free" /\ Become(p, t1)
  <2>1. txn'[p] = t1
    BY <1>1, <1>6, <1>8, BecomeReplaces DEF Replaced
  <2>2. Leads(p) /\ txn'[p].pc \in Inner
    BY <1>6, <2>1 DEF Leads, Inner
  <2>3. GroundsOf(s).grants = {} /\ GroundsOf(s).paths = {} /\ GroundsOf(s).spaces = {SpaceRow(s)}
    BY <1>8, GroundsAre
  <2>4. Mode(p) = "batch" => Collects(p)
    BY <1>5, <1>6, <2>1, <2>3, KeepingCollects DEF s
  <2>5. QED
    BY <1>6, <1>7, <2>1, <2>2, <2>4, LeadingSmooth
<1>9. CASE Way(s) = "direct" /\ Become(p, t2) /\ Reader(s) = DirectGrant(s)
  <2>1. txn'[p] = t2
    BY <1>1, <1>6, <1>9, BecomeReplaces DEF Replaced
  <2>2. Leads(p) /\ txn'[p].pc \in Inner
    BY <1>6, <1>9, <2>1 DEF Leads, Inner, s
  <2>3. Mode(p) = "batch" => Collects(p)
    BY <1>5, <1>6, <2>1, KeepingCollects DEF s
  <2>4. QED
    BY <1>6, <1>7, <2>1, <2>2, <2>3, LeadingSmooth
<1>10. CASE Way(s) = "inherited" /\ Become(p, t3) /\ Reader(s) = InheritedGrant(s)
  <2>1. txn'[p] = t3
    BY <1>1, <1>6, <1>10, BecomeReplaces DEF Replaced
  <2>2. Leads(p) /\ txn'[p].pc \in Inner
    BY <1>6, <1>10, <2>1 DEF Leads, Inner, s
  <2>3. Mode(p) = "batch" => Collects(p)
    BY <1>5, <1>6, <2>1, KeepingCollects DEF s
  <2>4. QED
    BY <1>6, <1>7, <2>1, <2>2, <2>3, LeadingSmooth
<1>11. QED
  BY <1>4, <1>8, <1>9, <1>10

(* A grant that is confirmed in a batch is found. *)
LEMMA ConfirmSmooth ==
    ASSUME NEW p \in Procs, Calmly(p), NEW STATE g, NEW STATE pc, pc \in {"need", "decided"},
           Confirm(p, g, pc), txn[p].pc \in Inner,
           Mode(p) = "batch" =>
               LET s == Target(p)
                   f == txn[p].found IN
               /\ GrantRow(g) \in Everything(Grounds).grants
               /\ SpaceRow(s) \in f.spaces
               /\ GroundsOf(s).spaces \subseteq f.spaces /\ GroundsOf(s).paths \subseteq f.paths
               /\ GroundsOf(s).grants \subseteq f.grants \cup {GrantRow(g)}
               /\ pc = "decided" /\ Need(p) = "contribute" =>
                     GroundsOf(s).contributors \subseteq f.grants \cup {GrantRow(g)}
    PROVE  Smooth(txn'[p], actor.role, Grounds)
<1>1. Shape /\ Mode(p) \in Modes /\ pc \in Inner
  BY DEF Calmly, Eased, Inner
<1>2. CASE Mode(p) # "batch"
  BY <1>1, <1>2, StepRelays, LeadingSmooth DEF Confirm, Modes, Plain, Leads
<1>3. CASE Mode(p) = "batch"
  <2>1. Discover(p, {}, {g}, {}, pc)
    BY <1>3 DEF Confirm, Plain
  <2>2. FindsMore(p, {}, {g}, {}, pc)
    BY <1>1, <1>3, <2>1, BatchRows, DiscoverFinds
  <2>3. Relays(txn[p], txn'[p]) /\ txn'[p].pc = pc
    BY <2>2, FindingRelays
  <2>4. GrantRow(g) \in txn'[p].found.grants
    BY <2>2 DEF FindsMore
  <2>5. Covers(txn[p].found, txn'[p].found) /\ Partly(txn'[p].found, Grounds)
    BY <2>2 DEF FindsMore
  <2>6. Collects(p)
    BY <1>3, <2>3, <2>4, <2>5 DEF Collects, Covers
  <2>7. txn'[p].pc \in Inner /\ Leads(p)
    BY <1>1, <2>3 DEF Leads
  <2>8. QED
    BY <2>3, <2>6, <2>7, LeadingSmooth
<1>4. QED
  BY <1>2, <1>3

LEMMA HeadFound ==
    ASSUME NEW p \in Procs, Calmly(p), Mode(p) = "batch"
    PROVE  LET s == Target(p)
               f == txn[p].found
               pc == txn[p].pc IN
           /\ pc \in Inner \ {"target"} => SpaceRow(s) \in f.spaces
           /\ pc \in {"inherited", "need", "decided"} =>
                 GroundsOf(s).spaces \subseteq f.spaces /\ GroundsOf(s).paths \subseteq f.paths
           /\ pc \in {"need", "decided"} => GroundsOf(s).grants \subseteq f.grants
           /\ pc = "decided" => Gathers(f, Head(txn[p].todo), Grounds)
<1>1. HeadGathers(txn[p], Grounds)
  BY BatchRows
<1>2. Grounds[Head(txn[p].todo)[2]] = GroundsOf(Target(p))
  BY DEF Calmly, Eased, Target
<1>3. GroundsOf(Target(p)).row = SpaceRow(Target(p))
  BY GroundsAre
<1>4. QED
  BY <1>1, <1>2, <1>3 DEF HeadGathers

LEMMA ConfirmDirectSmooth ==
    ASSUME NEW p \in Procs, Calmly(p), ConfirmDirect(p)
    PROVE  Smooth(txn'[p], actor.role, Grounds)
<1> DEFINE s == Target(p)
           g == txn[p].grant
<1>1. At(p, "direct") /\ Shape
  BY DEF ConfirmDirect, Calmly
<1>2. Way(s) = "direct" /\ g = Reader(s) /\ grants[g].status = "live"
  BY <1>1, GroundsAre DEF Calmly, Succeeding, At, Target, Eased
<1>3. Confirm(p, g, "need")
  BY <1>2 DEF ConfirmDirect
<1>4. txn[p].pc \in Inner /\ txn[p].pc \in Inner \ {"target"}
  BY <1>1 DEF At, Inner
<1>5. ASSUME Mode(p) = "batch"
      PROVE  /\ GrantRow(g) \in Everything(Grounds).grants
             /\ SpaceRow(s) \in txn[p].found.spaces
             /\ GroundsOf(s).spaces \subseteq txn[p].found.spaces
             /\ GroundsOf(s).paths \subseteq txn[p].found.paths
             /\ GroundsOf(s).grants \subseteq txn[p].found.grants \cup {GrantRow(g)}
  BY <1>2, <1>4, <1>5, GroundsAre, HeadFound, BatchRows
<1> HIDE DEF g
<1>6. QED
  BY <1>3, <1>4, <1>5, ConfirmSmooth

LEMMA ConfirmInheritedSmooth ==
    ASSUME NEW p \in Procs, Calmly(p), ConfirmInherited(p)
    PROVE  Smooth(txn'[p], actor.role, Grounds)
<1> DEFINE s == Target(p)
           g == txn[p].grant
<1>1. At(p, "inherited") /\ Shape
  BY DEF ConfirmInherited, Calmly
<1>2. Way(s) = "inherited" /\ g = Reader(s) /\ grants[g].status = "live"
  BY <1>1, GroundsAre DEF Calmly, Succeeding, At, Target, Eased
<1>3. Confirm(p, g, "need")
  BY <1>2 DEF ConfirmInherited
<1>4. txn[p].pc \in Inner /\ txn[p].pc \in Inner \ {"target"} /\ txn[p].pc = "inherited"
  BY <1>1 DEF At, Inner
<1>5. ASSUME Mode(p) = "batch"
      PROVE  /\ GrantRow(g) \in Everything(Grounds).grants
             /\ SpaceRow(s) \in txn[p].found.spaces
             /\ GroundsOf(s).spaces \subseteq txn[p].found.spaces
             /\ GroundsOf(s).paths \subseteq txn[p].found.paths
             /\ GroundsOf(s).grants \subseteq txn[p].found.grants \cup {GrantRow(g)}
  BY <1>2, <1>4, <1>5, GroundsAre, HeadFound, BatchRows
<1> HIDE DEF g
<1>6. QED
  BY <1>3, <1>4, <1>5, ConfirmSmooth

LEMMA FindPathSmooth ==
    ASSUME NEW p \in Procs, Calmly(p), FindPath(p)
    PROVE  Smooth(txn'[p], actor.role, Grounds)
<1> DEFINE s == Target(p)
           path == PathTo(s, grants[txn[p].grant].space)
           top == grants[txn[p].grant].space
           S == {path[i] : i \in DOMAIN path}
           P == {<<s, top, path>>}
           t == [txn[p] EXCEPT !.pc = "lockPath", !.path = path]
<1>1. At(p, "path") /\ Shape /\ Mode(p) \in Modes
  BY DEF FindPath, Calmly, Eased
<1>2. Way(s) = "inherited" /\ txn[p].grant = Reader(s) /\ Via(s) # <<>>
  BY <1>1, GroundsAre DEF Calmly, Succeeding, At, Target, Eased
<1>3. path = Via(s) /\ top = Top(s)
  BY <1>2 DEF Via, Top
<1>4. txn[p].pc \in Inner \cup {"scope"} /\ txn[p].pc \in Inner \ {"target"}
  BY <1>1 DEF At, Inner
<1>5. CASE Plain(p)
  <2>1. Step(p, "need")
    BY <1>5 DEF FindPath
  <2>2. Relays(txn[p], txn'[p]) /\ txn'[p].pc = "need"
    BY <1>1, <2>1, StepRelays
  <2>3. txn'[p].pc \in Inner /\ Leads(p)
    BY <2>2 DEF Leads, Inner
  <2>4. QED
    BY <1>4, <1>5, <2>2, <2>3, LeadingSmooth DEF Plain
<1>6. CASE Mode(p) = "locked"
  <2>1. Become(p, t)
    BY <1>2, <1>3, <1>6 DEF FindPath, Plain
  <2> HIDE DEF path
  <2>2. /\ DOMAIN t = Fields /\ Relays(txn[p], t) /\ t.pc = "lockPath" /\ t.path = path
        /\ t.grant = txn[p].grant
    BY <1>1 DEF Shape, Fields, Relays
  <2> HIDE DEF t
  <2>3. txn'[p] = t
    BY <1>1, <2>1, <2>2, BecomeReplaces DEF Replaced
  <2>4. txn'[p].pc \in Inner /\ Leads(p)
    BY <1>2, <1>3, <1>6, <2>2, <2>3 DEF Leads, Inner
  <2>5. QED
    BY <1>4, <1>6, <2>2, <2>3, <2>4, LeadingSmooth
<1>7. CASE Mode(p) = "batch"
  <2>1. Discover(p, S, {}, P, "inherited")
    BY <1>2, <1>3, <1>7 DEF FindPath, Plain
  <2> HIDE DEF path, top, s
  <2>2. /\ GroundsOf(s).spaces = {SpaceRow(s)} \cup {SpaceRow(path[i]) : i \in DOMAIN path}
        /\ GroundsOf(s).paths = {<<s, top, path>>}
    BY <1>2, <1>3, GroundsAre
  <2>3. /\ GroundsOf(s).spaces \subseteq Everything(Grounds).spaces
        /\ GroundsOf(s).paths \subseteq Everything(Grounds).paths
        /\ Partly(txn[p].found, Grounds)
    BY <1>7, BatchRows DEF s
  <2>4. {SpaceRow(x) : x \in S} = {SpaceRow(path[i]) : i \in DOMAIN path}
    OBVIOUS
  <2>5. FindsMore(p, S, {}, P, "inherited")
    BY <1>1, <2>1, <2>2, <2>3, <2>4, DiscoverFinds
  <2>6. /\ Relays(txn[p], txn'[p]) /\ txn'[p].pc = "inherited" /\ txn'[p].grant = txn[p].grant
    BY <2>5, FindingRelays
  <2>7. SpaceRow(s) \in txn[p].found.spaces
    BY <1>4, <1>7, HeadFound DEF s
  <2>8. /\ {SpaceRow(path[i]) : i \in DOMAIN path} \subseteq txn'[p].found.spaces
        /\ {<<s, top, path>>} \subseteq txn'[p].found.paths
        /\ Covers(txn[p].found, txn'[p].found) /\ Partly(txn'[p].found, Grounds)
    BY <2>4, <2>5 DEF FindsMore
  <2>9. Collects(p)
    BY <2>2, <2>6, <2>7, <2>8 DEF Collects, Covers, s
  <2>10. txn'[p].pc \in Inner /\ Leads(p)
    BY <1>2, <2>6 DEF Leads, Inner, s
  <2>11. QED
    BY <1>4, <2>6, <2>9, <2>10, LeadingSmooth
<1>8. QED
  BY <1>1, <1>5, <1>6, <1>7 DEF Modes, Plain

LEMMA LockPathSmooth ==
    ASSUME NEW p \in Procs, Calmly(p), LockPath(p)
    PROVE  Smooth(txn'[p], actor.role, Grounds)
<1> DEFINE s == Target(p)
<1>1. At(p, "lockPath") /\ Shape
  BY DEF LockPath, Calmly
<1>2. Mode(p) = "locked" /\ Way(s) = "inherited" /\ txn[p].grant = Reader(s) /\ txn[p].path = Via(s)
  BY <1>1, GroundsAre DEF Calmly, Succeeding, At, Target, Mode, Eased
<1>3. PathTo(s, txn[p].path[Len(txn[p].path)]) = txn[p].path
  BY <1>2 DEF Calmly, Eased
<1>4. Step(p, "inherited")
  BY <1>3 DEF LockPath
<1>5. Relays(txn[p], txn'[p]) /\ txn'[p].pc = "inherited" /\ txn'[p].grant = txn[p].grant
  BY <1>1, <1>4, StepRelays
<1>6. txn[p].pc \in Inner \cup {"scope"} /\ txn'[p].pc \in Inner /\ Leads(p)
  BY <1>1, <1>2, <1>5 DEF Leads, Inner, At
<1>7. QED
  BY <1>2, <1>5, <1>6, LeadingSmooth

LEMMA NeededSmooth ==
    ASSUME NEW p \in Procs, Calmly(p), Needed(p)
    PROVE  Smooth(txn'[p], actor.role, Grounds)
<1> DEFINE s == Target(p)
           need == Need(p)
           g == ContributorGrant(s)
<1>1. At(p, "need") /\ Shape /\ (txn[p].role = "admin" <=> Admin)
  BY DEF Needed, Calmly, Succeeding, Admin, At
<1>2. /\ need = "manage" => Admin
      /\ need = "contribute" /\ ~Admin => g # None
  BY DEF Calmly, Eased
<1>3. IF need = "contribute" /\ ~Admin THEN Confirm(p, g, "decided") ELSE Step(p, "decided")
  BY <1>1, <1>2 DEF Needed
<1>4. txn[p].pc \in Inner \cup {"scope"} /\ txn[p].pc \in Inner /\ txn[p].pc \in Inner \ {"target"}
      /\ txn[p].pc = "need"
  BY <1>1 DEF At, Inner
<1>5. ASSUME Mode(p) = "batch"
      PROVE  /\ SpaceRow(s) \in txn[p].found.spaces
             /\ GroundsOf(s).spaces \subseteq txn[p].found.spaces
             /\ GroundsOf(s).paths \subseteq txn[p].found.paths
             /\ GroundsOf(s).grants \subseteq txn[p].found.grants
  BY <1>4, <1>5, HeadFound
<1>6. CASE need = "contribute" /\ ~Admin
  <2>1. GroundsOf(s).contributors = {GrantRow(g)}
    BY <1>2, <1>6, GroundsAre
  <2>2. Mode(p) = "batch" => GrantRow(g) \in Everything(Grounds).grants
    BY <1>6, <2>1, BatchRows
  <2>3. Confirm(p, g, "decided")
    BY <1>3, <1>6
  <2> HIDE DEF g
  <2>4. QED
    BY <1>4, <1>5, <2>1, <2>2, <2>3, ConfirmSmooth
<1>7. CASE ~(need = "contribute" /\ ~Admin)
  <2>1. Relays(txn[p], txn'[p]) /\ txn'[p].pc = "decided" /\ txn'[p].found = txn[p].found
    BY <1>1, <1>3, <1>7, StepRelays
  <2>2. need = "contribute" => GroundsOf(s).contributors = {}
    BY <1>7, GroundsAre
  <2>3. Mode(p) = "batch" => Collects(p)
    BY <1>5, <2>1, <2>2, KeepingCollects
  <2>4. txn'[p].pc \in Inner /\ Leads(p)
    BY <2>1 DEF Leads, Inner
  <2>5. QED
    BY <1>4, <2>1, <2>3, <2>4, LeadingSmooth
<1>8. QED
  BY <1>6, <1>7

LEMMA CheckActorSmooth ==
    ASSUME NEW p \in Procs, Calmly(p), CheckActor(p)
    PROVE  Smooth(txn'[p], actor.role, Grounds)
<1> DEFINE t == [txn[p] EXCEPT !.pc = "scope", !.role = actor.role]
<1>1. At(p, "actor") /\ Shape /\ Become(p, t)
  BY DEF CheckActor, Calmly, Eased
<1>2. /\ DOMAIN t = Fields /\ t.pc = "scope" /\ t.role = actor.role /\ t.todo = txn[p].todo
      /\ t.kind = txn[p].kind /\ t.mode = txn[p].mode /\ t.after = txn[p].after
  BY <1>1 DEF Shape, Fields
<1> HIDE DEF t
<1>3. txn'[p] = t
  BY <1>1, <1>2, BecomeReplaces DEF Replaced
<1>4. /\ txn[p].todo \in Seq(Needs(txn[p].kind)) /\ txn[p].todo # <<>>
      /\ txn[p].mode \in Modes \ {"batch"} /\ txn[p].after = "next"
  BY <1>1 DEF Calmly, Succeeding, Gathering, At
<1>5. Smooth(t, actor.role, Grounds)
  BY <1>2, <1>4, ScopeSmooth
<1>6. QED
  BY <1>3, <1>5

(* The decision at the head of a batch is made. *)
LEMMA HeadIsGathered ==
    ASSUME NEW S, NEW todo \in Seq(S), todo # <<>>, EndOf(EndRequests, todo),
           NEW found, NEW gr, Gathers(found, Head(todo), gr),
           \A i \in 1 .. Len(EndRequests) - Len(todo) : Gathers(found, EndRequests[i], gr)
    PROVE  /\ \A i \in 1 .. Len(EndRequests) - Len(Tail(todo)) : Gathers(found, EndRequests[i], gr)
           /\ Tail(todo) = <<>> => \A i \in DOMAIN EndRequests : Gathers(found, EndRequests[i], gr)
<1> DEFINE n == Len(todo)
<1>1. n \in 1 .. 4 /\ Head(todo) = EndRequests[4 - n + 1] /\ Len(Tail(todo)) = n - 1
  BY HeadOfBatch
<1>2. Len(EndRequests) = 4 /\ DOMAIN EndRequests = 1 .. 4
  BY EndSpaces
<1>3. Tail(todo) = <<>> => n = 1
  BY <1>1
<1> HIDE DEF n
<1>4. \A i \in 1 .. 4 - n : Gathers(found, EndRequests[i], gr)
  BY <1>2 DEF n
<1>5. Gathers(found, EndRequests[4 - n + 1], gr)
  BY <1>1
<1>6. \A i \in 1 .. 4 - (n - 1) : i \in 1 .. 4 - n \/ i = 4 - n + 1
  BY <1>1
<1>7. \A i \in 1 .. 4 - (n - 1) : Gathers(found, EndRequests[i], gr)
  BY <1>4, <1>5, <1>6
<1>8. n = 1 => 4 - (n - 1) = 4
  OBVIOUS
<1>9. Tail(todo) = <<>> => \A i \in DOMAIN EndRequests : Gathers(found, EndRequests[i], gr)
  BY <1>2, <1>3, <1>7, <1>8
<1>10. QED
  BY <1>1, <1>2, <1>7, <1>9

LEMMA DecidedSmooth ==
    ASSUME NEW p \in Procs, Calmly(p), Decided(p),
           Mode(p) # "batch" /\ txn[p].kind = "end" => Ahead(txn[p].script, "batch")
    PROVE  Smooth(txn'[p], actor.role, Grounds)
<1> DEFINE t == txn[p]
           rest == Tail(t.todo)
           u1 == [t EXCEPT !.pc = t.after, !.todo = rest]
           u2 == Decide(t, rest, t.mode, t.after)
<1>1. /\ At(p, "decided") /\ Shape /\ t.role = actor.role /\ t.todo # <<>>
      /\ t.todo \in Seq(Needs(t.kind)) /\ t.mode \in Modes
      /\ IF t.mode = "batch" THEN Gathering(t, Grounds) ELSE t.after = "next"
  BY DEF Decided, Calmly, Succeeding, At
<1>2. IF rest = <<>> THEN Become(p, u1) ELSE Become(p, u2)
  BY DEF Decided
<1>3. rest \in Seq(Needs(t.kind))
  <2>1. \A S : \A q \in Seq(S) : q # <<>> => Tail(q) \in Seq(S)
    OBVIOUS
  <2> HIDE DEF t
  <2>2. QED
    BY <1>1, <2>1
<1> HIDE DEF rest
<1>4. /\ DOMAIN u1 = Fields /\ u1.pc = t.after /\ u1.found = t.found /\ u1.kind = t.kind
      /\ u1.role = t.role /\ u1.requests = t.requests /\ u1.expected = t.expected
      /\ u1.script = t.script
  BY <1>1 DEF Shape, Fields
<1>5. /\ DOMAIN u2 = Fields /\ u2.pc = (IF t.mode = "batch" THEN "scope" ELSE "actor")
      /\ u2.todo = rest /\ u2.mode = t.mode /\ u2.after = t.after /\ u2.found = t.found
      /\ u2.kind = t.kind /\ u2.role = t.role /\ u2.requests = t.requests
      /\ u2.expected = t.expected
  BY <1>1 DEF Shape, Fields, Decide
<1> HIDE DEF u1, u2
<1>6. txn'[p] = IF rest = <<>> THEN u1 ELSE u2
  BY <1>1, <1>2, <1>4, <1>5, BecomeReplaces DEF Replaced
<1>7. CASE t.mode # "batch"
  <2>1. CASE rest = <<>>
    <3>1. Ahead(u1.script, "batch") \/ u1.kind # "end"
      BY <1>4, <1>7 DEF Mode
    <3>2. u1.pc = "next"
      BY <1>1, <1>4, <1>7
    <3>3. Smooth(u1, actor.role, Grounds)
      BY <3>1, <3>2 DEF Smooth, Deciding, Batching, Inner
    <3>4. QED
      BY <1>6, <2>1, <3>3
  <2>2. CASE rest # <<>>
    <3>1. Smooth(u2, actor.role, Grounds)
      BY <1>1, <1>3, <1>5, <1>7, <2>2, ScopeSmooth
    <3>2. QED
      BY <1>6, <2>2, <3>1
  <2>3. QED
    BY <2>1, <2>2
<1>8. CASE t.mode = "batch"
  <2>1. /\ t.kind = "end" /\ t.requests = EndRequests /\ t.after \in {"lockActor", "compare"}
        /\ Partly(t.found, Grounds) /\ EndOf(EndRequests, t.todo)
        /\ \A i \in 1 .. Len(EndRequests) - Len(t.todo) : Gathers(t.found, EndRequests[i], Grounds)
        /\ t.after = "compare" => t.expected = Everything(Grounds)
    BY <1>1, <1>8 DEF Gathering
  <2>2. Gathers(t.found, Head(t.todo), Grounds)
    BY <1>1, <1>8, HeadFound DEF At, Inner, Mode
  <2>3. /\ \A i \in 1 .. Len(EndRequests) - Len(rest) : Gathers(t.found, EndRequests[i], Grounds)
        /\ rest = <<>> => \A i \in DOMAIN EndRequests : Gathers(t.found, EndRequests[i], Grounds)
    BY <1>1, <2>1, <2>2, HeadIsGathered DEF rest
  <2>4. EndOf(EndRequests, rest)
    BY <1>1, <2>1, HeadOfBatch DEF rest
  <2>5. CASE rest = <<>>
    <3>1. t.found = Everything(Grounds)
      BY <2>1, <2>3, <2>5, AllIsFound
    <3>2. Smooth(u1, actor.role, Grounds)
      BY <1>1, <1>4, <2>1, <3>1 DEF Smooth, Deciding, Batching, Inner
    <3>3. QED
      BY <1>6, <2>5, <3>2
  <2>6. CASE rest # <<>>
    <3>1. Gathering(u2, Grounds)
      BY <1>5, <1>8, <2>1, <2>3, <2>4 DEF HeadGathers, Inner, Gathering
    <3>2. Smooth(u2, actor.role, Grounds)
      BY <1>1, <1>3, <1>5, <1>8, <2>6, <3>1, BatchSmooth
    <3>3. QED
      BY <1>6, <2>6, <3>2
  <2>7. QED
    BY <2>5, <2>6
<1>9. QED
  BY <1>7, <1>8

LEMMA SeqOfElements ==
    ASSUME NEW S, NEW T, NEW q \in Seq(S), \A j \in DOMAIN q : q[j] \in T
    PROVE  q \in Seq(T)
OBVIOUS

(* A step asks for what its script needs. *)
LEMMA TodoNeeds ==
    ASSUME NEW kind \in Kinds, NEW x \in StepsOf(kind), x.do \in {"decide", "batch"}
    PROVE  x.todo \in Seq(Needs(kind)) /\ x.todo # <<>>
BY ScriptsFit, NeedsFromSteps, SeqOfElements DEF Fitting, Suits, Asks

LEMMA EndNeedsRequests ==
    /\ EndRequests \in Seq(Needs("end")) /\ EndRequests # <<>>
    /\ <<"contribute", Home>> \in Needs("end")
<1>1. Script["end"] \in Seq(StepsOf("end")) /\ "end" \in Kinds
  BY ScriptsAreOk DEF Kinds, Script, ScriptOk, StepsOf
<1>2. BatchStep(EndRequests) \in StepsOf("end")
  BY DEF Script, EndRelationship, StepsIn, StepsOf
<1>3. BatchStep(EndRequests).do = "batch" /\ BatchStep(EndRequests).todo = EndRequests
  BY DEF BatchStep
<1>4. EndRequests \in Seq(Needs("end")) /\ EndRequests # <<>>
  BY <1>1, <1>2, <1>3, TodoNeeds
<1>5. EndRequests[3] \in Needs("end")
  BY <1>4, EndSpaces
<1>6. QED
  BY <1>4, <1>5, EndSpaces

(* Whatever a command asks for, its actor is active under the policy.      *)
LEMMA CalmActor ==
    ASSUME NEW p \in Procs, Calm(p), txn[p].kind = "end"
    PROVE  /\ actor.policy /\ actor.active /\ Live(Home)
           /\ Admin \/ ContributorGrant(Home) # None
BY EndNeedsRequests DEF Calm, Allowed, May

(* A batch that is complete. *)
Complying(p) ==
    /\ txn[p].kind = "end" /\ txn[p].requests = EndRequests
    /\ txn[p].role = actor.role /\ txn[p].found = Everything(Grounds)
    /\ At(p, "compare") => txn[p].expected = Everything(Grounds)

LEMMA CompliesOn ==
    ASSUME Shape, NEW p \in Procs, Complying(p), NEW STATE pc,
           pc \in {"lockSpaces", "lockGrants", "next"}, Step(p, pc)
    PROVE  Smooth(txn'[p], actor.role, Grounds)
BY StepRelays DEF Deciding, Inner, Smooth, Complying, Relays

LEMMA NothingIsPart == \A gr : Partly(Nothing, gr)
BY DEF Partly, Nothing, Covers

(* The requests are made all over. *)
LEMMA RequestsSmooth ==
    ASSUME NEW u, NEW role, NEW gr, u.pc = "scope", u.kind = "end", u.todo = EndRequests,
           u.requests = EndRequests, u.mode = "batch", u.role = role, u.found = Nothing,
           u.after \in {"lockActor", "compare"}, u.after = "compare" => u.expected = Everything(gr)
    PROVE  Smooth(u, role, gr)
<1>1. EndOf(EndRequests, EndRequests) /\ Len(EndRequests) - Len(EndRequests) = 0
  BY EndSpaces DEF EndOf
<1>2. HeadGathers(u, gr)
  BY DEF HeadGathers, Inner
<1>3. \A i \in 1 .. Len(EndRequests) - Len(u.todo) : Gathers(u.found, EndRequests[i], gr)
  BY <1>1
<1>4. Gathering(u, gr)
  BY <1>1, <1>2, <1>3, NothingIsPart DEF Gathering
<1>5. u.todo \in Seq(Needs(u.kind)) /\ u.todo # <<>>
  BY EndNeedsRequests
<1>6. QED
  BY <1>4, <1>5, BatchSmooth

LEMMA BatchingSmooth ==
    ASSUME Shape, NEW p \in Procs, Complying(p), Calm(p),
           LockActor(p) \/ LockSpaces(p) \/ LockGrants(p) \/ Compare(p, "next")
    PROVE  Smooth(txn'[p], actor.role, Grounds)
<1>1. CASE LockActor(p)
  BY <1>1, CalmActor, CompliesOn DEF LockActor, Complying
<1>2. CASE LockSpaces(p)
  BY <1>2, EverythingIsRead, CompliesOn DEF Complying, LockSpaces
<1>3. CASE LockGrants(p)
  <2> DEFINE d == Decide(txn[p], txn[p].requests, "batch", "compare")
             t == [d EXCEPT !.expected = txn[p].found, !.found = Nothing]
  <2>1. \A r \in txn[p].found.grants : GrantRow(r[1]) = r
    BY EverythingIsRead DEF Complying
  <2>2. Become(p, t)
    BY <1>3, <2>1 DEF LockGrants
  <2>3. /\ DOMAIN d = Fields /\ d.pc = "scope" /\ d.mode = "batch" /\ d.after = "compare"
        /\ d.todo = txn[p].requests /\ d.requests = txn[p].requests /\ d.role = txn[p].role
        /\ d.kind = txn[p].kind
    BY DEF Decide, Shape, Fields
  <2> HIDE DEF d
  <2>4. /\ DOMAIN t = Fields /\ t.pc = "scope" /\ t.mode = "batch" /\ t.after = "compare"
        /\ t.todo = EndRequests /\ t.requests = EndRequests /\ t.role = actor.role
        /\ t.kind = "end" /\ t.expected = Everything(Grounds) /\ t.found = Nothing
    BY <2>3 DEF Fields, Complying
  <2> HIDE DEF t
  <2>5. txn'[p] = t
    BY <2>2, <2>4, BecomeReplaces DEF Replaced
  <2>6. Smooth(t, actor.role, Grounds)
    BY <2>4, RequestsSmooth
  <2>7. QED
    BY <2>5, <2>6
<1>4. CASE Compare(p, "next")
  BY <1>4, CompliesOn DEF Compare, Complying
<1>5. QED
  BY <1>1, <1>2, <1>3, <1>4

(* A decision of a command that is allowed is not refused. *)
LEMMA AuthorizeSmooth ==
    ASSUME IInv, AInv, NEW p \in Procs, Calm(p), Smooth(txn[p], actor.role, Grounds),
           DueOk(p), Authorize(p),
           At(p, "decided") /\ Mode(p) # "batch" /\ txn[p].kind = "end" =>
               Ahead(txn[p].script, "batch")
    PROVE  Smooth(txn'[p], actor.role, Grounds)
<1>1. Shape
  BY DEF IInv
<1>2. CASE LockActor(p) \/ LockSpaces(p) \/ LockGrants(p) \/ Compare(p, "next")
  <2>1. txn[p].pc \in Batching
    BY <1>2 DEF LockActor, LockSpaces, LockGrants, Compare, At, Batching
  <2>2. Complying(p)
    BY <2>1 DEF Smooth, Complying, At
  <2>3. QED
    BY <1>1, <1>2, <2>2, BatchingSmooth
<1>3. CASE \/ CheckActor(p) \/ LoadScope(p) \/ LoadTarget(p) \/ Look(p)
           \/ ConfirmDirect(p) \/ FindPath(p) \/ LockPath(p) \/ ConfirmInherited(p)
           \/ Needed(p) \/ Decided(p)
  <2>1. txn[p].pc \in Deciding
    BY <1>3 DEF CheckActor, LoadScope, LoadTarget, Look, ConfirmDirect, FindPath, LockPath,
         ConfirmInherited, Needed, Decided, At, Deciding, Inner
  <2>2. Calmly(p)
    BY <2>1, CalmDecision
  <2>3. Decided(p) => At(p, "decided")
    BY DEF Decided
  <2>4. QED
    BY <1>3, <2>2, <2>3, CheckActorSmooth, LoadScopeSmooth, LoadTargetSmooth, LookSmooth,
       ConfirmDirectSmooth, FindPathSmooth, LockPathSmooth, ConfirmInheritedSmooth,
       NeededSmooth, DecidedSmooth
<1>4. QED
  BY <1>2, <1>3 DEF Authorize

----------------------------------------------------------------------------
(* What is due of a transaction after a step.                              *)

LEMMA PowersAre ==
    \A n \in Ask : n = <<n[1], n[2]>> /\ n[2] \in Targets
                   /\ (May(n[1], n[2]) <=> n[1] \in Grounds[n[2]].powers)
BY DEF Ask, Grounds, GroundsOf

LEMMA AllowedByGrounds ==
    \A kind \in Kinds :
        Allowed(kind) <=> \A n \in Needs(kind) : n[1] \in Grounds[n[2]].powers
BY PowersAre, NeedIsAsk DEF Allowed

LEMMA GroundsKeep ==
    ASSUME IInv, AInv, IInv', AInv', AccessAsBefore
    PROVE  Grounds' = Grounds /\ \A kind \in Kinds : Allowed(kind)' <=> Allowed(kind)
<1>1. TablesOk /\ Tree(spaces) /\ TablesOk' /\ Rooted(spaces)'
  BY DEF IInv, AInv, Tree
<1>2. Grounds' = Grounds
  BY <1>1, GroundsStay
<1>3. (\A kind \in Kinds :
          Allowed(kind) <=> \A n \in Needs(kind) : n[1] \in Grounds[n[2]].powers)'
  BY AllowedByGrounds, PTL
<1>4. \A kind \in Kinds :
          Allowed(kind)' <=> \A n \in Needs(kind) : n[1] \in Grounds'[n[2]].powers
  BY <1>3
<1>5. QED
  BY <1>2, <1>4, AllowedByGrounds

LEMMA UnchangedIsAsBefore == UNCHANGED access => AccessAsBefore
BY DEF access, AccessAsBefore

(* The state before a step of p, and what a step of p leaves as it is. *)
Onward(p) ==
    /\ IInv /\ AInv /\ IInv' /\ AInv'
    /\ relationship \in Nat \ {0} /\ DueOk(p) /\ ~At(p, "idle")
    /\ UNCHANGED access
    /\ txn'[p].kind = txn[p].kind /\ txn'[p].since = txn[p].since
    /\ txn'[p].pc # "idle"

LEMMA OnwardFacts ==
    ASSUME NEW p \in Procs, Onward(p)
    PROVE  /\ Shape /\ ProcOk(p) /\ AuthOk(p) /\ OrderOk(p) /\ SmoothOk(p)
           /\ txn[p].replay => At(p, "commit")
           /\ Active(p) => ScopeOk(p) /\ VersionOk(p)
           /\ txn[p].kind \in Kinds /\ txn[p].script \in Seq(StepsOf(txn[p].kind))
           /\ txn[p].replay \in BOOLEAN
           /\ Grounds' = Grounds /\ actor' = actor /\ changes' = changes
           /\ Calm(p)' => Calm(p)
           /\ Calm(p) => Smooth(txn[p], actor.role, Grounds)
           /\ Place(p)' = Place(p)
<1>1. /\ Shape /\ ProcOk(p) /\ AuthOk(p)
  BY DEF Onward, IInv, AInv
<1>2. /\ OrderOk(p) /\ SmoothOk(p) /\ (txn[p].replay => At(p, "commit"))
      /\ Active(p) => ScopeOk(p) /\ VersionOk(p)
  BY DEF Onward, DueOk
<1>3. /\ txn[p].kind \in Kinds /\ txn[p].script \in Seq(StepsOf(txn[p].kind))
      /\ txn[p].replay \in BOOLEAN
  BY <1>1 DEF Onward, ProcOk, TxnOk
<1>4. actor' = actor /\ changes' = changes
  BY DEF Onward, access
<1>5. Grounds' = Grounds /\ (Allowed(txn[p].kind)' <=> Allowed(txn[p].kind))
  BY <1>3, GroundsKeep, UnchangedIsAsBefore DEF Onward, Allowed
<1>6. Calm(p)' => Calm(p)
  BY <1>4, <1>5 DEF Calm, Onward
<1>7. Calm(p) => Smooth(txn[p], actor.role, Grounds)
  BY <1>2 DEF SmoothOk
<1>8. Place(p)' = Place(p)
  BY DEF Place, Onward
<1>9. QED
  BY <1>1, <1>2, <1>3, <1>4, <1>5, <1>6, <1>7, <1>8

LEMMA DueFromParts ==
    ASSUME NEW p \in Procs, Onward(p), OrderOk(p)', txn'[p].replay => txn'[p].pc = "commit",
           Active(p)' => ScopeOk(p)' /\ VersionOk(p)',
           Calm(p) => Smooth(txn'[p], actor.role, Grounds),
           Calm(p) /\ txn'[p].pc = "invalid" =>
               txn[p].kind = "end" /\ relationship' # 1 /\ Reserved(p)'
    PROVE  DueOk(p)'
BY OnwardFacts DEF SmoothOk, Onward, At, DueOk

(* The step goes on with the rest of the script. *)
LEMMA RestIsOrdered ==
    ASSUME NEW p \in Procs, Onward(p),
           \/ txn'[p].script = txn[p].script
           \/ txn[p].script # <<>> /\ txn'[p].script = Rest(p)
    PROVE  OrderOk(p)'
<1> DEFINE kind == txn[p].kind
           S == Script[kind]
           n == Len(S)
<1>1. /\ OrderOk(p) /\ kind \in Kinds /\ txn[p].script \in Seq(StepsOf(kind))
      /\ changes' = changes /\ txn'[p].kind = kind /\ txn'[p].since = txn[p].since
  BY OnwardFacts DEF Onward
<1>2. EndOf(S, txn'[p].script)
  <2>1. EndOf(S, txn[p].script)
    BY <1>1 DEF OrderOk
  <2>2. CASE txn[p].script # <<>> /\ txn'[p].script = Rest(p)
    BY <1>1, <2>1, <2>2, ScriptsAreOk, RestPlaces DEF ScriptOk, Rest
  <2>3. QED
    BY <2>1, <2>2
<1>3. QED
  BY <1>1, <1>2 DEF OrderOk

(* The step leaves this as it is. *)
Endures(p) ==
    /\ txn'[p].scope = txn[p].scope /\ txn'[p].child = txn[p].child
    /\ txn'[p].version = txn[p].version /\ txn'[p].rows = txn[p].rows
    /\ relationship' = relationship /\ locks \subseteq locks'

LEMMA EnduringIsDue ==
    ASSUME NEW p \in Procs, Onward(p), Endures(p), txn'[p].script = txn[p].script,
           txn'[p].replay => txn'[p].pc = "commit", Active(p)' => Active(p),
           Calm(p) => Smooth(txn'[p], actor.role, Grounds),
           Calm(p) /\ txn'[p].pc = "invalid" =>
               txn[p].kind = "end" /\ relationship' # 1 /\ Reserved(p)'
    PROVE  DueOk(p)'
BY RestIsOrdered, OnwardFacts, DueFromParts DEF Onward, ScopeOk, Endures, VersionOk

(* The step stops. *)
LEMMA StopIsDue ==
    ASSUME NEW p \in Procs, Onward(p), NEW STATE pc, pc \in {"denied", "invalid"}, Step(p, pc),
           UNCHANGED <<relationship, commands>>, locks \subseteq locks', ~At(p, "commit"),
           Calm(p) => pc = "invalid" /\ txn[p].kind = "end" /\ relationship # 1 /\ Reserved(p)
    PROVE  DueOk(p)'
<1>1. Shape
  BY OnwardFacts
<1>2. txn'[p].pc = pc /\ \A x \in Fields \ {"pc"} : txn'[p][x] = txn[p][x]
  BY <1>1, StepReplaces
<1>3. /\ txn'[p].script = txn[p].script /\ txn'[p].replay = txn[p].replay
      /\ txn'[p].key = txn[p].key /\ Endures(p)
  BY <1>2 DEF Fields, Endures
<1>4. ~txn'[p].replay
  BY <1>3, OnwardFacts
<1>5. ~Active(p)'
  BY <1>2 DEF Active
<1>6. Calm(p) => Smooth(txn'[p], actor.role, Grounds)
  BY <1>2 DEF Smooth, Deciding, Batching, Inner
<1>7. Calm(p) => txn[p].kind = "end" /\ relationship' # 1 /\ Reserved(p)'
  BY <1>3 DEF Reserved
<1>8. QED
  BY <1>3, <1>4, <1>5, <1>6, <1>7, EnduringIsDue

(* A step of the script that p is ready for. *)
LEMMA ReadyOnward ==
    ASSUME NEW p \in Procs, Onward(p), NEW do, Ready(p, do)
    PROVE  /\ At(p, "next") /\ Active(p) /\ ~txn[p].replay /\ ScopeOk(p) /\ VersionOk(p)
           /\ StepOf(p).do = do /\ txn[p].script # <<>>
           /\ StepOf(p) \in StepsOf(txn[p].kind) /\ Fitting(StepOf(p), txn[p].kind)
           /\ StepOk(StepOf(p))
           /\ txn[p].kind \in Creations => do \notin {"write", "end"}
           /\ txn[p].kind \notin Creations => do # "child"
BY OnwardFacts, ReadyFacts, ScriptsFit DEF Ready, Active, At

(* Where the script of a kind is. *)
LEMMA EndIsAt ==
    ASSUME NEW p \in Procs, Onward(p), txn[p].kind = "end", NEW do, Ready(p, do)
    PROVE  /\ Len(txn[p].script) \in Nat
           /\ Len(Rest(p)) = Len(txn[p].script) - 1
           /\ do = "decide" => Len(txn[p].script) = 7
           /\ do = "lock" =>
                 Len(txn[p].script) = 6 /\ StepOf(p) = LockStep(RelationshipRow, "update")
           /\ do = "batch" => Len(txn[p].script) = 5
           /\ do = "reserve" => Len(txn[p].script) = 4
           /\ do = "version" => Len(txn[p].script) = 3
           /\ do = "end" => Len(txn[p].script) = 2
           /\ do = "write" => Len(txn[p].script) = 1
           /\ Ahead(txn[p].script, "batch") <=> Len(txn[p].script) > 4
           /\ Ahead(txn[p].script, "reserve") <=> Len(txn[p].script) > 3
           /\ Ahead(Rest(p), "batch") <=> Len(Rest(p)) > 4
<1> DEFINE s == txn[p].script
<1>1. s \in Seq(StepsOf("end")) /\ EndOf(Script["end"], s) /\ s # <<>>
  BY OnwardFacts DEF OrderOk, Ready
<1>2. EndOf(Script["end"], Tail(s)) /\ Tail(s) \in Seq(StepsOf("end"))
  <2>1. PICK m : m = 7
    OBVIOUS
  <2>2. m \in Nat /\ Len(Script["end"]) = m
    BY <2>1, EndScript
  <2> HIDE DEF s
  <2>3. QED
    BY <1>1, <2>2, RestPlaces
<1>3. Head(s).do = do /\ Rest(p) = Tail(s) /\ StepOf(p) = Head(s)
  BY DEF Ready, Rest, StepOf
<1> HIDE DEF s
<1>4. Ahead(Tail(s), "batch") <=> Len(Tail(s)) > 4
  BY <1>2, EndPlaces
<1>5. QED
  BY <1>1, <1>3, <1>4, EndPlaces DEF s

LEMMA CreationIsAt ==
    ASSUME NEW p \in Procs, Onward(p), txn[p].kind \in Creations, NEW do, Ready(p, do)
    PROVE  /\ Len(txn[p].script) \in Nat /\ Len(txn[p].script) >= 1
           /\ Len(Rest(p)) = Len(txn[p].script) - 1
           /\ do = "child" <=> Len(txn[p].script) = 1
BY OnwardFacts, CreationPlaces DEF OrderOk, Ready, Rest, StepOf

LEMMA CreationPasses ==
    ASSUME NEW p \in Procs, Onward(p), txn[p].kind \in Creations, NEW do, Ready(p, do),
           do # "child"
    PROVE  Len(txn[p].script) > 1
<1>1. PICK n : n = Len(txn[p].script)
  OBVIOUS
<1>2. n \in Nat /\ n >= 1 /\ (do = "child" <=> n = 1)
  BY <1>1, CreationIsAt
<1>3. n > 1
  BY <1>2
<1>4. QED
  BY <1>1, <1>3

(* Where p is when it writes. *)
LEMMA InPlace ==
    ASSUME NEW p \in Procs, Onward(p), At(p, "next"),
           txn[p].script # <<>> => Head(txn[p].script).do # "child"
    PROVE  /\ InScope(p, Place(p))
           /\ txn[p].kind \in Creations /\ txn[p].script # <<>> => txn[p].child = None
<1>1. Active(p) /\ ScopeOk(p) /\ TxnOk(p) /\ ~At(p, "idle")
  BY OnwardFacts DEF Active, At, ProcOk
<1>2. CASE txn[p].kind \notin Creations
  BY <1>1, <1>2 DEF TxnOk, InScope
<1>3. CASE txn[p].kind \in Creations
  <2>1. CASE txn[p].script = <<>>
    BY <1>1, <1>3, <2>1 DEF ScopeOk, InScope
  <2>2. CASE txn[p].script # <<>>
    BY <1>1, <1>3, <2>2, CreationPasses DEF Ready, ScopeOk, InScope
  <2>3. QED
    BY <2>1, <2>2
<1>4. QED
  BY <1>2, <1>3

(* The step is made and the next one is that of the rest of the script. *)
Follows(p) ==
    /\ txn'[p].pc = "next" /\ txn'[p].script = Rest(p) /\ txn'[p].replay = txn[p].replay
    /\ txn'[p].scope = txn[p].scope /\ txn'[p].child = txn[p].child
    /\ txn'[p].found = txn[p].found

LEMMA FollowingScope ==
    ASSUME NEW p \in Procs, Onward(p), NEW do, Ready(p, do), do # "child",
           txn'[p].script = Rest(p), txn'[p].scope = txn[p].scope, txn'[p].child = txn[p].child
    PROVE  ScopeOk(p)'
BY ReadyOnward, OnwardFacts, CreationPasses DEF Onward, ScopeOk

LEMMA FollowingIsDue ==
    ASSUME NEW p \in Procs, Onward(p), NEW do, Ready(p, do), do \in {"lock", "reserve", "version", "end", "write"},
           Follows(p), VersionOk(p)'
    PROVE  DueOk(p)'
<1>1. /\ At(p, "next") /\ ~txn[p].replay /\ txn[p].script # <<>>
      /\ txn'[p].kind = txn[p].kind
  BY ReadyOnward DEF Onward
<1>2. OrderOk(p)'
  BY <1>1, RestIsOrdered DEF Follows
<1>3. ScopeOk(p)'
  BY FollowingScope DEF Follows
<1>4. ASSUME Calm(p) PROVE Smooth(txn'[p], actor.role, Grounds)
  <2>1. Smooth(txn[p], actor.role, Grounds)
    BY <1>4, OnwardFacts
  <2>2. ASSUME txn[p].kind = "end", ~Ahead(txn'[p].script, "batch")
        PROVE  txn'[p].found = Everything(Grounds)
    <3>1. ~Ahead(Rest(p), "batch")
      BY <2>2 DEF Follows
    <3>2. PICK n, m : n = Len(txn[p].script) /\ m = Len(Rest(p))
      OBVIOUS
    <3>3. ~Ahead(txn[p].script, "batch")
      <4>1. /\ n \in Nat /\ m = n - 1
            /\ Ahead(Rest(p), "batch") <=> m > 4
            /\ Ahead(txn[p].script, "batch") <=> n > 4
        BY <2>2, <3>2, EndIsAt
      <4>2. do = "lock" => n = 6
        BY <2>2, <3>2, EndIsAt
      <4>3. /\ do = "reserve" => n = 4
            /\ do = "version" => n = 3
            /\ do = "end" => n = 2
            /\ do = "write" => n = 1
        BY <2>2, <3>2, EndIsAt
      <4>4. n \in {6, 4, 3, 2, 1}
        BY <4>2, <4>3
      <4>5. QED
        BY <3>1, <4>1, <4>4
    <3>4. txn[p].found = Everything(Grounds)
      BY <1>1, <2>1, <2>2, <3>3 DEF Smooth, At
    <3>5. QED
      BY <3>4 DEF Follows
  <2>3. QED
    BY <1>1, <2>2 DEF Smooth, Follows, Deciding, Batching, Inner
<1>5. QED
  BY <1>1, <1>2, <1>3, <1>4, DueFromParts DEF Follows

LEMMA FollowingVersion ==
    ASSUME NEW p \in Procs, Onward(p), NEW do, Ready(p, do),
           do \in {"decide", "batch", "reserve", "end", "write"},
           txn'[p].script = Rest(p), txn'[p].version = txn[p].version,
           "ended" \in txn'[p].rows => txn[p].kind = "end",
           relationship' = relationship, locks \subseteq locks'
    PROVE  VersionOk(p)'
<1>1. VersionOk(p) /\ txn'[p].kind = txn[p].kind
  BY ReadyOnward DEF Onward
<1>2. CASE txn[p].kind = "end"
  <2>1. PICK n, m : n = Len(txn[p].script) /\ m = Len(Rest(p))
    OBVIOUS
  <2>2. /\ n \in Nat /\ m = n - 1
        /\ do = "decide" => n = 7
        /\ do = "batch" => n = 5
        /\ do = "reserve" => n = 4
        /\ do = "end" => n = 2
        /\ do = "write" => n = 1
    BY <1>2, <2>1, EndIsAt
  <2>3. (m < 6 => n < 6) /\ (m < 3 => n < 3)
    BY <2>2
  <2>4. QED
    BY <1>1, <1>2, <2>1, <2>3 DEF VersionOk
<1>3. QED
  BY <1>1, <1>2 DEF VersionOk

LEMMA AdvanceFollows ==
    ASSUME Shape, NEW p \in Procs, At(p, "next"), Advance(p)
    PROVE  Follows(p) /\ txn'[p].version = txn[p].version /\ txn'[p].rows = txn[p].rows
BY BecomeReplaces DEF Shape, Fields, Advance, Replaced, Follows, At

(* A Space that a command asks for is live. *)
LEMMA CalmSpaces ==
    ASSUME NEW p \in Procs, Calm(p), NEW n \in Needs(txn[p].kind)
    PROVE  Live(n[2])
BY DEF Calm, Allowed, May

LEMMA LockRowDue ==
    ASSUME NEW p \in Procs, Onward(p), LockRow(p)
    PROVE  DueOk(p)'
<1> DEFINE row == StepOf(p).row
<1>1. Ready(p, "lock") /\ UNCHANGED <<relationship, commands>>
  BY DEF LockRow, work
<1>2. /\ At(p, "next") /\ VersionOk(p) /\ Fitting(StepOf(p), txn[p].kind) /\ StepOf(p).do = "lock"
      /\ Shape
  BY <1>1, ReadyOnward, OnwardFacts
<1>3. locks \subseteq locks'
  BY DEF LockRow, Lock
<1>4. CASE row[1] = "space" /\ ~Live(row[2])
  <2>1. Step(p, "invalid")
    BY <1>4 DEF LockRow, Invalid
  <2>2. ~Calm(p)
    BY <1>2, <1>4, CalmSpaces DEF Fitting, LocksAsked
  <2>3. QED
    BY <1>1, <1>2, <1>3, <2>1, <2>2, StopIsDue DEF At
<1>5. CASE ~(row[1] = "space" /\ ~Live(row[2]))
  <2> DEFINE t == [txn[p] EXCEPT !.script = Rest(p), !.version = relationship]
  <2>1. /\ Lock(p, {row}, StepOf(p).mode)
        /\ IF row = RelationshipRow THEN Become(p, t) ELSE Advance(p)
    BY <1>5 DEF LockRow
  <2>2. CASE row = RelationshipRow
    <3>1. /\ DOMAIN t = Fields /\ t.script = Rest(p) /\ t.version = relationship
          /\ \A x \in Fields \ {"script", "version"} : t[x] = txn[p][x]
      BY <1>2 DEF Shape, Fields
    <3>2. Become(p, t)
      BY <2>1, <2>2
    <3> HIDE DEF t
    <3>3. txn'[p] = t
      BY <1>2, <3>1, <3>2, BecomeReplaces DEF Replaced
    <3>4. /\ Follows(p) /\ txn'[p].version = relationship /\ txn'[p].rows = txn[p].rows
      BY <1>2, <3>1, <3>3 DEF Follows, Fields, At
    <3>5. VersionOk(p)'
      <4>1. txn'[p].kind = txn[p].kind
        BY DEF Onward
      <4>2. ASSUME txn[p].kind = "end"
            PROVE  <<p, RelationshipRow, "update">> \in locks' /\ ~(Len(Rest(p)) < 3)
        BY <1>1, <2>1, <2>2, <4>2, EndIsAt, StepDo DEF Lock
      <4>3. QED
        BY <1>1, <1>2, <3>4, <4>1, <4>2 DEF VersionOk, Follows
    <3>6. QED
      BY <1>1, <3>4, <3>5, FollowingIsDue
  <2>3. CASE row # RelationshipRow
    <3>1. Follows(p) /\ txn'[p].version = txn[p].version /\ txn'[p].rows = txn[p].rows
      BY <1>2, <2>1, <2>3, AdvanceFollows
    <3>2. txn[p].kind # "end"
      BY <1>1, <2>3, EndIsAt, StepDo
    <3>3. VersionOk(p)'
      BY <1>2, <3>1, <3>2 DEF VersionOk, Onward
    <3>4. QED
      BY <1>1, <3>1, <3>3, FollowingIsDue
  <2>4. QED
    BY <2>2, <2>3
<1>6. QED
  BY <1>4, <1>5

LEMMA ReserveDue ==
    ASSUME NEW p \in Procs, Onward(p), Reserve(p)
    PROVE  DueOk(p)'
<1> DEFINE t == [txn[p] EXCEPT !.pc = "commit", !.replay = TRUE]
<1>1. Ready(p, "reserve") /\ UNCHANGED <<relationship, commands>>
  BY DEF Reserve, work
<1>2. At(p, "next") /\ VersionOk(p) /\ Shape /\ Active(p)
  BY <1>1, ReadyOnward, OnwardFacts
<1>3. locks \subseteq locks'
  BY DEF Reserve, Lock
<1>4. InScope(p, ReservationSpace(txn[p].kind))
  BY <1>1, <1>2, InPlace DEF Ready, Place
<1>5. Become(p, t) \/ Advance(p)
  BY <1>4 DEF Reserve
<1>6. CASE Become(p, t)
  <2>1. /\ DOMAIN t = Fields /\ t.pc = "commit" /\ t.replay = TRUE
        /\ \A x \in Fields \ {"pc", "replay"} : t[x] = txn[p][x]
    BY <1>2 DEF Shape, Fields
  <2> HIDE DEF t
  <2>2. txn'[p] = t
    BY <1>2, <1>6, <2>1, BecomeReplaces DEF Replaced
  <2>3. /\ txn'[p].pc = "commit" /\ txn'[p].replay = TRUE
        /\ \A x \in Fields \ {"pc", "replay"} : txn'[p][x] = txn[p][x]
    BY <2>1, <2>2
  <2>4. Endures(p) /\ txn'[p].script = txn[p].script
    BY <1>1, <1>3, <2>3 DEF Endures, Fields
  <2>5. Smooth(txn'[p], actor.role, Grounds)
    BY <2>3 DEF Smooth, Deciding, Batching, Inner
  <2>6. QED
    BY <1>2, <2>3, <2>4, <2>5, EnduringIsDue
<1>7. CASE Advance(p)
  <2>1. Follows(p) /\ txn'[p].version = txn[p].version /\ txn'[p].rows = txn[p].rows
    BY <1>2, <1>7, AdvanceFollows
  <2>2. VersionOk(p)'
    BY <1>1, <1>2, <1>3, <2>1, FollowingVersion DEF VersionOk, Follows
  <2>3. QED
    BY <1>1, <2>1, <2>2, FollowingIsDue
<1>8. QED
  BY <1>5, <1>6, <1>7

LEMMA ContributorIsOn ==
    ASSUME NEW s, ContributorGrant(s) # None
    PROVE  /\ ContributorGrant(s) \in On(s)
           /\ grants[ContributorGrant(s)].relation = "contributor"
BY LowestIsSome DEF ContributorGrant, On, LowestOf

LEMMA CheckVersionDue ==
    ASSUME NEW p \in Procs, Onward(p), CheckVersion(p)
    PROVE  DueOk(p)'
<1>1. Ready(p, "version") /\ UNCHANGED <<relationship, commands, locks>>
  BY DEF CheckVersion, work
<1>2. /\ At(p, "next") /\ VersionOk(p) /\ Shape /\ Active(p)
      /\ ProcOk(p) /\ Fitting(StepOf(p), txn[p].kind) /\ StepOf(p).do = "version"
  BY <1>1, ReadyOnward, OnwardFacts
<1>3. txn[p].kind = "end"
  BY <1>2 DEF Fitting, Suits
<1>4. PICK n, m : n = Len(txn[p].script) /\ m = Len(Rest(p))
  OBVIOUS
<1>5. n = 3 /\ m = n - 1 /\ (Ahead(txn[p].script, "reserve") <=> n > 3)
  BY <1>1, <1>3, <1>4, EndIsAt
<1>6. txn[p].version = relationship /\ <<p, RelationshipRow, "update">> \in locks
  BY <1>2, <1>3, <1>4, <1>5 DEF VersionOk
<1>7. CASE txn[p].version = 1
  <2>1. Advance(p)
    BY <1>7 DEF CheckVersion
  <2>2. Follows(p) /\ txn'[p].version = txn[p].version /\ txn'[p].rows = txn[p].rows
    BY <1>2, <2>1, AdvanceFollows
  <2>3. VersionOk(p)'
    BY <1>1, <1>3, <1>6, <1>7, <2>2 DEF VersionOk, Onward
  <2>4. QED
    BY <1>1, <2>2, <2>3, FollowingIsDue
<1>8. CASE txn[p].version # 1
  <2>1. Step(p, "invalid")
    BY <1>8 DEF CheckVersion, Invalid
  <2>2. ~Ahead(txn[p].script, "reserve")
    BY <1>5
  <2>3. Reserved(p)
    BY <1>2, <2>2 DEF ProcOk, ReserveOk
  <2>4. QED
    BY <1>1, <1>2, <1>3, <1>6, <1>8, <2>1, <2>3, StopIsDue DEF At
<1>9. QED
  BY <1>7, <1>8

(* The grants that the decisions of EndRequests find. *)
LEMMA FoundGrantsAreLive ==
    ASSUME IInv, AInv, NEW p \in Procs, Calm(p), txn[p].kind = "end",
           NEW r \in Everything(Grounds).grants
    PROVE  r = GrantRow(r[1]) /\ grants[r[1]].status = "live"
<1>1. TablesOk /\ Tree(spaces)
  BY DEF IInv, AInv, Tree
<1>2. r = GrantRow(r[1])
  BY EverythingIsRead
<1>3. Grounds[Home] = GroundsOf(Home) /\ Grounds[Other] = GroundsOf(Other)
      /\ Home \in Targets /\ Other \in Targets
  BY DEF Grounds, Targets
<1>4. \E i, j \in DOMAIN EndRequests : EndRequests[i][2] = Home /\ EndRequests[j][2] = Other
  BY EndSpaces
<1>5. ASSUME NEW s \in {Home, Other}
      PROVE  \E n \in Needs("end") : n[2] = s
  BY <1>4, EndNeedsRequests
<1>6. ASSUME NEW s \in {Home, Other}, r \in GroundsOf(s).grants
      PROVE  grants[r[1]].status = "live"
  <2>1. PICK n \in Needs("end") : n[2] = s
    BY <1>5
  <2>2. May(n[1], s)
    BY <2>1 DEF Calm, Allowed
  <2>3. /\ Way(s) \in {"free", "direct", "inherited"}
        /\ Way(s) \in {"direct", "inherited"} => grants[Reader(s)].status = "live"
    BY <1>1, <1>3, <2>2, AllowedReads
  <2>4. Way(s) # "free" /\ r = GrantRow(Reader(s))
    BY <1>6, <2>3, GroundsAre
  <2>5. r[1] = Reader(s)
    BY <2>4 DEF GrantRow
  <2>6. QED
    BY <2>3, <2>4, <2>5
<1>7. ASSUME r \in GroundsOf(Home).contributors
      PROVE  grants[r[1]].status = "live"
  BY <1>7, ContributorIsOn DEF GroundsOf, GrantRow, On
<1>8. QED
  BY <1>2, <1>3, <1>6, <1>7 DEF Everything

(* The rest of the script follows, and these rows are written. *)
LEMMA WritingFollows ==
    ASSUME Shape, NEW p \in Procs, At(p, "next"), NEW STATE rows,
           Become(p, [txn[p] EXCEPT !.script = Rest(p), !.rows = rows])
    PROVE  Follows(p) /\ txn'[p].version = txn[p].version /\ txn'[p].rows = rows
<1> DEFINE t == [txn[p] EXCEPT !.script = Rest(p), !.rows = rows]
<1>1. /\ DOMAIN t = Fields /\ t.script = Rest(p) /\ t.rows = rows
      /\ \A x \in Fields \ {"script", "rows"} : t[x] = txn[p][x]
  BY DEF Shape, Fields
<1>2. Become(p, t)
  OBVIOUS
<1> HIDE DEF t
<1>3. txn'[p] = t
  BY <1>1, <1>2, BecomeReplaces DEF Replaced
<1>4. QED
  BY <1>1, <1>3 DEF Follows, Fields, At

LEMMA CalmIsGranted ==
    ASSUME NEW p \in Procs, Onward(p), Calm(p), Ready(p, "end"), txn[p].kind = "end"
    PROVE  StillGranted(p)
<1>1. IInv /\ AInv
  BY DEF Onward
<1>2. txn[p].found = Everything(Grounds)
  <2>1. Smooth(txn[p], actor.role, Grounds) /\ At(p, "next")
    BY OnwardFacts, ReadyOnward
  <2>2. PICK n : n = Len(txn[p].script)
    OBVIOUS
  <2>3. n = 2 /\ (Ahead(txn[p].script, "batch") <=> n > 4)
    BY <2>2, EndIsAt
  <2>4. ~Ahead(txn[p].script, "batch")
    BY <2>3
  <2>5. QED
    BY <2>1, <2>4 DEF Smooth, At
<1>3. /\ actor.policy /\ actor.active /\ Live(Home)
      /\ Admin \/ ContributorGrant(Home) # None
  BY CalmActor
<1>4. ASSUME NEW r \in txn[p].found.grants
      PROVE  grants[r[1]].status = "live" /\ grants[r[1]].space = r[2].space
  BY <1>1, <1>2, FoundGrantsAreLive DEF GrantRow
<1>5. ASSUME ~Admin
      PROVE  \E r \in txn[p].found.grants : grants[r[1]].relation = "contributor"
  <2> DEFINE r == GrantRow(ContributorGrant(Home))
  <2>1. ContributorGrant(Home) # None
    BY <1>3, <1>5
  <2>2. GroundsOf(Home).contributors = {r}
    BY <1>5, <2>1, GroundsAre
  <2>3. Grounds[Home] = GroundsOf(Home)
    BY DEF Grounds, Targets
  <2>4. r \in txn[p].found.grants
    BY <1>2, <2>2, <2>3 DEF Everything
  <2>5. r[1] = ContributorGrant(Home)
    BY DEF GrantRow
  <2>6. grants[r[1]].relation = "contributor"
    BY <2>1, <2>5, ContributorIsOn
  <2>7. QED
    BY <2>4, <2>6
<1>6. QED
  BY <1>3, <1>4, <1>5 DEF StillGranted

LEMMA WriteEndDue ==
    ASSUME NEW p \in Procs, Onward(p), WriteEnd(p)
    PROVE  DueOk(p)'
<1>1. Ready(p, "end") /\ UNCHANGED <<relationship, commands, locks>>
  BY DEF WriteEnd, work
<1>2. /\ At(p, "next") /\ VersionOk(p) /\ Shape /\ StepOf(p).do = "end"
      /\ Fitting(StepOf(p), txn[p].kind)
  BY <1>1, ReadyOnward, OnwardFacts
<1>3. txn[p].kind = "end"
  BY <1>2 DEF Fitting, Suits
<1>4. relationship = 1
  <2>1. PICK n : n = Len(txn[p].script)
    OBVIOUS
  <2>2. n = 2
    BY <1>1, <1>3, <2>1, EndIsAt
  <2>3. n < 6 /\ n < 3
    BY <2>2
  <2>4. QED
    BY <1>2, <1>3, <2>1, <2>3 DEF VersionOk
<1>5. InScope(p, Home)
  <2>1. Head(txn[p].script).do # "child"
    BY <1>1 DEF Ready
  <2>2. Place(p) = Home
    BY <1>3 DEF Place, ReservationSpace
  <2>3. QED
    BY <1>2, <2>1, <2>2, InPlace
<1>6. CASE ~StillGranted(p)
  BY <1>1, <1>2, <1>3, <1>6, CalmIsGranted, StopIsDue DEF WriteEnd, At
<1>7. CASE StillGranted(p)
  <2>1. Become(p, [txn[p] EXCEPT !.script = Rest(p), !.rows = {"ended"}])
    BY <1>4, <1>5, <1>7 DEF WriteEnd
  <2>2. Follows(p) /\ txn'[p].version = txn[p].version
    BY <1>2, <2>1, WritingFollows
  <2>3. VersionOk(p)'
    BY <1>1, <1>3, <2>2, FollowingVersion DEF Follows
  <2>4. QED
    BY <1>1, <2>2, <2>3, FollowingIsDue
<1>8. QED
  BY <1>6, <1>7

LEMMA WriteRowsDue ==
    ASSUME NEW p \in Procs, Onward(p), WriteRows(p)
    PROVE  DueOk(p)'
<1>1. Ready(p, "write") /\ UNCHANGED <<relationship, commands, locks>>
  BY DEF WriteRows, work
<1>2. /\ At(p, "next") /\ VersionOk(p) /\ Shape /\ StepOf(p).do = "write"
      /\ Fitting(StepOf(p), txn[p].kind)
  BY <1>1, ReadyOnward, OnwardFacts
<1>3. "ended" \notin StepOf(p).tables
  BY <1>2 DEF Fitting, Suits
<1>4. InScope(p, ReservationSpace(txn[p].kind))
  BY <1>1, <1>2, InPlace DEF Ready, Place
<1>5. Become(p, [txn[p] EXCEPT !.script = Rest(p), !.rows = txn[p].rows \cup StepOf(p).tables])
  BY <1>2, <1>4 DEF WriteRows, Shape, Fields
<1>6. Follows(p) /\ txn'[p].version = txn[p].version /\ txn'[p].rows = txn[p].rows \cup StepOf(p).tables
  BY <1>2, <1>5, WritingFollows
<1>7. "ended" \in txn'[p].rows => txn[p].kind = "end"
  BY <1>2, <1>3, <1>6 DEF VersionOk
<1>8. VersionOk(p)'
  BY <1>1, <1>6, <1>7, FollowingVersion DEF Follows
<1>9. QED
  BY <1>1, <1>6, <1>8, FollowingIsDue

LEMMA CompleteDue ==
    ASSUME NEW p \in Procs, Onward(p), Complete(p)
    PROVE  DueOk(p)'
<1>1. /\ At(p, "next") /\ txn[p].script = <<>> /\ UNCHANGED <<relationship, commands, locks>>
  BY DEF Complete, work
<1>2. Shape /\ ~txn[p].replay /\ Active(p)
  BY <1>1, OnwardFacts DEF At, Active
<1>3. InScope(p, ReservationSpace(txn[p].kind))
  BY <1>1, InPlace DEF Place
<1>4. Step(p, "commit")
  BY <1>3 DEF Complete
<1>5. txn'[p].pc = "commit" /\ \A x \in Fields \ {"pc"} : txn'[p][x] = txn[p][x]
  BY <1>2, <1>4, StepReplaces
<1>6. Endures(p) /\ txn'[p].script = txn[p].script
  BY <1>1, <1>5 DEF Endures, Fields
<1>7. Smooth(txn'[p], actor.role, Grounds)
  BY <1>5 DEF Smooth, Deciding, Batching, Inner
<1>8. QED
  BY <1>2, <1>5, <1>6, <1>7, EnduringIsDue

(* The child Space is made, filled and left. *)
LEMMA ChildIsDue ==
    ASSUME NEW p \in Procs, Onward(p), Ready(p, "child"), txn'[p].pc = "next",
           txn'[p].replay = txn[p].replay, txn'[p].version = txn[p].version,
           txn'[p].script = txn[p].script \/ txn'[p].script = Rest(p),
           "ended" \in txn'[p].rows => "ended" \in txn[p].rows,
           UNCHANGED relationship, locks \subseteq locks', ScopeOk(p)'
    PROVE  DueOk(p)'
<1>1. /\ ~txn[p].replay /\ VersionOk(p) /\ txn[p].kind \in Creations /\ txn[p].script # <<>>
      /\ txn'[p].kind = txn[p].kind
  BY ReadyOnward DEF Onward
<1>2. txn[p].kind # "end"
  BY <1>1 DEF Creations
<1>3. VersionOk(p)'
  BY <1>1, <1>2 DEF VersionOk
<1>4. OrderOk(p)'
  BY <1>1, RestIsOrdered
<1>5. Smooth(txn'[p], actor.role, Grounds)
  BY <1>1, <1>2 DEF Smooth, Deciding, Batching, Inner
<1>6. QED
  BY <1>1, <1>3, <1>4, <1>5, DueFromParts

LEMMA ChildPlace ==
    ASSUME NEW p \in Procs, Onward(p), Ready(p, "child")
    PROVE  /\ At(p, "next") /\ Shape /\ txn[p].kind \in Creations
           /\ Len(txn[p].script) = 1 /\ Len(Rest(p)) = 0
           /\ txn[p].scope = IF txn[p].child # None THEN txn[p].child ELSE Place(p)
<1>1. /\ At(p, "next") /\ Shape /\ txn[p].kind \in Creations /\ ScopeOk(p)
  BY ReadyOnward, OnwardFacts
<1>2. PICK n, m : n = Len(txn[p].script) /\ m = Len(Rest(p))
  OBVIOUS
<1>3. n \in Nat /\ m = n - 1 /\ n = 1
  BY <1>1, <1>2, CreationIsAt
<1>4. n = 1 /\ m = 0
  BY <1>3
<1>5. QED
  BY <1>1, <1>2, <1>4 DEF ScopeOk

LEMMA OpenChildDue ==
    ASSUME NEW p \in Procs, Onward(p), OpenChild(p)
    PROVE  DueOk(p)'
<1> DEFINE parent == ReservationSpace(txn[p].kind)
           child == LowestOf(Unused)
           t == [txn[p] EXCEPT !.child = child, !.scope = child, !.rows = {"space", "grant"}]
<1>1. /\ Ready(p, "child") /\ txn[p].child = None /\ Unused # {}
      /\ UNCHANGED <<relationship, commands>>
  BY DEF OpenChild, work
<1>2. /\ At(p, "next") /\ Shape /\ txn[p].kind \in Creations
      /\ Len(txn[p].script) = 1 /\ txn[p].scope = Place(p)
  BY <1>1, ChildPlace
<1>3. InScope(p, parent)
  BY <1>2 DEF InScope, Place
<1>4. locks \subseteq locks'
  BY DEF OpenChild, Lock
<1>5. CASE ~Live(parent)
  <2>1. Step(p, "invalid")
    BY <1>5 DEF OpenChild, Invalid
  <2>2. ~Calm(p)
    BY <1>2, <1>5, OnwardFacts, GoverningLockAsked, CalmSpaces DEF Creations, Creating
  <2>3. QED
    BY <1>1, <1>2, <1>4, <2>1, <2>2, StopIsDue DEF At
<1>6. CASE Live(parent)
  <2>1. Become(p, t)
    BY <1>3, <1>6 DEF OpenChild
  <2>2. child \in Unused
    BY <1>1, AccessAssumption, LowestIsOne DEF Unused
  <2>3. child # None
    BY <2>2, AccessAssumption DEF Unused
  <2> HIDE DEF child
  <2>4. /\ DOMAIN t = Fields /\ t.child = child /\ t.scope = child /\ t.rows = {"space", "grant"}
        /\ \A x \in Fields \ {"child", "scope", "rows"} : t[x] = txn[p][x]
    BY <1>2 DEF Shape, Fields
  <2> HIDE DEF t
  <2>5. txn'[p] = t
    BY <1>2, <2>1, <2>4, BecomeReplaces DEF Replaced
  <2>6. /\ txn'[p].child = child /\ txn'[p].scope = child /\ txn'[p].rows = {"space", "grant"}
        /\ txn'[p].pc = "next" /\ txn'[p].replay = txn[p].replay
        /\ txn'[p].version = txn[p].version /\ txn'[p].script = txn[p].script
    BY <1>2, <2>4, <2>5 DEF Fields, At
  <2>7. ScopeOk(p)'
    <3>1. PICK n : n = Len(txn[p].script)
      OBVIOUS
    <3>2. n = 1 /\ ~(n > 1)
      BY <1>2, <3>1
    <3>3. QED
      BY <2>3, <2>6, <3>1, <3>2 DEF ScopeOk
  <2>8. QED
    BY <1>1, <1>4, <2>6, <2>7, ChildIsDue
<1>7. QED
  BY <1>5, <1>6

LEMMA FillChildDue ==
    ASSUME NEW p \in Procs, Onward(p), FillChild(p)
    PROVE  DueOk(p)'
<1> DEFINE t == [txn[p] EXCEPT !.rows = txn[p].rows \cup {txn[p].kind} \cup Messages]
<1>1. Ready(p, "child") /\ txn[p].child # None /\ UNCHANGED <<relationship, locks>>
  BY DEF FillChild, work
<1>2. /\ At(p, "next") /\ Shape /\ txn[p].kind \in Creations
      /\ Len(txn[p].script) = 1 /\ txn[p].scope = txn[p].child
  BY <1>1, ChildPlace
<1>3. Become(p, t)
  BY <1>2 DEF FillChild, InScope, Shape, Fields
<1>4. /\ DOMAIN t = Fields /\ t.rows = txn[p].rows \cup {txn[p].kind} \cup Messages
      /\ \A x \in Fields \ {"rows"} : t[x] = txn[p][x]
  BY <1>2 DEF Shape, Fields
<1> HIDE DEF t
<1>5. txn'[p] = t
  BY <1>2, <1>3, <1>4, BecomeReplaces DEF Replaced
<1>6. /\ txn'[p].child = txn[p].child /\ txn'[p].scope = txn[p].scope
      /\ txn'[p].rows = txn[p].rows \cup {txn[p].kind} \cup Messages
      /\ txn'[p].pc = "next" /\ txn'[p].replay = txn[p].replay
      /\ txn'[p].version = txn[p].version /\ txn'[p].script = txn[p].script
  BY <1>2, <1>4, <1>5 DEF Fields, At
<1>7. ScopeOk(p)'
  <2>1. PICK n : n = Len(txn[p].script)
    OBVIOUS
  <2>2. n = 1 /\ ~(n > 1)
    BY <1>2, <2>1
  <2>3. QED
    BY <1>1, <1>2, <1>6, <2>1, <2>2 DEF ScopeOk
<1>8. "ended" \in txn'[p].rows => "ended" \in txn[p].rows
  BY <1>2, <1>6 DEF Creations, Messages
<1>9. QED
  BY <1>1, <1>6, <1>7, <1>8, ChildIsDue

LEMMA CloseChildDue ==
    ASSUME NEW p \in Procs, Onward(p), CloseChild(p)
    PROVE  DueOk(p)'
<1> DEFINE t == [txn[p] EXCEPT !.script = Rest(p), !.scope = ReservationSpace(txn[p].kind)]
<1>1. Ready(p, "child") /\ UNCHANGED <<relationship, locks>> /\ Become(p, t)
  BY DEF CloseChild, work
<1>2. At(p, "next") /\ Shape /\ Len(Rest(p)) = 0
  BY <1>1, ChildPlace
<1>3. /\ DOMAIN t = Fields /\ t.script = Rest(p) /\ t.scope = Place(p)
      /\ \A x \in Fields \ {"script", "scope"} : t[x] = txn[p][x]
  BY <1>2 DEF Shape, Fields, Place
<1> HIDE DEF t
<1>4. txn'[p] = t
  BY <1>1, <1>2, <1>3, BecomeReplaces DEF Replaced
<1>5. /\ txn'[p].scope = Place(p) /\ txn'[p].script = Rest(p) /\ txn'[p].rows = txn[p].rows
      /\ txn'[p].pc = "next" /\ txn'[p].replay = txn[p].replay
      /\ txn'[p].version = txn[p].version
  BY <1>2, <1>3, <1>4 DEF Fields, At
<1>6. ScopeOk(p)'
  BY <1>2, <1>5, OnwardFacts DEF ScopeOk
<1>7. QED
  BY <1>1, <1>5, <1>6, ChildIsDue

(* Decisions begin. *)
LEMMA StartDecisionsDue ==
    ASSUME NEW p \in Procs, Onward(p), StartDecisions(p)
    PROVE  DueOk(p)'
<1> DEFINE t0 == [txn[p] EXCEPT !.script = Rest(p)]
           todo == StepOf(p).todo
           mode == StepOf(p).mode
           t == Decide(t0, todo, mode, "next")
<1>1. Ready(p, "decide") /\ UNCHANGED <<relationship, locks>> /\ Become(p, t)
  BY DEF StartDecisions, work
<1>2. /\ At(p, "next") /\ Shape /\ ~txn[p].replay /\ VersionOk(p) /\ StepOk(StepOf(p))
      /\ StepOf(p) \in StepsOf(txn[p].kind) /\ StepOf(p).do = "decide"
      /\ txn[p].script # <<>> /\ txn[p].kind \in Kinds
  BY <1>1, ReadyOnward, OnwardFacts
<1>3. mode \in Modes \ {"batch"}
  BY <1>2 DEF StepOk
<1>4. todo \in Seq(Needs(txn[p].kind)) /\ todo # <<>>
  BY <1>2, TodoNeeds
<1> HIDE DEF todo, mode
<1>5. /\ DOMAIN t = Fields /\ t.pc = "actor" /\ t.script = Rest(p) /\ t.todo = todo
      /\ t.mode = mode /\ t.after = "next"
      /\ \A x \in Fields \ {"pc", "script", "todo", "mode", "after"} : t[x] = txn[p][x]
  BY <1>2, <1>3 DEF Shape, Fields, Decide
<1> HIDE DEF t
<1>6. txn'[p] = t
  BY <1>1, <1>2, <1>5, BecomeReplaces DEF Replaced
<1>7. /\ txn'[p].script = Rest(p) /\ txn'[p].scope = txn[p].scope
      /\ txn'[p].child = txn[p].child /\ txn'[p].version = txn[p].version
      /\ txn'[p].rows = txn[p].rows /\ txn'[p].replay = txn[p].replay
      /\ txn'[p].kind = txn[p].kind
  BY <1>5, <1>6 DEF Fields
<1>8. OrderOk(p)'
  BY <1>2, <1>7, RestIsOrdered
<1>9. ScopeOk(p)'
  BY <1>1, <1>7, FollowingScope
<1>10. VersionOk(p)'
  BY <1>1, <1>2, <1>7, FollowingVersion DEF VersionOk
<1>11. Smooth(txn'[p], actor.role, Grounds)
  BY <1>3, <1>4, <1>5, <1>6, ScopeSmooth DEF Fields
<1>12. QED
  BY <1>2, <1>5, <1>6, <1>7, <1>8, <1>9, <1>10, <1>11, DueFromParts

LEMMA StartAuthorityBatchDue ==
    ASSUME NEW p \in Procs, Onward(p), StartAuthorityBatch(p)
    PROVE  DueOk(p)'
<1> DEFINE t0 == [txn[p] EXCEPT !.script = Rest(p)]
           d == Decide(t0, EndRequests, "batch", "lockActor")
           t == [d EXCEPT !.role = actor.role, !.found = Nothing, !.requests = EndRequests]
<1>1. Ready(p, "batch") /\ UNCHANGED <<relationship, commands, locks>>
  BY DEF StartAuthorityBatch, work
<1>2. /\ At(p, "next") /\ Shape /\ ~txn[p].replay /\ VersionOk(p)
      /\ Fitting(StepOf(p), txn[p].kind) /\ StepOf(p).do = "batch"
      /\ txn[p].script # <<>>
  BY <1>1, ReadyOnward, OnwardFacts
<1>3. txn[p].kind = "end" /\ StepOf(p).todo = EndRequests
  BY <1>2 DEF Fitting, Suits
<1>4. CASE ~(actor.policy /\ actor.active)
  <2>1. Step(p, "denied")
    BY <1>4 DEF StartAuthorityBatch, StartBatch
  <2>2. ~Calm(p)
    BY <1>3, <1>4, CalmActor
  <2>3. QED
    BY <1>1, <1>2, <2>1, <2>2, StopIsDue DEF At
<1>5. CASE actor.policy /\ actor.active
  <2>1. Become(p, t)
    BY <1>3, <1>5 DEF StartAuthorityBatch, StartBatch
  <2>2. /\ DOMAIN d = Fields /\ d.pc = "scope" /\ d.script = Rest(p) /\ d.todo = EndRequests
        /\ d.mode = "batch" /\ d.after = "lockActor"
        /\ \A x \in Fields \ {"pc", "script", "todo", "mode", "after"} : d[x] = txn[p][x]
    BY <1>2 DEF Shape, Fields, Decide
  <2> HIDE DEF d
  <2>3. /\ DOMAIN t = Fields /\ t.pc = "scope" /\ t.script = Rest(p) /\ t.todo = EndRequests
        /\ t.mode = "batch" /\ t.after = "lockActor" /\ t.role = actor.role
        /\ t.found = Nothing /\ t.requests = EndRequests
        /\ \A x \in {"kind", "scope", "child", "version", "rows", "replay"} : t[x] = txn[p][x]
    BY <2>2 DEF Fields
  <2> HIDE DEF t
  <2>4. txn'[p] = t
    BY <1>2, <2>1, <2>3, BecomeReplaces DEF Replaced
  <2>5. /\ txn'[p].script = Rest(p) /\ txn'[p].scope = txn[p].scope
        /\ txn'[p].child = txn[p].child /\ txn'[p].version = txn[p].version
        /\ txn'[p].rows = txn[p].rows /\ txn'[p].replay = txn[p].replay
        /\ txn'[p].pc = "scope"
    BY <2>3, <2>4
  <2>6. OrderOk(p)'
    BY <1>2, <2>5, RestIsOrdered
  <2>7. ScopeOk(p)'
    BY <1>1, <2>5, FollowingScope
  <2>8. VersionOk(p)'
    BY <1>1, <1>3, <2>5, FollowingVersion
  <2>9. Smooth(txn'[p], actor.role, Grounds)
    BY <1>3, <2>3, <2>4, RequestsSmooth
  <2>10. QED
    BY <1>2, <2>5, <2>6, <2>7, <2>8, <2>9, DueFromParts
<1>6. QED
  BY <1>4, <1>5

LEMMA DecisionDue ==
    ASSUME NEW p \in Procs, Onward(p), Decision(p)
    PROVE  DueOk(p)'
<1>1. /\ Authorize(p) /\ UNCHANGED <<relationship, commands>>
      /\ IInv /\ AInv /\ DueOk(p)
  BY DEF Decision, work, Onward
<1>2. Shape /\ ProcOk(p) /\ AuthOk(p)
  BY OnwardFacts
<1>3. txn[p].pc \in Deciding => Mode(p) \in Modes /\ txn[p].after \in {"next", "lockActor", "compare"}
  BY <1>2 DEF ProcOk, DecisionOk
<1>4. Effect(p) /\ txn[p].pc \in Deciding \cup Batching
  BY <1>1, <1>2, <1>3, AuthorizeEffect
<1>5. ~txn[p].replay /\ Active(p)
  BY <1>4, OnwardFacts DEF Deciding, Batching, Inner, At, Active
<1>6. /\ txn'[p].script = txn[p].script /\ txn'[p].replay = txn[p].replay /\ Endures(p)
  BY <1>1, <1>4 DEF Effect, Steady, Lasting, LocksGrow, Endures
<1>7. txn'[p].pc # "invalid"
  <2>1. Moves(p)
    BY <1>4 DEF Effect
  <2>2. CASE Begun(p) \/ Scoped(p) \/ Looked(p) \/ Compared(p) \/ Denied(p)
    BY <2>2 DEF Begun, Scoped, Looked, Compared, Denied, Inner
  <2>3. CASE Concluded(p)
    BY <1>3, <2>3 DEF Concluded, At, Deciding, Inner
  <2>4. QED
    BY <2>1, <2>2, <2>3 DEF Moves
<1>8. ASSUME At(p, "decided"), Mode(p) # "batch", txn[p].kind = "end"
      PROVE  Ahead(txn[p].script, "batch")
  <2>1. "end" \in Guarded /\ "end" \notin Locking /\ LastDo("end") = "batch"
    BY DEF Guarded, Locking, LastDo
  <2>2. ~Last(p)
    BY <1>2, <1>5, <1>8, <2>1 DEF AuthOk, BatchOk
  <2>3. QED
    BY <1>8, <2>1, <2>2 DEF Last
<1>9. Calm(p) => Smooth(txn'[p], actor.role, Grounds)
  BY <1>1, <1>8, AuthorizeSmooth DEF DueOk, SmoothOk, Onward
<1>10. QED
  BY <1>5, <1>6, <1>7, <1>9, EnduringIsDue

(* A step of its own leaves a transaction open, and its session where it   *)
(* was or in another Space.                                                *)
Stays(p) ==
    /\ txn'[p].kind = txn[p].kind /\ txn'[p].since = txn[p].since /\ txn'[p].pc # "idle"
    /\ txn'[p].scope \in {txn[p].scope} \cup Spaces

LEMMA BecomeStays ==
    ASSUME Shape, NEW p \in Procs, NEW STATE t, Become(p, t), DOMAIN t = Fields,
           t.kind = txn[p].kind, t.since = txn[p].since, t.pc # "idle",
           t.scope \in {txn[p].scope} \cup Spaces
    PROVE  Stays(p)
BY BecomeReplaces DEF Stays, Replaced

LEMMA StepStays ==
    ASSUME Shape, NEW p \in Procs, NEW STATE pc, pc # "idle", Step(p, pc)
    PROVE  Stays(p)
BY StepReplaces DEF Stays, Fields

LEMMA AdvanceStays ==
    ASSUME Shape, NEW p \in Procs, At(p, "next"), Advance(p)
    PROVE  Stays(p)
BY BecomeStays DEF Shape, Fields, At, Advance

LEMMA ScriptStepStays ==
    ASSUME Shape, NEW p \in Procs,
           LockRow(p) \/ Reserve(p) \/ CheckVersion(p) \/ WriteEnd(p) \/ WriteRows(p) \/ Complete(p)
    PROVE  Stays(p) /\ At(p, "next")
<1>1. At(p, "next")
  BY DEF LockRow, Reserve, CheckVersion, WriteEnd, WriteRows, Complete, Ready
<1>2. CASE LockRow(p)
  <2> DEFINE t == [txn[p] EXCEPT !.script = Rest(p), !.version = relationship]
  <2>1. /\ DOMAIN t = Fields /\ t.kind = txn[p].kind /\ t.since = txn[p].since /\ t.pc # "idle"
        /\ t.scope \in {txn[p].scope} \cup Spaces
    BY <1>1 DEF Shape, Fields, At
  <2>2. Step(p, "invalid") \/ Become(p, t) \/ Advance(p)
    BY <1>2 DEF LockRow, Invalid
  <2>3. QED
    BY <1>1, <2>1, <2>2, StepStays, BecomeStays, AdvanceStays
<1>3. CASE Reserve(p)
  <2> DEFINE t == [txn[p] EXCEPT !.pc = "commit", !.replay = TRUE]
  <2>1. /\ DOMAIN t = Fields /\ t.kind = txn[p].kind /\ t.since = txn[p].since /\ t.pc # "idle"
        /\ t.scope \in {txn[p].scope} \cup Spaces
    BY <1>1 DEF Shape, Fields, At
  <2>2. Step(p, "invalid") \/ Become(p, t) \/ Advance(p)
    BY <1>3 DEF Reserve, Invalid
  <2>3. QED
    BY <1>1, <2>1, <2>2, StepStays, BecomeStays, AdvanceStays
<1>4. CASE CheckVersion(p) \/ Complete(p)
  BY <1>1, <1>4, StepStays, AdvanceStays DEF CheckVersion, Complete, Invalid
<1>5. CASE WriteEnd(p)
  <2> DEFINE t == [txn[p] EXCEPT !.script = Rest(p), !.rows = {"ended"}]
  <2>1. /\ DOMAIN t = Fields /\ t.kind = txn[p].kind /\ t.since = txn[p].since /\ t.pc # "idle"
        /\ t.scope \in {txn[p].scope} \cup Spaces
    BY <1>1 DEF Shape, Fields, At
  <2>2. Step(p, "invalid") \/ Step(p, "denied") \/ Become(p, t)
    BY <1>5 DEF WriteEnd, Invalid
  <2>3. QED
    BY <1>1, <2>1, <2>2, StepStays, BecomeStays
<1>6. CASE WriteRows(p)
  <2> DEFINE t == [txn[p] EXCEPT !.script = Rest(p), !.rows = @ \cup StepOf(p).tables]
  <2>1. /\ DOMAIN t = Fields /\ t.kind = txn[p].kind /\ t.since = txn[p].since /\ t.pc # "idle"
        /\ t.scope \in {txn[p].scope} \cup Spaces
    BY <1>1 DEF Shape, Fields, At
  <2>2. Step(p, "invalid") \/ Become(p, t)
    BY <1>6 DEF WriteRows, Invalid
  <2>3. QED
    BY <1>1, <2>1, <2>2, StepStays, BecomeStays
<1>7. QED
  BY <1>1, <1>2, <1>3, <1>4, <1>5, <1>6

LEMMA ChildStepStays ==
    ASSUME Shape, NEW p \in Procs, OpenChild(p) \/ FillChild(p) \/ CloseChild(p)
    PROVE  Stays(p) /\ At(p, "next")
<1>1. At(p, "next")
  BY DEF OpenChild, FillChild, CloseChild, Ready
<1>2. CASE OpenChild(p)
  <2> DEFINE child == LowestOf(Unused)
             t == [txn[p] EXCEPT !.child = child, !.scope = child, !.rows = {"space", "grant"}]
  <2>1. Unused \subseteq Spaces /\ Unused # {} /\ Spaces \subseteq Nat
    BY <1>2, AccessAssumption DEF OpenChild, Unused
  <2>2. child \in Spaces
    BY <2>1, LowestIsOne
  <2> HIDE DEF child
  <2>3. /\ DOMAIN t = Fields /\ t.kind = txn[p].kind /\ t.since = txn[p].since /\ t.pc # "idle"
        /\ t.scope \in {txn[p].scope} \cup Spaces
    BY <1>1, <2>2 DEF Shape, Fields, At
  <2>4. Step(p, "invalid") \/ Become(p, t)
    BY <1>2 DEF OpenChild, Invalid, child
  <2> HIDE DEF t
  <2>5. QED
    BY <1>1, <2>3, <2>4, StepStays, BecomeStays
<1>3. CASE FillChild(p)
  <2> DEFINE t == [txn[p] EXCEPT !.rows = @ \cup {txn[p].kind} \cup Messages]
  <2>1. /\ DOMAIN t = Fields /\ t.kind = txn[p].kind /\ t.since = txn[p].since /\ t.pc # "idle"
        /\ t.scope \in {txn[p].scope} \cup Spaces
    BY <1>1 DEF Shape, Fields, At
  <2>2. Step(p, "invalid") \/ Become(p, t)
    BY <1>3 DEF FillChild, Invalid
  <2> HIDE DEF t
  <2>3. QED
    BY <1>1, <2>1, <2>2, StepStays, BecomeStays
<1>4. CASE CloseChild(p)
  <2> DEFINE s == ReservationSpace(txn[p].kind)
             t == [txn[p] EXCEPT !.script = Rest(p), !.scope = s]
  <2>1. s \in Spaces
    BY AccessAssumption, WorkAssumption DEF ReservationSpace
  <2>2. Become(p, t)
    BY <1>4 DEF CloseChild
  <2> HIDE DEF s
  <2>3. /\ DOMAIN t = Fields /\ t.kind = txn[p].kind /\ t.since = txn[p].since /\ t.pc # "idle"
        /\ t.scope \in {txn[p].scope} \cup Spaces
    BY <1>1, <2>1 DEF Shape, Fields, At
  <2> HIDE DEF t
  <2>4. QED
    BY <1>1, <2>2, <2>3, BecomeStays
<1>5. QED
  BY <1>1, <1>2, <1>3, <1>4

LEMMA BeginningStays ==
    ASSUME Shape, NEW p \in Procs, ProcOk(p), StartDecisions(p) \/ StartAuthorityBatch(p)
    PROVE  Stays(p) /\ At(p, "next")
<1>1. At(p, "next")
  BY DEF StartDecisions, StartAuthorityBatch, Ready
<1> DEFINE t0 == [txn[p] EXCEPT !.script = Rest(p)]
<1>2. CASE StartDecisions(p)
  BY <1>1, <1>2, BecomeStays DEF Shape, Fields, At, Decide, StartDecisions
<1>3. CASE StartAuthorityBatch(p)
  <2> DEFINE requests == StepOf(p).todo
             d == Decide(t0, requests, "batch", "lockActor")
             t == [d EXCEPT !.role = actor.role, !.found = Nothing, !.requests = requests]
  <2>1. /\ DOMAIN d = Fields /\ d.kind = txn[p].kind /\ d.since = txn[p].since /\ d.pc # "idle"
        /\ d.scope = txn[p].scope
    BY <1>1 DEF Shape, Fields, At, Decide
  <2>2. Step(p, "denied") \/ Become(p, t)
    BY <1>3 DEF StartAuthorityBatch, StartBatch
  <2> HIDE DEF d
  <2>3. /\ DOMAIN t = Fields /\ t.kind = txn[p].kind /\ t.since = txn[p].since /\ t.pc # "idle"
        /\ t.scope \in {txn[p].scope} \cup Spaces
    BY <2>1 DEF Fields
  <2> HIDE DEF t
  <2>4. QED
    BY <1>1, <2>2, <2>3, StepStays, BecomeStays
<1>4. QED
  BY <1>1, <1>2, <1>3

LEMMA DecisionStays ==
    ASSUME IInv, NEW p \in Procs, Decision(p)
    PROVE  Stays(p) /\ ~At(p, "idle")
<1>1. Authorize(p) /\ Shape /\ ProcOk(p)
  BY DEF Decision, IInv
<1>2. txn[p].pc \in Deciding => Mode(p) \in Modes /\ txn[p].after \in {"next", "lockActor", "compare"}
  BY <1>1 DEF ProcOk, DecisionOk
<1>3. Effect(p) /\ txn[p].pc \in Deciding \cup Batching
  BY <1>1, <1>2, AuthorizeEffect
<1>4. ~At(p, "idle")
  BY <1>3 DEF At, Deciding, Batching, Inner
<1>5. /\ txn'[p].kind = txn[p].kind /\ txn'[p].since = txn[p].since
      /\ txn'[p].scope = txn[p].scope
  BY <1>3 DEF Effect, Steady, Lasting
<1>6. txn'[p].pc # "idle"
  <2>1. Moves(p)
    BY <1>3 DEF Effect
  <2>2. CASE Begun(p) \/ Scoped(p) \/ Looked(p) \/ Compared(p) \/ Denied(p)
    BY <2>2 DEF Begun, Scoped, Looked, Compared, Denied, Inner
  <2>3. CASE Concluded(p)
    BY <1>2, <2>3 DEF Concluded, At, Deciding, Inner
  <2>4. QED
    BY <2>1, <2>2, <2>3 DEF Moves
<1>7. QED
  BY <1>4, <1>5, <1>6 DEF Stays

----------------------------------------------------------------------------
(* Every step keeps what DueOk says of every process.                      *)

LEMMA OwnStepDue ==
    ASSUME IInv, AInv, IInv', AInv', DInv, NEW p \in Procs,
           \/ LockRow(p) \/ StartDecisions(p) \/ StartAuthorityBatch(p) \/ Reserve(p)
           \/ CheckVersion(p) \/ WriteEnd(p) \/ WriteRows(p) \/ OpenChild(p) \/ FillChild(p)
           \/ CloseChild(p) \/ Complete(p)
    PROVE  DueOk(p)'
<1>1. Shape /\ ProcOk(p) /\ DueOk(p) /\ relationship \in Nat \ {0}
  BY DEF IInv, DInv
<1>2. UNCHANGED access
  BY <1>1, OwnStepLeaves
<1>3. Stays(p) /\ At(p, "next")
  BY <1>1, ScriptStepStays, ChildStepStays, BeginningStays
<1>4. Onward(p)
  BY <1>1, <1>2, <1>3 DEF Onward, Stays, At
<1>5. CASE LockRow(p) \/ StartDecisions(p) \/ StartAuthorityBatch(p) \/ Reserve(p)
  BY <1>4, <1>5, LockRowDue, StartDecisionsDue, StartAuthorityBatchDue, ReserveDue
<1>6. CASE CheckVersion(p) \/ WriteEnd(p) \/ WriteRows(p) \/ Complete(p)
  BY <1>4, <1>6, CheckVersionDue, WriteEndDue, WriteRowsDue, CompleteDue
<1>7. CASE OpenChild(p) \/ FillChild(p) \/ CloseChild(p)
  BY <1>4, <1>7, OpenChildDue, FillChildDue, CloseChildDue
<1>8. QED
  BY <1>5, <1>6, <1>7

LEMMA OwnDecisionDue ==
    ASSUME IInv, AInv, IInv', AInv', DInv, NEW p \in Procs, Decision(p)
    PROVE  DueOk(p)'
BY DecisionLeaves, DecisionStays, DecisionDue DEF DInv, Onward, Stays

(* What somebody else leaves to a transaction that q has open. *)
Leaves(q) ==
    /\ txn'[q] = txn[q]
    /\ \A l \in locks : l[1] = q => l \in locks'
    /\ changes' \in Nat /\ changes <= changes'
    /\ changes' = changes => AccessAsBefore
    /\ <<q, RelationshipRow, "update">> \in locks => relationship' = relationship
    /\ relationship # 1 => relationship' # 1
    /\ Reserved(q) => commands'[txn[q].key] = None

LEMMA BystanderCalm ==
    ASSUME IInv, AInv, IInv', AInv', NEW q \in Procs, ~At(q, "idle"), OrderOk(q), Leaves(q),
           changes \in Nat, Calm(q)'
    PROVE  Calm(q) /\ AccessAsBefore /\ Grounds' = Grounds
BY GroundsKeep DEF Leaves, OrderOk, Calm, IInv, ProcOk, TxnOk, Allowed

LEMMA BystanderDue ==
    ASSUME IInv, AInv, IInv', AInv', NEW q \in Procs, DueOk(q), Leaves(q), changes \in Nat
    PROVE  DueOk(q)'
<1>1. txn'[q] = txn[q]
  BY DEF Leaves
<1>2. SUFFICES ASSUME ~At(q, "idle") PROVE DueOk(q)'
  BY <1>1 DEF DueOk, At
<1>3. /\ OrderOk(q) /\ (txn[q].replay => At(q, "commit")) /\ SmoothOk(q)
      /\ Active(q) => ScopeOk(q) /\ VersionOk(q)
  BY <1>2 DEF DueOk
<1>4. OrderOk(q)'
  BY <1>1, <1>3 DEF OrderOk, Leaves
<1>5. txn'[q].replay => At(q, "commit")'
  BY <1>1, <1>3 DEF At
<1>6. Active(q)' => ScopeOk(q)'
  BY <1>1, <1>3 DEF Active, ScopeOk, Place
<1>7. \A row, mode : <<q, row, mode>> \in locks => <<q, row, mode>> \in locks'
  BY DEF Leaves
<1>8. Active(q)' => VersionOk(q)'
  BY <1>1, <1>3, <1>7 DEF Active, VersionOk, Leaves
<1>9. SmoothOk(q)'
  <2> SUFFICES ASSUME Calm(q)'
               PROVE  SmoothOk(q)'
    BY DEF SmoothOk
  <2>1. Calm(q) /\ AccessAsBefore /\ Grounds' = Grounds
    BY <1>2, <1>3, BystanderCalm
  <2>2. actor' = actor
    BY <2>1 DEF AccessAsBefore
  <2>3. /\ Smooth(txn[q], actor.role, Grounds)
        /\ At(q, "invalid") => txn[q].kind = "end" /\ relationship # 1 /\ Reserved(q)
    BY <1>3, <2>1 DEF SmoothOk
  <2>4. Smooth(txn'[q], actor'.role, Grounds')
    BY <1>1, <2>1, <2>2, <2>3
  <2>5. Reserved(q) => Reserved(q)'
    BY <1>1, <1>7 DEF Reserved, Leaves
  <2>6. At(q, "invalid")' => txn'[q].kind = "end" /\ relationship' # 1 /\ Reserved(q)'
    BY <1>1, <2>3, <2>5 DEF At, Leaves
  <2>7. QED
    BY <2>4, <2>6 DEF SmoothOk
<1>10. QED
  BY <1>4, <1>5, <1>6, <1>8, <1>9 DEF DueOk

(* A step of p that changes neither access nor work. *)
LEMMA QuietKeepsDue ==
    ASSUME IInv, AInv, IInv', AInv', DInv, NEW p \in Procs, OthersKeep(p),
           UNCHANGED <<access, work>>, \A l \in locks : l[1] # p => l \in locks', DueOk(p)'
    PROVE  DInv'
<1>1. UNCHANGED <<changes, relationship, commands>> /\ AccessAsBefore
  BY UnchangedIsAsBefore DEF access, work
<1>2. changes \in Nat /\ relationship \in Nat \ {0}
  BY DEF DInv
<1>3. ASSUME NEW q \in Procs PROVE DueOk(q)'
  <2>1. CASE q = p
    BY <2>1
  <2>2. CASE q # p
    <3>1. Leaves(q)
      BY <1>1, <1>2, <2>2 DEF Leaves, OthersKeep, Reserved
    <3>2. DueOk(q)
      BY DEF DInv
    <3>3. QED
      BY <1>2, <3>1, <3>2, BystanderDue
  <2>3. QED
    BY <2>1, <2>2
<1>4. QED
  BY <1>1, <1>2, <1>3 DEF DInv

LEMMA FinishDue ==
    ASSUME Shape, NEW p \in Procs, Finish(p)
    PROVE  DueOk(p)'
<1> DEFINE t == [Idle EXCEPT !.runs = txn[p].runs]
<1>1. Become(p, t) /\ DOMAIN t = Fields /\ t.pc = "idle"
  BY DEF Finish, Become, Idle, Fields
<1> HIDE DEF t
<1>2. txn'[p] = t
  BY <1>1, BecomeReplaces DEF Replaced
<1>3. QED
  BY <1>1, <1>2 DEF DueOk, At

LEMMA RollbackKeepsDue ==
    ASSUME IInv, AInv, IInv', AInv', DInv, NEW p \in Procs, Rollback(p)
    PROVE  DInv'
BY FinishLeavesIdle, ReleaseKeepsExclusive, FinishDue, QuietKeepsDue DEF Rollback, IInv

(* A transaction begins with the whole script. *)
LEMMA WholeScript ==
    ASSUME NEW kind \in Kinds
    PROVE  EndOf(Script[kind], Script[kind])
BY ScriptsAreOk DEF ScriptOk, EndOf

LEMMA BeginDue ==
    ASSUME IInv, IInv', DInv, NEW p \in Procs, NEW request \in cast.requests[p],
           Begin(p, request)
    PROVE  DueOk(p)'
<1> DEFINE kind == request.kind
           t == [Idle EXCEPT !.pc = "next", !.key = request.key, !.kind = request.kind,
                             !.script = Script[request.kind], !.since = changes,
                             !.scope = ReservationSpace(request.kind),
                             !.runs = txn[p].runs + 1]
<1>1. Become(p, t) /\ Shape /\ changes' = changes /\ changes \in Nat
  BY DEF Begin, Become, IInv, DInv, access
<1>2. kind \in Kinds
  BY CastAssumption DEF IInv, TablesOk
<1>3. /\ DOMAIN t = Fields /\ t.pc = "next" /\ t.kind = kind
      /\ t.script = Script[kind] /\ t.scope = ReservationSpace(kind) /\ t.since = changes
      /\ t.child = None /\ t.rows = {} /\ t.replay = FALSE
  BY DEF Idle, Fields
<1> HIDE DEF t
<1>4. txn'[p] = t
  BY <1>1, <1>3, BecomeReplaces DEF Replaced
<1>5. OrderOk(p)'
  BY <1>1, <1>2, <1>3, <1>4, WholeScript DEF OrderOk
<1>6. ScopeOk(p)'
  BY <1>3, <1>4 DEF ScopeOk, Place
<1>7. VersionOk(p)'
  BY <1>3, <1>4, EndScript DEF VersionOk
<1>8. kind = "end" => Ahead(t.script, "batch")
  BY <1>2, <1>3, EndScript, ScriptsAreOk DEF ScriptOk, Ahead
<1>9. SmoothOk(p)'
  <2>1. /\ "next" # "denied" /\ "next" \notin Deciding /\ "next" \notin Batching
        /\ "next" # "invalid"
    BY DEF Deciding, Batching, Inner
  <2>2. Smooth(txn'[p], actor'.role, Grounds')
    BY <1>3, <1>4, <1>8, <2>1 DEF Smooth
  <2>3. QED
    BY <1>3, <1>4, <2>1, <2>2 DEF SmoothOk, At
<1>10. QED
  BY <1>3, <1>4, <1>5, <1>6, <1>7, <1>9 DEF DueOk

LEMMA BeginKeepsDue ==
    ASSUME IInv, AInv, IInv', AInv', DInv, NEW p \in Procs, NEW request \in cast.requests[p],
           Begin(p, request)
    PROVE  DInv'
BY BecomeLeavesOthers, BeginDue, QuietKeepsDue DEF Begin, IInv

(* A transaction that commits adds a Space that was none. *)
LEMMA CommitIsAsBefore ==
    ASSUME IInv, NEW p \in Procs, Commit(p)
    PROVE  AccessAsBefore /\ changes' = changes
BY DEF IInv, TablesOk, Commit, AccessAsBefore, ProcOk, ChildOk, ChildFresh, NewSpace

(* Whoever ends the relationship has locked its row. *)
LEMMA EndingHolds ==
    ASSUME IInv, DInv, NEW p \in Procs, At(p, "commit"), ~txn[p].replay,
           "ended" \in txn[p].rows
    PROVE  <<p, RelationshipRow, "update">> \in locks
BY DEF Active, At, IInv, DInv, DueOk, ProcOk, CommitOk, VersionOk

LEMMA CommitLeavesWork ==
    ASSUME IInv, DInv, NEW p \in Procs, Commit(p), NEW q \in Procs, q # p
    PROVE  /\ <<q, RelationshipRow, "update">> \in locks => relationship' = relationship
           /\ relationship' \in Nat \ {0} /\ (relationship # 1 => relationship' # 1)
           /\ Reserved(q) => commands'[txn[q].key] = None
<1>1. /\ At(p, "commit") /\ ~At(p, "idle") /\ ProcOk(p) /\ LocksExclusive
      /\ relationship \in Nat \ {0} /\ DOMAIN commands = Keys
  BY DEF Commit, IInv, DInv, At, TablesOk
<1>2. CASE txn[p].replay
  BY <1>1, <1>2 DEF Commit, Reserved
<1>3. CASE ~txn[p].replay
  <2>1. /\ commands' = [commands EXCEPT ![txn[p].key] = txn[p].kind]
        /\ relationship' = relationship + (IF "ended" \in txn[p].rows THEN 1 ELSE 0)
    BY <1>3 DEF Commit
  <2>2. relationship' \in Nat \ {0} /\ (relationship # 1 => relationship' # 1)
    BY <1>1, <2>1
  <2>3. ASSUME <<q, RelationshipRow, "update">> \in locks PROVE relationship' = relationship
    <3>1. CASE "ended" \in txn[p].rows
      BY <1>1, <1>3, <2>3, <3>1, EndingHolds DEF LocksExclusive
    <3>2. CASE "ended" \notin txn[p].rows
      BY <1>1, <2>1, <3>2
    <3>3. QED
      BY <3>1, <3>2
  <2>4. ASSUME Reserved(q) PROVE commands'[txn[q].key] = None
    <3>1. txn[p].script = <<>> /\ Active(p)
      BY <1>1, <1>3 DEF ProcOk, CommitOk, Active, At
    <3>2. Reserved(p)
      BY <1>1, <3>1 DEF ProcOk, ReserveOk, Ahead
    <3> DEFINE l == <<q, KeyRow(txn[q].key), "update">>
               m == <<p, KeyRow(txn[p].key), "update">>
    <3>3. /\ l \in locks /\ m \in locks /\ l[1] # m[1] /\ l[3] = "update"
          /\ l[2] = <<"key", txn[q].key>> /\ m[2] = <<"key", txn[p].key>>
      BY <2>4, <3>2 DEF Reserved, KeyRow
    <3>4. l[2] # m[2]
      BY <1>1, <3>3 DEF LocksExclusive
    <3>5. txn[q].key # txn[p].key
      BY <3>3, <3>4
    <3>6. commands[txn[q].key] = None
      BY <2>4 DEF Reserved
    <3>7. QED
      BY <2>1, <3>5, <3>6
  <2>5. QED
    BY <2>2, <2>3, <2>4
<1>4. QED
  BY <1>2, <1>3

LEMMA CommitKeepsDue ==
    ASSUME IInv, AInv, IInv', AInv', DInv, NEW p \in Procs, Commit(p)
    PROVE  DInv'
<1>1. /\ Shape /\ Finish(p) /\ Release(p) /\ LocksExclusive
      /\ changes \in Nat /\ relationship \in Nat \ {0}
  BY DEF Commit, IInv, DInv
<1>2. OthersKeep(p) /\ \A l \in locks : l[1] # p => l \in locks'
  BY <1>1, FinishLeavesIdle, ReleaseKeepsExclusive
<1>3. DueOk(p)'
  BY <1>1, FinishDue
<1>4. AccessAsBefore /\ changes' = changes
  BY CommitIsAsBefore
<1>5. relationship' \in Nat \ {0}
  BY <1>1 DEF Commit
<1>6. ASSUME NEW q \in Procs PROVE DueOk(q)'
  <2>1. CASE q = p
    BY <1>3, <2>1
  <2>2. CASE q # p
    <3>1. /\ <<q, RelationshipRow, "update">> \in locks => relationship' = relationship
          /\ relationship # 1 => relationship' # 1
          /\ Reserved(q) => commands'[txn[q].key] = None
      BY <2>2, CommitLeavesWork
    <3>2. Leaves(q)
      BY <1>1, <1>2, <1>4, <2>2, <3>1 DEF Leaves, OthersKeep
    <3>3. DueOk(q)
      BY DEF DInv
    <3>4. QED
      BY <1>1, <3>2, <3>3, BystanderDue
  <2>3. QED
    BY <2>1, <2>2
<1>7. QED
  BY <1>1, <1>4, <1>5, <1>6 DEF DInv

LEMMA ServeKeepsDue ==
    ASSUME IInv, AInv, IInv', AInv', DInv, NEW p \in Procs, Serve(p)
    PROVE  DInv'
<1>1. Shape
  BY DEF IInv
<1>2. CASE \/ LockRow(p) \/ StartDecisions(p) \/ StartAuthorityBatch(p) \/ Reserve(p)
           \/ CheckVersion(p) \/ WriteEnd(p) \/ WriteRows(p) \/ OpenChild(p) \/ FillChild(p)
           \/ CloseChild(p) \/ Complete(p)
  <2>1. OthersKeep(p) /\ UNCHANGED access /\ \A l \in locks : l[1] # p => l \in locks'
    BY <1>1, <1>2, OwnStepLeaves
  <2>2. UNCHANGED work
    BY <1>2 DEF LockRow, StartDecisions, StartAuthorityBatch, Reserve, CheckVersion, WriteEnd,
                WriteRows, OpenChild, FillChild, CloseChild, Complete
  <2>3. DueOk(p)'
    BY <1>2, OwnStepDue
  <2>4. QED
    BY <2>1, <2>2, <2>3, QuietKeepsDue
<1>3. CASE Decision(p)
  BY <1>3, DecisionLeaves, OwnDecisionDue, QuietKeepsDue DEF Decision
<1>4. CASE Commit(p)
  BY <1>4, CommitKeepsDue
<1>5. QED
  BY <1>2, <1>3, <1>4 DEF Serve

LEMMA AdministerKeepsDue ==
    ASSUME IInv, AInv, IInv', AInv', DInv, Administer, UNCHANGED work
    PROVE  DInv'
<1>1. UNCHANGED <<relationship, commands>> /\ changes \in Nat /\ relationship \in Nat \ {0}
  BY DEF work, DInv
<1>2. UNCHANGED <<locks, txn>> /\ changes' = changes + 1
  BY DEF Administer, Archive, Enclose, Classify, Move, SetSpace, Revoke, Grant, SetGrant,
         Suspend, Promote, RetirePolicy, SetActor, Change
<1>3. changes' \in Nat /\ changes <= changes' /\ changes' # changes
  BY <1>1, <1>2
<1>4. ASSUME NEW q \in Procs PROVE DueOk(q)'
  BY <1>1, <1>2, <1>3, BystanderDue DEF Leaves, Reserved, DInv
<1>5. QED
  BY <1>1, <1>3, <1>4 DEF DInv

LEMMA StutterKeepsDue ==
    ASSUME IInv, AInv, IInv', AInv', DInv, UNCHANGED vars
    PROVE  DInv'
<1>1. /\ UNCHANGED <<locks, txn, changes, relationship, commands>> /\ AccessAsBefore
      /\ changes \in Nat /\ relationship \in Nat \ {0}
  BY UnchangedIsAsBefore DEF vars, access, work, DInv
<1>2. ASSUME NEW q \in Procs PROVE DueOk(q)'
  <2>1. Leaves(q)
    BY <1>1 DEF Leaves, Reserved
  <2>2. DueOk(q)
    BY DEF DInv
  <2>3. QED
    BY <1>1, <2>1, <2>2, BystanderDue
<1>3. QED
  BY <1>1, <1>2 DEF DInv

LEMMA NextKeepsDue == IInv /\ AInv /\ DInv /\ [Next]_vars => DInv'
<1> SUFFICES ASSUME IInv, AInv, DInv, [Next]_vars PROVE DInv'
  OBVIOUS
<1>1. IInv' /\ AInv'
  BY NextOk, NextKeepsAuthority
<1>2. ASSUME NEW p \in Procs, NEW request \in cast.requests[p], Begin(p, request)
      PROVE  DInv'
  BY <1>1, <1>2, BeginKeepsDue
<1>3. ASSUME NEW p \in Procs, Serve(p)
      PROVE  DInv'
  BY <1>1, <1>3, ServeKeepsDue
<1>4. ASSUME NEW p \in Procs, Refused(p) \/ Lost(p)
      PROVE  DInv'
  BY <1>1, <1>4, RollbackKeepsDue DEF Refused, Lost
<1>5. CASE Administer /\ UNCHANGED work
  BY <1>1, <1>5, AdministerKeepsDue
<1>6. CASE UNCHANGED vars
  BY <1>1, <1>6, StutterKeepsDue
<1>7. QED
  BY <1>2, <1>3, <1>4, <1>5, <1>6 DEF Next

LEMMA InitDue == Init => DInv
BY CastAssumption, AccessAssumption DEF Init, Idle, DueOk, At, DInv

----------------------------------------------------------------------------
(* At every moment of every behaviour, a command that nobody has changed   *)
(* access under and whose actor may do what it asks has made no decision   *)
(* against itself and finds its session in the Space where its next        *)
(* statement looks.                                                        *)
THEOREM DueInvariance == Spec => []DInv
<1>1. Init => DInv
  BY InitDue
<1>2. IInv /\ AInv /\ DInv /\ [Next]_vars => DInv'
  BY NextKeepsDue
<1>3. QED
  BY <1>1, <1>2, AccountCommandsInvariance, AuthorityInvariance, PTL DEF Spec

(* A command is only refused when its actor may not do what it asks, when  *)
(* access has changed since its transaction began, or when another command *)
(* has ended the relationship: no lock, no comparison of rows that are     *)
(* found twice, no statement that is bound to the Space of the session and *)
(* no retry of a completed command refuses it by itself.                   *)
THEOREM EveryRefusalIsDue == Spec => []RefusalsAreDue
<1>1. IInv /\ DInv => RefusalsAreDue
  <2> SUFFICES ASSUME IInv, DInv, NEW p \in Procs, txn[p].pc \in {"denied", "invalid"},
                      ~(changes > txn[p].since), Allowed(txn[p].kind)
               PROVE  /\ txn[p].kind = "end" /\ relationship # 1
                      /\ commands[txn[p].key] = None
    BY DEF RefusalsAreDue
  <2>1. ~At(p, "idle") /\ DueOk(p) /\ changes \in Nat
    BY DEF At, DInv
  <2>2. OrderOk(p) /\ SmoothOk(p)
    BY <2>1 DEF DueOk
  <2>3. changes = txn[p].since
    BY <2>1, <2>2 DEF OrderOk
  <2>4. Calm(p)
    BY <2>3 DEF Calm
  <2>5. At(p, "invalid")
    BY <2>2, <2>4 DEF SmoothOk, Smooth, At
  <2>6. QED
    BY <2>2, <2>4, <2>5 DEF SmoothOk, Reserved
<1>2. QED
  BY <1>1, AccountCommandsInvariance, DueInvariance, PTL

----------------------------------------------------------------------------
(* Types.  The relationship is ended at most once: who ends it has compared *)
(* its version under the lock of its row, which lasts until the commit.    *)

LocksTyped == \A l \in locks : l[1] \in Procs /\ l[3] \in {"share", "update"}
GrantsTyped == \A g \in Grants : grants[g].status \in {"none", "live", "revoked"}
TxnTyped(p) == txn[p].kind \in Kinds \cup {None} /\ txn[p].scope \in Spaces \cup {None}

TInv ==
    /\ LocksTyped /\ GrantsTyped /\ changes <= MaxChanges
    /\ \A p \in Procs : TxnTyped(p)
    /\ relationship \in 1 .. 2

LEMMA GrowingLocksTyped ==
    ASSUME LocksTyped, NEW p \in Procs, NEW mode \in {"share", "update"}, LocksGrow(p, mode)
    PROVE  LocksTyped'
<1> SUFFICES ASSUME NEW l \in locks' PROVE l[1] \in Procs /\ l[3] \in {"share", "update"}
  BY DEF LocksTyped
<1>1. CASE l \in locks
  BY <1>1 DEF LocksTyped
<1>2. CASE l \notin locks
  <2>1. PICK row : l = <<p, row, mode>>
    BY <1>2 DEF LocksGrow
  <2>2. QED
    BY <2>1
<1>3. QED
  BY <1>1, <1>2

LEMMA OwnLocksTyped ==
    ASSUME IInv, LocksTyped, NEW p \in Procs,
           \/ LockRow(p) \/ StartDecisions(p) \/ StartAuthorityBatch(p) \/ Reserve(p)
           \/ CheckVersion(p) \/ WriteEnd(p) \/ WriteRows(p) \/ OpenChild(p) \/ FillChild(p)
           \/ CloseChild(p) \/ Complete(p)
    PROVE  LocksTyped'
<1>1. ASSUME NEW S, NEW mode \in {"share", "update"}, Lock(p, S, mode) PROVE LocksTyped'
  BY <1>1, LockGrows, GrowingLocksTyped
<1>2. CASE UNCHANGED locks
  BY <1>2 DEF LocksTyped
<1>3. CASE LockRow(p)
  <2>1. Shape /\ ProcOk(p)
    BY DEF IInv
  <2>2. StepOk(StepOf(p)) /\ StepOf(p).do = "lock"
    BY <1>3, <2>1, ReadyFacts DEF LockRow
  <2>3. StepOf(p).mode \in {"share", "update"}
    BY <2>2 DEF StepOk
  <2>4. UNCHANGED locks \/ Lock(p, {StepOf(p).row}, StepOf(p).mode)
    BY <1>3 DEF LockRow
  <2>5. QED
    BY <1>1, <1>2, <2>3, <2>4
<1>4. CASE Reserve(p)
  BY <1>1, <1>4 DEF Reserve
<1>5. CASE OpenChild(p)
  <2>1. UNCHANGED locks \/ \E S : Lock(p, S, "update")
    BY <1>5 DEF OpenChild
  <2>2. QED
    BY <1>1, <1>2, <2>1
<1>6. QED
  BY <1>2, <1>3, <1>4, <1>5 DEF StartDecisions, StartAuthorityBatch, CheckVersion, WriteEnd,
     WriteRows, FillChild, CloseChild, Complete

(* Who ends the relationship has found version 1 of it, which stands. *)
LEMMA EndingOnce ==
    ASSUME IInv, DInv, NEW p \in Procs, At(p, "commit"), ~txn[p].replay,
           "ended" \in txn[p].rows
    PROVE  relationship = 1
<1>1. Active(p) /\ ~At(p, "idle") /\ DueOk(p) /\ ProcOk(p)
  BY DEF Active, At, IInv, DInv
<1>2. VersionOk(p) /\ txn[p].script = <<>>
  BY <1>1 DEF DueOk, ProcOk, CommitOk
<1>3. PICK n : n = Len(txn[p].script)
  OBVIOUS
<1>4. n < 6 /\ n < 3
  BY <1>2, <1>3
<1>5. QED
  BY <1>2, <1>3, <1>4 DEF VersionOk

(* A step of p of which the others know nothing. *)
LEMMA OwnTyped ==
    ASSUME TInv, NEW p \in Procs, Stays(p), OthersKeep(p), LocksTyped',
           UNCHANGED access, UNCHANGED work
    PROVE  TInv'
<1>1. ASSUME NEW q \in Procs PROVE TxnTyped(q)'
  BY <1>1 DEF TInv, TxnTyped, Stays, OthersKeep
<1>2. QED
  BY <1>1 DEF TInv, GrantsTyped, access, work

LEMMA ServeTyped ==
    ASSUME IInv, DInv, TInv, NEW p \in Procs, Serve(p), ~Commit(p)
    PROVE  TInv'
<1>1. Shape /\ ProcOk(p) /\ LocksTyped
  BY DEF IInv, TInv
<1>2. CASE Decision(p)
  <2>1. Effect(p)
    BY <1>1, <1>2, AuthorizeEffect DEF Decision, ProcOk, DecisionOk
  <2>2. LocksTyped'
    BY <1>1, <2>1, GrowingLocksTyped DEF Effect
  <2>3. OthersKeep(p) /\ UNCHANGED access /\ UNCHANGED work
    BY <1>2, <2>1 DEF Effect, Decision, Authorize
  <2>4. QED
    BY <1>2, <2>2, <2>3, DecisionStays, OwnTyped
<1>3. CASE \/ LockRow(p) \/ StartDecisions(p) \/ StartAuthorityBatch(p) \/ Reserve(p)
           \/ CheckVersion(p) \/ WriteEnd(p) \/ WriteRows(p) \/ OpenChild(p) \/ FillChild(p)
           \/ CloseChild(p) \/ Complete(p)
  <2>1. OthersKeep(p) /\ UNCHANGED access
    BY <1>1, <1>3, OwnStepLeaves
  <2>2. UNCHANGED work
    BY <1>3 DEF LockRow, StartDecisions, StartAuthorityBatch, Reserve, CheckVersion, WriteEnd,
                WriteRows, OpenChild, FillChild, CloseChild, Complete
  <2>3. Stays(p)
    BY <1>1, <1>3, ScriptStepStays, ChildStepStays, BeginningStays
  <2>4. LocksTyped'
    BY <1>1, <1>3, OwnLocksTyped
  <2>5. QED
    BY <2>1, <2>2, <2>3, <2>4, OwnTyped
<1>4. QED
  BY <1>2, <1>3 DEF Serve

LEMMA FinishTyped ==
    ASSUME Shape, TInv, NEW p \in Procs, Release(p), Finish(p)
    PROVE  LocksTyped' /\ \A q \in Procs : TxnTyped(q)'
<1> DEFINE t == [Idle EXCEPT !.runs = txn[p].runs]
<1>1. LocksTyped'
  BY DEF TInv, LocksTyped, Release
<1>2. t.kind = None /\ t.scope = None
  BY DEF Idle
<1>3. txn' = [txn EXCEPT ![p] = t]
  BY DEF Finish
<1> HIDE DEF t
<1>4. ASSUME NEW q \in Procs PROVE TxnTyped(q)'
  BY <1>2, <1>3 DEF TInv, TxnTyped, Shape
<1>5. QED
  BY <1>1, <1>4

LEMMA CommitTyped ==
    ASSUME IInv, DInv, TInv, NEW p \in Procs, Commit(p)
    PROVE  TInv'
<1>1. /\ Shape /\ At(p, "commit") /\ Release(p) /\ Finish(p) /\ UNCHANGED <<grants, changes>>
      /\ relationship \in 1 .. 2
  BY DEF IInv, TInv, Commit
<1>2. relationship' \in 1 .. 2
  <2>1. CASE txn[p].replay \/ "ended" \notin txn[p].rows
    BY <1>1, <2>1 DEF Commit
  <2>2. CASE ~txn[p].replay /\ "ended" \in txn[p].rows
    <3>1. relationship = 1
      BY <1>1, <2>2, EndingOnce
    <3>2. QED
      BY <2>2, <3>1 DEF Commit
  <2>3. QED
    BY <2>1, <2>2
<1>3. QED
  BY <1>1, <1>2, FinishTyped DEF TInv, GrantsTyped

LEMMA BeginTyped ==
    ASSUME IInv, TInv, NEW p \in Procs, NEW request \in cast.requests[p], Begin(p, request)
    PROVE  TInv'
<1> DEFINE s == ReservationSpace(request.kind)
           t == [Idle EXCEPT !.pc = "next", !.key = request.key, !.kind = request.kind,
                             !.script = Script[request.kind], !.since = changes,
                             !.scope = s, !.runs = txn[p].runs + 1]
<1>1. Shape /\ cast \in Casts
  BY DEF IInv, TablesOk
<1>2. request.kind \in Kinds /\ s \in Spaces
  BY <1>1, CastAssumption, AccessAssumption, WorkAssumption DEF ReservationSpace
<1>3. txn' = [txn EXCEPT ![p] = t] /\ UNCHANGED <<access, locks, work>>
  BY DEF Begin
<1> HIDE DEF s
<1>4. t.kind = request.kind /\ t.scope = s
  BY DEF Idle
<1> HIDE DEF t
<1>5. ASSUME NEW q \in Procs PROVE TxnTyped(q)'
  BY <1>1, <1>2, <1>3, <1>4 DEF TInv, TxnTyped, Shape
<1>6. QED
  BY <1>3, <1>5 DEF TInv, LocksTyped, GrantsTyped, access, work

LEMMA AdministerTyped ==
    ASSUME IInv, AInv, DInv, TInv, Administer, UNCHANGED work
    PROVE  TInv'
<1>1. UNCHANGED <<locks, txn>> /\ changes' = changes + 1 /\ changes < MaxChanges
  BY DEF Administer, Archive, Enclose, Classify, Move, SetSpace, Revoke, Grant, SetGrant,
         Suspend, Promote, RetirePolicy, SetActor, Change
<1>2. changes' <= MaxChanges
  BY <1>1, AccessAssumption DEF DInv
<1>3. DOMAIN grants = Grants /\ GrantsTyped
  BY DEF AInv, GrantsOk, TInv
<1>4. GrantsTyped'
  <2>1. CASE \E g \in Grants : Revoke(g)
    BY <1>3, <2>1 DEF Revoke, SetGrant, GrantsTyped
  <2>2. CASE \E g \in Grants, s \in Spaces, r \in Relations : Grant(g, s, r)
    BY <1>3, <2>2 DEF Grant, SetGrant, GrantsTyped
  <2>3. CASE UNCHANGED grants
    BY <1>3, <2>3 DEF GrantsTyped
  <2>4. QED
    BY <2>1, <2>2, <2>3 DEF Administer, Archive, Enclose, Classify, Move, SetSpace, Suspend,
                            Promote, RetirePolicy, SetActor
<1>5. QED
  BY <1>1, <1>2, <1>4 DEF TInv, LocksTyped, TxnTyped, work

LEMMA NextTyped == IInv /\ AInv /\ DInv /\ TInv /\ [Next]_vars => TInv'
<1> SUFFICES ASSUME IInv, AInv, DInv, TInv, [Next]_vars PROVE TInv'
  OBVIOUS
<1>1. ASSUME NEW p \in Procs, NEW request \in cast.requests[p], Begin(p, request)
      PROVE  TInv'
  BY <1>1, BeginTyped
<1>2. ASSUME NEW p \in Procs, Serve(p)
      PROVE  TInv'
  BY <1>2, ServeTyped, CommitTyped
<1>3. ASSUME NEW p \in Procs, Refused(p) \/ Lost(p)
      PROVE  TInv'
  <2>1. Shape /\ Release(p) /\ Finish(p) /\ UNCHANGED <<access, work>>
    BY <1>3 DEF IInv, Refused, Lost, Rollback
  <2>2. QED
    BY <2>1, FinishTyped DEF TInv, GrantsTyped, access, work
<1>4. CASE Administer /\ UNCHANGED work
  BY <1>4, AdministerTyped
<1>5. CASE UNCHANGED vars
  BY <1>5 DEF TInv, LocksTyped, GrantsTyped, TxnTyped, vars, access, work
<1>6. QED
  BY <1>1, <1>2, <1>3, <1>4, <1>5 DEF Next

LEMMA InitTyped == Init => TInv
<1> SUFFICES ASSUME Init PROVE TInv
  OBVIOUS
<1>1. /\ cast \in Casts /\ grants = cast.grants /\ changes = MaxChanges - cast.budget
      /\ locks = {} /\ txn = [p \in Procs |-> Idle] /\ relationship = 1
  BY DEF Init
<1>2. cast.budget \in 0 .. MaxChanges /\ GrantsTyped
  BY <1>1, CastAssumption DEF GrantsTyped
<1>3. \A p \in Procs : TxnTyped(p)
  BY <1>1 DEF TxnTyped, Idle
<1>4. changes <= MaxChanges
  BY <1>1, <1>2, AccessAssumption
<1>5. QED
  BY <1>1, <1>2, <1>3, <1>4 DEF TInv, LocksTyped

(* The rows, the locks and the sessions are always what the tables and the *)
(* code can hold: no live Space is its own parent, a session is in a Space *)
(* or in none, and the relationship is ended at most once, however many    *)
(* commands and retries try to.                                            *)
THEOREM TypeCorrect == Spec => []TypeOK
<1>1. Init => TInv
  BY InitTyped
<1>2. IInv /\ AInv /\ DInv /\ TInv /\ [Next]_vars => TInv'
  BY NextTyped
<1>3. IInv /\ AInv /\ DInv /\ TInv => TypeOK
  <2> SUFFICES ASSUME IInv, AInv, DInv, TInv PROVE TypeOK
    OBVIOUS
  <2>1. /\ spaces \in [Spaces -> SpaceRecords] /\ commands \in [Keys -> Kinds \cup {None}]
        /\ actor \in [role : {"member", "admin"}, active : BOOLEAN, policy : BOOLEAN]
    BY DEF IInv, TablesOk
  <2>2. ASSUME NEW s \in Spaces, Live(s) PROVE spaces[s].parent # s
    <3>1. \E u \in {s} : spaces[u].parent \notin {s}
      BY <2>2 DEF AInv, Rooted, Live
    <3>2. QED
      BY <3>1
  <2>3. changes \in 0 .. MaxChanges
    BY AccessAssumption DEF DInv, TInv
  <2>4. QED
    BY <2>1, <2>2, <2>3 DEF TypeOK, SpaceRecords, TInv, LocksTyped, GrantsTyped, TxnTyped
<1>4. QED
  BY <1>1, <1>2, <1>3, AccountCommandsInvariance, AuthorityInvariance, DueInvariance, PTL
     DEF Spec

=============================================================================
