------------------------- MODULE TruthLedgerProofs -------------------------
(***************************************************************************)
(* Proofs about TruthLedger, for any number of requests, actors, keys and  *)
(* coordinates.  The argument: from the moment a command holds what it     *)
(* needs, nobody else can change what it checked.                          *)
(***************************************************************************)
EXTENDS TruthLedger, FiniteSetTheorems, TLAPS

(* A reservation is exclusive and still empty, a coordinate is locked by   *)
(* the command that works on it, and authority is held where it is used.   *)
HoldsReservation(p) ==
    txn[p].pc \in {"reserved", "locked", "ready"} =>
        keyHolder[txn[p].key] = p /\ commands[txn[p].key] = None

HoldsSlot(p) ==
    /\ txn[p].pc = "locked" => NeedsSlot(txn[p].body) /\ txn[p].body.kind # "claim.create"
    /\ txn[p].pc \in {"locked", "ready"} /\ NeedsSlot(txn[p].body) =>
           slotHolder[txn[p].body.coord] = p

HoldsAuthority(p) ==
    /\ \/ txn[p].pc \in {"admitted", "ready"}
       \/ txn[p].pc = "reserved" /\ txn[p].body.kind \in AdmittedFirst
       => txn[p].authority
    /\ txn[p].authority => txn[p].body.actor \in authorized

(* What a command checked is true until it commits.                        *)
StillTrue(p) ==
    /\ txn[p].pc \in {"locked", "ready"} /\ NeedsSlot(txn[p].body) =>
           SlotOpen(txn[p].body)
    /\ txn[p].pc = "ready" => Verified(txn[p].body)

(* Only proposals for objectives are withdrawn or reworked.                *)
Addressed(b) == b.kind \in {"objective.withdraw", "objective.rework"} =>
                    b.coord \in Objectives /\ \E x \in ClaimIds : b.claims = {x}

RequestsAreAddressed ==
    /\ \A k \in Keys : requests[k] # None => Addressed(requests[k])
    /\ \A p \in Procs : txn[p] # Idle => Addressed(txn[p].body)

LockInv == \A p \in Procs : HoldsReservation(p) /\ HoldsSlot(p) /\ HoldsAuthority(p)
CheckInv == \A p \in Procs : StillTrue(p)

Inv == TypeOK /\ RequestsAreAddressed /\ LockInv /\ CheckInv

-----------------------------------------------------------------------------
(* A process beyond idle runs a request. *)
LEMMA RunningTxn ==
    ASSUME TypeOK, NEW p \in Procs, txn[p].pc # "idle"
    PROVE  /\ txn[p] \in Running
           /\ txn[p].key \in Keys /\ txn[p].body \in Bodies
           /\ txn[p].body.coord \in Coordinates
           /\ txn[p].body.claims \in SUBSET ClaimIds
           /\ txn[p].body.actor \in Actors /\ txn[p].body.kind \in Kinds
           /\ txn[p].body.fact \in FactIds \cup {None}
<1>1. txn[p] \in Running  BY DEF TypeOK, Idle
<1>2. txn[p].key \in Keys /\ txn[p].body \in Bodies  BY <1>1 DEF Running
<1>. QED  BY <1>1, <1>2 DEF Bodies

(* Rows that are recorded, and rows that are free. *)
LEMMA ClaimKinds ==
    ASSUME TypeOK, NEW x \in ClaimIds
    PROVE  /\ claims[x].status # "none" => claims[x] \in ClaimRows
           /\ claims[x].coord # None => claims[x] \in ClaimRows
           /\ claims[x].status = "none" => claims[x] = NoClaim
BY DEF TypeOK, ClaimRows, NoClaim, ClaimStatuses

LEMMA FactKinds ==
    ASSUME TypeOK, NEW f \in FactIds
    PROVE  /\ facts[f].status # "none" => facts[f] \in FactRows
           /\ facts[f].coord # None => facts[f] \in FactRows
           /\ facts[f].status = "none" => facts[f] = NoFact
BY DEF TypeOK, FactRows, NoFact

LEMMA EndType ==
    ASSUME TypeOK, NEW p \in Procs, End(p)
    PROVE  /\ txn' \in [Procs -> Running \cup {Idle}]
           /\ keyHolder' \in [Keys -> Procs \cup {None}]
           /\ slotHolder' \in [Coordinates -> Procs \cup {None}]
BY DEF TypeOK, End

LEMMA CompleteType ==
    ASSUME TypeOK, NEW p \in Procs, txn[p].pc # "idle",
           NEW result \in Results, Complete(p, result)
    PROVE  /\ txn' \in [Procs -> Running \cup {Idle}]
           /\ keyHolder' \in [Keys -> Procs \cup {None}]
           /\ slotHolder' \in [Coordinates -> Procs \cup {None}]
           /\ authorized' \subseteq Actors
           /\ requests' \in [Keys -> Bodies \cup {None}]
           /\ commands' \in [Keys -> Records \cup {None}]
           /\ outbox' \in [Keys -> Seq(Results)]
<1>1. txn[p].key \in Keys /\ txn[p].body \in Bodies  BY RunningTxn
<1>2. End(p) /\ UNCHANGED <<authorized, requests>>  BY DEF Complete
<1>3. authorized' \subseteq Actors /\ requests' \in [Keys -> Bodies \cup {None}]
  BY <1>2 DEF TypeOK
<1>4. commands' \in [Keys -> Records \cup {None}]
  <2>1. [body |-> txn[p].body, result |-> result] \in Records  BY <1>1 DEF Records
  <2>. QED  BY <1>1, <2>1 DEF TypeOK, Complete
<1>5. outbox' \in [Keys -> Seq(Results)]
  <2>1. outbox[txn[p].key] \in Seq(Results)  BY <1>1 DEF TypeOK
  <2>2. Append(outbox[txn[p].key], result) \in Seq(Results)  BY <2>1
  <2>. QED  BY <1>1, <2>2 DEF TypeOK, Complete
<1>. QED  BY <1>2, <1>3, <1>4, <1>5, EndType

(* What a commit knows about the rows it changes. *)
LEMMA ReadyFacts ==
    ASSUME Inv, NEW p \in Procs, txn[p].pc = "ready"
    PROVE  /\ txn[p] \in Running
           /\ Verified(txn[p].body)
           /\ NeedsSlot(txn[p].body) => SlotOpen(txn[p].body)
           /\ commands[txn[p].key] = None
           /\ keyHolder[txn[p].key] = p
           /\ NeedsSlot(txn[p].body) => slotHolder[txn[p].body.coord] = p
           /\ txn[p].authority /\ txn[p].body.actor \in authorized
           /\ Addressed(txn[p].body)
<1>1. txn[p] \in Running /\ txn[p] # Idle  BY RunningTxn DEF Inv, Idle
<1>. QED  BY <1>1 DEF Inv, LockInv, CheckInv, HoldsReservation, HoldsSlot, HoldsAuthority,
             StillTrue, RequestsAreAddressed

LEMMA OpenRows ==
    ASSUME TypeOK, NEW c \in Coordinates, NEW x \in Open(c)
    PROVE  /\ x \in ClaimIds /\ claims[x] \in ClaimRows
           /\ claims[x].coord = c /\ claims[x].status = "proposed"
<1>1. x \in ClaimIds /\ claims[x].coord = c /\ claims[x].status = "proposed"
  BY DEF Open, ClaimsAt
<1>. QED  BY <1>1, ClaimKinds

LEMMA CurrentRows ==
    ASSUME TypeOK, NEW c \in Coordinates, NEW f \in Current(c)
    PROVE  /\ f \in FactIds /\ facts[f] \in FactRows
           /\ facts[f].coord = c /\ facts[f].status = "current"
<1>1. f \in FactIds /\ facts[f].coord = c /\ facts[f].status = "current"
  BY DEF Current
<1>. QED  BY <1>1, FactKinds

LEMMA CommitType ==
    ASSUME Inv, NEW p \in Procs, Commit(p)
    PROVE  TypeOK'
<1> DEFINE b == txn[p].body
           k == txn[p].key
<1>. TypeOK  BY DEF Inv
<1>1. txn[p].pc = "ready" /\ txn[p].pc # "idle"
  BY DEF Commit, CommitCreate, CommitWithdraw, CommitRework, CommitAccept,
         CommitSupersede, CommitRevoke, Ready
<1>2. /\ k \in Keys /\ b \in Bodies /\ b.coord \in Coordinates
      /\ b.claims \in SUBSET ClaimIds /\ b.actor \in Actors
  BY <1>1, RunningTxn
<1>3. Verified(b) /\ (NeedsSlot(b) => SlotOpen(b))  BY <1>1, ReadyFacts
<1>4. Proposal(p) \in ClaimRows  BY <1>2 DEF Proposal, ClaimRows, ClaimStatuses
<1>5. NewFact(p) \in FactRows  BY <1>2 DEF NewFact, FactRows
<1>6. CASE CommitCreate(p)
  <2>1. PICK x \in ClaimIds : /\ claims' = [claims EXCEPT ![x] = Proposal(p)]
                              /\ Complete(p, Result({x}, {}))
    BY <1>6 DEF CommitCreate
  <2>2. Result({x}, {}) \in Results  BY DEF Result, Results
  <2>3. claims' \in [ClaimIds -> ClaimRows \cup {NoClaim}]  BY <2>1, <1>4 DEF TypeOK
  <2>4. UNCHANGED <<facts, recoveries, lifecycle>>  BY <1>6 DEF CommitCreate
  <2>. QED  BY <1>1, <2>1, <2>2, <2>3, <2>4, CompleteType DEF TypeOK
<1>7. CASE CommitWithdraw(p)
  <2>1. PICK x \in b.claims : /\ claims' = [claims EXCEPT ![x].status = "rejected"]
                              /\ recoveries' = recoveries \cup {Link(x, None, k)}
                              /\ Complete(p, Result({x}, {}))
    BY <1>7 DEF CommitWithdraw
  <2>2. x \in Open(b.coord)  BY <1>3, <1>7, <2>1 DEF SlotOpen, NeedsSlot, CommitWithdraw, Ready
  <2>3. x \in ClaimIds /\ claims[x] \in ClaimRows  BY <1>2, <2>2, OpenRows
  <2>4. Result({x}, {}) \in Results  BY <2>3 DEF Result, Results
  <2>5. [claims[x] EXCEPT !.status = "rejected"] \in ClaimRows  BY <2>3 DEF ClaimRows, ClaimStatuses
  <2>6. claims' \in [ClaimIds -> ClaimRows \cup {NoClaim}]  BY <2>1, <2>3, <2>5 DEF TypeOK
  <2>7. Link(x, None, k) \in Links(ClaimIds)  BY <1>2, <2>3 DEF Link, Links
  <2>8. UNCHANGED <<facts, lifecycle>>  BY <1>7 DEF CommitWithdraw
  <2>. QED  BY <1>1, <2>1, <2>4, <2>6, <2>7, <2>8, CompleteType DEF TypeOK
<1>8. CASE CommitRework(p)
  <2>1. PICK x \in b.claims, y \in ClaimIds :
            /\ claims' = [claims EXCEPT ![x].status = "superseded", ![y] = Proposal(p)]
            /\ recoveries' = recoveries \cup {Link(x, y, k)}
            /\ Complete(p, Result({x, y}, {}))
    BY <1>8 DEF CommitRework
  <2>2. x \in Open(b.coord)  BY <1>3, <1>8, <2>1 DEF SlotOpen, NeedsSlot, CommitRework, Ready
  <2>3. x \in ClaimIds /\ claims[x] \in ClaimRows  BY <1>2, <2>2, OpenRows
  <2>4. Result({x, y}, {}) \in Results  BY <2>3 DEF Result, Results
  <2>5. [claims[x] EXCEPT !.status = "superseded"] \in ClaimRows
    BY <2>3 DEF ClaimRows, ClaimStatuses
  <2>6. claims' \in [ClaimIds -> ClaimRows \cup {NoClaim}]
    BY <2>1, <2>3, <2>5, <1>4 DEF TypeOK
  <2>7. Link(x, y, k) \in Links(ClaimIds)  BY <1>2, <2>3 DEF Link, Links
  <2>8. UNCHANGED <<facts, lifecycle>>  BY <1>8 DEF CommitRework
  <2>. QED  BY <1>1, <2>1, <2>4, <2>6, <2>7, <2>8, CompleteType DEF TypeOK
<1>9. ASSUME b.kind \in {"fact.accept", "fact.supersede"}
      PROVE  Accepted(b.claims) \in [ClaimIds -> ClaimRows \cup {NoClaim}]
  <2>1. b.claims \subseteq Open(b.coord)  BY <1>3, <1>9 DEF Verified
  <2>2. ASSUME NEW x \in b.claims  PROVE [claims[x] EXCEPT !.status = "accepted"] \in ClaimRows
    <3>1. claims[x] \in ClaimRows  BY <1>2, <2>1, <2>2, OpenRows
    <3>. QED  BY <3>1 DEF ClaimRows, ClaimStatuses
  <2>. QED  BY <2>2 DEF Accepted, TypeOK
<1>10. CASE CommitAccept(p)
  <2>1. PICK f \in FactIds : /\ facts' = [facts EXCEPT ![f] = NewFact(p)]
                             /\ claims' = Accepted(b.claims)
                             /\ Complete(p, Result({}, {f}))
    BY <1>10 DEF CommitAccept
  <2>2. b.kind = "fact.accept" /\ UNCHANGED <<recoveries, lifecycle>>
    BY <1>10 DEF CommitAccept, Ready
  <2>3. Result({}, {f}) \in Results  BY DEF Result, Results
  <2>4. facts' \in [FactIds -> FactRows \cup {NoFact}]  BY <1>5, <2>1 DEF TypeOK
  <2>5. claims' \in [ClaimIds -> ClaimRows \cup {NoClaim}]  BY <1>9, <2>1, <2>2
  <2>. QED  BY <1>1, <2>1, <2>2, <2>3, <2>4, <2>5, CompleteType DEF TypeOK
<1>11. ASSUME b.kind \in {"fact.supersede", "fact.revoke"},
              NEW status \in {"superseded", "revoked"}
       PROVE  b.fact \in FactIds /\ Retired(b.fact, status, k) \in FactRows
  <2>1. b.fact \in Current(b.coord)  BY <1>3, <1>11 DEF Verified
  <2>2. b.fact \in FactIds /\ facts[b.fact] \in FactRows  BY <1>2, <2>1, CurrentRows
  <2>. QED  BY <1>2, <2>2 DEF Retired, FactRows
<1>12. CASE CommitSupersede(p)
  <2>1. PICK g \in FactIds :
            /\ facts' = [facts EXCEPT ![b.fact] = Retired(b.fact, "superseded", k),
                                      ![g] = NewFact(p)]
            /\ claims' = Accepted(b.claims)
            /\ lifecycle' = lifecycle \cup {Link(b.fact, g, k)}
            /\ Complete(p, Result({}, {b.fact, g}))
    BY <1>12 DEF CommitSupersede
  <2>2. b.kind = "fact.supersede" /\ UNCHANGED recoveries
    BY <1>12 DEF CommitSupersede, Ready
  <2>3. b.fact \in FactIds /\ Retired(b.fact, "superseded", k) \in FactRows
    BY <1>11, <2>2
  <2>4. Result({}, {b.fact, g}) \in Results  BY <2>3 DEF Result, Results
  <2>5. facts' \in [FactIds -> FactRows \cup {NoFact}]  BY <1>5, <2>1, <2>3 DEF TypeOK
  <2>6. claims' \in [ClaimIds -> ClaimRows \cup {NoClaim}]  BY <1>9, <2>1, <2>2
  <2>7. Link(b.fact, g, k) \in Links(FactIds)  BY <1>2, <2>3 DEF Link, Links
  <2>. QED  BY <1>1, <2>1, <2>2, <2>4, <2>5, <2>6, <2>7, CompleteType DEF TypeOK
<1>13. CASE CommitRevoke(p)
  <2>1. /\ facts' = [facts EXCEPT ![b.fact] = Retired(b.fact, "revoked", k)]
        /\ lifecycle' = lifecycle \cup {Link(b.fact, None, k)}
        /\ Complete(p, Result({}, {b.fact}))
        /\ b.kind = "fact.revoke" /\ UNCHANGED <<claims, recoveries>>
    BY <1>13 DEF CommitRevoke, Ready
  <2>2. b.fact \in FactIds /\ Retired(b.fact, "revoked", k) \in FactRows
    BY <1>11, <2>1
  <2>3. Result({}, {b.fact}) \in Results  BY <2>2 DEF Result, Results
  <2>4. facts' \in [FactIds -> FactRows \cup {NoFact}]  BY <2>1, <2>2 DEF TypeOK
  <2>5. Link(b.fact, None, k) \in Links(FactIds)  BY <1>2, <2>2 DEF Link, Links
  <2>. QED  BY <1>1, <2>1, <2>3, <2>4, <2>5, CompleteType DEF TypeOK
<1>. QED  BY <1>6, <1>7, <1>8, <1>10, <1>12, <1>13 DEF Commit

(* The requests clients compose. *)
LEMMA DraftType ==
    ASSUME TypeOK, NEW u \in Actors, NEW c \in Coordinates, NEW b \in Drafts(u, c)
    PROVE  b \in Bodies /\ Addressed(b)
<1>1. Open(c) \subseteq ClaimIds /\ Current(c) \subseteq FactIds
  BY DEF Open, ClaimsAt, Current
<1>2. Generation(c) \in SUBSET (ClaimIds \X ClaimStatuses)
  <2>1. ASSUME NEW x \in Latest(c)  PROVE <<x, claims[x].status>> \in ClaimIds \X ClaimStatuses
    <3>1. x \in ClaimIds /\ claims[x].coord = c  BY <2>1 DEF Latest, ClaimsAt
    <3>2. claims[x].coord # None  BY <3>1, ConstantsAssumption
    <3>3. claims[x] \in ClaimRows  BY <3>1, <3>2, ClaimKinds
    <3>. QED  BY <3>1, <3>3 DEF ClaimRows
  <2>. QED  BY <2>1 DEF Generation
<1>3. b \in Bodies  BY <1>1, <1>2 DEF Drafts, Body, Bodies, Kinds
<1>4. Addressed(b)  BY <1>1 DEF Drafts, Body, Addressed
<1>. QED  BY <1>3, <1>4

(* The steps that write no row. *)
Step(p) ==
    \/ \E k, j \in Keys : Begin(p, k, j)
    \/ Admit(p)
    \/ Reserve(p)
    \/ SkipSlot(p)
    \/ LockSlot(p)
    \/ Verify(p)

Abort(p) == Replay(p) \/ Refuse(p) \/ Fail(p)

LEMMA NextCases ==
    ASSUME Next
    PROVE  \/ \E k \in Keys : Compose(k)
           \/ \E p \in Procs : Step(p) \/ Abort(p) \/ Commit(p)
           \/ \E u \in Actors : RevokeAuthority(u)
BY DEF Next, Step, Abort

LEMMA AbortIsRollback ==
    ASSUME NEW p \in Procs, Abort(p)
    PROVE  Rollback(p)
BY DEF Abort, Replay, Refuse, Fail

LEMMA StepRows ==
    ASSUME NEW p \in Procs, Step(p)
    PROVE  UNCHANGED <<rows, authorized, requests>>
BY DEF Step, Begin, Admit, Reserve, SkipSlot, LockSlot, Verify, held

LEMMA StepType ==
    ASSUME TypeOK, NEW p \in Procs, Step(p)
    PROVE  TypeOK'
<1>1. UNCHANGED <<rows, authorized, requests>>  BY StepRows
<1>2. /\ txn' \in [Procs -> Running \cup {Idle}]
      /\ keyHolder' \in [Keys -> Procs \cup {None}]
      /\ slotHolder' \in [Coordinates -> Procs \cup {None}]
  <2>1. CASE \E k, j \in Keys : Begin(p, k, j)
    <3>1. PICK k \in Keys, j \in Keys : Begin(p, k, j)  BY <2>1
    <3>2. requests[j] \in Bodies  BY <3>1 DEF Begin, TypeOK
    <3>3. [pc |-> "begun", key |-> k, body |-> requests[j], authority |-> FALSE] \in Running
      BY <3>2 DEF Running
    <3>. QED  BY <3>1, <3>3 DEF Begin, TypeOK, held
  <2>2. ASSUME txn[p].pc # "idle",
               NEW pc \in {"admitted", "reserved", "locked", "ready"}, NEW a \in BOOLEAN,
               \/ txn' = [txn EXCEPT ![p].pc = pc]
               \/ txn' = [txn EXCEPT ![p].pc = pc, ![p].authority = a]
        PROVE  txn' \in [Procs -> Running \cup {Idle}]
    <3>1. txn[p] \in Running  BY <2>2, RunningTxn
    <3>2. /\ [txn[p] EXCEPT !.pc = pc] \in Running
          /\ [txn[p] EXCEPT !.pc = pc, !.authority = a] \in Running
      BY <2>2, <3>1 DEF Running
    <3>. QED  BY <2>2, <3>2 DEF TypeOK
  <2>3. CASE Admit(p)
    <3>1. txn' \in [Procs -> Running \cup {Idle}]  BY <2>2, <2>3 DEF Admit
    <3>. QED  BY <2>3, <3>1 DEF Admit, TypeOK, held
  <2>4. CASE Reserve(p)
    <3>1. txn[p].pc # "idle"  BY <2>4 DEF Reserve, Reservable
    <3>2. txn' \in [Procs -> Running \cup {Idle}]  BY <2>2, <2>4, <3>1 DEF Reserve, GoTo
    <3>. QED  BY <2>4, <3>2 DEF Reserve, TypeOK
  <2>5. CASE SkipSlot(p)
    <3>1. txn' \in [Procs -> Running \cup {Idle}]  BY <2>2, <2>5 DEF SkipSlot, GoTo
    <3>. QED  BY <2>5, <3>1 DEF SkipSlot, TypeOK, held
  <2>6. CASE LockSlot(p)
    <3>1. txn' \in [Procs -> Running \cup {Idle}]
      <4>1. CASE txn[p].body.kind = "claim.create"  BY <2>2, <2>6, <4>1 DEF LockSlot, GoTo
      <4>2. CASE txn[p].body.kind # "claim.create"  BY <2>2, <2>6, <4>2 DEF LockSlot, GoTo
      <4>. QED  BY <4>1, <4>2
    <3>. QED  BY <2>6, <3>1 DEF LockSlot, TypeOK
  <2>7. CASE Verify(p)
    <3>1. txn' \in [Procs -> Running \cup {Idle}]  BY <2>2, <2>7 DEF Verify
    <3>. QED  BY <2>7, <3>1 DEF Verify, TypeOK, held
  <2>. QED  BY <2>1, <2>3, <2>4, <2>5, <2>6, <2>7 DEF Step
<1>. QED  BY <1>1, <1>2 DEF TypeOK, rows

LEMMA TypeStep ==
    ASSUME Inv, [Next]_vars
    PROVE  TypeOK'
<1>. TypeOK  BY DEF Inv
<1>1. CASE \E k \in Keys : Compose(k)
  <2>1. PICK k \in Keys, u \in Actors, c \in Coordinates :
            \E b \in Drafts(u, c) : requests' = [requests EXCEPT ![k] = b]
    BY <1>1 DEF Compose
  <2>2. PICK b \in Drafts(u, c) : requests' = [requests EXCEPT ![k] = b]  BY <2>1
  <2>3. b \in Bodies  BY DraftType
  <2>4. UNCHANGED <<rows, held, authorized, txn>>  BY <1>1 DEF Compose
  <2>. QED  BY <2>2, <2>3, <2>4 DEF TypeOK, rows, held
<1>2. ASSUME NEW p \in Procs, Step(p)  PROVE TypeOK'  BY <1>2, StepType
<1>3. ASSUME NEW p \in Procs, Abort(p)  PROVE TypeOK'
  <2>1. Rollback(p)  BY <1>3, AbortIsRollback
  <2>. QED  BY <2>1, EndType DEF Rollback, TypeOK, rows
<1>4. ASSUME NEW p \in Procs, Commit(p)  PROVE TypeOK'  BY <1>4, CommitType
<1>5. ASSUME NEW u \in Actors, RevokeAuthority(u)  PROVE TypeOK'
  BY <1>5 DEF RevokeAuthority, TypeOK, rows, held
<1>6. CASE UNCHANGED vars  BY <1>6 DEF vars, rows, held, TypeOK
<1>. QED  BY <1>1, <1>2, <1>3, <1>4, <1>5, <1>6, NextCases

-----------------------------------------------------------------------------
(* A step of p leaves the other transactions alone, keeps p's request, and *)
(* an end leaves p idle.                                                   *)
LEMMA CommitEnds ==
    ASSUME NEW p \in Procs, Commit(p)
    PROVE  \E result : Complete(p, result)
BY DEF Commit, CommitCreate, CommitWithdraw, CommitRework, CommitAccept,
       CommitSupersede, CommitRevoke

LEMMA CommitReady ==
    ASSUME NEW p \in Procs, Commit(p)
    PROVE  txn[p].pc = "ready" /\ End(p) /\ UNCHANGED <<authorized, requests>>
BY DEF Commit, CommitCreate, CommitWithdraw, CommitRework, CommitAccept,
       CommitSupersede, CommitRevoke, Ready, Complete

LEMMA OthersStay ==
    ASSUME TypeOK, NEW p \in Procs, Step(p) \/ End(p), NEW q \in Procs, q # p
    PROVE  txn'[q] = txn[q]
<1>1. CASE \E k, j \in Keys : Begin(p, k, j)  BY <1>1 DEF Begin, TypeOK
<1>. QED  BY <1>1 DEF Step, Admit, Reserve, SkipSlot, LockSlot, Verify, GoTo, End, TypeOK

LEMMA EndIdles ==
    ASSUME TypeOK, NEW p \in Procs, End(p)
    PROVE  /\ txn'[p] = Idle
           /\ \A k \in Keys : keyHolder[k] # p => keyHolder'[k] = keyHolder[k]
           /\ \A c \in Coordinates : slotHolder[c] # p => slotHolder'[c] = slotHolder[c]
BY DEF End, TypeOK

LEMMA AddressStep ==
    ASSUME Inv, [Next]_vars
    PROVE  RequestsAreAddressed'
<1>. TypeOK /\ TypeOK' /\ RequestsAreAddressed  BY TypeStep DEF Inv
<1>1. CASE \E k \in Keys : Compose(k)
  <2>1. PICK k \in Keys, u \in Actors, c \in Coordinates :
            \E b \in Drafts(u, c) : requests' = [requests EXCEPT ![k] = b]
    BY <1>1 DEF Compose
  <2>2. PICK b \in Drafts(u, c) : requests' = [requests EXCEPT ![k] = b]  BY <2>1
  <2>3. Addressed(b)  BY DraftType
  <2>4. txn' = txn  BY <1>1 DEF Compose
  <2>5. ASSUME NEW j \in Keys, requests'[j] # None  PROVE Addressed(requests'[j])
    BY <2>2, <2>3, <2>5 DEF TypeOK, RequestsAreAddressed
  <2>. QED  BY <2>4, <2>5 DEF RequestsAreAddressed, Addressed
<1>2. ASSUME NEW p \in Procs, Step(p)  PROVE RequestsAreAddressed'
  <2>1. requests' = requests  BY <1>2, StepRows
  <2>2. ASSUME NEW q \in Procs, txn'[q] # Idle  PROVE Addressed(txn'[q].body)
    <3>1. CASE q # p  BY <1>2, <2>2, <3>1, OthersStay DEF RequestsAreAddressed
    <3>2. CASE q = p /\ \E k, j \in Keys : Begin(p, k, j)
      <4>1. PICK k \in Keys, j \in Keys : Begin(p, k, j)  BY <3>2
      <4>2. txn'[p].body = requests[j] /\ requests[j] # None  BY <4>1 DEF Begin, TypeOK
      <4>. QED  BY <3>2, <4>2 DEF RequestsAreAddressed
    <3>3. CASE q = p /\ ~(\E k, j \in Keys : Begin(p, k, j))
      <4>1. txn[p].pc # "idle"
        BY <1>2, <3>3 DEF Step, Admit, Reserve, Reservable, SkipSlot, LockSlot, Verify
      <4>2. txn[p] \in Running  BY <4>1, RunningTxn
      <4>3. txn'[p].body = txn[p].body
        BY <1>2, <3>3, <4>2
        DEF Step, Admit, Reserve, SkipSlot, LockSlot, Verify, GoTo, TypeOK, Running
      <4>. QED  BY <3>3, <4>1, <4>3 DEF RequestsAreAddressed, Idle
    <3>. QED  BY <3>1, <3>2, <3>3
  <2>. QED  BY <2>1, <2>2 DEF RequestsAreAddressed, Addressed
<1>3. ASSUME NEW p \in Procs, End(p), requests' = requests  PROVE RequestsAreAddressed'
  <2>1. ASSUME NEW q \in Procs, txn'[q] # Idle  PROVE Addressed(txn'[q].body)
    BY <1>3, <2>1, OthersStay, EndIdles DEF RequestsAreAddressed
  <2>. QED  BY <1>3, <2>1 DEF RequestsAreAddressed, Addressed
<1>4. ASSUME NEW p \in Procs, Abort(p) \/ Commit(p)  PROVE RequestsAreAddressed'
  BY <1>3, <1>4, AbortIsRollback, CommitReady DEF Rollback
<1>5. CASE (\E u \in Actors : RevokeAuthority(u)) \/ UNCHANGED vars
  <2>1. requests' = requests /\ txn' = txn  BY <1>5 DEF RevokeAuthority, vars
  <2>. QED  BY <2>1 DEF RequestsAreAddressed, Addressed
<1>. QED  BY <1>1, <1>2, <1>4, <1>5, NextCases

(* Locks and authority stay with whoever holds them.                       *)
LockInvOf(q) == HoldsReservation(q) /\ HoldsSlot(q) /\ HoldsAuthority(q)

LEMMA EndLocks ==
    ASSUME Inv, NEW p \in Procs, End(p), authorized' = authorized,
           \A k \in Keys : commands'[k] = commands[k] \/ keyHolder[k] = p,
           NEW q \in Procs
    PROVE  LockInvOf(q)'
<1>. TypeOK /\ LockInvOf(q)  BY DEF Inv, LockInv, LockInvOf
<1>1. CASE q = p  BY <1>1, EndIdles DEF Idle, LockInvOf, HoldsReservation, HoldsSlot, HoldsAuthority
<1>2. CASE q # p
  <2>1. txn'[q] = txn[q]  BY <1>2, OthersStay
  <2>2. HoldsReservation(q)'
    <3>1. SUFFICES ASSUME txn[q].pc \in {"reserved", "locked", "ready"}
                   PROVE  keyHolder'[txn[q].key] = q /\ commands'[txn[q].key] = None
      BY <2>1 DEF HoldsReservation
    <3>2. txn[q].key \in Keys  BY <3>1, RunningTxn
    <3>3. keyHolder[txn[q].key] = q /\ commands[txn[q].key] = None
      BY <3>1 DEF LockInvOf, HoldsReservation
    <3>. QED  BY <1>2, <3>2, <3>3, EndIdles
  <2>3. HoldsSlot(q)'
    <3>1. SUFFICES ASSUME txn[q].pc \in {"locked", "ready"}, NeedsSlot(txn[q].body)
                   PROVE  slotHolder'[txn[q].body.coord] = q
      BY <2>1 DEF LockInvOf, HoldsSlot, NeedsSlot
    <3>2. txn[q].body.coord \in Coordinates  BY <3>1, RunningTxn
    <3>. QED  BY <1>2, <3>1, <3>2, EndIdles DEF LockInvOf, HoldsSlot
  <2>4. HoldsAuthority(q)'  BY <2>1 DEF LockInvOf, HoldsAuthority
  <2>. QED  BY <2>2, <2>3, <2>4 DEF LockInvOf
<1>. QED  BY <1>1, <1>2

LEMMA StepLocks ==
    ASSUME Inv, NEW p \in Procs, Step(p), NEW q \in Procs
    PROVE  LockInvOf(q)'
<1>. TypeOK /\ LockInvOf(q) /\ LockInvOf(p)  BY DEF Inv, LockInv, LockInvOf
<1>1. commands' = commands /\ authorized' = authorized  BY StepRows DEF rows
<1>2. CASE q # p
  <2>1. txn'[q] = txn[q]  BY <1>2, OthersStay
  <2>2. ASSUME txn[q].pc \in {"reserved", "locked", "ready"}
        PROVE  keyHolder'[txn[q].key] = q
    <3>1. txn[q].key \in Keys  BY <2>2, RunningTxn
    <3>2. keyHolder[txn[q].key] = q  BY <2>2 DEF LockInvOf, HoldsReservation
    <3>. QED  BY <3>1, <3>2, ConstantsAssumption
         DEF Step, Begin, Admit, Reserve, SkipSlot, LockSlot, Verify, held, TypeOK
  <2>3. ASSUME txn[q].pc \in {"locked", "ready"}, NeedsSlot(txn[q].body)
        PROVE  slotHolder'[txn[q].body.coord] = q
    <3>1. txn[q].body.coord \in Coordinates  BY <2>3, RunningTxn
    <3>2. slotHolder[txn[q].body.coord] = q  BY <2>3 DEF LockInvOf, HoldsSlot
    <3>. QED  BY <3>1, <3>2, ConstantsAssumption
         DEF Step, Begin, Admit, Reserve, SkipSlot, LockSlot, Verify, held, TypeOK
  <2>. QED  BY <1>1, <2>1, <2>2, <2>3
       DEF LockInvOf, HoldsReservation, HoldsSlot, HoldsAuthority, NeedsSlot
<1>3. CASE q = p /\ \E k, j \in Keys : Begin(p, k, j)
  <2>1. txn'[p].pc = "begun" /\ txn'[p].authority = FALSE  BY <1>3 DEF Begin, TypeOK
  <2>. QED  BY <1>3, <2>1 DEF LockInvOf, HoldsReservation, HoldsSlot, HoldsAuthority
<1>4. CASE q = p /\ Admit(p)
  <2>1. txn'[p] = [txn[p] EXCEPT !.pc = "admitted", !.authority = TRUE]
    BY <1>4 DEF Admit, TypeOK
  <2>2. txn[p] \in Running  BY <1>4, RunningTxn DEF Admit
  <2>3. txn'[p].pc = "admitted" /\ txn'[p].body = txn[p].body /\ txn'[p].authority = TRUE
    BY <2>1, <2>2 DEF Running
  <2>4. txn[p].body.actor \in authorized  BY <1>4 DEF Admit, Permitted
  <2>. QED  BY <1>1, <1>4, <2>3, <2>4 DEF LockInvOf, HoldsReservation, HoldsSlot, HoldsAuthority
<1>5. CASE q = p /\ Reserve(p)
  <2>1. txn[p] \in Running  BY <1>5, RunningTxn DEF Reserve, Reservable
  <2>2. /\ txn'[p].pc = "reserved" /\ txn'[p].body = txn[p].body /\ txn'[p].key = txn[p].key
        /\ txn'[p].authority = txn[p].authority
    BY <1>5, <2>1 DEF Reserve, GoTo, TypeOK, Running
  <2>3. keyHolder'[txn[p].key] = p /\ commands[txn[p].key] = None
    BY <1>5, <2>1 DEF Reserve, TypeOK, Running
  <2>4. txn[p].body.kind \in AdmittedFirst => txn[p].authority
    BY <1>5 DEF Reserve, Reservable, LockInvOf, HoldsAuthority
  <2>. QED  BY <1>1, <1>5, <2>2, <2>3, <2>4
       DEF LockInvOf, HoldsReservation, HoldsSlot, HoldsAuthority
<1>6. CASE q = p /\ SkipSlot(p)
  <2>1. txn[p] \in Running  BY <1>6, RunningTxn DEF SkipSlot
  <2>2. /\ txn'[p].pc = "ready" /\ txn'[p].body = txn[p].body /\ txn'[p].key = txn[p].key
        /\ txn'[p].authority = txn[p].authority /\ keyHolder' = keyHolder
    BY <1>6, <2>1 DEF SkipSlot, GoTo, TypeOK, Running, held
  <2>3. ~NeedsSlot(txn[p].body) /\ txn[p].body.kind \in AdmittedFirst /\ txn[p].pc = "reserved"
    BY <1>6 DEF SkipSlot, NeedsSlot, AdmittedFirst
  <2>. QED  BY <1>1, <1>6, <2>2, <2>3
       DEF LockInvOf, HoldsReservation, HoldsSlot, HoldsAuthority, NeedsSlot
<1>7. CASE q = p /\ LockSlot(p)
  <2>1. txn[p] \in Running /\ txn[p].body.coord \in Coordinates  BY <1>7, RunningTxn DEF LockSlot
  <2>2. /\ txn'[p].pc = IF txn[p].body.kind = "claim.create" THEN "ready" ELSE "locked"
        /\ txn'[p].body = txn[p].body /\ txn'[p].key = txn[p].key
        /\ txn'[p].authority = txn[p].authority /\ keyHolder' = keyHolder
    BY <1>7, <2>1 DEF LockSlot, GoTo, TypeOK, Running
  <2>3. slotHolder'[txn[p].body.coord] = p /\ txn[p].pc = "reserved" /\ NeedsSlot(txn[p].body)
    BY <1>7, <2>1 DEF LockSlot, TypeOK
  <2>4. txn[p].body.kind = "claim.create" => txn[p].authority
    BY <2>3 DEF LockInvOf, HoldsAuthority, AdmittedFirst
  <2>. QED  BY <1>1, <1>7, <2>2, <2>3, <2>4
       DEF LockInvOf, HoldsReservation, HoldsSlot, HoldsAuthority, NeedsSlot
<1>8. CASE q = p /\ Verify(p)
  <2>1. txn[p] \in Running  BY <1>8, RunningTxn DEF Verify
  <2>2. /\ txn'[p].pc = "ready" /\ txn'[p].body = txn[p].body /\ txn'[p].key = txn[p].key
        /\ txn'[p].authority = TRUE /\ keyHolder' = keyHolder /\ slotHolder' = slotHolder
        /\ txn[p].body.actor \in authorized /\ txn[p].pc = "locked"
    BY <1>8, <2>1 DEF Verify, Permitted, TypeOK, Running, held
  <2>. QED  BY <1>1, <1>8, <2>2
       DEF LockInvOf, HoldsReservation, HoldsSlot, HoldsAuthority, NeedsSlot
<1>. QED  BY <1>2, <1>3, <1>4, <1>5, <1>6, <1>7, <1>8 DEF Step

LEMMA LockStep ==
    ASSUME Inv, [Next]_vars
    PROVE  LockInv'
<1>. TypeOK /\ LockInv  BY DEF Inv
<1>. SUFFICES ASSUME NEW q \in Procs  PROVE LockInvOf(q)'  BY DEF LockInv, LockInvOf
<1>1. ASSUME NEW p \in Procs, Step(p)  PROVE LockInvOf(q)'  BY <1>1, StepLocks
<1>2. ASSUME NEW p \in Procs, Abort(p)  PROVE LockInvOf(q)'
  BY <1>2, AbortIsRollback, EndLocks DEF Rollback, rows
<1>3. ASSUME NEW p \in Procs, Commit(p)  PROVE LockInvOf(q)'
  <2>1. PICK result : Complete(p, result)  BY <1>3, CommitEnds
  <2>2. keyHolder[txn[p].key] = p  BY <1>3, CommitReady, ReadyFacts
  <2>3. \A k \in Keys : commands'[k] = commands[k] \/ keyHolder[k] = p
    BY <2>1, <2>2 DEF Complete, TypeOK
  <2>. QED  BY <2>3, <1>3, CommitReady, EndLocks
<1>4. CASE (\E k \in Keys : Compose(k)) \/ UNCHANGED vars
  <2>1. UNCHANGED <<rows, held, authorized, txn>>  BY <1>4 DEF Compose, vars
  <2>. QED  BY <2>1 DEF rows, held, LockInv, LockInvOf, HoldsReservation, HoldsSlot,
                       HoldsAuthority, NeedsSlot
<1>5. ASSUME NEW u \in Actors, RevokeAuthority(u)  PROVE LockInvOf(q)'
  <2>1. UNCHANGED <<commands, keyHolder, slotHolder, txn>>  BY <1>5 DEF RevokeAuthority, rows, held
  <2>2. txn[q].authority => txn[q].body.actor \in authorized'
    BY <1>5 DEF RevokeAuthority, LockInv, HoldsAuthority
  <2>. QED  BY <2>1, <2>2 DEF LockInv, LockInvOf, HoldsReservation, HoldsSlot,
                             HoldsAuthority, NeedsSlot
<1>. QED  BY <1>1, <1>2, <1>3, <1>4, <1>5, NextCases

-----------------------------------------------------------------------------
(* A commit leaves every coordinate but its own as it is.                  *)
Untouched(d) ==
    /\ \A x \in ClaimIds : claims[x].coord = d \/ claims'[x].coord = d => claims'[x] = claims[x]
    /\ \A f \in FactIds : facts[f].coord = d \/ facts'[f].coord = d => facts'[f] = facts[f]

LEMMA UntouchedSets ==
    ASSUME NEW d, Untouched(d)
    PROVE  /\ Open(d)' = Open(d)
           /\ Current(d)' = Current(d)
           /\ Generation(d)' = Generation(d)
<1>1. ClaimsAt(d)' = ClaimsAt(d)  BY DEF Untouched, ClaimsAt
<1>2. \A x \in ClaimsAt(d) : claims'[x] = claims[x]  BY DEF Untouched, ClaimsAt
<1>3. Open(d)' = Open(d)  BY <1>1, <1>2 DEF Open
<1>4. Current(d)' = Current(d)  BY DEF Untouched, Current
<1>5. Latest(d)' = Latest(d)  BY <1>1 DEF Latest
<1>6. Latest(d) \subseteq ClaimsAt(d)  BY DEF Latest
<1>7. Generation(d)' = Generation(d)  BY <1>2, <1>5, <1>6 DEF Generation
<1>. QED  BY <1>3, <1>4, <1>7

LEMMA UntouchedChecks ==
    ASSUME NEW b, Untouched(b.coord)
    PROVE  /\ SlotOpen(b)' <=> SlotOpen(b)
           /\ Verified(b)' <=> Verified(b)
BY UntouchedSets DEF SlotOpen, Verified

LEMMA CommitCoordinate ==
    ASSUME Inv, NEW p \in Procs, Commit(p), NEW d \in Coordinates, d # txn[p].body.coord
    PROVE  Untouched(d)
<1> DEFINE b == txn[p].body
<1>. TypeOK  BY DEF Inv
<1>1. txn[p].pc = "ready"  BY CommitReady
<1>2. /\ b.coord \in Coordinates /\ b.claims \in SUBSET ClaimIds
      /\ Verified(b) /\ (NeedsSlot(b) => SlotOpen(b))
  BY <1>1, RunningTxn, ReadyFacts
<1>3. Proposal(p).coord = b.coord /\ NewFact(p).coord = b.coord  BY DEF Proposal, NewFact
<1>4. d # None  BY ConstantsAssumption
<1>5. ASSUME NEW x \in ClaimIds, Fresh(x, claims, ClaimIds)  PROVE claims[x].coord # d
  BY <1>4, <1>5, ClaimKinds DEF Fresh, NoClaim
<1>6. ASSUME NEW f \in FactIds, Fresh(f, facts, FactIds)  PROVE facts[f].coord # d
  BY <1>4, <1>6, FactKinds DEF Fresh, NoFact
<1>7. CASE CommitCreate(p)
  <2>1. PICK x \in ClaimIds : /\ Fresh(x, claims, ClaimIds)
                              /\ claims' = [claims EXCEPT ![x] = Proposal(p)]
    BY <1>7 DEF CommitCreate
  <2>2. facts' = facts  BY <1>7 DEF CommitCreate
  <2>. QED  BY <1>3, <1>5, <2>1, <2>2 DEF Untouched, TypeOK
<1>8. CASE CommitWithdraw(p)
  <2>1. PICK x \in b.claims : claims' = [claims EXCEPT ![x].status = "rejected"]
    BY <1>8 DEF CommitWithdraw
  <2>2. x \in Open(b.coord)  BY <1>2, <1>8, <2>1 DEF SlotOpen, NeedsSlot, CommitWithdraw, Ready
  <2>3. claims[x].coord = b.coord /\ claims[x] \in ClaimRows  BY <1>2, <2>2, OpenRows
  <2>4. [claims[x] EXCEPT !.status = "rejected"].coord = b.coord  BY <2>3 DEF ClaimRows
  <2>5. facts' = facts  BY <1>8 DEF CommitWithdraw
  <2>. QED  BY <1>2, <2>1, <2>3, <2>4, <2>5 DEF Untouched, TypeOK
<1>9. CASE CommitRework(p)
  <2>1. PICK x \in b.claims, y \in ClaimIds :
            /\ Fresh(y, claims, ClaimIds)
            /\ claims' = [claims EXCEPT ![x].status = "superseded", ![y] = Proposal(p)]
    BY <1>9 DEF CommitRework
  <2>2. x \in Open(b.coord)  BY <1>2, <1>9, <2>1 DEF SlotOpen, NeedsSlot, CommitRework, Ready
  <2>3. claims[x].coord = b.coord /\ claims[x] \in ClaimRows  BY <1>2, <2>2, OpenRows
  <2>4. [claims[x] EXCEPT !.status = "superseded"].coord = b.coord  BY <2>3 DEF ClaimRows
  <2>5. facts' = facts  BY <1>9 DEF CommitRework
  <2>. QED  BY <1>2, <1>3, <1>5, <2>1, <2>3, <2>4, <2>5 DEF Untouched, TypeOK
<1>10. ASSUME b.kind \in {"fact.accept", "fact.supersede"}, claims' = Accepted(b.claims)
       PROVE  \A x \in ClaimIds : claims[x].coord = d \/ claims'[x].coord = d
                                      => claims'[x] = claims[x]
  <2>1. b.claims \subseteq Open(b.coord)  BY <1>2, <1>10 DEF Verified
  <2>2. ASSUME NEW x \in b.claims
        PROVE  claims[x].coord = b.coord /\ claims'[x].coord = b.coord
    <3>1. x \in ClaimIds /\ claims[x] \in ClaimRows /\ claims[x].coord = b.coord
      BY <1>2, <2>1, <2>2, OpenRows
    <3>2. claims'[x] = [claims[x] EXCEPT !.status = "accepted"]  BY <1>10, <2>2, <3>1 DEF Accepted
    <3>. QED  BY <3>1, <3>2 DEF ClaimRows
  <2>. QED  BY <1>10, <2>2 DEF Accepted
<1>11. CASE CommitAccept(p)
  <2>1. PICK f \in FactIds : /\ Fresh(f, facts, FactIds)
                             /\ facts' = [facts EXCEPT ![f] = NewFact(p)]
    BY <1>11 DEF CommitAccept
  <2>2. claims' = Accepted(b.claims) /\ b.kind = "fact.accept"
    BY <1>11 DEF CommitAccept, Ready
  <2>. QED  BY <1>3, <1>6, <1>10, <2>1, <2>2 DEF Untouched, TypeOK
<1>12. ASSUME b.kind \in {"fact.supersede", "fact.revoke"},
              NEW status \in {"superseded", "revoked"}
       PROVE  /\ b.fact \in FactIds /\ facts[b.fact].coord = b.coord
              /\ Retired(b.fact, status, txn[p].key).coord = b.coord
  <2>1. b.fact \in Current(b.coord)  BY <1>2, <1>12 DEF Verified
  <2>2. b.fact \in FactIds /\ facts[b.fact] \in FactRows /\ facts[b.fact].coord = b.coord
    BY <1>2, <2>1, CurrentRows
  <2>. QED  BY <2>2 DEF Retired, FactRows
<1>13. CASE CommitSupersede(p)
  <2>1. PICK g \in FactIds :
            /\ Fresh(g, facts, FactIds)
            /\ facts' = [facts EXCEPT ![b.fact] = Retired(b.fact, "superseded", txn[p].key),
                                      ![g] = NewFact(p)]
    BY <1>13 DEF CommitSupersede
  <2>2. claims' = Accepted(b.claims) /\ b.kind = "fact.supersede"
    BY <1>13 DEF CommitSupersede, Ready
  <2>. QED  BY <1>3, <1>6, <1>10, <1>12, <2>1, <2>2 DEF Untouched, TypeOK
<1>14. CASE CommitRevoke(p)
  <2>1. facts' = [facts EXCEPT ![b.fact] = Retired(b.fact, "revoked", txn[p].key)]
    BY <1>14 DEF CommitRevoke
  <2>2. claims' = claims /\ b.kind = "fact.revoke"  BY <1>14 DEF CommitRevoke, Ready
  <2>. QED  BY <1>12, <2>1, <2>2 DEF Untouched, TypeOK
<1>. QED  BY <1>7, <1>8, <1>9, <1>11, <1>13, <1>14 DEF Commit

(* A claim about an outcome is added without the lock of its coordinate:   *)
(* it takes no open proposal and no current fact away.                     *)
LEMMA CreateAdds ==
    ASSUME TypeOK, NEW p \in Procs, CommitCreate(p), NEW d
    PROVE  Open(d) \subseteq Open(d)' /\ Current(d)' = Current(d)
<1>1. PICK x \in ClaimIds : /\ Fresh(x, claims, ClaimIds)
                            /\ claims' = [claims EXCEPT ![x] = Proposal(p)]
  BY DEF CommitCreate
<1>2. facts' = facts  BY DEF CommitCreate
<1>3. \A y \in ClaimIds : claims[y].status = "proposed" => claims'[y] = claims[y]
  BY <1>1 DEF Fresh, TypeOK
<1>. QED  BY <1>2, <1>3 DEF Open, ClaimsAt, Current

LEMMA CommitKeepsChecks ==
    ASSUME Inv, NEW p \in Procs, Commit(p), NEW q \in Procs
    PROVE  StillTrue(q)'
<1>. TypeOK  BY DEF Inv
<1>1. CASE q = p  BY <1>1, CommitReady, EndIdles DEF StillTrue, Idle
<1>2. CASE q # p
  <2> DEFINE b == txn[q].body
  <2>1. txn'[q] = txn[q]  BY <1>2, CommitReady, OthersStay
  <2>2. SUFFICES ASSUME txn[q].pc \in {"locked", "ready"}
                 PROVE  /\ NeedsSlot(b) => SlotOpen(b)'
                        /\ txn[q].pc = "ready" => Verified(b)'
    BY <2>1 DEF StillTrue, NeedsSlot
  <2>3. /\ NeedsSlot(b) => SlotOpen(b) /\ slotHolder[b.coord] = q
        /\ txn[q].pc = "ready" => Verified(b)
        /\ b.coord \in Coordinates
    BY <2>2, RunningTxn DEF Inv, LockInv, CheckInv, HoldsSlot, StillTrue
  <2>4. CASE b.coord # txn[p].body.coord
    <3>1. Untouched(b.coord)  BY <2>3, <2>4, CommitCoordinate
    <3>. QED  BY <2>1, <2>3, <3>1, UntouchedChecks
  <2>5. CASE b.coord = txn[p].body.coord /\ ~NeedsSlot(b)
    <3>1. Verified(b)'  BY <2>1, <2>5 DEF NeedsSlot, Verified
    <3>. QED  BY <2>5, <3>1
  <2>6. CASE b.coord = txn[p].body.coord /\ NeedsSlot(b)
    <3>1. ~NeedsSlot(txn[p].body)  BY <1>2, <2>3, <2>6, CommitReady, ReadyFacts
    <3>2. CommitCreate(p) /\ b.coord \in Outcomes
      BY <2>6, <3>1 DEF NeedsSlot, Commit, CommitCreate, CommitWithdraw, CommitRework,
                       CommitAccept, CommitSupersede, CommitRevoke, Ready
    <3>3. b.coord \notin Objectives /\ b.kind # "claim.create"
      BY <2>6, <3>2, ConstantsAssumption DEF NeedsSlot
    <3>4. Open(b.coord) \subseteq Open(b.coord)' /\ Current(b.coord)' = Current(b.coord)
      BY <2>1, <3>2, CreateAdds
    <3>. QED  BY <2>1, <2>3, <2>6, <3>3, <3>4 DEF SlotOpen, Verified
  <2>. QED  BY <2>4, <2>5, <2>6
<1>. QED  BY <1>1, <1>2

LEMMA SameRows ==
    ASSUME UNCHANGED <<claims, facts>>, NEW b
    PROVE  (SlotOpen(b)' <=> SlotOpen(b)) /\ (Verified(b)' <=> Verified(b))
<1>1. Untouched(b.coord)  BY DEF Untouched
<1>. QED  BY <1>1, UntouchedChecks

LEMMA StepChecks ==
    ASSUME Inv, NEW p \in Procs, Step(p), NEW q \in Procs
    PROVE  StillTrue(q)'
<1>. TypeOK /\ StillTrue(q)  BY DEF Inv, CheckInv
<1>1. UNCHANGED <<claims, facts>>  BY StepRows DEF rows
<1>2. CASE txn'[q] = txn[q]  BY <1>1, <1>2, SameRows DEF StillTrue, NeedsSlot
<1>3. CASE q = p /\ \E k, j \in Keys : Begin(p, k, j)
  <2>1. txn'[p].pc = "begun"  BY <1>3 DEF Begin, TypeOK
  <2>. QED  BY <1>3, <2>1 DEF StillTrue
<1>4. CASE q = p /\ (Admit(p) \/ Reserve(p))
  <2>1. txn[p] \in Running  BY <1>4, RunningTxn DEF Admit, Reserve, Reservable
  <2>2. txn'[p].pc \in {"admitted", "reserved"}
    BY <1>4, <2>1 DEF Admit, Reserve, GoTo, TypeOK, Running
  <2>. QED  BY <1>4, <2>2 DEF StillTrue
<1>5. CASE q = p /\ (SkipSlot(p) \/ LockSlot(p))
  <2>1. txn[p] \in Running  BY <1>5, RunningTxn DEF SkipSlot, LockSlot
  <2>2. /\ txn'[p].body = txn[p].body
        /\ txn'[p].pc = "ready" => txn[p].body.kind = "claim.create"
        /\ NeedsSlot(txn[p].body) => SlotOpen(txn[p].body)
    BY <1>5, <2>1 DEF SkipSlot, LockSlot, GoTo, NeedsSlot, TypeOK, Running
  <2>3. txn[p].body.kind = "claim.create" => Verified(txn[p].body)'
    BY <2>2 DEF Verified
  <2>. QED  BY <1>1, <1>5, <2>2, <2>3, SameRows DEF StillTrue, NeedsSlot
<1>6. CASE q = p /\ Verify(p)
  <2>1. txn[p] \in Running /\ txn[p].pc = "locked"  BY <1>6, RunningTxn DEF Verify
  <2>2. txn'[p].body = txn[p].body /\ Verified(txn[p].body)
    BY <1>6, <2>1 DEF Verify, TypeOK, Running
  <2>3. NeedsSlot(txn[p].body) => SlotOpen(txn[p].body)  BY <1>6, <2>1 DEF StillTrue
  <2>. QED  BY <1>1, <1>6, <2>2, <2>3, SameRows DEF StillTrue, NeedsSlot
<1>. QED  BY <1>2, <1>3, <1>4, <1>5, <1>6, OthersStay DEF Step

LEMMA CheckStep ==
    ASSUME Inv, [Next]_vars
    PROVE  CheckInv'
<1>. TypeOK /\ CheckInv  BY DEF Inv
<1>. SUFFICES ASSUME NEW q \in Procs  PROVE StillTrue(q)'  BY DEF CheckInv
<1>1. ASSUME NEW p \in Procs, Step(p)  PROVE StillTrue(q)'  BY <1>1, StepChecks
<1>2. ASSUME NEW p \in Procs, Abort(p)  PROVE StillTrue(q)'
  <2>1. End(p) /\ UNCHANGED <<claims, facts>>  BY <1>2, AbortIsRollback DEF Rollback, rows
  <2>2. CASE q = p  BY <2>1, <2>2, EndIdles DEF StillTrue, Idle
  <2>3. CASE q # p
    <3>1. txn'[q] = txn[q]  BY <2>1, <2>3, OthersStay
    <3>. QED  BY <2>1, <3>1, SameRows DEF StillTrue, NeedsSlot, CheckInv
  <2>. QED  BY <2>2, <2>3
<1>3. ASSUME NEW p \in Procs, Commit(p)  PROVE StillTrue(q)'  BY <1>3, CommitKeepsChecks
<1>4. CASE \/ \E k \in Keys : Compose(k)
           \/ \E u \in Actors : RevokeAuthority(u)
           \/ UNCHANGED vars
  <2>1. UNCHANGED <<claims, facts, txn>>  BY <1>4 DEF Compose, RevokeAuthority, vars, rows
  <2>. QED  BY <2>1, SameRows DEF StillTrue, NeedsSlot, CheckInv
<1>. QED  BY <1>1, <1>2, <1>3, <1>4, NextCases

(* Initially nothing is recorded and nothing runs.                         *)
LEMMA InitInv == Init => Inv
<1>. SUFFICES ASSUME Init  PROVE Inv  OBVIOUS
<1>1. TypeOK  BY DEF Init, TypeOK
<1>2. \A p \in Procs : txn[p] = Idle  BY DEF Init
<1>3. RequestsAreAddressed  BY <1>2 DEF Init, RequestsAreAddressed
<1>4. LockInv /\ CheckInv
  BY <1>2 DEF LockInv, CheckInv, HoldsReservation, HoldsSlot, HoldsAuthority, StillTrue, Idle
<1>. QED  BY <1>1, <1>3, <1>4 DEF Inv

(* The inductive invariant of the ledger's transactions: reservations,     *)
(* coordinates and authority are held while they are needed, and what a    *)
(* command checked stays true until it commits.                            *)
THEOREM Invariance == Spec => []Inv
<1>1. Init => Inv  BY InitInv
<1>2. Inv /\ [Next]_vars => Inv'
  BY TypeStep, AddressStep, LockStep, CheckStep DEF Inv
<1>. QED  BY <1>1, <1>2, PTL DEF Spec

(* Every table, lock and transaction of the ledger keeps its type.         *)
THEOREM TypeCorrect == Spec => []TypeOK
<1>1. Inv => TypeOK  BY DEF Inv
<1>. QED  BY <1>1, Invariance, PTL

-----------------------------------------------------------------------------
(* A commit is one step of the ledger's promise.                           *)
openMap == [c \in Coordinates |-> Open(c)]
currentMap == [c \in Coordinates |-> Current(c)]
claimNames == Recorded(claims, ClaimIds)
factNames == Recorded(facts, FactIds)

Unique == OneCurrentFact /\ OneOpenProposal

LEMMA CommitMaps ==
    ASSUME Inv, NEW p \in Procs, Commit(p), NEW c, c = txn[p].body.coord
    PROVE  /\ c \in Coordinates
           /\ openMap' = [openMap EXCEPT ![c] = Open(c)']
           /\ currentMap' = [currentMap EXCEPT ![c] = Current(c)']
           /\ openMap[c] = Open(c) /\ currentMap[c] = Current(c)
<1>1. c \in Coordinates  BY CommitReady, RunningTxn DEF Inv
<1>2. ASSUME NEW d \in Coordinates, d # c  PROVE Open(d)' = Open(d) /\ Current(d)' = Current(d)
  BY <1>2, CommitCoordinate, UntouchedSets
<1>. QED  BY <1>1, <1>2 DEF openMap, currentMap

LEMMA CreateIsPropose ==
    ASSUME Inv, NEW p \in Procs, CommitCreate(p)
    PROVE  Slots!Next
<1>. TypeOK /\ Commit(p)  BY DEF Inv, Commit
<1>0. PICK c : c = txn[p].body.coord  OBVIOUS
<1>1. PICK x \in ClaimIds : /\ Fresh(x, claims, ClaimIds)
                            /\ claims' = [claims EXCEPT ![x] = Proposal(p)]
  BY DEF CommitCreate
<1>2. facts' = facts  BY DEF CommitCreate
<1>3. claims[x] = NoClaim  BY <1>1, ClaimKinds DEF Fresh
<1>4. claims' = [claims EXCEPT ![x] = Proposal(p)] /\ Proposal(p).coord = c
      /\ Proposal(p).status = "proposed"
  BY <1>0, <1>1 DEF Proposal
<1>5. Open(c)' = Open(c) \cup {x}
  BY <1>3, <1>4 DEF Open, ClaimsAt, TypeOK, NoClaim
<1>6. Current(c)' = Current(c)  BY <1>2 DEF Current
<1>7. claimNames' = claimNames \cup {x} /\ x \notin claimNames
  BY <1>3, <1>4 DEF claimNames, Recorded, TypeOK, NoClaim
<1>8. factNames' = factNames  BY <1>2 DEF factNames
<1>9. c \in Objectives => Open(c) = {}
  BY <1>0, ConstantsAssumption, CommitReady, ReadyFacts
  DEF NeedsSlot, SlotOpen, CommitCreate, Ready
<1>10. /\ c \in Coordinates
       /\ openMap' = [openMap EXCEPT ![c] = Open(c)']
       /\ currentMap' = [currentMap EXCEPT ![c] = Current(c)']
       /\ openMap[c] = Open(c) /\ currentMap[c] = Current(c)
  BY <1>0, CommitMaps
<1>11. currentMap' = currentMap  BY <1>6, <1>10 DEF currentMap
<1>12. Slots!Propose(c, x)
  BY <1>5, <1>7, <1>8, <1>9, <1>10, <1>11
  DEF Slots!Propose, openMap, currentMap, claimNames, factNames
<1>. QED  BY <1>10, <1>12 DEF Slots!Next

LEMMA WithdrawIsDiscard ==
    ASSUME Inv, NEW p \in Procs, CommitWithdraw(p)
    PROVE  Slots!Next
<1>. TypeOK /\ Commit(p)  BY DEF Inv, Commit
<1>0. PICK c : c = txn[p].body.coord  OBVIOUS
<1>1. PICK x \in txn[p].body.claims : claims' = [claims EXCEPT ![x].status = "rejected"]
  BY DEF CommitWithdraw
<1>2. facts' = facts  BY DEF CommitWithdraw
<1>3. /\ c \in Coordinates
      /\ openMap' = [openMap EXCEPT ![c] = Open(c)']
      /\ currentMap' = [currentMap EXCEPT ![c] = Current(c)']
      /\ openMap[c] = Open(c) /\ currentMap[c] = Current(c)
  BY <1>0, CommitMaps
<1>4. c \in Objectives /\ x \in Open(c)
  BY <1>0, <1>1, CommitReady, ReadyFacts
  DEF NeedsSlot, SlotOpen, CommitWithdraw, Ready, Addressed
<1>5. x \in ClaimIds /\ claims[x] \in ClaimRows /\ claims[x].coord = c
  BY <1>3, <1>4, OpenRows
<1>6. claims'[x].status = "rejected" /\ claims'[x].coord = c
  BY <1>1, <1>5 DEF TypeOK, ClaimRows
<1>7. \A y \in ClaimIds : y # x => claims'[y] = claims[y]  BY <1>1 DEF TypeOK
<1>8. Open(c)' = Open(c) \ {x}  BY <1>5, <1>6, <1>7 DEF Open, ClaimsAt
<1>9. Current(c)' = Current(c)  BY <1>2 DEF Current
<1>10. claimNames' = claimNames
  BY <1>5, <1>6, <1>7 DEF claimNames, Recorded, ClaimRows, ClaimStatuses
<1>11. factNames' = factNames  BY <1>2 DEF factNames
<1>12. currentMap' = currentMap  BY <1>3, <1>9 DEF currentMap
<1>13. Slots!Discard(c, x)
  BY <1>3, <1>4, <1>8, <1>10, <1>11, <1>12
  DEF Slots!Discard, openMap, currentMap, claimNames, factNames
<1>. QED  BY <1>3, <1>5, <1>13 DEF Slots!Next

LEMMA ReworkIsRework ==
    ASSUME Inv, Unique, NEW p \in Procs, CommitRework(p)
    PROVE  Slots!Next
<1>. TypeOK /\ Commit(p)  BY DEF Inv, Commit
<1>0. PICK c : c = txn[p].body.coord  OBVIOUS
<1>1. PICK x \in txn[p].body.claims, y \in ClaimIds :
          /\ Fresh(y, claims, ClaimIds)
          /\ claims' = [claims EXCEPT ![x].status = "superseded", ![y] = Proposal(p)]
  BY DEF CommitRework
<1>2. facts' = facts  BY DEF CommitRework
<1>3. /\ c \in Coordinates
      /\ openMap' = [openMap EXCEPT ![c] = Open(c)']
      /\ currentMap' = [currentMap EXCEPT ![c] = Current(c)']
      /\ openMap[c] = Open(c) /\ currentMap[c] = Current(c)
  BY <1>0, CommitMaps
<1>4. c \in Objectives /\ x \in Open(c)
  BY <1>0, <1>1, CommitReady, ReadyFacts
  DEF NeedsSlot, SlotOpen, CommitRework, Ready, Addressed
<1>5. x \in ClaimIds /\ claims[x] \in ClaimRows /\ claims[x].coord = c
  BY <1>3, <1>4, OpenRows
<1>6. claims[y] = NoClaim /\ claims[y].status = "none"  BY <1>1, ClaimKinds DEF Fresh
<1>7. x # y  BY <1>5, <1>6 DEF ClaimRows, ClaimStatuses
<1>8. claims'[x].status = "superseded" /\ claims'[x].coord = c
  BY <1>1, <1>5, <1>7 DEF TypeOK, ClaimRows
<1>9. claims'[y].status = "proposed" /\ claims'[y].coord = c
  BY <1>0, <1>1 DEF TypeOK, Proposal
<1>10. \A z \in ClaimIds : z \notin {x, y} => claims'[z] = claims[z]  BY <1>1 DEF TypeOK
<1>11. Open(c) = {x}  BY <1>3, <1>4 DEF Unique, OneOpenProposal
<1>12. Open(c)' = {y}
  <2>1. \A z \in ClaimIds : claims[z].coord = c /\ claims[z].status = "proposed" => z = x
    BY <1>11 DEF Open, ClaimsAt
  <2>. QED  BY <1>1, <1>8, <1>9, <1>10, <2>1 DEF Open, ClaimsAt
<1>13. Current(c)' = Current(c)  BY <1>2 DEF Current
<1>14. claimNames' = claimNames \cup {y} /\ y \notin claimNames
  BY <1>5, <1>6, <1>8, <1>9, <1>10 DEF claimNames, Recorded, ClaimRows, ClaimStatuses
<1>15. factNames' = factNames  BY <1>2 DEF factNames
<1>16. currentMap' = currentMap  BY <1>3, <1>13 DEF currentMap
<1>17. Slots!Rework(c, x, y)
  BY <1>3, <1>4, <1>12, <1>14, <1>15, <1>16
  DEF Slots!Rework, openMap, currentMap, claimNames, factNames
<1>. QED  BY <1>1, <1>3, <1>5, <1>17 DEF Slots!Next

(* What acceptance and supersession share: the claims of the request leave *)
(* the open proposals.                                                     *)
LEMMA AcceptedClaims ==
    ASSUME Inv, NEW p \in Procs, txn[p].pc = "ready",
           txn[p].body.kind \in {"fact.accept", "fact.supersede"},
           claims' = Accepted(txn[p].body.claims),
           NEW c, c = txn[p].body.coord
    PROVE  /\ txn[p].body.claims # {} /\ txn[p].body.claims \subseteq Open(c)
           /\ Open(c)' = Open(c) \ txn[p].body.claims
           /\ claimNames' = claimNames
<1> DEFINE s == txn[p].body.claims
<1>. TypeOK  BY DEF Inv
<1>1. s # {} /\ s \subseteq Open(c)  BY ReadyFacts DEF Verified
<1>2. c \in Coordinates  BY RunningTxn
<1>3. ASSUME NEW x \in s
      PROVE  /\ x \in ClaimIds /\ claims[x].status = "proposed"
             /\ claims'[x].status = "accepted"
  <2>1. x \in ClaimIds /\ claims[x] \in ClaimRows /\ claims[x].status = "proposed"
    BY <1>1, <1>2, <1>3, OpenRows
  <2>2. claims'[x] = [claims[x] EXCEPT !.status = "accepted"]  BY <2>1, <1>3 DEF Accepted
  <2>. QED  BY <2>1, <2>2 DEF ClaimRows
<1>4. \A x \in ClaimIds : x \notin s => claims'[x] = claims[x]  BY DEF Accepted
<1>5. Open(c)' = Open(c) \ s  BY <1>3, <1>4 DEF Open, ClaimsAt
<1>6. claimNames' = claimNames  BY <1>3, <1>4 DEF claimNames, Recorded
<1>. QED  BY <1>1, <1>5, <1>6

LEMMA AcceptIsAccept ==
    ASSUME Inv, NEW p \in Procs, CommitAccept(p)
    PROVE  Slots!Next
<1> DEFINE s == txn[p].body.claims
<1>. TypeOK /\ Commit(p)  BY DEF Inv, Commit
<1>0. PICK c : c = txn[p].body.coord  OBVIOUS
<1>1. PICK f \in FactIds : Fresh(f, facts, FactIds) /\ facts' = [facts EXCEPT ![f] = NewFact(p)]
  BY DEF CommitAccept
<1>2. /\ c \in Coordinates
      /\ openMap' = [openMap EXCEPT ![c] = Open(c)']
      /\ currentMap' = [currentMap EXCEPT ![c] = Current(c)']
      /\ openMap[c] = Open(c) /\ currentMap[c] = Current(c)
  BY <1>0, CommitMaps
<1>3. txn[p].pc = "ready" /\ txn[p].body.kind = "fact.accept" /\ claims' = Accepted(s)
  BY DEF CommitAccept, Ready
<1>4. /\ s # {} /\ s \subseteq Open(c) /\ Open(c)' = Open(c) \ s
      /\ claimNames' = claimNames /\ s \in SUBSET ClaimIds
  BY <1>0, <1>3, AcceptedClaims, RunningTxn
<1>5. Current(c) = {}  BY <1>0, <1>3, ReadyFacts DEF NeedsSlot, SlotOpen
<1>6. facts[f] = NoFact  BY <1>1, FactKinds DEF Fresh
<1>7. /\ facts'[f].coord = c /\ facts'[f].status = "current"
      /\ \A g \in FactIds : g # f => facts'[g] = facts[g]
  BY <1>0, <1>1 DEF NewFact, TypeOK
<1>8. Current(c)' = {f}
  <2>1. \A g \in FactIds : ~(facts[g].coord = c /\ facts[g].status = "current")
    BY <1>5 DEF Current
  <2>. QED  BY <1>1, <1>7, <2>1 DEF Current
<1>9. factNames' = factNames \cup {f} /\ f \notin factNames
  BY <1>1, <1>6, <1>7 DEF factNames, Recorded, NoFact
<1>10. PICK t : t = s /\ t \in SUBSET ClaimIds  BY <1>4
<1>11. Slots!Accept(c, f, t)
  BY <1>2, <1>4, <1>5, <1>8, <1>9, <1>10
  DEF Slots!Accept, Slots!Install, openMap, currentMap, claimNames, factNames
<1>. QED  BY <1>1, <1>2, <1>10, <1>11 DEF Slots!Next

LEMMA SupersedeIsSupersede ==
    ASSUME Inv, Unique, NEW p \in Procs, CommitSupersede(p)
    PROVE  Slots!Next
<1> DEFINE s == txn[p].body.claims
           k == txn[p].key
<1>. TypeOK /\ Commit(p)  BY DEF Inv, Commit
<1>0. PICK c, f : c = txn[p].body.coord /\ f = txn[p].body.fact  OBVIOUS
<1>1. PICK g \in FactIds :
          /\ Fresh(g, facts, FactIds)
          /\ facts' = [facts EXCEPT ![f] = Retired(f, "superseded", k), ![g] = NewFact(p)]
  BY <1>0 DEF CommitSupersede
<1>2. /\ c \in Coordinates
      /\ openMap' = [openMap EXCEPT ![c] = Open(c)']
      /\ currentMap' = [currentMap EXCEPT ![c] = Current(c)']
      /\ openMap[c] = Open(c) /\ currentMap[c] = Current(c)
  BY <1>0, CommitMaps
<1>3. txn[p].pc = "ready" /\ txn[p].body.kind = "fact.supersede" /\ claims' = Accepted(s)
  BY DEF CommitSupersede, Ready
<1>4. /\ s # {} /\ s \subseteq Open(c) /\ Open(c)' = Open(c) \ s
      /\ claimNames' = claimNames /\ s \in SUBSET ClaimIds
  BY <1>0, <1>3, AcceptedClaims, RunningTxn
<1>5. f \in Current(c)  BY <1>0, <1>3, ReadyFacts DEF Verified
<1>6. f \in FactIds /\ facts[f] \in FactRows  BY <1>2, <1>5, CurrentRows
<1>7. Current(c) = {f}  BY <1>2, <1>5 DEF Unique, OneCurrentFact
<1>8. facts[g] = NoFact /\ facts[g].status = "none"  BY <1>1, FactKinds DEF Fresh
<1>9. f # g  BY <1>6, <1>8 DEF FactRows
<1>10. Retired(f, "superseded", k).status = "superseded"  BY <1>6 DEF Retired, FactRows
<1>11. /\ facts'[f].status = "superseded"
       /\ facts'[g].coord = c /\ facts'[g].status = "current"
       /\ \A h \in FactIds : h \notin {f, g} => facts'[h] = facts[h]
  BY <1>0, <1>1, <1>6, <1>9, <1>10 DEF NewFact, TypeOK
<1>12. Current(c)' = {g}
  <2>1. \A h \in FactIds : facts[h].coord = c /\ facts[h].status = "current" => h = f
    BY <1>7 DEF Current
  <2>. QED  BY <1>1, <1>11, <2>1 DEF Current
<1>13. factNames' = factNames \cup {g} /\ g \notin factNames
  BY <1>1, <1>6, <1>8, <1>11 DEF factNames, Recorded, FactRows
<1>14. PICK t : t = s /\ t \in SUBSET ClaimIds  BY <1>4
<1>15. Slots!Supersede(c, f, g, t)
  <2>1. Slots!Install(c, g, t)
    BY <1>2, <1>4, <1>12, <1>13, <1>14
    DEF Slots!Install, openMap, currentMap, claimNames, factNames
  <2>. QED  BY <1>2, <1>7, <2>1 DEF Slots!Supersede, currentMap
<1>. QED  BY <1>1, <1>2, <1>6, <1>14, <1>15 DEF Slots!Next

LEMMA RevokeIsRevoke ==
    ASSUME Inv, Unique, NEW p \in Procs, CommitRevoke(p)
    PROVE  Slots!Next
<1> DEFINE k == txn[p].key
<1>. TypeOK /\ Commit(p)  BY DEF Inv, Commit
<1>0. PICK c, f : c = txn[p].body.coord /\ f = txn[p].body.fact  OBVIOUS
<1>1. facts' = [facts EXCEPT ![f] = Retired(f, "revoked", k)] /\ claims' = claims
  BY <1>0 DEF CommitRevoke
<1>2. /\ c \in Coordinates
      /\ openMap' = [openMap EXCEPT ![c] = Open(c)']
      /\ currentMap' = [currentMap EXCEPT ![c] = Current(c)']
      /\ openMap[c] = Open(c) /\ currentMap[c] = Current(c)
  BY <1>0, CommitMaps
<1>3. txn[p].pc = "ready" /\ txn[p].body.kind = "fact.revoke"  BY DEF CommitRevoke, Ready
<1>4. f \in Current(c) /\ (c \in Objectives => Open(c) = {})
  BY <1>0, <1>3, ReadyFacts DEF Verified
<1>5. f \in FactIds /\ facts[f] \in FactRows  BY <1>2, <1>4, CurrentRows
<1>6. Current(c) = {f}  BY <1>2, <1>4 DEF Unique, OneCurrentFact
<1>7. Retired(f, "revoked", k).status = "revoked"  BY <1>5 DEF Retired, FactRows
<1>8. facts'[f].status = "revoked" /\ \A h \in FactIds : h # f => facts'[h] = facts[h]
  BY <1>1, <1>5, <1>7 DEF TypeOK
<1>9. Current(c)' = {}
  <2>1. \A h \in FactIds : facts[h].coord = c /\ facts[h].status = "current" => h = f
    BY <1>6 DEF Current
  <2>. QED  BY <1>8, <2>1 DEF Current
<1>10. factNames' = factNames  BY <1>5, <1>8 DEF factNames, Recorded, FactRows
<1>11. claimNames' = claimNames  BY <1>1 DEF claimNames
<1>12. Open(c)' = Open(c)  BY <1>1 DEF Open, ClaimsAt
<1>13. openMap' = openMap  BY <1>2, <1>12 DEF openMap
<1>14. Slots!Revoke(c, f)
  BY <1>2, <1>4, <1>6, <1>9, <1>10, <1>11, <1>13
  DEF Slots!Revoke, openMap, currentMap, claimNames, factNames
<1>. QED  BY <1>2, <1>5, <1>14 DEF Slots!Next

LEMMA CommitIsSlotStep ==
    ASSUME Inv, Unique, NEW p \in Procs, Commit(p)
    PROVE  Slots!Next
BY CreateIsPropose, WithdrawIsDiscard, ReworkIsRework, AcceptIsAccept,
   SupersedeIsSupersede, RevokeIsRevoke DEF Commit

LEMMA OtherStepsKeepRows ==
    ASSUME [Next]_vars, ~\E p \in Procs : Commit(p)
    PROVE  UNCHANGED rows
<1>1. CASE \/ \E k \in Keys : Compose(k)
           \/ \E u \in Actors : RevokeAuthority(u)
           \/ UNCHANGED vars
  BY <1>1 DEF Compose, RevokeAuthority, vars
<1>2. ASSUME NEW p \in Procs, Step(p) \/ Abort(p)  PROVE UNCHANGED rows
  BY <1>2, StepRows, AbortIsRollback DEF Rollback
<1>. QED  BY <1>1, <1>2, NextCases

LEMMA SlotsStep ==
    ASSUME Inv, Unique, [Next]_vars
    PROVE  [Slots!Next]_(Slots!vars)
<1>1. CASE \E p \in Procs : Commit(p)  BY <1>1, CommitIsSlotStep
<1>2. CASE ~\E p \in Procs : Commit(p)
  <2>1. claims' = claims /\ facts' = facts  BY <1>2, OtherStepsKeepRows DEF rows
  <2>2. openMap' = openMap /\ currentMap' = currentMap
        /\ claimNames' = claimNames /\ factNames' = factNames
    BY <2>1 DEF openMap, currentMap, claimNames, factNames, Open, ClaimsAt, Current, Recorded
  <2>. QED  BY <2>2 DEF Slots!vars, openMap, currentMap, claimNames, factNames
<1>. QED  BY <1>1, <1>2

(* The promise keeps every coordinate to one current fact and one proposal.*)
AtMostOne(s) == \A x, y \in s : x = y

LEMMA UniqueMaps ==
    Unique <=> /\ \A c \in Coordinates : AtMostOne(currentMap[c])
               /\ \A c \in Objectives : AtMostOne(openMap[c])
BY DEF Unique, OneCurrentFact, OneOpenProposal, AtMostOne, currentMap, openMap, Coordinates

LEMMA SlotStepsAreUnique ==
    ASSUME Unique, Slots!Next
    PROVE  Unique'
<1>. DOMAIN openMap = Coordinates /\ DOMAIN currentMap = Coordinates
     /\ openMap = [c \in Coordinates |-> openMap[c]]
     /\ currentMap = [c \in Coordinates |-> currentMap[c]]
  BY DEF openMap, currentMap
<1>. DEFINE Opens(c) ==
              \/ \E x \in ClaimIds :
                    \/ /\ c \in Objectives => openMap[c] = {}
                       /\ openMap' = [openMap EXCEPT ![c] = @ \cup {x}]
                    \/ openMap' = [openMap EXCEPT ![c] = @ \ {x}]
                    \/ openMap' = [openMap EXCEPT ![c] = {x}]
              \/ \E t \in SUBSET ClaimIds : openMap' = [openMap EXCEPT ![c] = @ \ t]
              \/ openMap' = openMap
            Installs(c) ==
              \/ currentMap' = currentMap
              \/ currentMap' = [currentMap EXCEPT ![c] = {}]
              \/ \E f \in FactIds : currentMap' = [currentMap EXCEPT ![c] = {f}]
<1>1. PICK c \in Coordinates : Opens(c) /\ Installs(c)
  <2>1. ASSUME NEW c \in Coordinates, NEW x \in ClaimIds,
               \/ Slots!Propose(c, x) \/ Slots!Discard(c, x)
               \/ \E y \in ClaimIds : Slots!Rework(c, x, y)
        PROVE  Opens(c) /\ Installs(c)
    <3>1. CASE Slots!Propose(c, x)  BY <3>1 DEF Slots!Propose, openMap, currentMap
    <3>2. CASE Slots!Discard(c, x)  BY <3>2 DEF Slots!Discard, openMap, currentMap
    <3>3. CASE \E y \in ClaimIds : Slots!Rework(c, x, y)  BY <3>3 DEF Slots!Rework, openMap, currentMap
    <3>. QED  BY <2>1, <3>1, <3>2, <3>3
  <2>2. ASSUME NEW c \in Coordinates, NEW f \in FactIds, NEW t \in SUBSET ClaimIds,
               Slots!Install(c, f, t)
        PROVE  Opens(c) /\ Installs(c)
    BY <2>2 DEF Slots!Install, openMap, currentMap
  <2>3. ASSUME NEW c \in Coordinates, NEW f \in FactIds, Slots!Revoke(c, f)
        PROVE  Opens(c) /\ Installs(c)
    BY <2>3 DEF Slots!Revoke, openMap, currentMap
  <2>. HIDE DEF Opens, Installs
  <2>4. ASSUME NEW c \in Coordinates, NEW f \in FactIds, NEW t \in SUBSET ClaimIds,
               Slots!Accept(c, f, t) \/ \E g \in FactIds : Slots!Supersede(c, f, g, t)
        PROVE  Opens(c) /\ Installs(c)
    BY <2>2, <2>4 DEF Slots!Accept, Slots!Supersede
  <2>. QED  BY <2>1, <2>3, <2>4 DEF Slots!Next
<1>. HIDE DEF Opens, Installs
<1>2. \A d \in Coordinates : AtMostOne(currentMap[d]) => AtMostOne(currentMap'[d])
  BY <1>1 DEF Installs, AtMostOne
<1>3. \A d \in Objectives : AtMostOne(openMap[d]) => AtMostOne(openMap'[d])
  <2>1. CASE \E x \in ClaimIds :
                \/ /\ c \in Objectives => openMap[c] = {}
                   /\ openMap' = [openMap EXCEPT ![c] = @ \cup {x}]
                \/ openMap' = [openMap EXCEPT ![c] = @ \ {x}]
                \/ openMap' = [openMap EXCEPT ![c] = {x}]
    BY <2>1 DEF AtMostOne, Coordinates
  <2>2. CASE \E t \in SUBSET ClaimIds : openMap' = [openMap EXCEPT ![c] = @ \ t]
    BY <2>2 DEF AtMostOne, Coordinates
  <2>. QED  BY <1>1, <2>1, <2>2 DEF Opens
<1>4. /\ \A d \in Coordinates : AtMostOne(currentMap'[d])
      /\ \A d \in Objectives : AtMostOne(openMap'[d])
  BY <1>2, <1>3, UniqueMaps
<1>. QED  BY <1>4 DEF Unique, OneCurrentFact, OneOpenProposal, AtMostOne, currentMap, openMap,
                     Coordinates

LEMMA UniqueStep ==
    ASSUME Inv, Unique, [Next]_vars
    PROVE  Unique'
<1>1. CASE \E p \in Procs : Commit(p)  BY <1>1, CommitIsSlotStep, SlotStepsAreUnique
<1>2. CASE ~\E p \in Procs : Commit(p)
  <2>1. claims' = claims /\ facts' = facts  BY <1>2, OtherStepsKeepRows DEF rows
  <2>. QED  BY <2>1 DEF Unique, OneCurrentFact, OneOpenProposal, Open, ClaimsAt, Current
<1>. QED  BY <1>1, <1>2

LEMMA InitSlots == Init => Unique /\ Slots!Init
<1>. SUFFICES ASSUME Init  PROVE Unique /\ Slots!Init  OBVIOUS
<1>1. ASSUME NEW c \in Coordinates  PROVE Open(c) = {} /\ Current(c) = {}
  BY DEF Init, Open, ClaimsAt, Current, NoClaim, NoFact
<1>2. Recorded(claims, ClaimIds) = {} /\ Recorded(facts, FactIds) = {}
  BY DEF Init, Recorded, NoClaim, NoFact
<1>. QED  BY <1>1, <1>2 DEF Unique, OneCurrentFact, OneOpenProposal, Slots!Init, Coordinates

LEMMA UniqueAlways == Spec => []Unique
<1>1. Init => Inv /\ Unique  BY InitInv, InitSlots
<1>2. Inv /\ Unique /\ [Next]_vars => Unique'  BY UniqueStep
<1>. QED  BY <1>1, <1>2, Invariance, PTL DEF Spec

(* A coordinate never has two current facts, whatever acceptances,         *)
(* supersessions, revocations and retries race.                            *)
THEOREM CurrentFactsAreUnique == Spec => []OneCurrentFact
<1>1. Unique => OneCurrentFact  BY DEF Unique
<1>. QED  BY <1>1, UniqueAlways, PTL

(* An objective never has two open proposals.                              *)
THEOREM OpenProposalsAreUnique == Spec => []OneOpenProposal
<1>1. Unique => OneOpenProposal  BY DEF Unique
<1>. QED  BY <1>1, UniqueAlways, PTL

(* The command transactions implement the ledger's promise: each commit is *)
(* one proposal, decision, acceptance, supersession or revocation that is  *)
(* legal at that moment.                                                   *)
THEOREM ImplementsSlots == Spec => SlotsSpec
<1>1. Init => Slots!Init  BY InitSlots
<1>2. Inv /\ Unique /\ [Next]_vars => [Slots!Next]_(Slots!vars)  BY SlotsStep
<1>. QED  BY <1>1, <1>2, Invariance, UniqueAlways, PTL DEF Spec, SlotsSpec, Slots!Spec

-----------------------------------------------------------------------------
(* The command a commit completes.                                         *)
LEMMA Completion ==
    ASSUME Inv, [Next]_vars, NEW k \in Keys, Completes(k)
    PROVE  \E p \in Procs : /\ Commit(p) /\ txn[p].pc = "ready" /\ txn[p].key = k
                            /\ commands'[k].body = txn[p].body
<1>1. PICK p \in Procs : Commit(p)  BY OtherStepsKeepRows DEF Completes, rows
<1>2. PICK result : Complete(p, result)  BY <1>1, CommitEnds
<1>3. txn[p].key \in Keys /\ txn[p].pc = "ready"  BY <1>1, CommitReady, RunningTxn DEF Inv
<1>. QED  BY <1>1, <1>2, <1>3 DEF Complete, Completes, Inv, TypeOK

(* A proposal for an objective commits only on the generation its author   *)
(* saw: the optimistic check holds until the commit.                       *)
THEOREM GenerationsAreSeen == Spec => GenerationIsSeen
<1> DEFINE A == \A k \in Keys : Completes(k) =>
                   LET b == commands'[k].body IN
                   b.kind = "claim.create" /\ b.coord \in Objectives =>
                      Generation(b.coord) = b.seen
<1>1. ASSUME Inv, [Next]_vars  PROVE A
  <2>. SUFFICES ASSUME NEW k \in Keys, Completes(k),
                       commands'[k].body.kind = "claim.create",
                       commands'[k].body.coord \in Objectives
                PROVE  Generation(commands'[k].body.coord) = commands'[k].body.seen
    OBVIOUS
  <2>1. PICK p \in Procs : txn[p].pc = "ready" /\ commands'[k].body = txn[p].body
    BY <1>1, Completion
  <2>2. NeedsSlot(txn[p].body)  BY <2>1, ConstantsAssumption DEF NeedsSlot
  <2>3. SlotOpen(txn[p].body)  BY <1>1, <2>1, <2>2, ReadyFacts
  <2>. QED  BY <2>1, <2>3 DEF SlotOpen
<1>2. Inv /\ [Next]_vars => [A]_vars  BY <1>1
<1>. QED  BY <1>2, Invariance, PTL DEF Spec, GenerationIsSeen

(* Authority read by a command cannot be revoked before it commits.        *)
THEOREM CommitsAreAuthorized == Spec => WritersAreAuthorized
<1> DEFINE A == \A k \in Keys : Completes(k) => commands'[k].body.actor \in authorized
<1>1. ASSUME Inv, [Next]_vars  PROVE A
  <2>. SUFFICES ASSUME NEW k \in Keys, Completes(k)
                PROVE  commands'[k].body.actor \in authorized
    OBVIOUS
  <2>1. PICK p \in Procs : txn[p].pc = "ready" /\ commands'[k].body = txn[p].body
    BY <1>1, Completion
  <2>. QED  BY <1>1, <2>1, ReadyFacts
<1>2. Inv /\ [Next]_vars => [A]_vars  BY <1>1
<1>. QED  BY <1>2, Invariance, PTL DEF Spec, WritersAreAuthorized

-----------------------------------------------------------------------------
(***************************************************************************)
(* What each commit writes.                                                *)
(***************************************************************************)
(* A claim keeps what it says when it is decided.                          *)
Decided(x, status) ==
    /\ x \in ClaimIds /\ claims[x].status = "proposed"
    /\ claims'[x].status = status
    /\ claims'[x].coord = claims[x].coord /\ claims'[x].key = claims[x].key

(* A row of the key k appears where there was none.                        *)
Proposed(x, c, k) ==
    /\ x \in ClaimIds /\ claims[x] = NoClaim
    /\ claims'[x].status = "proposed" /\ claims'[x].coord = c /\ claims'[x].key = k

Installed(f, c, support) ==
    /\ f \in FactIds /\ facts[f] = NoFact
    /\ facts'[f].status = "current" /\ facts'[f].coord = c
    /\ facts'[f].support = support

Ended(f, c, status) ==
    /\ f \in FactIds /\ facts[f].status = "current" /\ facts[f].coord = c
    /\ facts'[f].status = status /\ facts'[f].coord = c
    /\ facts'[f].support = facts[f].support

LEMMA CreateWrites ==
    ASSUME Inv, NEW p \in Procs, CommitCreate(p)
    PROVE  \E x \in ClaimIds :
              /\ Proposed(x, txn[p].body.coord, txn[p].key)
              /\ \A y \in ClaimIds \ {x} : claims'[y] = claims[y]
<1>. TypeOK  BY DEF Inv
<1>1. PICK x \in ClaimIds : /\ Fresh(x, claims, ClaimIds)
                            /\ claims' = [claims EXCEPT ![x] = Proposal(p)]
  BY DEF CommitCreate
<1>2. claims[x] = NoClaim  BY <1>1, ClaimKinds DEF Fresh
<1>. QED  BY <1>1, <1>2 DEF Proposed, Proposal, TypeOK

LEMMA DecidedClaim ==
    ASSUME Inv, NEW p \in Procs, txn[p].pc = "ready", NEW x \in txn[p].body.claims,
           txn[p].body.kind \in {"objective.withdraw", "objective.rework"}
    PROVE  /\ x \in ClaimIds /\ claims[x] \in ClaimRows
           /\ claims[x].coord = txn[p].body.coord /\ claims[x].status = "proposed"
<1>. TypeOK  BY DEF Inv
<1>1. txn[p].body.coord \in Coordinates  BY RunningTxn
<1>2. x \in Open(txn[p].body.coord)  BY ReadyFacts DEF NeedsSlot, SlotOpen
<1>. QED  BY <1>1, <1>2, OpenRows

LEMMA WithdrawWrites ==
    ASSUME Inv, NEW p \in Procs, CommitWithdraw(p)
    PROVE  \E x \in ClaimIds :
              /\ Decided(x, "rejected")
              /\ \A y \in ClaimIds \ {x} : claims'[y] = claims[y]
              /\ recoveries' = recoveries \cup {Link(x, None, txn[p].key)}
<1>. TypeOK  BY DEF Inv
<1>1. PICK x \in txn[p].body.claims :
          /\ claims' = [claims EXCEPT ![x].status = "rejected"]
          /\ recoveries' = recoveries \cup {Link(x, None, txn[p].key)}
  BY DEF CommitWithdraw
<1>2. x \in ClaimIds /\ claims[x] \in ClaimRows /\ claims[x].status = "proposed"
  BY DecidedClaim DEF CommitWithdraw, Ready
<1>3. claims'[x] = [claims[x] EXCEPT !.status = "rejected"]  BY <1>1, <1>2 DEF TypeOK
<1>. QED  BY <1>1, <1>2, <1>3 DEF Decided, ClaimRows, TypeOK

LEMMA ReworkWrites ==
    ASSUME Inv, NEW p \in Procs, CommitRework(p)
    PROVE  \E x, y \in ClaimIds :
              /\ Decided(x, "superseded") /\ claims[x].coord = txn[p].body.coord
              /\ Proposed(y, txn[p].body.coord, txn[p].key)
              /\ \A z \in ClaimIds \ {x, y} : claims'[z] = claims[z]
              /\ recoveries' = recoveries \cup {Link(x, y, txn[p].key)}
<1>. TypeOK  BY DEF Inv
<1>1. PICK x \in txn[p].body.claims, y \in ClaimIds :
          /\ Fresh(y, claims, ClaimIds)
          /\ claims' = [claims EXCEPT ![x].status = "superseded", ![y] = Proposal(p)]
          /\ recoveries' = recoveries \cup {Link(x, y, txn[p].key)}
  BY DEF CommitRework
<1>2. /\ x \in ClaimIds /\ claims[x] \in ClaimRows /\ claims[x].status = "proposed"
      /\ claims[x].coord = txn[p].body.coord
  BY DecidedClaim DEF CommitRework, Ready
<1>3. claims[y] = NoClaim  BY <1>1, ClaimKinds DEF Fresh
<1>4. x # y  BY <1>2, <1>3 DEF NoClaim
<1>5. /\ claims'[x] = [claims[x] EXCEPT !.status = "superseded"]
      /\ claims'[y] = Proposal(p)
      /\ \A z \in ClaimIds \ {x, y} : claims'[z] = claims[z]
  BY <1>1, <1>2, <1>4 DEF TypeOK
<1>6. Decided(x, "superseded")  BY <1>2, <1>5 DEF Decided, ClaimRows
<1>7. Proposed(y, txn[p].body.coord, txn[p].key)  BY <1>3, <1>5 DEF Proposed, Proposal
<1>. QED  BY <1>1, <1>2, <1>5, <1>6, <1>7

LEMMA AcceptedWrites ==
    ASSUME Inv, NEW p \in Procs, txn[p].pc = "ready",
           txn[p].body.kind \in {"fact.accept", "fact.supersede"},
           claims' = Accepted(txn[p].body.claims)
    PROVE  /\ txn[p].body.claims # {}
           /\ \A x \in txn[p].body.claims :
                 Decided(x, "accepted") /\ claims[x].coord = txn[p].body.coord
           /\ \A x \in ClaimIds \ txn[p].body.claims : claims'[x] = claims[x]
<1> DEFINE s == txn[p].body.claims
           c == txn[p].body.coord
<1>. TypeOK  BY DEF Inv
<1>1. s # {} /\ s \subseteq Open(c)  BY ReadyFacts DEF Verified
<1>2. c \in Coordinates  BY RunningTxn
<1>3. ASSUME NEW x \in s
      PROVE  Decided(x, "accepted") /\ claims[x].coord = c
  <2>1. /\ x \in ClaimIds /\ claims[x] \in ClaimRows /\ claims[x].status = "proposed"
        /\ claims[x].coord = c
    BY <1>1, <1>2, <1>3, OpenRows
  <2>2. claims'[x] = [claims[x] EXCEPT !.status = "accepted"]  BY <2>1, <1>3 DEF Accepted
  <2>. QED  BY <2>1, <2>2 DEF Decided, ClaimRows
<1>4. \A x \in ClaimIds : x \notin s => claims'[x] = claims[x]  BY DEF Accepted
<1>. QED  BY <1>1, <1>3, <1>4

LEMMA AcceptWrites ==
    ASSUME Inv, NEW p \in Procs, CommitAccept(p)
    PROVE  \E f \in FactIds :
              /\ Installed(f, txn[p].body.coord, txn[p].body.claims)
              /\ \A g \in FactIds \ {f} : facts'[g] = facts[g]
<1>. TypeOK  BY DEF Inv
<1>1. PICK f \in FactIds : Fresh(f, facts, FactIds) /\ facts' = [facts EXCEPT ![f] = NewFact(p)]
  BY DEF CommitAccept
<1>2. facts[f] = NoFact  BY <1>1, FactKinds DEF Fresh
<1>. QED  BY <1>1, <1>2 DEF Installed, NewFact, TypeOK

LEMMA EndedFact ==
    ASSUME Inv, NEW p \in Procs, txn[p].pc = "ready",
           txn[p].body.kind \in {"fact.supersede", "fact.revoke"}
    PROVE  /\ txn[p].body.fact \in FactIds /\ facts[txn[p].body.fact] \in FactRows
           /\ facts[txn[p].body.fact].coord = txn[p].body.coord
           /\ facts[txn[p].body.fact].status = "current"
<1>. TypeOK  BY DEF Inv
<1>1. txn[p].body.coord \in Coordinates  BY RunningTxn
<1>2. txn[p].body.fact \in Current(txn[p].body.coord)  BY ReadyFacts DEF Verified
<1>. QED  BY <1>1, <1>2, CurrentRows

LEMMA SupersedeWrites ==
    ASSUME Inv, NEW p \in Procs, CommitSupersede(p)
    PROVE  \E f, g \in FactIds :
              /\ Ended(f, txn[p].body.coord, "superseded")
              /\ Installed(g, txn[p].body.coord, txn[p].body.claims)
              /\ \A h \in FactIds \ {f, g} : facts'[h] = facts[h]
              /\ lifecycle' = lifecycle \cup {Link(f, g, txn[p].key)}
<1> DEFINE k == txn[p].key
<1>. TypeOK  BY DEF Inv
<1>0. PICK f : f = txn[p].body.fact  OBVIOUS
<1>1. PICK g \in FactIds :
          /\ Fresh(g, facts, FactIds)
          /\ facts' = [facts EXCEPT ![f] = Retired(f, "superseded", k), ![g] = NewFact(p)]
          /\ lifecycle' = lifecycle \cup {Link(f, g, k)}
  BY <1>0 DEF CommitSupersede
<1>2. /\ f \in FactIds /\ facts[f] \in FactRows /\ facts[f].status = "current"
      /\ facts[f].coord = txn[p].body.coord
  BY <1>0, EndedFact DEF CommitSupersede, Ready
<1>3. facts[g] = NoFact  BY <1>1, FactKinds DEF Fresh
<1>4. f # g  BY <1>2, <1>3 DEF NoFact
<1>5. /\ facts'[f] = Retired(f, "superseded", k) /\ facts'[g] = NewFact(p)
      /\ \A h \in FactIds \ {f, g} : facts'[h] = facts[h]
  BY <1>1, <1>2, <1>4 DEF TypeOK
<1>6. Ended(f, txn[p].body.coord, "superseded")  BY <1>2, <1>5 DEF Ended, Retired, FactRows
<1>7. Installed(g, txn[p].body.coord, txn[p].body.claims)
  BY <1>3, <1>5 DEF Installed, NewFact
<1>. QED  BY <1>1, <1>2, <1>5, <1>6, <1>7

LEMMA RevokeWrites ==
    ASSUME Inv, NEW p \in Procs, CommitRevoke(p)
    PROVE  \E f \in FactIds :
              /\ Ended(f, txn[p].body.coord, "revoked")
              /\ \A g \in FactIds \ {f} : facts'[g] = facts[g]
              /\ lifecycle' = lifecycle \cup {Link(f, None, txn[p].key)}
<1> DEFINE k == txn[p].key
<1>. TypeOK  BY DEF Inv
<1>0. PICK f : f = txn[p].body.fact  OBVIOUS
<1>1. /\ facts' = [facts EXCEPT ![f] = Retired(f, "revoked", k)]
      /\ lifecycle' = lifecycle \cup {Link(f, None, k)}
  BY <1>0 DEF CommitRevoke
<1>2. /\ f \in FactIds /\ facts[f] \in FactRows /\ facts[f].status = "current"
      /\ facts[f].coord = txn[p].body.coord
  BY <1>0, EndedFact DEF CommitRevoke, Ready
<1>3. facts'[f] = Retired(f, "revoked", k)  BY <1>1, <1>2 DEF TypeOK
<1>4. Ended(f, txn[p].body.coord, "revoked")  BY <1>2, <1>3 DEF Ended, Retired, FactRows
<1>. QED  BY <1>1, <1>2, <1>4 DEF TypeOK

-----------------------------------------------------------------------------
(***************************************************************************)
(* The rows and announcements of a command, as sets: one of each kind its  *)
(* command causes, and none before it is completed.                        *)
(***************************************************************************)
ClaimsOf(k)     == {x \in ClaimIds : claims[x].key = k}
RecoveriesOf(k) == {l \in recoveries : l.key = k}
LifecycleOf(k)  == {l \in lifecycle : l.key = k}

OneIf(s, wanted) == IF wanted THEN \E x : s = {x} ELSE s = {}

Adding   == {"claim.create", "objective.rework"}
Deciding == {"objective.withdraw", "objective.rework"}
Ending   == {"fact.supersede", "fact.revoke"}

Caught(k) ==
    IF commands[k] = None
    THEN /\ outbox[k] = <<>>
         /\ ClaimsOf(k) = {} /\ RecoveriesOf(k) = {} /\ LifecycleOf(k) = {}
    ELSE /\ outbox[k] = <<commands[k].result>>
         /\ OneIf(ClaimsOf(k), commands[k].body.kind \in Adding)
         /\ OneIf(RecoveriesOf(k), commands[k].body.kind \in Deciding)
         /\ OneIf(LifecycleOf(k), commands[k].body.kind \in Ending)

EffectInv == \A k \in Keys : Caught(k)

(* One row of a kind is counted as one, and none as none.                  *)
LEMMA CountOne ==
    ASSUME NEW s, NEW wanted, OneIf(s, wanted)
    PROVE  Cardinality(s) = IF wanted THEN 1 ELSE 0
BY FS_EmptySet, FS_Singleton DEF OneIf

LEMMA CountsFollow == EffectInv => OneEffectPerCommand
<1>. SUFFICES ASSUME EffectInv, NEW k \in Keys
     PROVE  IF commands[k] = None
            THEN outbox[k] = <<>> /\ Caused(k) = [claims |-> 0, recoveries |-> 0, lifecycle |-> 0]
            ELSE outbox[k] = <<commands[k].result>> /\ Caused(k) = Causes(commands[k].body.kind)
  BY DEF OneEffectPerCommand
<1>1. Caused(k) = [claims |-> Cardinality(ClaimsOf(k)),
                   recoveries |-> Cardinality(RecoveriesOf(k)),
                   lifecycle |-> Cardinality(LifecycleOf(k))]
  BY DEF Caused, ClaimsOf, RecoveriesOf, LifecycleOf
<1>2. CASE commands[k] = None
  BY <1>1, <1>2, FS_EmptySet DEF EffectInv, Caught
<1>3. CASE commands[k] # None
  <2> DEFINE kind == commands[k].body.kind
  <2>1. /\ Cardinality(ClaimsOf(k)) = IF kind \in Adding THEN 1 ELSE 0
        /\ Cardinality(RecoveriesOf(k)) = IF kind \in Deciding THEN 1 ELSE 0
        /\ Cardinality(LifecycleOf(k)) = IF kind \in Ending THEN 1 ELSE 0
    BY <1>3, CountOne DEF EffectInv, Caught
  <2>2. Caused(k) = Causes(kind)  BY <1>1, <2>1 DEF Causes, Adding, Deciding, Ending
  <2>. QED  BY <1>3, <2>2 DEF EffectInv, Caught
<1>. QED  BY <1>2, <1>3

(* Only the command of a commit gains rows.                                *)
LEMMA ClaimsCaused ==
    ASSUME Inv, NEW p \in Procs, Commit(p), NEW k \in Keys
    PROVE  IF k = txn[p].key /\ txn[p].body.kind \in Adding
           THEN \E x : ClaimsOf(k)' = ClaimsOf(k) \cup {x}
           ELSE ClaimsOf(k)' = ClaimsOf(k)
<1>0. CommitRework(p) =>
         \E x, y \in ClaimIds : /\ Decided(x, "superseded")
                                /\ Proposed(y, txn[p].body.coord, txn[p].key)
                                /\ \A z \in ClaimIds \ {x, y} : claims'[z] = claims[z]
  BY ReworkWrites
<1>. USE ConstantsAssumption DEF Proposed, Decided, NoClaim
<1>1. CASE CommitCreate(p)
  <2>1. PICK x \in ClaimIds : /\ Proposed(x, txn[p].body.coord, txn[p].key)
                              /\ \A y \in ClaimIds \ {x} : claims'[y] = claims[y]
    BY <1>1, CreateWrites
  <2>2. txn[p].body.kind \in Adding  BY <1>1 DEF CommitCreate, Ready, Adding
  <2>3. \A y \in ClaimIds : claims'[y].key = IF y = x THEN txn[p].key ELSE claims[y].key
    BY <2>1
  <2>4. claims[x].key = None /\ k # None  BY <2>1
  <2>. QED  BY <2>2, <2>3, <2>4 DEF ClaimsOf
<1>2. CASE CommitRework(p)
  <2>1. PICK x, y \in ClaimIds :
              /\ Decided(x, "superseded")
              /\ Proposed(y, txn[p].body.coord, txn[p].key)
              /\ \A z \in ClaimIds \ {x, y} : claims'[z] = claims[z]
    BY <1>0, <1>2, Zenon
  <2>2. txn[p].body.kind \in Adding  BY <1>2 DEF CommitRework, Ready, Adding
  <2>3. \A z \in ClaimIds : claims'[z].key = IF z = y THEN txn[p].key ELSE claims[z].key
    BY <2>1
  <2>4. claims[y].key = None /\ k # None  BY <2>1
  <2>5. CASE k = txn[p].key
    <3>1. ClaimsOf(k)' = ClaimsOf(k) \cup {y}  BY <2>3, <2>5 DEF ClaimsOf
    <3>. QED  BY <2>2, <2>5, <3>1
  <2>6. CASE k # txn[p].key
    <3>1. ClaimsOf(k)' = ClaimsOf(k)  BY <2>3, <2>4, <2>6 DEF ClaimsOf
    <3>. QED  BY <2>6, <3>1
  <2>. QED  BY <2>5, <2>6
<1>3. ASSUME \A z \in ClaimIds : claims'[z].key = claims[z].key,
             txn[p].body.kind \notin Adding
      PROVE  ClaimsOf(k)' = ClaimsOf(k) /\ ~(txn[p].body.kind \in Adding)
  BY <1>3 DEF ClaimsOf
<1>4. CASE CommitWithdraw(p)
  <2>1. txn[p].body.kind \notin Adding  BY <1>4 DEF CommitWithdraw, Ready, Adding
  <2>. QED  BY <1>3, <1>4, <2>1, WithdrawWrites
<1>5. CASE CommitAccept(p) \/ CommitSupersede(p)
  <2>1. /\ txn[p].pc = "ready" /\ txn[p].body.kind \in {"fact.accept", "fact.supersede"}
        /\ claims' = Accepted(txn[p].body.claims)
    BY <1>5 DEF CommitAccept, CommitSupersede, Ready
  <2>2. txn[p].body.kind \notin Adding  BY <2>1 DEF Adding
  <2>. QED  BY <1>3, <2>1, <2>2, AcceptedWrites
<1>6. CASE CommitRevoke(p)
  <2>1. txn[p].body.kind \notin Adding /\ claims' = claims
    BY <1>6 DEF CommitRevoke, Ready, Adding
  <2>. QED  BY <1>3, <2>1
<1>. QED  BY <1>1, <1>2, <1>4, <1>5, <1>6 DEF Commit

LEMMA LinksCaused ==
    ASSUME Inv, NEW p \in Procs, Commit(p), NEW k \in Keys
    PROVE  /\ IF k = txn[p].key /\ txn[p].body.kind \in Deciding
              THEN \E x : RecoveriesOf(k)' = RecoveriesOf(k) \cup {x}
              ELSE RecoveriesOf(k)' = RecoveriesOf(k)
           /\ IF k = txn[p].key /\ txn[p].body.kind \in Ending
              THEN \E x : LifecycleOf(k)' = LifecycleOf(k) \cup {x}
              ELSE LifecycleOf(k)' = LifecycleOf(k)
<1> DEFINE j == txn[p].key
<1>1. ASSUME NEW l, l.key = j, recoveries' = recoveries \cup {l}
      PROVE  RecoveriesOf(k)' = IF k = j THEN RecoveriesOf(k) \cup {l} ELSE RecoveriesOf(k)
  BY <1>1 DEF RecoveriesOf
<1>2. ASSUME NEW l, l.key = j, lifecycle' = lifecycle \cup {l}
      PROVE  LifecycleOf(k)' = IF k = j THEN LifecycleOf(k) \cup {l} ELSE LifecycleOf(k)
  BY <1>2 DEF LifecycleOf
<1>3. recoveries' = recoveries => RecoveriesOf(k)' = RecoveriesOf(k)  BY DEF RecoveriesOf
<1>4. lifecycle' = lifecycle => LifecycleOf(k)' = LifecycleOf(k)  BY DEF LifecycleOf
<1>5. \A x, y : Link(x, y, j).key = j  BY DEF Link
<1>. HIDE DEF j
<1>. USE DEF Deciding, Ending
<1>6. CASE CommitCreate(p) \/ CommitAccept(p)
  BY <1>3, <1>4, <1>6 DEF CommitCreate, CommitAccept, Ready
<1>7. CASE CommitWithdraw(p)
  <2>1. PICK x \in ClaimIds : recoveries' = recoveries \cup {Link(x, None, j)}
    BY <1>7, WithdrawWrites DEF j
  <2>2. txn[p].body.kind = "objective.withdraw" /\ lifecycle' = lifecycle
    BY <1>7 DEF CommitWithdraw, Ready
  <2>. QED  BY <1>1, <1>4, <1>5, <2>1, <2>2 DEF j
<1>8. CASE CommitRework(p)
  <2>1. PICK x, y \in ClaimIds : recoveries' = recoveries \cup {Link(x, y, j)}
    BY <1>8, ReworkWrites DEF j
  <2>2. txn[p].body.kind = "objective.rework" /\ lifecycle' = lifecycle
    BY <1>8 DEF CommitRework, Ready
  <2>. QED  BY <1>1, <1>4, <1>5, <2>1, <2>2 DEF j
<1>9. CASE CommitSupersede(p)
  <2>1. PICK f, g \in FactIds : lifecycle' = lifecycle \cup {Link(f, g, j)}
    BY <1>9, SupersedeWrites DEF j
  <2>2. txn[p].body.kind = "fact.supersede" /\ recoveries' = recoveries
    BY <1>9 DEF CommitSupersede, Ready
  <2>. QED  BY <1>2, <1>3, <1>5, <2>1, <2>2 DEF j
<1>10. CASE CommitRevoke(p)
  <2>1. PICK f \in FactIds : lifecycle' = lifecycle \cup {Link(f, None, j)}
    BY <1>10, RevokeWrites DEF j
  <2>2. txn[p].body.kind = "fact.revoke" /\ recoveries' = recoveries
    BY <1>10 DEF CommitRevoke, Ready
  <2>. QED  BY <1>2, <1>3, <1>5, <2>1, <2>2 DEF j
<1>. QED  BY <1>6, <1>7, <1>8, <1>9, <1>10 DEF Commit

LEMMA CommitResult ==
    ASSUME Inv, NEW p \in Procs, Commit(p)
    PROVE  \E result \in Results : Complete(p, result)
<1>. USE DEF Result, Results, Ready
<1>1. txn[p].pc = "ready" /\ txn[p].body.claims \in SUBSET ClaimIds
  BY CommitReady, RunningTxn DEF Inv
<1>2. txn[p].body.kind \in {"fact.supersede", "fact.revoke"} =>
          txn[p].body.fact \in FactIds
  BY <1>1, EndedFact
<1>3. CASE CommitCreate(p)
  BY <1>3 DEF CommitCreate
<1>4. CASE CommitWithdraw(p) \/ CommitRework(p)
  BY <1>1, <1>4 DEF CommitWithdraw, CommitRework
<1>5. CASE CommitAccept(p)
  BY <1>5 DEF CommitAccept
<1>6. CASE CommitSupersede(p)
  BY <1>2, <1>6 DEF CommitSupersede
<1>7. CASE CommitRevoke(p)
  BY <1>2, <1>7 DEF CommitRevoke
<1>. QED  BY <1>3, <1>4, <1>5, <1>6, <1>7 DEF Commit

LEMMA EffectStep ==
    ASSUME Inv, EffectInv, [Next]_vars
    PROVE  EffectInv'
<1>1. ASSUME NEW p \in Procs, Commit(p)  PROVE EffectInv'
  <2>. SUFFICES ASSUME NEW k \in Keys  PROVE Caught(k)'  BY DEF EffectInv
  <2> DEFINE j == txn[p].key
  <2>1. PICK result \in Results : Complete(p, result)
    BY <1>1, CommitResult
  <2>2. /\ txn[p].pc = "ready" /\ j \in Keys /\ commands[j] = None
        /\ txn[p].body \in Bodies
    BY <1>1, CommitReady, ReadyFacts, RunningTxn DEF Inv
  <2>3. CASE k # j
    <3>1. commands'[k] = commands[k] /\ outbox'[k] = outbox[k]
      BY <2>1, <2>3 DEF Complete, Inv, TypeOK
    <3>2. /\ ClaimsOf(k)' = ClaimsOf(k) /\ RecoveriesOf(k)' = RecoveriesOf(k)
          /\ LifecycleOf(k)' = LifecycleOf(k)
      BY <1>1, <2>3, ClaimsCaused, LinksCaused
    <3>. QED  BY <3>1, <3>2 DEF EffectInv, Caught
  <2>4. CASE k = j
    <3>1. /\ outbox[k] = <<>> /\ ClaimsOf(k) = {} /\ RecoveriesOf(k) = {}
          /\ LifecycleOf(k) = {}
      BY <2>2, <2>4 DEF EffectInv, Caught
    <3>2. /\ commands'[k] = [body |-> txn[p].body, result |-> result]
          /\ outbox'[k] = Append(outbox[k], result)
      BY <2>1, <2>2, <2>4 DEF Complete, Inv, TypeOK
    <3>3. commands'[k] # None
      BY <2>2, <3>2, NoneAssumption DEF Records
    <3>4. outbox'[k] = <<commands'[k].result>>  BY <3>1, <3>2
    <3>5. commands'[k].body.kind = txn[p].body.kind  BY <3>2
    <3>6. OneIf(ClaimsOf(k)', txn[p].body.kind \in Adding)
      BY <1>1, <2>4, <3>1, ClaimsCaused DEF OneIf
    <3>7. /\ OneIf(RecoveriesOf(k)', txn[p].body.kind \in Deciding)
          /\ OneIf(LifecycleOf(k)', txn[p].body.kind \in Ending)
      BY <1>1, <2>4, <3>1, LinksCaused DEF OneIf
    <3>. QED  BY <3>3, <3>4, <3>5, <3>6, <3>7 DEF Caught
  <2>. QED  BY <2>3, <2>4
<1>2. CASE ~\E p \in Procs : Commit(p)
  <2>1. UNCHANGED rows  BY <1>2, OtherStepsKeepRows
  <2>. QED  BY <2>1 DEF rows, EffectInv, Caught, ClaimsOf, RecoveriesOf, LifecycleOf
<1>. QED  BY <1>1, <1>2

(* However often and concurrently a request is sent, its command takes     *)
(* effect once and is announced once, and until it does it leaves nothing. *)
THEOREM CommandsTakeEffectOnce == Spec => []OneEffectPerCommand
<1>1. Init => EffectInv
  BY ConstantsAssumption
  DEF Init, EffectInv, Caught, ClaimsOf, RecoveriesOf, LifecycleOf, NoClaim
<1>2. Inv /\ EffectInv /\ [Next]_vars => EffectInv'  BY EffectStep
<1>. QED  BY <1>1, <1>2, CountsFollow, Invariance, PTL DEF Spec

-----------------------------------------------------------------------------
(***************************************************************************)
(* Lineage.  A table with its links keeps exact while rows are recorded,   *)
(* accepted, ended and succeeded; said once for claims and for facts.      *)
(***************************************************************************)
Lineage(ids, table, links, ended) ==
    /\ \A x \in ids :
          /\ table[x].status = ended <=>
                \E l \in links : l.predecessor = x /\ l.successor = None
          /\ table[x].status = "superseded" <=>
                \E l \in links : l.predecessor = x /\ l.successor # None
    /\ \A l, m \in links :
          /\ l.predecessor = m.predecessor => l = m
          /\ l.successor = m.successor /\ l.successor # None => l = m
          /\ l.successor # None =>
                table[l.successor].coord = table[l.predecessor].coord

LEMMA LineageOfBoth ==
    LineageIsExact <=> /\ Lineage(ClaimIds, claims, recoveries, "rejected")
                       /\ Lineage(FactIds, facts, lifecycle, "revoked")
BY DEF LineageIsExact, Lineage

(* The rows x of ids go on as they were, as far as lineage can tell.       *)
GoesOn(x, old, new, ended) ==
    /\ new[x].status = ended <=> old[x].status = ended
    /\ new[x].status = "superseded" <=> old[x].status = "superseded"
    /\ old[x].status # "none" => new[x].coord = old[x].coord

(* A table of rows and the table of its links, before a step.              *)
LinkTable(ids, table, links, ended) ==
    /\ links \subseteq Links(ids)
    /\ \A x \in ids : table[x].status = "none" <=> table[x].coord = None
    /\ Lineage(ids, table, links, ended)

(* Rows that have ended or succeeded others are recorded.                  *)
LEMMA LinkedRows ==
    ASSUME NEW ids, NEW table, NEW links, NEW ended, ended # "none",
           LinkTable(ids, table, links, ended), NEW l \in links
    PROVE  /\ l.predecessor \in ids /\ table[l.predecessor].status # "none"
           /\ table[l.predecessor].status \in {ended, "superseded"}
           /\ l.successor # None =>
                 l.successor \in ids /\ table[l.successor].status # "none"
<1>1. l.predecessor \in ids /\ l.successor \in ids \cup {None}  BY DEF LinkTable, Links
<1>2. table[l.predecessor].status \in {ended, "superseded"}
  BY <1>1 DEF LinkTable, Lineage
<1>3. table[l.predecessor].status # "none"  BY <1>2
<1>. QED  BY <1>1, <1>2, <1>3 DEF LinkTable, Lineage

LEMMA LineageGoesOn ==
    ASSUME NEW ids, NEW old, NEW new, NEW links, NEW ended, ended # "none",
           LinkTable(ids, old, links, ended),
           \A x \in ids : GoesOn(x, old, new, ended)
    PROVE  Lineage(ids, new, links, ended)
<1>1. ASSUME NEW l \in links
      PROVE  /\ l.predecessor \in ids /\ old[l.predecessor].status # "none"
             /\ l.successor # None =>
                   l.successor \in ids /\ old[l.successor].status # "none"
  BY LinkedRows
<1>2. \A l \in links : l.successor # None =>
         new[l.successor].coord = new[l.predecessor].coord
  BY <1>1 DEF LinkTable, Lineage, GoesOn
<1>. QED  BY <1>2 DEF LinkTable, Lineage, GoesOn

(* A row that is not linked yet ends, with or without a successor.         *)
LEMMA LineageGrows ==
    ASSUME NEW ids, NEW old, NEW new, NEW links, NEW ended,
           ended # "none", ended # "superseded", LinkTable(ids, old, links, ended),
           NEW x \in ids, NEW s \in ids \cup {None}, NEW k,
           old[x].status \notin {"none", ended, "superseded"},
           new[x].status = IF s = None THEN ended ELSE "superseded",
           new[x].coord = old[x].coord,
           s # None => old[s].status = "none" /\ new[s].coord = old[x].coord,
           \A y \in ids \ {x} : GoesOn(y, old, new, ended)
    PROVE  Lineage(ids, new, links \cup {Link(x, s, k)}, ended)
<1> DEFINE n == Link(x, s, k)
<1>1. n.predecessor = x /\ n.successor = s  BY DEF Link
<1>2. ASSUME NEW l \in links
      PROVE  /\ l.predecessor \in ids /\ old[l.predecessor].status # "none"
             /\ old[l.predecessor].status \in {ended, "superseded"}
             /\ l.successor # None =>
                   l.successor \in ids /\ old[l.successor].status # "none"
  BY LinkedRows
<1>3. \A l \in links : l.predecessor # x /\ (s # None => l.successor # s)
  BY <1>2
<1>. HIDE DEF n
<1>4. ASSUME NEW y \in ids
      PROVE  /\ new[y].status = ended <=>
                   \E l \in links \cup {n} : l.predecessor = y /\ l.successor = None
             /\ new[y].status = "superseded" <=>
                   \E l \in links \cup {n} : l.predecessor = y /\ l.successor # None
  <2>1. CASE y = x
    <3>1. \A l \in links \cup {n} : l.predecessor = x <=> l = n
      BY <1>1, <1>3
    <3>. QED  BY <1>1, <2>1, <3>1
  <2>2. CASE y # x
    <3>1. \A l \in links \cup {n} : l.predecessor = y => l \in links
      BY <1>1, <2>2
    <3>2. /\ old[y].status = ended <=>
                \E l \in links : l.predecessor = y /\ l.successor = None
          /\ old[y].status = "superseded" <=>
                \E l \in links : l.predecessor = y /\ l.successor # None
      BY DEF LinkTable, Lineage
    <3>3. GoesOn(y, old, new, ended)  BY <2>2
    <3>. QED  BY <3>1, <3>2, <3>3 DEF GoesOn
  <2>. QED  BY <2>1, <2>2
<1>5. ASSUME NEW l \in links \cup {n}, l.successor # None
      PROVE  new[l.successor].coord = new[l.predecessor].coord
  <2>1. CASE l = n  BY <1>1, <1>5, <2>1
  <2>2. CASE l \in links
    <3>1. old[l.successor].coord = old[l.predecessor].coord  BY <1>5, <2>2 DEF LinkTable, Lineage
    <3>2. \A y \in ids : old[y].status # "none" => new[y].coord = old[y].coord
      BY DEF GoesOn
    <3>. QED  BY <1>2, <1>5, <2>2, <3>1, <3>2
  <2>. QED  BY <2>1, <2>2
<1>6. \A l, m \in links \cup {n} :
         /\ l.predecessor = m.predecessor => l = m
         /\ l.successor = m.successor /\ l.successor # None => l = m
  BY <1>1, <1>3 DEF LinkTable, Lineage
<1>. QED  BY <1>4, <1>5, <1>6 DEF Lineage, n

-----------------------------------------------------------------------------
(***************************************************************************)
(* The history of claims and facts.                                        *)
(***************************************************************************)
LEMMA TablesSay ==
    ASSUME TypeOK, LineageIsExact
    PROVE  /\ LinkTable(ClaimIds, claims, recoveries, "rejected")
           /\ LinkTable(FactIds, facts, lifecycle, "revoked")
<1>1. ASSUME NEW x \in ClaimIds
      PROVE  claims[x].status = "none" <=> claims[x].coord = None
  BY ConstantsAssumption, ClaimKinds DEF ClaimStatuses, ClaimRows, NoClaim
<1>2. ASSUME NEW f \in FactIds
      PROVE  facts[f].status = "none" <=> facts[f].coord = None
  BY ConstantsAssumption, FactKinds DEF FactRows, NoFact
<1>. QED  BY <1>1, <1>2, LineageOfBoth DEF TypeOK, LinkTable

LEMMA LineageCommit ==
    ASSUME Inv, LineageIsExact, NEW p \in Procs, Commit(p)
    PROVE  LineageIsExact'
<1> DEFINE k == txn[p].key
<1>. TypeOK  BY DEF Inv
<1>0. /\ LinkTable(ClaimIds, claims, recoveries, "rejected")
      /\ LinkTable(FactIds, facts, lifecycle, "revoked")
  BY TablesSay
<1>1. /\ Lineage(ClaimIds, claims, recoveries, "rejected")
      /\ Lineage(FactIds, facts, lifecycle, "revoked")
  BY LineageOfBoth
<1>2. ASSUME Lineage(ClaimIds, claims', recoveries', "rejected"),
             Lineage(FactIds, facts', lifecycle', "revoked")
      PROVE  LineageIsExact'
  BY <1>2 DEF LineageIsExact, Lineage
<1>. HIDE DEF k
<1>3. ASSUME recoveries' = recoveries,
             \A x \in ClaimIds : GoesOn(x, claims, claims', "rejected")
      PROVE  Lineage(ClaimIds, claims', recoveries', "rejected")
  BY <1>0, <1>3, LineageGoesOn
<1>4. ASSUME lifecycle' = lifecycle,
             \A f \in FactIds : GoesOn(f, facts, facts', "revoked")
      PROVE  Lineage(FactIds, facts', lifecycle', "revoked")
  BY <1>0, <1>4, LineageGoesOn
<1>5. CASE CommitCreate(p)
  <2>1. PICK x \in ClaimIds : /\ Proposed(x, txn[p].body.coord, txn[p].key)
                              /\ \A y \in ClaimIds \ {x} : claims'[y] = claims[y]
    BY <1>5, CreateWrites
  <2>2. \A y \in ClaimIds : GoesOn(y, claims, claims', "rejected")
    BY <2>1 DEF GoesOn, Proposed, NoClaim
  <2>3. recoveries' = recoveries /\ facts' = facts /\ lifecycle' = lifecycle
    BY <1>5 DEF CommitCreate
  <2>. QED  BY <1>1, <1>2, <1>3, <2>2, <2>3
<1>6. CASE CommitWithdraw(p)
  <2>1. PICK x \in ClaimIds :
              /\ Decided(x, "rejected")
              /\ \A y \in ClaimIds \ {x} : claims'[y] = claims[y]
              /\ recoveries' = recoveries \cup {Link(x, None, k)}
    BY <1>6, WithdrawWrites DEF k
  <2>2. \A y \in ClaimIds \ {x} : GoesOn(y, claims, claims', "rejected")
    BY <2>1 DEF GoesOn
  <2>3. Lineage(ClaimIds, claims', recoveries', "rejected")
    BY <1>0, <2>1, <2>2, LineageGrows DEF Decided
  <2>4. facts' = facts /\ lifecycle' = lifecycle
    BY <1>6 DEF CommitWithdraw
  <2>. QED  BY <1>1, <1>2, <2>3, <2>4
<1>7. CASE CommitRework(p)
  <2>1. PICK x, y \in ClaimIds :
              /\ Decided(x, "superseded") /\ claims[x].coord = txn[p].body.coord
              /\ Proposed(y, txn[p].body.coord, k)
              /\ \A z \in ClaimIds \ {x, y} : claims'[z] = claims[z]
              /\ recoveries' = recoveries \cup {Link(x, y, k)}
    BY <1>7, ReworkWrites DEF k
  <2>2. y # None  BY ConstantsAssumption
  <2>3. \A z \in ClaimIds \ {x} : GoesOn(z, claims, claims', "rejected")
    BY <2>1 DEF GoesOn, Proposed, NoClaim
  <2>4. Lineage(ClaimIds, claims', recoveries', "rejected")
    <3>1. /\ claims[x].status = "proposed" /\ claims'[x].status = "superseded"
          /\ claims'[x].coord = claims[x].coord
          /\ claims[y].status = "none" /\ claims'[y].coord = claims[x].coord
      BY <2>1 DEF Decided, Proposed, NoClaim
    <3>2. Lineage(ClaimIds, claims', recoveries \cup {Link(x, y, k)}, "rejected")
      BY <1>0, <2>2, <2>3, <3>1, LineageGrows
    <3>. QED  BY <2>1, <3>2
  <2>5. facts' = facts /\ lifecycle' = lifecycle
    BY <1>7 DEF CommitRework
  <2>. QED  BY <1>1, <1>2, <2>4, <2>5
<1>8. ASSUME txn[p].pc = "ready", txn[p].body.kind \in {"fact.accept", "fact.supersede"},
             claims' = Accepted(txn[p].body.claims), recoveries' = recoveries
      PROVE  Lineage(ClaimIds, claims', recoveries', "rejected")
  <2>1. \A x \in ClaimIds : \/ Decided(x, "accepted")
                            \/ claims'[x] = claims[x]
    BY <1>8, AcceptedWrites
  <2>2. \A x \in ClaimIds : GoesOn(x, claims, claims', "rejected")
    BY <2>1 DEF GoesOn, Decided
  <2>. QED  BY <1>3, <1>8, <2>2
<1>9. CASE CommitAccept(p)
  <2>1. PICK f \in FactIds : /\ Installed(f, txn[p].body.coord, txn[p].body.claims)
                             /\ \A g \in FactIds \ {f} : facts'[g] = facts[g]
    BY <1>9, AcceptWrites
  <2>2. \A g \in FactIds : GoesOn(g, facts, facts', "revoked")
    BY <2>1 DEF GoesOn, Installed, NoFact
  <2>3. /\ txn[p].pc = "ready" /\ txn[p].body.kind = "fact.accept"
        /\ claims' = Accepted(txn[p].body.claims)
        /\ recoveries' = recoveries /\ lifecycle' = lifecycle
    BY <1>9 DEF CommitAccept, Ready
  <2>. QED  BY <1>2, <1>4, <1>8, <2>2, <2>3
<1>10. CASE CommitSupersede(p)
  <2>1. PICK f, g \in FactIds :
              /\ Ended(f, txn[p].body.coord, "superseded")
              /\ Installed(g, txn[p].body.coord, txn[p].body.claims)
              /\ \A h \in FactIds \ {f, g} : facts'[h] = facts[h]
              /\ lifecycle' = lifecycle \cup {Link(f, g, k)}
    BY <1>10, SupersedeWrites DEF k
  <2>2. g # None  BY ConstantsAssumption
  <2>3. \A h \in FactIds \ {f} : GoesOn(h, facts, facts', "revoked")
    BY <2>1 DEF GoesOn, Installed, NoFact
  <2>4. Lineage(FactIds, facts', lifecycle', "revoked")
    <3>1. /\ facts[f].status = "current" /\ facts'[f].status = "superseded"
          /\ facts'[f].coord = facts[f].coord
          /\ facts[g].status = "none" /\ facts'[g].coord = facts[f].coord
      BY <2>1 DEF Ended, Installed, NoFact
    <3>2. Lineage(FactIds, facts', lifecycle \cup {Link(f, g, k)}, "revoked")
      BY <1>0, <2>2, <2>3, <3>1, LineageGrows
    <3>. QED  BY <2>1, <3>2
  <2>5. /\ txn[p].pc = "ready" /\ txn[p].body.kind = "fact.supersede"
        /\ claims' = Accepted(txn[p].body.claims) /\ recoveries' = recoveries
    BY <1>10 DEF CommitSupersede, Ready
  <2>. QED  BY <1>2, <1>8, <2>4, <2>5
<1>11. CASE CommitRevoke(p)
  <2>1. PICK f \in FactIds :
              /\ Ended(f, txn[p].body.coord, "revoked")
              /\ \A g \in FactIds \ {f} : facts'[g] = facts[g]
              /\ lifecycle' = lifecycle \cup {Link(f, None, k)}
    BY <1>11, RevokeWrites DEF k
  <2>2. \A g \in FactIds \ {f} : GoesOn(g, facts, facts', "revoked")
    BY <2>1 DEF GoesOn
  <2>3. Lineage(FactIds, facts', lifecycle', "revoked")
    <3>1. /\ facts[f].status = "current" /\ facts'[f].status = "revoked"
          /\ facts'[f].coord = facts[f].coord
      BY <2>1 DEF Ended
    <3>2. Lineage(FactIds, facts', lifecycle \cup {Link(f, None, k)}, "revoked")
      BY <1>0, <2>2, <3>1, LineageGrows
    <3>. QED  BY <2>1, <3>2
  <2>4. claims' = claims /\ recoveries' = recoveries
    BY <1>11 DEF CommitRevoke
  <2>. QED  BY <1>1, <1>2, <2>3, <2>4
<1>. QED  BY <1>5, <1>6, <1>7, <1>9, <1>10, <1>11 DEF Commit

(* Facts rest on accepted claims, each of which supports one fact.         *)
LEMMA SupportCommit ==
    ASSUME Inv, SupportIsExact, NEW p \in Procs, Commit(p)
    PROVE  SupportIsExact'
<1> DEFINE c == txn[p].body.coord
           s == txn[p].body.claims
<1>. TypeOK  BY DEF Inv
<1>1. ASSUME facts' = facts,
             \A x \in ClaimIds :
                \/ claims'[x] = claims[x]
                \/ claims[x].status # "accepted" /\ claims'[x].status # "accepted"
      PROVE  SupportIsExact'
  <2>1. \A f \in Recorded(facts, FactIds) :
          /\ facts[f].support # {}
          /\ \A x \in facts[f].support :
               claims'[x].status = "accepted" /\ claims'[x].coord = facts[f].coord
    <3>1. \A f \in FactIds : facts[f].support \subseteq ClaimIds
      BY DEF TypeOK, FactRows, NoFact
    <3>. QED  BY <1>1, <3>1 DEF SupportIsExact, Recorded
  <2>2. \A x \in ClaimIds : claims'[x].status = "accepted" =>
          \E f \in FactIds : \A g \in FactIds : x \in facts[g].support <=> g = f
    BY <1>1 DEF SupportIsExact
  <2>. QED  BY <1>1, <2>1, <2>2 DEF SupportIsExact, Recorded
<1>2. CASE CommitCreate(p)
  <2>1. facts' = facts  BY <1>2 DEF CommitCreate
  <2>. QED  BY <1>1, <1>2, <2>1, CreateWrites DEF Proposed, NoClaim
<1>3. CASE CommitWithdraw(p)
  <2>1. facts' = facts  BY <1>3 DEF CommitWithdraw
  <2>. QED  BY <1>1, <1>3, <2>1, WithdrawWrites DEF Decided
<1>4. CASE CommitRework(p)
  <2>1. facts' = facts  BY <1>4 DEF CommitRework
  <2>. QED  BY <1>1, <1>4, <2>1, ReworkWrites DEF Decided, Proposed, NoClaim
<1>5. ASSUME txn[p].pc = "ready", txn[p].body.kind \in {"fact.accept", "fact.supersede"},
             claims' = Accepted(s),
             NEW f \in FactIds, Installed(f, c, s),
             \A g \in FactIds \ {f} : /\ facts'[g].support = facts[g].support
                                      /\ facts'[g].coord = facts[g].coord
                                      /\ facts'[g].status = "none" <=> facts[g].status = "none"
      PROVE  SupportIsExact'
  <2>1. /\ s # {} /\ s \in SUBSET ClaimIds
        /\ \A x \in s : Decided(x, "accepted") /\ claims[x].coord = c
        /\ \A x \in ClaimIds \ s : claims'[x] = claims[x]
    BY <1>5, AcceptedWrites, RunningTxn
  <2>. HIDE DEF s, c
  <2>2. facts[f].support = {} /\ facts[f].status = "none"  BY <1>5 DEF Installed, NoFact
  <2>3. \A g \in FactIds : g # f => \A x \in facts[g].support :
            /\ facts[g].status # "none" /\ x \in ClaimIds /\ x \notin s
            /\ claims[x].status = "accepted" /\ claims[x].coord = facts[g].coord
    <3>1. \A g \in FactIds : facts[g].support # {} => facts[g].status # "none"
      BY FactKinds DEF NoFact
    <3>2. \A g \in FactIds : facts[g].support \subseteq ClaimIds
      BY DEF TypeOK, FactRows, NoFact
    <3>. QED  BY <2>1, <3>1, <3>2 DEF SupportIsExact, Recorded, Decided
  <2>4. ASSUME NEW g \in FactIds, facts'[g].status # "none"
        PROVE  /\ facts'[g].support # {}
               /\ \A x \in facts'[g].support :
                    claims'[x].status = "accepted" /\ claims'[x].coord = facts'[g].coord
    <3>1. CASE g = f
      <4>1. facts'[g].support = s /\ facts'[g].coord = c  BY <1>5, <3>1 DEF Installed
      <4>2. \A x \in s : claims'[x].status = "accepted" /\ claims'[x].coord = c
        BY <2>1 DEF Decided
      <4>. QED  BY <2>1, <4>1, <4>2
    <3>2. CASE g # f
      <4>1. /\ facts'[g].support = facts[g].support /\ facts'[g].coord = facts[g].coord
            /\ facts[g].status # "none"
        BY <1>5, <2>4, <3>2
      <4>2. facts[g].support # {}  BY <4>1 DEF SupportIsExact, Recorded
      <4>3. \A x \in facts[g].support :
              claims'[x].status = "accepted" /\ claims'[x].coord = facts[g].coord
        BY <2>1, <2>3, <3>2
      <4>. QED  BY <4>1, <4>2, <4>3
    <3>. QED  BY <3>1, <3>2
  <2>5. ASSUME NEW x \in ClaimIds, claims'[x].status = "accepted"
        PROVE  \E h \in FactIds : \A g \in FactIds : x \in facts'[g].support <=> g = h
    <3>1. CASE x \in s
      <4>1. facts'[f].support = s  BY <1>5 DEF Installed
      <4>2. \A g \in FactIds \ {f} : x \notin facts'[g].support
        BY <1>5, <2>3, <3>1
      <4>3. \A g \in FactIds : x \in facts'[g].support <=> g = f
        BY <3>1, <4>1, <4>2
      <4>. QED  BY <1>5, <4>3
    <3>2. CASE x \notin s
      <4>1. claims[x].status = "accepted"  BY <2>1, <2>5, <3>2
      <4>2. PICK h \in FactIds : \A g \in FactIds : x \in facts[g].support <=> g = h
        BY <4>1 DEF SupportIsExact
      <4>3. h # f  BY <2>2, <4>2
      <4>4. facts'[f].support = s  BY <1>5 DEF Installed
      <4>5. \A g \in FactIds \ {f} : x \in facts'[g].support <=> g = h
        BY <1>5, <4>2
      <4>6. \A g \in FactIds : x \in facts'[g].support <=> g = h
        BY <3>2, <4>3, <4>4, <4>5
      <4>. QED  BY <4>6
    <3>. QED  BY <3>1, <3>2
  <2>. QED  BY <2>4, <2>5 DEF SupportIsExact, Recorded
<1>6. CASE CommitAccept(p)
  <2>1. PICK f \in FactIds : /\ Installed(f, c, s)
                             /\ \A g \in FactIds \ {f} : facts'[g] = facts[g]
    BY <1>6, AcceptWrites
  <2>2. /\ txn[p].pc = "ready" /\ txn[p].body.kind = "fact.accept" /\ claims' = Accepted(s)
    BY <1>6 DEF CommitAccept, Ready
  <2>. HIDE DEF s, c
  <2>. QED  BY <1>5, <2>1, <2>2
<1>7. CASE CommitSupersede(p)
  <2>1. PICK f, g \in FactIds :
              /\ Ended(f, c, "superseded") /\ Installed(g, c, s)
              /\ \A h \in FactIds \ {f, g} : facts'[h] = facts[h]
    BY <1>7, SupersedeWrites
  <2>2. /\ txn[p].pc = "ready" /\ txn[p].body.kind = "fact.supersede"
        /\ claims' = Accepted(s)
    BY <1>7 DEF CommitSupersede, Ready
  <2>3. \A h \in FactIds \ {g} : /\ facts'[h].support = facts[h].support
                                 /\ facts'[h].coord = facts[h].coord
                                 /\ facts'[h].status = "none" <=> facts[h].status = "none"
    BY <2>1 DEF Ended
  <2>. HIDE DEF s, c
  <2>. QED  BY <1>5, <2>1, <2>2, <2>3
<1>8. CASE CommitRevoke(p)
  <2>1. PICK f \in FactIds : /\ Ended(f, c, "revoked")
                             /\ \A g \in FactIds \ {f} : facts'[g] = facts[g]
    BY <1>8, RevokeWrites
  <2>2. \A g \in FactIds : /\ facts'[g].support = facts[g].support
                           /\ facts'[g].coord = facts[g].coord
                           /\ facts'[g].status = "none" <=> facts[g].status = "none"
    BY <2>1 DEF Ended
  <2>3. claims' = claims  BY <1>8 DEF CommitRevoke
  <2>. QED  BY <2>2, <2>3 DEF SupportIsExact, Recorded
<1>. QED  BY <1>2, <1>3, <1>4, <1>6, <1>7, <1>8 DEF Commit

LEMMA HistoryStep ==
    ASSUME Inv, HistoryIsExact, [Next]_vars
    PROVE  HistoryIsExact'
<1>1. ASSUME NEW p \in Procs, Commit(p)  PROVE HistoryIsExact'
  BY <1>1, SupportCommit, LineageCommit DEF HistoryIsExact
<1>2. CASE ~\E p \in Procs : Commit(p)
  <2>1. UNCHANGED rows  BY <1>2, OtherStepsKeepRows
  <2>. QED  BY <2>1 DEF rows, HistoryIsExact, SupportIsExact, LineageIsExact, Recorded
<1>. QED  BY <1>1, <1>2

(* What the tables of claims, facts, support and lineage say of the past   *)
(* agrees, whatever was retried, raced or stopped half-way.                *)
THEOREM HistoryStaysExact == Spec => []HistoryIsExact
<1>1. Init => HistoryIsExact
  BY DEF Init, HistoryIsExact, SupportIsExact, LineageIsExact, Recorded, NoClaim, NoFact
<1>2. Inv /\ HistoryIsExact /\ [Next]_vars => HistoryIsExact'  BY HistoryStep
<1>. QED  BY <1>1, <1>2, Invariance, PTL DEF Spec
=============================================================================
