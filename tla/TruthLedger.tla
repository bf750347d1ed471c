---------------------------- MODULE TruthLedger ----------------------------
(***************************************************************************)
(* The truth ledger: claims, accepted facts, their lineage and the durable *)
(* command records, written by concurrent transactions of the truth        *)
(* command bus (PostgresTruthCommandBus over TruthLedgerRepository).       *)
(*                                                                         *)
(* A coordinate is a subject and a predicate in one Space: an Initiative's *)
(* primary objective, with one open proposal at a time, or an Activity's   *)
(* outcome.  Versions are not kept: the tables tie version 1 to proposed   *)
(* and current and version 2 to every other status, so that a status says  *)
(* the version.  Transactions are READ COMMITTED: writes appear at commit, *)
(* a statement that waited for a lock reads what its holder committed.     *)
(* Source evidence is checked elsewhere; a command it stops is a Fail.     *)
(***************************************************************************)
EXTENDS Naturals, Sequences, FiniteSets

CONSTANTS
    Procs,        \* requests the API serves at the same time
    Actors,       \* human actors
    Owner,        \* the actor who owns the subjects
    Keys,         \* idempotency keys
    Objectives,   \* coordinates of initiative.primary_objective
    Outcomes,     \* coordinates of activity.outcome
    ClaimIds,     \* in the order in which the claims are recorded
    FactIds,
    None

Coordinates == Objectives \cup Outcomes

ASSUME ConstantsAssumption ==
    /\ Owner \in Actors
    /\ Objectives \cap Outcomes = {}
    /\ ClaimIds \subseteq Nat
    /\ FactIds \subseteq Nat
    /\ None \notin Procs \cup Keys \cup Coordinates \cup Nat

VARIABLES
    claims,       \* truth.claims
    facts,        \* truth.accepted_facts with truth.fact_claims
    recoveries,   \* truth.initiative_objective_proposal_recoveries
    lifecycle,    \* truth.fact_lifecycle_events
    commands,     \* ops.domain_command_records that are completed
    outbox,       \* audit and outbox rows a command caused
    keyHolder,    \* who has inserted the reservation of a key
    slotHolder,   \* who holds the advisory lock of a coordinate
    authorized,   \* actors whose authority rows are live
    requests,     \* the request a client composed for a key
    txn           \* the transaction each process runs

rows == <<claims, facts, recoveries, lifecycle, commands, outbox>>
held == <<keyHolder, slotHolder>>
vars == <<rows, held, authorized, requests, txn>>

Kinds == {"claim.create", "objective.withdraw", "objective.rework",
          "fact.accept", "fact.supersede", "fact.revoke"}

NoClaim == [coord |-> None, status |-> "none", by |-> None, key |-> None]
NoFact  == [coord |-> None, status |-> "none", support |-> {}, key |-> None]
Idle    == [pc |-> "idle", key |-> None, body |-> None, authority |-> FALSE]

Recorded(table, ids) == {i \in ids : table[i].status # "none"}
ClaimsAt(c) == {x \in ClaimIds : claims[x].coord = c}
Open(c)     == {x \in ClaimsAt(c) : claims[x].status = "proposed"}
Current(c)  == {f \in FactIds : facts[f].coord = c /\ facts[f].status = "current"}

(* The latest claim of a coordinate with its status, and nothing when it   *)
(* has none: the generation a new proposal has to name.                    *)
Latest(c) == {x \in ClaimsAt(c) : \A y \in ClaimsAt(c) : y <= x}
Generation(c) == {<<x, claims[x].status>> : x \in Latest(c)}

(* The next row of a table gets the next identifier. *)
Fresh(i, table, ids) ==
    /\ table[i].status = "none"
    /\ \A j \in ids : j < i => table[j].status # "none"

Init ==
    /\ claims = [x \in ClaimIds |-> NoClaim]
    /\ facts = [f \in FactIds |-> NoFact]
    /\ recoveries = {}
    /\ lifecycle = {}
    /\ commands = [k \in Keys |-> None]
    /\ outbox = [k \in Keys |-> <<>>]
    /\ keyHolder = [k \in Keys |-> None]
    /\ slotHolder = [c \in Coordinates |-> None]
    /\ authorized = Actors
    /\ requests = [k \in Keys |-> None]
    /\ txn = [p \in Procs |-> Idle]

(***************************************************************************)
(* Clients compose requests from what they read: the open proposals, the   *)
(* current fact and the generation of a coordinate, all of which may be    *)
(* stale by the time the request is served, and any number of times.       *)
(***************************************************************************)
Body(kind, u, c, support, f, seen) ==
    [kind |-> kind, actor |-> u, coord |-> c, claims |-> support, fact |-> f,
     seen |-> seen]

Drafts(u, c) ==
    LET supports == SUBSET Open(c) \ {{}}
        create == {Body("claim.create", u, c, {}, None,
                        IF c \in Objectives THEN Generation(c) ELSE {})}
        decide == {Body(kind, u, c, {x}, None, {}) :
                     kind \in {"objective.withdraw", "objective.rework"},
                     x \in IF c \in Objectives THEN Open(c) ELSE {}}
        accept == {Body("fact.accept", u, c, s, None, {}) : s \in supports}
        supersede == {Body("fact.supersede", u, c, s, f, {}) :
                        s \in supports, f \in Current(c)}
        revoke == {Body("fact.revoke", u, c, {}, f, {}) : f \in Current(c)}
    IN  create \cup decide \cup accept \cup supersede \cup revoke

Compose(k) ==
    /\ requests[k] = None
    /\ \E u \in Actors, c \in Coordinates :
          \E b \in Drafts(u, c) : requests' = [requests EXCEPT ![k] = b]
    /\ UNCHANGED <<rows, held, authorized, txn>>

(* A request arrives, for the first time or again; a careless client sends *)
(* it under a key it used for another one of the same kind.                *)
Begin(p, k, j) ==
    /\ txn[p] = Idle
    /\ requests[k] # None /\ requests[j] # None
    /\ requests[j].kind = requests[k].kind
    /\ txn' = [txn EXCEPT ![p] = [pc |-> "begun", key |-> k,
                                  body |-> requests[j], authority |-> FALSE]]
    /\ UNCHANGED <<rows, held, authorized, requests>>

(***************************************************************************)
(* The steps of a transaction.                                             *)
(***************************************************************************)
GoTo(p, pc) == txn' = [txn EXCEPT ![p].pc = pc]

(* Mutant: the reservation outlives its transaction.                       *)
EndReserved(p) ==
    /\ txn' = [txn EXCEPT ![p] = Idle]
    /\ slotHolder' =
          [c \in Coordinates |-> IF slotHolder[c] = p THEN None ELSE slotHolder[c]]
    /\ UNCHANGED keyHolder

(* The end of a transaction, committed or not: every lock is released. *)
End(p) ==
    /\ txn' = [txn EXCEPT ![p] = Idle]
    /\ keyHolder' = [k \in Keys |-> IF keyHolder[k] = p THEN None ELSE keyHolder[k]]
    /\ slotHolder' =
          [c \in Coordinates |-> IF slotHolder[c] = p THEN None ELSE slotHolder[c]]

Rollback(p) ==
    /\ End(p)
    /\ UNCHANGED <<rows, authorized, requests>>

(* The authorization decision: the owner of the subject decides about its  *)
(* facts, the proposer reworks a proposal, either withdraws it.            *)
Permitted(b) ==
    /\ b.actor \in authorized
    /\ b.kind \in {"fact.accept", "fact.supersede", "fact.revoke"} => b.actor = Owner
    /\ b.kind = "objective.rework" => \A x \in b.claims : claims[x].by = b.actor
    /\ b.kind = "objective.withdraw" =>
          b.actor = Owner \/ \A x \in b.claims : claims[x].by = b.actor

AdmittedFirst == {"claim.create", "fact.accept"}

(* Mutant: the authority is read without locking its rows.                 *)
AdmitUnlocked(p) ==
    /\ txn[p].pc = "begun"
    /\ txn[p].body.kind \in AdmittedFirst
    /\ Permitted(txn[p].body)
    /\ GoTo(p, "admitted")
    /\ UNCHANGED <<rows, held, authorized, requests>>

(* claim.create and fact.accept lock their authority before they reserve. *)
Admit(p) ==
    /\ txn[p].pc = "begun"
    /\ txn[p].body.kind \in AdmittedFirst
    /\ Permitted(txn[p].body)
    /\ txn' = [txn EXCEPT ![p].pc = "admitted", ![p].authority = TRUE]
    /\ UNCHANGED <<rows, held, authorized, requests>>

(* Deciding about a proposal is authorized before the reservation, without *)
(* locks; the lifecycle commands are not.                                  *)
Reservable(p) ==
    \/ txn[p].pc = "admitted"
    \/ txn[p].pc = "begun" /\ txn[p].body.kind \notin AdmittedFirst

Preauthorized(b) ==
    b.kind \in {"objective.withdraw", "objective.rework"} => Permitted(b)

(* Mutant: a completed command does not stop its key from being reserved.  *)
ReserveAgain(p) ==
    LET k == txn[p].key IN
    /\ Reservable(p)
    /\ Preauthorized(txn[p].body)
    /\ keyHolder[k] = None
    /\ keyHolder' = [keyHolder EXCEPT ![k] = p]
    /\ GoTo(p, "reserved")
    /\ UNCHANGED <<rows, slotHolder, authorized, requests>>

(* The insertion of the reservation waits for an uncommitted one.          *)
Reserve(p) ==
    LET k == txn[p].key IN
    /\ Reservable(p)
    /\ Preauthorized(txn[p].body)
    /\ keyHolder[k] = None
    /\ commands[k] = None
    /\ keyHolder' = [keyHolder EXCEPT ![k] = p]
    /\ GoTo(p, "reserved")
    /\ UNCHANGED <<rows, slotHolder, authorized, requests>>

(* The same request was completed before: its result is the answer.        *)
Replay(p) ==
    LET k == txn[p].key IN
    /\ Reservable(p)
    /\ keyHolder[k] = None
    /\ commands[k] # None
    /\ commands[k].body = txn[p].body
    /\ Permitted(txn[p].body)
    /\ Rollback(p)

NeedsSlot(b) == ~(b.kind = "claim.create" /\ b.coord \in Outcomes)

(* Mutants: a proposal names no generation; a decision trusts the version  *)
(* its client read.                                                        *)
SlotOpenUnversioned(b) ==
    /\ b.kind = "claim.create" => Open(b.coord) = {}
    /\ b.kind \in {"objective.withdraw", "objective.rework"} =>
          b.claims \subseteq Open(b.coord)
    /\ b.kind = "fact.accept" => Current(b.coord) = {}
    /\ b.kind \in {"fact.supersede", "fact.revoke"} => b.fact \in Current(b.coord)

SlotOpenTrusting(b) ==
    /\ b.kind = "claim.create" =>
          Generation(b.coord) = b.seen /\ Open(b.coord) = {}
    /\ b.kind = "fact.accept" => Current(b.coord) = {}
    /\ b.kind \in {"fact.supersede", "fact.revoke"} => b.fact \in Current(b.coord)

(* What a command reads under the lock of its coordinate. *)
SlotOpen(b) ==
    /\ b.kind = "claim.create" =>
          Generation(b.coord) = b.seen /\ Open(b.coord) = {}
    /\ b.kind \in {"objective.withdraw", "objective.rework"} =>
          b.claims \subseteq Open(b.coord)
    /\ b.kind = "fact.accept" => Current(b.coord) = {}
    /\ b.kind \in {"fact.supersede", "fact.revoke"} => b.fact \in Current(b.coord)

SkipSlot(p) ==
    /\ txn[p].pc = "reserved"
    /\ ~NeedsSlot(txn[p].body)
    /\ GoTo(p, "ready")
    /\ UNCHANGED <<rows, held, authorized, requests>>

(* Mutant: the coordinate is checked without the advisory lock.            *)
LockSlotShared(p) ==
    LET b == txn[p].body IN
    /\ txn[p].pc = "reserved"
    /\ NeedsSlot(b)
    /\ SlotOpen(b)
    /\ slotHolder' = [slotHolder EXCEPT ![b.coord] = p]
    /\ GoTo(p, IF b.kind = "claim.create" THEN "ready" ELSE "locked")
    /\ UNCHANGED <<rows, keyHolder, authorized, requests>>

LockSlot(p) ==
    LET b == txn[p].body IN
    /\ txn[p].pc = "reserved"
    /\ NeedsSlot(b)
    /\ slotHolder[b.coord] = None
    /\ SlotOpen(b)
    /\ slotHolder' = [slotHolder EXCEPT ![b.coord] = p]
    /\ GoTo(p, IF b.kind = "claim.create" THEN "ready" ELSE "locked")
    /\ UNCHANGED <<rows, keyHolder, authorized, requests>>

(* Mutant: an objective is revoked under an open proposal.                 *)
VerifiedAnyProposal(b) ==
    /\ b.kind \in {"fact.accept", "fact.supersede"} =>
          b.claims # {} /\ b.claims \subseteq Open(b.coord)
    /\ b.kind \in {"fact.supersede", "fact.revoke"} => b.fact \in Current(b.coord)

(* What a command reads once it holds its authority as well. *)
Verified(b) ==
    /\ b.kind \in {"fact.accept", "fact.supersede"} =>
          b.claims # {} /\ b.claims \subseteq Open(b.coord)
    /\ b.kind \in {"fact.supersede", "fact.revoke"} => b.fact \in Current(b.coord)
    /\ b.kind = "fact.revoke" /\ b.coord \in Objectives => Open(b.coord) = {}

Verify(p) ==
    /\ txn[p].pc = "locked"
    /\ Permitted(txn[p].body)
    /\ Verified(txn[p].body)
    /\ txn' = [txn EXCEPT ![p].pc = "ready", ![p].authority = TRUE]
    /\ UNCHANGED <<rows, held, authorized, requests>>

(* A check fails: no authority, a key used for another request, a slot     *)
(* taken or vacated since the client read it, a claim or fact decided.     *)
Refuse(p) ==
    LET b == txn[p].body
        k == txn[p].key IN
    /\ \/ /\ txn[p].pc = "begun" /\ b.kind \in AdmittedFirst
          /\ ~Permitted(b)
       \/ /\ Reservable(p) /\ keyHolder[k] = None
          /\ IF commands[k] = None THEN ~Preauthorized(b)
             ELSE commands[k].body # b \/ ~Permitted(b)
       \/ /\ txn[p].pc = "reserved" /\ NeedsSlot(b) /\ slotHolder[b.coord] = None
          /\ ~SlotOpen(b)
       \/ /\ txn[p].pc = "locked"
          /\ ~(Permitted(b) /\ Verified(b))
    /\ Rollback(p)

(* A statement fails, its evidence is not admitted or the process dies.    *)
Fail(p) ==
    /\ txn[p] # Idle
    /\ Rollback(p)

(***************************************************************************)
(* The writes of a command, its completion and its announcement, at commit *)
(***************************************************************************)
Result(cs, fs) == [claims |-> cs, facts |-> fs]

Complete(p, result) ==
    LET k == txn[p].key IN
    /\ commands' = [commands EXCEPT ![k] = [body |-> txn[p].body, result |-> result]]
    /\ outbox' = [outbox EXCEPT ![k] = Append(@, result)]
    /\ End(p)
    /\ UNCHANGED <<authorized, requests>>

(* Mutant: the claim does not say who proposed it.                         *)
ProposalUnsigned(p) ==
    [coord |-> txn[p].body.coord, status |-> "proposed", by |-> None, key |-> txn[p].key]

Proposal(p) ==
    [coord |-> txn[p].body.coord, status |-> "proposed",
     by |-> txn[p].body.actor, key |-> txn[p].key]

Ready(p, kind) ==
    /\ txn[p].pc = "ready"
    /\ txn[p].body.kind = kind

CommitCreate(p) ==
    /\ Ready(p, "claim.create")
    /\ \E x \in ClaimIds :
          /\ Fresh(x, claims, ClaimIds)
          /\ claims' = [claims EXCEPT ![x] = Proposal(p)]
          /\ Complete(p, Result({x}, {}))
    /\ UNCHANGED <<facts, recoveries, lifecycle>>

Link(x, y, k) == [predecessor |-> x, successor |-> y, key |-> k]

CommitWithdraw(p) ==
    /\ Ready(p, "objective.withdraw")
    /\ \E x \in txn[p].body.claims :
          /\ claims' = [claims EXCEPT ![x].status = "rejected"]
          /\ recoveries' = recoveries \cup {Link(x, None, txn[p].key)}
          /\ Complete(p, Result({x}, {}))
    /\ UNCHANGED <<facts, lifecycle>>

CommitRework(p) ==
    /\ Ready(p, "objective.rework")
    /\ \E x \in txn[p].body.claims, y \in ClaimIds :
          /\ Fresh(y, claims, ClaimIds)
          /\ claims' = [claims EXCEPT ![x].status = "superseded", ![y] = Proposal(p)]
          /\ recoveries' = recoveries \cup {Link(x, y, txn[p].key)}
          /\ Complete(p, Result({x, y}, {}))
    /\ UNCHANGED <<facts, lifecycle>>

NewFact(p) ==
    [coord |-> txn[p].body.coord, status |-> "current",
     support |-> txn[p].body.claims, key |-> txn[p].key]

Accepted(support) ==
    [x \in ClaimIds |-> IF x \in support THEN [claims[x] EXCEPT !.status = "accepted"]
                                         ELSE claims[x]]

CommitAccept(p) ==
    /\ Ready(p, "fact.accept")
    /\ \E f \in FactIds :
          /\ Fresh(f, facts, FactIds)
          /\ facts' = [facts EXCEPT ![f] = NewFact(p)]
          /\ claims' = Accepted(txn[p].body.claims)
          /\ Complete(p, Result({}, {f}))
    /\ UNCHANGED <<recoveries, lifecycle>>

Retired(f, status, k) == [facts[f] EXCEPT !.status = status, !.key = k]

CommitSupersede(p) ==
    LET f == txn[p].body.fact
        k == txn[p].key IN
    /\ Ready(p, "fact.supersede")
    /\ \E g \in FactIds :
          /\ Fresh(g, facts, FactIds)
          /\ facts' = [facts EXCEPT ![f] = Retired(f, "superseded", k),
                                    ![g] = NewFact(p)]
          /\ claims' = Accepted(txn[p].body.claims)
          /\ lifecycle' = lifecycle \cup {Link(f, g, k)}
          /\ Complete(p, Result({}, {f, g}))
    /\ UNCHANGED recoveries

CommitRevoke(p) ==
    LET f == txn[p].body.fact
        k == txn[p].key IN
    /\ Ready(p, "fact.revoke")
    /\ facts' = [facts EXCEPT ![f] = Retired(f, "revoked", k)]
    /\ lifecycle' = lifecycle \cup {Link(f, None, k)}
    /\ Complete(p, Result({}, {f}))
    /\ UNCHANGED <<claims, recoveries>>

(***************************************************************************)
(* An administrator ends an actor's authority; the update waits for        *)
(* transactions that hold the rows.                                        *)
(***************************************************************************)
RevokeAuthority(u) ==
    /\ u \in authorized
    /\ \A p \in Procs : txn[p].authority => txn[p].body.actor # u
    /\ authorized' = authorized \ {u}
    /\ UNCHANGED <<rows, held, requests, txn>>

Commit(p) ==
    \/ CommitCreate(p)
    \/ CommitWithdraw(p)
    \/ CommitRework(p)
    \/ CommitAccept(p)
    \/ CommitSupersede(p)
    \/ CommitRevoke(p)

Next ==
    \/ \E k \in Keys : Compose(k)
    \/ \E p \in Procs :
          \/ \E k, j \in Keys : Begin(p, k, j)
          \/ Admit(p)
          \/ Reserve(p)
          \/ Replay(p)
          \/ SkipSlot(p)
          \/ LockSlot(p)
          \/ Verify(p)
          \/ Refuse(p)
          \/ Fail(p)
          \/ Commit(p)
    \/ \E u \in Actors : RevokeAuthority(u)

Spec == Init /\ [][Next]_vars

(***************************************************************************)
(* PostgreSQL queues the waiters of a lock, and a request that is neither  *)
(* blocked nor dead runs on.                                               *)
(***************************************************************************)
Fairness ==
    \A p \in Procs :
        /\ SF_vars(Reserve(p)) /\ SF_vars(Replay(p)) /\ SF_vars(LockSlot(p))
        /\ SF_vars(Refuse(p))
        /\ WF_vars(Admit(p) \/ SkipSlot(p) \/ Verify(p) \/ Commit(p))

FairSpec == Spec /\ Fairness

(***************************************************************************)
(* Properties.                                                             *)
(***************************************************************************)
ClaimStatuses == {"proposed", "accepted", "rejected", "superseded"}

ClaimRows == [coord : Coordinates, status : ClaimStatuses, by : Actors, key : Keys]

FactRows == [coord : Coordinates, status : {"current", "superseded", "revoked"},
             support : SUBSET ClaimIds, key : Keys]

Links(ids) == [predecessor : ids, successor : ids \cup {None}, key : Keys]

Bodies ==
    [kind : Kinds, actor : Actors, coord : Coordinates, claims : SUBSET ClaimIds,
     fact : FactIds \cup {None}, seen : SUBSET (ClaimIds \X ClaimStatuses)]

Results == [claims : SUBSET ClaimIds, facts : SUBSET FactIds]

Records == [body : Bodies, result : Results]

(* A completed record is not the absence of one.                           *)
ASSUME NoneAssumption == None \notin Records

Running == [pc : {"begun", "admitted", "reserved", "locked", "ready"}, key : Keys,
            body : Bodies, authority : BOOLEAN]

(* Type correctness of every table, lock and transaction. *)
TypeOK ==
    /\ claims \in [ClaimIds -> ClaimRows \cup {NoClaim}]
    /\ facts \in [FactIds -> FactRows \cup {NoFact}]
    /\ recoveries \subseteq Links(ClaimIds)
    /\ lifecycle \subseteq Links(FactIds)
    /\ commands \in [Keys -> Records \cup {None}]
    /\ outbox \in [Keys -> Seq(Results)]
    /\ keyHolder \in [Keys -> Procs \cup {None}]
    /\ slotHolder \in [Coordinates -> Procs \cup {None}]
    /\ authorized \subseteq Actors
    /\ requests \in [Keys -> Bodies \cup {None}]
    /\ txn \in [Procs -> Running \cup {Idle}]

(* A coordinate never has two current facts: the advisory lock keeps the   *)
(* commands apart before the index accepted_facts_one_current_slot has to. *)
OneCurrentFact ==
    \A c \in Coordinates : \A f, g \in Current(c) : f = g

(* An objective never has two open proposals, whatever creates, reworks    *)
(* and retries race (index claims_one_active_primary_objective_proposal).  *)
OneOpenProposal ==
    \A c \in Objectives : \A x, y \in Open(c) : x = y

(* A claim is accepted exactly when it supports a fact of its coordinate,  *)
(* and it supports no second one (truth.validate_fact_support).            *)
SupportIsExact ==
    /\ \A f \in Recorded(facts, FactIds) :
          /\ facts[f].support # {}
          /\ \A x \in facts[f].support :
                claims[x].status = "accepted" /\ claims[x].coord = facts[f].coord
    /\ \A x \in ClaimIds : claims[x].status = "accepted" =>
          \E f \in FactIds : \A g \in FactIds : x \in facts[g].support <=> g = f

(* The lineage tables tell exactly how every claim and fact ended: one     *)
(* link per ended row, to a successor of the same coordinate that succeeds *)
(* nothing else, and none from a row that is open or current.              *)
LineageIsExact ==
    /\ \A x \in ClaimIds :
          /\ claims[x].status = "rejected" <=>
                \E l \in recoveries : l.predecessor = x /\ l.successor = None
          /\ claims[x].status = "superseded" <=>
                \E l \in recoveries : l.predecessor = x /\ l.successor # None
    /\ \A f \in FactIds :
          /\ facts[f].status = "revoked" <=>
                \E l \in lifecycle : l.predecessor = f /\ l.successor = None
          /\ facts[f].status = "superseded" <=>
                \E l \in lifecycle : l.predecessor = f /\ l.successor # None
    /\ \A l, m \in recoveries :
          /\ l.predecessor = m.predecessor => l = m
          /\ l.successor = m.successor /\ l.successor # None => l = m
          /\ l.successor # None =>
                claims[l.successor].coord = claims[l.predecessor].coord
    /\ \A l, m \in lifecycle :
          /\ l.predecessor = m.predecessor => l = m
          /\ l.successor = m.successor /\ l.successor # None => l = m
          /\ l.successor # None =>
                facts[l.successor].coord = facts[l.predecessor].coord

(* What the tables of claims, facts, support and lineage say of the past   *)
(* agrees whatever was retried, raced or stopped half-way: facts rest on   *)
(* accepted claims of their coordinate, and everything that ended has one  *)
(* recorded end (the supersession writes both tables in one transaction).  *)
HistoryIsExact == SupportIsExact /\ LineageIsExact

Caused(k) ==
    [claims     |-> Cardinality({x \in ClaimIds : claims[x].key = k}),
     recoveries |-> Cardinality({l \in recoveries : l.key = k}),
     lifecycle  |-> Cardinality({l \in lifecycle : l.key = k})]

Causes(kind) ==
    [claims     |-> IF kind \in {"claim.create", "objective.rework"} THEN 1 ELSE 0,
     recoveries |-> IF kind \in {"objective.withdraw", "objective.rework"} THEN 1 ELSE 0,
     lifecycle  |-> IF kind \in {"fact.supersede", "fact.revoke"} THEN 1 ELSE 0]

(* However often a request is sent, its command takes effect once: it      *)
(* causes the rows of its kind and one announcement, of its own result,    *)
(* and before it is completed it has caused nothing                        *)
(* (ops.require_b2_slice1_command_atomicity).                              *)
OneEffectPerCommand ==
    \A k \in Keys :
        IF commands[k] = None
        THEN outbox[k] = <<>> /\ Caused(k) = [claims |-> 0, recoveries |-> 0, lifecycle |-> 0]
        ELSE outbox[k] = <<commands[k].result>> /\ Caused(k) = Causes(commands[k].body.kind)

Completes(k) == commands[k] = None /\ commands'[k] # None

(* A proposal for an objective is recorded only while the latest claim is  *)
(* the one its author saw, in the status they saw.                         *)
GenerationIsSeen ==
    [][\A k \in Keys :
          Completes(k) =>
             LET b == commands'[k].body IN
             b.kind = "claim.create" /\ b.coord \in Objectives =>
                Generation(b.coord) = b.seen]_vars

(* No command commits for an actor whose authority has been revoked.       *)
WritersAreAuthorized ==
    [][\A k \in Keys : Completes(k) => commands'[k].body.actor \in authorized]_vars

(* Every commit is one step of the ledger's promise: what a transaction    *)
(* checked before it waited for locks and authority still holds.           *)
Slots == INSTANCE TruthSlots WITH
    SingleOpen <- Objectives,
    open <- [c \in Coordinates |-> Open(c)],
    current <- [c \in Coordinates |-> Current(c)],
    named <- [claims |-> Recorded(claims, ClaimIds), facts |-> Recorded(facts, FactIds)]

SlotsSpec == Slots!Spec

(* No command waits for ever: neither on another one's reservation nor on  *)
(* a coordinate, and no two wait for each other.                           *)
CommandsEnd ==
    \A p \in Procs : (txn[p] # Idle) ~> (txn[p] = Idle)
=============================================================================
