----------------------------- MODULE LockOrder ------------------------------
(***************************************************************************)
(* The order in which transactions lock rows.  Every command of the two    *)
(* command buses, a product publish, provisioning and the foundation       *)
(* transactions run as one database transaction that takes row locks one   *)
(* by one and holds all of them until it commits or rolls back.  Here a    *)
(* transaction is the script of the locks it takes, in code order, and     *)
(* the question is whether some of them can wait for each other for ever.  *)
(*                                                                         *)
(* Modes are PostgreSQL's: FOR KEY SHARE (a foreign key check), FOR SHARE  *)
(* and FOR UPDATE (also an UPDATE of the row, the entry of a unique index  *)
(* and an advisory lock).  A lock taken again in a mode that is already    *)
(* held adds nothing and is left out.  One workspace, one human actor, and *)
(* per Space one resource of each type.  Only holders block: PostgreSQL    *)
(* lets a compatible request pass a waiting one.                           *)
(***************************************************************************)
EXTENDS Naturals, Sequences, FiniteSets

CONSTANTS
    Txns,      \* database sessions
    Spaces,    \* ids of Spaces; rows are locked in the order of their ids
    Keys,      \* idempotency keys; also the outbox rows and async references
    Casts,     \* which kinds of transaction each session runs
    None       \* no open transaction

Commands ==
    {"organization.create", "initiative.create", "activity.create",
     "relationship.create", "relationship.end", "content.create",
     "content.revise", "source.capture", "source.correct", "source.tombstone",
     "claim.create", "objective.withdraw", "objective.rework", "fact.accept",
     "fact.supersede"}
Relaying == {"publish", "provision"}
Foundation == {"worker", "relay", "proof"}
Kinds == Commands \cup Relaying \cup Foundation

ASSUME ScopeAssumption ==
    /\ Spaces \subseteq Nat
    /\ Casts \subseteq [Txns -> SUBSET Kinds]
    /\ \A kind \in Kinds, s \in Spaces, k \in Keys :
          None # [kind |-> kind, space |-> s, key |-> k]

----------------------------------------------------------------------------
(* Rows: a table and, where several rows of it matter, an id.              *)

Tenant        == <<"tenant", 0>>
Workspace     == <<"workspace", 0>>
Policy        == <<"policy", 0>>
Principal     == <<"principal", 0>>   \* product relay service principal
User          == <<"user", 0>>
Membership    == <<"membership", 0>>
Space(s)      == <<"space", s>>
UserGrant(s)  == <<"userGrant", s>>   \* access of the actor to the Space
RelayGrant(s) == <<"relayGrant", s>>  \* access of the product relay to it
Row(table, s) == <<table, s>>

Modes == {"key share", "share", "update"}

Conflict(m, n) ==
    \/ m = "update" \/ n = "update"

In(mode, rows) == [i \in DOMAIN rows |-> [row |-> rows[i], mode |-> mode]]

(* INSERT of the command record: the entry of its unique index, then the   *)
(* rows its foreign keys refer to.                                         *)
Reserve(kind, k, s) ==
    In("update", << <<kind, k>> >>)
        \o In("key share", <<Workspace, Space(s), Membership, Policy>>)

(* relayPrincipalForSpace of the account bus and of the truth ledger.      *)
Announce(s)      == In("update", <<Principal, RelayGrant(s)>>)
AnnounceTruth(s) == In("share", <<Principal, RelayGrant(s)>>)

(* canInTransaction with lockAuthority: the Space and the grant the access *)
(* comes from after the policy version and the actor.                      *)
Authority(s) ==
    In("share", <<Policy, Membership, User, Space(s), UserGrant(s)>>)

----------------------------------------------------------------------------
(* Account operations.                                                     *)

OrganizationCreate(s, k) ==
    In("share", <<Workspace>>) \o In("update", <<Space(s)>>)
        \o Reserve("organization.create", k, s) \o In("update", <<Principal>>)

InitiativeCreate(s, k) ==
    In("update", <<Space(s)>>) \o In("share", <<Workspace>>)
        \o Reserve("initiative.create", k, s) \o In("update", <<Principal>>)

ActivityCreate(s, k) ==
    In("update", <<Space(s)>>) \o In("share", <<Workspace>>)
        \o Reserve("activity.create", k, s) \o Announce(s)

(* Mutant of SpaceCreate: the relay principal before the Space.            *)
AnnouncedFirst(kind, s, k) ==
    Announce(s) \o In("update", <<Space(s)>>) \o Reserve(kind, k, s)

(* relationship.create and content.create.                                 *)
SpaceCreate(kind, s, k) ==
    In("update", <<Space(s)>>) \o Reserve(kind, k, s) \o Announce(s)

(* The relationship governed by s, with endpoints in every Space: the      *)
(* whole authority is locked in the order of ids before the reservation.   *)
InIdOrder == CHOOSE q \in [1..Cardinality(Spaces) -> Spaces] :
                 \A i, j \in DOMAIN q : i < j => q[i] < q[j]

RelationshipEnd(s, k) ==
    In("update", <<Row("relationship", s)>>)
        \o In("share", <<Policy, Membership, User>>)
        \o In("share", [i \in DOMAIN InIdOrder |-> Space(InIdOrder[i])])
        \o In("share", [i \in DOMAIN InIdOrder |-> UserGrant(InIdOrder[i])])
        \o Reserve("relationship.end", k, s) \o Announce(s)

ContentRevise(s, k) ==
    In("update", <<Row("content", s)>>)
        \o Reserve("content.revise", k, s) \o Announce(s)

(* Capture from a content revision, whose authority is locked.             *)
SourceCapture(s, k) ==
    In("share", <<Row("activity", s), Workspace>>) \o Authority(s)
        \o Reserve("source.capture", k, s) \o Announce(s)

(* The insert trigger takes the advisory lock of the predecessor.          *)
SourceCorrect(s, k) ==
    Authority(s) \o In("share", <<Row("activity", s)>>)
        \o Reserve("source.correct", k, s)
        \o In("update", <<Row("source", s)>>) \o In("share", <<Workspace>>)
        \o In("update", <<Row("sourceTruth", s)>>) \o Announce(s)

SourceTombstone(s, k) ==
    Authority(s) \o In("update", <<Row("source", s)>>)
        \o Reserve("source.tombstone", k, s)
        \o In("update", <<Row("sourceTruth", s)>>) \o Announce(s)

----------------------------------------------------------------------------
(* The truth ledger, on the primary objective of the subject in s.         *)

(* Inserting evidence takes the advisory lock of the source in a trigger.  *)
Evidence(s) ==
    In("share", <<Row("source", s)>>) \o In("update", <<Row("sourceTruth", s)>>)

ClaimCreate(s, k) ==
    In("share", <<Row("subject", s), Space(s)>>) \o Authority(s)
        \o In("share", <<Row("source", s), Row("activity", s)>>)
        \o Reserve("claim.create", k, s)
        \o In("update", <<Row("coordinate", s)>>)
        \o Evidence(s) \o AnnounceTruth(s)

(* lockReservationIdentity comes before the unlocked authorization.        *)
Recover(kind, s, k) ==
    In("share", <<Row("subject", s), Space(s)>>)
        \o In("update", << <<"identity", k>> >>) \o Reserve(kind, k, s)
        \o In("update", <<Row("coordinate", s), Row("claim", s)>>)
        \o Authority(s)

ObjectiveWithdraw(s, k) ==
    Recover("objective.withdraw", s, k) \o AnnounceTruth(s)

ObjectiveRework(s, k) ==
    Recover("objective.rework", s, k) \o Evidence(s) \o AnnounceTruth(s)

FactAccept(s, k) ==
    In("share", <<Row("subject", s), Space(s)>>) \o Authority(s)
        \o Reserve("fact.accept", k, s)
        \o In("update", <<Row("coordinate", s), Row("claim", s)>>)
        \o In("share", <<Row("source", s)>>) \o AnnounceTruth(s)

(* Supersession; a revocation stops before the replacement claim.          *)
FactSupersede(s, k) ==
    Reserve("fact.supersede", k, s)
        \o In("update", <<Row("coordinate", s), Row("fact", s)>>)
        \o Authority(s) \o In("share", <<Row("subject", s)>>)
        \o In("update", <<Row("claim", s)>>)
        \o In("share", <<Row("source", s)>>) \o AnnounceTruth(s)

----------------------------------------------------------------------------
(* Relay, provisioning and foundation transactions.                        *)

Publish(s, k) ==
    In("update", <<Row("event", k), Tenant, Workspace, Policy, Principal,
                   Space(s), RelayGrant(s)>>)

Provision(s, k) == In("update", <<Workspace, Principal, Space(s), RelayGrant(s)>>)

WorkerRun(s, k) ==
    In("update", <<Row("reference", k), Tenant, Workspace, Policy,
                   Row("worker", 0), User, Membership, Space(s),
                   UserGrant(s), Row("workerGrant", s)>>)

RelayRun(s, k) ==
    In("share", <<Tenant, Workspace, Policy, Row("foundationRelay", 0),
                  Space(s), Row("foundationGrant", s)>>)

ProofCreate(s, k) ==
    In("share", <<Tenant, Workspace, Policy, Membership, User, Space(s)>>)

----------------------------------------------------------------------------
Script(kind, s, k) ==
    CASE kind = "organization.create" -> OrganizationCreate(s, k)
      [] kind = "initiative.create"   -> InitiativeCreate(s, k)
      [] kind = "activity.create"     -> ActivityCreate(s, k)
      [] kind \in {"relationship.create", "content.create"} ->
             SpaceCreate(kind, s, k)
      [] kind = "relationship.end"    -> RelationshipEnd(s, k)
      [] kind = "content.revise"      -> ContentRevise(s, k)
      [] kind = "source.capture"      -> SourceCapture(s, k)
      [] kind = "source.correct"      -> SourceCorrect(s, k)
      [] kind = "source.tombstone"    -> SourceTombstone(s, k)
      [] kind = "claim.create"        -> ClaimCreate(s, k)
      [] kind = "objective.withdraw"  -> ObjectiveWithdraw(s, k)
      [] kind = "objective.rework"    -> ObjectiveRework(s, k)
      [] kind = "fact.accept"         -> FactAccept(s, k)
      [] kind = "fact.supersede"      -> FactSupersede(s, k)
      [] kind = "publish"             -> Publish(s, k)
      [] kind = "provision"           -> Provision(s, k)
      [] kind = "worker"              -> WorkerRun(s, k)
      [] kind = "relay"               -> RelayRun(s, k)
      [] kind = "proof"               -> ProofCreate(s, k)

Jobs == [kind : Kinds, space : Spaces, key : Keys]

Plan == [kind \in Kinds |-> [s \in Spaces |-> [k \in Keys |-> Script(kind, s, k)]]]

VARIABLES
    cast,  \* the kinds each session runs, fixed at the start
    job,   \* the open transaction of a session
    held   \* how many of its locks it has

vars == <<cast, job, held>>

Init ==
    /\ cast \in Casts
    /\ job = [t \in Txns |-> None]
    /\ held = [t \in Txns |-> 0]

Open(t) == job[t] # None

(* The locks that session t takes, in order, and the one it takes next.    *)
Locks(t) == Plan[job[t].kind][job[t].space][job[t].key]

Wants(t) == Open(t) /\ held[t] + 1 \in DOMAIN Locks(t)

Wanted(t) == Locks(t)[held[t] + 1]

(* u holds the row t wants, in a mode that conflicts.                      *)
Blocks(u, t) ==
    /\ u # t
    /\ Wants(t)
    /\ Open(u)
    /\ \E i \in 1..held[u] :
          /\ Locks(u)[i].row = Wanted(t).row
          /\ Conflict(Locks(u)[i].mode, Wanted(t).mode)

Waiting(t) == \E u \in Txns : Blocks(u, t)

(* BEGIN: the request names a Space and an idempotency key.                *)
Begin(t) ==
    /\ ~Open(t)
    /\ \E j \in Jobs : j.kind \in cast[t] /\ job' = [job EXCEPT ![t] = j]
    /\ UNCHANGED <<cast, held>>

Acquire(t) ==
    /\ Wants(t)
    /\ ~Waiting(t)
    /\ held' = [held EXCEPT ![t] = @ + 1]
    /\ UNCHANGED <<cast, job>>

(* Commit, denial, replay or failure at any point where t is running; all  *)
(* locks are released together.                                            *)
End(t) ==
    /\ Open(t)
    /\ ~Waiting(t)
    /\ job' = [job EXCEPT ![t] = None]
    /\ held' = [held EXCEPT ![t] = 0]
    /\ UNCHANGED cast

Next == \E t \in Txns : Begin(t) \/ Acquire(t) \/ End(t)

Spec == Init /\ [][Next]_vars

----------------------------------------------------------------------------
(* A session holds a prefix of the locks its transaction takes, and runs   *)
(* only what its part in the cast allows.                                  *)
TypeOK ==
    /\ cast \in Casts
    /\ job \in [Txns -> Jobs \cup {None}]
    /\ held \in [Txns -> Nat]
    /\ \A t \in Txns :
          /\ Open(t) => job[t].kind \in cast[t]
          /\ IF Open(t) THEN 1..held[t] \subseteq DOMAIN Locks(t) ELSE held[t] = 0

(* No set of transactions in which each waits for another one of the set:  *)
(* the lock order the code follows ("the fixed order has no deadlock") and *)
(* the reason why no command ever retries a deadlock error.                *)
NoDeadlock ==
    LET stuck == {t \in Txns : Waiting(t)}
    IN  ~\E D \in (SUBSET stuck) \ {{}} : \A t \in D : \E u \in D : Blocks(u, t)
=============================================================================
