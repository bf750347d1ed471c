----------------------- MODULE FoundationWorkerProofs -----------------------
(***************************************************************************)
(* The worker keeps its promises for any number of workers, jobs, copies   *)
(* and receives, whatever its authorization locks.                         *)
(***************************************************************************)
EXTENDS FoundationWorker, FiniteSetTheorems, TLAPS

(* What the rows say about each other.  The heart is PendingIsFresh: a     *)
(* pending job has never been applied and owns the current version.        *)
RecordsAreCounted ==
    IsFiniteSet(records) /\ aggregate.effects = Cardinality(records)

RecordsAreUnique == \A r, s \in records : r.job = s.job => r = s

RecordsFollowEvents ==
    \A r \in records : event[r.job] # 0 /\ r.version = event[r.job] + 1

PendingIsFresh ==
    aggregate.pending # None =>
        /\ aggregate.version # 0
        /\ event[aggregate.pending] = aggregate.version
        /\ ~Applied(aggregate.pending)

DataInv ==
    /\ RecordsAreCounted
    /\ RecordsAreUnique
    /\ RecordsFollowEvents
    /\ PendingIsFresh
    /\ DuplicatesCanBeConfirmed

(* What the workers know about the rows.  A lock pins the pending job.     *)
BusyHasMessage ==
    \A w \in Workers :
        worker[w].phase # "idle" =>
            worker[w].job \in Jobs /\ worker[w].copy \in Copies

LockersHoldTheLock ==
    \A w \in Workers :
        worker[w].phase \in {"locked", "committing"} <=> aggregateLock = w

LockedIsPending ==
    /\ \A w \in Workers :
          aggregateLock = w => aggregate.pending = worker[w].job
    /\ aggregateLock = Server => aggregate.pending \in Jobs

DoneIsApplied ==
    \A w \in Workers : worker[w].phase = "done" => Applied(worker[w].job)

ControlInv ==
    /\ BusyHasMessage
    /\ LockersHoldTheLock
    /\ LockedIsPending
    /\ DoneIsApplied
    /\ DeletedOnlyWhenApplied

Inv == TypeOK /\ DataInv /\ ControlInv

(* The initial state satisfies the invariant.                              *)
LEMMA InitInv == Init => Inv
<1> SUFFICES ASSUME Init PROVE Inv
  OBVIOUS
<1> USE ConstantsAssumption DEF Init, NoAggregate, Idle, Messages
<1>1. TypeOK
  BY DEF TypeOK, Phases, Aggregates, Records, WorkerStates
<1>2. DataInv
  <2>1. RecordsAreCounted
    BY FS_EmptySet DEF RecordsAreCounted
  <2> QED
    BY <2>1 DEF DataInv, RecordsAreUnique, RecordsFollowEvents, PendingIsFresh,
                DuplicatesCanBeConfirmed, Duplicate, Applied
<1>3. ControlInv
  BY DEF ControlInv, BusyHasMessage, LockersHoldTheLock, LockedIsPending,
         DoneIsApplied, DeletedOnlyWhenApplied, Applied
<1> QED
  BY <1>1, <1>2, <1>3 DEF Inv

(* A new proof and an effect keep the shape of the aggregate.              *)
LEMMA CreateTypes ==
    ASSUME NEW a \in Aggregates, NEW j \in Jobs
    PROVE  [a EXCEPT !.version = @ + 1, !.pending = j] \in Aggregates
<1>1. a.version + 1 \in Nat
  BY DEF Aggregates
<1> QED
  BY <1>1 DEF Aggregates

LEMMA EffectTypes ==
    ASSUME aggregate \in Aggregates, records \subseteq Records,
           NEW j \in Jobs, Effect(j)
    PROVE  aggregate' \in Aggregates /\ records' \subseteq Records
<1>1. aggregate' \in Aggregates
  <2>1. /\ aggregate.version + 1 \in Nat
        /\ aggregate.effects + 1 \in Nat
    BY DEF Aggregates
  <2> QED
    BY <2>1 DEF Effect, Aggregates
<1>2. [job |-> j, version |-> aggregate.version + 1] \in Records
  BY DEF Aggregates, Records
<1> QED
  BY <1>1, <1>2 DEF Effect

(* Every step keeps the types.                                             *)
LEMMA TypeStep == Inv /\ [Next]_vars => TypeOK'
<1> SUFFICES ASSUME Inv, [Next]_vars PROVE TypeOK'
  OBVIOUS
<1> USE ConstantsAssumption DEF Inv
<1>1. ASSUME NEW j \in Jobs, CreateProof(j) \/ Expire(j) \/ Revoke(j)
      PROVE  TypeOK'
  <2>1. CASE CreateProof(j)
    <3>1. aggregate' \in Aggregates
      BY <2>1, CreateTypes DEF TypeOK, CreateProof
    <3>2. event' \in [Jobs -> Nat]
      BY <2>1 DEF TypeOK, CreateProof, Aggregates
    <3>3. reference' \in [Jobs -> {"none", "active", "revoked", "expired"}]
      BY <2>1 DEF TypeOK, CreateProof
    <3> QED
      BY <2>1, <3>1, <3>2, <3>3 DEF TypeOK, CreateProof, locks, queue
  <2>2. CASE Expire(j) \/ Revoke(j)
    BY <2>2 DEF TypeOK, Expire, Revoke, locks, queue
  <2> QED
    BY <1>1, <2>1, <2>2
<1>2. ASSUME NEW j \in Jobs, NEW k \in Copies, Enqueue(j, k) \/ Redrive(j, k)
      PROVE  TypeOK'
  BY <1>2 DEF TypeOK, Enqueue, Redrive, database, locks, proof, Messages
<1>3. ASSUME NEW w \in Workers, WorkerStep(w) PROVE TypeOK'
  <2> USE DEF Unlock, GoTo, Finish, database, locks, proof, queue
  <2>1. CASE Receive(w)
    BY <2>1 DEF TypeOK, Receive, Phases, Messages, WorkerStates
  <2>2. CASE Rehydrate(w) \/ Authorize(w) \/ Discover(w) \/ Write(w)
    BY <2>2 DEF TypeOK, Rehydrate, Authorize, Discover, Write, Phases,
                WorkerStates, Aggregates
  <2>3. CASE ConfirmDuplicate(w) \/ OutOfOrder(w) \/ LockPending(w)
    BY <2>3 DEF TypeOK, ConfirmDuplicate, OutOfOrder, LockPending, Phases,
                WorkerStates
  <2>4. CASE RediscoverDuplicate(w) \/ RediscoverNothing(w)
    BY <2>4 DEF TypeOK, RediscoverDuplicate, RediscoverNothing, Phases,
                WorkerStates
  <2>5. CASE Delete(w) \/ Undeleted(w)
    <3>1. Idle \in WorkerStates
      BY DEF Idle, Phases, WorkerStates
    <3>2. message' \in [Messages -> {"unsent", "queued", "deleted", "dead"}]
      BY <2>5 DEF TypeOK, Delete, Undeleted
    <3> QED
      BY <2>5, <3>1, <3>2 DEF TypeOK, Delete, Undeleted
  <2>6. CASE Commit(w) \/ CommitLost(w)
    <3>1. worker[w].job \in Jobs
      BY <2>6 DEF Commit, CommitLost, ControlInv, BusyHasMessage
    <3>2. aggregate' \in Aggregates /\ records' \subseteq Records
      BY <2>6, <3>1, EffectTypes DEF Commit, CommitLost, TypeOK
    <3> QED
      BY <2>6, <3>2 DEF TypeOK, Commit, CommitLost, Phases, WorkerStates, Idle
  <2> QED
    BY <1>3, <2>1, <2>2, <2>3, <2>4, <2>5, <2>6 DEF WorkerStep
<1>4. CASE DecideInDoubt
  <2>1. aggregate.pending \in Jobs
    BY <1>4 DEF DecideInDoubt, ControlInv, LockedIsPending
  <2>2. aggregate' \in Aggregates /\ records' \subseteq Records
    BY <1>4, <2>1, EffectTypes DEF DecideInDoubt, TypeOK
  <2> QED
    BY <1>4, <2>2 DEF TypeOK, DecideInDoubt, proof, queue
<1>5. CASE UNCHANGED vars
  BY <1>5 DEF TypeOK, vars
<1> QED
  BY <1>1, <1>2, <1>3, <1>4, <1>5 DEF Next
(* An effect, of the pending job, keeps the rows consistent.               *)
LEMMA EffectKeepsData ==
    ASSUME TypeOK, DataInv, NEW j \in Jobs, aggregate.pending = j, Effect(j),
           event' = event
    PROVE  /\ DataInv'
           /\ records' = records \cup
                 {[job |-> j, version |-> aggregate.version + 1]}
           /\ aggregate'.pending = None
<1> DEFINE rec == [job |-> j, version |-> aggregate.version + 1]
<1> USE ConstantsAssumption DEF DataInv
<1>1. /\ records' = records \cup {rec}
      /\ aggregate'.pending = None
      /\ aggregate'.last = j
      /\ aggregate'.effects = aggregate.effects + 1
      /\ aggregate'.version = aggregate.version + 1
  BY DEF Effect, TypeOK, Aggregates
<1>2. \A r \in records : r.job # j
  BY DEF PendingIsFresh, Applied
<1>3. rec \notin records
  BY <1>2
<1>4. RecordsAreCounted'
  <2>1. /\ IsFiniteSet(records \cup {rec})
        /\ Cardinality(records \cup {rec}) = Cardinality(records) + 1
    BY <1>3, FS_AddElement DEF RecordsAreCounted
  <2> QED
    BY <1>1, <2>1 DEF RecordsAreCounted
<1>5. RecordsAreUnique'
  BY <1>1, <1>2 DEF RecordsAreUnique
<1>6. RecordsFollowEvents'
  BY <1>1 DEF RecordsFollowEvents, PendingIsFresh
<1>7. PendingIsFresh'
  BY <1>1 DEF PendingIsFresh
<1>8. DuplicatesCanBeConfirmed'
  BY <1>1 DEF DuplicatesCanBeConfirmed, Duplicate
<1> QED
  BY <1>1, <1>4, <1>5, <1>6, <1>7, <1>8

(* A new proof finds no record of its job.                                 *)
LEMMA CreateKeepsData ==
    ASSUME TypeOK, DataInv, NEW j \in Jobs, CreateProof(j)
    PROVE  DataInv'
<1> USE ConstantsAssumption DEF DataInv
<1>1. /\ aggregate'.pending = j
      /\ aggregate'.version = aggregate.version + 1
      /\ aggregate'.effects = aggregate.effects
      /\ records' = records
      /\ event'[j] = aggregate.version + 1
      /\ \A i \in Jobs : i # j => event'[i] = event[i]
      /\ aggregate.version \in Nat
  BY DEF CreateProof, TypeOK, Aggregates
<1>2. \A r \in records : r.job \in Jobs /\ r.job # j
  BY DEF RecordsFollowEvents, CreateProof, TypeOK, Records
<1>3. RecordsAreCounted' /\ RecordsAreUnique'
  BY <1>1 DEF RecordsAreCounted, RecordsAreUnique
<1>4. RecordsFollowEvents'
  BY <1>1, <1>2 DEF RecordsFollowEvents
<1>5. PendingIsFresh'
  BY <1>1, <1>2 DEF PendingIsFresh, Applied
<1>6. DuplicatesCanBeConfirmed'
  BY <1>1 DEF DuplicatesCanBeConfirmed, Duplicate
<1> QED
  BY <1>3, <1>4, <1>5, <1>6

(* What is said of the rows holds as long as they do not change.           *)
LEMMA SameData ==
    ASSUME DataInv, UNCHANGED <<aggregate, records, event>>
    PROVE  DataInv'
BY DEF DataInv, RecordsAreCounted, RecordsAreUnique, RecordsFollowEvents,
       PendingIsFresh, DuplicatesCanBeConfirmed, Duplicate, Applied

(* The steps that leave the rows alone.                                    *)
QuietStep(w) ==
    \/ Receive(w) \/ Rehydrate(w) \/ Authorize(w)
    \/ Discover(w) \/ ConfirmDuplicate(w) \/ OutOfOrder(w)
    \/ LockPending(w) \/ RediscoverDuplicate(w) \/ RediscoverNothing(w)
    \/ Write(w) \/ Delete(w) \/ Undeleted(w)

(* Those steps leave the references alone too.                             *)
LEMMA QuietRows ==
    ASSUME NEW w \in Workers, QuietStep(w)
    PROVE  UNCHANGED <<aggregate, records, event, reference>>
BY DEF QuietStep, Receive, Rehydrate, Authorize, Discover, ConfirmDuplicate,
       OutOfOrder, LockPending, RediscoverDuplicate, RediscoverNothing, Write,
       Delete, Undeleted, database, proof

(* Every step keeps the rows consistent.                                   *)
LEMMA DataStep == Inv /\ [Next]_vars => DataInv'
<1> SUFFICES ASSUME Inv, [Next]_vars PROVE DataInv'
  OBVIOUS
<1> USE DEF Inv
<1>1. ASSUME NEW j \in Jobs, CreateProof(j) PROVE DataInv'
  BY <1>1, CreateKeepsData
<1>2. ASSUME NEW j \in Jobs, Expire(j) \/ Revoke(j) PROVE DataInv'
  BY <1>2, SameData DEF Expire, Revoke
<1>3. ASSUME NEW j \in Jobs, NEW k \in Copies, Enqueue(j, k) \/ Redrive(j, k)
      PROVE  DataInv'
  BY <1>3, SameData DEF Enqueue, Redrive, database, proof
<1>4. ASSUME NEW w \in Workers, QuietStep(w) PROVE DataInv'
  BY <1>4, QuietRows, SameData
<1>5. ASSUME NEW w \in Workers, Commit(w) \/ CommitLost(w) PROVE DataInv'
  <2>1. worker[w].job \in Jobs /\ aggregate.pending = worker[w].job
    BY <1>5 DEF Commit, CommitLost, ControlInv, BusyHasMessage,
                LockersHoldTheLock, LockedIsPending
  <2>2. event' = event
    BY <1>5 DEF Commit, CommitLost, proof
  <2>3. Effect(worker[w].job) \/ UNCHANGED <<aggregate, records>>
    BY <1>5 DEF Commit, CommitLost
  <2> QED
    BY <2>1, <2>2, <2>3, EffectKeepsData, SameData
<1>6. CASE DecideInDoubt
  <2>1. aggregate.pending \in Jobs
    BY <1>6 DEF DecideInDoubt, ControlInv, LockedIsPending
  <2>2. event' = event
    BY <1>6 DEF DecideInDoubt, proof
  <2>3. Effect(aggregate.pending) \/ UNCHANGED <<aggregate, records>>
    BY <1>6 DEF DecideInDoubt
  <2> QED
    BY <2>1, <2>2, <2>3, EffectKeepsData, SameData
<1>7. CASE UNCHANGED vars
  BY <1>7, SameData DEF vars
<1> QED
  BY <1>1, <1>2, <1>3, <1>4, <1>5, <1>6, <1>7 DEF Next, WorkerStep, QuietStep

(* A record is never deleted.                                              *)
LEMMA RecordsGrow == Inv /\ [Next]_vars => records \subseteq records'
<1> SUFFICES ASSUME Inv, [Next]_vars PROVE records \subseteq records'
  OBVIOUS
<1>1. ASSUME NEW w \in Workers, WorkerStep(w) PROVE records \subseteq records'
  <2>1. CASE QuietStep(w)
    BY <2>1, QuietRows
  <2>2. CASE Commit(w) \/ CommitLost(w)
    BY <2>2 DEF Commit, CommitLost, Effect
  <2> QED
    BY <1>1, <2>1, <2>2 DEF WorkerStep, QuietStep
<1>2. CASE DecideInDoubt
  BY <1>2 DEF DecideInDoubt, Effect
<1>3. ASSUME NEW j \in Jobs, CreateProof(j) \/ Expire(j) \/ Revoke(j)
      PROVE  records \subseteq records'
  BY <1>3 DEF CreateProof, Expire, Revoke
<1>4. ASSUME NEW j \in Jobs, NEW k \in Copies, Enqueue(j, k) \/ Redrive(j, k)
      PROVE  records \subseteq records'
  BY <1>4 DEF Enqueue, Redrive, database
<1> QED
  BY <1>1, <1>2, <1>3, <1>4 DEF Next, vars

(* Every step keeps what the workers know.                                 *)
LEMMA ControlStep == Inv /\ [Next]_vars => ControlInv'
<1> SUFFICES ASSUME Inv, [Next]_vars PROVE ControlInv'
  OBVIOUS
<1>0. \A j : Applied(j) => Applied(j)'
  BY RecordsGrow DEF Applied
<1> USE ConstantsAssumption, <1>0
    DEF Inv, TypeOK, ControlInv, BusyHasMessage, LockersHoldTheLock,
        LockedIsPending, DoneIsApplied, DeletedOnlyWhenApplied
<1>1. ASSUME NEW j \in Jobs, CreateProof(j) PROVE ControlInv'
  BY <1>1 DEF CreateProof, locks, queue
<1>2. ASSUME NEW j \in Jobs, Expire(j) \/ Revoke(j) PROVE ControlInv'
  BY <1>2 DEF Expire, Revoke, locks, queue
<1>3. ASSUME NEW j \in Jobs, NEW k \in Copies, Enqueue(j, k) \/ Redrive(j, k)
      PROVE  ControlInv'
  BY <1>3 DEF Enqueue, Redrive, database, locks, Messages
<1>4. ASSUME NEW w \in Workers, WorkerStep(w) PROVE ControlInv'
  <2> USE DEF GoTo, Finish, Unlock, Idle, WorkerStates, database, locks, queue
  <2>1. CASE Receive(w)
    BY <2>1 DEF Receive
  <2>2. CASE Rehydrate(w) \/ Authorize(w) \/ Discover(w) \/ Write(w)
    BY <2>2 DEF Rehydrate, Authorize, Discover, Write
  <2>3. CASE ConfirmDuplicate(w) \/ RediscoverDuplicate(w)
    <3>1. Applied(worker[w].job)
      BY <2>3 DEF ConfirmDuplicate, RediscoverDuplicate, Applied
    <3> QED
      BY <2>3, <3>1 DEF ConfirmDuplicate, RediscoverDuplicate
  <2>4. CASE OutOfOrder(w) \/ RediscoverNothing(w)
    BY <2>4 DEF OutOfOrder, RediscoverNothing
  <2>5. CASE LockPending(w)
    BY <2>5 DEF LockPending, Pending
  <2>6. CASE Delete(w)
    BY <2>6 DEF Delete, MessageOf, Messages
  <2>7. CASE Undeleted(w)
    BY <2>7 DEF Undeleted
  <2>8. CASE Commit(w)
    <3>1. Applied(worker[w].job)'
      <4> DEFINE rec == [job |-> worker[w].job,
                         version |-> aggregate.version + 1]
      <4>1. rec \in records' /\ rec.job = worker[w].job
        BY <2>8 DEF Commit, Effect
      <4>2. worker'[w].job = worker[w].job
        BY <2>8 DEF Commit
      <4> QED
        BY <4>1, <4>2 DEF Applied
    <3>2. aggregateLock = w /\ aggregateLock' = None
      BY <2>8 DEF Commit
    <3>3. worker' = [worker EXCEPT ![w].phase = "done"] /\ message' = message
      BY <2>8 DEF Commit
    <3>4. BusyHasMessage' /\ DoneIsApplied'
      BY <2>8, <3>1, <3>3 DEF Commit
    <3>5. LockersHoldTheLock' /\ LockedIsPending'
      BY <3>2, <3>3
    <3>6. DeletedOnlyWhenApplied'
      BY <3>3
    <3> QED
      BY <3>4, <3>5, <3>6
  <2>9. CASE CommitLost(w)
    <3>1. aggregateLock = w /\ aggregate.pending \in Jobs
      BY <2>9 DEF CommitLost
    <3> QED
      BY <2>9, <3>1 DEF CommitLost
  <2> QED
    BY <1>4, <2>1, <2>2, <2>3, <2>4, <2>5, <2>6, <2>7, <2>8, <2>9
       DEF WorkerStep
<1>5. CASE DecideInDoubt
  BY <1>5 DEF DecideInDoubt, queue
<1>6. CASE UNCHANGED vars
  BY <1>6 DEF vars
<1> QED
  BY <1>1, <1>2, <1>3, <1>4, <1>5, <1>6 DEF Next

(* Inv is inductive, whatever the authorization locks.                     *)
THEOREM Invariance == Spec => []Inv
<1>1. Inv /\ [Next]_vars => Inv'
  BY TypeStep, DataStep, ControlStep DEF Inv
<1> QED
  BY <1>1, InitInv, PTL DEF Spec

(* Every variable keeps its type.                                          *)
THEOREM TypeCorrect == Spec => []TypeOK
<1>1. Inv => TypeOK
  BY DEF Inv
<1> QED
  BY <1>1, Invariance, PTL

(* However often a message is received and a COMMIT is lost, a job takes   *)
(* effect once, and effect_count counts exactly the records.               *)
THEOREM EffectsOnce == Spec => []OneEffectPerJob
<1>1. Inv => OneEffectPerJob
  BY DEF Inv, DataInv, RecordsAreCounted, RecordsAreUnique, OneEffectPerJob
<1> QED
  BY <1>1, Invariance, PTL

(* No newer proof slips in between a job's discovery and its effect: the   *)
(* effect lands on the version that the job's own proof created.           *)
THEOREM EffectsFollowProofs == Spec => []EffectFollowsItsProof
<1>1. Inv => EffectFollowsItsProof
  BY DEF Inv, DataInv, RecordsFollowEvents, EffectFollowsItsProof
<1> QED
  BY <1>1, Invariance, PTL

(* The record a redelivery of the last job needs is always there.          *)
THEOREM DuplicatesConfirmed == Spec => []DuplicatesCanBeConfirmed
<1>1. Inv => DuplicatesCanBeConfirmed
  BY DEF Inv, DataInv
<1> QED
  BY <1>1, Invariance, PTL

(* A message is deleted only after the effect of its job is durable.       *)
THEOREM DeletionsAreSafe == Spec => []DeletedOnlyWhenApplied
<1>1. Inv => DeletedOnlyWhenApplied
  BY DEF Inv, ControlInv
<1> QED
  BY <1>1, Invariance, PTL
----------------------------------------------------------------------------
(***************************************************************************)
(* With locking authorization, revocations and effects are ordered.        *)
(***************************************************************************)
AuthorityInv ==
    AuthorityLocks =>
        /\ \A w \in Workers :
              worker[w].phase \in {"authorized", "discovered",
                                   "locked", "committing"} => authority = w
        /\ aggregateLock = Server =>
              authority = Server /\ reference[aggregate.pending] # "revoked"
        /\ \A w \in Workers :
              worker[w].phase = "committing" =>
                  reference[worker[w].job] # "revoked"

(* The holder of the authority lock stays its holder until its effect.     *)
LEMMA AuthorityStep ==
    Inv /\ AuthorityInv /\ [Next]_vars => AuthorityInv'
<1> SUFFICES ASSUME AuthorityLocks, Inv, AuthorityInv, [Next]_vars
             PROVE  AuthorityInv'
  BY DEF AuthorityInv
<1> USE ConstantsAssumption
    DEF Inv, TypeOK, ControlInv, LockersHoldTheLock, LockedIsPending,
        BusyHasMessage, AuthorityInv
<1>1. ASSUME NEW j \in Jobs, CreateProof(j) PROVE AuthorityInv'
  BY <1>1 DEF CreateProof, locks, queue
<1>2. ASSUME NEW j \in Jobs, Expire(j) \/ Revoke(j) PROVE AuthorityInv'
  BY <1>2 DEF Expire, Revoke, locks, queue
<1>3. ASSUME NEW j \in Jobs, NEW k \in Copies, Enqueue(j, k) \/ Redrive(j, k)
      PROVE  AuthorityInv'
  BY <1>3 DEF Enqueue, Redrive, database, locks, proof
<1>4. ASSUME NEW w \in Workers, WorkerStep(w) PROVE AuthorityInv'
  <2> USE DEF GoTo, Finish, Unlock, Idle, WorkerStates, database, locks, queue,
              proof
  <2>1. CASE Receive(w) \/ Rehydrate(w) \/ Authorize(w) \/ Discover(w)
    <3>1. CASE Receive(w) \/ Rehydrate(w)
      <4>1. CASE Receive(w)
        <5>1. PICK j \in Jobs, k \in Copies :
                 worker' = [worker EXCEPT ![w] =
                     [phase |-> "received", job |-> j, copy |-> k, version |-> 0]]
          BY <4>1 DEF Receive
        <5>2. worker'[w].phase = "received"
          BY <5>1
        <5>3. \A v \in Workers : v # w => worker'[v] = worker[v]
          BY <5>1
        <5> QED
          BY <4>1, <5>2, <5>3 DEF Receive
      <4>2. CASE Rehydrate(w)
        BY <4>2 DEF Rehydrate
      <4> QED
        BY <3>1, <4>1, <4>2
    <3>2. CASE Authorize(w)
      BY <3>2 DEF Authorize
    <3>3. CASE Discover(w)
      <4>1. /\ worker[w].phase = "authorized"
            /\ worker'[w].phase = "discovered"
            /\ UNCHANGED <<aggregate, reference, authority, aggregateLock>>
        BY <3>3 DEF Discover
      <4>2. \A v \in Workers : v # w => worker'[v] = worker[v]
        BY <3>3 DEF Discover
      <4> QED
        BY <4>1, <4>2
    <3> QED
      BY <2>1, <3>1, <3>2, <3>3
  <2>2. CASE ConfirmDuplicate(w) \/ OutOfOrder(w)
    BY <2>2 DEF ConfirmDuplicate, OutOfOrder
  <2>3. CASE RediscoverDuplicate(w) \/ RediscoverNothing(w)
    BY <2>3 DEF RediscoverDuplicate, RediscoverNothing
  <2>4. CASE LockPending(w) \/ Write(w)
    <3>1. CASE LockPending(w)
      BY <3>1 DEF LockPending
    <3>2. CASE Write(w)
      BY <3>2 DEF Write
    <3> QED
      BY <2>4, <3>1, <3>2
  <2>5. CASE Delete(w) \/ Undeleted(w)
    BY <2>5 DEF Delete, Undeleted
  <2>6. CASE Commit(w)
    <3>1. aggregateLock' = None /\ authority = w /\ reference' = reference
      BY <2>6 DEF Commit
    <3>2. worker' = [worker EXCEPT ![w].phase = "done"]
      BY <2>6 DEF Commit
    <3> QED
      BY <3>1, <3>2
  <2>7. CASE CommitLost(w)
    <3>1. authority = w /\ aggregateLock = w /\ reference' = reference
      BY <2>7 DEF CommitLost
    <3>2. worker' = [worker EXCEPT ![w] = Idle]
      BY <2>7 DEF CommitLost
    <3>3. CASE aggregateLock' = None
      BY <3>1, <3>2, <3>3
    <3>4. CASE /\ aggregateLock' = Server
               /\ authority' = Server
               /\ UNCHANGED aggregate
      <4>1. reference[aggregate.pending] # "revoked"
        BY <2>7, <3>1 DEF CommitLost
      <4> QED
        BY <3>1, <3>2, <3>4, <4>1
    <3> QED
      BY <2>7, <3>1, <3>3, <3>4 DEF CommitLost
  <2> QED
    BY <1>4, <2>1, <2>2, <2>3, <2>4, <2>5, <2>6, <2>7 DEF WorkerStep
<1>5. CASE DecideInDoubt
  BY <1>5 DEF DecideInDoubt, queue, proof
<1>6. CASE UNCHANGED vars
  BY <1>6 DEF vars
<1> QED
  BY <1>1, <1>2, <1>3, <1>4, <1>5, <1>6 DEF Next

(* Where authorization keeps its rows locked, no effect is committed after *)
(* its reference was revoked.                                              *)
THEOREM RevocationsAreFinal ==
    ASSUME AuthorityLocks
    PROVE  Spec => NoEffectAfterRevocation
<1> DEFINE NoneLate ==
        \A j \in Jobs : Applied(j)' /\ ~Applied(j) => reference[j] # "revoked"
<1>1. Init => AuthorityInv
  BY ConstantsAssumption DEF Init, Idle, AuthorityInv
<1>2. Inv /\ AuthorityInv /\ [Next]_vars => [NoneLate]_vars
  <2> SUFFICES ASSUME Inv, AuthorityInv, Next, NEW j \in Jobs,
                      Applied(j)', ~Applied(j)
               PROVE  reference[j] # "revoked"
    OBVIOUS
  <2>1. PICK r \in records' : r.job = j /\ r \notin records
    BY DEF Applied
  <2>2. ASSUME NEW w \in Workers, WorkerStep(w) PROVE reference[j] # "revoked"
    <3>1. ~QuietStep(w)
      BY <2>1, QuietRows
    <3>2. Commit(w) \/ CommitLost(w)
      BY <2>2, <3>1 DEF WorkerStep, QuietStep
    <3>3. r = [job |-> worker[w].job, version |-> aggregate.version + 1]
      BY <2>1, <3>2 DEF Commit, CommitLost, Effect
    <3> QED
      BY <2>1, <3>2, <3>3 DEF Commit, CommitLost, AuthorityInv
  <2>3. CASE DecideInDoubt
    <3>1. r = [job |-> aggregate.pending, version |-> aggregate.version + 1]
      BY <2>1, <2>3 DEF DecideInDoubt, Effect
    <3> QED
      BY <2>1, <2>3, <3>1 DEF DecideInDoubt, AuthorityInv
  <2>4. ASSUME NEW i \in Jobs, CreateProof(i) \/ Expire(i) \/ Revoke(i)
        PROVE  records' = records
    BY <2>4 DEF CreateProof, Expire, Revoke
  <2>5. ASSUME NEW i \in Jobs, NEW k \in Copies, Enqueue(i, k) \/ Redrive(i, k)
        PROVE  records' = records
    BY <2>5 DEF Enqueue, Redrive, database
  <2> QED
    BY <2>1, <2>2, <2>3, <2>4, <2>5 DEF Next
<1> QED
  BY <1>1, <1>2, AuthorityStep, Invariance, PTL
     DEF Spec, NoEffectAfterRevocation
----------------------------------------------------------------------------
(***************************************************************************)
(* The implementation of the promise.                                      *)
(***************************************************************************)
CreatedJobs == {j \in Jobs : event[j] # 0}
LatestJob   == IF aggregate.pending = None THEN aggregate.last
                                           ELSE aggregate.pending
AppliedJobs == {r.job : r \in records}

(* An effect of the pending job is an Apply of the promise.                *)
LEMMA EffectApplies ==
    ASSUME Inv, NEW j \in Jobs, aggregate.pending = j, Effect(j),
           event' = event
    PROVE  Promise!Apply
<1> USE ConstantsAssumption DEF Inv
<1>1. /\ aggregate'.pending = None
      /\ aggregate'.last = j
      /\ records' = records \cup
            {[job |-> j, version |-> aggregate.version + 1]}
  BY DEF Effect, TypeOK, Aggregates
<1>2. LatestJob = j /\ LatestJob' = j
  BY <1>1 DEF LatestJob
<1>3. j \in CreatedJobs /\ j \notin AppliedJobs
  BY DEF CreatedJobs, AppliedJobs, DataInv, PendingIsFresh, Applied, TypeOK,
         Aggregates
<1>4. AppliedJobs' = AppliedJobs \cup {j}
  <2> DEFINE rec == [job |-> j, version |-> aggregate.version + 1]
  <2>1. records' = records \cup {rec} /\ rec.job = j
    BY <1>1
  <2> HIDE DEF rec
  <2> QED
    BY <2>1 DEF AppliedJobs
<1>5. CreatedJobs' = CreatedJobs
  BY DEF CreatedJobs
<1> QED
  BY <1>2, <1>3, <1>4, <1>5
     DEF Promise!Apply, LatestJob, CreatedJobs, AppliedJobs

(* A new proof is a Create of the promise.                                 *)
LEMMA ProofCreates ==
    ASSUME Inv, NEW j \in Jobs, CreateProof(j)
    PROVE  Promise!Create(j)
<1> USE ConstantsAssumption DEF Inv
<1>1. /\ aggregate'.pending = j
      /\ records' = records
      /\ event'[j] # 0
      /\ \A i \in Jobs : i # j => event'[i] = event[i]
  BY DEF CreateProof, TypeOK, Aggregates
<1>2. CreatedJobs' = CreatedJobs \cup {j} /\ j \notin CreatedJobs
  BY <1>1 DEF CreatedJobs, CreateProof
<1>3. LatestJob' = j
  BY <1>1 DEF LatestJob
<1>4. AppliedJobs' = AppliedJobs
  BY <1>1 DEF AppliedJobs
<1> QED
  BY <1>2, <1>3, <1>4 DEF Promise!Create, LatestJob, CreatedJobs, AppliedJobs

(* The rows that nothing changes show the promise nothing.                 *)
LEMMA SamePromise ==
    ASSUME UNCHANGED <<aggregate, records, event>>
    PROVE  UNCHANGED Promise!vars
BY DEF Promise!vars

(* Workers and API implement the promise made of a proof key: each proof   *)
(* takes effect at most once, and only while it is the newest.             *)
THEOREM ImplementsPromise == Spec => PromiseSpec
<1>1. Init => Promise!Init
  BY ConstantsAssumption DEF Init, NoAggregate, Promise!Init
<1>2. Inv /\ [Next]_vars => [Promise!Next]_(Promise!vars)
  <2> SUFFICES ASSUME Inv, [Next]_vars
               PROVE  Promise!Next \/ UNCHANGED Promise!vars
    OBVIOUS
  <2>1. ASSUME NEW j \in Jobs, CreateProof(j) PROVE Promise!Next
    BY <2>1, ProofCreates DEF Promise!Next
  <2>2. ASSUME NEW w \in Workers, Commit(w) \/ CommitLost(w)
        PROVE  Promise!Next \/ UNCHANGED Promise!vars
    <3>1. worker[w].job \in Jobs /\ aggregate.pending = worker[w].job
      BY <2>2 DEF Inv, Commit, CommitLost, ControlInv, BusyHasMessage,
                  LockersHoldTheLock, LockedIsPending
    <3>2. event' = event
      BY <2>2 DEF Commit, CommitLost, proof
    <3>3. Effect(worker[w].job) \/ UNCHANGED <<aggregate, records>>
      BY <2>2 DEF Commit, CommitLost
    <3> QED
      BY <3>1, <3>2, <3>3, EffectApplies, SamePromise DEF Promise!Next
  <2>3. CASE DecideInDoubt
    <3>1. aggregate.pending \in Jobs
      BY <2>3 DEF Inv, DecideInDoubt, ControlInv, LockedIsPending
    <3>2. event' = event
      BY <2>3 DEF DecideInDoubt, proof
    <3>3. Effect(aggregate.pending) \/ UNCHANGED <<aggregate, records>>
      BY <2>3 DEF DecideInDoubt
    <3> QED
      BY <3>1, <3>2, <3>3, EffectApplies, SamePromise DEF Promise!Next
  <2>4. ASSUME NEW w \in Workers, QuietStep(w) PROVE UNCHANGED Promise!vars
    BY <2>4, QuietRows, SamePromise
  <2>5. ASSUME NEW j \in Jobs, Expire(j) \/ Revoke(j)
        PROVE  UNCHANGED Promise!vars
    BY <2>5, SamePromise DEF Expire, Revoke
  <2>6. ASSUME NEW j \in Jobs, NEW k \in Copies, Enqueue(j, k) \/ Redrive(j, k)
        PROVE  UNCHANGED Promise!vars
    BY <2>6, SamePromise DEF Enqueue, Redrive, database, proof
  <2>7. CASE UNCHANGED vars
    BY <2>7, SamePromise DEF vars
  <2> QED
    BY <2>1, <2>2, <2>3, <2>4, <2>5, <2>6, <2>7 DEF Next, WorkerStep, QuietStep
<1> QED
  BY <1>1, <1>2, Invariance, PTL DEF Spec, PromiseSpec, Promise!Spec
=============================================================================
