-------------------------- MODULE FoundationWorker --------------------------
(***************************************************************************)
(* The foundation worker: one proof aggregate with its idempotency records *)
(* and context references (migration 0002), the queue messages that carry  *)
(* its jobs, and the workers that receive, rehydrate, apply and delete     *)
(* them (FoundationSqsConsumer over consumeFoundationWorkerJob).           *)
(*                                                                         *)
(* A context reference stands for all the authority a job needs; the rows  *)
(* its authorization locks (reference, Tenant, Workspace, policy, worker,  *)
(* delegator, Space, grants) are one lock, authority.  The worker takes    *)
(* its authorization from outside: AuthorityLocks says whether that        *)
(* decision keeps its rows locked to the end of the transaction, as the    *)
(* repository's AuthorizationService does.                                 *)
(***************************************************************************)
EXTENDS Naturals, FiniteSets

CONSTANTS
    Workers,         \* worker processes
    Jobs,            \* job ids, a fresh one per proof
    Copies,          \* copies of a job's message the queue may hold
    MaxReceives,     \* maxReceiveCount of the redrive policy
    AuthorityLocks,  \* whether authorization holds its rows locked
    None,            \* no job, no worker
    Server           \* holder of the locks of a COMMIT in doubt

ASSUME ConstantsAssumption ==
    /\ MaxReceives \in Nat \ {0}
    /\ AuthorityLocks \in BOOLEAN
    /\ None \notin Jobs
    /\ {None, Server} \cap Workers = {}
    /\ None # Server

VARIABLES
    aggregate,      \* the row of ops.foundation_test_aggregates
    aggregateLock,  \* who holds FOR UPDATE on it
    records,        \* ops.idempotency_records: a job and its committed version
    event,          \* aggregate_version of the job's outbox event, 0 for none
    reference,      \* status of the job's context reference
    authority,      \* who holds FOR UPDATE on the authority rows
    message,        \* where each copy of a job's message is
    receives,       \* how often each copy was received
    worker          \* control state of every worker

vars == <<aggregate, aggregateLock, records, event, reference, authority,
          message, receives, worker>>

locks    == <<aggregateLock, authority>>
proof    == <<event, reference>>
queue    == <<message, receives>>
database == <<aggregate, records, proof, locks>>

Messages == Jobs \X Copies

Phases == {"idle", "received", "rehydrated", "authorized", "discovered",
           "locked", "committing", "done", "out_of_order"}

NoAggregate == [version |-> 0, pending |-> None, last |-> None, effects |-> 0]

Idle == [phase |-> "idle", job |-> None, copy |-> 0, version |-> 0]

Init ==
    /\ aggregate = NoAggregate
    /\ aggregateLock = None
    /\ records = {}
    /\ event = [j \in Jobs |-> 0]
    /\ reference = [j \in Jobs |-> "none"]
    /\ authority = None
    /\ message = [m \in Messages |-> "unsent"]
    /\ receives = [m \in Messages |-> 0]
    /\ worker = [w \in Workers |-> Idle]

(***************************************************************************)
(* The API creates a proof in one transaction: the reference, the pending  *)
(* job of the aggregate (replacing any older one) and the outbox event.    *)
(* Its foreign keys wait for locked authority rows, its upsert for a       *)
(* locked aggregate.                                                       *)
(***************************************************************************)
CreateProof(j) ==
    /\ event[j] = 0
    /\ authority = None
    /\ aggregateLock = None
    /\ aggregate' = [aggregate EXCEPT !.version = @ + 1, !.pending = j]
    /\ event' = [event EXCEPT ![j] = aggregate.version + 1]
    /\ reference' = [reference EXCEPT ![j] = "active"]
    /\ UNCHANGED <<records, locks, queue, worker>>

(***************************************************************************)
(* One receipt of a message by one worker.                                 *)
(***************************************************************************)
GoTo(w, phase) == worker' = [worker EXCEPT ![w].phase = phase]

Finish(w) == worker' = [worker EXCEPT ![w] = Idle]

Unlock(w) ==
    /\ aggregateLock' = IF aggregateLock = w THEN None ELSE aggregateLock
    /\ authority' = IF authority = w THEN None ELSE authority

Receive(w) ==
    /\ worker[w].phase = "idle"
    /\ \E j \in Jobs, k \in Copies :
          /\ message[<<j, k>>] = "queued"
          /\ receives[<<j, k>>] < MaxReceives
          /\ receives' = [receives EXCEPT ![<<j, k>>] = @ + 1]
          /\ worker' = [worker EXCEPT ![w] =
                 [phase |-> "received", job |-> j, copy |-> k, version |-> 0]]
    /\ UNCHANGED <<database, message>>

(* The signed reference is verified against its stored row.                *)
Rehydrate(w) ==
    /\ worker[w].phase = "received"
    /\ reference[worker[w].job] = "active"
    /\ GoTo(w, "rehydrated")
    /\ UNCHANGED <<database, queue>>

(* Mutant: the reference is not locked while its job is applied.           *)
AuthorizeUnlocked(w) ==
    /\ worker[w].phase = "rehydrated"
    /\ reference[worker[w].job] = "active"
    /\ authority = None
    /\ GoTo(w, "authorized")
    /\ UNCHANGED <<database, queue>>

Authorize(w) ==
    /\ worker[w].phase = "rehydrated"
    /\ reference[worker[w].job] = "active"
    /\ authority = None
    /\ authority' = IF AuthorityLocks THEN w ELSE None
    /\ GoTo(w, "authorized")
    /\ UNCHANGED <<aggregate, records, proof, aggregateLock, queue>>

(* discoverAggregate finds the row by pending_job_id or last_effect_job_id.*)
Pending(j)   == aggregate.pending = j
Duplicate(j) == aggregate.pending = None /\ aggregate.last = j
Found(j)     == aggregate.pending = j \/ aggregate.last = j

Discover(w) ==
    /\ worker[w].phase = "authorized"
    /\ Pending(worker[w].job)
    /\ worker' = [worker EXCEPT ![w].phase = "discovered",
                                ![w].version = aggregate.version]
    /\ UNCHANGED <<database, queue>>

(* confirmDuplicate: the record of exactly this version must exist.        *)
ConfirmDuplicate(w) ==
    /\ worker[w].phase = "authorized"
    /\ Duplicate(worker[w].job)
    /\ [job |-> worker[w].job, version |-> aggregate.version] \in records
    /\ GoTo(w, "done")
    /\ Unlock(w)
    /\ UNCHANGED <<aggregate, records, proof, queue>>

(* WORKER_AGGREGATE_CARDINALITY and WORKER_AGGREGATE_STATE.                *)
OutOfOrder(w) ==
    /\ worker[w].phase = "authorized"
    /\ ~Pending(worker[w].job) /\ ~Duplicate(worker[w].job)
    /\ GoTo(w, "out_of_order")
    /\ Unlock(w)
    /\ UNCHANGED <<aggregate, records, proof, queue>>

(* Mutant: the row is updated without FOR UPDATE before it.                *)
LockNothing(w) ==
    /\ worker[w].phase = "discovered"
    /\ aggregateLock = None
    /\ Pending(worker[w].job)
    /\ aggregate.version = worker[w].version
    /\ GoTo(w, "locked")
    /\ UNCHANGED <<database, queue>>

(* lockPendingAggregate, under the version that was discovered.            *)
LockPending(w) ==
    /\ worker[w].phase = "discovered"
    /\ aggregateLock = None
    /\ Pending(worker[w].job)
    /\ aggregate.version = worker[w].version
    /\ aggregateLock' = w
    /\ GoTo(w, "locked")
    /\ UNCHANGED <<aggregate, records, proof, authority, queue>>

(* The row is gone from under the discovery: it is discovered again.       *)
RediscoverDuplicate(w) ==
    /\ worker[w].phase = "discovered"
    /\ aggregateLock = None
    /\ Duplicate(worker[w].job)
    /\ [job |-> worker[w].job, version |-> aggregate.version] \in records
    /\ GoTo(w, "done")
    /\ Unlock(w)
    /\ UNCHANGED <<aggregate, records, proof, queue>>

RediscoverNothing(w) ==
    /\ worker[w].phase = "discovered"
    /\ aggregateLock = None
    /\ ~Found(worker[w].job)
    /\ GoTo(w, "out_of_order")
    /\ Unlock(w)
    /\ UNCHANGED <<aggregate, records, proof, queue>>

(* The record and the guarded update; database time decides expiry.        *)
Write(w) ==
    /\ worker[w].phase = "locked"
    /\ \A r \in records : r.job # worker[w].job
    /\ Pending(worker[w].job) /\ aggregate.version = worker[w].version
    /\ reference[worker[w].job] = "active"
    /\ GoTo(w, "committing")
    /\ UNCHANGED <<database, queue>>

(* Mutant: the record keeps the version that was loaded.                   *)
EffectOfLoadedVersion(j) ==
    /\ records' = records \cup {[job |-> j, version |-> aggregate.version]}
    /\ aggregate' = [aggregate EXCEPT !.pending = None, !.last = j,
                                      !.effects = @ + 1, !.version = @ + 1]

Effect(j) ==
    /\ records' = records \cup {[job |-> j, version |-> aggregate.version + 1]}
    /\ aggregate' = [aggregate EXCEPT !.pending = None, !.last = j,
                                      !.effects = @ + 1, !.version = @ + 1]

Commit(w) ==
    /\ worker[w].phase = "committing"
    /\ Effect(worker[w].job)
    /\ GoTo(w, "done")
    /\ Unlock(w)
    /\ UNCHANGED <<proof, queue>>

(* The abort, the deadline or a crash hits the COMMIT: the worker reports  *)
(* failure, and the effect is committed, rolled back or still undecided.   *)
CommitLost(w) ==
    /\ worker[w].phase = "committing"
    /\ Finish(w)
    /\ \/ Effect(worker[w].job) /\ Unlock(w)
       \/ UNCHANGED <<aggregate, records>> /\ Unlock(w)
       \/ /\ aggregateLock' = Server
          /\ authority' = IF AuthorityLocks THEN Server ELSE authority
          /\ UNCHANGED <<aggregate, records>>
    /\ UNCHANGED <<proof, queue>>

DecideInDoubt ==
    /\ aggregateLock = Server
    /\ \/ Effect(aggregate.pending)
       \/ UNCHANGED <<aggregate, records>>
    /\ aggregateLock' = None
    /\ authority' = IF authority = Server THEN None ELSE authority
    /\ UNCHANGED <<proof, queue, worker>>

MessageOf(w) == <<worker[w].job, worker[w].copy>>

Delete(w) ==
    /\ worker[w].phase = "done"
    /\ message' = [message EXCEPT ![MessageOf(w)] = "deleted"]
    /\ Finish(w)
    /\ UNCHANGED <<database, receives>>

(* Mutant: the deadline does not reach a worker that waits for authority.  *)
UndeletedOnceAuthorized(w) ==
    /\ worker[w].phase \notin {"idle", "committing", "rehydrated"}
    /\ Finish(w)
    /\ Unlock(w)
    /\ UNCHANGED <<aggregate, records, proof, queue>>

(* "undeleted": a denial, an error, the deadline, a failed extension, a    *)
(* lost delete or a crash; an open transaction is rolled back.             *)
Undeleted(w) ==
    /\ worker[w].phase \notin {"idle", "committing"}
    /\ Finish(w)
    /\ Unlock(w)
    /\ UNCHANGED <<aggregate, records, proof, queue>>

(* The environment: the queue, the clock, and the revocation of authority. *)
Enqueue(j, k) ==
    /\ event[j] # 0
    /\ message[<<j, k>>] = "unsent"
    /\ message' = [message EXCEPT ![<<j, k>>] = "queued"]
    /\ UNCHANGED <<database, receives, worker>>

Redrive(j, k) ==
    /\ message[<<j, k>>] = "queued"
    /\ receives[<<j, k>>] = MaxReceives
    /\ \A w \in Workers : worker[w].job = j => worker[w].copy # k
    /\ message' = [message EXCEPT ![<<j, k>>] = "dead"]
    /\ UNCHANGED <<database, receives, worker>>

Expire(j) ==
    /\ reference[j] = "active"
    /\ reference' = [reference EXCEPT ![j] = "expired"]
    /\ UNCHANGED <<aggregate, records, event, locks, queue, worker>>

Revoke(j) ==
    /\ reference[j] = "active"
    /\ authority = None
    /\ reference' = [reference EXCEPT ![j] = "revoked"]
    /\ UNCHANGED <<aggregate, records, event, locks, queue, worker>>

WorkerStep(w) ==
    \/ Receive(w) \/ Rehydrate(w) \/ Authorize(w)
    \/ Discover(w) \/ ConfirmDuplicate(w) \/ OutOfOrder(w)
    \/ LockPending(w) \/ RediscoverDuplicate(w) \/ RediscoverNothing(w)
    \/ Write(w) \/ Commit(w) \/ CommitLost(w) \/ Delete(w) \/ Undeleted(w)

Next ==
    \/ \E j \in Jobs : CreateProof(j) \/ Expire(j) \/ Revoke(j)
    \/ \E j \in Jobs, k \in Copies : Enqueue(j, k) \/ Redrive(j, k)
    \/ \E w \in Workers : WorkerStep(w)
    \/ DecideInDoubt

Spec == Init /\ [][Next]_vars

(* runConsumerLoop receives for ever, every receipt ends by its deadline,  *)
(* the server decides its transactions, and the queue redrives.            *)
Fairness ==
    /\ \A w \in Workers : WF_vars(WorkerStep(w))
    /\ \A j \in Jobs, k \in Copies : WF_vars(Redrive(j, k))
    /\ WF_vars(DecideInDoubt)

FairSpec == Spec /\ Fairness
----------------------------------------------------------------------------
(***************************************************************************)
(* Properties                                                              *)
(***************************************************************************)
Applied(j) == \E r \in records : r.job = j

Aggregates == [version : Nat, pending : Jobs \cup {None},
               last : Jobs \cup {None}, effects : Nat]

Records == [job : Jobs, version : Nat]

WorkerStates == [phase : Phases, job : Jobs \cup {None},
                 copy : Copies \cup {0}, version : Nat]

(* Every variable has its type.                                            *)
TypeOK ==
    /\ aggregate \in Aggregates
    /\ aggregateLock \in Workers \cup {None, Server}
    /\ records \subseteq Records
    /\ event \in [Jobs -> Nat]
    /\ reference \in [Jobs -> {"none", "active", "revoked", "expired"}]
    /\ authority \in Workers \cup {None, Server}
    /\ message \in [Messages -> {"unsent", "queued", "deleted", "dead"}]
    /\ receives \in [Messages -> 0..MaxReceives]
    /\ worker \in [Workers -> WorkerStates]

(* effect_count counts exactly the committed records, one per job, however *)
(* often its message is received or its COMMIT is lost.                    *)
OneEffectPerJob ==
    /\ \A r, s \in records : r.job = s.job => r = s
    /\ aggregate.effects = Cardinality(records)

(* An effect lands on exactly the version its own proof created: no newer  *)
(* proof slips in between discovery and effect.                            *)
EffectFollowsItsProof ==
    \A r \in records : r.version = event[r.job] + 1

(* A job the aggregate shows as its last effect can always be confirmed as *)
(* a duplicate: WORKER_DUPLICATE_MISMATCH never strands its message.       *)
DuplicatesCanBeConfirmed ==
    \A j \in Jobs :
        Duplicate(j) => [job |-> j, version |-> aggregate.version] \in records

(* A message is deleted only after the effect of its job is durable.       *)
DeletedOnlyWhenApplied ==
    \A j \in Jobs, k \in Copies : message[<<j, k>>] = "deleted" => Applied(j)

(* Each race of a revocation with an effect has an order: no effect is     *)
(* committed after its reference was revoked.                              *)
NoEffectAfterRevocation ==
    [][\A j \in Jobs :
          Applied(j)' /\ ~Applied(j) => reference[j] # "revoked"]_vars

(* Every message leaves the queue: it is deleted or dead-lettered.         *)
MessagesLeaveTheQueue ==
    \A j \in Jobs, k \in Copies :
        message[<<j, k>>] = "queued"
            ~> message[<<j, k>>] \in {"deleted", "dead"}

(* The worker and the API keep the promise made of a proof key.            *)
Promise == INSTANCE ProofPromise
             WITH created <- {j \in Jobs : event[j] # 0},
                  latest <- IF aggregate.pending = None THEN aggregate.last
                                                        ELSE aggregate.pending,
                  applied <- {r.job : r \in records}

PromiseSpec == Promise!Spec

(* The plan says of a redelivery after a committed effect that it is       *)
(* resolved through the duplicate path.                                    *)
RedeliveryIsConfirmed ==
    \A w \in Workers :
        worker[w].phase = "out_of_order" => ~Applied(worker[w].job)
=============================================================================
