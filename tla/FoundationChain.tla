-------------------------- MODULE FoundationChain ---------------------------
(***************************************************************************)
(* The foundation proof end to end: the API writes reference, aggregate    *)
(* and outbox event in one transaction, the relay sends the event, perhaps *)
(* several times, and the worker applies its job.  The relay and the       *)
(* worker meet only in the queue: each send the broker accepts is one copy *)
(* of the job's message.                                                   *)
(***************************************************************************)
EXTENDS FoundationRelay, FiniteSets

CONSTANTS Workers, MaxReceives, AuthorityLocks   \* as in FoundationWorker

ASSUME ChainAssumption ==
    /\ MaxReceives \in Nat \ {0}
    /\ AuthorityLocks \in BOOLEAN
    /\ {None, Server} \cap Workers = {}

VARIABLES aggregate, aggregateLock, records, event, reference, authority,
          message, receives, worker

workerVars == <<aggregate, aggregateLock, records, event, reference, authority,
                message, receives, worker>>
chainVars == <<vars, workerVars>>

Worker == INSTANCE FoundationWorker WITH Copies <- Attempts

ChainInit == Init /\ Worker!Init

(* FoundationProofService.create, in one transaction.                      *)
CreateProof(j) == Insert(j) /\ Worker!CreateProof(j)

(* SQS accepts a send: the message is on the queue.                        *)
QueueAccepts(j, a) == BrokerAccepts(j, a) /\ Worker!Enqueue(j, a)

Publish ==
    /\ \/ \E r \in Relays : RelayStep(r)
       \/ \E j \in Jobs : RowStep(j)
    /\ UNCHANGED workerVars

Consume ==
    /\ \/ \E w \in Workers : Worker!WorkerStep(w)
       \/ \E j \in Jobs : Worker!Expire(j) \/ Worker!Revoke(j)
       \/ \E j \in Jobs, a \in Attempts : Worker!Redrive(j, a)
       \/ Worker!DecideInDoubt
    /\ UNCHANGED vars

ChainNext ==
    \/ \E j \in Jobs : CreateProof(j)
    \/ \E j \in Jobs, a \in Attempts : QueueAccepts(j, a)
    \/ Publish
    \/ Consume

ChainSpec == ChainInit /\ [][ChainNext]_chainVars
----------------------------------------------------------------------------
(***************************************************************************)
(* Properties                                                              *)
(***************************************************************************)
(* However often the relay repeats a send and the queue a delivery, a job  *)
(* has one effect, and effect_count counts the jobs.                       *)
OneEffectPerJob == Worker!OneEffectPerJob

(* A row marked published really has a copy that a worker received, will   *)
(* receive or gave up: nothing is published and lost.                      *)
PublishedIsOnTheQueue ==
    \A j \in Jobs :
        row[j].published # 0 => message[<<j, row[j].published>>] # "unsent"

(* No effect is committed once its context reference or an authority row   *)
(* was revoked, however late the copy of the message is.                   *)
NoEffectAfterRevocation == Worker!NoEffectAfterRevocation
=============================================================================
