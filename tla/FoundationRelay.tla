-------------------------- MODULE FoundationRelay ---------------------------
(***************************************************************************)
(* The foundation outbox: rows of ops.outbox_events (migration 0002) and   *)
(* the relays that claim, publish and settle them (FoundationOutboxRelay   *)
(* over RelayOutboxRepository).  Unlike the product outbox it retries      *)
(* without limit, fails terminally on the broker's word at any attempt,    *)
(* waits for an aborted send to settle, and records a failure only under a *)
(* live lease.  Time is two booleans per row, as in ProductOutbox.         *)
(***************************************************************************)
EXTENDS Naturals

CONSTANTS
    Relays,       \* relay processes of the one scope
    Jobs,         \* one outbox row per job
    Tokens,       \* claim tokens
    MaxAttempts,  \* bound on publication_attempts, which the code leaves open
    None,         \* no token, no relay
    Server        \* holder of the row lock of a COMMIT in doubt

ASSUME ConstantsAssumption ==
    /\ MaxAttempts \in Nat \ {0}
    /\ None \notin Tokens \cup Relays \cup Jobs
    /\ Server \notin Relays \cup {None}

VARIABLES
    row,       \* the committed rows
    rowLock,   \* who holds FOR UPDATE on a row
    relay,     \* the control state and claim of every relay
    flying,    \* attempts whose send has an open fate at the broker, per job
    accepted   \* attempts whose message the broker put on the queue, per job

vars == <<row, rowLock, relay, flying, accepted>>

broker == <<flying, accepted>>

Attempts == 1..MaxAttempts
Phases   == {"idle", "claimed", "locked", "sending", "acked", "committing",
             "resolving", "retry", "terminal"}

Absent == [inserted |-> FALSE, attempts |-> 0, token |-> None, live |-> FALSE,
           due |-> FALSE, published |-> 0, failed |-> FALSE]

Idle == [phase |-> "idle", job |-> None, token |-> None, attempt |-> 0]

Init ==
    /\ row = [j \in Jobs |-> Absent]
    /\ rowLock = [j \in Jobs |-> None]
    /\ relay = [r \in Relays |-> Idle]
    /\ flying = [j \in Jobs |-> {}]
    /\ accepted = [j \in Jobs |-> {}]

Insert(j) ==
    /\ ~row[j].inserted
    /\ row' = [row EXCEPT ![j].inserted = TRUE, ![j].due = TRUE]
    /\ UNCHANGED <<rowLock, relay, broker>>

(***************************************************************************)
(* claimNext: FOR UPDATE SKIP LOCKED on the oldest eligible row.  A row    *)
(* keeps its next_attempt_at and, once published, its claim.               *)
(***************************************************************************)
Open(j) == row[j].inserted /\ row[j].published = 0 /\ ~row[j].failed

Eligible == {j \in Jobs : Open(j) /\ row[j].due /\ ~row[j].live}

TokensInUse == {row[j].token : j \in Jobs} \cup {relay[r].token : r \in Relays}

(* The claim may commit without its relay learning of it.                  *)
ClaimNext(r) ==
    /\ relay[r].phase = "idle"
    /\ \E j \in Eligible, token \in Tokens \ TokensInUse :
          /\ rowLock[j] = None
          /\ row[j].attempts < MaxAttempts
          /\ row' = [row EXCEPT ![j].attempts = @ + 1,
                                ![j].token = token, ![j].live = TRUE]
          /\ \/ relay' = [relay EXCEPT ![r] =
                             [phase |-> "claimed", job |-> j, token |-> token,
                              attempt |-> row[j].attempts + 1]]
             \/ UNCHANGED relay
    /\ UNCHANGED <<rowLock, broker>>

(***************************************************************************)
(* publishClaimed                                                          *)
(***************************************************************************)
(* Mutant: statements match the claim but not that the row is open.        *)
HoldsSettled(r) ==
    LET c == relay[r] IN
    /\ c.phase # "idle"
    /\ row[c.job].token = c.token /\ row[c.job].attempts = c.attempt
    /\ row[c.job].live

(* The exact live claim every statement after claimNext asks for.          *)
Holds(r) ==
    LET c == relay[r] IN
    /\ c.phase # "idle"
    /\ Open(c.job)
    /\ row[c.job].token = c.token /\ row[c.job].attempts = c.attempt
    /\ row[c.job].live

GoTo(r, phase) == relay' = [relay EXCEPT ![r].phase = phase]

Finish(r) == relay' = [relay EXCEPT ![r] = Idle]

Unlock(r) ==
    rowLock' = [j \in Jobs |-> IF rowLock[j] = r THEN None ELSE rowLock[j]]

LockRow(r) ==
    LET j == relay[r].job IN
    /\ relay[r].phase = "claimed"
    /\ rowLock[j] = None
    /\ Holds(r)
    /\ rowLock' = [rowLock EXCEPT ![j] = r]
    /\ GoTo(r, "locked")
    /\ UNCHANGED <<row, broker>>

(* Authorization granted; the publisher sends.                             *)
Send(r) ==
    LET c == relay[r] IN
    /\ c.phase = "locked"
    /\ rowLock[c.job] = r
    /\ flying' = [flying EXCEPT ![c.job] = @ \cup {c.attempt}]
    /\ GoTo(r, "sending")
    /\ UNCHANGED <<row, rowLock, accepted>>

(* Mutant: an answer without a MessageId counts as an acknowledgment.      *)
AcknowledgedByAnyAnswer(r) ==
    /\ relay[r].phase = "sending"
    /\ GoTo(r, "acked")
    /\ UNCHANGED <<row, rowLock, broker>>

Acknowledged(r) ==
    /\ relay[r].phase = "sending"
    /\ relay[r].attempt \in accepted[relay[r].job]
    /\ GoTo(r, "acked")
    /\ UNCHANGED <<row, rowLock, broker>>

(* One of TERMINAL_SQS_ERRORS.                                             *)
Rejected(r) ==
    LET c == relay[r] IN
    /\ c.phase = "sending"
    /\ c.attempt \in flying[c.job]
    /\ flying' = [flying EXCEPT ![c.job] = @ \ {c.attempt}]
    /\ GoTo(r, "terminal")
    /\ Unlock(r)
    /\ UNCHANGED <<row, accepted>>

(* Mutant: a send without a usable answer fails the row for good.          *)
FailedIsTerminal(r) ==
    /\ relay[r].phase \in {"claimed", "locked", "sending"}
    /\ GoTo(r, "terminal")
    /\ Unlock(r)
    /\ UNCHANGED <<row, broker>>

(* A stale claim, a denial, a database error, the send deadline or an      *)
(* answer without MessageId: all are retryable.                            *)
Failed(r) ==
    /\ relay[r].phase \in {"claimed", "locked", "sending"}
    /\ GoTo(r, "retry")
    /\ Unlock(r)
    /\ UNCHANGED <<row, broker>>

(* The connection of an open transaction dies under its relay.             *)
SessionLost(r) ==
    /\ relay[r].phase \in {"locked", "sending", "acked"}
    /\ rowLock[relay[r].job] = r
    /\ Unlock(r)
    /\ UNCHANGED <<row, relay, broker>>

Mark(r) ==
    /\ relay[r].phase = "acked"
    /\ Holds(r) /\ rowLock[relay[r].job] = r
    /\ GoTo(r, "committing")
    /\ UNCHANGED <<row, rowLock, broker>>

MarkMissed(r) ==
    /\ relay[r].phase = "acked"
    /\ ~(Holds(r) /\ rowLock[relay[r].job] = r)
    /\ GoTo(r, "resolving")
    /\ Unlock(r)
    /\ UNCHANGED <<row, broker>>

(* published_at and the MessageId; the claim stays on the row.             *)
Commit(r) ==
    /\ relay[r].phase = "committing"
    /\ row' = [row EXCEPT ![relay[r].job].published = relay[r].attempt]
    /\ Unlock(r)
    /\ UNCHANGED broker

Committed(r) == Commit(r) /\ Finish(r)

(* COMMIT fails for the client: it took effect, or it did not, or the      *)
(* server has not decided and keeps the lock.                              *)
LeaveInDoubt(r) ==
    /\ relay[r].phase = "committing"
    /\ rowLock' = [rowLock EXCEPT ![relay[r].job] = Server]
    /\ UNCHANGED <<row, broker>>

CommitLost(r) ==
    /\ relay[r].phase = "committing"
    /\ GoTo(r, "resolving")
    /\ \/ Commit(r)
       \/ LeaveInDoubt(r)
       \/ Unlock(r) /\ UNCHANGED <<row, broker>>

(* The attempts of a locked row cannot have moved since it was marked.     *)
DecideInDoubt(j) ==
    /\ rowLock[j] = Server
    /\ \/ row' = [row EXCEPT ![j].published = row[j].attempts]
       \/ UNCHANGED row
    /\ rowLock' = [rowLock EXCEPT ![j] = None]
    /\ UNCHANGED <<relay, broker>>

(* isExactClaimPublished, by claim and MessageId.                          *)
FoundPublished(r) ==
    LET c == relay[r] IN
    /\ c.phase = "resolving"
    /\ row[c.job].published = c.attempt /\ row[c.job].token = c.token
    /\ Finish(r)
    /\ UNCHANGED <<row, rowLock, broker>>

(* Nothing found ("unresolved"), or the lookup fails and throws.           *)
Unresolved(r) ==
    /\ relay[r].phase = "resolving"
    /\ GoTo(r, "retry")
    /\ UNCHANGED <<row, rowLock, broker>>

(***************************************************************************)
(* recordRetry and recordTerminal, both under the exact live claim.        *)
(***************************************************************************)
Release(old) == [old EXCEPT !.token = None, !.live = FALSE]

RecordRetry(r) ==
    /\ relay[r].phase = "retry"
    /\ Holds(r) /\ rowLock[relay[r].job] = None
    /\ row' = [row EXCEPT ![relay[r].job] = [Release(@) EXCEPT !.due = FALSE]]
    /\ Finish(r)
    /\ UNCHANGED <<rowLock, broker>>

RecordTerminal(r) ==
    /\ relay[r].phase = "terminal"
    /\ Holds(r) /\ rowLock[relay[r].job] = None
    /\ row' = [row EXCEPT ![relay[r].job] =
                              [Release(@) EXCEPT !.failed = TRUE]]
    /\ Finish(r)
    /\ UNCHANGED <<rowLock, broker>>

(* A stale claim, a lost update, or the end of the relay process.          *)
NotRecorded(r) ==
    /\ relay[r].phase \in {"retry", "terminal"}
    /\ Finish(r)
    /\ UNCHANGED <<row, rowLock, broker>>

Crash(r) ==
    /\ relay[r].phase # "idle"
    /\ Finish(r)
    /\ \/ Commit(r)
       \/ LeaveInDoubt(r)
       \/ Unlock(r) /\ UNCHANGED <<row, broker>>

(* The environment.                                                        *)
LeaseExpires(j) ==
    /\ row[j].live
    /\ row' = [row EXCEPT ![j].live = FALSE]
    /\ UNCHANGED <<rowLock, relay, broker>>

RetryDue(j) ==
    /\ row[j].inserted /\ ~row[j].due
    /\ row' = [row EXCEPT ![j].due = TRUE]
    /\ UNCHANGED <<rowLock, relay, broker>>

BrokerAccepts(j, a) ==
    /\ a \in flying[j]
    /\ flying' = [flying EXCEPT ![j] = @ \ {a}]
    /\ accepted' = [accepted EXCEPT ![j] = @ \cup {a}]
    /\ UNCHANGED <<row, rowLock, relay>>

BrokerDrops(j, a) ==
    /\ a \in flying[j]
    /\ flying' = [flying EXCEPT ![j] = @ \ {a}]
    /\ UNCHANGED <<row, rowLock, relay, accepted>>

RelayStep(r) ==
    \/ ClaimNext(r) \/ LockRow(r) \/ Send(r) \/ Acknowledged(r) \/ Rejected(r)
    \/ Failed(r) \/ SessionLost(r) \/ Mark(r) \/ MarkMissed(r) \/ Committed(r)
    \/ CommitLost(r) \/ FoundPublished(r) \/ Unresolved(r)
    \/ RecordRetry(r) \/ RecordTerminal(r) \/ NotRecorded(r) \/ Crash(r)

RowStep(j) ==
    \/ DecideInDoubt(j) \/ LeaseExpires(j) \/ RetryDue(j)
    \/ \E a \in Attempts : BrokerDrops(j, a)

Next ==
    \/ \E r \in Relays : RelayStep(r)
    \/ \E j \in Jobs : \/ Insert(j) \/ RowStep(j)
                       \/ \E a \in Attempts : BrokerAccepts(j, a)

Spec == Init /\ [][Next]_vars
----------------------------------------------------------------------------
(***************************************************************************)
(* Properties                                                              *)
(***************************************************************************)
Rows == [inserted : BOOLEAN, attempts : 0..MaxAttempts,
         token : Tokens \cup {None}, live : BOOLEAN, due : BOOLEAN,
         published : 0..MaxAttempts, failed : BOOLEAN]

RelayStates == [phase : Phases, job : Jobs \cup {None},
                token : Tokens \cup {None}, attempt : 0..MaxAttempts]

(* Every variable has its type.                                            *)
TypeOK ==
    /\ row \in [Jobs -> Rows]
    /\ rowLock \in [Jobs -> Relays \cup {None, Server}]
    /\ relay \in [Relays -> RelayStates]
    /\ flying \in [Jobs -> SUBSET Attempts]
    /\ accepted \in [Jobs -> SUBSET Attempts]

(* A published row was accepted by the broker at its last attempt, and the *)
(* claim that published it is still there for isExactClaimPublished.       *)
PublishedByItsClaim ==
    \A j \in Jobs :
        row[j].published # 0 => /\ row[j].published = row[j].attempts
                                /\ row[j].published \in accepted[j]
                                /\ row[j].token # None

(* outbox_events_single_terminal_state_check never fires: publishing and   *)
(* failing exclude each other although their relays may overlap.           *)
SingleTerminalState ==
    \A j \in Jobs : ~(row[j].published # 0 /\ row[j].failed)

(* A row fails for good only when the broker refused the send of its last  *)
(* attempt; that message never reaches a worker.                           *)
FailedWasRefused ==
    \A j \in Jobs :
        row[j].failed => row[j].attempts \notin flying[j] \cup accepted[j]

(* A settled row is never touched by a late relay.                         *)
SettledStays ==
    [][\A j \in Jobs :
          row[j].published # 0 \/ row[j].failed =>
              row'[j] = [row[j] EXCEPT !.live = row'[j].live,
                                       !.due = row'[j].due]]_vars

(* Two relays never both hold the live claim of a row.                     *)
OneClaimHolder ==
    \A r, s \in Relays :
        Holds(r) /\ Holds(s) /\ relay[r].job = relay[s].job => r = s

(* However many relays work on an event with expired leases, late sends and*)
(* lost markers, one at a time may settle it, it settles one way only, and *)
(* what it then says of the broker is true.                                *)
SettlementsAreTrue ==
    PublishedByItsClaim /\ SingleTerminalState /\ FailedWasRefused /\ OneClaimHolder
=============================================================================
