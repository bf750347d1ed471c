--------------------------- MODULE ProductOutbox ---------------------------
(***************************************************************************)
(* The canonical product outbox: rows of ops.product_outbox_events, the    *)
(* relays that claim, publish and settle them (ProductOutboxRelay over     *)
(* ProductOutboxRepository), the authority rows a publish transaction      *)
(* locks, and the SQS Standard queue it sends to.                          *)
(*                                                                         *)
(* Time is abstracted to two booleans per row: whether the lease of its    *)
(* claim is still live and whether its next attempt is due.  A claim's     *)
(* owner, 256-bit token and expiry are one value, its token.  A broker     *)
(* MessageId is named by the attempt whose send the broker accepted.       *)
(***************************************************************************)
EXTENDS Naturals, FiniteSets

CONSTANTS
    Relays,        \* relay processes, all serving the one scope
    Events,        \* ids of outbox rows
    Tokens,        \* claim tokens; a draw never collides with one in use
    AttemptLimit,  \* publication_attempt BETWEEN 0 AND 6
    None,          \* no token, no relay
    Server         \* owner of the locks of a transaction whose COMMIT is in doubt

ASSUME ConstantsAssumption ==
    /\ AttemptLimit \in Nat \ {0}
    /\ None \notin Tokens
    /\ {None, Server} \cap Relays = {}
    /\ None # Server
    /\ None \notin Events

VARIABLES
    row,        \* the committed rows
    rowLock,    \* who holds FOR UPDATE on a row
    authority,  \* who holds FOR UPDATE on the six authority rows
    granted,    \* whether the authority rows permit publication
    relay,      \* the control state and claim handle of every relay
    flying,     \* sends whose fate at the broker is open, per event
    accepted    \* sends the broker has put on the queue, per event

vars == <<row, rowLock, authority, granted, relay, flying, accepted>>

locks  == <<rowLock, authority>>
broker == <<flying, accepted>>

Attempts == 1..AttemptLimit
Settled  == {"published", "terminal_failed", "terminal_unconfirmed"}
States   == Settled \cup {"absent", "pending", "claimed", "retry_wait"}
Phases   == {"idle", "claimed", "locked", "sending", "acked", "committing",
             "resolving", "failing"}
Outcomes == {"deterministic", "ambiguous"}

Absent == [state |-> "absent", attempt |-> 0, token |-> None, live |-> FALSE,
           due |-> FALSE, message |-> 0]

Idle == [phase |-> "idle", event |-> None, token |-> None, attempt |-> 0,
         outcome |-> "ambiguous"]

Init ==
    /\ row = [e \in Events |-> Absent]
    /\ rowLock = [e \in Events |-> None]
    /\ authority = None
    /\ granted = TRUE
    /\ relay = [r \in Relays |-> Idle]
    /\ flying = [e \in Events |-> {}]
    /\ accepted = [e \in Events |-> {}]

(***************************************************************************)
(* The domain transaction that causes the notification commits its row.    *)
(***************************************************************************)
Insert(e) ==
    /\ row[e].state = "absent"
    /\ row' = [row EXCEPT ![e] = [@ EXCEPT !.state = "pending", !.due = TRUE]]
    /\ UNCHANGED <<locks, granted, relay, broker>>

(***************************************************************************)
(* claimNext.  One transaction first gives up the rows whose sixth claim   *)
(* ran out (a plain UPDATE, which waits for a row lock) and then claims at *)
(* most one eligible row (FOR UPDATE SKIP LOCKED).                         *)
(***************************************************************************)
(* Mutant: the sweep of exhausted claims is forgotten.                     *)
ExhaustedNever == {}

Exhausted ==
    {e \in Events : /\ row[e].state = "claimed"
                    /\ row[e].attempt = AttemptLimit
                    /\ ~row[e].live}

(* Mutants: the attempt bound is off by one; a live lease does not protect.*)
EligibleOnceMore ==
    {e \in Events : /\ row[e].attempt <= AttemptLimit
                    /\ \/ row[e].state \in {"pending", "retry_wait"} /\ row[e].due
                       \/ row[e].state = "claimed" /\ ~row[e].live}

EligibleWhileLeased ==
    {e \in Events : /\ row[e].attempt < AttemptLimit
                    /\ \/ row[e].state \in {"pending", "retry_wait"} /\ row[e].due
                       \/ row[e].state = "claimed"}

Eligible ==
    {e \in Events : /\ row[e].attempt < AttemptLimit
                    /\ \/ row[e].state \in {"pending", "retry_wait"} /\ row[e].due
                       \/ row[e].state = "claimed" /\ ~row[e].live}

Claimable == {e \in Eligible : rowLock[e] = None}

TokensInUse == {row[e].token : e \in Events} \cup {relay[r].token : r \in Relays}

GiveUp(old, state) ==
    [old EXCEPT !.state = state, !.token = None, !.live = FALSE]

Claim(old, token) ==
    [old EXCEPT !.state = "claimed", !.attempt = @ + 1, !.token = token,
                !.live = TRUE]

(* The rows after a claimNext that claims the rows of chosen, none or one. *)
AfterClaim(chosen, token) ==
    [e \in Events |->
        IF e \in Exhausted THEN GiveUp(row[e], "terminal_unconfirmed")
        ELSE IF e \in chosen THEN Claim(row[e], token)
        ELSE row[e]]

SweepNotBlocked == \A e \in Exhausted : rowLock[e] = None

ClaimNext(r) ==
    /\ relay[r].phase = "idle"
    /\ SweepNotBlocked
    /\ \E e \in Claimable, token \in Tokens \ TokensInUse :
          /\ row' = AfterClaim({e}, token)
          /\ relay' = [relay EXCEPT ![r] =
                          [phase |-> "claimed", event |-> e, token |-> token,
                           attempt |-> Claim(row[e], token).attempt,
                           outcome |-> "ambiguous"]]
    /\ UNCHANGED <<locks, granted, broker>>

(* The claim commits but the relay never receives its handle.              *)
ClaimLost(r) ==
    /\ relay[r].phase = "idle"
    /\ SweepNotBlocked
    /\ \E e \in Claimable, token \in Tokens \ TokensInUse :
          row' = AfterClaim({e}, token)
    /\ UNCHANGED <<locks, granted, relay, broker>>

ClaimNothing(r) ==
    /\ relay[r].phase = "idle"
    /\ SweepNotBlocked
    /\ Claimable = {}
    /\ row' = AfterClaim({}, None)
    /\ UNCHANGED <<locks, granted, relay, broker>>

(***************************************************************************)
(* publishClaimed: lock the row under the exact live claim, lock and check *)
(* the authority rows, send, mark, commit.                                 *)
(***************************************************************************)
(* Mutant: the claim is matched by row and state only.                     *)
HoldsSomeClaim(r) ==
    /\ relay[r].phase # "idle"
    /\ row[relay[r].event].state = "claimed"

Holds(r) ==
    LET h == relay[r] IN
    /\ h.phase # "idle"
    /\ row[h.event].state = "claimed"
    /\ row[h.event].attempt = h.attempt
    /\ row[h.event].token = h.token

GoTo(r, phase) == relay' = [relay EXCEPT ![r].phase = phase]

Finish(r) == relay' = [relay EXCEPT ![r] = Idle]

Fail(r, outcome) ==
    relay' = [relay EXCEPT ![r] = [@ EXCEPT !.phase = "failing", !.outcome = outcome]]

(* Rollback, commit and disconnection release every lock r took.           *)
Unlock(r) ==
    /\ rowLock' = [e \in Events |-> IF rowLock[e] = r THEN None ELSE rowLock[e]]
    /\ authority' = IF authority = r THEN None ELSE authority

LockRow(r) ==
    LET e == relay[r].event IN
    /\ relay[r].phase = "claimed"
    /\ Holds(r) /\ row[e].live
    /\ rowLock[e] = None
    /\ rowLock' = [rowLock EXCEPT ![e] = r]
    /\ GoTo(r, "locked")
    /\ UNCHANGED <<row, authority, granted, broker>>

(* ProductRelayClaimRejectedError: rethrown, and no failure is recorded.   *)
RejectClaim(r) ==
    /\ relay[r].phase = "claimed"
    /\ ~(Holds(r) /\ row[relay[r].event].live)
    /\ Finish(r)
    /\ UNCHANGED <<row, locks, granted, broker>>

(* Mutant: the authority rows are read without FOR UPDATE.                 *)
SendUnlocked(r) ==
    /\ relay[r].phase = "locked"
    /\ rowLock[relay[r].event] = r
    /\ authority = None /\ granted
    /\ flying' = [flying EXCEPT ![relay[r].event] = @ \cup {relay[r].attempt}]
    /\ GoTo(r, "sending")
    /\ UNCHANGED <<row, locks, granted, accepted>>

(* The lease was checked under the row lock; it is not checked again after *)
(* the wait for the authority rows.                                        *)
Send(r) ==
    /\ relay[r].phase = "locked"
    /\ rowLock[relay[r].event] = r
    /\ authority = None
    /\ granted
    /\ authority' = r
    /\ flying' = [flying EXCEPT ![relay[r].event] = @ \cup {relay[r].attempt}]
    /\ GoTo(r, "sending")
    /\ UNCHANGED <<row, rowLock, granted, accepted>>

(* ProductRelayAuthorizationError: zero sends, and no failure is recorded. *)
Deny(r) ==
    /\ relay[r].phase = "locked"
    /\ rowLock[relay[r].event] = r
    /\ authority = None
    /\ ~granted
    /\ Finish(r)
    /\ Unlock(r)
    /\ UNCHANGED <<row, granted, broker>>

(* The connection of r's open transaction dies: the server aborts it and    *)
(* frees its locks, and r finds out at its next statement.                 *)
SessionLost(r) ==
    /\ relay[r].phase \in {"locked", "sending", "acked"}
    /\ rowLock[relay[r].event] = r
    /\ Unlock(r)
    /\ UNCHANGED <<row, granted, relay, broker>>

(* A database error before the send (a timeout, a deadlock, a lost         *)
(* connection) is classified like a broker error of unknown meaning.       *)
ErrorBeforeSend(r) ==
    /\ relay[r].phase \in {"claimed", "locked"}
    /\ Fail(r, "ambiguous")
    /\ Unlock(r)
    /\ UNCHANGED <<row, granted, broker>>

(* Mutant: an answer without a MessageId counts as an acknowledgment.      *)
AcknowledgedByAnyAnswer(r) ==
    /\ relay[r].phase = "sending"
    /\ GoTo(r, "acked")
    /\ UNCHANGED <<row, locks, granted, broker>>

Acknowledged(r) ==
    /\ relay[r].phase = "sending"
    /\ relay[r].attempt \in accepted[relay[r].event]
    /\ GoTo(r, "acked")
    /\ UNCHANGED <<row, locks, granted, broker>>

(* The broker answers with one of DETERMINISTIC_SQS_REJECTIONS.            *)
Rejected(r) ==
    LET h == relay[r] IN
    /\ h.phase = "sending"
    /\ h.attempt \in flying[h.event]
    /\ flying' = [flying EXCEPT ![h.event] = @ \ {h.attempt}]
    /\ Fail(r, "deterministic")
    /\ Unlock(r)
    /\ UNCHANGED <<row, granted, accepted>>

(* The send deadline, a lost answer or one without a MessageId: the        *)
(* transaction rolls back at once and the request may still arrive.        *)
SendUnanswered(r) ==
    /\ relay[r].phase = "sending"
    /\ Fail(r, "ambiguous")
    /\ Unlock(r)
    /\ UNCHANGED <<row, granted, broker>>

Published(old) == [GiveUp(old, "published") EXCEPT !.message = old.attempt]

CanMark(r) ==
    /\ rowLock[relay[r].event] = r
    /\ Holds(r) /\ row[relay[r].event].live

Mark(r) ==
    /\ relay[r].phase = "acked"
    /\ CanMark(r)
    /\ GoTo(r, "committing")
    /\ UNCHANGED <<row, locks, granted, broker>>

(* The marker finds no live claim or no session: rollback, and the outcome *)
(* is looked up.                                                           *)
MarkMissed(r) ==
    /\ relay[r].phase = "acked"
    /\ ~CanMark(r)
    /\ GoTo(r, "resolving")
    /\ Unlock(r)
    /\ UNCHANGED <<row, granted, broker>>

Commit(r) ==
    /\ relay[r].phase = "committing"
    /\ row' = [row EXCEPT ![relay[r].event] = Published(@)]
    /\ Unlock(r)
    /\ UNCHANGED <<granted, broker>>

Committed(r) == Commit(r) /\ Finish(r)

(* COMMIT fails for the client: it took effect, or it did not, or the      *)
(* server has not decided and keeps the locks.                             *)
LeaveInDoubt(r) ==
    /\ relay[r].phase = "committing"
    /\ rowLock' = [rowLock EXCEPT ![relay[r].event] = Server]
    /\ authority' = Server
    /\ UNCHANGED <<row, granted, broker>>

CommitLost(r) ==
    /\ relay[r].phase = "committing"
    /\ GoTo(r, "resolving")
    /\ \/ Commit(r)
       \/ LeaveInDoubt(r)
       \/ Unlock(r) /\ UNCHANGED <<row, granted, broker>>

(* The server decides a transaction whose client is gone.                  *)
DecideInDoubt(e) ==
    /\ rowLock[e] = Server
    /\ \/ row' = [row EXCEPT ![e] = Published(@)]
       \/ row' = row
    /\ rowLock' = [rowLock EXCEPT ![e] = None]
    /\ authority' = None
    /\ UNCHANGED <<granted, relay, broker>>

(* isPublished, after an acknowledged send whose transaction failed.       *)
FoundPublished(r) ==
    LET h == relay[r] IN
    /\ h.phase = "resolving"
    /\ row[h.event].state = "published"
    /\ row[h.event].attempt = h.attempt
    /\ row[h.event].message = h.attempt
    /\ Finish(r)
    /\ UNCHANGED <<row, locks, granted, broker>>

(* It finds no published row, or the query itself fails: "unresolved".     *)
Unresolved(r) ==
    /\ relay[r].phase = "resolving"
    /\ Fail(r, "ambiguous")
    /\ UNCHANGED <<row, locks, granted, broker>>

(***************************************************************************)
(* recordFailure: the row must carry the exact claim, expired or not.      *)
(***************************************************************************)
Retried(old) == [GiveUp(old, "retry_wait") EXCEPT !.due = FALSE]

Terminated(old, outcome) ==
    GiveUp(old, IF outcome = "deterministic" THEN "terminal_failed"
                                             ELSE "terminal_unconfirmed")

(* Mutant: the failure is recorded without matching the claim.             *)
RecordFailureUnmatched(r) ==
    LET h == relay[r] IN
    /\ h.phase = "failing"
    /\ rowLock[h.event] = None
    /\ row' = [row EXCEPT ![h.event] =
                  IF h.attempt < AttemptLimit THEN Retried(@)
                                              ELSE Terminated(@, h.outcome)]
    /\ Finish(r)
    /\ UNCHANGED <<locks, granted, broker>>

RecordFailure(r) ==
    LET h == relay[r] IN
    /\ h.phase = "failing"
    /\ Holds(r)
    /\ rowLock[h.event] = None
    /\ row' = [row EXCEPT ![h.event] =
                  IF h.attempt < AttemptLimit THEN Retried(@)
                                              ELSE Terminated(@, h.outcome)]
    /\ Finish(r)
    /\ UNCHANGED <<locks, granted, broker>>

AlreadySettled(r) ==
    /\ relay[r].phase = "failing"
    /\ ~Holds(r)
    /\ Finish(r)
    /\ UNCHANGED <<row, locks, granted, broker>>

(* The database refuses or loses the failure: the claim stays as it is.    *)
FailureNotRecorded(r) ==
    /\ relay[r].phase = "failing"
    /\ Finish(r)
    /\ UNCHANGED <<row, locks, granted, broker>>

(***************************************************************************)
(* A relay process dies; its claim handles live only in its memory.        *)
(***************************************************************************)
Crash(r) ==
    /\ relay[r].phase # "idle"
    /\ Finish(r)
    /\ \/ Commit(r)
       \/ LeaveInDoubt(r)
       \/ Unlock(r) /\ UNCHANGED <<row, granted, broker>>

(* The environment: clock, broker, and whoever administers authority.      *)
LeaseExpires(e) ==
    /\ row[e].state = "claimed" /\ row[e].live
    /\ row' = [row EXCEPT ![e].live = FALSE]
    /\ UNCHANGED <<locks, granted, relay, broker>>

RetryDue(e) ==
    /\ row[e].state = "retry_wait" /\ ~row[e].due
    /\ row' = [row EXCEPT ![e].due = TRUE]
    /\ UNCHANGED <<locks, granted, relay, broker>>

BrokerAccepts(e) ==
    \E a \in flying[e] :
        /\ flying' = [flying EXCEPT ![e] = @ \ {a}]
        /\ accepted' = [accepted EXCEPT ![e] = @ \cup {a}]
        /\ UNCHANGED <<row, locks, granted, relay>>

BrokerDrops(e) ==
    \E a \in flying[e] :
        /\ flying' = [flying EXCEPT ![e] = @ \ {a}]
        /\ UNCHANGED <<row, locks, granted, relay, accepted>>

ChangeAuthority ==
    /\ authority = None
    /\ granted' = ~granted
    /\ UNCHANGED <<row, locks, relay, broker>>

RelayStep(r) ==
    \/ ClaimNext(r) \/ ClaimLost(r) \/ ClaimNothing(r)
    \/ LockRow(r) \/ RejectClaim(r) \/ Send(r) \/ Deny(r) \/ ErrorBeforeSend(r)
    \/ Acknowledged(r) \/ Rejected(r) \/ SendUnanswered(r)
    \/ Mark(r) \/ MarkMissed(r) \/ Committed(r) \/ CommitLost(r)
    \/ FoundPublished(r) \/ Unresolved(r)
    \/ RecordFailure(r) \/ AlreadySettled(r) \/ FailureNotRecorded(r)

RowStep(e) ==
    \/ Insert(e) \/ DecideInDoubt(e) \/ LeaseExpires(e) \/ RetryDue(e)
    \/ BrokerAccepts(e) \/ BrokerDrops(e)

Next ==
    \/ \E r \in Relays : RelayStep(r) \/ SessionLost(r) \/ Crash(r)
    \/ \E e \in Events : RowStep(e)
    \/ ChangeAuthority

Spec == Init /\ [][Next]_vars

(***************************************************************************)
(* Every relay is driven again and again (publishNext is the unit its host *)
(* repeats), a database session in doubt is decided, and the clock runs.   *)
(***************************************************************************)
Fairness ==
    /\ \A r \in Relays : WF_vars(RelayStep(r))
    /\ \A e \in Events : /\ WF_vars(DecideInDoubt(e))
                         /\ WF_vars(LeaseExpires(e))
                         /\ WF_vars(RetryDue(e))

FairSpec == Spec /\ Fairness
----------------------------------------------------------------------------
(***************************************************************************)
(* Properties                                                              *)
(***************************************************************************)
Rows == [state : States, attempt : 0..AttemptLimit, token : Tokens \cup {None},
         live : BOOLEAN, due : BOOLEAN, message : 0..AttemptLimit]

RelayStates == [phase : Phases, event : Events \cup {None},
                token : Tokens \cup {None}, attempt : 0..AttemptLimit,
                outcome : Outcomes]

(* Every variable has its type: the CHECK constraints of the table, and    *)
(* the control states of the relay.                                        *)
TypeOK ==
    /\ row \in [Events -> Rows]
    /\ rowLock \in [Events -> Relays \cup {None, Server}]
    /\ authority \in Relays \cup {None, Server}
    /\ granted \in BOOLEAN
    /\ relay \in [Relays -> RelayStates]
    /\ flying \in [Events -> SUBSET Attempts]
    /\ accepted \in [Events -> SUBSET Attempts]

(* published_at means that the broker acknowledged this row's own send:    *)
(* a row is marked published only with the MessageId of a send the broker  *)
(* accepted under the claim that marked it.                                *)
PublishedWasAccepted ==
    \A e \in Events :
        row[e].state = "published" => /\ row[e].message = row[e].attempt
                                      /\ row[e].message \in accepted[e]

(* terminal_failed is reached only after the broker refused the last send: *)
(* that send is not on the queue and can no longer get there.  An outcome  *)
(* the relay could not observe never ends as terminal_failed.              *)
FailedWasRefused ==
    \A e \in Events :
        row[e].state = "terminal_failed" => AttemptLimit \notin flying[e] \cup accepted[e]

(* Two relays never both hold the current claim of a row, whatever was     *)
(* lost, expired or re-claimed in between.                                 *)
OneClaimHolder ==
    \A r, s \in Relays :
        /\ Holds(r) /\ Holds(s)
        /\ relay[r].event = relay[s].event
        => r = s

(* Authority cannot change between authorization and send: while a send's  *)
(* transaction is alive its relay holds the authority rows, and they grant *)
(* the publication.                                                        *)
SendsAreAuthorized ==
    \A r \in Relays :
        /\ relay[r].phase \in {"sending", "acked", "committing"}
        /\ rowLock[relay[r].event] = r
        => authority = r /\ granted

(* An attempt is sent at most once, so that an event puts at most          *)
(* AttemptLimit copies on the queue however its outcomes are lost.         *)
NoAttemptSentTwice ==
    [][\A e \in Events :
          (flying'[e] \ flying[e]) \cap (flying[e] \cup accepted[e]) = {}]_vars

(* The updates that the trigger on the table lets through, by the state of *)
(* the new row.                                                            *)
Admitted(old, new) ==
    CASE new.state = "pending" -> old.state = "absent" /\ new.attempt = 0
      [] new.state = "claimed" ->
            /\ old.state \in {"pending", "retry_wait", "claimed"}
            /\ old.state = "claimed" => ~old.live
            /\ new.attempt = old.attempt + 1
            /\ new.token # None /\ new.live
      [] new.state = "retry_wait" ->
            old.state = "claimed" /\ new.attempt = old.attempt /\ ~new.due
      [] new.state = "published" ->
            old.state = "claimed" /\ new.attempt = old.attempt /\ new.message # 0
      [] new.state \in {"terminal_failed", "terminal_unconfirmed"} ->
            old.state = "claimed" /\ new.attempt = old.attempt
                                  /\ new.attempt = AttemptLimit /\ new.message = 0
      [] OTHER -> FALSE

ClockStep(old, new) == new = [old EXCEPT !.live = new.live, !.due = new.due]

(* No statement of the repository is ever refused by the transition        *)
(* trigger: every change of a row is one the trigger admits, and a settled *)
(* row never changes again.                                                *)
TriggerAdmitsEveryUpdate ==
    [][\A e \in Events :
          \/ row'[e] = row[e]
          \/ row[e].state \in {"claimed", "retry_wait"} /\ ClockStep(row[e], row'[e])
          \/ Admitted(row[e], row'[e])]_vars

(* Every notification is settled in the end, through crashes, lost commits *)
(* and revoked authority, because every claim spends one of its attempts.  *)
EventuallySettled ==
    \A e \in Events : row[e].state # "absent" ~> row[e].state \in Settled

(* The outbox implements the delivery promise.                             *)
Status(state) ==
    CASE state \in {"pending", "claimed", "retry_wait"} -> "open"
      [] state = "terminal_failed" -> "failed"
      [] state = "terminal_unconfirmed" -> "unconfirmed"
      [] OTHER -> state

Delivery == INSTANCE NotificationDelivery
              WITH status <- [e \in Events |-> Status(row[e].state)],
                   copies <- accepted

DeliverySpec == Delivery!Spec
============================================================================
