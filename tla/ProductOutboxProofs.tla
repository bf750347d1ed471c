------------------------ MODULE ProductOutboxProofs ------------------------
(***************************************************************************)
(* The safety of the product outbox, for any number of relays, events,     *)
(* tokens and attempts.                                                    *)
(*                                                                         *)
(* None of the properties is inductive.  The invariant Inv adds what the   *)
(* code relies on without saying so: a handle names an attempt of its row  *)
(* that no other relay holds and, before the send, that no one has sent;   *)
(* a row lock belongs to the relay that holds the row's claim; a           *)
(* transaction in doubt keeps an acknowledged claim locked.                *)
(***************************************************************************)
EXTENDS ProductOutbox, TLAPS

Sent(e) == flying[e] \cup accepted[e]

Active(r) == relay[r].phase # "idle"

(* A handle comes from a claim of its row.                                 *)
Handles ==
    \A r \in Relays :
        Active(r) => /\ relay[r].event \in Events
                     /\ relay[r].token \in Tokens
                     /\ relay[r].attempt \in Attempts
                     /\ relay[r].attempt <= row[relay[r].event].attempt

DistinctHandles ==
    \A r, s \in Relays :
        /\ Active(r) /\ Active(s)
        /\ relay[r].event = relay[s].event
        /\ relay[r].attempt = relay[s].attempt
        => r = s

(* The broker knows only of attempts that were claimed.                    *)
Sends ==
    \A e \in Events : /\ flying[e] \cap accepted[e] = {}
                      /\ \A a \in Sent(e) : a <= row[e].attempt

HandleSends ==
    \A r \in Relays :
        /\ relay[r].phase \in {"claimed", "locked"}
              => relay[r].attempt \notin Sent(relay[r].event)
        /\ relay[r].phase \in {"acked", "committing"}
              => relay[r].attempt \in accepted[relay[r].event]
        /\ relay[r].phase = "failing" /\ relay[r].outcome = "deterministic"
              => relay[r].attempt \notin Sent(relay[r].event)

InTransaction == {"locked", "sending", "acked", "committing"}

RowLocks ==
    \A e \in Events, r \in Relays :
        rowLock[e] = r => /\ relay[r].event = e
                          /\ relay[r].phase \in InTransaction
                          /\ Holds(r)

Committing ==
    \A r \in Relays :
        relay[r].phase = "committing" => /\ rowLock[relay[r].event] = r
                                         /\ authority = r

InDoubt ==
    \A e \in Events :
        rowLock[e] = Server => /\ authority = Server
                               /\ row[e].state = "claimed"
                               /\ row[e].attempt \in accepted[e]
                               /\ \A f \in Events : rowLock[f] = Server => f = e

HeldAuthority == authority # None => granted

AbsentRows == \A e \in Events : row[e].state = "absent" => row[e].attempt = 0

Inv ==
    /\ TypeOK /\ AbsentRows
    /\ Handles /\ DistinctHandles
    /\ Sends /\ HandleSends
    /\ RowLocks /\ Committing /\ InDoubt /\ HeldAuthority
    /\ PublishedWasAccepted /\ FailedWasRefused /\ SendsAreAuthorized

USE DEF locks, broker, Sent, Active, InTransaction

(* The initial state satisfies the invariant.                              *)
LEMMA InitInv == Init => Inv
BY ConstantsAssumption DEF Init, Inv, TypeOK, AbsentRows, Handles, DistinctHandles, Sends, HandleSends, RowLocks,
   Committing, InDoubt, HeldAuthority, PublishedWasAccepted, FailedWasRefused, SendsAreAuthorized,
   Active, Sent, Absent, Idle, Rows, RelayStates, States, Settled, Phases, Outcomes, Attempts

(* Steps that end or abandon a transaction, and leave rows and broker alone. *)
LEMMA StepDown ==
    ASSUME Inv, NEW r \in Relays,
           UNCHANGED <<row, granted, broker>>,
           relay' \in [Relays -> RelayStates],
           \A s \in Relays : s # r => relay'[s] = relay[s],
           \/ relay'[r].phase = "idle"
           \/ /\ relay[r].phase # "idle"
              /\ relay'[r].phase \in {"resolving", "failing"}
              /\ relay'[r].event = relay[r].event
              /\ relay'[r].token = relay[r].token
              /\ relay'[r].attempt = relay[r].attempt
              /\ relay'[r].phase = "failing" => relay'[r].outcome # "deterministic",
           rowLock' = [e \in Events |-> IF rowLock[e] = r THEN None ELSE rowLock[e]],
           authority' = authority \/ (authority = r /\ authority' = None)
    PROVE Inv'
<1> USE ConstantsAssumption
<1>1. TypeOK'
  BY DEF Inv, TypeOK
<1>2. Handles' /\ DistinctHandles'
  BY DEF Inv, Handles, DistinctHandles
<1>3. Sends' /\ HandleSends'
  BY DEF Inv, Sends, HandleSends, Handles
<1>4. RowLocks'
  BY DEF Inv, RowLocks, Holds
<1>5. Committing'
  BY DEF Inv, Committing, Handles, TypeOK
<1>6. InDoubt' /\ HeldAuthority'
  BY DEF Inv, InDoubt, HeldAuthority, TypeOK
<1>7. PublishedWasAccepted' /\ FailedWasRefused' /\ AbsentRows'
  BY DEF Inv, AbsentRows, PublishedWasAccepted, FailedWasRefused
<1>8. SendsAreAuthorized'
  BY DEF Inv, SendsAreAuthorized, Handles, TypeOK
<1> QED
  BY <1>1, <1>2, <1>3, <1>4, <1>5, <1>6, <1>7, <1>8 DEF Inv

(* Steps of the database alone. *)
LEMMA RowMove ==
    ASSUME Inv,
           UNCHANGED <<locks, granted, relay, broker>>,
           row' \in [Events -> Rows],
           \A e \in Events : /\ row'[e].attempt >= row[e].attempt
                             /\ rowLock[e] # None =>
                                   /\ row'[e].state = row[e].state
                                   /\ row'[e].attempt = row[e].attempt
                                   /\ row'[e].token = row[e].token,
           PublishedWasAccepted', FailedWasRefused', AbsentRows'
    PROVE Inv'
<1> USE ConstantsAssumption
<1>1. TypeOK'
  BY DEF Inv, TypeOK
<1>2. Handles' /\ DistinctHandles'
  BY DEF Inv, Handles, DistinctHandles, TypeOK, Rows, Attempts
<1>3. Sends' /\ HandleSends'
  BY DEF Inv, Sends, HandleSends, TypeOK, Rows, Attempts
<1>4. RowLocks'
  BY DEF Inv, RowLocks, Holds
<1>5. Committing'
  BY DEF Inv, Committing
<1>6. InDoubt' /\ HeldAuthority'
  BY DEF Inv, InDoubt, HeldAuthority
<1>8. SendsAreAuthorized'
  BY DEF Inv, SendsAreAuthorized
<1> QED
  BY <1>1, <1>2, <1>3, <1>4, <1>5, <1>6, <1>8 DEF Inv

(* A relay outside a transaction holds no lock, so Unlock would change nothing. *)
LEMMA NoLocks ==
    ASSUME Inv, NEW r \in Relays, relay[r].phase \notin InTransaction
    PROVE  rowLock = [e \in Events |-> IF rowLock[e] = r THEN None ELSE rowLock[e]]
BY DEF Inv, RowLocks, TypeOK


(* The steps that end, or turn away from, a publish transaction without     *)
(* touching rows or broker.                                                *)
LEMMA StepDownInv ==
    ASSUME Inv, NEW r \in Relays,
           \/ RejectClaim(r) \/ Deny(r) \/ ErrorBeforeSend(r) \/ SendUnanswered(r)
           \/ MarkMissed(r) \/ FoundPublished(r) \/ Unresolved(r)
           \/ AlreadySettled(r) \/ FailureNotRecorded(r)
    PROVE  Inv'
<1> USE DEF Inv, TypeOK, RelayStates, Phases, Outcomes
<1>1. CASE RejectClaim(r)
  BY <1>1, NoLocks, StepDown, ConstantsAssumption DEF RejectClaim, Finish, Idle
<1>2. CASE Deny(r)
  BY <1>2, StepDown, ConstantsAssumption DEF Deny, Finish, Unlock, Idle
<1>3. CASE ErrorBeforeSend(r)
  BY <1>3, StepDown DEF ErrorBeforeSend, Fail, Unlock
<1>4. CASE SendUnanswered(r)
  BY <1>4, StepDown DEF SendUnanswered, Fail, Unlock
<1>5. CASE MarkMissed(r)
  BY <1>5, StepDown DEF MarkMissed, GoTo, Unlock
<1>6. CASE FoundPublished(r)
  BY <1>6, NoLocks, StepDown, ConstantsAssumption DEF FoundPublished, Finish, Idle
<1>7. CASE Unresolved(r)
  BY <1>7, NoLocks, StepDown DEF Unresolved, Fail
<1>8. CASE AlreadySettled(r)
  BY <1>8, NoLocks, StepDown, ConstantsAssumption DEF AlreadySettled, Finish, Idle
<1>9. CASE FailureNotRecorded(r)
  BY <1>9, NoLocks, StepDown, ConstantsAssumption DEF FailureNotRecorded, Finish, Idle
<1> QED
  BY <1>1, <1>2, <1>3, <1>4, <1>5, <1>6, <1>7, <1>8, <1>9

(* The connection of an open transaction dies under its relay.             *)
LEMMA SessionLostInv == ASSUME Inv, NEW r \in Relays, SessionLost(r) PROVE Inv'
<1> USE ConstantsAssumption DEF SessionLost, Unlock, Inv
<1>1. TypeOK'
  BY DEF TypeOK
<1>2. Handles' /\ DistinctHandles' /\ Sends' /\ HandleSends'
  BY DEF Handles, DistinctHandles, Sends, HandleSends
<1>3. RowLocks' /\ Committing'
  BY DEF RowLocks, Committing, Holds, Handles, TypeOK
<1>4. InDoubt' /\ HeldAuthority' /\ SendsAreAuthorized'
  BY DEF InDoubt, HeldAuthority, SendsAreAuthorized, Handles, TypeOK
<1>5. PublishedWasAccepted' /\ FailedWasRefused' /\ AbsentRows'
  BY DEF AbsentRows, PublishedWasAccepted, FailedWasRefused
<1> QED
  BY <1>1, <1>2, <1>3, <1>4, <1>5

(* Steps inside a publish transaction.                                     *)
LEMMA LockRowInv == ASSUME Inv, NEW r \in Relays, LockRow(r) PROVE Inv'
<1> USE ConstantsAssumption DEF LockRow, GoTo, Inv
<1>1. TypeOK'
  BY DEF TypeOK, RelayStates, Phases, Holds, Handles
<1>2. Handles' /\ DistinctHandles' /\ Sends' /\ HandleSends'
  BY DEF Handles, DistinctHandles, Sends, HandleSends, TypeOK, RelayStates
<1>3. RowLocks' /\ Committing'
  BY DEF RowLocks, Committing, Holds, Handles, TypeOK, RelayStates
<1>4. InDoubt' /\ HeldAuthority' /\ SendsAreAuthorized'
  BY DEF InDoubt, HeldAuthority, SendsAreAuthorized, Handles, TypeOK, RelayStates
<1>5. PublishedWasAccepted' /\ FailedWasRefused' /\ AbsentRows'
  BY DEF AbsentRows, PublishedWasAccepted, FailedWasRefused
<1> QED
  BY <1>1, <1>2, <1>3, <1>4, <1>5

(* A send is of the row its relay has locked, under the authority it holds. *)
LEMMA SendInv == ASSUME Inv, NEW r \in Relays, Send(r) PROVE Inv'
<1> USE ConstantsAssumption DEF Send, GoTo, Inv
<1>1. TypeOK'
  BY DEF TypeOK, RelayStates, Phases, Handles
<1>2. Handles' /\ DistinctHandles'
  BY DEF Handles, DistinctHandles, TypeOK, RelayStates
<1>3. Sends' /\ HandleSends'
  BY DEF Sends, HandleSends, Handles, DistinctHandles, TypeOK, RelayStates
<1>4. RowLocks' /\ Committing'
  BY DEF RowLocks, Committing, Holds, Handles, TypeOK, RelayStates
<1>5. InDoubt' /\ HeldAuthority' /\ SendsAreAuthorized'
  BY DEF InDoubt, HeldAuthority, SendsAreAuthorized, Handles, TypeOK, RelayStates
<1>6. PublishedWasAccepted' /\ FailedWasRefused' /\ AbsentRows'
  BY DEF AbsentRows, PublishedWasAccepted, FailedWasRefused, RowLocks, Holds, Handles, TypeOK
<1> QED
  BY <1>1, <1>2, <1>3, <1>4, <1>5, <1>6

(* An acknowledged attempt was accepted by the broker.                     *)
LEMMA AcknowledgedInv == ASSUME Inv, NEW r \in Relays, Acknowledged(r) PROVE Inv'
<1> USE ConstantsAssumption DEF Acknowledged, GoTo, Inv
<1>1. TypeOK'
  BY DEF TypeOK, RelayStates, Phases
<1>2. Handles' /\ DistinctHandles' /\ Sends' /\ HandleSends'
  BY DEF Handles, DistinctHandles, Sends, HandleSends, TypeOK, RelayStates
<1>3. RowLocks' /\ Committing'
  BY DEF RowLocks, Committing, Holds, Handles, TypeOK, RelayStates
<1>4. InDoubt' /\ HeldAuthority' /\ SendsAreAuthorized'
  BY DEF InDoubt, HeldAuthority, SendsAreAuthorized, Handles, TypeOK, RelayStates
<1>5. PublishedWasAccepted' /\ FailedWasRefused' /\ AbsentRows'
  BY DEF AbsentRows, PublishedWasAccepted, FailedWasRefused
<1> QED
  BY <1>1, <1>2, <1>3, <1>4, <1>5

(* The row marked in the transaction is the accepted one.                  *)
LEMMA MarkInv == ASSUME Inv, NEW r \in Relays, Mark(r) PROVE Inv'
<1> USE ConstantsAssumption DEF Mark, CanMark, GoTo, Inv
<1>1. TypeOK'
  BY DEF TypeOK, RelayStates, Phases
<1>2. Handles' /\ DistinctHandles' /\ Sends' /\ HandleSends'
  BY DEF Handles, DistinctHandles, Sends, HandleSends, TypeOK, RelayStates
<1>3. RowLocks'
  BY DEF RowLocks, Holds, Handles, TypeOK, RelayStates
<1>4. Committing'
  BY DEF Committing, SendsAreAuthorized, Handles, TypeOK, RelayStates
<1>5. InDoubt' /\ HeldAuthority' /\ SendsAreAuthorized'
  BY DEF InDoubt, HeldAuthority, SendsAreAuthorized, Handles, TypeOK, RelayStates
<1>6. PublishedWasAccepted' /\ FailedWasRefused' /\ AbsentRows'
  BY DEF AbsentRows, PublishedWasAccepted, FailedWasRefused
<1> QED
  BY <1>1, <1>2, <1>3, <1>4, <1>5, <1>6

(* A refusal concerns an attempt that is no longer in flight.              *)
LEMMA RejectedInv == ASSUME Inv, NEW r \in Relays, Rejected(r) PROVE Inv'
<1> USE ConstantsAssumption DEF Rejected, Fail, Unlock, Inv
<1>1. TypeOK'
  <2>1. relay' \in [Relays -> RelayStates]
    <3>1. relay[r] \in RelayStates
      BY DEF TypeOK
    <3>2. [relay[r] EXCEPT !.phase = "failing", !.outcome = "deterministic"] \in RelayStates
      BY <3>1 DEF RelayStates, Phases, Outcomes
    <3> QED
      BY <3>2 DEF TypeOK
  <2>2. flying' \in [Events -> SUBSET Attempts]
    BY DEF TypeOK
  <2>3. /\ rowLock' \in [Events -> Relays \cup {None, Server}]
        /\ authority' \in Relays \cup {None, Server}
    BY DEF TypeOK
  <2> QED
    BY <2>1, <2>2, <2>3 DEF TypeOK
<1>2. Handles' /\ DistinctHandles'
  BY DEF Handles, DistinctHandles, TypeOK, RelayStates
<1>3. Sends' /\ HandleSends'
  BY DEF Sends, HandleSends, Handles, DistinctHandles, TypeOK, RelayStates
<1>4. RowLocks' /\ Committing'
  BY DEF RowLocks, Committing, Holds, Handles, TypeOK, RelayStates
<1>5. InDoubt' /\ HeldAuthority' /\ SendsAreAuthorized'
  BY DEF InDoubt, HeldAuthority, SendsAreAuthorized, Handles, TypeOK, RelayStates
<1>6. PublishedWasAccepted' /\ FailedWasRefused' /\ AbsentRows'
  BY DEF AbsentRows, PublishedWasAccepted, FailedWasRefused, Handles, TypeOK
<1> QED
  BY <1>1, <1>2, <1>3, <1>4, <1>5, <1>6

(* A row that is given up stays a row.                                     *)
LEMMA GiveUpRow ==
    ASSUME NEW old \in Rows, NEW state \in States
    PROVE  /\ GiveUp(old, state) \in Rows
           /\ GiveUp(old, state).state = state
           /\ GiveUp(old, state).attempt = old.attempt
           /\ GiveUp(old, state).message = old.message
BY DEF GiveUp, Rows

(* A claimed row stays a row, its attempt below the limit.                 *)
LEMMA ClaimRow ==
    ASSUME NEW old \in Rows, old.attempt < AttemptLimit, NEW token \in Tokens \cup {None}
    PROVE  /\ Claim(old, token) \in Rows
           /\ Claim(old, token).state = "claimed"
           /\ Claim(old, token).attempt = old.attempt + 1
           /\ Claim(old, token).message = old.message
<1>1. old.attempt + 1 \in 0..AttemptLimit
  BY ConstantsAssumption DEF Rows
<1> QED
  BY <1>1 DEF Claim, Rows, States

(* A published row stays a row.                                            *)
LEMMA PublishedRow ==
    ASSUME NEW old \in Rows
    PROVE  /\ Published(old) \in Rows
           /\ Published(old).state = "published"
           /\ Published(old).attempt = old.attempt
           /\ Published(old).message = old.attempt
BY DEF Published, GiveUp, Rows, States, Settled

(***************************************************************************)
(* A committing transaction has three ends, for a relay that lives on      *)
(* (resolving) and for one that does not (idle).                           *)
(***************************************************************************)
AfterCommitting(r) ==
    /\ relay[r].phase = "committing"
    /\ relay' \in [Relays -> RelayStates]
    /\ \A s \in Relays : s # r => relay'[s] = relay[s]
    /\ \/ relay'[r].phase = "idle"
       \/ /\ relay'[r].phase = "resolving"
          /\ relay'[r].event = relay[r].event
          /\ relay'[r].token = relay[r].token
          /\ relay'[r].attempt = relay[r].attempt

(* COMMIT publishes what the broker accepted.                              *)
LEMMA CommitInv ==
    ASSUME Inv, NEW r \in Relays, AfterCommitting(r), Commit(r)
    PROVE  Inv'
<1> DEFINE e == relay[r].event
<1> USE ConstantsAssumption DEF AfterCommitting, Commit, Unlock, Inv
<1>1. /\ e \in Events /\ rowLock[e] = r /\ authority = r
      /\ row[e].state = "claimed" /\ row[e].attempt = relay[r].attempt
      /\ row[e].attempt \in accepted[e]
  BY DEF Handles, Committing, RowLocks, Holds, HandleSends
<1>2. /\ row' \in [Events -> Rows]
      /\ row'[e].state = "published"
      /\ row'[e].attempt = row[e].attempt
      /\ row'[e].message = row[e].attempt
      /\ \A f \in Events : f # e => row'[f] = row[f]
  BY <1>1, PublishedRow DEF TypeOK
<1>3. TypeOK'
  BY <1>2 DEF TypeOK
<1>4. Handles' /\ DistinctHandles'
  BY <1>1, <1>2 DEF Handles, DistinctHandles, TypeOK
<1>5. Sends' /\ HandleSends'
  BY <1>1, <1>2 DEF Sends, HandleSends, TypeOK
<1>6. RowLocks' /\ Committing'
  BY <1>1, <1>2 DEF RowLocks, Committing, Holds, TypeOK, Handles
<1>7. InDoubt' /\ HeldAuthority' /\ SendsAreAuthorized'
  BY <1>1, <1>2 DEF InDoubt, HeldAuthority, SendsAreAuthorized, Handles, TypeOK
<1>8. PublishedWasAccepted' /\ FailedWasRefused' /\ AbsentRows'
  BY <1>1, <1>2 DEF AbsentRows, PublishedWasAccepted, FailedWasRefused
<1> QED
  BY <1>3, <1>4, <1>5, <1>6, <1>7, <1>8

(* A COMMIT in doubt leaves its locks with the server.                     *)
LEMMA LeaveInDoubtInv ==
    ASSUME Inv, NEW r \in Relays, AfterCommitting(r), LeaveInDoubt(r)
    PROVE  Inv'
<1> DEFINE e == relay[r].event
<1> USE ConstantsAssumption DEF AfterCommitting, LeaveInDoubt, Inv
<1>1. /\ e \in Events /\ rowLock[e] = r /\ authority = r
      /\ row[e].state = "claimed" /\ row[e].attempt = relay[r].attempt
      /\ row[e].attempt \in accepted[e]
  BY DEF Handles, Committing, RowLocks, Holds, HandleSends
<1>2. /\ rowLock' \in [Events -> Relays \cup {None, Server}]
      /\ rowLock'[e] = Server
      /\ \A f \in Events : f # e => rowLock'[f] = rowLock[f]
      /\ \A f \in Events : rowLock[f] # Server /\ rowLock'[f] # r
  BY <1>1 DEF TypeOK, RowLocks, InDoubt
<1>3. TypeOK'
  BY <1>2 DEF TypeOK
<1>4. Handles' /\ DistinctHandles'
  BY DEF Handles, DistinctHandles
<1>5. Sends' /\ HandleSends'
  BY <1>1 DEF Sends, HandleSends
<1>6. RowLocks' /\ Committing'
  BY <1>1, <1>2 DEF RowLocks, Committing, Holds, Handles
<1>7. InDoubt' /\ HeldAuthority' /\ SendsAreAuthorized'
  BY <1>1, <1>2 DEF InDoubt, HeldAuthority, SendsAreAuthorized, Handles
<1>8. PublishedWasAccepted' /\ FailedWasRefused' /\ AbsentRows'
  BY DEF AbsentRows, PublishedWasAccepted, FailedWasRefused
<1> QED
  BY <1>3, <1>4, <1>5, <1>6, <1>7, <1>8

(* What follows a COMMIT: its answer, or the loss of it.                   *)
LEMMA EndInv ==
    ASSUME Inv, NEW r \in Relays, Committed(r) \/ CommitLost(r) \/ Crash(r)
    PROVE  Inv'
<1> USE DEF Inv, TypeOK, RelayStates, Phases, Outcomes
<1>1. CASE Committed(r)
  <2>1. relay[r].phase = "committing"
    BY <1>1 DEF Committed, Commit
  <2>2. AfterCommitting(r)
    BY <1>1, <2>1, ConstantsAssumption DEF Committed, AfterCommitting, Finish, Idle
  <2> QED
    BY <1>1, <2>2, CommitInv DEF Committed
<1>2. CASE CommitLost(r)
  <2>1. relay[r].phase = "committing" /\ GoTo(r, "resolving") /\ AfterCommitting(r)
    BY <1>2 DEF CommitLost, AfterCommitting, GoTo
  <2>2. CASE Commit(r)
    BY <2>1, <2>2, CommitInv
  <2>3. CASE LeaveInDoubt(r)
    BY <2>1, <2>3, LeaveInDoubtInv
  <2>4. CASE Unlock(r) /\ UNCHANGED <<row, granted, broker>>
    BY <2>1, <2>4, StepDown DEF Unlock, GoTo
  <2> QED
    BY <1>2, <2>2, <2>3, <2>4 DEF CommitLost
<1>3. CASE Crash(r)
  <2>1. /\ relay' \in [Relays -> RelayStates]
        /\ \A s \in Relays : s # r => relay'[s] = relay[s]
        /\ relay'[r].phase = "idle"
    BY <1>3, ConstantsAssumption DEF Crash, Finish, Idle
  <2>2. CASE Commit(r)
    BY <2>1, <2>2, CommitInv DEF AfterCommitting, Commit
  <2>3. CASE LeaveInDoubt(r)
    BY <2>1, <2>3, LeaveInDoubtInv DEF AfterCommitting, LeaveInDoubt
  <2>4. CASE Unlock(r) /\ UNCHANGED <<row, granted, broker>>
    BY <2>1, <2>4, StepDown DEF Unlock
  <2> QED
    BY <1>3, <2>2, <2>3, <2>4 DEF Crash
<1> QED
  BY <1>1, <1>2, <1>3

(***************************************************************************)
(* Steps of the database, the clock, the broker and the administrators.    *)
(***************************************************************************)
LEMMA DecideInDoubtInv == ASSUME Inv, NEW e \in Events, DecideInDoubt(e) PROVE Inv'
<1> USE ConstantsAssumption DEF DecideInDoubt, Inv
<1>1. /\ authority = Server /\ row[e].state = "claimed"
      /\ row[e].attempt \in accepted[e]
      /\ \A f \in Events : rowLock[f] = Server => f = e
  BY DEF InDoubt
<1>2. /\ row' \in [Events -> Rows]
      /\ row'[e].attempt = row[e].attempt
      /\ \/ row'[e] = row[e]
         \/ row'[e].state = "published" /\ row'[e].message = row[e].attempt
      /\ \A f \in Events : f # e => row'[f] = row[f]
  BY PublishedRow DEF TypeOK
<1>3. TypeOK'
  BY <1>2 DEF TypeOK
<1>4. Handles' /\ DistinctHandles'
  BY <1>2 DEF Handles, DistinctHandles
<1>5. Sends' /\ HandleSends'
  BY <1>2 DEF Sends, HandleSends
<1>6. RowLocks' /\ Committing'
  BY <1>1, <1>2 DEF RowLocks, Committing, Holds, Handles, TypeOK
<1>7. InDoubt' /\ HeldAuthority' /\ SendsAreAuthorized'
  BY <1>1, <1>2 DEF InDoubt, HeldAuthority, SendsAreAuthorized, Handles, TypeOK
<1>8. PublishedWasAccepted' /\ FailedWasRefused' /\ AbsentRows'
  BY <1>1, <1>2 DEF AbsentRows, PublishedWasAccepted, FailedWasRefused
<1> QED
  BY <1>3, <1>4, <1>5, <1>6, <1>7, <1>8

(* Leases and retry delays may run out at any time.                        *)
LEMMA ClockInv ==
    ASSUME Inv, NEW e \in Events, Insert(e) \/ LeaseExpires(e) \/ RetryDue(e)
    PROVE  Inv'
<1>1. /\ row' \in [Events -> Rows]
      /\ row'[e].attempt = row[e].attempt /\ row'[e].token = row[e].token
      /\ row'[e].message = row[e].message
      /\ row'[e].state = row[e].state \/ (row[e].state = "absent" /\ row'[e].state = "pending")
      /\ \A f \in Events : f # e => row'[f] = row[f]
      /\ UNCHANGED <<locks, granted, relay, broker>>
  <2>1. row[e] \in Rows
    BY DEF Inv, TypeOK
  <2>2. CASE Insert(e)
    BY <2>1, <2>2 DEF Inv, TypeOK, Rows, States, Insert
  <2>3. CASE LeaseExpires(e)
    BY <2>1, <2>3 DEF Inv, TypeOK, Rows, LeaseExpires
  <2>4. CASE RetryDue(e)
    BY <2>1, <2>4 DEF Inv, TypeOK, Rows, RetryDue
  <2> QED
    BY <2>2, <2>3, <2>4
<1>2. rowLock[e] # None => row[e].state = "claimed"
  BY DEF Inv, TypeOK, RowLocks, InDoubt, Holds
<1>3. PublishedWasAccepted' /\ FailedWasRefused' /\ AbsentRows'
  BY <1>1 DEF Inv, AbsentRows, PublishedWasAccepted, FailedWasRefused
<1>4. \A f \in Events : row'[f].attempt >= row[f].attempt
  BY <1>1 DEF Inv, TypeOK, Rows
<1> QED
  BY <1>1, <1>2, <1>3, <1>4, RowMove

(* The broker may accept, or lose, an attempt in flight.                   *)
LEMMA BrokerInv ==
    ASSUME Inv, NEW e \in Events, BrokerAccepts(e) \/ BrokerDrops(e)
    PROVE  Inv'
<1> USE ConstantsAssumption DEF Inv
<1>1. PICK a \in flying[e] :
         /\ flying' = [flying EXCEPT ![e] = @ \ {a}]
         /\ \/ accepted' = [accepted EXCEPT ![e] = @ \cup {a}]
            \/ accepted' = accepted
         /\ UNCHANGED <<row, locks, granted, relay>>
  BY DEF BrokerAccepts, BrokerDrops
<1>2. TypeOK'
  BY <1>1 DEF TypeOK
<1>3. Handles' /\ DistinctHandles'
  BY <1>1 DEF Handles, DistinctHandles
<1>4. Sends' /\ HandleSends'
  BY <1>1 DEF Sends, HandleSends, Handles, TypeOK
<1>5. RowLocks' /\ Committing'
  BY <1>1 DEF RowLocks, Committing, Holds
<1>6. InDoubt' /\ HeldAuthority' /\ SendsAreAuthorized'
  BY <1>1 DEF InDoubt, HeldAuthority, SendsAreAuthorized, TypeOK
<1>7. PublishedWasAccepted' /\ FailedWasRefused' /\ AbsentRows'
  BY <1>1 DEF AbsentRows, PublishedWasAccepted, FailedWasRefused, TypeOK
<1> QED
  BY <1>2, <1>3, <1>4, <1>5, <1>6, <1>7

(* Authority changes only when nobody has it locked.                       *)
LEMMA ChangeAuthorityInv == ASSUME Inv, ChangeAuthority PROVE Inv'
<1> USE ConstantsAssumption DEF ChangeAuthority, Inv
<1>1. TypeOK'
  BY DEF TypeOK
<1>2. Handles' /\ DistinctHandles' /\ Sends' /\ HandleSends'
  BY DEF Handles, DistinctHandles, Sends, HandleSends
<1>3. RowLocks' /\ Committing' /\ InDoubt' /\ HeldAuthority'
  BY DEF RowLocks, Committing, InDoubt, HeldAuthority, Holds
<1>4. SendsAreAuthorized' /\ PublishedWasAccepted' /\ FailedWasRefused' /\ AbsentRows'
  BY DEF SendsAreAuthorized, AbsentRows, PublishedWasAccepted, FailedWasRefused
<1> QED
  BY <1>1, <1>2, <1>3, <1>4

(***************************************************************************)
(* claimNext and recordFailure.                                            *)
(***************************************************************************)
(* What claimNext does to the rows, whether it claims one or not.          *)
ClaimEffect(chosen) ==
    /\ row' \in [Events -> Rows]
    /\ \A e \in Events :
          /\ row'[e].attempt = IF e \in chosen THEN row[e].attempt + 1 ELSE row[e].attempt
          /\ rowLock[e] # None => row'[e] = row[e]
          /\ row'[e].message = row[e].message
          /\ row'[e].state \in {"absent", "published", "terminal_failed"} => row'[e] = row[e]

(* What a claim does to the rows: it takes the chosen, and gives up the exhausted. *)
LEMMA AfterClaimRows ==
    ASSUME Inv, SweepNotBlocked,
           NEW chosen, chosen \subseteq Claimable,
           NEW token \in Tokens \cup {None},
           row' = AfterClaim(chosen, token)
    PROVE  ClaimEffect(chosen)
<1> USE ConstantsAssumption
<1> SUFFICES ASSUME NEW e \in Events
             PROVE  /\ row'[e] \in Rows
                    /\ row'[e].attempt =
                           IF e \in chosen THEN row[e].attempt + 1 ELSE row[e].attempt
                    /\ rowLock[e] # None => row'[e] = row[e]
                    /\ row'[e].message = row[e].message
                    /\ row'[e].state \in {"absent", "published", "terminal_failed"} => row'[e] = row[e]
  BY DEF AfterClaim, ClaimEffect
<1>1. row[e] \in Rows
  BY DEF Inv, TypeOK
<1>2. CASE e \in Exhausted
  <2>1. row'[e] = GiveUp(row[e], "terminal_unconfirmed")
    BY <1>2 DEF AfterClaim
  <2>2. e \notin chosen /\ rowLock[e] = None
    BY <1>1, <1>2 DEF Exhausted, Claimable, Eligible, SweepNotBlocked, Rows
  <2> QED
    BY <1>1, <2>1, <2>2, GiveUpRow DEF States, Settled
<1>3. CASE e \notin Exhausted /\ e \in chosen
  <2>1. row'[e] = Claim(row[e], token)
    BY <1>3 DEF AfterClaim
  <2>2. rowLock[e] = None /\ row[e].attempt < AttemptLimit
    BY <1>3 DEF Claimable, Eligible
  <2> QED
    BY <1>1, <1>3, <2>1, <2>2, ClaimRow
<1>4. CASE e \notin Exhausted /\ e \notin chosen
  BY <1>1, <1>4 DEF AfterClaim
<1> QED
  BY <1>2, <1>3, <1>4

(* A claim whose handle is lost leaves a row with nobody to send it.       *)
LEMMA ClaimLostInv ==
    ASSUME Inv, NEW r \in Relays, ClaimLost(r) \/ ClaimNothing(r)
    PROVE  Inv'
<1>1. SweepNotBlocked /\ UNCHANGED <<locks, granted, relay, broker>>
  BY DEF ClaimLost, ClaimNothing
<1>2. \E chosen : chosen \subseteq Claimable /\ ClaimEffect(chosen)
  <2>1. CASE ClaimLost(r)
    <3>1. PICK e \in Claimable, token \in Tokens \ TokensInUse : row' = AfterClaim({e}, token)
      BY <2>1 DEF ClaimLost
    <3>2. ClaimEffect({e})
      BY <1>1, <3>1, AfterClaimRows
    <3> QED
      BY <3>2
  <2>2. CASE ClaimNothing(r)
    <3>1. ClaimEffect({})
      BY <1>1, <2>2, AfterClaimRows DEF ClaimNothing
    <3> QED
      BY <3>1
  <2> QED
    BY <2>1, <2>2
<1>3. row' \in [Events -> Rows]
  BY <1>2 DEF ClaimEffect
<1>4. \A e \in Events : row'[e].attempt >= row[e].attempt
  BY <1>2, ConstantsAssumption DEF ClaimEffect, Inv, TypeOK, Rows
<1>5. \A e \in Events : rowLock[e] # None => row'[e] = row[e]
  BY <1>2 DEF ClaimEffect
<1>6. PublishedWasAccepted' /\ FailedWasRefused' /\ AbsentRows'
  BY <1>1, <1>2 DEF ClaimEffect, Inv, AbsentRows, PublishedWasAccepted, FailedWasRefused
<1> QED
  BY <1>1, <1>3, <1>4, <1>5, <1>6, RowMove

(* A claim issues a token nobody holds, for an attempt nobody made.        *)
LEMMA ClaimNextInv == ASSUME Inv, NEW r \in Relays, ClaimNext(r) PROVE Inv'
<1> USE ConstantsAssumption
<1>0. PICK e \in Claimable, token \in Tokens \ TokensInUse :
         /\ row' = AfterClaim({e}, token)
         /\ relay' = [relay EXCEPT ![r] =
                         [phase |-> "claimed", event |-> e, token |-> token,
                          attempt |-> Claim(row[e], token).attempt,
                          outcome |-> "ambiguous"]]
  BY DEF ClaimNext
<1>1. /\ e \in Claimable /\ token \in Tokens \ TokensInUse
      /\ row' = AfterClaim({e}, token)
      /\ relay' = [relay EXCEPT ![r] =
                      [phase |-> "claimed", event |-> e, token |-> token,
                       attempt |-> row[e].attempt + 1, outcome |-> "ambiguous"]]
  <2>1. row[e] \in Rows
    BY DEF Inv, TypeOK, Claimable, Eligible
  <2>2. Claim(row[e], token).attempt = row[e].attempt + 1
    BY <2>1 DEF Claim, Rows
  <2> QED
    BY <1>0, <2>2
<1>2. /\ relay[r].phase = "idle"
      /\ SweepNotBlocked
      /\ UNCHANGED <<locks, granted, broker>>
  BY DEF ClaimNext
<1>3. ClaimEffect({e})
  BY <1>1, <1>2, AfterClaimRows
<1>4. /\ e \in Events /\ token \in Tokens
      /\ row[e].attempt \in Nat /\ row[e].attempt + 1 \in Attempts
  BY <1>1 DEF Inv, TypeOK, Rows, Claimable, Eligible, Attempts
<1>5. /\ \A f \in Events : /\ row[f].attempt \in Nat
                           /\ row'[f].attempt \in Nat
                           /\ row'[f].attempt >= row[f].attempt
      /\ row'[e].attempt = row[e].attempt + 1
  <2>1. \A f \in Events : row[f].attempt \in Nat
    BY DEF Inv, TypeOK, Rows
  <2>2. \A f \in Events :
           row'[f].attempt = IF f = e THEN row[f].attempt + 1 ELSE row[f].attempt
    BY <1>3 DEF ClaimEffect
  <2> QED
    BY <1>4, <2>1, <2>2
<1>6. /\ relay'[r].phase = "claimed" /\ relay'[r].event = e /\ relay'[r].token = token
      /\ relay'[r].attempt = row[e].attempt + 1
      /\ \A s \in Relays : s # r => relay'[s] = relay[s]
  BY <1>1 DEF Inv, TypeOK
<1>7. TypeOK'
  <2>1. relay' \in [Relays -> RelayStates]
    BY <1>1, <1>4 DEF Inv, TypeOK, RelayStates, Phases, Outcomes, Attempts
  <2> QED
    BY <1>2, <1>3, <2>1 DEF ClaimEffect, Inv, TypeOK
<1>8. Handles'
  <2>1. relay'[r].attempt <= row'[relay'[r].event].attempt
    BY <1>4, <1>5, <1>6
  <2>2. ASSUME NEW s \in Relays, s # r, relay[s].phase # "idle"
        PROVE  relay[s].attempt <= row'[relay[s].event].attempt
    <3>1. relay[s].event \in Events /\ relay[s].attempt \in Nat
          /\ relay[s].attempt <= row[relay[s].event].attempt
      BY <2>2 DEF Inv, Handles, Attempts
    <3> QED
      BY <1>5, <3>1
  <2> QED
    BY <1>4, <1>6, <2>1, <2>2 DEF Inv, Handles
<1>9. DistinctHandles'
  <2>1. ASSUME NEW s \in Relays, relay[s].phase # "idle", relay[s].event = e
        PROVE  relay[s].attempt # row[e].attempt + 1
    <3>1. relay[s].attempt \in Nat /\ relay[s].attempt <= row[e].attempt
      BY <2>1 DEF Inv, Handles, Attempts
    <3> QED
      BY <1>4, <3>1
  <2> QED
    BY <1>6, <2>1 DEF Inv, DistinctHandles
<1>10. Sends'
  BY <1>2, <1>5 DEF Inv, Sends, TypeOK, Attempts
<1>11. HandleSends'
  BY <1>2, <1>4, <1>6 DEF Inv, Sends, HandleSends, TypeOK, Attempts
<1>12. RowLocks' /\ Committing'
  BY <1>2, <1>3, <1>6 DEF ClaimEffect, Inv, RowLocks, Committing, Holds
<1>13. InDoubt' /\ HeldAuthority' /\ SendsAreAuthorized'
  BY <1>2, <1>3, <1>6 DEF ClaimEffect, Inv, InDoubt, HeldAuthority, SendsAreAuthorized
<1>14. PublishedWasAccepted' /\ FailedWasRefused' /\ AbsentRows'
  BY <1>2, <1>3 DEF ClaimEffect, Inv, AbsentRows, PublishedWasAccepted, FailedWasRefused
<1> QED
  BY <1>7, <1>8, <1>9, <1>10, <1>11, <1>12, <1>13, <1>14 DEF Inv

(* A failed attempt below the limit is retried.                            *)
LEMMA RetriedRow ==
    ASSUME NEW old \in Rows
    PROVE  /\ Retried(old) \in Rows
           /\ Retried(old).state = "retry_wait"
           /\ Retried(old).attempt = old.attempt
           /\ Retried(old).message = old.message
BY DEF Retried, GiveUp, Rows, States

(* A failed attempt at the limit ends its row.                             *)
LEMMA TerminatedRow ==
    ASSUME NEW old \in Rows, NEW outcome
    PROVE  /\ Terminated(old, outcome) \in Rows
           /\ Terminated(old, outcome).state =
                 IF outcome = "deterministic" THEN "terminal_failed" ELSE "terminal_unconfirmed"
           /\ Terminated(old, outcome).attempt = old.attempt
           /\ Terminated(old, outcome).message = old.message
BY GiveUpRow DEF Terminated, States, Settled

(* A failure is recorded only by the holder of the claim.                  *)
LEMMA RecordFailureInv == ASSUME Inv, NEW r \in Relays, RecordFailure(r) PROVE Inv'
<1> DEFINE e == relay[r].event
<1> USE ConstantsAssumption DEF RecordFailure, Finish, Inv
<1>1. /\ e \in Events /\ rowLock[e] = None
      /\ row[e].state = "claimed" /\ row[e].attempt = relay[r].attempt
      /\ relay[r].attempt \in Attempts
  BY DEF Handles, Holds
<1>2. /\ row' \in [Events -> Rows]
      /\ row'[e].attempt = row[e].attempt
      /\ row'[e].state \notin {"published", "absent"}
      /\ row'[e].state = "terminal_failed"
            => row[e].attempt = AttemptLimit /\ relay[r].outcome = "deterministic"
      /\ \A f \in Events : f # e => row'[f] = row[f]
  <2>1. row[e] \in Rows
    BY <1>1 DEF TypeOK
  <2>2. CASE relay[r].attempt < AttemptLimit
    <3>1. row' = [row EXCEPT ![e] = Retried(row[e])]
      BY <2>2
    <3> QED
      BY <1>1, <2>1, <3>1, RetriedRow DEF TypeOK
  <2>3. CASE ~(relay[r].attempt < AttemptLimit)
    <3>1. row' = [row EXCEPT ![e] = Terminated(row[e], relay[r].outcome)]
      BY <2>3
    <3>2. relay[r].attempt = AttemptLimit
      BY <1>1, <2>3 DEF Attempts
    <3> QED
      BY <1>1, <2>1, <3>1, <3>2, TerminatedRow DEF TypeOK
  <2> QED
    BY <2>2, <2>3
<1>3. TypeOK'
  BY <1>2 DEF TypeOK, Idle, RelayStates, Phases, Outcomes
<1>4. Handles' /\ DistinctHandles'
  BY <1>2 DEF Handles, DistinctHandles, Idle, TypeOK
<1>5. Sends' /\ HandleSends'
  BY <1>2 DEF Sends, HandleSends, Idle, TypeOK
<1>6. RowLocks' /\ Committing'
  BY <1>1, <1>2 DEF RowLocks, Committing, Holds, Idle, TypeOK
<1>7. InDoubt' /\ HeldAuthority' /\ SendsAreAuthorized'
  BY <1>1, <1>2 DEF InDoubt, HeldAuthority, SendsAreAuthorized, Idle, TypeOK
<1>8. PublishedWasAccepted' /\ FailedWasRefused' /\ AbsentRows'
  <2>1. PublishedWasAccepted'
    BY <1>1, <1>2 DEF PublishedWasAccepted
  <2>2. FailedWasRefused'
    BY <1>1, <1>2 DEF FailedWasRefused, HandleSends
  <2>3. AbsentRows'
    BY <1>1, <1>2 DEF AbsentRows
  <2> QED
    BY <2>1, <2>2, <2>3
<1> QED
  BY <1>3, <1>4, <1>5, <1>6, <1>7, <1>8

(***************************************************************************)
(* Every step preserves the invariant.                                     *)
(***************************************************************************)
LEMMA NextInv == Inv /\ [Next]_vars => Inv'
<1> SUFFICES ASSUME Inv, [Next]_vars PROVE Inv'
  OBVIOUS
<1>1. ASSUME NEW r \in Relays, RelayStep(r) PROVE Inv'
  BY <1>1, ClaimNextInv, ClaimLostInv, LockRowInv, StepDownInv, SendInv, AcknowledgedInv,
     RejectedInv, MarkInv, EndInv, RecordFailureInv DEF RelayStep
<1>2. ASSUME NEW r \in Relays, SessionLost(r) PROVE Inv'
  BY <1>2, SessionLostInv
<1>3. ASSUME NEW r \in Relays, Crash(r) PROVE Inv'
  BY <1>3, EndInv
<1>4. ASSUME NEW e \in Events, RowStep(e) PROVE Inv'
  BY <1>4, ClockInv, DecideInDoubtInv, BrokerInv DEF RowStep
<1>5. ASSUME ChangeAuthority PROVE Inv'
  BY <1>5, ChangeAuthorityInv
<1>6. ASSUME UNCHANGED vars PROVE Inv'
  BY <1>6 DEF vars, Inv, TypeOK, AbsentRows, Handles, DistinctHandles, Sends, HandleSends,
     RowLocks, Committing, InDoubt, HeldAuthority, PublishedWasAccepted, FailedWasRefused,
     SendsAreAuthorized, Holds
<1> QED
  BY <1>1, <1>2, <1>3, <1>4, <1>5, <1>6 DEF Next

(* Inv is inductive: every reachable state of the outbox satisfies it.     *)
THEOREM Invariance == Spec => []Inv
BY InitInv, NextInv, PTL DEF Spec

(* The types, and with them the attempt bound of the table.                *)
THEOREM TypeCorrect == Spec => []TypeOK
<1>1. Inv => TypeOK
  BY DEF Inv
<1> QED
  BY <1>1, Invariance, PTL

(* A published row carries the MessageId of a send the broker accepted.    *)
THEOREM PublishedIsAccepted == Spec => []PublishedWasAccepted
<1>1. Inv => PublishedWasAccepted
  BY DEF Inv
<1> QED
  BY <1>1, Invariance, PTL

(* A row that ends as terminal_failed was refused at its last attempt.     *)
THEOREM FailedIsRefused == Spec => []FailedWasRefused
<1>1. Inv => FailedWasRefused
  BY DEF Inv
<1> QED
  BY <1>1, Invariance, PTL

(* At most one relay holds the current claim of a row.                     *)
THEOREM ExclusiveClaims == Spec => []OneClaimHolder
<1>1. Inv => OneClaimHolder
  BY DEF Inv, DistinctHandles, OneClaimHolder, Holds
<1> QED
  BY <1>1, Invariance, PTL

(* A send whose transaction is alive happens under locked, granted authority. *)
THEOREM AuthorizedSends == Spec => []SendsAreAuthorized
<1>1. Inv => SendsAreAuthorized
  BY DEF Inv
<1> QED
  BY <1>1, Invariance, PTL

(* No attempt is ever sent twice.                                          *)
THEOREM AttemptsSentOnce == Spec => NoAttemptSentTwice
<1>1. Inv /\ [Next]_vars =>
        [\A e \in Events : (flying'[e] \ flying[e]) \cap (flying[e] \cup accepted[e]) = {}]_vars
  <2> SUFFICES ASSUME Inv, Next, NEW e \in Events
               PROVE  (flying'[e] \ flying[e]) \cap (flying[e] \cup accepted[e]) = {}
    BY DEF vars
  <2>1. ASSUME NEW r \in Relays, Send(r)
        PROVE  (flying'[e] \ flying[e]) \cap (flying[e] \cup accepted[e]) = {}
    BY <2>1 DEF Send, Inv, HandleSends, TypeOK
  <2>2. ASSUME NEW r \in Relays, RelayStep(r), ~Send(r)
        PROVE  flying'[e] \subseteq flying[e]
    BY <2>2 DEF RelayStep, ClaimNext, ClaimLost, ClaimNothing, LockRow, RejectClaim, Deny,
       ErrorBeforeSend, Acknowledged, Rejected, SendUnanswered, Mark, MarkMissed, Committed,
       Commit, CommitLost, LeaveInDoubt, FoundPublished, Unresolved, RecordFailure,
       AlreadySettled, FailureNotRecorded, Inv, TypeOK
  <2>3. ASSUME NEW r \in Relays, SessionLost(r) \/ Crash(r)
        PROVE  flying'[e] \subseteq flying[e]
    BY <2>3 DEF SessionLost, Crash, Commit, LeaveInDoubt
  <2>4. ASSUME NEW f \in Events, RowStep(f)
        PROVE  flying'[e] \subseteq flying[e]
    BY <2>4 DEF RowStep, Insert, DecideInDoubt, LeaseExpires, RetryDue, BrokerAccepts,
       BrokerDrops, Inv, TypeOK
  <2>5. ASSUME ChangeAuthority PROVE flying'[e] \subseteq flying[e]
    BY <2>5 DEF ChangeAuthority
  <2> QED
    BY <2>1, <2>2, <2>3, <2>4, <2>5 DEF Next
<1> QED
  BY <1>1, Invariance, PTL DEF Spec, NoAttemptSentTwice

(***************************************************************************)
(* The transition trigger admits every update: what a step may do to a row *)
(* is one of seven changes.                                                *)
(***************************************************************************)
RowChange(old, new) ==
    \/ new = old
    \/ old.state \in {"claimed", "retry_wait"} /\ ClockStep(old, new)
    \/ old.state = "absent" /\ new = [old EXCEPT !.state = "pending", !.due = TRUE]
    \/ /\ old.state \in {"pending", "retry_wait", "claimed"}
       /\ old.state = "claimed" => ~old.live
       /\ \E token \in Tokens : old.attempt < AttemptLimit /\ new = Claim(old, token)
    \/ /\ old.state = "claimed" /\ old.attempt = AttemptLimit
       /\ \E state \in {"terminal_failed", "terminal_unconfirmed"} : new = GiveUp(old, state)
    \/ old.state = "claimed" /\ new = Retried(old)
    \/ old.state = "claimed" /\ old.attempt \in Attempts /\ new = Published(old)

(* A row has the name of a message only once it is published.              *)
Messages == \A e \in Events : row[e].state # "published" => row[e].message = 0

(* claimNext gives up exhausted rows and claims at most one eligible row.  *)
LEMMA ClaimChanges ==
    ASSUME Inv, NEW r \in Relays, ClaimNext(r) \/ ClaimLost(r) \/ ClaimNothing(r),
           NEW e \in Events
    PROVE  RowChange(row[e], row'[e])
<1>1. PICK chosen \in SUBSET Claimable, token \in Tokens \cup {None} :
         /\ row' = AfterClaim(chosen, token)
         /\ chosen # {} => token \in Tokens
  <2>1. CASE ClaimNothing(r)
    BY <2>1 DEF ClaimNothing
  <2>2. CASE ClaimNext(r) \/ ClaimLost(r)
    <3>1. PICK f \in Claimable, token \in Tokens \ TokensInUse : row' = AfterClaim({f}, token)
      BY <2>2 DEF ClaimNext, ClaimLost
    <3> QED
      BY <3>1
  <2> QED
    BY <2>1, <2>2
<1>2. CASE e \in Exhausted
  BY <1>1, <1>2 DEF AfterClaim, Exhausted, RowChange
<1>3. CASE e \notin Exhausted /\ e \in chosen
  <2>1. row'[e] = Claim(row[e], token) /\ token \in Tokens
    BY <1>1, <1>3 DEF AfterClaim
  <2>2. /\ row[e].state \in {"pending", "retry_wait", "claimed"}
        /\ row[e].state = "claimed" => ~row[e].live
        /\ row[e].attempt < AttemptLimit
    BY <1>3 DEF Claimable, Eligible
  <2> QED
    BY <2>1, <2>2 DEF RowChange
<1>4. CASE e \notin Exhausted /\ e \notin chosen
  BY <1>1, <1>4 DEF AfterClaim, RowChange
<1> QED
  BY <1>2, <1>3, <1>4

(* recordFailure settles or returns the claim it finds on its row.         *)
LEMMA FailureChanges ==
    ASSUME Inv, NEW r \in Relays, RecordFailure(r), NEW e \in Events
    PROVE  RowChange(row[e], row'[e])
<1> DEFINE f == relay[r].event
<1>1. /\ f \in Events /\ row[f].state = "claimed" /\ row[f].attempt = relay[r].attempt
      /\ relay[r].attempt \in Attempts
      /\ row' = [row EXCEPT ![f] = IF relay[r].attempt < AttemptLimit THEN Retried(row[f])
                                   ELSE Terminated(row[f], relay[r].outcome)]
  BY DEF RecordFailure, Holds, Inv, Handles
<1>2. CASE e # f
  BY <1>1, <1>2 DEF Inv, TypeOK, RowChange
<1>3. CASE e = f /\ relay[r].attempt < AttemptLimit
  <2>1. row'[e] = Retried(row[e])
    BY <1>1, <1>3 DEF Inv, TypeOK
  <2> QED
    BY <1>1, <1>3, <2>1 DEF RowChange
<1>4. CASE e = f /\ ~(relay[r].attempt < AttemptLimit)
  <2>1. row'[e] = Terminated(row[e], relay[r].outcome)
    BY <1>1, <1>4 DEF Inv, TypeOK
  <2>2. row[e].attempt = AttemptLimit
    BY <1>1, <1>4, ConstantsAssumption DEF Attempts
  <2>3. \E state \in {"terminal_failed", "terminal_unconfirmed"} : row'[e] = GiveUp(row[e], state)
    BY <2>1 DEF Terminated
  <2> QED
    BY <1>1, <1>4, <2>2, <2>3 DEF RowChange
<1> QED
  BY <1>2, <1>3, <1>4

(* A COMMIT, answered or decided later, publishes a claimed row.           *)
LEMMA PublishChanges ==
    ASSUME Inv, NEW f \in Events, row[f].state = "claimed", row[f].attempt \in Attempts,
           row' = [row EXCEPT ![f] = Published(@)], NEW e \in Events
    PROVE  RowChange(row[e], row'[e])
BY DEF Inv, TypeOK, RowChange

(* Every step changes every row in one of the seven ways.                  *)
LEMMA RowsChange ==
    ASSUME Inv, Next, NEW e \in Events
    PROVE  RowChange(row[e], row'[e])
<1>1. ASSUME NEW r \in Relays, Commit(r) PROVE RowChange(row[e], row'[e])
  <2>1. /\ relay[r].event \in Events /\ row[relay[r].event].state = "claimed"
        /\ row[relay[r].event].attempt \in Attempts
        /\ row' = [row EXCEPT ![relay[r].event] = Published(@)]
    BY <1>1 DEF Commit, Inv, Handles, Committing, RowLocks, Holds
  <2> QED
    BY <2>1, PublishChanges
<1>2. ASSUME NEW r \in Relays, RelayStep(r) \/ SessionLost(r) \/ Crash(r),
             ~Commit(r), ~RecordFailure(r),
             ~(ClaimNext(r) \/ ClaimLost(r) \/ ClaimNothing(r))
      PROVE  row' = row
  BY <1>2 DEF RelayStep, SessionLost, Crash, LockRow, RejectClaim, Send, Deny, ErrorBeforeSend,
     Acknowledged, Rejected, SendUnanswered, Mark, MarkMissed, Committed, CommitLost,
     LeaveInDoubt, FoundPublished, Unresolved, AlreadySettled, FailureNotRecorded
<1>3. ASSUME NEW f \in Events, Insert(f) PROVE RowChange(row[e], row'[e])
  <2>1. CASE e = f
    <3>1. row[e].state = "absent" /\ row'[e] = [row[e] EXCEPT !.state = "pending", !.due = TRUE]
      BY <1>3, <2>1 DEF Insert, Inv, TypeOK
    <3> QED
      BY <3>1 DEF RowChange
  <2>2. CASE e # f
    BY <1>3, <2>2 DEF Insert, Inv, TypeOK, RowChange
  <2> QED
    BY <2>1, <2>2
<1>4. ASSUME NEW f \in Events, DecideInDoubt(f) PROVE RowChange(row[e], row'[e])
  <2>1. row[f].state = "claimed" /\ row[f].attempt \in Attempts
    BY <1>4 DEF DecideInDoubt, Inv, InDoubt, TypeOK
  <2>2. row' = row \/ row' = [row EXCEPT ![f] = Published(@)]
    BY <1>4 DEF DecideInDoubt
  <2> QED
    BY <2>1, <2>2, PublishChanges DEF RowChange
<1>5. ASSUME NEW f \in Events, LeaseExpires(f) \/ RetryDue(f)
      PROVE  RowChange(row[e], row'[e])
  <2>1. CASE e = f
    <3>1. row[e] \in Rows
      BY DEF Inv, TypeOK
    <3>2. row'[e] = [row[e] EXCEPT !.live = FALSE] \/ row'[e] = [row[e] EXCEPT !.due = TRUE]
      BY <1>5, <2>1 DEF LeaseExpires, RetryDue, Inv, TypeOK
    <3>3. ClockStep(row[e], row'[e])
      BY <3>1, <3>2 DEF ClockStep, Rows
    <3> QED
      BY <1>5, <2>1, <3>3 DEF LeaseExpires, RetryDue, RowChange
  <2>2. CASE e # f
    BY <1>5, <2>2 DEF LeaseExpires, RetryDue, Inv, TypeOK, RowChange
  <2> QED
    BY <2>1, <2>2
<1>6. ASSUME NEW f \in Events, BrokerAccepts(f) \/ BrokerDrops(f) PROVE row' = row
  BY <1>6 DEF BrokerAccepts, BrokerDrops
<1>7. ASSUME ChangeAuthority PROVE row' = row
  BY <1>7 DEF ChangeAuthority
<1>8. row' = row => RowChange(row[e], row'[e])
  BY DEF RowChange
<1> QED
  BY <1>1, <1>2, <1>3, <1>4, <1>5, <1>6, <1>7, <1>8, ClaimChanges, FailureChanges
     DEF Next, RowStep

(* Only a publication names a message.                                     *)
LEMMA MessagesKept == Inv /\ Messages /\ [Next]_vars => Messages'
<1> SUFFICES ASSUME Inv, Messages, [Next]_vars, NEW e \in Events
             PROVE  row'[e].state # "published" => row'[e].message = 0
  BY DEF Messages
<1>1. CASE UNCHANGED vars
  BY <1>1 DEF vars, Messages
<1>2. CASE Next
  <2>1. row[e] \in Rows /\ (row[e].state # "published" => row[e].message = 0)
    BY DEF Inv, TypeOK, Messages
  <2>2. RowChange(row[e], row'[e])
    BY <1>2, RowsChange
  <2>3. \/ row'[e] = row[e]
        \/ row[e].state # "published" /\ row'[e].message = row[e].message
        \/ row'[e].state = "published"
    <3> DEFINE old == row[e]
    <3>1. /\ \A state \in {"terminal_failed", "terminal_unconfirmed"} :
                GiveUp(old, state).message = old.message
          /\ Retried(old).message = old.message
          /\ Published(old).state = "published"
      BY <2>1, GiveUpRow, RetriedRow, PublishedRow DEF States, Settled
    <3>2. old.attempt < AttemptLimit =>
             \A token \in Tokens : Claim(old, token).message = old.message
      BY <2>1, ClaimRow
    <3>3. [old EXCEPT !.state = "pending", !.due = TRUE].message = old.message
      BY <2>1 DEF Rows
    <3>4. ClockStep(old, row'[e]) => row'[e].message = old.message
      BY <2>1 DEF ClockStep, Rows
    <3> QED
      BY <2>2, <3>1, <3>2, <3>3, <3>4 DEF RowChange
  <2> QED
    BY <2>1, <2>3
<1> QED
  BY <1>1, <1>2

(* A change of the seven kinds is one the trigger lets through.            *)
LEMMA ChangesAreAdmitted ==
    ASSUME ConstantsAssumption,
           NEW old \in Rows, NEW new, RowChange(old, new),
           old.state = "absent" => old.attempt = 0,
           old.state # "published" => old.message = 0
    PROVE  \/ new = old
           \/ old.state \in {"claimed", "retry_wait"} /\ ClockStep(old, new)
           \/ Admitted(old, new)
<1>1. CASE old.state = "absent" /\ new = [old EXCEPT !.state = "pending", !.due = TRUE]
  <2>1. new.state = "pending" /\ new.attempt = 0
    BY <1>1 DEF Rows
  <2> QED
    BY <1>1, <2>1 DEF Admitted
<1>2. ASSUME old.state \in {"pending", "retry_wait", "claimed"},
             old.state = "claimed" => ~old.live,
             NEW token \in Tokens, old.attempt < AttemptLimit, new = Claim(old, token)
      PROVE  Admitted(old, new)
  <2>1. /\ new.state = "claimed" /\ new.attempt = old.attempt + 1
        /\ new.token = token /\ new.live
    BY <1>2 DEF Claim, Rows
  <2>2. token # None
    BY ConstantsAssumption
  <2> QED
    BY <1>2, <2>1, <2>2 DEF Admitted
<1>3. ASSUME old.state = "claimed", old.attempt = AttemptLimit,
             NEW state \in {"terminal_failed", "terminal_unconfirmed"}, new = GiveUp(old, state)
      PROVE  Admitted(old, new)
  <2>1. new.state = state /\ new.attempt = old.attempt /\ new.message = 0
    BY <1>3, GiveUpRow DEF States, Settled
  <2> QED
    BY <1>3, <2>1 DEF Admitted
<1>4. CASE old.state = "claimed" /\ new = Retried(old)
  <2>1. new.state = "retry_wait" /\ new.attempt = old.attempt /\ ~new.due
    BY <1>4 DEF Retried, GiveUp, Rows
  <2> QED
    BY <1>4, <2>1 DEF Admitted
<1>5. CASE old.state = "claimed" /\ old.attempt \in Attempts /\ new = Published(old)
  <2>1. new.state = "published" /\ new.attempt = old.attempt /\ new.message # 0
    BY <1>5, PublishedRow, ConstantsAssumption DEF Attempts
  <2> QED
    BY <1>5, <2>1 DEF Admitted
<1> QED
  BY <1>1, <1>2, <1>3, <1>4, <1>5 DEF RowChange

(* The transition trigger never refuses a statement of the repository, and *)
(* a settled row never changes again.                                      *)
THEOREM EveryUpdateIsAdmitted == Spec => TriggerAdmitsEveryUpdate
<1>1. Init => Messages
  BY DEF Init, Messages, Absent
<1>2. Spec => []Messages
  BY <1>1, MessagesKept, Invariance, PTL DEF Spec
<1>3. Inv /\ Messages /\ [Next]_vars =>
        [\A e \in Events :
            \/ row'[e] = row[e]
            \/ row[e].state \in {"claimed", "retry_wait"} /\ ClockStep(row[e], row'[e])
            \/ Admitted(row[e], row'[e])]_vars
  <2> SUFFICES ASSUME Inv, Messages, Next, NEW e \in Events
               PROVE  \/ row'[e] = row[e]
                      \/ row[e].state \in {"claimed", "retry_wait"} /\ ClockStep(row[e], row'[e])
                      \/ Admitted(row[e], row'[e])
    BY DEF vars
  <2>1. RowChange(row[e], row'[e])
    BY RowsChange
  <2>2. /\ row[e] \in Rows
        /\ row[e].state = "absent" => row[e].attempt = 0
        /\ row[e].state # "published" => row[e].message = 0
    BY DEF Inv, TypeOK, AbsentRows, Messages
  <2> QED
    BY <2>1, <2>2, ChangesAreAdmitted, ConstantsAssumption
<1> QED
  BY <1>2, <1>3, Invariance, PTL DEF Spec, TriggerAdmitsEveryUpdate

(***************************************************************************)
(* The outbox implements the delivery promise: relay steps that settle a   *)
(* row are the promise's verdicts, a broker acceptance is a delivery, and  *)
(* everything else stutters.                                               *)
(***************************************************************************)
status == [e \in Events |-> Status(row[e].state)]

(* The status the delivery promise sees of a row.                          *)
LEMMA StatusOf ==
    ASSUME Inv, NEW e \in Events
    PROVE  /\ status[e] = "absent" <=> row[e].state = "absent"
           /\ status[e] = "open" <=> row[e].state \in {"pending", "claimed", "retry_wait"}
           /\ status[e] = "failed" <=> row[e].state = "terminal_failed"
<1>1. row[e].state \in States
  BY DEF Inv, TypeOK, Rows
<1> QED
  BY <1>1 DEF status, Status, States, Settled

(* Without a change of rows or broker, the promise sees nothing.           *)
LEMMA Stutter ==
    ASSUME Inv, UNCHANGED accepted,
           \A e \in Events : Status(row'[e].state) = Status(row[e].state)
    PROVE  UNCHANGED Delivery!vars
BY DEF Delivery!vars

(* Publishing an accepted row is a Publish of the promise.                 *)
LEMMA PublishRefined ==
    ASSUME Inv, NEW e \in Events, row[e].state = "claimed", row[e].attempt \in accepted[e],
           row' = [row EXCEPT ![e] = Published(@)], UNCHANGED accepted
    PROVE  Delivery!Publish(e)
<1>1. row' = [row EXCEPT ![e] = Published(row[e])] /\ row[e] \in Rows
  BY DEF Inv, TypeOK
<1>2. row'[e].state = "published" /\ \A f \in Events : f # e => row'[f] = row[f]
  BY <1>1, PublishedRow DEF Inv, TypeOK
<1>3. status' = [status EXCEPT ![e] = "published"]
  <2>1. Status("published") = "published"
    BY DEF Status
  <2>2. \A f \in Events :
           Status(row'[f].state) = IF f = e THEN "published" ELSE Status(row[f].state)
    BY <1>2, <2>1
  <2> QED
    BY <2>2 DEF status
<1> QED
  BY <1>3, StatusOf DEF Delivery!Publish, status

(* Giving up exhausted rows is a step of the promise.                      *)
LEMMA SweepRefined ==
    ASSUME Inv, NEW chosen \in SUBSET Claimable, NEW token,
           row' = AfterClaim(chosen, token), UNCHANGED accepted
    PROVE  Delivery!Abandon
<1>1. Exhausted \in SUBSET {e \in Events : status[e] = "open"}
  BY StatusOf DEF Exhausted
<1>2. ASSUME NEW e \in Events
      PROVE  Status(row'[e].state) = IF e \in Exhausted THEN "unconfirmed" ELSE status[e]
  <2>1. row[e] \in Rows
    BY DEF Inv, TypeOK
  <2>2. CASE e \in Exhausted
    BY <2>1, <2>2, GiveUpRow DEF AfterClaim, Status, States, Settled
  <2>3. CASE e \notin Exhausted /\ e \in chosen
    <3>1. row'[e].state = "claimed" /\ row[e].state \in {"pending", "claimed", "retry_wait"}
      BY <2>1, <2>3 DEF AfterClaim, Claim, Claimable, Eligible, Rows
    <3> QED
      BY <2>3, <3>1 DEF Status, status
  <2>4. CASE e \notin Exhausted /\ e \notin chosen
    BY <2>4 DEF AfterClaim, status
  <2> QED
    BY <2>2, <2>3, <2>4
<1>3. status' = [e \in Events |-> IF e \in Exhausted THEN "unconfirmed" ELSE status[e]]
  BY <1>2 DEF status
<1> QED
  BY <1>1, <1>3 DEF Delivery!Abandon, status

(* Recording a failure is a step of the promise, or hidden from it.        *)
LEMMA FailureRefined ==
    ASSUME Inv, NEW r \in Relays, RecordFailure(r)
    PROVE  Delivery!Next \/ UNCHANGED Delivery!vars
<1> DEFINE e == relay[r].event
<1>1. /\ e \in Events /\ row[e] \in Rows
      /\ row[e].state = "claimed" /\ row[e].attempt = relay[r].attempt
      /\ relay[r].attempt \in Attempts
      /\ UNCHANGED accepted
  BY DEF RecordFailure, Holds, Inv, Handles, TypeOK, broker
<1>2. status[e] = "open"
  BY <1>1, StatusOf
<1>3. CASE relay[r].attempt < AttemptLimit
  <2>1. row' = [row EXCEPT ![e] = Retried(row[e])]
    BY <1>3 DEF RecordFailure
  <2>2. \A f \in Events : Status(row'[f].state) = Status(row[f].state)
    BY <1>1, <2>1, RetriedRow DEF Inv, TypeOK, Status
  <2> QED
    BY <1>1, <2>2, Stutter
<1>4. CASE ~(relay[r].attempt < AttemptLimit) /\ relay[r].outcome = "deterministic"
  <2>1. row' = [row EXCEPT ![e] = Terminated(row[e], relay[r].outcome)]
    BY <1>4 DEF RecordFailure
  <2>2. row'[e].state = "terminal_failed" /\ \A f \in Events : f # e => row'[f] = row[f]
    BY <1>1, <1>4, <2>1, TerminatedRow DEF Inv, TypeOK
  <2>3. status' = [status EXCEPT ![e] = "failed"]
    BY <2>2 DEF status, Status
  <2>4. AttemptLimit \notin accepted[e]
    BY <1>1, <1>4, ConstantsAssumption DEF RecordFailure, Inv, HandleSends, Attempts
  <2> QED
    BY <1>1, <1>2, <2>3, <2>4 DEF Delivery!Next, Delivery!Refuse, status
<1>5. CASE ~(relay[r].attempt < AttemptLimit) /\ relay[r].outcome # "deterministic"
  <2>1. row' = [row EXCEPT ![e] = Terminated(row[e], relay[r].outcome)]
    BY <1>5 DEF RecordFailure
  <2>2. row'[e].state = "terminal_unconfirmed" /\ \A f \in Events : f # e => row'[f] = row[f]
    BY <1>1, <1>5, <2>1, TerminatedRow DEF Inv, TypeOK
  <2>3. status' = [f \in Events |-> IF f \in {e} THEN "unconfirmed" ELSE status[f]]
    BY <2>2 DEF status, Status
  <2>4. {e} \in SUBSET {f \in Events : status[f] = "open"}
    BY <1>1, <1>2
  <2> QED
    BY <1>1, <2>3, <2>4 DEF Delivery!Next, Delivery!Abandon, status
<1> QED
  BY <1>3, <1>4, <1>5

(* Every step of the outbox is a step of the promise or a stutter.         *)
LEMMA NextRefined == Inv /\ [Next]_vars => [Delivery!Next]_(Delivery!vars)
<1> SUFFICES ASSUME Inv, [Next]_vars PROVE Delivery!Next \/ UNCHANGED Delivery!vars
  OBVIOUS
<1>1. ASSUME NEW r \in Relays, ClaimNext(r) \/ ClaimLost(r) \/ ClaimNothing(r)
      PROVE  Delivery!Next
  <2>1. UNCHANGED accepted
    BY <1>1 DEF ClaimNext, ClaimLost, ClaimNothing
  <2>2. PICK chosen \in SUBSET Claimable, token \in Tokens \cup {None} :
           row' = AfterClaim(chosen, token)
    <3>1. CASE ClaimNothing(r)
      BY <3>1 DEF ClaimNothing
    <3>2. CASE ClaimNext(r) \/ ClaimLost(r)
      <4>1. PICK e \in Claimable, token \in Tokens \ TokensInUse : row' = AfterClaim({e}, token)
        BY <3>2 DEF ClaimNext, ClaimLost
      <4> QED
        BY <4>1
    <3> QED
      BY <1>1, <3>1, <3>2
  <2> QED
    BY <2>1, <2>2, SweepRefined DEF Delivery!Next
<1>2. ASSUME NEW r \in Relays, Commit(r) PROVE Delivery!Next
  <2>1. /\ relay[r].event \in Events /\ row[relay[r].event].state = "claimed"
        /\ row[relay[r].event].attempt \in accepted[relay[r].event]
        /\ row' = [row EXCEPT ![relay[r].event] = Published(@)]
        /\ UNCHANGED accepted
    BY <1>2 DEF Commit, Inv, Handles, Committing, RowLocks, Holds, HandleSends
  <2> QED
    BY <2>1, PublishRefined DEF Delivery!Next
<1>3. ASSUME NEW r \in Relays, RelayStep(r) \/ SessionLost(r) \/ Crash(r),
             ~Commit(r), ~RecordFailure(r),
             ~(ClaimNext(r) \/ ClaimLost(r) \/ ClaimNothing(r))
      PROVE  UNCHANGED <<row, accepted>>
  BY <1>3 DEF RelayStep, SessionLost, Crash, LockRow, RejectClaim, Send, Deny, ErrorBeforeSend,
     Acknowledged, Rejected, SendUnanswered, Mark, MarkMissed, Committed, CommitLost,
     LeaveInDoubt, FoundPublished, Unresolved, AlreadySettled, FailureNotRecorded
<1>4. ASSUME NEW e \in Events, Insert(e) PROVE Delivery!Next
  <2>1. /\ row[e].state = "absent" /\ row'[e].state = "pending" /\ UNCHANGED accepted
        /\ \A f \in Events : f # e => row'[f] = row[f]
    BY <1>4 DEF Insert, Inv, TypeOK, Rows
  <2>2. status' = [status EXCEPT ![e] = "open"]
    BY <2>1 DEF status, Status
  <2> QED
    BY <2>1, <2>2, StatusOf DEF Delivery!Next, Delivery!Announce, status
<1>5. ASSUME NEW e \in Events, DecideInDoubt(e) PROVE Delivery!Next \/ UNCHANGED <<row, accepted>>
  <2>1. row[e].state = "claimed" /\ row[e].attempt \in accepted[e] /\ UNCHANGED accepted
    BY <1>5 DEF DecideInDoubt, Inv, InDoubt
  <2> QED
    BY <1>5, <2>1, PublishRefined DEF DecideInDoubt, Delivery!Next
<1>6. ASSUME NEW e \in Events, BrokerAccepts(e) PROVE Delivery!Next
  <2>1. PICK a \in flying[e] : /\ accepted' = [accepted EXCEPT ![e] = @ \cup {a}]
                               /\ UNCHANGED row
    BY <1>6 DEF BrokerAccepts
  <2>2. a \in Delivery!Attempts
    BY DEF Inv, TypeOK, Attempts, Delivery!Attempts
  <2>3. row[e].state # "absent"
    BY ConstantsAssumption DEF Inv, AbsentRows, Sends, TypeOK, Attempts
  <2>4. row[e].state = "terminal_failed" => a # AttemptLimit
    BY DEF Inv, FailedWasRefused
  <2> QED
    BY <2>1, <2>2, <2>3, <2>4, StatusOf DEF Delivery!Next, Delivery!Deliver, status
<1>7. ASSUME NEW e \in Events, LeaseExpires(e) \/ RetryDue(e) \/ BrokerDrops(e)
      PROVE  UNCHANGED Delivery!vars
  <2>1. UNCHANGED accepted /\ \A f \in Events : row'[f].state = row[f].state
    BY <1>7 DEF LeaseExpires, RetryDue, BrokerDrops, Inv, TypeOK, Rows
  <2> QED
    BY <2>1, Stutter
<1>8. ASSUME ChangeAuthority \/ UNCHANGED vars PROVE UNCHANGED <<row, accepted>>
  BY <1>8 DEF ChangeAuthority, vars
<1>9. ASSUME UNCHANGED <<row, accepted>> PROVE UNCHANGED Delivery!vars
  BY <1>9, Stutter
<1> QED
  BY <1>1, <1>2, <1>3, <1>4, <1>5, <1>6, <1>7, <1>8, <1>9, FailureRefined DEF Next, RowStep

(* The outbox of the code implements the delivery promise.                 *)
THEOREM ImplementsDelivery == Spec => DeliverySpec
<1>1. Init => Delivery!Init
  BY DEF Init, Delivery!Init, Absent, Status
<1> QED
  BY <1>1, NextRefined, Invariance, PTL DEF Spec, DeliverySpec, Delivery!Spec
============================================================================
