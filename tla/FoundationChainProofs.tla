----------------------- MODULE FoundationChainProofs ------------------------
(***************************************************************************)
(* The foundation chain for any number of relays, workers, jobs, tokens,   *)
(* attempts and receives: the relay settles every row once and truthfully, *)
(* what it published is on the queue, and the chain as a whole implements  *)
(* what its worker promises.                                               *)
(***************************************************************************)
EXTENDS FoundationChain, TLAPS

(* Relays at work, and the claims they hold.  The number of the attempt    *)
(* makes every claim of a row distinct, whatever tokens are used again.    *)
Busy(r) == relay[r].phase # "idle"

BusyHasClaim ==
    \A r \in Relays : Busy(r) =>
        /\ relay[r].job \in Jobs
        /\ relay[r].token \in Tokens
        /\ relay[r].attempt \in 1..row[relay[r].job].attempts
        /\ row[relay[r].job].inserted

ClaimsAreDistinct ==
    \A r, s \in Relays :
        /\ r # s /\ Busy(r) /\ Busy(s)
        /\ relay[r].job = relay[s].job
        => relay[r].attempt # relay[s].attempt

(* While a relay locks a row, the row is open and shows the relay's claim. *)
LockHoldsClaim ==
    /\ \A j \in Jobs, r \in Relays : rowLock[j] = r =>
          /\ relay[r].phase \in {"locked", "sending", "acked", "committing"}
          /\ relay[r].job = j
          /\ Open(j)
          /\ row[j].token = relay[r].token
          /\ row[j].attempts = relay[r].attempt
    /\ \A r \in Relays :
          relay[r].phase = "committing" => rowLock[relay[r].job] = r
    /\ \A j \in Jobs : rowLock[j] = Server =>
          /\ Open(j)
          /\ row[j].token # None
          /\ row[j].attempts \in accepted[j]

(* Where the send of every claim is.                                       *)
SendsFollowClaims ==
    /\ \A j \in Jobs :
          /\ flying[j] \cup accepted[j] \subseteq 1..row[j].attempts
          /\ flying[j] \cap accepted[j] = {}
    /\ \A r \in Relays :
          /\ relay[r].phase \in {"claimed", "locked", "terminal"} =>
                relay[r].attempt \notin flying[relay[r].job] \cup accepted[relay[r].job]
          /\ relay[r].phase \in {"acked", "committing"} =>
                relay[r].attempt \in accepted[relay[r].job]

SettledIsInserted ==
    \A j \in Jobs : row[j].published # 0 \/ row[j].failed => row[j].inserted

RowsAreTrue ==
    PublishedByItsClaim /\ SingleTerminalState /\ FailedWasRefused /\ SettledIsInserted

RelayInv ==
    /\ TypeOK
    /\ BusyHasClaim
    /\ ClaimsAreDistinct
    /\ LockHoldsClaim
    /\ SendsFollowClaims
    /\ RowsAreTrue

(* The initial state satisfies the invariant.                              *)
LEMMA RelayInit == Init => RelayInv
<1> SUFFICES ASSUME Init PROVE RelayInv
  OBVIOUS
<1> USE ConstantsAssumption DEF Init, Absent, Idle
<1>1. TypeOK
  BY DEF TypeOK, Rows, RelayStates, Phases, Attempts
<1>2. BusyHasClaim /\ ClaimsAreDistinct /\ SendsFollowClaims
  BY DEF BusyHasClaim, ClaimsAreDistinct, SendsFollowClaims, Busy
<1>3. LockHoldsClaim
  BY DEF LockHoldsClaim
<1>4. RowsAreTrue
  BY DEF RowsAreTrue, PublishedByItsClaim, SingleTerminalState, FailedWasRefused,
         SettledIsInserted
<1> QED
  BY <1>1, <1>2, <1>3, <1>4 DEF RelayInv

(* The steps of a relay that leave the rows and the broker alone.          *)
QuietRelayStep(r) ==
    \/ LockRow(r) \/ Acknowledged(r) \/ Failed(r) \/ SessionLost(r) \/ Mark(r)
    \/ MarkMissed(r) \/ FoundPublished(r) \/ Unresolved(r) \/ NotRecorded(r)

(* The fields of a row are set one by one.                                 *)
LEMMA RowFields ==
    ASSUME NEW x \in Rows
    PROVE  /\ [x EXCEPT !.inserted = TRUE] \in Rows
           /\ \A b \in BOOLEAN : [x EXCEPT !.live = b] \in Rows
           /\ \A b \in BOOLEAN : [x EXCEPT !.due = b] \in Rows
           /\ [x EXCEPT !.failed = TRUE] \in Rows
           /\ \A t \in Tokens \cup {None} : [x EXCEPT !.token = t] \in Rows
           /\ \A n \in 0..MaxAttempts : [x EXCEPT !.attempts = n] \in Rows
           /\ \A n \in 0..MaxAttempts : [x EXCEPT !.published = n] \in Rows
BY DEF Rows

(* A released row keeps what counts it.                                    *)
LEMMA Released ==
    ASSUME NEW x \in Rows
    PROVE  /\ [Release(x) EXCEPT !.due = FALSE].attempts = x.attempts
           /\ [Release(x) EXCEPT !.due = FALSE].inserted = x.inserted
           /\ [Release(x) EXCEPT !.due = FALSE].published = x.published
           /\ [Release(x) EXCEPT !.due = FALSE].failed = x.failed
           /\ [Release(x) EXCEPT !.failed = TRUE].attempts = x.attempts
           /\ [Release(x) EXCEPT !.failed = TRUE].inserted = x.inserted
           /\ [Release(x) EXCEPT !.failed = TRUE].published = x.published
BY DEF Release, Rows

(* Every step keeps the types.                                             *)
LEMMA RelayTypeStep == RelayInv /\ [Next]_vars => TypeOK'
<1> SUFFICES ASSUME RelayInv, [Next]_vars PROVE TypeOK'
  OBVIOUS
<1> USE ConstantsAssumption DEF RelayInv, broker
<1>0. Idle \in RelayStates
  BY DEF Idle, RelayStates, Phases
<1>1. ASSUME NEW r \in Relays, QuietRelayStep(r) PROVE TypeOK'
  <2> USE <1>0 DEF TypeOK, GoTo, Finish, Unlock, RelayStates, Phases
  <2>1. CASE LockRow(r) \/ Acknowledged(r) \/ Mark(r) \/ Unresolved(r)
    BY <2>1 DEF LockRow, Acknowledged, Mark, Unresolved
  <2>2. CASE Failed(r) \/ MarkMissed(r) \/ SessionLost(r)
    BY <2>2 DEF Failed, MarkMissed, SessionLost
  <2>3. CASE FoundPublished(r) \/ NotRecorded(r)
    BY <2>3 DEF FoundPublished, NotRecorded
  <2> QED
    BY <1>1, <2>1, <2>2, <2>3 DEF QuietRelayStep
<1>2. ASSUME NEW r \in Relays, ClaimNext(r) PROVE TypeOK'
  <2>1. PICK j \in Jobs, token \in Tokens :
           /\ row[j].attempts < MaxAttempts
           /\ row' = [row EXCEPT ![j].attempts = @ + 1,
                                 ![j].token = token, ![j].live = TRUE]
           /\ \/ relay' = [relay EXCEPT ![r] =
                             [phase |-> "claimed", job |-> j, token |-> token,
                              attempt |-> row[j].attempts + 1]]
              \/ UNCHANGED relay
    BY <1>2 DEF ClaimNext, Eligible
  <2>2. row[j].attempts + 1 \in 0..MaxAttempts
    BY <2>1 DEF TypeOK, Rows
  <2>3. row' \in [Jobs -> Rows]
    <3>1. row[j] \in Rows
      BY DEF TypeOK
    <3>2. [[[row[j] EXCEPT !.attempts = row[j].attempts + 1]
                    EXCEPT !.token = token] EXCEPT !.live = TRUE] \in Rows
      BY <2>2, <3>1, RowFields
    <3> QED
      BY <2>1, <3>2 DEF TypeOK
  <2>4. relay' \in [Relays -> RelayStates]
    BY <2>1, <2>2 DEF TypeOK, RelayStates, Phases
  <2> QED
    BY <1>2, <2>3, <2>4 DEF ClaimNext, TypeOK
<1>3. ASSUME NEW r \in Relays, Send(r) \/ Rejected(r) PROVE TypeOK'
  <2>1. relay[r].job \in Jobs /\ relay[r].attempt \in Attempts
    BY <1>3 DEF Send, Rejected, BusyHasClaim, Busy, TypeOK, Rows, Attempts
  <2> QED
    BY <1>3, <2>1 DEF Send, Rejected, TypeOK, GoTo, Unlock, RelayStates, Phases
<1>4. ASSUME NEW r \in Relays, Committed(r) \/ CommitLost(r) \/ Crash(r)
      PROVE  TypeOK'
  <2>1. row' \in [Jobs -> Rows]
    BY <1>4 DEF Committed, CommitLost, Crash, Commit, LeaveInDoubt, TypeOK, Rows,
                RelayStates
  <2>2. relay' \in [Relays -> RelayStates]
    BY <1>0, <1>4 DEF Committed, CommitLost, Crash, GoTo, Finish, TypeOK,
                RelayStates, Phases
  <2>3. rowLock' \in [Jobs -> Relays \cup {None, Server}]
    BY <1>4 DEF Committed, CommitLost, Crash, Commit, LeaveInDoubt, Unlock, TypeOK
  <2> QED
    BY <1>4, <2>1, <2>2, <2>3
       DEF Committed, CommitLost, Crash, Commit, LeaveInDoubt, TypeOK
<1>5. ASSUME NEW r \in Relays, RecordRetry(r) \/ RecordTerminal(r) PROVE TypeOK'
  <2>1. row' \in [Jobs -> Rows]
    <3>1. relay[r].job \in Jobs /\ row[relay[r].job] \in Rows
      BY <1>5 DEF RecordRetry, RecordTerminal, BusyHasClaim, Busy, TypeOK
    <3>2. Release(row[relay[r].job]) \in Rows
      BY <3>1, RowFields DEF Release
    <3>3. /\ [Release(row[relay[r].job]) EXCEPT !.due = FALSE] \in Rows
          /\ [Release(row[relay[r].job]) EXCEPT !.failed = TRUE] \in Rows
      BY <3>2, RowFields
    <3> QED
      BY <1>5, <3>1, <3>3 DEF RecordRetry, RecordTerminal, TypeOK
  <2> QED
    BY <1>0, <1>5, <2>1 DEF RecordRetry, RecordTerminal, Finish, TypeOK
<1>6. ASSUME NEW j \in Jobs, Insert(j) \/ LeaseExpires(j) \/ RetryDue(j)
      PROVE  TypeOK'
  <2>1. row' \in [Jobs -> Rows]
    <3>1. row[j] \in Rows
      BY DEF TypeOK
    <3>2. /\ [[row[j] EXCEPT !.inserted = TRUE] EXCEPT !.due = TRUE] \in Rows
          /\ [row[j] EXCEPT !.live = FALSE] \in Rows
          /\ [row[j] EXCEPT !.due = TRUE] \in Rows
      BY <3>1, RowFields
    <3> QED
      BY <1>6, <3>2 DEF Insert, LeaseExpires, RetryDue, TypeOK
  <2> QED
    BY <1>6, <2>1 DEF Insert, LeaseExpires, RetryDue, TypeOK
<1>7. ASSUME NEW j \in Jobs, DecideInDoubt(j) PROVE TypeOK'
  <2>1. row' \in [Jobs -> Rows]
    <3>1. row[j] \in Rows
      BY DEF TypeOK
    <3>2. row[j].attempts \in 0..MaxAttempts
      BY <3>1 DEF Rows
    <3>3. [row[j] EXCEPT !.published = row[j].attempts] \in Rows
      BY <3>1, <3>2, RowFields, Zenon
    <3> QED
      BY <1>7, <3>3 DEF DecideInDoubt, TypeOK
  <2> QED
    BY <1>7, <2>1 DEF DecideInDoubt, TypeOK
<1>8. ASSUME NEW j \in Jobs, NEW a \in Attempts, BrokerAccepts(j, a) \/ BrokerDrops(j, a)
      PROVE  TypeOK'
  BY <1>8 DEF BrokerAccepts, BrokerDrops, TypeOK
<1>9. CASE UNCHANGED vars
  BY <1>9 DEF TypeOK, vars
<1> QED
  BY <1>1, <1>2, <1>3, <1>4, <1>5, <1>6, <1>7, <1>8, <1>9
     DEF Next, RelayStep, RowStep, QuietRelayStep

(* Rows stay, and only gain attempts.                                      *)
RowsGrow ==
    \A j \in Jobs :
        /\ row[j].attempts <= row'[j].attempts
        /\ row'[j].attempts \in Nat
        /\ row[j].inserted => row'[j].inserted

(* The claims of the relays: a relay only takes one up by claimNext, whose *)
(* attempt is above all others, and rows never lose attempts.              *)
LEMMA ClaimStep ==
    RelayInv /\ [Next]_vars => BusyHasClaim' /\ ClaimsAreDistinct' /\ RowsGrow
<1> SUFFICES ASSUME RelayInv, [Next]_vars
             PROVE  BusyHasClaim' /\ ClaimsAreDistinct' /\ RowsGrow
  OBVIOUS
<1> USE ConstantsAssumption DEF RelayInv, TypeOK, broker
<1> DEFINE Kept == \A r \in Relays :
              Busy(r)' => /\ Busy(r)
                          /\ relay'[r].job = relay[r].job
                          /\ relay'[r].token = relay[r].token
                          /\ relay'[r].attempt = relay[r].attempt
<1>1. ASSUME Kept, RowsGrow PROVE BusyHasClaim' /\ ClaimsAreDistinct' /\ RowsGrow
  <2>1. BusyHasClaim'
    BY <1>1 DEF BusyHasClaim, RowsGrow, Rows
  <2>2. ClaimsAreDistinct'
    BY <1>1 DEF ClaimsAreDistinct
  <2> QED
    BY <1>1, <2>1, <2>2
<1>2. row' = row => RowsGrow
  BY DEF RowsGrow, Rows
<1> HIDE DEF Kept
<1>3. ASSUME NEW r \in Relays, QuietRelayStep(r) \/ Send(r) \/ Rejected(r)
      PROVE  BusyHasClaim' /\ ClaimsAreDistinct' /\ RowsGrow
  <2>1. row' = row
    BY <1>3 DEF QuietRelayStep, LockRow, Acknowledged, Failed, SessionLost, Mark,
                MarkMissed, FoundPublished, Unresolved, NotRecorded, Send, Rejected
  <2>2. \/ relay' = relay
        \/ Busy(r) /\ \E p \in Phases : GoTo(r, p)
        \/ Finish(r)
    BY <1>3 DEF QuietRelayStep, LockRow, Acknowledged, Failed, SessionLost, Mark,
                MarkMissed, FoundPublished, Unresolved, NotRecorded, Send, Rejected,
                Busy, Phases
  <2>3. Kept
    BY <2>2 DEF Kept, Busy, GoTo, Finish, Idle, RelayStates
  <2> QED
    BY <1>1, <1>2, <2>1, <2>3
<1>4. ASSUME NEW r \in Relays, Committed(r) \/ CommitLost(r) \/ Crash(r)
      PROVE  BusyHasClaim' /\ ClaimsAreDistinct' /\ RowsGrow
  <2>1. RowsGrow
    BY <1>4 DEF Committed, CommitLost, Crash, Commit, LeaveInDoubt, RowsGrow, Rows
  <2>2. Kept
    BY <1>4 DEF Committed, CommitLost, Crash, GoTo, Finish, Idle, Busy, RelayStates, Kept
  <2> QED
    BY <1>1, <2>1, <2>2
<1>5. ASSUME NEW r \in Relays, RecordRetry(r) \/ RecordTerminal(r)
      PROVE  BusyHasClaim' /\ ClaimsAreDistinct' /\ RowsGrow
  <2>1. RowsGrow
    <3> DEFINE j == relay[r].job
    <3>1. /\ j \in Jobs
          /\ row'[j].attempts = row[j].attempts
          /\ row'[j].inserted = row[j].inserted
      <4>1. j \in Jobs /\ row[j] \in Rows
        BY <1>5 DEF RecordRetry, RecordTerminal, BusyHasClaim, Busy
      <4> QED
        BY <1>5, <4>1, Released DEF RecordRetry, RecordTerminal
    <3>2. \A i \in Jobs : i # j => row'[i] = row[i]
      BY <1>5 DEF RecordRetry, RecordTerminal
    <3> QED
      BY <3>1, <3>2 DEF RowsGrow, Rows
  <2>2. Kept
    BY <1>5 DEF RecordRetry, RecordTerminal, Finish, Idle, Busy, Kept
  <2> QED
    BY <1>1, <2>1, <2>2
<1>6. ASSUME NEW r \in Relays, ClaimNext(r)
      PROVE  BusyHasClaim' /\ ClaimsAreDistinct' /\ RowsGrow
  <2>1. PICK j \in Jobs, token \in Tokens :
           /\ row[j].inserted
           /\ row' = [row EXCEPT ![j].attempts = @ + 1,
                                 ![j].token = token, ![j].live = TRUE]
           /\ \/ relay' = [relay EXCEPT ![r] =
                             [phase |-> "claimed", job |-> j, token |-> token,
                              attempt |-> row[j].attempts + 1]]
              \/ UNCHANGED relay
    BY <1>6 DEF ClaimNext, Eligible, Open
  <2>2. /\ row'[j].attempts = row[j].attempts + 1
        /\ row'[j].inserted
        /\ row[j].attempts \in Nat
    BY <2>1 DEF Rows
  <2>3. \A i \in Jobs : i # j => row'[i] = row[i]
    BY <2>1
  <2>4. RowsGrow
    BY <2>2, <2>3 DEF RowsGrow, Rows
  <2>5. CASE UNCHANGED relay
    BY <1>1, <2>4, <2>5 DEF Kept, Busy
  <2>6. CASE relay' = [relay EXCEPT ![r] =
                         [phase |-> "claimed", job |-> j, token |-> token,
                          attempt |-> row[j].attempts + 1]]
    <3>1. /\ relay'[r].job = j /\ relay'[r].token = token
          /\ relay'[r].attempt = row[j].attempts + 1
      BY <2>6
    <3>2. \A s \in Relays : s # r => relay'[s] = relay[s]
      BY <2>6
    <3>3. \A s \in Relays :
             Busy(s) /\ relay[s].job = j => relay[s].attempt <= row[j].attempts
      BY <2>2 DEF BusyHasClaim
    <3>4. BusyHasClaim'
      BY <2>2, <2>4, <3>1, <3>2 DEF BusyHasClaim, Busy, RowsGrow, Rows
    <3>5. \A s \in Relays :
             Busy(s) /\ relay[s].job = j => relay[s].attempt # row[j].attempts + 1
      BY <2>2, <3>3 DEF BusyHasClaim
    <3>6. ClaimsAreDistinct'
      BY <3>1, <3>2, <3>5 DEF ClaimsAreDistinct, Busy
    <3> QED
      BY <2>4, <3>4, <3>6
  <2> QED
    BY <2>1, <2>5, <2>6
<1>7. ASSUME NEW j \in Jobs,
             \/ Insert(j) \/ RowStep(j)
             \/ \E a \in Attempts : BrokerAccepts(j, a)
      PROVE  BusyHasClaim' /\ ClaimsAreDistinct' /\ RowsGrow
  <2>1. relay' = relay
    BY <1>7 DEF Insert, RowStep, LeaseExpires, RetryDue, DecideInDoubt,
                BrokerAccepts, BrokerDrops
  <2>2. RowsGrow
    BY <1>7 DEF Insert, RowStep, LeaseExpires, RetryDue, DecideInDoubt,
                BrokerAccepts, BrokerDrops, RowsGrow, Rows
  <2> QED
    BY <1>1, <2>1, <2>2 DEF Kept, Busy
<1>8. CASE UNCHANGED vars
  BY <1>1, <1>2, <1>8 DEF vars, Kept, Busy
<1> QED
  BY <1>3, <1>4, <1>5, <1>6, <1>7, <1>8 DEF Next, RelayStep, QuietRelayStep


(* What a step leaves of a row when it only changes the lease or the delay.*)
RowKept(j) ==
    /\ row'[j].inserted = row[j].inserted
    /\ row'[j].attempts = row[j].attempts
    /\ row'[j].token = row[j].token
    /\ row'[j].published = row[j].published
    /\ row'[j].failed = row[j].failed

(* A locked row is changed by its holder alone, who then lets it go.       *)
LEMMA LockStep == RelayInv /\ [Next]_vars => LockHoldsClaim'
<1> SUFFICES ASSUME RelayInv, [Next]_vars PROVE LockHoldsClaim'
  OBVIOUS
<1> USE ConstantsAssumption DEF RelayInv, TypeOK, broker
<1> DEFINE Locking == {"locked", "sending", "acked", "committing"}
           Kept == /\ \A j \in Jobs : rowLock'[j] # None =>
                        rowLock'[j] = rowLock[j] /\ RowKept(j)
                   /\ \A j \in Jobs, r \in Relays : rowLock'[j] = r =>
                        /\ relay'[r].phase \in Locking
                        /\ relay'[r].job = relay[r].job
                        /\ relay'[r].token = relay[r].token
                        /\ relay'[r].attempt = relay[r].attempt
                   /\ \A r \in Relays : relay'[r].phase = "committing" =>
                        rowLock'[relay'[r].job] = r
                   /\ \A j \in Jobs : accepted[j] \subseteq accepted'[j]
<1>1. ASSUME Kept PROVE LockHoldsClaim'
  <2>1. \A j \in Jobs : Open(j) /\ RowKept(j) => Open(j)'
    BY DEF Open, RowKept
  <2> QED
    BY <1>1, <2>1 DEF LockHoldsClaim, RowKept
<1> HIDE DEF Kept
<1>2. row' = row => \A j \in Jobs : RowKept(j)
  BY DEF RowKept
<1>0. \A s \in Relays : relay[s].phase = "committing" => relay[s].job \in Jobs
  BY DEF BusyHasClaim, Busy
<1>3. ASSUME NEW r \in Relays, LockRow(r) PROVE LockHoldsClaim'
  BY <1>3 DEF LockRow, GoTo, Holds, Open, LockHoldsClaim
<1>4. ASSUME NEW r \in Relays, Send(r) \/ Acknowledged(r) \/ Mark(r)
      PROVE  LockHoldsClaim'
  BY <1>1, <1>2, <1>4 DEF Kept, LockHoldsClaim, Send, Acknowledged, Mark, GoTo, RelayStates
<1>5. ASSUME NEW r \in Relays,
             \/ Rejected(r) \/ Failed(r) \/ MarkMissed(r) \/ SessionLost(r)
      PROVE  LockHoldsClaim'
  BY <1>0, <1>1, <1>2, <1>5
     DEF Kept, LockHoldsClaim, Rejected, Failed, MarkMissed, SessionLost, GoTo, Unlock,
         RelayStates
<1>6. ASSUME NEW r \in Relays, FoundPublished(r) \/ Unresolved(r) \/ NotRecorded(r)
      PROVE  LockHoldsClaim'
  BY <1>1, <1>2, <1>6
     DEF Kept, LockHoldsClaim, FoundPublished, Unresolved, NotRecorded, GoTo, Finish, Idle,
         RelayStates
<1>7. ASSUME NEW r \in Relays, Committed(r) \/ CommitLost(r) \/ Crash(r)
      PROVE  LockHoldsClaim'
  <2>1. /\ relay'[r].phase \in {"idle", "resolving"}
        /\ \A s \in Relays : s # r => relay'[s] = relay[s]
        /\ accepted' = accepted
    BY <1>7 DEF Committed, CommitLost, Crash, Commit, LeaveInDoubt, Finish, GoTo, Idle,
                RelayStates
  <2>2. CASE Commit(r) \/ (Unlock(r) /\ UNCHANGED <<row, broker>>)
    <3>1. Unlock(r)
      BY <2>2 DEF Commit
    <3>2. \A j \in Jobs : rowLock'[j] # None => RowKept(j)
      BY <2>2, <3>1, <1>2 DEF Commit, RowKept, Unlock, LockHoldsClaim
    <3> QED
      BY <1>0, <1>1, <2>1, <3>1, <3>2 DEF Kept, Unlock, LockHoldsClaim
  <2>3. CASE LeaveInDoubt(r)
    <3>1. /\ Open(relay[r].job)
          /\ relay[r].job \in Jobs
          /\ row[relay[r].job].token \in Tokens
          /\ row[relay[r].job].attempts \in accepted[relay[r].job]
      BY <2>3 DEF LeaveInDoubt, LockHoldsClaim, SendsFollowClaims, BusyHasClaim, Busy
    <3> QED
      BY <2>1, <2>3, <3>1 DEF LeaveInDoubt, LockHoldsClaim, Open, RelayStates
  <2>4. Commit(r) \/ LeaveInDoubt(r) \/ (Unlock(r) /\ UNCHANGED <<row, broker>>)
    BY <1>7 DEF Committed, CommitLost, Crash
  <2> QED
    BY <2>2, <2>3, <2>4
<1>8. ASSUME NEW r \in Relays, RecordRetry(r) \/ RecordTerminal(r) \/ ClaimNext(r)
      PROVE  LockHoldsClaim'
  <2>1. /\ rowLock' = rowLock
        /\ accepted' = accepted
        /\ relay[r].phase \in {"idle", "retry", "terminal"}
        /\ relay'[r].phase \in {"idle", "claimed"}
        /\ \A s \in Relays : s # r => relay'[s] = relay[s]
        /\ \A j \in Jobs : rowLock[j] # None => row'[j] = row[j]
    <3>1. CASE RecordRetry(r) \/ RecordTerminal(r)
      BY <3>1 DEF RecordRetry, RecordTerminal, Finish, Idle
    <3>2. CASE ClaimNext(r)
      BY <3>2 DEF ClaimNext
    <3> QED
      BY <1>8, <3>1, <3>2
  <2> QED
    BY <1>1, <2>1 DEF Kept, LockHoldsClaim, RowKept
<1>9. ASSUME NEW j \in Jobs, Insert(j) \/ LeaseExpires(j) \/ RetryDue(j)
      PROVE  LockHoldsClaim'
  <2>1. relay' = relay /\ rowLock' = rowLock /\ accepted' = accepted
    BY <1>9 DEF Insert, LeaseExpires, RetryDue
  <2>2. CASE Insert(j)
    BY <1>1, <2>1, <2>2 DEF Kept, Insert, LockHoldsClaim, RowKept, Open
  <2>3. CASE LeaseExpires(j) \/ RetryDue(j)
    <3>1. \A i \in Jobs : RowKept(i)
      <4>1. CASE LeaseExpires(j)
        BY <4>1 DEF LeaseExpires, RowKept, Rows
      <4>2. CASE RetryDue(j)
        BY <4>2 DEF RetryDue, RowKept, Rows
      <4> QED
        BY <2>3, <4>1, <4>2
    <3> QED
      BY <1>1, <2>1, <3>1 DEF Kept, LockHoldsClaim
  <2> QED
    BY <1>9, <2>2, <2>3
<1>10. ASSUME NEW j \in Jobs, DecideInDoubt(j) PROVE LockHoldsClaim'
  BY <1>1, <1>10 DEF Kept, DecideInDoubt, LockHoldsClaim, RowKept
<1>11. ASSUME NEW j \in Jobs, NEW a \in Attempts, BrokerAccepts(j, a) \/ BrokerDrops(j, a)
       PROVE  LockHoldsClaim'
  BY <1>1, <1>2, <1>11 DEF Kept, BrokerAccepts, BrokerDrops, LockHoldsClaim
<1>12. CASE UNCHANGED vars
  BY <1>1, <1>2, <1>12 DEF Kept, vars, LockHoldsClaim
<1> QED
  BY <1>3, <1>4, <1>5, <1>6, <1>7, <1>8, <1>9, <1>10, <1>11, <1>12
     DEF Next, RelayStep, RowStep

(* The send of a claim: only its holder sends, under the lock, and only    *)
(* once.                                                                   *)
LEMMA SendStep == RelayInv /\ [Next]_vars => SendsFollowClaims'
<1> SUFFICES ASSUME RelayInv, [Next]_vars PROVE SendsFollowClaims'
  OBVIOUS
<1>0. RowsGrow
  BY ClaimStep
<1> USE ConstantsAssumption DEF RelayInv, broker
<1> DEFINE Unsent == {"claimed", "locked", "terminal"}
           Sent == {"acked", "committing"}
           Kept == \A r \in Relays :
                     /\ relay'[r].phase \in Unsent =>
                           /\ relay[r].phase \in Unsent
                           /\ relay'[r].job = relay[r].job
                           /\ relay'[r].attempt = relay[r].attempt
                     /\ relay'[r].phase \in Sent =>
                           /\ \/ relay[r].phase \in Sent
                              \/ relay[r].attempt \in accepted[relay[r].job]
                           /\ relay'[r].job = relay[r].job
                           /\ relay'[r].attempt = relay[r].attempt
<1>1. ASSUME broker' = broker, Kept PROVE SendsFollowClaims'
  <2>1. flying' = flying /\ accepted' = accepted
    BY <1>1
  <2> QED
    BY <1>0, <1>1, <2>1 DEF SendsFollowClaims, RowsGrow, TypeOK, Rows
<1> HIDE DEF Kept
<1>2. ASSUME NEW r \in Relays, QuietRelayStep(r) PROVE SendsFollowClaims'
  <2>1. broker' = broker
    BY <1>2 DEF QuietRelayStep, LockRow, Acknowledged, Failed, SessionLost, Mark,
                MarkMissed, FoundPublished, Unresolved, NotRecorded
  <2>2. \A s \in Relays : s # r => relay'[s] = relay[s]
    BY <1>2 DEF QuietRelayStep, LockRow, Acknowledged, Failed, SessionLost, Mark,
                MarkMissed, FoundPublished, Unresolved, NotRecorded, GoTo, Finish, TypeOK
  <2>3. /\ relay'[r].phase \in Unsent => /\ relay[r].phase \in Unsent
                                         /\ relay'[r].job = relay[r].job
                                         /\ relay'[r].attempt = relay[r].attempt
        /\ relay'[r].phase \in Sent =>
              /\ \/ relay[r].phase \in Sent
                 \/ relay[r].attempt \in accepted[relay[r].job]
              /\ relay'[r].job = relay[r].job
              /\ relay'[r].attempt = relay[r].attempt
    BY <1>2 DEF QuietRelayStep, LockRow, Acknowledged, Failed, SessionLost, Mark,
                MarkMissed, FoundPublished, Unresolved, NotRecorded, GoTo, Finish, Idle,
                TypeOK, RelayStates
  <2> QED
    BY <1>1, <2>1, <2>2, <2>3 DEF Kept
<1>3. ASSUME NEW r \in Relays,
             \/ Committed(r) \/ CommitLost(r) \/ Crash(r)
             \/ RecordRetry(r) \/ RecordTerminal(r)
      PROVE  SendsFollowClaims'
  <2>1. broker' = broker
    BY <1>3 DEF Committed, CommitLost, Crash, Commit, LeaveInDoubt, RecordRetry,
                RecordTerminal
  <2>2. /\ \A s \in Relays : s # r => relay'[s] = relay[s]
        /\ relay'[r].phase \in {"idle", "resolving"}
    BY <1>3 DEF Committed, CommitLost, Crash, RecordRetry, RecordTerminal, GoTo, Finish,
                Idle, TypeOK, RelayStates
  <2> QED
    BY <1>1, <2>1, <2>2 DEF Kept
<1>4. ASSUME NEW r \in Relays, ClaimNext(r) PROVE SendsFollowClaims'
  <2>1. PICK j \in Jobs, token \in Tokens :
           \/ relay' = [relay EXCEPT ![r] =
                          [phase |-> "claimed", job |-> j, token |-> token,
                           attempt |-> row[j].attempts + 1]]
           \/ UNCHANGED relay
    BY <1>4 DEF ClaimNext, Eligible
  <2>2. flying' = flying /\ accepted' = accepted
    BY <1>4 DEF ClaimNext
  <2>3. CASE UNCHANGED relay
    BY <1>1, <2>2, <2>3 DEF Kept
  <2>4. CASE relay' = [relay EXCEPT ![r] =
                         [phase |-> "claimed", job |-> j, token |-> token,
                          attempt |-> row[j].attempts + 1]]
    <3>1. row[j].attempts + 1 \notin flying[j] \cup accepted[j]
      BY DEF SendsFollowClaims, TypeOK, Rows
    <3>2. /\ \A s \in Relays : s # r => relay'[s] = relay[s]
          /\ relay'[r].phase = "claimed"
          /\ relay'[r].job = j
          /\ relay'[r].attempt = row[j].attempts + 1
      BY <2>4 DEF TypeOK
    <3> QED
      BY <1>0, <2>2, <3>1, <3>2 DEF SendsFollowClaims, RowsGrow, TypeOK, Rows
  <2> QED
    BY <2>1, <2>3, <2>4
<1>5. ASSUME NEW r \in Relays, Send(r) PROVE SendsFollowClaims'
  <2> DEFINE j == relay[r].job
             a == relay[r].attempt
  <2>1. /\ j \in Jobs /\ a \in 1..row[j].attempts
        /\ a \notin accepted[j]
    BY <1>5 DEF Send, BusyHasClaim, Busy, SendsFollowClaims
  <2>2. /\ row' = row /\ accepted' = accepted
        /\ flying'[j] = flying[j] \cup {a}
        /\ \A i \in Jobs : i # j => flying'[i] = flying[i]
    BY <1>5, <2>1 DEF Send, TypeOK
  <2>3. /\ \A s \in Relays : s # r => relay'[s] = relay[s]
        /\ relay'[r].phase = "sending"
    BY <1>5 DEF Send, GoTo, TypeOK, RelayStates
  <2>4. \A s \in Relays : s # r /\ Busy(s) /\ relay[s].job = j => relay[s].attempt # a
    BY <1>5 DEF Send, ClaimsAreDistinct, Busy
  <2>5. \A s \in Relays : Busy(s) => relay[s].job \in Jobs
    BY DEF BusyHasClaim
  <2> HIDE DEF j, a
  <2>6. \A i \in Jobs : /\ flying'[i] \cup accepted'[i] \subseteq 1..row'[i].attempts
                        /\ flying'[i] \cap accepted'[i] = {}
    BY <2>1, <2>2 DEF SendsFollowClaims
  <2>7. ASSUME NEW s \in Relays, s # r
        PROVE  /\ relay'[s].phase \in Unsent =>
                    relay'[s].attempt \notin flying'[relay'[s].job] \cup accepted'[relay'[s].job]
               /\ relay'[s].phase \in Sent =>
                    relay'[s].attempt \in accepted'[relay'[s].job]
    BY <2>2, <2>3, <2>4, <2>5, <2>7 DEF SendsFollowClaims, Busy
  <2> QED
    BY <2>3, <2>6, <2>7 DEF SendsFollowClaims
<1>6. ASSUME NEW r \in Relays, Rejected(r) PROVE SendsFollowClaims'
  <2> DEFINE j == relay[r].job
             a == relay[r].attempt
  <2>1. j \in Jobs /\ a \in flying[j] /\ a \notin accepted[j]
    BY <1>6 DEF Rejected, BusyHasClaim, Busy, SendsFollowClaims
  <2>2. /\ row' = row /\ accepted' = accepted
        /\ flying'[j] = flying[j] \ {a}
        /\ \A i \in Jobs : i # j => flying'[i] = flying[i]
    BY <1>6, <2>1 DEF Rejected, TypeOK
  <2>3. /\ \A s \in Relays : s # r => relay'[s] = relay[s]
        /\ relay'[r].phase = "terminal"
        /\ relay'[r].job = j /\ relay'[r].attempt = a
    BY <1>6 DEF Rejected, GoTo, TypeOK, RelayStates
  <2>4. \A s \in Relays : Busy(s) => relay[s].job \in Jobs
    BY DEF BusyHasClaim
  <2> HIDE DEF j, a
  <2> QED
    BY <2>1, <2>2, <2>3, <2>4 DEF SendsFollowClaims, Busy
<1>7. ASSUME NEW j \in Jobs,
             \/ Insert(j) \/ DecideInDoubt(j) \/ LeaseExpires(j) \/ RetryDue(j)
      PROVE  SendsFollowClaims'
  <2>1. broker' = broker /\ relay' = relay
    BY <1>7 DEF Insert, DecideInDoubt, LeaseExpires, RetryDue
  <2> QED
    BY <1>1, <2>1 DEF Kept
<1>8. ASSUME NEW j \in Jobs, NEW a \in Attempts, BrokerAccepts(j, a) \/ BrokerDrops(j, a)
      PROVE  SendsFollowClaims'
  <2>1. /\ row' = row /\ relay' = relay
        /\ flying'[j] = flying[j] \ {a}
        /\ accepted'[j] = accepted[j] \/ accepted'[j] = accepted[j] \cup {a}
        /\ a \in flying[j]
        /\ \A i \in Jobs : i # j => flying'[i] = flying[i] /\ accepted'[i] = accepted[i]
    BY <1>8 DEF BrokerAccepts, BrokerDrops, TypeOK
  <2>2. \A s \in Relays : Busy(s) => relay[s].job \in Jobs
    BY DEF BusyHasClaim
  <2> QED
    BY <2>1, <2>2 DEF SendsFollowClaims, Busy
<1>9. CASE UNCHANGED vars
  BY <1>1, <1>9 DEF Kept, vars
<1> QED
  BY <1>2, <1>3, <1>4, <1>5, <1>6, <1>7, <1>8, <1>9
     DEF Next, RelayStep, RowStep, QuietRelayStep

(* What rows say of the broker: a row is settled by the holder of its lock *)
(* or of its live claim, which is the claim of its last attempt.           *)
LEMMA RowStepIsTrue == RelayInv /\ [Next]_vars => RowsAreTrue'
<1> SUFFICES ASSUME RelayInv, [Next]_vars PROVE RowsAreTrue'
  OBVIOUS
<1> USE ConstantsAssumption DEF RelayInv, broker
<1> DEFINE Fine(j) ==
             /\ row[j].published # 0 => /\ row[j].published = row[j].attempts
                                        /\ row[j].published \in accepted[j]
                                        /\ row[j].token # None
             /\ ~(row[j].published # 0 /\ row[j].failed)
             /\ row[j].failed => row[j].attempts \notin flying[j] \cup accepted[j]
             /\ row[j].published # 0 \/ row[j].failed => row[j].inserted
           Kept(j) ==
             /\ row[j].inserted => row'[j].inserted
             /\ row'[j].attempts = row[j].attempts
             /\ row'[j].token = row[j].token
             /\ row'[j].published = row[j].published
             /\ row'[j].failed = row[j].failed
             /\ accepted[j] \subseteq accepted'[j]
             /\ \/ flying'[j] \cup accepted'[j] \subseteq flying[j] \cup accepted[j]
                \/ ~row[j].failed
<1>0. \A j \in Jobs : Fine(j)
  BY DEF RowsAreTrue, PublishedByItsClaim, SingleTerminalState, FailedWasRefused,
         SettledIsInserted
<1>1. ASSUME \A j \in Jobs : Fine(j)' PROVE RowsAreTrue'
  BY <1>1 DEF RowsAreTrue, PublishedByItsClaim, SingleTerminalState, FailedWasRefused,
              SettledIsInserted
<1>2. \A j \in Jobs : Kept(j) => Fine(j)'
  BY <1>0
<1>3. ASSUME row' = row, broker' = broker PROVE RowsAreTrue'
  <2>1. flying' = flying /\ accepted' = accepted
    BY <1>3
  <2> QED
    BY <1>0, <1>1, <1>3, <2>1
<1> HIDE DEF Fine, Kept
<1>4. ASSUME NEW r \in Relays, QuietRelayStep(r) PROVE RowsAreTrue'
  BY <1>3, <1>4 DEF QuietRelayStep, LockRow, Acknowledged, Failed, SessionLost, Mark,
                MarkMissed, FoundPublished, Unresolved, NotRecorded
<1>5. ASSUME NEW r \in Relays, ClaimNext(r) PROVE RowsAreTrue'
  <2>1. PICK j \in Jobs, token \in Tokens :
           /\ Open(j)
           /\ row' = [row EXCEPT ![j].attempts = @ + 1,
                                 ![j].token = token, ![j].live = TRUE]
    BY <1>5 DEF ClaimNext, Eligible
  <2>2. flying' = flying /\ accepted' = accepted
    BY <1>5 DEF ClaimNext
  <2>3. Fine(j)'
    BY <2>1 DEF Fine, Open, TypeOK, Rows
  <2>4. \A i \in Jobs : i # j => Kept(i)
    BY <2>1, <2>2 DEF Kept, TypeOK
  <2> QED
    BY <1>1, <1>2, <2>3, <2>4
<1>6. ASSUME NEW r \in Relays, Send(r) \/ Rejected(r) PROVE RowsAreTrue'
  <2> DEFINE j == relay[r].job
  <2>1. CASE Send(r)
    <3>1. j \in Jobs /\ ~row[j].failed
      BY <2>1 DEF Send, BusyHasClaim, Busy, LockHoldsClaim, Open
    <3> QED
      BY <1>1, <1>2, <2>1, <3>1 DEF Send, Kept, TypeOK
  <2>2. CASE Rejected(r)
    <3>1. j \in Jobs
      BY <2>2 DEF Rejected, BusyHasClaim, Busy
    <3> QED
      BY <1>1, <1>2, <2>2, <3>1 DEF Rejected, Kept, TypeOK
  <2> QED
    BY <1>6, <2>1, <2>2
<1>7. ASSUME NEW r \in Relays, Committed(r) \/ CommitLost(r) \/ Crash(r)
      PROVE  RowsAreTrue'
  <2> DEFINE j == relay[r].job
  <2>1. CASE row' = row
    BY <1>3, <1>7, <2>1 DEF Committed, CommitLost, Crash, Commit, LeaveInDoubt
  <2>2. CASE Commit(r)
    <3>1. /\ j \in Jobs /\ Open(j)
          /\ row[j].attempts = relay[r].attempt
          /\ relay[r].attempt \in accepted[j]
          /\ row[j].token # None
      BY <2>2 DEF Commit, BusyHasClaim, Busy, LockHoldsClaim, SendsFollowClaims
    <3>2. flying' = flying /\ accepted' = accepted
      BY <2>2 DEF Commit
    <3>3. \A i \in Jobs : i = j => Fine(i)'
      <4>1. /\ row'[j].published = relay[r].attempt
            /\ row'[j].attempts = row[j].attempts
            /\ row'[j].token = row[j].token
            /\ row'[j].failed = row[j].failed
            /\ row'[j].inserted = row[j].inserted
        BY <2>2, <3>1 DEF Commit, TypeOK, Rows
      <4> QED
        BY <3>1, <3>2, <4>1 DEF Fine, Open
    <3>4. \A i \in Jobs : i # j => Kept(i)
      BY <2>2, <3>2 DEF Commit, Kept, TypeOK
    <3> QED
      BY <1>1, <1>2, <3>3, <3>4
  <2> QED
    BY <1>7, <2>1, <2>2 DEF Committed, CommitLost, Crash, LeaveInDoubt
<1>8. ASSUME NEW r \in Relays, RecordRetry(r) \/ RecordTerminal(r) PROVE RowsAreTrue'
  <2> DEFINE j == relay[r].job
  <2>1. /\ j \in Jobs /\ Open(j) /\ row[j].attempts = relay[r].attempt
        /\ row[j] \in Rows
    BY <1>8 DEF RecordRetry, RecordTerminal, Holds, BusyHasClaim, Busy, TypeOK
  <2>2. flying' = flying /\ accepted' = accepted
    BY <1>8 DEF RecordRetry, RecordTerminal
  <2>3. \A i \in Jobs : i # j => Kept(i)
    <3>1. \A i \in Jobs : i # j => row'[i] = row[i]
      BY <1>8 DEF RecordRetry, RecordTerminal, TypeOK
    <3> QED
      BY <2>2, <3>1 DEF Kept
  <2>4. CASE RecordRetry(r)
    <3>1. row'[j].published = 0 /\ ~row'[j].failed
      BY <2>1, <2>4, Released DEF RecordRetry, Open, TypeOK
    <3> QED
      BY <1>1, <1>2, <2>3, <3>1 DEF Fine
  <2>5. CASE RecordTerminal(r)
    <3>1. /\ row'[j].published = 0 /\ row'[j].attempts = relay[r].attempt
          /\ row'[j].inserted
      BY <2>1, <2>5, Released DEF RecordTerminal, Open, TypeOK
    <3>2. relay[r].attempt \notin flying[j] \cup accepted[j]
      BY <2>5 DEF RecordTerminal, SendsFollowClaims
    <3> QED
      BY <1>1, <1>2, <2>2, <2>3, <3>1, <3>2 DEF Fine
  <2> QED
    BY <1>8, <2>4, <2>5
<1>9. ASSUME NEW j \in Jobs, Insert(j) \/ LeaseExpires(j) \/ RetryDue(j)
      PROVE  RowsAreTrue'
  BY <1>1, <1>2, <1>9 DEF Insert, LeaseExpires, RetryDue, Kept, TypeOK, Rows
<1>10. ASSUME NEW j \in Jobs, DecideInDoubt(j) PROVE RowsAreTrue'
  <2>1. CASE row' = row
    BY <1>3, <1>10, <2>1 DEF DecideInDoubt
  <2>2. CASE row' = [row EXCEPT ![j].published = row[j].attempts]
    <3>1. /\ Open(j) /\ row[j].token # None /\ row[j].attempts \in accepted[j]
          /\ flying' = flying /\ accepted' = accepted
      BY <1>10 DEF DecideInDoubt, LockHoldsClaim
    <3>2. Fine(j)'
      BY <2>2, <3>1 DEF Fine, Open, TypeOK, Rows
    <3>3. \A i \in Jobs : i # j => Kept(i)
      BY <2>2, <3>1 DEF Kept, TypeOK
    <3> QED
      BY <1>1, <1>2, <3>2, <3>3
  <2> QED
    BY <1>10, <2>1, <2>2 DEF DecideInDoubt
<1>11. ASSUME NEW j \in Jobs, NEW a \in Attempts, BrokerAccepts(j, a) \/ BrokerDrops(j, a)
       PROVE  RowsAreTrue'
  BY <1>1, <1>2, <1>11 DEF BrokerAccepts, BrokerDrops, Kept, TypeOK
<1>12. CASE UNCHANGED vars
  BY <1>3, <1>12 DEF vars
<1> QED
  BY <1>4, <1>5, <1>6, <1>7, <1>8, <1>9, <1>10, <1>11, <1>12
     DEF Next, RelayStep, RowStep, QuietRelayStep

(* The invariant of the relay holds in every reachable state.              *)
THEOREM RelayInvariance == Spec => []RelayInv
<1>1. RelayInv /\ [Next]_vars => RelayInv'
  BY RelayTypeStep, ClaimStep, LockStep, SendStep, RowStepIsTrue DEF RelayInv
<1> QED
  BY <1>1, RelayInit, PTL DEF Spec

(* The live claim of a row is that of its last attempt, which one relay    *)
(* holds.                                                                  *)
LEMMA SettlementsFollow == RelayInv => SettlementsAreTrue
<1>1. RelayInv => OneClaimHolder
  BY DEF RelayInv, OneClaimHolder, ClaimsAreDistinct, Holds, Busy
<1> QED
  BY <1>1 DEF RelayInv, RowsAreTrue, SettlementsAreTrue

(* Of a row only the lease and the delay may be set freely.                *)
LEMMA LeaseFields ==
    ASSUME NEW x \in Rows
    PROVE  /\ x = [x EXCEPT !.live = x.live, !.due = x.due]
           /\ LET y == [x EXCEPT !.live = FALSE]
              IN  y = [x EXCEPT !.live = y.live, !.due = y.due]
           /\ LET y == [x EXCEPT !.due = TRUE]
              IN  y = [x EXCEPT !.live = y.live, !.due = y.due]
BY DEF Rows

(* No statement of the relay finds a settled row, and a lock is never held *)
(* on one.                                                                 *)
LEMMA SettledStep ==
    ASSUME RelayInv, [Next]_vars, NEW j \in Jobs,
           row[j].published # 0 \/ row[j].failed
    PROVE  row'[j] = [row[j] EXCEPT !.live = row'[j].live, !.due = row'[j].due]
<1> USE ConstantsAssumption DEF RelayInv, broker
<1>0. ~Open(j) /\ row[j] \in Rows
  BY DEF Open, TypeOK
<1>1. CASE row'[j] = row[j]
  BY <1>0, <1>1 DEF Rows
<1>2. ASSUME NEW r \in Relays, RelayStep(r) PROVE row'[j] = row[j]
  <2>1. CASE QuietRelayStep(r) \/ Send(r) \/ Rejected(r)
    BY <2>1 DEF QuietRelayStep, LockRow, Acknowledged, Failed, SessionLost, Mark,
                MarkMissed, FoundPublished, Unresolved, NotRecorded, Send, Rejected
  <2>2. CASE ClaimNext(r)
    BY <1>0, <2>2 DEF ClaimNext, Eligible, TypeOK
  <2>3. CASE RecordRetry(r) \/ RecordTerminal(r)
    BY <1>0, <2>3 DEF RecordRetry, RecordTerminal, Holds, TypeOK
  <2>4. CASE Committed(r) \/ CommitLost(r) \/ Crash(r)
    <3>1. relay[r].phase = "committing" => relay[r].job # j
      BY <1>0 DEF LockHoldsClaim
    <3> QED
      BY <2>4, <3>1 DEF Committed, CommitLost, Crash, Commit, LeaveInDoubt, TypeOK
  <2> QED
    BY <1>2, <2>1, <2>2, <2>3, <2>4 DEF RelayStep, QuietRelayStep
<1>3. ASSUME NEW i \in Jobs, Insert(i) \/ DecideInDoubt(i)
      PROVE  row'[j] = row[j]
  <2>1. CASE Insert(i)
    BY <2>1 DEF Insert, RowsAreTrue, SettledIsInserted, TypeOK
  <2>2. CASE DecideInDoubt(i)
    BY <1>0, <2>2 DEF DecideInDoubt, LockHoldsClaim, TypeOK
  <2> QED
    BY <1>3, <2>1, <2>2
<1>8. ASSUME NEW i \in Jobs, NEW a \in Attempts, BrokerAccepts(i, a) \/ BrokerDrops(i, a)
      PROVE  row'[j] = row[j]
  BY <1>8 DEF BrokerAccepts, BrokerDrops
<1>4. ASSUME NEW i \in Jobs, LeaseExpires(i) \/ RetryDue(i)
      PROVE  \/ row'[j] = row[j]
             \/ row'[j] = [row[j] EXCEPT !.live = FALSE]
             \/ row'[j] = [row[j] EXCEPT !.due = TRUE]
  BY <1>4 DEF LeaseExpires, RetryDue, TypeOK
<1>5. CASE \/ row'[j] = [row[j] EXCEPT !.live = FALSE]
           \/ row'[j] = [row[j] EXCEPT !.due = TRUE]
  <2>1. row[j] = [row[j] EXCEPT !.live = row[j].live, !.due = row[j].due]
    BY <1>0, LeaseFields
  <2> QED
    BY <1>0, <1>5, LeaseFields
<1>6. CASE row'[j] = row[j]
  BY <1>0, <1>6, LeaseFields
<1>7. CASE UNCHANGED vars
  BY <1>6, <1>7 DEF vars
<1> QED
  BY <1>2, <1>3, <1>4, <1>5, <1>6, <1>7, <1>8 DEF Next, RowStep

(* The rows and the broker agree and rows are settled once, however many   *)
(* relays work on them, with whatever tokens.                              *)
THEOREM RelaySettlesTruly == Spec => []SettlementsAreTrue
BY RelayInvariance, SettlementsFollow, PTL

(* No late relay touches a settled row.                                    *)
THEOREM SettledRowsStay == Spec => SettledStays
<1> DEFINE Stays ==
        \A j \in Jobs :
            row[j].published # 0 \/ row[j].failed =>
                row'[j] = [row[j] EXCEPT !.live = row'[j].live,
                                         !.due = row'[j].due]
<1>1. RelayInv /\ [Next]_vars => [Stays]_vars
  BY SettledStep
<1> QED
  BY <1>1, RelayInvariance, PTL DEF Spec, SettledStays
----------------------------------------------------------------------------
(***************************************************************************)
(* The chain.  Its steps are steps of the relay and steps of the worker,   *)
(* so what holds of either holds of the chain.                             *)
(***************************************************************************)
LEMMA ChainStep ==
    ASSUME [ChainNext]_chainVars
    PROVE  [Next]_vars /\ [Worker!Next]_(Worker!vars)
<1>1. ASSUME NEW j \in Jobs, CreateProof(j)
      PROVE  [Next]_vars /\ [Worker!Next]_(Worker!vars)
  BY <1>1 DEF CreateProof, Next, Worker!Next
<1>2. ASSUME NEW j \in Jobs, NEW a \in Attempts, QueueAccepts(j, a)
      PROVE  [Next]_vars /\ [Worker!Next]_(Worker!vars)
  BY <1>2 DEF QueueAccepts, Next, Worker!Next
<1>3. CASE Publish
  <2>1. UNCHANGED Worker!vars
    BY <1>3 DEF Publish, workerVars, Worker!vars
  <2> QED
    BY <1>3, <2>1 DEF Publish, Next
<1>4. CASE Consume
  BY <1>4 DEF Consume, Worker!Next
<1>5. CASE UNCHANGED chainVars
  BY <1>5 DEF chainVars, workerVars, Worker!vars
<1> QED
  BY <1>1, <1>2, <1>3, <1>4, <1>5 DEF ChainNext

(* The chain is a relay: everything proved of the relay holds of it.       *)
THEOREM ChainRelays == ChainSpec => Spec
<1>1. [ChainNext]_chainVars => [Next]_vars
  BY ChainStep
<1> QED
  BY <1>1, PTL DEF ChainSpec, ChainInit, Spec

(* The chain is a worker with one copy of the message per attempt.         *)
THEOREM ChainWorks == ChainSpec => Worker!Spec
<1>1. [ChainNext]_chainVars => [Worker!Next]_(Worker!vars)
  BY ChainStep
<1> QED
  BY <1>1, PTL DEF ChainSpec, ChainInit, Worker!Spec

(* However many relays and workers, with expired leases, late sends, lost  *)
(* markers and COMMITs in doubt, an event is settled once and truly.       *)
THEOREM ChainSettlesTruly == ChainSpec => []SettlementsAreTrue
BY ChainRelays, RelaySettlesTruly, PTL

(* And nothing touches it afterwards.                                      *)
THEOREM ChainSettledStays == ChainSpec => SettledStays
BY ChainRelays, SettledRowsStay, PTL

(* A send the broker accepted is on the queue or has left it.              *)
AcceptedIsSent ==
    \A j \in Jobs : \A a \in accepted[j] : message[<<j, a>>] # "unsent"

MessagesTyped == DOMAIN message = Jobs \X Attempts

(* No message is taken back.                                               *)
LEMMA MessagesStaySent ==
    ASSUME MessagesTyped, [Worker!Next]_(Worker!vars)
    PROVE  /\ MessagesTyped'
           /\ \A m \in Jobs \X Attempts :
                 message[m] # "unsent" => message'[m] # "unsent"
<1> USE DEF MessagesTyped, Worker!database, Worker!queue
<1>1. ASSUME NEW j \in Jobs,
             \/ Worker!CreateProof(j) \/ Worker!Expire(j) \/ Worker!Revoke(j)
      PROVE  message' = message
  BY <1>1 DEF Worker!CreateProof, Worker!Expire, Worker!Revoke
<1>5. CASE Worker!DecideInDoubt
  BY <1>5 DEF Worker!DecideInDoubt
<1>2. ASSUME NEW w \in Workers, Worker!WorkerStep(w)
      PROVE  message' = message
             \/ message' = [message EXCEPT ![Worker!MessageOf(w)] = "deleted"]
  BY <1>2 DEF Worker!WorkerStep, Worker!Receive, Worker!Rehydrate, Worker!Authorize,
      Worker!Discover, Worker!ConfirmDuplicate, Worker!OutOfOrder, Worker!LockPending,
      Worker!RediscoverDuplicate, Worker!RediscoverNothing, Worker!Write,
      Worker!Commit, Worker!CommitLost, Worker!Delete, Worker!Undeleted
<1>3. ASSUME NEW j \in Jobs, NEW a \in Attempts, Worker!Enqueue(j, a) \/ Worker!Redrive(j, a)
      PROVE  \/ message' = [message EXCEPT ![<<j, a>>] = "queued"]
             \/ message' = [message EXCEPT ![<<j, a>>] = "dead"]
  BY <1>3 DEF Worker!Enqueue, Worker!Redrive
<1>4. CASE UNCHANGED Worker!vars
  BY <1>4 DEF Worker!vars
<1> QED
  BY <1>1, <1>2, <1>3, <1>4, <1>5 DEF Worker!Next

(* What the relay believes on the queue was put there: a row is marked     *)
(* published after the broker accepted a send, which put its copy there.   *)
LEMMA AcceptedStep ==
    RelayInv /\ MessagesTyped /\ AcceptedIsSent /\ [ChainNext]_chainVars
        => MessagesTyped' /\ AcceptedIsSent'
<1> SUFFICES ASSUME RelayInv, MessagesTyped, AcceptedIsSent, [ChainNext]_chainVars
             PROVE  MessagesTyped' /\ AcceptedIsSent'
  OBVIOUS
<1> USE DEF broker
<1>1. /\ MessagesTyped'
      /\ \A m \in Jobs \X Attempts :
            message[m] # "unsent" => message'[m] # "unsent"
  BY ChainStep, MessagesStaySent
<1>2. accepted \in [Jobs -> SUBSET Attempts]
  BY DEF RelayInv, TypeOK
<1>3. CASE accepted' = accepted
  BY <1>1, <1>2, <1>3 DEF AcceptedIsSent
<1>4. ASSUME NEW j \in Jobs, NEW a \in Attempts, QueueAccepts(j, a)
      PROVE  AcceptedIsSent'
  <2>1. /\ accepted'[j] = accepted[j] \cup {a}
        /\ \A i \in Jobs : i # j => accepted'[i] = accepted[i]
    BY <1>2, <1>4 DEF QueueAccepts, BrokerAccepts
  <2>2. message'[<<j, a>>] # "unsent"
    BY <1>4 DEF QueueAccepts, Worker!Enqueue, MessagesTyped
  <2>3. ASSUME NEW i \in Jobs, NEW b, b \in accepted'[i]
        PROVE  message'[<<i, b>>] # "unsent"
    <3>1. b \in accepted[i] \/ (i = j /\ b = a)
      BY <2>1, <2>3
    <3>2. CASE b \in accepted[i]
      <4>1. message[<<i, b>>] # "unsent" /\ <<i, b>> \in Jobs \X Attempts
        BY <1>2, <3>2 DEF AcceptedIsSent
      <4> QED
        BY <1>1, <4>1
    <3> QED
      BY <2>2, <3>1, <3>2
  <2> QED
    BY <2>3, Zenon DEF AcceptedIsSent
<1>5. ASSUME NEW j \in Jobs, CreateProof(j) \/ RowStep(j) PROVE accepted' = accepted
  <2>1. CASE CreateProof(j) \/ DecideInDoubt(j) \/ LeaseExpires(j) \/ RetryDue(j)
    BY <2>1 DEF CreateProof, Insert, DecideInDoubt, LeaseExpires, RetryDue
  <2>2. ASSUME NEW a \in Attempts, BrokerDrops(j, a) PROVE accepted' = accepted
    BY <2>2 DEF BrokerDrops
  <2> QED
    BY <1>5, <2>1, <2>2 DEF RowStep
<1>6. ASSUME NEW r \in Relays, RelayStep(r) PROVE accepted' = accepted
  <2>1. CASE QuietRelayStep(r) \/ Send(r) \/ Rejected(r)
    BY <2>1 DEF QuietRelayStep, LockRow, Acknowledged, Failed, SessionLost, Mark,
                MarkMissed, FoundPublished, Unresolved, NotRecorded, Send, Rejected
  <2>2. CASE ClaimNext(r)
    BY <2>2 DEF ClaimNext
  <2>3. CASE RecordRetry(r) \/ RecordTerminal(r)
    BY <2>3 DEF RecordRetry, RecordTerminal
  <2>4. CASE Committed(r) \/ CommitLost(r) \/ Crash(r)
    BY <2>4 DEF Committed, CommitLost, Crash, Commit, LeaveInDoubt
  <2> QED
    BY <1>6, <2>1, <2>2, <2>3, <2>4 DEF RelayStep, QuietRelayStep
<1>7. ASSUME Consume \/ UNCHANGED chainVars PROVE accepted' = accepted
  BY <1>7 DEF Consume, chainVars, vars
<1> QED
  BY <1>1, <1>3, <1>4, <1>5, <1>6, <1>7 DEF ChainNext, Publish

(* A row marked published has its copy of the message on the queue, or had *)
(* it there.                                                               *)
THEOREM PublishedReachesTheQueue == ChainSpec => []PublishedIsOnTheQueue
<1>1. ChainInit => MessagesTyped /\ AcceptedIsSent
  BY DEF ChainInit, Init, Worker!Init, Worker!Messages, MessagesTyped, AcceptedIsSent
<1>2. RelayInv /\ AcceptedIsSent => PublishedIsOnTheQueue
  BY DEF RelayInv, RowsAreTrue, PublishedByItsClaim, AcceptedIsSent, PublishedIsOnTheQueue
<1> QED
  BY <1>1, <1>2, AcceptedStep, ChainRelays, RelayInvariance, PTL DEF ChainSpec
----------------------------------------------------------------------------
(* The worker of the chain satisfies the assumptions of its own proofs.    *)
W == INSTANCE FoundationWorkerProofs WITH Copies <- Attempts

LEMMA WorkerAssumption == W!ConstantsAssumption
BY ConstantsAssumption, ChainAssumption DEF W!ConstantsAssumption

(* The worker of the chain and the worker of those proofs start alike,     *)
(* take the same steps and are the same specification.                     *)
LEMMA SameInit == Worker!Init <=> W!Init
BY DEF Worker!Init, W!Init, Worker!NoAggregate, W!NoAggregate, Worker!Messages,
       W!Messages, Worker!Idle, W!Idle

(* Their steps are the same.                                               *)
LEMMA SameNext == Worker!Next <=> W!Next
BY Zenon DEF Worker!Receive, Worker!Rehydrate, Worker!Authorize, Worker!Discover,
       Worker!ConfirmDuplicate, Worker!OutOfOrder, Worker!LockPending,
       Worker!RediscoverDuplicate, Worker!RediscoverNothing, Worker!Write,
       Worker!Commit, Worker!CommitLost, Worker!Delete, Worker!Undeleted,
       Worker!WorkerStep, Worker!CreateProof, Worker!Expire, Worker!Revoke,
       Worker!Enqueue, Worker!Redrive, Worker!DecideInDoubt, Worker!GoTo,
       Worker!Finish, Worker!Unlock, Worker!Effect, Worker!MessageOf,
       Worker!Pending, Worker!Duplicate, Worker!Found, Worker!Idle,
       Worker!locks, Worker!proof, Worker!queue, Worker!database,
       Worker!Next, W!Receive, W!Rehydrate, W!Authorize, W!Discover,
       W!ConfirmDuplicate, W!OutOfOrder, W!LockPending,
       W!RediscoverDuplicate, W!RediscoverNothing, W!Write, W!Commit,
       W!CommitLost, W!Delete, W!Undeleted, W!WorkerStep, W!CreateProof,
       W!Expire, W!Revoke, W!Enqueue, W!Redrive, W!DecideInDoubt, W!GoTo,
       W!Finish, W!Unlock, W!Effect, W!MessageOf, W!Pending, W!Duplicate,
       W!Found, W!Idle, W!locks, W!proof, W!queue, W!database, W!Next

(* Their specifications are the same.                                      *)
LEMMA SameWorker == Worker!Spec => W!Spec
<1>1. Worker!vars = W!vars
  BY DEF Worker!vars, W!vars
<1>2. [Worker!Next]_(Worker!vars) => [W!Next]_(W!vars)
  BY SameNext, Zenon DEF Worker!vars, W!vars
<1> QED
  BY <1>1, <1>2, SameInit, PTL DEF Worker!Spec, W!Spec

(* However often the relay repeats a send and the queue a delivery, a job  *)
(* has one effect.                                                         *)
THEOREM ChainEffectsOnce == ChainSpec => []OneEffectPerJob
<1>1. W!OneEffectPerJob => OneEffectPerJob
  BY DEF OneEffectPerJob, Worker!OneEffectPerJob, W!OneEffectPerJob, Worker!Cardinality,
         W!Cardinality
<1> QED
  BY <1>1, ChainWorks, SameWorker, W!EffectsOnce, WorkerAssumption, PTL

(* No effect of the chain is committed once its reference was revoked.     *)
THEOREM ChainRevocationsAreFinal ==
    ASSUME AuthorityLocks
    PROVE  ChainSpec => NoEffectAfterRevocation
<1> DEFINE NoneLate ==
        \A j \in Jobs : W!Applied(j)' /\ ~W!Applied(j) => reference[j] # "revoked"
           NoneLateHere ==
        \A j \in Jobs :
            Worker!Applied(j)' /\ ~Worker!Applied(j) => reference[j] # "revoked"
<1>1. [NoneLate]_(W!vars) => [NoneLateHere]_(Worker!vars)
  BY DEF W!Applied, Worker!Applied, W!vars, Worker!vars
<1>2. W!Spec => W!NoEffectAfterRevocation
  BY WorkerAssumption, W!RevocationsAreFinal
<1> QED
  BY <1>1, <1>2, ChainWorks, SameWorker, PTL
     DEF NoEffectAfterRevocation, Worker!NoEffectAfterRevocation, W!NoEffectAfterRevocation
----------------------------------------------------------------------------
(***************************************************************************)
(* The chain implements the promise of its worker.                         *)
(***************************************************************************)
(* Whatever the relay repeats and the queue redelivers, each proof takes   *)
(* effect at most once, and only while it is the newest.                   *)
THEOREM ChainKeepsThePromise == ChainSpec => W!PromiseSpec
BY ChainWorks, SameWorker, WorkerAssumption, W!ImplementsPromise, PTL
=============================================================================
