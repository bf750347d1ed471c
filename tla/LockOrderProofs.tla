-------------------------- MODULE LockOrderProofs ---------------------------
(***************************************************************************)
(* Two groups of transactions never wait for each other in a circle,       *)
(* however many sessions, Spaces and keys there are.  The publish          *)
(* transactions of the product relay, its provisioning and the foundation  *)
(* transactions lock in one global order of the tables, but for one step   *)
(* of a proof creation, which never waits.  The commands follow no order   *)
(* of the tables: for them a lock has a tier by its table and mode, and a  *)
(* session never waits for a tier within the reach of what it holds.       *)
(***************************************************************************)
EXTENDS LockOrder, TLAPS, FiniteSetTheorems, SequenceTheorems, WellFoundedInduction

(* Type correctness: locks are taken in the order of the script and        *)
(* released together, whatever the casts are.                              *)
THEOREM TypeCorrect == Spec => []TypeOK
<1>1. Init => TypeOK
  BY ScopeAssumption DEF Init, TypeOK, Open
<1>2. TypeOK /\ [Next]_vars => TypeOK'
  <2> SUFFICES ASSUME TypeOK, [Next]_vars
               PROVE  TypeOK'
    OBVIOUS
  <2>1. ASSUME NEW t \in Txns, Begin(t)
        PROVE  TypeOK'
    <3>1. PICK j \in Jobs : j.kind \in cast[t] /\ job' = [job EXCEPT ![t] = j]
      BY <2>1 DEF Begin
    <3>2. j # None
      BY ScopeAssumption DEF Jobs
    <3>3. held[t] = 0 /\ held' = held /\ cast' = cast
      BY <2>1 DEF Begin, TypeOK
    <3>4. job' \in [Txns -> Jobs \cup {None}] /\ held' \in [Txns -> Nat]
      BY <3>1, <3>3 DEF TypeOK
    <3>5. ASSUME NEW u \in Txns
          PROVE  /\ Open(u)' => job'[u].kind \in cast'[u]
                 /\ IF Open(u)' THEN 1..held'[u] \subseteq DOMAIN Locks(u)'
                                ELSE held'[u] = 0
      <4>1. CASE u = t
        BY <4>1, <3>1, <3>2, <3>3 DEF TypeOK, Open
      <4>2. CASE u # t
        BY <4>2, <3>1, <3>3 DEF TypeOK, Open, Locks
      <4> QED
        BY <4>1, <4>2
    <3> QED
      BY <3>3, <3>4, <3>5 DEF TypeOK
  <2>2. ASSUME NEW t \in Txns, Acquire(t)
        PROVE  TypeOK'
    <3>1. /\ held' = [held EXCEPT ![t] = @ + 1]
          /\ cast' = cast /\ job' = job
          /\ Open(t) /\ held[t] + 1 \in DOMAIN Locks(t)
      BY <2>2 DEF Acquire, Wants
    <3>2. 1..held'[t] \subseteq DOMAIN Locks(t)
      BY <3>1 DEF TypeOK
    <3>3. job' \in [Txns -> Jobs \cup {None}] /\ held' \in [Txns -> Nat]
      BY <3>1 DEF TypeOK
    <3>4. ASSUME NEW u \in Txns
          PROVE  /\ Open(u)' => job'[u].kind \in cast'[u]
                 /\ IF Open(u)' THEN 1..held'[u] \subseteq DOMAIN Locks(u)'
                                ELSE held'[u] = 0
      <4>1. CASE u = t
        BY <4>1, <3>1, <3>2 DEF TypeOK, Open, Locks
      <4>2. CASE u # t
        BY <4>2, <3>1 DEF TypeOK, Open, Locks
      <4> QED
        BY <4>1, <4>2
    <3> QED
      BY <3>1, <3>3, <3>4 DEF TypeOK
  <2>3. ASSUME NEW t \in Txns, End(t)
        PROVE  TypeOK'
    BY <2>3 DEF End, TypeOK, Open, Locks
  <2>4. CASE UNCHANGED vars
    BY <2>4 DEF vars, TypeOK, Open, Locks
  <2> QED
    BY <2>1, <2>2, <2>3, <2>4 DEF Next
<1> QED
  BY <1>1, <1>2, PTL DEF Spec

(* Locks that two sessions hold on one row never conflict. *)
Compatible ==
    \A t, u \in Txns :
       t # u /\ Open(t) /\ Open(u) =>
          \A i \in 1 .. held[t], j \in 1 .. held[u] :
             Locks(t)[i].row = Locks(u)[j].row =>
                ~Conflict(Locks(t)[i].mode, Locks(u)[j].mode)

(* A lock is granted only when no session blocks it.                       *)
LEMMA GrantsAreCompatible ==
    /\ Init => Compatible
    /\ TypeOK /\ Compatible /\ [Next]_vars => Compatible'
<1>1. Init => Compatible
  BY DEF Init, Compatible, Open
<1>2. ASSUME TypeOK, Compatible, NEW t \in Txns, Begin(t)
      PROVE  Compatible'
  <2>1. held[t] = 0 /\ held' = held /\ \A u \in Txns : u # t => job'[u] = job[u]
    BY <1>2 DEF Begin, TypeOK
  <2>2. \A u \in Txns : u # t => (Open(u)' <=> Open(u)) /\ (Locks(u)' = Locks(u))
    BY <2>1 DEF Open, Locks
  <2>3. 1 .. held'[t] = {}
    BY <2>1
  <2>4. QED
    BY <1>2, <2>1, <2>2, <2>3 DEF Compatible
<1>3. ASSUME TypeOK, Compatible, NEW t \in Txns, Acquire(t)
      PROVE  Compatible'
  <2>1. /\ job' = job /\ held' = [held EXCEPT ![t] = @ + 1] /\ held[t] \in Nat
        /\ Wants(t) /\ ~Waiting(t)
    BY <1>3 DEF Acquire, TypeOK
  <2>2. \A u \in Txns : (Open(u)' <=> Open(u)) /\ Locks(u)' = Locks(u)
    BY <2>1 DEF Open, Locks
  <2>3. \A u \in Txns : u # t => held'[u] = held[u]
    BY <2>1 DEF TypeOK
  <2>4. \A i \in 1 .. held'[t] : i \in 1 .. held[t] \/ i = held[t] + 1
    BY <2>1 DEF TypeOK
  <2>5. \A u \in Txns \ {t} : Open(u) =>
           \A i \in 1 .. held[u] :
              Locks(u)[i].row = Locks(t)[held[t] + 1].row =>
                 ~Conflict(Locks(u)[i].mode, Locks(t)[held[t] + 1].mode)
    BY <2>1 DEF Waiting, Blocks, Wanted
  <2>6. \A m, n : Conflict(m, n) => Conflict(n, m)
    BY DEF Conflict
  <2> SUFFICES ASSUME NEW u \in Txns, NEW v \in Txns, u # v, Open(u), Open(v),
                      NEW i \in 1 .. held'[u], NEW j \in 1 .. held'[v],
                      Locks(u)[i].row = Locks(v)[j].row
               PROVE  ~Conflict(Locks(u)[i].mode, Locks(v)[j].mode)
    BY <2>2 DEF Compatible
  <2>7. CASE u = t
    BY <1>3, <2>3, <2>4, <2>5, <2>6, <2>7 DEF Compatible
  <2>8. CASE v = t
    BY <1>3, <2>3, <2>4, <2>5, <2>8 DEF Compatible
  <2>9. CASE u # t /\ v # t
    BY <1>3, <2>3, <2>9 DEF Compatible
  <2>10. QED
    BY <2>7, <2>8, <2>9
<1>4. ASSUME TypeOK, Compatible, NEW t \in Txns, End(t)
      PROVE  Compatible'
  <2>1. /\ job' = [job EXCEPT ![t] = None] /\ held' = [held EXCEPT ![t] = 0]
    BY <1>4 DEF End
  <2>2. ~Open(t)' /\ \A u \in Txns : u # t =>
            held'[u] = held[u] /\ (Open(u)' <=> Open(u)) /\ (Locks(u)' = Locks(u))
    BY <1>4, <2>1 DEF Open, Locks, TypeOK
  <2>3. QED
    BY <1>4, <2>2 DEF Compatible
<1>5. ASSUME Compatible, UNCHANGED vars
      PROVE  Compatible'
  <2>1. held' = held /\ \A t \in Txns : (Open(t)' <=> Open(t)) /\ Locks(t)' = Locks(t)
    BY <1>5 DEF Open, Locks, vars
  <2>2. QED
    BY <1>5, <2>1 DEF Compatible
<1>6. QED
  BY <1>1, <1>2, <1>3, <1>4, <1>5 DEF Next

LEMMA LeastNumber ==
    ASSUME NEW S, S \subseteq Nat, S # {}
    PROVE  \E x \in S : \A y \in S : x <= y
<1> DEFINE R == {ss \in Nat \X Nat : ss[1] < ss[2]}
<1>1. IsWellFoundedOn(R, Nat)
  BY NatLessThanWellFounded DEF OpToRel
<1> HIDE DEF R
<1>2. PICK x \in S : \A y \in S : <<y, x>> \notin R
  BY <1>1, WFMin
<1>3. ASSUME NEW y \in S PROVE x <= y
  <2>1. x \in Nat /\ y \in Nat /\ ~(y < x)
    BY <1>2 DEF R
  <2>2. QED
    BY <2>1
<1>4. QED
  BY <1>3

----------------------------------------------------------------------------
Ordered == {"publish", "provision", "worker", "relay"}

(* The global order of the tables.                                         *)
RankOf ==
    [event |-> 0, reference |-> 0, tenant |-> 1, workspace |-> 2,
     policy |-> 3, principal |-> 4, worker |-> 4, foundationRelay |-> 4,
     user |-> 5, membership |-> 6, space |-> 7, userGrant |-> 8,
     relayGrant |-> 8, foundationGrant |-> 8, workerGrant |-> 9]

Rank(lock) == RankOf[lock.row[1]]

Ascending(p) ==
    /\ DOMAIN p \subseteq Nat
    /\ \A i \in DOMAIN p : Rank(p[i]) \in 0..9
    /\ \A i, j \in DOMAIN p : i < j => Rank(p[i]) < Rank(p[j])

LEMMA PublishAscends ==
    ASSUME NEW s \in Spaces, NEW k \in Keys
    PROVE  Ascending(Publish(s, k))
<1> DEFINE rows == <<Row("event", k), Tenant, Workspace, Policy, Principal,
                     Space(s), RelayGrant(s)>>
<1>1. Publish(s, k) = [i \in 1..7 |-> [row |-> rows[i], mode |-> "update"]]
  BY DEF Publish, In
<1>2. DOMAIN Publish(s, k) = 1..7
  BY <1>1
<1>3. \A i \in 1..7 : Rank(Publish(s, k)[i]) = RankOf[rows[i][1]]
  BY <1>1 DEF Rank
<1>4. /\ RankOf[rows[1][1]] = 0 /\ RankOf[rows[2][1]] = 1
      /\ RankOf[rows[3][1]] = 2 /\ RankOf[rows[4][1]] = 3
      /\ RankOf[rows[5][1]] = 4 /\ RankOf[rows[6][1]] = 7
      /\ RankOf[rows[7][1]] = 8
  BY DEF RankOf, Row, Tenant, Workspace, Policy, Principal, Space, RelayGrant
<1> QED
  BY <1>2, <1>3, <1>4 DEF Ascending

LEMMA ProvisionAscends ==
    ASSUME NEW s \in Spaces, NEW k \in Keys
    PROVE  Ascending(Provision(s, k))
<1> DEFINE rows == <<Workspace, Principal, Space(s), RelayGrant(s)>>
<1>1. Provision(s, k) = [i \in 1..4 |-> [row |-> rows[i], mode |-> "update"]]
  BY DEF Provision, In
<1>2. DOMAIN Provision(s, k) = 1..4
  BY <1>1
<1>3. \A i \in 1..4 : Rank(Provision(s, k)[i]) = RankOf[rows[i][1]]
  BY <1>1 DEF Rank
<1>4. /\ RankOf[rows[1][1]] = 2 /\ RankOf[rows[2][1]] = 4
      /\ RankOf[rows[3][1]] = 7 /\ RankOf[rows[4][1]] = 8
  BY DEF RankOf, Workspace, Principal, Space, RelayGrant
<1> QED
  BY <1>2, <1>3, <1>4 DEF Ascending

LEMMA WorkerAscends ==
    ASSUME NEW s \in Spaces, NEW k \in Keys
    PROVE  Ascending(WorkerRun(s, k))
<1> DEFINE rows == <<Row("reference", k), Tenant, Workspace, Policy,
                     Row("worker", 0), User, Membership, Space(s),
                     UserGrant(s), Row("workerGrant", s)>>
<1>1. WorkerRun(s, k) = [i \in 1..10 |-> [row |-> rows[i], mode |-> "update"]]
  BY DEF WorkerRun, In
<1>2. DOMAIN WorkerRun(s, k) = 1..10
  BY <1>1
<1>3. \A i \in 1..10 : Rank(WorkerRun(s, k)[i]) = RankOf[rows[i][1]]
  BY <1>1 DEF Rank
<1>4. /\ RankOf[rows[1][1]] = 0 /\ RankOf[rows[2][1]] = 1
      /\ RankOf[rows[3][1]] = 2 /\ RankOf[rows[4][1]] = 3
      /\ RankOf[rows[5][1]] = 4 /\ RankOf[rows[6][1]] = 5
      /\ RankOf[rows[7][1]] = 6 /\ RankOf[rows[8][1]] = 7
      /\ RankOf[rows[9][1]] = 8 /\ RankOf[rows[10][1]] = 9
  BY DEF RankOf, Row, Tenant, Workspace, Policy, User, Membership, Space, UserGrant
<1> QED
  BY <1>2, <1>3, <1>4 DEF Ascending

LEMMA RelayAscends ==
    ASSUME NEW s \in Spaces, NEW k \in Keys
    PROVE  Ascending(RelayRun(s, k))
<1> DEFINE rows == <<Tenant, Workspace, Policy, Row("foundationRelay", 0),
                     Space(s), Row("foundationGrant", s)>>
<1>1. RelayRun(s, k) = [i \in 1..6 |-> [row |-> rows[i], mode |-> "share"]]
  BY DEF RelayRun, In
<1>2. DOMAIN RelayRun(s, k) = 1..6
  BY <1>1
<1>3. \A i \in 1..6 : Rank(RelayRun(s, k)[i]) = RankOf[rows[i][1]]
  BY <1>1 DEF Rank
<1>4. /\ RankOf[rows[1][1]] = 1 /\ RankOf[rows[2][1]] = 2
      /\ RankOf[rows[3][1]] = 3 /\ RankOf[rows[4][1]] = 4
      /\ RankOf[rows[5][1]] = 7 /\ RankOf[rows[6][1]] = 8
  BY DEF RankOf, Row, Tenant, Workspace, Policy, Space
<1> QED
  BY <1>2, <1>3, <1>4 DEF Ascending

LEMMA ProofAscends ==
    ASSUME NEW s \in Spaces, NEW k \in Keys
    PROVE  /\ DOMAIN ProofCreate(s, k) = 1..6
           /\ \A i \in 1..6 : /\ Rank(ProofCreate(s, k)[i]) \in 0..9
                             /\ ProofCreate(s, k)[i].mode = "share"
           /\ ProofCreate(s, k)[1].row = Tenant /\ ProofCreate(s, k)[5].row = User
           /\ \A i, j \in 1..6 :
                 i < j /\ j # 5 => Rank(ProofCreate(s, k)[i]) < Rank(ProofCreate(s, k)[j])
<1> DEFINE rows == <<Tenant, Workspace, Policy, Membership, User, Space(s)>>
<1>1. ProofCreate(s, k) = [i \in 1..6 |-> [row |-> rows[i], mode |-> "share"]]
  BY DEF ProofCreate, In
<1>2. DOMAIN ProofCreate(s, k) = 1..6
  BY <1>1
<1>3. \A i \in 1..6 : /\ Rank(ProofCreate(s, k)[i]) = RankOf[rows[i][1]]
                     /\ ProofCreate(s, k)[i].mode = "share"
                     /\ ProofCreate(s, k)[i].row = rows[i]
  BY <1>1 DEF Rank
<1>4. /\ RankOf[rows[1][1]] = 1 /\ RankOf[rows[2][1]] = 2
      /\ RankOf[rows[3][1]] = 3 /\ RankOf[rows[4][1]] = 6
      /\ RankOf[rows[5][1]] = 5 /\ RankOf[rows[6][1]] = 7
      /\ rows[1] = Tenant /\ rows[5] = User
  BY DEF RankOf, Tenant, Workspace, Policy, User, Membership, Space
<1> HIDE DEF rows
<1> QED
  BY <1>2, <1>3, <1>4

(* Who locks the user FOR UPDATE has locked the tenant FOR UPDATE before.  *)
LEMMA TenantBeforeUser ==
    ASSUME NEW kind \in Relaying \cup Foundation, NEW s \in Spaces, NEW k \in Keys,
           NEW l \in DOMAIN Plan[kind][s][k], Plan[kind][s][k][l].row = User,
           Plan[kind][s][k][l].mode = "update"
    PROVE  \E m \in Nat : /\ 1 <= m /\ m <= l
                         /\ Plan[kind][s][k][m].row = Tenant
                         /\ Plan[kind][s][k][m].mode = "update"
<1> DEFINE p == Plan[kind][s][k]
<1>1. p = Script(kind, s, k)
  BY DEF Plan, Kinds
<1>2. User[1] = "user"
  BY DEF User
<1>3. CASE kind = "publish"
  <2> DEFINE rows == <<Row("event", k), Tenant, Workspace, Policy, Principal,
                       Space(s), RelayGrant(s)>>
  <2>1. p = [i \in 1..7 |-> [row |-> rows[i], mode |-> "update"]]
    BY <1>1, <1>3 DEF Script, Publish, In
  <2>2. /\ l \in 1..7 /\ p[2] = [row |-> Tenant, mode |-> "update"]
        /\ p[1] = [row |-> Row("event", k), mode |-> "update"]
    BY <2>1
  <2>3. Row("event", k)[1] = "event"
    BY DEF Row
  <2>4. l # 1
    BY <1>2, <2>2, <2>3
  <2> HIDE DEF rows, p
  <2>5. 2 \in Nat /\ 1 <= 2 /\ 2 <= l /\ p[2].row = Tenant /\ p[2].mode = "update"
    BY <2>2, <2>4
  <2> QED
    BY <2>5 DEF p
<1>4. CASE kind = "worker"
  <2> DEFINE rows == <<Row("reference", k), Tenant, Workspace, Policy,
                       Row("worker", 0), User, Membership, Space(s),
                       UserGrant(s), Row("workerGrant", s)>>
  <2>1. p = [i \in 1..10 |-> [row |-> rows[i], mode |-> "update"]]
    BY <1>1, <1>4 DEF Script, WorkerRun, In
  <2>2. /\ l \in 1..10 /\ p[2] = [row |-> Tenant, mode |-> "update"]
        /\ p[1] = [row |-> Row("reference", k), mode |-> "update"]
    BY <2>1
  <2>3. Row("reference", k)[1] = "reference"
    BY DEF Row
  <2>4. l # 1
    BY <1>2, <2>2, <2>3
  <2> HIDE DEF rows, p
  <2>5. 2 \in Nat /\ 1 <= 2 /\ 2 <= l /\ p[2].row = Tenant /\ p[2].mode = "update"
    BY <2>2, <2>4
  <2> QED
    BY <2>5 DEF p
<1>5. CASE kind = "provision"
  <2> DEFINE rows == <<Workspace, Principal, Space(s), RelayGrant(s)>>
  <2>1. p = [i \in 1..4 |-> [row |-> rows[i], mode |-> "update"]]
    BY <1>1, <1>5 DEF Script, Provision, In
  <2>2. /\ rows[1][1] = "workspace" /\ rows[2][1] = "principal"
        /\ rows[3][1] = "space" /\ rows[4][1] = "relayGrant"
    BY DEF Workspace, Principal, Space, RelayGrant
  <2>3. l \in 1..4 /\ p[l].row = rows[l]
    BY <2>1
  <2> HIDE DEF rows, p
  <2>4. p[l].row[1] # "user"
    BY <2>2, <2>3
  <2> QED
    BY <1>2, <2>4 DEF p
<1>6. CASE kind = "relay"
  <2> DEFINE rows == <<Tenant, Workspace, Policy, Row("foundationRelay", 0),
                       Space(s), Row("foundationGrant", s)>>
  <2>1. p = [i \in 1..6 |-> [row |-> rows[i], mode |-> "share"]]
    BY <1>1, <1>6 DEF Script, RelayRun, In
  <2>2. p[l].mode = "share"
    BY <2>1
  <2> QED
    BY <2>2
<1>7. CASE kind = "proof"
  <2>1. p = ProofCreate(s, k)
    BY <1>1, <1>7 DEF Script
  <2>2. p[l].mode = "share"
    BY <2>1, ProofAscends
  <2> QED
    BY <2>2
<1> QED
  BY <1>3, <1>4, <1>5, <1>6, <1>7 DEF Relaying, Foundation

(* The lock lists of the ordered transactions ascend in the global order.  *)
LEMMA OrderedScriptsAscend ==
    ASSUME NEW kind \in Ordered, NEW s \in Spaces, NEW k \in Keys
    PROVE  Ascending(Plan[kind][s][k])
<1>1. kind \in Kinds
  BY DEF Ordered, Kinds, Relaying, Foundation
<1>2. Plan[kind][s][k] = Script(kind, s, k)
  BY <1>1 DEF Plan
<1>3. CASE kind = "publish"
  <2>1. Script(kind, s, k) = Publish(s, k)
    BY <1>3 DEF Script
  <2> QED
    BY <1>2, <2>1, PublishAscends
<1>4. CASE kind = "provision"
  <2>1. Script(kind, s, k) = Provision(s, k)
    BY <1>4 DEF Script
  <2> QED
    BY <1>2, <2>1, ProvisionAscends
<1>5. CASE kind = "worker"
  <2>1. Script(kind, s, k) = WorkerRun(s, k)
    BY <1>5 DEF Script
  <2> QED
    BY <1>2, <2>1, WorkerAscends
<1>6. CASE kind = "relay"
  <2>1. Script(kind, s, k) = RelayRun(s, k)
    BY <1>6 DEF Script
  <2> QED
    BY <1>2, <2>1, RelayAscends
<1> QED
  BY <1>3, <1>4, <1>5, <1>6 DEF Ordered

(* Every session runs transactions of the relays and of the foundation.    *)
OrderedCast == \A t \in Txns : cast[t] \subseteq Relaying \cup Foundation

(* A proof creation is never blocked at the user: whoever holds the user   *)
(* FOR UPDATE holds the tenant so too, and the proof holds it FOR SHARE.   *)
LEMMA ProofsPassTheUser ==
    ASSUME TypeOK, OrderedCast, Compatible, NEW u \in Txns, NEW v \in Txns,
           Blocks(v, u), job[u].kind = "proof"
    PROVE  held[u] + 1 # 5
<1> SUFFICES ASSUME held[u] + 1 = 5
             PROVE  FALSE
  OBVIOUS
<1>1. Open(u) /\ Open(v) /\ u # v /\ held[u] = 4 /\ held[v] \in Nat
  BY DEF Blocks, Wants, TypeOK
<1>2. /\ job[u].space \in Spaces /\ job[u].key \in Keys
      /\ job[v].space \in Spaces /\ job[v].key \in Keys /\ job[v].kind \in Relaying \cup Foundation
  BY <1>1 DEF TypeOK, OrderedCast, Open, Jobs
<1>3. Locks(u) = ProofCreate(job[u].space, job[u].key)
  BY <1>2 DEF Locks, Plan, Kinds, Foundation, Script
<1>4. /\ Locks(u)[5].row = User /\ Locks(u)[5].mode = "share"
      /\ Locks(u)[1].row = Tenant
  BY <1>2, <1>3, ProofAscends
<1>5. PICK l \in 1..held[v] : /\ Locks(v)[l].row = User
                              /\ Conflict(Locks(v)[l].mode, "share")
  BY <1>4 DEF Blocks, Wanted
<1>6. l \in DOMAIN Locks(v) /\ Locks(v)[l].mode = "update"
  BY <1>1, <1>5 DEF TypeOK, Conflict
<1>7. PICK m \in Nat : /\ 1 <= m /\ m <= l /\ Locks(v)[m].row = Tenant
                       /\ Locks(v)[m].mode = "update"
  BY <1>2, <1>5, <1>6, TenantBeforeUser DEF Locks
<1>8. m \in 1..held[v] /\ 1 \in 1..held[u]
  BY <1>1, <1>5, <1>7
<1>9. ~Conflict(Locks(u)[1].mode, Locks(v)[m].mode)
  BY <1>1, <1>4, <1>7, <1>8 DEF Compatible
<1> QED
  BY <1>7, <1>9 DEF Conflict

(* Of a circle of sessions, each waits for a later table than the one that *)
(* waits for it.                                                           *)
LEMMA BlockersWaitForLater ==
    ASSUME TypeOK, OrderedCast, Compatible, NEW t \in Txns, NEW u \in Txns, NEW v \in Txns,
           Blocks(u, t), Blocks(v, u)
    PROVE  /\ Rank(Wanted(t)) \in 0..9
           /\ Rank(Wanted(u)) \in 0..9
           /\ Rank(Wanted(t)) < Rank(Wanted(u))
<1>1. /\ Wants(u) /\ Open(u) /\ held[u] \in Nat /\ 1..held[u] \subseteq DOMAIN Locks(u)
      /\ held[u] + 1 \in DOMAIN Locks(u) /\ Wanted(u) = Locks(u)[held[u] + 1]
  BY DEF Blocks, Wants, Wanted, TypeOK
<1>2. /\ job[u].space \in Spaces /\ job[u].key \in Keys
      /\ job[u].kind \in Relaying \cup Foundation
  BY <1>1 DEF TypeOK, OrderedCast, Open, Jobs
<1>3. PICK i \in 1..held[u] : Locks(u)[i].row = Wanted(t).row
  BY DEF Blocks
<1>4. Rank(Locks(u)[i]) = Rank(Wanted(t)) /\ i \in DOMAIN Locks(u) /\ i < held[u] + 1
  BY <1>1, <1>3 DEF Rank
<1>5. CASE job[u].kind = "proof"
  <2>1. Locks(u) = ProofCreate(job[u].space, job[u].key)
    BY <1>2, <1>5 DEF Locks, Plan, Kinds, Foundation, Script
  <2>2. held[u] + 1 # 5
    BY <1>5, ProofsPassTheUser
  <2> QED
    BY <1>1, <1>2, <1>4, <2>1, <2>2, ProofAscends
<1>6. CASE job[u].kind \in Ordered
  <2>1. Ascending(Locks(u))
    BY <1>2, <1>6, OrderedScriptsAscend DEF Locks
  <2> QED
    BY <1>1, <1>4, <2>1 DEF Ascending
<1> QED
  BY <1>2, <1>5, <1>6 DEF Ordered, Relaying, Foundation

(* A set in which each waits for another would hold ever later tables.     *)
LEMMA OrderPreventsDeadlock ==
    ASSUME TypeOK, OrderedCast, Compatible
    PROVE  NoDeadlock
<1> SUFFICES ASSUME NEW D \in SUBSET {t \in Txns : Waiting(t)},
                    D # {},
                    \A t \in D : \E u \in D : Blocks(u, t)
             PROVE  FALSE
  BY DEF NoDeadlock
<1>1. \A t \in D : \E u \in D : /\ Rank(Wanted(t)) \in 0..9
                                /\ Rank(Wanted(u)) \in 0..9
                                /\ Rank(Wanted(t)) < Rank(Wanted(u))
  BY BlockersWaitForLater
<1> DEFINE Left == {9 - Rank(Wanted(t)) : t \in D}
<1>2. Left \subseteq Nat /\ Left # {}
  BY <1>1
<1>3. PICK x \in Left : \A y \in Left : x <= y
  BY <1>2, LeastNumber
<1>4. PICK t \in D : x = 9 - Rank(Wanted(t))
  BY <1>3
<1>5. PICK u \in D : /\ Rank(Wanted(t)) \in 0..9 /\ Rank(Wanted(u)) \in 0..9
                     /\ Rank(Wanted(t)) < Rank(Wanted(u))
  BY <1>1
<1>6. x <= 9 - Rank(Wanted(u))
  BY <1>3
<1> QED
  BY <1>4, <1>5, <1>6

----------------------------------------------------------------------------
(* The commands.  What a session waits for depends on the mode, so a lock  *)
(* has a tier by its table and mode.  Whoever is blocked by a lock that is *)
(* held waits for a tier that is no higher than Reach of it.               *)

(* Tables whose rows no command locks FOR UPDATE. *)
Shared == {"tenant", "workspace", "policy", "user", "membership", "userGrant",
           "subject", "activity"}

Tier(table, mode) ==
    CASE table = "space" -> IF mode = "update" THEN 1 ELSE 3
      [] table \in {"content", "relationship"} -> 1
      [] table \in {"content.revise", "relationship.end", "fact.supersede"} -> 2
      [] table \in {"organization.create", "initiative.create", "activity.create",
                    "relationship.create", "content.create", "source.capture",
                    "source.correct", "identity"} -> 4
      [] table \in {"objective.withdraw", "objective.rework", "fact.accept"} -> 5
      [] table = "source" -> IF mode = "update" THEN 6 ELSE 11
      [] table = "claim.create" -> 7
      [] table = "coordinate" -> 8
      [] table = "fact" -> 9
      [] table = "claim" -> 10
      [] table = "source.tombstone" -> 12
      [] table = "sourceTruth" -> 13
      [] table = "principal" -> 14
      [] table = "relayGrant" -> 15
      [] OTHER -> 0

Reach(table, mode) ==
    IF mode = "update" /\ table = "space" THEN 3
    ELSE IF mode = "update" /\ table = "source" THEN 11
    ELSE Tier(table, "update")

Elements(p) == {p[i] : i \in DOMAIN p}

(* Nobody else can hold such a row FOR UPDATE: no command does, or the     *)
(* session has a lock of the row already.                                  *)
Free(p, H, j) ==
    /\ p[j].mode # "update"
    /\ \/ p[j].row[1] \in Shared \/ p[j].row \in H
       \/ \E k \in 1 .. j - 1 : p[k].row = p[j].row

(* A part of a script that comes after locks of the rows H, whose reach is *)
(* at most lo: it never waits for a tier within the reach of what it holds. *)
Section(p, H, lo, hi) ==
    /\ p \in Seq(Elements(p))
    /\ \A j \in 1 .. Len(p) : Free(p, H, j) \/ lo < Tier(p[j].row[1], p[j].mode)
    /\ \A i \in 1 .. Len(p) : Reach(p[i].row[1], p[i].mode) <= hi
    /\ \A i, j \in 1 .. Len(p) :
          i < j => Free(p, H, j) \/ Reach(p[i].row[1], p[i].mode) < Tier(p[j].row[1], p[j].mode)

LEMMA TiersAreNumbers ==
    ASSUME NEW table, NEW mode
    PROVE  Tier(table, mode) \in 0 .. 15 /\ Reach(table, mode) \in 0 .. 15
BY DEF Tier, Reach

(* Whoever a held lock blocks waits for a tier within its reach.           *)
LEMMA ConflictsAreReached ==
    ASSUME NEW table, NEW m, NEW n, Conflict(m, n)
    PROVE  Tier(table, n) <= Reach(table, m)
<1>1. CASE table = "space" \/ table = "source"
  BY <1>1 DEF Conflict, Tier, Reach
<1>2. CASE table # "space" /\ table # "source"
  <2>1. Tier(table, n) = Tier(table, "update") /\ Reach(table, m) = Tier(table, "update")
    BY <1>2 DEF Tier, Reach
  <2>2. QED
    BY <2>1, TiersAreNumbers
<1>3. QED
  BY <1>1, <1>2

LEMMA ModesAre == "update" \in Modes /\ "share" \in Modes
BY DEF Modes

LEMMA KeyShareIsOne == "key share" \in Modes /\ "key share" # "update"
BY DEF Modes

LEMMA SequencesOfMore ==
    ASSUME NEW S, NEW p \in Seq(S)
    PROVE  p \in Seq(Elements(p)) /\ \A T : Elements(p) \subseteq T => p \in Seq(T)
<1> DEFINE n == Len(p)
<1>1. n \in Nat /\ p \in [1 .. n -> S]
  BY LenProperties
<1>2. p \in [1 .. n -> Elements(p)]
  BY <1>1 DEF Elements
<1>3. ASSUME NEW T, Elements(p) \subseteq T PROVE p \in Seq(T)
  <2>1. p \in [1 .. n -> T]
    BY <1>2, <1>3
  <2>2. QED
    BY <1>1, <2>1
<1>4. QED
  BY <1>3

(* A section that needs no more than the one before it has locked or       *)
(* reached continues it.                                                   *)
LEMMA SectionsJoin ==
    ASSUME NEW p, NEW q, NEW H, NEW G, NEW a \in Nat, NEW b \in Nat, NEW c \in Nat,
           a <= b, b <= c, Section(p, H, a, b), Section(q, G, b, c),
           \A r \in G : r \in H \/ \E k \in 1 .. Len(p) : p[k].row = r
    PROVE  Section(p \o q, H, a, c)
<1> DEFINE n == Len(p)
           m == Len(q)
           z == p \o q
           S == Elements(p) \cup Elements(q)
<1>1. p \in Seq(S) /\ q \in Seq(S) /\ n \in Nat /\ m \in Nat
  BY SequencesOfMore, LenProperties DEF Section
<1> HIDE DEF S
<1>2. /\ z \in Seq(Elements(z)) /\ Len(z) = n + m
      /\ \A i \in 1 .. n : z[i] = p[i]
      /\ \A i \in 1 .. m : z[n + i] = q[i]
  <2>1. /\ z \in Seq(S) /\ Len(z) = n + m
        /\ \A i \in 1 .. n : z[i] = p[i]
        /\ \A i \in 1 .. m : z[n + i] = q[i]
    BY <1>1, ConcatProperties
  <2> HIDE DEF z
  <2>2. QED
    BY <2>1, SequencesOfMore
<1> HIDE DEF z, n, m
<1>3. ASSUME NEW j \in 1 .. n, Free(p, H, j) PROVE Free(z, H, j)
  BY <1>1, <1>2, <1>3 DEF Free
<1>4. ASSUME NEW j \in 1 .. m, Free(q, G, j) PROVE Free(z, H, n + j)
  <2>1. z[n + j] = q[j] /\ q[j].mode # "update"
    BY <1>2, <1>4 DEF Free
  <2>2. CASE q[j].row[1] \in Shared \/ q[j].row \in H
    BY <2>1, <2>2 DEF Free
  <2>3. CASE \E k \in 1 .. j - 1 : q[k].row = q[j].row
    <3>1. PICK k \in 1 .. j - 1 : q[k].row = q[j].row
      BY <2>3
    <3>2. k \in 1 .. m /\ n + k \in 1 .. (n + j) - 1
      BY <1>1
    <3>3. z[n + k] = q[k]
      BY <1>2, <3>2
    <3>4. QED
      BY <2>1, <3>1, <3>2, <3>3 DEF Free
  <2>4. CASE \E k \in 1 .. n : p[k].row = q[j].row
    <3>1. PICK k \in 1 .. n : p[k].row = q[j].row
      BY <2>4
    <3>2. z[k] = p[k] /\ k \in 1 .. (n + j) - 1
      BY <1>1, <1>2
    <3>3. QED
      BY <2>1, <3>1, <3>2 DEF Free
  <2>5. q[j].row \in G => q[j].row \in H \/ \E k \in 1 .. n : p[k].row = q[j].row
    BY DEF n
  <2>6. QED
    BY <1>4, <2>2, <2>3, <2>4, <2>5 DEF Free
<1>5. ASSUME NEW i \in 1 .. n + m
      PROVE  \/ i \in 1 .. n /\ z[i] = p[i]
             \/ \E k \in 1 .. m : i = n + k /\ z[i] = q[k]
  <2>1. CASE i <= n
    BY <1>1, <1>2, <2>1
  <2>2. CASE n < i
    <3>1. PICK k \in 1 .. m : i = n + k
      <4>1. i - n \in 1 .. m /\ i = n + (i - n)
        BY <1>1, <2>2
      <4>2. QED
        BY <4>1
    <3>2. QED
      BY <1>2, <3>1
  <2>3. QED
    BY <1>1, <2>1, <2>2
<1>6. \A j \in 1 .. n :
         /\ Free(p, H, j) \/ a < Tier(p[j].row[1], p[j].mode)
         /\ Reach(p[j].row[1], p[j].mode) <= b
  BY DEF Section, n
<1>7. \A j \in 1 .. m :
         /\ Free(q, G, j) \/ b < Tier(q[j].row[1], q[j].mode)
         /\ Reach(q[j].row[1], q[j].mode) <= c
  BY DEF Section, m
<1>8. /\ \A i, j \in 1 .. n :
            i < j => Free(p, H, j) \/ Reach(p[i].row[1], p[i].mode) < Tier(p[j].row[1], p[j].mode)
      /\ \A i, j \in 1 .. m :
            i < j => Free(q, G, j) \/ Reach(q[i].row[1], q[i].mode) < Tier(q[j].row[1], q[j].mode)
  BY DEF Section, n, m
<1>9. ASSUME NEW j \in 1 .. n + m
      PROVE  /\ Free(z, H, j) \/ a < Tier(z[j].row[1], z[j].mode)
             /\ Reach(z[j].row[1], z[j].mode) <= c
  <2>1. CASE j \in 1 .. n /\ z[j] = p[j]
    <3>1. Reach(p[j].row[1], p[j].mode) <= b /\ Reach(p[j].row[1], p[j].mode) \in 0 .. 15
      BY <1>6, <2>1, TiersAreNumbers
    <3>2. QED
      BY <1>3, <1>6, <2>1, <3>1
  <2>2. ASSUME NEW k \in 1 .. m, j = n + k, z[j] = q[k]
        PROVE  /\ Free(z, H, j) \/ a < Tier(z[j].row[1], z[j].mode)
               /\ Reach(z[j].row[1], z[j].mode) <= c
    <3>1. Tier(q[k].row[1], q[k].mode) \in 0 .. 15
      BY TiersAreNumbers
    <3>2. QED
      BY <1>4, <1>7, <2>2, <3>1
  <2>3. QED
    BY <1>5, <2>1, <2>2
<1>10. ASSUME NEW i \in 1 .. n + m, NEW j \in 1 .. n + m, i < j
       PROVE  Free(z, H, j) \/ Reach(z[i].row[1], z[i].mode) < Tier(z[j].row[1], z[j].mode)
  <2>1. CASE j \in 1 .. n /\ z[j] = p[j]
    <3>1. i \in 1 .. n /\ z[i] = p[i]
      BY <1>1, <1>2, <1>10, <2>1
    <3>2. QED
      BY <1>3, <1>8, <1>10, <2>1, <3>1
  <2>2. ASSUME NEW k \in 1 .. m, j = n + k, z[j] = q[k]
        PROVE  Free(z, H, j) \/ Reach(z[i].row[1], z[i].mode) < Tier(z[j].row[1], z[j].mode)
    <3>1. CASE i \in 1 .. n /\ z[i] = p[i]
      <4>1. /\ Reach(p[i].row[1], p[i].mode) <= b /\ Reach(p[i].row[1], p[i].mode) \in 0 .. 15
            /\ Tier(q[k].row[1], q[k].mode) \in 0 .. 15
        BY <1>6, <3>1, TiersAreNumbers
      <4>2. Free(q, G, k) \/ b < Tier(q[k].row[1], q[k].mode)
        BY <1>7
      <4>3. b < Tier(q[k].row[1], q[k].mode) =>
                Reach(p[i].row[1], p[i].mode) < Tier(q[k].row[1], q[k].mode)
        <5>1. \A x, y \in 0 .. 15 : x <= b /\ b < y => x < y
          OBVIOUS
        <5>2. QED
          BY <4>1, <5>1
      <4>4. Free(q, G, k) => Free(z, H, j)
        BY <1>4, <2>2
      <4>5. QED
        BY <2>2, <3>1, <4>2, <4>3, <4>4
    <3>2. ASSUME NEW l \in 1 .. m, i = n + l, z[i] = q[l]
          PROVE  Free(z, H, j) \/ Reach(z[i].row[1], z[i].mode) < Tier(z[j].row[1], z[j].mode)
      <4>1. l < k
        BY <1>1, <1>10, <2>2, <3>2
      <4>2. QED
        BY <1>4, <1>8, <2>2, <3>2, <4>1
    <3>3. QED
      BY <1>5, <3>1, <3>2
  <2>3. QED
    BY <1>5, <2>1, <2>2
<1>11. Section(z, H, a, c)
  BY <1>2, <1>9, <1>10 DEF Section
<1>12. QED
  BY <1>11 DEF z

(* Locks that one statement takes, or several in the same mode. *)
Joinable(row, mode, H) == mode # "update" /\ (row[1] \in Shared \/ row \in H)

LEMMA RowsOfIn ==
    ASSUME NEW S, NEW rows \in Seq(S), NEW mode \in Modes
    PROVE  /\ In(mode, rows) \in Seq(Elements(In(mode, rows))) /\ Len(In(mode, rows)) = Len(rows)
           /\ \A i \in 1 .. Len(rows) : In(mode, rows)[i] = [row |-> rows[i], mode |-> mode]
<1> DEFINE n == Len(rows)
           p == [i \in 1 .. n |-> [row |-> rows[i], mode |-> mode]]
<1>1. n \in Nat /\ DOMAIN rows = 1 .. n
  BY LenProperties
<1>2. In(mode, rows) = p
  BY <1>1 DEF In
<1>3. p \in [1 .. n -> Elements(p)]
  BY DEF Elements
<1>4. p \in Seq(Elements(p)) /\ Len(p) = n
  BY <1>1, <1>3
<1>5. QED
  BY <1>2, <1>4

LEMMA InIsSection ==
    ASSUME NEW S, NEW rows \in Seq(S), NEW mode \in Modes, NEW H, NEW lo \in Nat, NEW hi \in Nat,
           \A i \in 1 .. Len(rows) :
              /\ Joinable(rows[i], mode, H) \/ lo < Tier(rows[i][1], mode)
              /\ Reach(rows[i][1], mode) <= hi,
           \A i, j \in 1 .. Len(rows) :
              i < j => Joinable(rows[j], mode, H) \/ Reach(rows[i][1], mode) < Tier(rows[j][1], mode)
    PROVE  Section(In(mode, rows), H, lo, hi)
<1> DEFINE p == In(mode, rows)
<1>1. /\ p \in Seq(Elements(p)) /\ Len(p) = Len(rows)
      /\ \A i \in 1 .. Len(rows) : p[i] = [row |-> rows[i], mode |-> mode]
  BY RowsOfIn
<1> HIDE DEF p
<1>2. ASSUME NEW i \in 1 .. Len(p) PROVE p[i].row = rows[i] /\ p[i].mode = mode
  <2>1. p[i] = [row |-> rows[i], mode |-> mode]
    BY <1>1
  <2>2. QED
    BY <2>1
<1>3. \A j \in 1 .. Len(p) : Joinable(rows[j], mode, H) => Free(p, H, j)
  BY <1>2 DEF Joinable, Free
<1>4. Section(p, H, lo, hi)
  BY <1>1, <1>2, <1>3 DEF Section
<1>5. QED
  BY <1>4 DEF p

LEMMA OneRow ==
    ASSUME NEW r, NEW mode \in Modes, NEW H, NEW lo \in Nat, NEW hi \in Nat,
           Joinable(r, mode, H) \/ lo < Tier(r[1], mode), Reach(r[1], mode) <= hi
    PROVE  Section(In(mode, <<r>>), H, lo, hi)
<1> DEFINE rows == <<r>>
<1>1. rows \in Seq({r}) /\ Len(rows) = 1 /\ rows[1] = r
  OBVIOUS
<1> HIDE DEF rows
<1>2. Section(In(mode, rows), H, lo, hi)
  BY <1>1, InIsSection
<1>3. QED
  BY <1>2 DEF rows

LEMMA TwoRows ==
    ASSUME NEW r, NEW t, NEW mode \in Modes, NEW H,
           NEW lo \in Nat, NEW hi \in Nat,
           Joinable(r, mode, H) \/ lo < Tier(r[1], mode), Reach(r[1], mode) <= hi,
           Joinable(t, mode, H) \/ lo < Tier(t[1], mode), Reach(t[1], mode) <= hi,
           Joinable(t, mode, H) \/ Reach(r[1], mode) < Tier(t[1], mode)
    PROVE  Section(In(mode, <<r, t>>), H, lo, hi)
<1> DEFINE rows == <<r, t>>
<1>1. rows \in Seq({r, t}) /\ Len(rows) = 2 /\ rows[1] = r /\ rows[2] = t
  OBVIOUS
<1> HIDE DEF rows
<1>2. \A i \in 1 .. Len(rows) : i = 1 \/ i = 2
  BY <1>1
<1>3. \A i, j \in 1 .. Len(rows) : i < j => i = 1 /\ j = 2
  BY <1>1, <1>2
<1>4. Section(In(mode, rows), H, lo, hi)
  BY <1>1, <1>2, <1>3, InIsSection
<1>5. QED
  BY <1>4 DEF rows

(* Rows that the session waits for nobody for. *)
LEMMA FreeRows ==
    ASSUME NEW S, NEW rows \in Seq(S), NEW mode \in Modes, NEW H, NEW lo \in Nat, NEW hi \in Nat,
           \A i \in 1 .. Len(rows) : Joinable(rows[i], mode, H) /\ Reach(rows[i][1], mode) <= hi
    PROVE  Section(In(mode, rows), H, lo, hi)
BY InIsSection

----------------------------------------------------------------------------
(* The parts the scripts of the commands are made of.                      *)

(* What never waits once the Space is held. *)
LEMMA SharedRows ==
    ASSUME NEW s \in Spaces, NEW mode, mode # "update", NEW H
    PROVE  /\ \A r \in {Workspace, Policy, User, Membership, UserGrant(s), Row("subject", s),
                        Row("activity", s)} : Joinable(r, mode, H) /\ Reach(r[1], mode) = 0
           /\ Space(s) \in H => Joinable(Space(s), mode, H)
           /\ Tier(Space(s)[1], mode) = 3 /\ Reach(Space(s)[1], mode) = 1
<1>1. /\ Workspace[1] = "workspace" /\ Policy[1] = "policy" /\ User[1] = "user"
      /\ Membership[1] = "membership" /\ UserGrant(s)[1] = "userGrant"
      /\ Row("subject", s)[1] = "subject" /\ Row("activity", s)[1] = "activity"
      /\ Space(s)[1] = "space"
  BY DEF Workspace, Policy, User, Membership, UserGrant, Row, Space
<1>2. \A table \in Shared : Reach(table, mode) = 0
  BY DEF Shared, Reach, Tier
<1>3. Tier("space", mode) = 3 /\ Reach("space", mode) = 1
  BY DEF Reach, Tier
<1>4. QED
  BY <1>1, <1>2, <1>3 DEF Joinable, Shared

(* Authority waits at most for the Space.                                  *)
LEMMA AuthoritySection ==
    ASSUME NEW s \in Spaces, NEW H, NEW lo \in Nat, lo < 3 \/ Space(s) \in H,
           NEW hi \in Nat, 1 <= hi
    PROVE  Section(Authority(s), H, lo, hi)
<1> DEFINE rows == <<Policy, Membership, User, Space(s), UserGrant(s)>>
<1>1. rows \in Seq({Policy, Membership, User, Space(s), UserGrant(s)})
  OBVIOUS
<1>2. /\ Len(rows) = 5 /\ rows[1] = Policy /\ rows[2] = Membership /\ rows[3] = User
      /\ rows[4] = Space(s) /\ rows[5] = UserGrant(s)
  OBVIOUS
<1> HIDE DEF rows
<1>3. \A i \in 1 .. Len(rows) : i = 4 \/ (Joinable(rows[i], "share", H) /\ Reach(rows[i][1], "share") = 0)
  <2>1. \A i \in 1 .. Len(rows) : i \in {1, 2, 3, 4, 5}
    BY <1>2
  <2>2. QED
    BY <1>2, <2>1, SharedRows
<1>4. /\ Joinable(rows[4], "share", H) \/ lo < Tier(rows[4][1], "share")
      /\ Reach(rows[4][1], "share") = 1 /\ Tier(rows[4][1], "share") = 3
  BY <1>2, SharedRows
<1>5. /\ \A i \in 1 .. Len(rows) :
            /\ Joinable(rows[i], "share", H) \/ lo < Tier(rows[i][1], "share")
            /\ Reach(rows[i][1], "share") <= hi
      /\ \A i, j \in 1 .. Len(rows) :
            i < j => Joinable(rows[j], "share", H) \/ Reach(rows[i][1], "share") < Tier(rows[j][1], "share")
  BY <1>3, <1>4
<1>6. Section(In("share", rows), H, lo, hi)
  BY <1>1, <1>5, InIsSection, ModesAre
<1>7. QED
  BY <1>6 DEF Authority, rows

(* The rows a command record refers to, of which only the Space may have   *)
(* to be waited for. *)
LEMMA RecordRows ==
    ASSUME NEW s \in Spaces, NEW mode \in Modes, mode # "update", NEW H, NEW lo \in Nat,
           Space(s) \in H \/ lo < 3, 1 <= lo
    PROVE  Section(In(mode, <<Workspace, Space(s), Membership, Policy>>), H, lo, lo)
<1> DEFINE rows == <<Workspace, Space(s), Membership, Policy>>
<1>1. rows \in Seq({Workspace, Space(s), Membership, Policy})
  OBVIOUS
<1>2. /\ Len(rows) = 4 /\ rows[1] = Workspace /\ rows[2] = Space(s)
      /\ rows[3] = Membership /\ rows[4] = Policy
  OBVIOUS
<1>3. /\ Joinable(rows[2], mode, H) \/ (lo < 3 /\ Tier(rows[2][1], mode) = 3)
      /\ Reach(rows[2][1], mode) = 1
  BY <1>2, SharedRows
<1> HIDE DEF rows
<1>4. \A i \in 1 .. Len(rows) :
         i = 2 \/ (Joinable(rows[i], mode, H) /\ Reach(rows[i][1], mode) = 0)
  <2>1. \A i \in 1 .. Len(rows) : i \in {1, 2, 3, 4}
    BY <1>2
  <2>2. QED
    BY <1>2, <2>1, SharedRows
<1>5. \A i \in 1 .. Len(rows) :
         /\ Joinable(rows[i], mode, H) \/ lo < Tier(rows[i][1], mode)
         /\ Reach(rows[i][1], mode) <= lo
  BY <1>3, <1>4
<1>6. \A i, j \in 1 .. Len(rows) :
         i < j => Joinable(rows[j], mode, H) \/ Reach(rows[i][1], mode) < Tier(rows[j][1], mode)
  BY <1>3, <1>4
<1>7. Section(In(mode, rows), H, lo, lo)
  BY <1>1, <1>5, <1>6, InIsSection
<1>8. QED
  BY <1>7 DEF rows

(* The reservation of a command, at the tier of its kind.                  *)
LEMMA ReserveSection ==
    ASSUME NEW kind \in Commands, NEW s \in Spaces, NEW k \in Keys, NEW H, NEW lo \in Nat,
           NEW t \in Nat, t = Tier(kind, "update"), lo < t, Space(s) \in H \/ t < 3
    PROVE  Section(Reserve(kind, k, s), H, lo, t)
<1> DEFINE key == <<kind, k>>
           a == In("update", <<key>>)
           b == In("key share", <<Workspace, Space(s), Membership, Policy>>)
<1>1. Reach(kind, "update") = t /\ key[1] = kind /\ 1 <= t
  BY DEF Commands, Reach
<1> HIDE DEF key
<1>2. lo < Tier(key[1], "update") /\ Reach(key[1], "update") <= t /\ lo <= t /\ t <= t
  BY <1>1
<1>3. Section(a, H, lo, t)
  BY <1>2, OneRow, ModesAre
<1>4. Section(b, H, t, t)
  BY <1>1, RecordRows, KeyShareIsOne
<1> HIDE DEF a, b
<1>5. \A r \in H : r \in H \/ \E i \in 1 .. Len(a) : a[i].row = r
  OBVIOUS
<1>6. Section(a \o b, H, lo, t)
  BY <1>2, <1>3, <1>4, <1>5, SectionsJoin
<1>7. QED
  BY <1>6 DEF Reserve, a, b, key

(* The end of a command: its messages. *)
LEMMA AnnounceSections ==
    ASSUME NEW s \in Spaces, NEW H, NEW lo \in Nat, lo < 14, NEW hi \in Nat, hi = 15
    PROVE  Section(Announce(s), H, lo, hi) /\ Section(AnnounceTruth(s), H, lo, hi)
<1>1. ASSUME NEW mode \in Modes
      PROVE  Section(In(mode, <<Principal, RelayGrant(s)>>), H, lo, hi)
  <2> DEFINE r == Principal
             t == RelayGrant(s)
  <2>1. r[1] = "principal" /\ t[1] = "relayGrant"
    BY DEF Principal, RelayGrant
  <2>2. /\ Tier("principal", mode) = 14 /\ Reach("principal", mode) = 14
        /\ Tier("relayGrant", mode) = 15 /\ Reach("relayGrant", mode) = 15
    BY DEF Tier, Reach
  <2> HIDE DEF r, t
  <2>3. /\ lo < Tier(r[1], mode) /\ Reach(r[1], mode) <= hi /\ lo < Tier(t[1], mode)
        /\ Reach(t[1], mode) <= hi /\ Reach(r[1], mode) < Tier(t[1], mode)
    BY <2>1, <2>2
  <2>4. Section(In(mode, <<r, t>>), H, lo, hi)
    BY <2>3, TwoRows
  <2>5. QED
    BY <2>4 DEF r, t
<1>2. QED
  BY <1>1, ModesAre DEF Announce, AnnounceTruth

LEMMA EvidenceSection ==
    ASSUME NEW s \in Spaces, NEW H, NEW lo \in Nat, lo < 11 \/ Row("source", s) \in H,
           6 <= lo, lo < 13, NEW hi \in Nat, hi = 13
    PROVE  Section(Evidence(s), H, lo, hi)
<1> DEFINE r == Row("source", s)
           t == Row("sourceTruth", s)
           a == In("share", <<r>>)
           b == In("update", <<t>>)
<1>1. r[1] = "source" /\ t[1] = "sourceTruth"
  BY DEF Row
<1>2. /\ Tier("source", "share") = 11 /\ Reach("source", "share") = 6
      /\ Tier("sourceTruth", "update") = 13 /\ Reach("sourceTruth", "update") = 13
  BY DEF Tier, Reach
<1> HIDE DEF r, t
<1>3. /\ Joinable(r, "share", H) \/ lo < Tier(r[1], "share")
      /\ Reach(r[1], "share") <= lo
  BY <1>1, <1>2 DEF Joinable, r
<1>4. lo < Tier(t[1], "update") /\ Reach(t[1], "update") <= hi /\ lo <= hi
  BY <1>1, <1>2
<1>5. Section(a, H, lo, lo)
  BY <1>3, OneRow, ModesAre
<1>6. Section(b, H, lo, hi)
  BY <1>4, OneRow, ModesAre
<1> HIDE DEF a, b
<1>7. \A q \in H : q \in H \/ \E i \in 1 .. Len(a) : a[i].row = q
  OBVIOUS
<1>8. Section(a \o b, H, lo, hi)
  BY <1>4, <1>5, <1>6, <1>7, SectionsJoin
<1>9. QED
  BY <1>8 DEF Evidence, a, b, r, t

----------------------------------------------------------------------------
(* Scripts are put together part by part.                                  *)

(* What a script has locked so far. *)
Took(p, r) == \E k \in 1 .. Len(p) : p[k].row = r

Start(p, T, hi) == Section(p, {}, 0, hi) /\ \A r \in T : Took(p, r)

(* A script goes on with a section whose rows H it has locked already.     *)
LEMMA StartsGoOn ==
    ASSUME NEW p, NEW q, NEW T, NEW G, NEW b \in Nat, NEW c \in Nat, b <= c,
           Start(p, T, b), Section(q, G, b, c), G \subseteq T
    PROVE  /\ Start(p \o q, T, c)
           /\ \A r : Took(q, r) => Start(p \o q, T \cup {r}, c)
<1> DEFINE S == Elements(p) \cup Elements(q)
           z == p \o q
           n == Len(p)
           m == Len(q)
<1>1. p \in Seq(S) /\ q \in Seq(S) /\ n \in Nat /\ m \in Nat
  BY SequencesOfMore, LenProperties DEF Section, Start
<1> HIDE DEF S
<1>2. /\ Len(z) = n + m /\ \A i \in 1 .. n : z[i] = p[i]
      /\ \A i \in 1 .. m : z[n + i] = q[i]
  BY <1>1, ConcatProperties
<1> HIDE DEF z, n, m
<1>3. ASSUME NEW r, Took(p, r) PROVE Took(z, r)
  <2>1. PICK k \in 1 .. n : p[k].row = r
    BY <1>3 DEF Took, n
  <2>2. k \in 1 .. n + m /\ z[k].row = r
    BY <1>1, <1>2, <2>1
  <2>3. QED
    BY <1>2, <2>2 DEF Took
<1>4. ASSUME NEW r, Took(q, r) PROVE Took(z, r)
  <2>1. PICK k \in 1 .. m : q[k].row = r
    BY <1>4 DEF Took, m
  <2>2. n + k \in 1 .. n + m /\ z[n + k].row = r
    BY <1>1, <1>2, <2>1
  <2>3. QED
    BY <1>2, <2>2 DEF Took
<1>5. Section(z, {}, 0, c)
  <2>1. PICK a \in Nat : a = 0
    OBVIOUS
  <2>2. Section(p, {}, a, b) /\ a <= b
    BY <2>1 DEF Start
  <2>3. \A r \in G : r \in {} \/ \E k \in 1 .. Len(p) : p[k].row = r
    BY DEF Start, Took
  <2>4. Section(z, {}, a, c)
    BY <2>2, <2>3, SectionsJoin DEF z
  <2>5. QED
    BY <2>1, <2>4
<1>6. QED
  BY <1>3, <1>4, <1>5 DEF Start, z

LEMMA RowsAreTaken ==
    ASSUME NEW r, NEW t, NEW mode \in Modes
    PROVE  /\ Took(In(mode, <<r>>), r)
           /\ Took(In(mode, <<r, t>>), r) /\ Took(In(mode, <<r, t>>), t)
<1> DEFINE one == <<r>>
           two == <<r, t>>
<1>1. /\ one \in Seq({r, t}) /\ Len(one) = 1 /\ one[1] = r
      /\ two \in Seq({r, t}) /\ Len(two) = 2 /\ two[1] = r /\ two[2] = t
  OBVIOUS
<1> HIDE DEF one, two
<1>2. /\ Len(In(mode, one)) = 1 /\ In(mode, one)[1] = [row |-> r, mode |-> mode]
      /\ Len(In(mode, two)) = 2 /\ In(mode, two)[1] = [row |-> r, mode |-> mode]
      /\ In(mode, two)[2] = [row |-> t, mode |-> mode]
  BY <1>1, RowsOfIn
<1>3. Took(In(mode, one), r) /\ Took(In(mode, two), r) /\ Took(In(mode, two), t)
  BY <1>2 DEF Took
<1>4. QED
  BY <1>3 DEF one, two

LEMMA AuthorityTakes ==
    ASSUME NEW s \in Spaces
    PROVE  Took(Authority(s), Space(s))
<1> DEFINE rows == <<Policy, Membership, User, Space(s), UserGrant(s)>>
<1>1. /\ rows \in Seq({Policy, Membership, User, Space(s), UserGrant(s)})
      /\ Len(rows) = 5 /\ rows[4] = Space(s)
  OBVIOUS
<1> HIDE DEF rows
<1>2. Len(In("share", rows)) = 5 /\ In("share", rows)[4] = [row |-> Space(s), mode |-> "share"]
  BY <1>1, RowsOfIn, ModesAre
<1>3. Took(In("share", rows), Space(s))
  BY <1>2 DEF Took
<1>4. QED
  BY <1>3 DEF Authority, rows

LEMMA FirstSection ==
    ASSUME NEW p, NEW hi, NEW a \in Nat, a = 0, Section(p, {}, a, hi)
    PROVE  Start(p, {}, hi) /\ \A r : Took(p, r) => Start(p, {r}, hi)
BY DEF Start

LEMMA FreeSections ==
    ASSUME NEW s \in Spaces, NEW H, NEW lo \in Nat
    PROVE  /\ \A r \in {Workspace, Row("subject", s), Row("activity", s)} :
                  Section(In("share", <<r>>), H, lo, lo)
           /\ Section(In("share", <<Row("activity", s), Workspace>>), H, lo, lo)
           /\ Section(In("share", <<Policy, Membership, User>>), H, lo, lo)
<1> DEFINE F == {Workspace, Policy, User, Membership, Row("subject", s), Row("activity", s)}
<1>1. \A r \in F : Joinable(r, "share", H) /\ Reach(r[1], "share") = 0
  BY SharedRows
<1>2. \A r \in F : Joinable(r, "share", H) /\ Reach(r[1], "share") <= lo
  BY <1>1
<1>3. /\ {Workspace, Row("subject", s), Row("activity", s)} \subseteq F
      /\ Policy \in F /\ Membership \in F /\ User \in F
  OBVIOUS
<1> DEFINE three == <<Policy, Membership, User>>
<1>4. /\ three \in Seq({Policy, Membership, User}) /\ Len(three) = 3
      /\ three[1] \in F /\ three[2] \in F /\ three[3] \in F
  BY <1>3
<1> HIDE DEF F, three
<1>5. \A i \in 1 .. Len(three) : three[i] \in F
  <2>1. \A i \in 1 .. Len(three) : i \in {1, 2, 3}
    BY <1>4
  <2>2. QED
    BY <1>4, <2>1
<1>6. Section(In("share", three), H, lo, lo)
  BY <1>2, <1>4, <1>5, FreeRows, ModesAre
<1>7. QED
  BY <1>2, <1>3, <1>6, OneRow, TwoRows, ModesAre DEF three

LEMMA TiersOfKinds ==
    /\ \A kind \in {"content.revise", "relationship.end", "fact.supersede"} :
          kind \in Commands /\ Tier(kind, "update") = 2
    /\ \A kind \in {"organization.create", "initiative.create", "activity.create",
                    "relationship.create", "content.create", "source.capture",
                    "source.correct"} : kind \in Commands /\ Tier(kind, "update") = 4
    /\ \A kind \in {"objective.withdraw", "objective.rework", "fact.accept"} :
          kind \in Commands /\ Tier(kind, "update") = 5
    /\ "claim.create" \in Commands /\ Tier("claim.create", "update") = 7
    /\ "source.tombstone" \in Commands /\ Tier("source.tombstone", "update") = 12
BY DEF Commands, Tier

(* The rows a session may have to wait for, by where they come in a script. *)
LEMMA RowSections ==
    /\ \A s \in Spaces, lo, hi \in Nat : \A H : lo < 1 /\ 3 <= hi =>
          Section(In("update", <<Space(s)>>), H, lo, hi)
    /\ \A s \in Spaces, lo, hi \in Nat : \A H : lo < 1 /\ 1 <= hi =>
          Section(In("update", <<Row("content", s)>>), H, lo, hi)
    /\ \A s \in Spaces, lo, hi \in Nat : \A H : lo < 1 /\ 1 <= hi =>
          Section(In("update", <<Row("relationship", s)>>), H, lo, hi)
    /\ \A s \in Spaces, lo, hi \in Nat : \A H : lo < 6 /\ 11 <= hi =>
          Section(In("update", <<Row("source", s)>>), H, lo, hi)
    /\ \A s \in Spaces, lo, hi \in Nat : \A H : lo < 11 /\ 6 <= hi =>
          Section(In("share", <<Row("source", s)>>), H, lo, hi)
    /\ \A s \in Spaces, lo, hi \in Nat : \A H : lo < 8 /\ 8 <= hi =>
          Section(In("update", <<Row("coordinate", s)>>), H, lo, hi)
    /\ \A s \in Spaces, lo, hi \in Nat : \A H : lo < 10 /\ 10 <= hi =>
          Section(In("update", <<Row("claim", s)>>), H, lo, hi)
    /\ \A s \in Spaces, lo, hi \in Nat : \A H : lo < 13 /\ 13 <= hi =>
          Section(In("update", <<Row("sourceTruth", s)>>), H, lo, hi)
    /\ \A lo, hi \in Nat : \A H : lo < 14 /\ 14 <= hi =>
          Section(In("update", <<Principal>>), H, lo, hi)
<1>1. ASSUME NEW r, NEW mode \in Modes, NEW H, NEW lo \in Nat, NEW hi \in Nat,
             lo < Tier(r[1], mode), Reach(r[1], mode) <= hi
      PROVE  Section(In(mode, <<r>>), H, lo, hi)
  BY <1>1, OneRow
<1>2. /\ Tier("space", "update") = 1 /\ Reach("space", "update") = 3
      /\ Tier("content", "update") = 1 /\ Reach("content", "update") = 1
      /\ Tier("relationship", "update") = 1 /\ Reach("relationship", "update") = 1
      /\ Tier("source", "update") = 6 /\ Reach("source", "update") = 11
      /\ Tier("source", "share") = 11 /\ Reach("source", "share") = 6
      /\ Tier("coordinate", "update") = 8 /\ Reach("coordinate", "update") = 8
      /\ Tier("claim", "update") = 10 /\ Reach("claim", "update") = 10
      /\ Tier("sourceTruth", "update") = 13 /\ Reach("sourceTruth", "update") = 13
      /\ Tier("principal", "update") = 14 /\ Reach("principal", "update") = 14
  BY DEF Tier, Reach
<1>3. /\ Principal[1] = "principal" /\ \A s : Space(s)[1] = "space"
      /\ \A table, s : Row(table, s)[1] = table
  BY DEF Space, Principal, Row
<1>4. QED
  BY <1>1, <1>2, <1>3, ModesAre

LEMMA IdentitySection ==
    ASSUME NEW k \in Keys, NEW H, NEW lo \in Nat, NEW hi \in Nat, lo < 4, 4 <= hi
    PROVE  Section(In("update", << <<"identity", k>> >>), H, lo, hi)
<1> DEFINE r == <<"identity", k>>
<1>1. r[1] = "identity" /\ Tier("identity", "update") = 4 /\ Reach("identity", "update") = 4
  BY DEF Tier, Reach
<1> HIDE DEF r
<1>2. lo < Tier(r[1], "update") /\ Reach(r[1], "update") <= hi
  BY <1>1
<1>3. Section(In("update", <<r>>), H, lo, hi)
  BY <1>2, OneRow, ModesAre
<1>4. QED
  BY <1>3 DEF r

LEMMA PairSections ==
    /\ \A s \in Spaces, lo, hi \in Nat : \A H : lo < 3 /\ 1 <= hi =>
          Section(In("share", <<Row("subject", s), Space(s)>>), H, lo, hi)
    /\ \A s \in Spaces, lo, hi \in Nat : \A H : lo < 8 /\ 10 <= hi =>
          Section(In("update", <<Row("coordinate", s), Row("claim", s)>>), H, lo, hi)
    /\ \A s \in Spaces, lo, hi \in Nat : \A H : lo < 8 /\ 9 <= hi =>
          Section(In("update", <<Row("coordinate", s), Row("fact", s)>>), H, lo, hi)
    /\ \A s \in Spaces, lo, hi \in Nat : \A H : lo < 11 /\ 6 <= hi =>
          Section(In("share", <<Row("source", s), Row("activity", s)>>), H, lo, hi)
<1> SUFFICES ASSUME NEW s \in Spaces, NEW lo \in Nat, NEW hi \in Nat, NEW H
             PROVE  /\ lo < 3 /\ 1 <= hi =>
                           Section(In("share", <<Row("subject", s), Space(s)>>), H, lo, hi)
                    /\ lo < 8 /\ 10 <= hi =>
                           Section(In("update", <<Row("coordinate", s), Row("claim", s)>>), H, lo, hi)
                    /\ lo < 8 /\ 9 <= hi =>
                           Section(In("update", <<Row("coordinate", s), Row("fact", s)>>), H, lo, hi)
                    /\ lo < 11 /\ 6 <= hi =>
                           Section(In("share", <<Row("source", s), Row("activity", s)>>), H, lo, hi)
  OBVIOUS
<1>1. /\ Tier("coordinate", "update") = 8 /\ Reach("coordinate", "update") = 8
      /\ Tier("claim", "update") = 10 /\ Reach("claim", "update") = 10
      /\ Tier("fact", "update") = 9 /\ Reach("fact", "update") = 9
      /\ Tier("source", "share") = 11 /\ Reach("source", "share") = 6
  BY DEF Tier, Reach
<1>2. \A table : Row(table, s)[1] = table
  BY DEF Row
<1>3. lo < 3 /\ 1 <= hi => Section(In("share", <<Row("subject", s), Space(s)>>), H, lo, hi)
  <2> DEFINE r == Row("subject", s)
             t == Space(s)
  <2>1. /\ Joinable(r, "share", H) /\ Reach(r[1], "share") = 0
        /\ Tier(t[1], "share") = 3 /\ Reach(t[1], "share") = 1
    BY SharedRows
  <2> HIDE DEF r, t
  <2>2. lo < 3 /\ 1 <= hi => Section(In("share", <<r, t>>), H, lo, hi)
    BY <2>1, TwoRows, ModesAre
  <2>3. QED
    BY <2>2 DEF r, t
<1>4. ASSUME NEW r, NEW t, NEW mode \in Modes, lo < Tier(r[1], mode), Reach(r[1], mode) <= hi,
             lo < Tier(t[1], mode), Reach(t[1], mode) <= hi, Reach(r[1], mode) < Tier(t[1], mode)
      PROVE  Section(In(mode, <<r, t>>), H, lo, hi)
  BY <1>4, TwoRows
<1>5. lo < 8 /\ 10 <= hi =>
          Section(In("update", <<Row("coordinate", s), Row("claim", s)>>), H, lo, hi)
  BY <1>1, <1>2, <1>4, ModesAre
<1>6. lo < 8 /\ 9 <= hi =>
          Section(In("update", <<Row("coordinate", s), Row("fact", s)>>), H, lo, hi)
  BY <1>1, <1>2, <1>4, ModesAre
<1>7. lo < 11 /\ 6 <= hi =>
          Section(In("share", <<Row("source", s), Row("activity", s)>>), H, lo, hi)
  <2> DEFINE r == Row("source", s)
             t == Row("activity", s)
  <2>1. /\ Joinable(t, "share", H) /\ Reach(t[1], "share") = 0
        /\ Tier(r[1], "share") = 11 /\ Reach(r[1], "share") = 6
    BY <1>1, <1>2, SharedRows
  <2> HIDE DEF r, t
  <2>2. lo < 11 /\ 6 <= hi => Section(In("share", <<r, t>>), H, lo, hi)
    BY <2>1, TwoRows, ModesAre
  <2>3. QED
    BY <2>2 DEF r, t
<1>8. QED
  BY <1>3, <1>5, <1>6, <1>7

LEMMA ReserveTakes ==
    ASSUME NEW kind, NEW s \in Spaces, NEW k
    PROVE  Took(Reserve(kind, k, s), Space(s))
<1> DEFINE rows == <<Workspace, Space(s), Membership, Policy>>
           key == << <<kind, k>> >>
           a == In("update", key)
<1>1. /\ rows \in Seq({Workspace, Space(s), Membership, Policy})
      /\ Len(rows) = 4 /\ rows[2] = Space(s)
      /\ key \in Seq({<<kind, k>>}) /\ Len(key) = 1
  OBVIOUS
<1> HIDE DEF rows, key
<1>2. a \in Seq(Elements(a)) /\ Len(a) = 1
  BY <1>1, RowsOfIn, ModesAre
<1> HIDE DEF a
<1>3. ASSUME NEW mode \in Modes PROVE Took(a \o In(mode, rows), Space(s))
  <2> DEFINE b == In(mode, rows)
             z == a \o b
             S == Elements(a) \cup Elements(b)
  <2>1. b \in Seq(Elements(b)) /\ Len(b) = 4 /\ b[2] = [row |-> Space(s), mode |-> mode]
    BY <1>1, RowsOfIn
  <2> HIDE DEF b
  <2>2. a \in Seq(S) /\ b \in Seq(S)
    BY <1>2, <2>1, SequencesOfMore
  <2> HIDE DEF S
  <2>3. Len(z) = 5 /\ \A i \in 1 .. 4 : z[1 + i] = b[i]
    <3>1. Len(z) = Len(a) + Len(b) /\ \A i \in 1 .. Len(b) : z[Len(a) + i] = b[i]
      BY <2>2, ConcatProperties
    <3> HIDE DEF z
    <3>2. QED
      BY <1>2, <2>1, <3>1
  <2> HIDE DEF z
  <2>4. Len(z) = 5 /\ z[3].row = Space(s)
    <3>1. 2 \in 1 .. 4 /\ 1 + 2 = 3
      OBVIOUS
    <3>2. z[3] = b[2]
      BY <2>3, <3>1
    <3>3. QED
      BY <2>1, <2>3, <3>2
  <2>5. Took(z, Space(s))
    BY <2>4 DEF Took
  <2>6. QED
    BY <2>5 DEF z, b
<1>4. QED
  BY <1>3, KeyShareIsOne DEF Reserve, a, key, rows

Orderly(p) == \E hi \in Nat : Section(p, {}, 0, hi)

LEMMA StartsAreOrderly ==
    ASSUME NEW p, NEW T, NEW hi \in Nat, Start(p, T, hi)
    PROVE  Orderly(p)
BY DEF Start, Orderly

----------------------------------------------------------------------------
(* The scripts of the commands, each from the tiers its parts reach.       *)

LEMMA OrganizationIsOrderly ==
    ASSUME NEW s \in Spaces, NEW k \in Keys
    PROVE  Orderly(OrganizationCreate(s, k))
<1> DEFINE a == In("share", <<Workspace>>)
           b == In("update", <<Space(s)>>)
           c == Reserve("organization.create", k, s)
           d == In("update", <<Principal>>)
<1>1. \A H : Section(a, H, 0, 0)
  BY FreeSections
<1>2. (\A H : Section(b, H, 0, 3)) /\ Took(b, Space(s))
  <2>1. \A H : Section(b, H, 0, 3)
    BY RowSections
  <2>2. Took(b, Space(s))
    BY RowsAreTaken, ModesAre
  <2>3. QED
    BY <2>1, <2>2
<1>3. Section(c, {Space(s)}, 3, 4)
  BY ReserveSection, TiersOfKinds
<1>4. \A H : Section(d, H, 4, 14)
  BY RowSections
<1> HIDE DEF a, b, c, d
<1>5. Start(a, {}, 0)
  BY <1>1, FirstSection
<1>6. Start(a \o b, {Space(s)}, 3)
  BY <1>2, <1>5, StartsGoOn
<1>7. Start(a \o b \o c, {Space(s)}, 4)
  BY <1>3, <1>6, StartsGoOn
<1>8. Start(a \o b \o c \o d, {Space(s)}, 14)
  BY <1>4, <1>7, StartsGoOn
<1>9. QED
  BY <1>8, StartsAreOrderly DEF OrganizationCreate, a, b, c, d

LEMMA InitiativeIsOrderly ==
    ASSUME NEW s \in Spaces, NEW k \in Keys
    PROVE  Orderly(InitiativeCreate(s, k))
<1> DEFINE a == In("update", <<Space(s)>>)
           b == In("share", <<Workspace>>)
           c == Reserve("initiative.create", k, s)
           d == In("update", <<Principal>>)
<1>1. (\A H : Section(a, H, 0, 3)) /\ Took(a, Space(s))
  <2>1. \A H : Section(a, H, 0, 3)
    BY RowSections
  <2>2. Took(a, Space(s))
    BY RowsAreTaken, ModesAre
  <2>3. QED
    BY <2>1, <2>2
<1>2. \A H : Section(b, H, 3, 3)
  BY FreeSections
<1>3. Section(c, {Space(s)}, 3, 4)
  BY ReserveSection, TiersOfKinds
<1>4. \A H : Section(d, H, 4, 14)
  BY RowSections
<1> HIDE DEF a, b, c, d
<1>5. Start(a, {Space(s)}, 3)
  BY <1>1, FirstSection
<1>6. Start(a \o b, {Space(s)}, 3)
  BY <1>2, <1>5, StartsGoOn
<1>7. Start(a \o b \o c, {Space(s)}, 4)
  BY <1>3, <1>6, StartsGoOn
<1>8. Start(a \o b \o c \o d, {Space(s)}, 14)
  BY <1>4, <1>7, StartsGoOn
<1>9. QED
  BY <1>8, StartsAreOrderly DEF InitiativeCreate, a, b, c, d

LEMMA ActivityIsOrderly ==
    ASSUME NEW s \in Spaces, NEW k \in Keys
    PROVE  Orderly(ActivityCreate(s, k))
<1> DEFINE a == In("update", <<Space(s)>>)
           b == In("share", <<Workspace>>)
           c == Reserve("activity.create", k, s)
           d == Announce(s)
<1>1. (\A H : Section(a, H, 0, 3)) /\ Took(a, Space(s))
  <2>1. \A H : Section(a, H, 0, 3)
    BY RowSections
  <2>2. Took(a, Space(s))
    BY RowsAreTaken, ModesAre
  <2>3. QED
    BY <2>1, <2>2
<1>2. \A H : Section(b, H, 3, 3)
  BY FreeSections
<1>3. Section(c, {Space(s)}, 3, 4)
  BY ReserveSection, TiersOfKinds
<1>4. \A H : Section(d, H, 4, 15)
  BY AnnounceSections
<1> HIDE DEF a, b, c, d
<1>5. Start(a, {Space(s)}, 3)
  BY <1>1, FirstSection
<1>6. Start(a \o b, {Space(s)}, 3)
  BY <1>2, <1>5, StartsGoOn
<1>7. Start(a \o b \o c, {Space(s)}, 4)
  BY <1>3, <1>6, StartsGoOn
<1>8. Start(a \o b \o c \o d, {Space(s)}, 15)
  BY <1>4, <1>7, StartsGoOn
<1>9. QED
  BY <1>8, StartsAreOrderly DEF ActivityCreate, a, b, c, d

LEMMA SpaceCreateIsOrderly ==
    ASSUME NEW s \in Spaces, NEW k \in Keys,
           NEW kind \in {"relationship.create", "content.create"}
    PROVE  Orderly(SpaceCreate(kind, s, k))
<1> DEFINE a == In("update", <<Space(s)>>)
           b == Reserve(kind, k, s)
           c == Announce(s)
<1>1. (\A H : Section(a, H, 0, 3)) /\ Took(a, Space(s))
  <2>1. \A H : Section(a, H, 0, 3)
    BY RowSections
  <2>2. Took(a, Space(s))
    BY RowsAreTaken, ModesAre
  <2>3. QED
    BY <2>1, <2>2
<1>2. Section(b, {Space(s)}, 3, 4)
  BY ReserveSection, TiersOfKinds
<1>3. \A H : Section(c, H, 4, 15)
  BY AnnounceSections
<1> HIDE DEF a, b, c
<1>4. Start(a, {Space(s)}, 3)
  BY <1>1, FirstSection
<1>5. Start(a \o b, {Space(s)}, 4)
  BY <1>2, <1>4, StartsGoOn
<1>6. Start(a \o b \o c, {Space(s)}, 15)
  BY <1>3, <1>5, StartsGoOn
<1>7. QED
  BY <1>6, StartsAreOrderly DEF SpaceCreate, a, b, c

LEMMA ContentReviseIsOrderly ==
    ASSUME NEW s \in Spaces, NEW k \in Keys
    PROVE  Orderly(ContentRevise(s, k))
<1> DEFINE a == In("update", <<Row("content", s)>>)
           b == Reserve("content.revise", k, s)
           c == Announce(s)
<1>1. \A H : Section(a, H, 0, 1)
  BY RowSections
<1>2. \A H : Section(b, H, 1, 2)
  BY ReserveSection, TiersOfKinds
<1>3. \A H : Section(c, H, 2, 15)
  BY AnnounceSections
<1> HIDE DEF a, b, c
<1>4. Start(a, {}, 1)
  BY <1>1, FirstSection
<1>5. Start(a \o b, {}, 2)
  BY <1>2, <1>4, StartsGoOn
<1>6. Start(a \o b \o c, {}, 15)
  BY <1>3, <1>5, StartsGoOn
<1>7. QED
  BY <1>6, StartsAreOrderly DEF ContentRevise, a, b, c

LEMMA CaptureIsOrderly ==
    ASSUME NEW s \in Spaces, NEW k \in Keys
    PROVE  Orderly(SourceCapture(s, k))
<1> DEFINE a == In("share", <<Row("activity", s), Workspace>>)
           b == Authority(s)
           c == Reserve("source.capture", k, s)
           d == Announce(s)
<1>1. \A H : Section(a, H, 0, 0)
  BY FreeSections
<1>2. (\A H : Section(b, H, 0, 1)) /\ Took(b, Space(s))
  BY AuthoritySection, AuthorityTakes
<1>3. Section(c, {Space(s)}, 1, 4)
  BY ReserveSection, TiersOfKinds
<1>4. \A H : Section(d, H, 4, 15)
  BY AnnounceSections
<1> HIDE DEF a, b, c, d
<1>5. Start(a, {}, 0)
  BY <1>1, FirstSection
<1>6. Start(a \o b, {Space(s)}, 1)
  BY <1>2, <1>5, StartsGoOn
<1>7. Start(a \o b \o c, {Space(s)}, 4)
  BY <1>3, <1>6, StartsGoOn
<1>8. Start(a \o b \o c \o d, {Space(s)}, 15)
  BY <1>4, <1>7, StartsGoOn
<1>9. QED
  BY <1>8, StartsAreOrderly DEF SourceCapture, a, b, c, d

LEMMA CorrectIsOrderly ==
    ASSUME NEW s \in Spaces, NEW k \in Keys
    PROVE  Orderly(SourceCorrect(s, k))
<1> DEFINE a == Authority(s)
           b == In("share", <<Row("activity", s)>>)
           c == Reserve("source.correct", k, s)
           d == In("update", <<Row("source", s)>>)
           e == In("share", <<Workspace>>)
           f == In("update", <<Row("sourceTruth", s)>>)
           g == Announce(s)
<1>1. (\A H : Section(a, H, 0, 1)) /\ Took(a, Space(s))
  BY AuthoritySection, AuthorityTakes
<1>2. \A H : Section(b, H, 1, 1)
  BY FreeSections
<1>3. Section(c, {Space(s)}, 1, 4)
  BY ReserveSection, TiersOfKinds
<1>4. \A H : Section(d, H, 4, 11)
  BY RowSections
<1>5. \A H : Section(e, H, 11, 11)
  BY FreeSections
<1>6. \A H : Section(f, H, 11, 13)
  BY RowSections
<1>7. \A H : Section(g, H, 13, 15)
  BY AnnounceSections
<1> HIDE DEF a, b, c, d, e, f, g
<1>8. Start(a, {Space(s)}, 1)
  BY <1>1, FirstSection
<1>9. Start(a \o b, {Space(s)}, 1)
  BY <1>2, <1>8, StartsGoOn
<1>10. Start(a \o b \o c, {Space(s)}, 4)
  BY <1>3, <1>9, StartsGoOn
<1>11. Start(a \o b \o c \o d, {Space(s)}, 11)
  BY <1>4, <1>10, StartsGoOn
<1>12. Start(a \o b \o c \o d \o e, {Space(s)}, 11)
  BY <1>5, <1>11, StartsGoOn
<1>13. Start(a \o b \o c \o d \o e \o f, {Space(s)}, 13)
  BY <1>6, <1>12, StartsGoOn
<1>14. Start(a \o b \o c \o d \o e \o f \o g, {Space(s)}, 15)
  BY <1>7, <1>13, StartsGoOn
<1>15. QED
  BY <1>14, StartsAreOrderly DEF SourceCorrect, a, b, c, d, e, f, g

LEMMA TombstoneIsOrderly ==
    ASSUME NEW s \in Spaces, NEW k \in Keys
    PROVE  Orderly(SourceTombstone(s, k))
<1> DEFINE a == Authority(s)
           b == In("update", <<Row("source", s)>>)
           c == Reserve("source.tombstone", k, s)
           d == In("update", <<Row("sourceTruth", s)>>)
           e == Announce(s)
<1>1. (\A H : Section(a, H, 0, 1)) /\ Took(a, Space(s))
  BY AuthoritySection, AuthorityTakes
<1>2. \A H : Section(b, H, 1, 11)
  BY RowSections
<1>3. Section(c, {Space(s)}, 11, 12)
  BY ReserveSection, TiersOfKinds
<1>4. \A H : Section(d, H, 12, 13)
  BY RowSections
<1>5. \A H : Section(e, H, 13, 15)
  BY AnnounceSections
<1> HIDE DEF a, b, c, d, e
<1>6. Start(a, {Space(s)}, 1)
  BY <1>1, FirstSection
<1>7. Start(a \o b, {Space(s)}, 11)
  BY <1>2, <1>6, StartsGoOn
<1>8. Start(a \o b \o c, {Space(s)}, 12)
  BY <1>3, <1>7, StartsGoOn
<1>9. Start(a \o b \o c \o d, {Space(s)}, 13)
  BY <1>4, <1>8, StartsGoOn
<1>10. Start(a \o b \o c \o d \o e, {Space(s)}, 15)
  BY <1>5, <1>9, StartsGoOn
<1>11. QED
  BY <1>10, StartsAreOrderly DEF SourceTombstone, a, b, c, d, e

LEMMA ClaimCreateIsOrderly ==
    ASSUME NEW s \in Spaces, NEW k \in Keys
    PROVE  Orderly(ClaimCreate(s, k))
<1> DEFINE a == In("share", <<Row("subject", s), Space(s)>>)
           b == Authority(s)
           c == In("share", <<Row("source", s), Row("activity", s)>>)
           d == Reserve("claim.create", k, s)
           e == In("update", <<Row("coordinate", s)>>)
           f == Evidence(s)
           g == AnnounceTruth(s)
<1>1. (\A H : Section(a, H, 0, 1)) /\ Took(a, Space(s))
  <2>1. \A H : Section(a, H, 0, 1)
    BY PairSections
  <2>2. Took(a, Space(s))
    BY RowsAreTaken, ModesAre
  <2>3. QED
    BY <2>1, <2>2
<1>2. Section(b, {Space(s)}, 1, 1)
  BY AuthoritySection
<1>3. (\A H : Section(c, H, 1, 6)) /\ Took(c, Row("source", s))
  <2>1. \A H : Section(c, H, 1, 6)
    BY PairSections
  <2>2. Took(c, Row("source", s))
    BY RowsAreTaken, ModesAre
  <2>3. QED
    BY <2>1, <2>2
<1>4. Section(d, {Space(s)}, 6, 7)
  BY ReserveSection, TiersOfKinds
<1>5. \A H : Section(e, H, 7, 8)
  BY RowSections
<1>6. Section(f, {Space(s), Row("source", s)}, 8, 13)
  BY EvidenceSection
<1>7. \A H : Section(g, H, 13, 15)
  BY AnnounceSections
<1> HIDE DEF a, b, c, d, e, f, g
<1>8. Start(a, {Space(s)}, 1)
  BY <1>1, FirstSection
<1>9. Start(a \o b, {Space(s)}, 1)
  BY <1>2, <1>8, StartsGoOn
<1>10. Start(a \o b \o c, {Space(s), Row("source", s)}, 6)
  BY <1>3, <1>9, StartsGoOn
<1>11. Start(a \o b \o c \o d, {Space(s), Row("source", s)}, 7)
  BY <1>4, <1>10, StartsGoOn
<1>12. Start(a \o b \o c \o d \o e, {Space(s), Row("source", s)}, 8)
  BY <1>5, <1>11, StartsGoOn
<1>13. Start(a \o b \o c \o d \o e \o f, {Space(s), Row("source", s)}, 13)
  BY <1>6, <1>12, StartsGoOn
<1>14. Start(a \o b \o c \o d \o e \o f \o g, {Space(s), Row("source", s)}, 15)
  BY <1>7, <1>13, StartsGoOn
<1>15. QED
  BY <1>14, StartsAreOrderly DEF ClaimCreate, a, b, c, d, e, f, g

LEMMA FactAcceptIsOrderly ==
    ASSUME NEW s \in Spaces, NEW k \in Keys
    PROVE  Orderly(FactAccept(s, k))
<1> DEFINE a == In("share", <<Row("subject", s), Space(s)>>)
           b == Authority(s)
           c == Reserve("fact.accept", k, s)
           d == In("update", <<Row("coordinate", s), Row("claim", s)>>)
           e == In("share", <<Row("source", s)>>)
           f == AnnounceTruth(s)
<1>1. (\A H : Section(a, H, 0, 1)) /\ Took(a, Space(s))
  <2>1. \A H : Section(a, H, 0, 1)
    BY PairSections
  <2>2. Took(a, Space(s))
    BY RowsAreTaken, ModesAre
  <2>3. QED
    BY <2>1, <2>2
<1>2. Section(b, {Space(s)}, 1, 1)
  BY AuthoritySection
<1>3. Section(c, {Space(s)}, 1, 5)
  BY ReserveSection, TiersOfKinds
<1>4. \A H : Section(d, H, 5, 10)
  BY PairSections
<1>5. \A H : Section(e, H, 10, 10)
  BY RowSections
<1>6. \A H : Section(f, H, 10, 15)
  BY AnnounceSections
<1> HIDE DEF a, b, c, d, e, f
<1>7. Start(a, {Space(s)}, 1)
  BY <1>1, FirstSection
<1>8. Start(a \o b, {Space(s)}, 1)
  BY <1>2, <1>7, StartsGoOn
<1>9. Start(a \o b \o c, {Space(s)}, 5)
  BY <1>3, <1>8, StartsGoOn
<1>10. Start(a \o b \o c \o d, {Space(s)}, 10)
  BY <1>4, <1>9, StartsGoOn
<1>11. Start(a \o b \o c \o d \o e, {Space(s)}, 10)
  BY <1>5, <1>10, StartsGoOn
<1>12. Start(a \o b \o c \o d \o e \o f, {Space(s)}, 15)
  BY <1>6, <1>11, StartsGoOn
<1>13. QED
  BY <1>12, StartsAreOrderly DEF FactAccept, a, b, c, d, e, f

LEMMA FactSupersedeIsOrderly ==
    ASSUME NEW s \in Spaces, NEW k \in Keys
    PROVE  Orderly(FactSupersede(s, k))
<1> DEFINE a == Reserve("fact.supersede", k, s)
           b == In("update", <<Row("coordinate", s), Row("fact", s)>>)
           c == Authority(s)
           d == In("share", <<Row("subject", s)>>)
           e == In("update", <<Row("claim", s)>>)
           f == In("share", <<Row("source", s)>>)
           g == AnnounceTruth(s)
<1>1. (\A H : Section(a, H, 0, 2)) /\ Took(a, Space(s))
  BY ReserveSection, TiersOfKinds, ReserveTakes
<1>2. \A H : Section(b, H, 2, 9)
  BY PairSections
<1>3. Section(c, {Space(s)}, 9, 9)
  BY AuthoritySection
<1>4. \A H : Section(d, H, 9, 9)
  BY FreeSections
<1>5. \A H : Section(e, H, 9, 10)
  BY RowSections
<1>6. \A H : Section(f, H, 10, 10)
  BY RowSections
<1>7. \A H : Section(g, H, 10, 15)
  BY AnnounceSections
<1> HIDE DEF a, b, c, d, e, f, g
<1>8. Start(a, {Space(s)}, 2)
  BY <1>1, FirstSection
<1>9. Start(a \o b, {Space(s)}, 9)
  BY <1>2, <1>8, StartsGoOn
<1>10. Start(a \o b \o c, {Space(s)}, 9)
  BY <1>3, <1>9, StartsGoOn
<1>11. Start(a \o b \o c \o d, {Space(s)}, 9)
  BY <1>4, <1>10, StartsGoOn
<1>12. Start(a \o b \o c \o d \o e, {Space(s)}, 10)
  BY <1>5, <1>11, StartsGoOn
<1>13. Start(a \o b \o c \o d \o e \o f, {Space(s)}, 10)
  BY <1>6, <1>12, StartsGoOn
<1>14. Start(a \o b \o c \o d \o e \o f \o g, {Space(s)}, 15)
  BY <1>7, <1>13, StartsGoOn
<1>15. QED
  BY <1>14, StartsAreOrderly DEF FactSupersede, a, b, c, d, e, f, g

LEMMA RecoverStarts ==
    ASSUME NEW s \in Spaces, NEW k \in Keys,
           NEW kind \in {"objective.withdraw", "objective.rework"}
    PROVE  Start(Recover(kind, s, k), {Space(s)}, 10)
<1> DEFINE a == In("share", <<Row("subject", s), Space(s)>>)
           b == In("update", << <<"identity", k>> >>)
           c == Reserve(kind, k, s)
           d == In("update", <<Row("coordinate", s), Row("claim", s)>>)
           e == Authority(s)
<1>1. (\A H : Section(a, H, 0, 1)) /\ Took(a, Space(s))
  <2>1. \A H : Section(a, H, 0, 1)
    BY PairSections
  <2>2. Took(a, Space(s))
    BY RowsAreTaken, ModesAre
  <2>3. QED
    BY <2>1, <2>2
<1>2. \A H : Section(b, H, 1, 4)
  BY IdentitySection
<1>3. Section(c, {Space(s)}, 4, 5)
  BY ReserveSection, TiersOfKinds
<1>4. \A H : Section(d, H, 5, 10)
  BY PairSections
<1>5. Section(e, {Space(s)}, 10, 10)
  BY AuthoritySection
<1> HIDE DEF a, b, c, d, e
<1>6. Start(a, {Space(s)}, 1)
  BY <1>1, FirstSection
<1>7. Start(a \o b, {Space(s)}, 4)
  BY <1>2, <1>6, StartsGoOn
<1>8. Start(a \o b \o c, {Space(s)}, 5)
  BY <1>3, <1>7, StartsGoOn
<1>9. Start(a \o b \o c \o d, {Space(s)}, 10)
  BY <1>4, <1>8, StartsGoOn
<1>10. Start(a \o b \o c \o d \o e, {Space(s)}, 10)
  BY <1>5, <1>9, StartsGoOn
<1>11. QED
  BY <1>10 DEF Recover, a, b, c, d, e

LEMMA RecoveriesAreOrderly ==
    ASSUME NEW s \in Spaces, NEW k \in Keys
    PROVE  Orderly(ObjectiveWithdraw(s, k)) /\ Orderly(ObjectiveRework(s, k))
<1> DEFINE a == Recover("objective.withdraw", s, k)
           b == Recover("objective.rework", s, k)
           c == Evidence(s)
           d == AnnounceTruth(s)
<1>1. Start(a, {Space(s)}, 10) /\ Start(b, {Space(s)}, 10)
  BY RecoverStarts
<1>2. \A H : Section(c, H, 10, 13)
  BY EvidenceSection
<1>3. \A H : Section(d, H, 10, 15)
  BY AnnounceSections
<1>4. \A H : Section(d, H, 13, 15)
  BY AnnounceSections
<1> HIDE DEF a, b, c, d
<1>5. Start(a \o d, {Space(s)}, 15)
  BY <1>1, <1>3, StartsGoOn
<1>6. Start(b \o c, {Space(s)}, 13)
  BY <1>1, <1>2, StartsGoOn
<1>7. Start(b \o c \o d, {Space(s)}, 15)
  BY <1>4, <1>6, StartsGoOn
<1>8. QED
  BY <1>5, <1>7, StartsAreOrderly DEF ObjectiveWithdraw, ObjectiveRework, a, b, c, d

----------------------------------------------------------------------------
(* The order of the ids exists, and is a sequence of Spaces. *)
LEMMA IdsCanBeOrdered ==
    ASSUME IsFiniteSet(Spaces)
    PROVE  /\ InIdOrder \in [1 .. Cardinality(Spaces) -> Spaces]
           /\ \A i, j \in DOMAIN InIdOrder : i < j => InIdOrder[i] < InIdOrder[j]
<1> DEFINE Ascends(q) == \A i, j \in DOMAIN q : i < j => q[i] < q[j]
           Sortable(S) == \E q \in [1 .. Cardinality(S) -> S] : Ascends(q)
           Bad == {n \in Nat : \E S \in SUBSET Spaces : Cardinality(S) = n /\ ~Sortable(S)}
<1>1. ASSUME Bad # {} PROVE FALSE
  <2>1. PICK n \in Bad : \A m \in Bad : n <= m
    BY <1>1, LeastNumber
  <2>2. PICK S \in SUBSET Spaces : Cardinality(S) = n /\ ~Sortable(S)
    BY <2>1
  <2>3. IsFiniteSet(S) /\ S \subseteq Nat
    BY FS_Subset, ScopeAssumption
  <2>4. CASE S = {}
    <3>1. Cardinality(S) = 0
      BY <2>4, FS_EmptySet
    <3> DEFINE q == [i \in 1 .. 0 |-> 0]
    <3>2. q \in [1 .. Cardinality(S) -> S] /\ Ascends(q)
      BY <3>1
    <3>3. QED
      BY <2>2, <3>2
  <2>5. CASE S # {}
    <3>1. PICK x \in S : \A y \in S : x <= y
      BY <2>3, <2>5, LeastNumber
    <3> DEFINE T == S \ {x}
    <3>2. IsFiniteSet(T) /\ Cardinality(T) = n - 1 /\ n \in Nat /\ Cardinality(T) \in Nat
      BY <2>2, <2>3, FS_RemoveElement, FS_CardinalityType
    <3>3. Cardinality(T) \notin Bad
      <4>1. PICK m \in Nat : m = Cardinality(T) /\ ~(n <= m)
        BY <3>2
      <4> HIDE DEF Bad, T
      <4>2. QED
        BY <2>1, <4>1
    <3>4. T \in SUBSET Spaces
      BY <2>2
    <3>5. Sortable(T)
      BY <3>2, <3>3, <3>4
    <3>6. PICK p \in [1 .. n - 1 -> T] : Ascends(p)
      BY <3>2, <3>5
    <3> DEFINE q == [i \in 1 .. n |-> IF i = 1 THEN x ELSE p[i - 1]]
    <3>7. \A i \in 1 .. n : i = 1 \/ (i - 1 \in 1 .. n - 1 /\ p[i - 1] \in T)
      BY <3>2, <3>6
    <3>8. q \in [1 .. n -> S]
      BY <3>7
    <3>9. ASSUME NEW i \in 1 .. n, NEW j \in 1 .. n, i < j PROVE q[i] < q[j]
      <4>1. j - 1 \in 1 .. n - 1 /\ q[j] = p[j - 1] /\ q[j] \in T
        BY <3>2, <3>7, <3>9
      <4>2. CASE i = 1
        <5>1. q[i] = x /\ x \in Nat /\ q[j] \in Nat /\ q[j] # x /\ x <= q[j]
          BY <2>3, <3>1, <4>1, <4>2
        <5>2. QED
          BY <5>1
      <4>3. CASE i # 1
        <5>1. i - 1 \in 1 .. n - 1 /\ q[i] = p[i - 1] /\ i - 1 < j - 1
          BY <3>2, <3>7, <3>9, <4>3
        <5>2. DOMAIN p = 1 .. n - 1
          BY <3>6
        <5>3. QED
          BY <3>6, <4>1, <5>1, <5>2
      <4>4. QED
        BY <4>2, <4>3
    <3> HIDE DEF q
    <3>10. Ascends(q)
      <4>1. DOMAIN q = 1 .. n
        BY <3>8
      <4>2. QED
        BY <3>9, <4>1
    <3>11. QED
      BY <2>2, <3>8, <3>10
  <2>6. QED
    BY <2>4, <2>5
<1>2. Sortable(Spaces)
  <2>1. Cardinality(Spaces) \in Nat /\ Spaces \in SUBSET Spaces
    BY FS_CardinalityType
  <2>2. QED
    BY <1>1, <2>1
<1>3. QED
  BY <1>2 DEF InIdOrder

(* Its Spaces are locked FOR SHARE, which reaches no later lock of it.     *)
LEMMA RelationshipEndIsOrderly ==
    ASSUME IsFiniteSet(Spaces), NEW s \in Spaces, NEW k \in Keys
    PROVE  Orderly(RelationshipEnd(s, k))
<1> DEFINE spaces == [i \in DOMAIN InIdOrder |-> Space(InIdOrder[i])]
           grants == [i \in DOMAIN InIdOrder |-> UserGrant(InIdOrder[i])]
           a == In("update", <<Row("relationship", s)>>)
           b == In("share", <<Policy, Membership, User>>)
           c == In("share", spaces)
           d == In("share", grants)
           e == Reserve("relationship.end", k, s)
           f == Announce(s)
<1>1. PICK n \in Nat : InIdOrder \in [1 .. n -> Spaces]
  BY IdsCanBeOrdered, FS_CardinalityType
<1>2. /\ spaces \in Seq({Space(x) : x \in Spaces}) /\ Len(spaces) = n
      /\ grants \in Seq({UserGrant(x) : x \in Spaces}) /\ Len(grants) = n
      /\ \A i \in 1 .. n : \E x \in Spaces : spaces[i] = Space(x) /\ grants[i] = UserGrant(x)
  BY <1>1
<1> HIDE DEF spaces, grants
<1>3. \A H : Section(a, H, 0, 1)
  BY RowSections
<1>4. \A H : Section(b, H, 1, 1)
  BY FreeSections
<1>5. ASSUME NEW H, NEW lo \in Nat, lo = 1
      PROVE  Section(c, H, lo, lo) /\ Section(d, H, lo, lo)
  <2>1. ASSUME NEW i \in 1 .. n
        PROVE  /\ lo < Tier(spaces[i][1], "share") /\ Reach(spaces[i][1], "share") <= lo
               /\ Joinable(grants[i], "share", H) /\ Reach(grants[i][1], "share") <= lo
    <3>1. PICK x \in Spaces : spaces[i] = Space(x) /\ grants[i] = UserGrant(x)
      BY <1>2
    <3>2. /\ Tier(Space(x)[1], "share") = 3 /\ Reach(Space(x)[1], "share") = 1
          /\ Joinable(UserGrant(x), "share", H) /\ Reach(UserGrant(x)[1], "share") = 0
      BY SharedRows
    <3>3. QED
      BY <1>5, <3>1, <3>2
  <2>2. \A i, j \in 1 .. n : Reach(spaces[i][1], "share") < Tier(spaces[j][1], "share")
    BY <1>5, <2>1, TiersAreNumbers
  <2>3. Section(c, H, lo, lo)
    BY <1>2, <2>1, <2>2, InIsSection, ModesAre
  <2>4. Section(d, H, lo, lo)
    BY <1>2, <2>1, FreeRows, ModesAre
  <2>5. QED
    BY <2>3, <2>4
<1>6. \A H : Section(c, H, 1, 1) /\ Section(d, H, 1, 1)
  BY <1>5
<1>7. \A H : Section(e, H, 1, 2)
  BY ReserveSection, TiersOfKinds
<1>8. \A H : Section(f, H, 2, 15)
  BY AnnounceSections
<1> HIDE DEF a, b, c, d, e, f
<1>9. Start(a, {}, 1)
  BY <1>3, FirstSection
<1>10. Start(a \o b, {}, 1)
  BY <1>4, <1>9, StartsGoOn
<1>11. Start(a \o b \o c, {}, 1)
  BY <1>6, <1>10, StartsGoOn
<1>12. Start(a \o b \o c \o d, {}, 1)
  BY <1>6, <1>11, StartsGoOn
<1>13. Start(a \o b \o c \o d \o e, {}, 2)
  BY <1>7, <1>12, StartsGoOn
<1>14. Start(a \o b \o c \o d \o e \o f, {}, 15)
  BY <1>8, <1>13, StartsGoOn
<1>15. QED
  BY <1>14, StartsAreOrderly DEF RelationshipEnd, spaces, grants, a, b, c, d, e, f

(* Every command locks rows in an orderly way. *)
LEMMA CommandsAreOrderly ==
    ASSUME IsFiniteSet(Spaces), NEW kind \in Commands, NEW s \in Spaces, NEW k \in Keys
    PROVE  Orderly(Plan[kind][s][k])
<1>1. Plan[kind][s][k] = Script(kind, s, k)
  BY DEF Plan, Kinds
<1>2. CASE kind \in {"organization.create", "initiative.create", "activity.create",
                     "relationship.create", "content.create", "relationship.end"}
  BY <1>1, <1>2, OrganizationIsOrderly, InitiativeIsOrderly, ActivityIsOrderly,
     SpaceCreateIsOrderly, RelationshipEndIsOrderly DEF Script
<1>3. CASE kind \in {"content.revise", "source.capture", "source.correct", "source.tombstone"}
  BY <1>1, <1>3, ContentReviseIsOrderly, CaptureIsOrderly, CorrectIsOrderly,
     TombstoneIsOrderly DEF Script
<1>4. CASE kind \in {"claim.create", "objective.withdraw", "objective.rework", "fact.accept",
                     "fact.supersede"}
  BY <1>1, <1>4, ClaimCreateIsOrderly, RecoveriesAreOrderly, FactAcceptIsOrderly,
     FactSupersedeIsOrderly DEF Script
<1>5. QED
  BY <1>2, <1>3, <1>4 DEF Commands

----------------------------------------------------------------------------
(* Every session runs commands only. *)
CommandCast == \A t \in Txns : cast[t] \subseteq Commands

TierOf(lock)  == Tier(lock.row[1], lock.mode)
ReachOf(lock) == Reach(lock.row[1], lock.mode)

(* Of a circle of commands, each waits for a later tier than the one that  *)
(* waits for it. *)
LEMMA CommandsWaitForLater ==
    ASSUME IsFiniteSet(Spaces), TypeOK, Compatible, CommandCast,
           NEW t \in Txns, NEW u \in Txns, NEW v \in Txns, Blocks(u, t), Blocks(v, u)
    PROVE  TierOf(Wanted(t)) < TierOf(Wanted(u))
<1> DEFINE p == Locks(u)
           q == Locks(v)
           n == held[u]
<1>1. ASSUME NEW w \in {u, v} PROVE Orderly(Locks(w)) /\ held[w] \in Nat /\ 1 .. held[w] \subseteq DOMAIN Locks(w)
  <2>1. w \in Txns /\ Open(w)
    BY <1>1 DEF Blocks, Wants
  <2>2. job[w] \in Jobs /\ job[w].kind \in Commands
    BY <2>1 DEF TypeOK, CommandCast, Open
  <2>3. job[w].space \in Spaces /\ job[w].key \in Keys
    BY <2>2 DEF Jobs
  <2>4. Orderly(Locks(w))
    BY <2>2, <2>3, CommandsAreOrderly DEF Locks
  <2>5. QED
    BY <2>1, <2>4 DEF TypeOK
<1>2. /\ Wants(u) /\ u # v /\ Open(u) /\ Open(v)
      /\ n + 1 \in DOMAIN p /\ Wanted(u) = p[n + 1] /\ n \in Nat
  BY <1>1 DEF Blocks, Wants, Wanted
<1>3. PICK i \in 1 .. n : p[i].row = Wanted(t).row /\ Conflict(p[i].mode, Wanted(t).mode)
  BY DEF Blocks
<1>4. PICK l \in 1 .. held[v] : q[l].row = p[n + 1].row /\ Conflict(q[l].mode, p[n + 1].mode)
  BY <1>2 DEF Blocks
<1>5. PICK lo \in Nat, hi \in Nat : lo = 0 /\ Section(p, {}, lo, hi)
  BY <1>1 DEF Orderly
<1>6. PICK low \in Nat, high \in Nat : low = 0 /\ Section(q, {}, low, high)
  BY <1>1 DEF Orderly
<1>7. l \in DOMAIN q /\ n \in Nat /\ \A k \in 1 .. n : k < n + 1
  BY <1>1, <1>2, <1>4
<1>8. DOMAIN p = 1 .. Len(p) /\ DOMAIN q = 1 .. Len(q)
  BY <1>5, <1>6 DEF Section
<1>9. ASSUME Free(p, {}, n + 1) PROVE FALSE
  <2>1. p[n + 1].mode # "update" /\ q[l].mode = "update"
    BY <1>4, <1>9 DEF Free, Conflict
  <2>2. CASE p[n + 1].row[1] \in Shared
    <3>1. Tier(q[l].row[1], q[l].mode) = 0
      <4>1. \A table \in Shared : Tier(table, "update") = 0
        BY DEF Shared, Tier
      <4>2. QED
        BY <1>4, <2>1, <2>2, <4>1
    <3>2. ~Free(q, {}, l)
      BY <2>1 DEF Free
    <3>3. low < Tier(q[l].row[1], q[l].mode)
      BY <1>6, <1>7, <1>8, <3>2 DEF Section
    <3>4. QED
      BY <1>6, <3>1, <3>3
  <2>3. ASSUME NEW k \in 1 .. (n + 1) - 1, p[k].row = p[n + 1].row PROVE FALSE
    <3>1. k \in 1 .. n
      BY <1>2
    <3>2. ~Conflict(p[k].mode, q[l].mode)
      BY <1>2, <1>4, <2>3, <3>1 DEF Compatible
    <3>3. QED
      BY <2>1, <3>2 DEF Conflict
  <2>4. QED
    BY <1>9, <2>2, <2>3 DEF Free
<1>10. ReachOf(p[i]) < TierOf(p[n + 1])
  <2>1. i \in 1 .. Len(p) /\ n + 1 \in 1 .. Len(p) /\ i < n + 1
    BY <1>1, <1>2, <1>7, <1>8
  <2>2. QED
    BY <1>5, <1>9, <2>1 DEF Section, ReachOf, TierOf
<1>11. TierOf(Wanted(t)) <= ReachOf(p[i])
  BY <1>3, ConflictsAreReached DEF TierOf, ReachOf
<1>12. QED
  BY <1>2, <1>10, <1>11, TiersAreNumbers DEF TierOf, ReachOf

LEMMA TiersPreventDeadlock ==
    ASSUME IsFiniteSet(Spaces), TypeOK, Compatible, CommandCast
    PROVE  NoDeadlock
<1> SUFFICES ASSUME NEW D \in SUBSET {t \in Txns : Waiting(t)}, D # {},
                    \A t \in D : \E u \in D : Blocks(u, t)
             PROVE  FALSE
  BY DEF NoDeadlock
<1>1. \A t \in D : TierOf(Wanted(t)) \in 0 .. 15
  BY TiersAreNumbers DEF TierOf
<1>2. \A t \in D : \E u \in D : TierOf(Wanted(t)) < TierOf(Wanted(u))
  BY CommandsWaitForLater
<1> DEFINE Left == {15 - TierOf(Wanted(t)) : t \in D}
<1>3. Left \subseteq Nat /\ Left # {}
  BY <1>1
<1>4. PICK x \in Left : \A y \in Left : x <= y
  BY <1>3, LeastNumber
<1>5. PICK t \in D : x = 15 - TierOf(Wanted(t))
  BY <1>4
<1>6. PICK u \in D : TierOf(Wanted(t)) < TierOf(Wanted(u))
  BY <1>2
<1>7. x <= 15 - TierOf(Wanted(u))
  BY <1>4
<1>8. QED
  BY <1>1, <1>5, <1>6, <1>7

----------------------------------------------------------------------------
(* Publishes, provisioning and the foundation worker, relay and proof      *)
(* creations never deadlock, for any number of sessions, Spaces and rows   *)
(* of the outbox: they follow the fixed order of the authority locks.      *)
THEOREM FixedOrderHasNoDeadlock ==
    ASSUME Casts \subseteq [Txns -> SUBSET (Relaying \cup Foundation)]
    PROVE  Spec => []NoDeadlock
<1>1. Init => Compatible /\ OrderedCast
  BY GrantsAreCompatible DEF Init, OrderedCast
<1>2. TypeOK /\ Compatible /\ OrderedCast /\ [Next]_vars => (Compatible /\ OrderedCast)'
  BY GrantsAreCompatible DEF OrderedCast, Next, Begin, Acquire, End, vars
<1>3. TypeOK /\ Compatible /\ OrderedCast => NoDeadlock
  BY OrderPreventsDeadlock
<1> QED
  BY <1>1, <1>2, <1>3, TypeCorrect, PTL DEF Spec

(* Neither does any mix of commands, the reason why no command retries a   *)
(* deadlock error: where every session runs commands only, or every one    *)
(* transactions of the other group only, nobody waits in a circle.         *)
THEOREM GroupsHaveNoDeadlock ==
    ASSUME IsFiniteSet(Spaces),
           Casts \subseteq [Txns -> SUBSET Commands]
                       \cup [Txns -> SUBSET (Relaying \cup Foundation)]
    PROVE  Spec => []NoDeadlock
<1> DEFINE Group == CommandCast \/ OrderedCast
<1>1. Init => Compatible /\ Group
  BY GrantsAreCompatible DEF Init, OrderedCast, CommandCast
<1>2. TypeOK /\ Compatible /\ Group /\ [Next]_vars => (Compatible /\ Group)'
  BY GrantsAreCompatible DEF CommandCast, OrderedCast, Next, Begin, Acquire, End, vars
<1>3. TypeOK /\ Compatible /\ Group => NoDeadlock
  BY TiersPreventDeadlock, OrderPreventsDeadlock
<1> QED
  BY <1>1, <1>2, <1>3, TypeCorrect, PTL DEF Spec
=============================================================================
