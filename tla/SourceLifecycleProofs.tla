----------------------- MODULE SourceLifecycleProofs ------------------------
(***************************************************************************)
(* Proofs about SourceLifecycle.                                           *)
(*                                                                         *)
(* The inductive invariant Inv says what each transaction still knows of   *)
(* what it has read: a claim that was admitted holds its source for        *)
(* sharing, a correction and a tombstone theirs for update, and no two     *)
(* transactions hold a row against each other.                             *)
(***************************************************************************)
EXTENDS SourceLifecycle, FiniteSetTheorems, TLAPS

RevisionRows == [text : AllTexts, key : Keys]

SourceRows ==
    [status : {"live", "erased"},
     text : {Captured(t) : t \in AllTexts} \cup {<<>>},
     chunks : {ChunksOf[t] : t \in AllTexts} \cup {<<>>},
     class : Classes, activity : Activities, supersedes : SourceIds \cup {None},
     origin : (Keys \X Nat) \cup {None}, version : {1, 2}, key : Keys]

(* What is known of a request for good.                                    *)
Drafted(b) ==
    /\ b \in Requests /\ b.kind \in Kinds
    /\ b.kind \in {"content.create", "content.revise", "source.capture", "source.correct"} =>
          b.text \in AllTexts
    /\ b.kind = "content.revise" =>
          b.base[1] \in Keys /\ b.base[2] \in DOMAIN revisions[b.base[1]]
    /\ b.kind \in {"source.capture", "source.correct"} =>
          b.activity \in Activities /\ b.class \in Classes
    /\ b.kind = "source.capture" /\ b.origin # None =>
          /\ b.origin \in Keys \X Nat
          /\ b.origin[2] \in DOMAIN revisions[b.origin[1]]
    /\ b.kind \in {"source.correct", "source.tombstone", "claim.create"} =>
          b.source \in Recorded
    /\ b.kind = "claim.create" => b.start \in Nat /\ b.end \in Nat

Sent(p) == txn[p].key \in Keys /\ Drafted(txn[p].body)

RowShape ==
    /\ cast \in Casts
    /\ revisions \in [Keys -> Seq(RevisionRows)]
    /\ sources \in [SourceIds -> SourceRows \cup {NoSource}]
    /\ DOMAIN commands = Keys
    /\ outbox \in [Keys -> Seq(Kinds)]

LockShape ==
    /\ keyHolder \in [Keys -> Procs \cup {None}]
    /\ advisory \in [SourceIds -> Procs \cup {None}]
    /\ \A l \in rowLocks : l[1] \in Procs /\ l[2] \in Keys \cup SourceIds
    /\ DOMAIN txn = Procs
    /\ \A p \in Procs :
          txn[p] = [pc |-> txn[p].pc, key |-> txn[p].key,
                    body |-> txn[p].body, read |-> txn[p].read]

Shape ==
    /\ RowShape
    /\ LockShape
    /\ \A p \in Procs : txn[p].pc # "idle" => Sent(p)

(* Sources are recorded in order, with the version and the chunks of their *)
(* status, and correct sources that are recorded.                          *)
SourcesInOrder ==
    /\ \A s \in Recorded :
          /\ \A t \in SourceIds : t < s => t \in Recorded
          /\ sources[s].supersedes # None => sources[s].supersedes \in Recorded
          /\ sources[s].origin # None =>
                sources[s].origin[2] \in DOMAIN revisions[sources[s].origin[1]]
          /\ sources[s].status = "live" => sources[s].version = 1
          /\ sources[s].status = "erased" => sources[s].version = 2

(* No two transactions hold one row, unless they share it.                 *)
RowsAreExclusive ==
    \A l, m \in rowLocks :
       l[2] = m[2] /\ l[1] # m[1] => l[3] = "share" /\ m[3] = "share"

Holds(p, mode) == <<p, txn[p].body.source, mode>> \in rowLocks

(* What a transaction may rely on from its reservation on.                 *)
KnowsKey(p) ==
    txn[p].pc \notin {"idle", "begun", "reserve"} =>
       keyHolder[txn[p].key] = p /\ commands[txn[p].key] = None

Past(p, kind, pcs) == txn[p].pc \in pcs /\ txn[p].body.kind = kind

(* A capture has the text of its origin.                                   *)
KnowsOrigin(p) ==
    Past(p, "source.capture", {"reserve", "commit"}) =>
       OriginMatches(txn[p].body) /\ txn[p].body.text \in Usable

(* A correction keeps its predecessor from the lock on, and what it read.  *)
KnowsPredecessor(p) ==
    LET b == txn[p].body
        at(pcs) == Past(p, "source.correct", pcs) IN
    /\ at({"reserve", "select", "wait", "recheck", "write", "commit"}) =>
          b.activity = sources[b.source].activity
    /\ at({"recheck", "write", "commit"}) => Holds(p, "update")
    /\ at({"write", "commit"}) =>
          /\ LiveLeaf(b.source) /\ b.text \in Usable
          /\ txn[p].read \in Classes /\ sources[b.source].class <= txn[p].read
    /\ at({"commit"}) => Unquoted(b.source)

(* So does a tombstone.                                                    *)
KnowsErased(p) ==
    LET b == txn[p].body IN
    /\ Past(p, "source.tombstone", {"reserve", "write", "commit"}) => Holds(p, "update")
    /\ Past(p, "source.tombstone", {"commit"}) =>
          sources[b.source].status = "live" /\ Unquoted(b.source)

(* A claim keeps the source that it was admitted to quote.                 *)
Quoting(p) ==
    LET b == txn[p].body IN
    /\ Holds(p, "share")
    /\ Admissible(b)
    /\ txn[p].read = [class |-> Higher(SpaceClass, sources[b.source].class),
                      excerpt |-> Excerpt(b)]

KnowsQuoted(p) == Past(p, "claim.create", {"reserve", "write", "commit"}) => Quoting(p)

Knows(p) ==
    KnowsKey(p) /\ KnowsOrigin(p) /\ KnowsPredecessor(p) /\ KnowsErased(p) /\ KnowsQuoted(p)

EvidenceIsOfSources == \A e \in evidence : e.source \in Recorded /\ e.key \in Keys

(* What a completed command tested is true for good.                       *)
Tested(b) ==
    /\ Drafted(b)
    /\ b.kind = "source.capture" => OriginMatches(b) /\ b.text \in Usable
    /\ b.kind = "source.correct" => b.activity = sources[b.source].activity
    /\ b.kind = "claim.create" => Admissible(b)

Stands(b) ==
    /\ Tested(b)
    /\ b.kind = "content.revise" => b.base[2] + 1 \in DOMAIN revisions[b.base[1]]
    /\ b.kind = "claim.create" => \E e \in evidence : e.source = b.source

CommandsStand == \A k \in Keys : \A b \in {commands[k]} \ {None} : Stands(b)

Inv ==
    /\ Shape
    /\ SourcesInOrder
    /\ RowsAreExclusive
    /\ \A p \in Procs : Knows(p)
    /\ EvidenceIsOfSources /\ EvidenceStands
    /\ ChainsAreLinear
    /\ CommandsStand
    /\ RevisionsAreKept /\ SourcesQuoteTheirOrigin

-----------------------------------------------------------------------------
(***************************************************************************)
(* Classes, drafts and the shape of a transaction.                         *)
(***************************************************************************)
LEMMA HigherClass ==
    ASSUME NEW a \in Classes, NEW b \in Classes
    PROVE  Higher(a, b) \in Classes /\ a <= Higher(a, b) /\ b <= Higher(a, b)
BY LifecycleAssumption DEF Higher

LEMMA SourceClassBounds ==
    ASSUME NEW a \in Classes, NEW b \in Classes
    PROVE  SourceClass(a, b) \in Classes /\ b <= SourceClass(a, b)
BY LifecycleAssumption, HigherClass DEF SourceClass

LEMMA DraftsAreDrafted ==
    ASSUME Shape, NEW k \in DOMAIN cast.kinds, NEW b \in Drafts(cast.kinds[k])
    PROVE  k \in Keys /\ Drafted(b)
<1>1. /\ k \in Keys /\ cast.kinds[k] \in Kinds
      /\ cast.texts \subseteq AllTexts /\ cast.classes \subseteq Classes
  BY LifecycleAssumption DEF Shape, RowShape, AllTexts
<1>2. ASSUME NEW o \in Revisions
      PROVE  /\ o \in Keys \X Nat /\ o[1] \in Keys
             /\ o[2] \in DOMAIN revisions[o[1]]
  <2>1. PICK i \in Keys : o \in {<<i, r>> : r \in DOMAIN revisions[i]}
    BY Zenon DEF Revisions, Items
  <2>2. PICK r \in DOMAIN revisions[i] : o = <<i, r>>  BY <2>1
  <2>3. r \in Nat
    <3>1. revisions[i] \in Seq(RevisionRows)  BY DEF Shape, RowShape
    <3>. QED  BY <3>1
  <2>. QED  BY <2>2, <2>3
<1>3. CASE cast.kinds[k] = "content.create"
  <2>1. b \in Requests  BY <1>1, <1>3 DEF Drafts, Requests
  <2>. QED  BY <1>1, <1>3, <2>1 DEF Drafts, Drafted, Kinds
<1>4. CASE cast.kinds[k] = "content.revise"
  <2>1. b \in Requests
    <3>1. b \in [kind : {"content.revise"}, base : Keys \X Nat, text : AllTexts]
      BY <1>1, <1>2, <1>4 DEF Drafts
    <3>. QED  BY <3>1 DEF Requests
  <2>. QED  BY <1>1, <1>2, <1>4, <2>1 DEF Drafts, Drafted, Kinds
<1>5. CASE cast.kinds[k] = "source.capture"
  <2>1. b \in Requests
    <3>1. b \in [kind : {"source.capture"}, activity : Activities, text : AllTexts,
                 class : Classes, origin : (Keys \X Nat) \cup {None}]
      BY <1>1, <1>2, <1>5 DEF Drafts
    <3>. QED  BY <3>1 DEF Requests
  <2>. QED  BY <1>1, <1>2, <1>5, <2>1 DEF Drafts, Drafted, Kinds
<1>6. CASE cast.kinds[k] = "source.correct"
  <2>1. b \in Requests
    <3>1. b \in [kind : {"source.correct"}, source : SourceIds, activity : Activities,
                 text : AllTexts, class : Classes]
      BY <1>1, <1>6 DEF Drafts, Recorded
    <3>. QED  BY <3>1 DEF Requests
  <2>. QED  BY <1>1, <1>6, <2>1 DEF Drafts, Drafted, Kinds
<1>7. CASE cast.kinds[k] = "source.tombstone"
  <2>1. PICK s \in Recorded :
           b = [kind |-> "source.tombstone", source |-> s, version |-> sources[s].version]
    BY <1>7 DEF Drafts
  <2>2. s \in SourceIds /\ sources[s].version \in Nat
    BY DEF Recorded, Shape, RowShape, SourceRows, NoSource
  <2>3. b \in Requests  BY <2>1, <2>2 DEF Requests
  <2>. QED  BY <1>1, <2>1, <2>3 DEF Drafted, Kinds
<1>8. CASE cast.kinds[k] = "claim.create"
  <2> DEFINE Of(s, c) == [kind : {"claim.create"}, source : {s}, chunk : {c},
                         version : {sources[s].version},
                         start : 0 .. Len(Points(sources[s].chunks[c].text)) - 1,
                         end : 1 .. Len(Points(sources[s].chunks[c].text))]
             Some == [kind : {"claim.create"}, source : SourceIds, version : Nat,
                      start : Nat, end : Nat,
                      chunk : UNION {DOMAIN ChunksOf[t] : t \in AllTexts}]
  <2>1. b \in UNION {UNION {Of(s, c) : c \in DOMAIN sources[s].chunks} : s \in Recorded}
    BY <1>8 DEF Drafts, Quotes
  <2>2. PICK s \in Recorded : b \in UNION {Of(s, c) : c \in DOMAIN sources[s].chunks}
    <3>. HIDE DEF Of
    <3>. QED  BY <2>1, Zenon
  <2>3. PICK c \in DOMAIN sources[s].chunks : b \in Of(s, c)
    <3>. HIDE DEF Of
    <3>. QED  BY <2>2, Zenon
  <2>4. s \in SourceIds /\ sources[s].version \in Nat
        /\ c \in UNION {DOMAIN ChunksOf[t] : t \in AllTexts}
    <3>1. s \in SourceIds /\ sources[s] \in SourceRows
      BY DEF Recorded, Shape, RowShape, NoSource
    <3>2. sources[s].chunks \in {ChunksOf[t] : t \in AllTexts} \cup {<<>>}
      BY <3>1 DEF SourceRows
    <3>3. CASE sources[s].chunks = <<>>  BY <2>3, <3>3
    <3>4. CASE sources[s].chunks \in {ChunksOf[t] : t \in AllTexts}
      <4>1. PICK t \in AllTexts : sources[s].chunks = ChunksOf[t]  BY <3>4
      <4>. QED  BY <2>3, <3>1, <4>1 DEF SourceRows
    <3>. QED  BY <3>2, <3>3, <3>4
  <2>5. /\ b.kind = "claim.create" /\ b.source = s /\ b.start \in Nat /\ b.end \in Nat
        /\ b = [kind |-> b.kind, source |-> b.source, chunk |-> b.chunk,
                version |-> b.version, start |-> b.start, end |-> b.end]
        /\ b.version = sources[s].version /\ b.chunk = c
    BY <2>3
  <2>6. b \in Some  BY <2>4, <2>5
  <2>7. b \in Requests  BY <2>6, Zenon DEF Requests
  <2>. QED  BY <1>1, <2>2, <2>5, <2>7 DEF Drafted, Kinds
<1>. QED  BY <1>1, <1>3, <1>4, <1>5, <1>6, <1>7, <1>8 DEF Kinds

-----------------------------------------------------------------------------
(***************************************************************************)
(* Steps that write no row.                                                *)
(***************************************************************************)
(* Of the other transactions nothing changes but whom they wait for.       *)
Alone(p) ==
    /\ \A q \in Procs \ {p} : txn'[q] = txn[q]
    /\ \A q \in Procs \ {p} : \A r, m : <<q, r, m>> \in rowLocks => <<q, r, m>> \in rowLocks'
    /\ \A q \in Procs \ {p}, k \in Keys : keyHolder[k] = q => keyHolder'[k] = q

LEMMA Ends ==
    ASSUME LockShape, RowsAreExclusive, NEW p \in Procs, End(p)
    PROVE  Alone(p) /\ LockShape' /\ RowsAreExclusive' /\ txn'[p] = Idle
<1>1. txn'[p] = Idle /\ \A q \in Procs \ {p} : txn'[q] = txn[q]
  BY DEF End, LockShape
<1>2. Alone(p)
  BY <1>1 DEF Alone, End, LockShape
<1>3. LockShape'
  BY <1>1 DEF End, LockShape, Idle
<1>4. RowsAreExclusive'  BY DEF End, RowsAreExclusive
<1>. QED  BY <1>1, <1>2, <1>3, <1>4

(* A transaction goes on and takes at most its key and an advisory lock.   *)
LEMMA Advances ==
    ASSUME LockShape, RowsAreExclusive, NEW p \in Procs, NEW pc, NEW read,
           \/ txn' = [txn EXCEPT ![p].pc = pc] /\ read = txn[p].read
           \/ txn' = [txn EXCEPT ![p].pc = pc, ![p].read = read],
           rowLocks' = rowLocks,
           \/ keyHolder' = keyHolder
           \/ /\ keyHolder[txn[p].key] = None /\ txn[p].key \in Keys
              /\ keyHolder' = [keyHolder EXCEPT ![txn[p].key] = p],
           \/ advisory' = advisory
           \/ \E s \in SourceIds : advisory' = [advisory EXCEPT ![s] = p]
    PROVE  /\ Alone(p) /\ LockShape' /\ RowsAreExclusive'
           /\ txn'[p].pc = pc /\ txn'[p].read = read
           /\ txn'[p].key = txn[p].key /\ txn'[p].body = txn[p].body
<1>1. /\ txn'[p].pc = pc /\ txn'[p].read = read
      /\ txn'[p].key = txn[p].key /\ txn'[p].body = txn[p].body
      /\ txn'[p] = [pc |-> pc, key |-> txn[p].key, body |-> txn[p].body, read |-> read]
      /\ DOMAIN txn' = Procs /\ \A q \in Procs \ {p} : txn'[q] = txn[q]
  BY DEF LockShape
<1>2. Alone(p)
  <2>1. \A q \in Procs \ {p}, k \in Keys : keyHolder[k] = q => keyHolder'[k] = q
    BY LifecycleAssumption DEF LockShape
  <2>. QED  BY <1>1, <2>1 DEF Alone
<1>3. LockShape'
  <2>1. keyHolder' \in [Keys -> Procs \cup {None}]  BY DEF LockShape
  <2>2. advisory' \in [SourceIds -> Procs \cup {None}]  BY DEF LockShape
  <2>. QED  BY <1>1, <2>1, <2>2 DEF LockShape
<1>4. RowsAreExclusive'  BY DEF RowsAreExclusive
<1>. QED  BY <1>1, <1>2, <1>3, <1>4

(* A transaction locks a row.                                              *)
LEMMA Locks ==
    ASSUME LockShape, RowsAreExclusive, NEW p \in Procs, NEW pc, NEW read,
           NEW row \in Keys \cup SourceIds, NEW mode \in {"share", "update"},
           Lock(p, row, mode),
           \/ txn' = [txn EXCEPT ![p].pc = pc] /\ read = txn[p].read
           \/ txn' = [txn EXCEPT ![p].pc = pc, ![p].read = read],
           UNCHANGED <<keyHolder, advisory>>
    PROVE  /\ Alone(p) /\ LockShape' /\ RowsAreExclusive'
           /\ txn'[p].pc = pc /\ txn'[p].read = read
           /\ txn'[p].key = txn[p].key /\ txn'[p].body = txn[p].body
           /\ <<p, row, mode>> \in rowLocks'
<1>1. /\ txn'[p].pc = pc /\ txn'[p].read = read
      /\ txn'[p].key = txn[p].key /\ txn'[p].body = txn[p].body
      /\ txn'[p] = [pc |-> pc, key |-> txn[p].key, body |-> txn[p].body, read |-> read]
      /\ DOMAIN txn' = Procs /\ \A q \in Procs \ {p} : txn'[q] = txn[q]
  BY DEF LockShape
<1>2. rowLocks' = rowLocks \cup {<<p, row, mode>>}  BY DEF Lock
<1>3. Alone(p)  BY <1>1, <1>2 DEF Alone
<1>4. LockShape'  BY <1>1, <1>2 DEF LockShape
<1>5. RowsAreExclusive'
  <2>1. \A l \in rowLocks : l[2] = row /\ l[1] # p => l[3] = "share" /\ mode = "share"
    BY DEF Lock, Lockable
  <2>. QED  BY <1>2, <2>1 DEF RowsAreExclusive
<1>. QED  BY <1>1, <1>2, <1>3, <1>4, <1>5

(* A transaction that keeps its locks knows what it knew.                  *)
Kept(q) ==
    /\ txn'[q] = txn[q]
    /\ \A r, m : <<q, r, m>> \in rowLocks => <<q, r, m>> \in rowLocks'
    /\ \A k \in Keys : keyHolder[k] = q => keyHolder'[k] = q

LEMMA OthersKnow ==
    ASSUME Inv, NEW q \in Procs, UNCHANGED rows, Kept(q)
    PROVE  Knows(q)' /\ (txn'[q].pc # "idle" => Sent(q)')
<1>1. Knows(q) /\ (txn[q].pc # "idle" => Sent(q))  BY DEF Inv, Shape
<1>2. txn'[q] = txn[q]  BY DEF Kept
<1>3. \A r, m : <<q, r, m>> \in rowLocks => <<q, r, m>> \in rowLocks'  BY DEF Kept
<1>4. txn'[q].pc # "idle" => Sent(q)'
  BY <1>1, <1>2 DEF Sent, Drafted, Recorded, rows
<1>5. KnowsKey(q)'
  BY <1>1, <1>2 DEF Knows, KnowsKey, Kept, Sent, rows
<1>6. KnowsOrigin(q)'
  BY <1>1, <1>2 DEF Knows, KnowsOrigin, Past, OriginMatches, rows
<1>7. KnowsPredecessor(q)'
  BY <1>1, <1>2, <1>3
  DEF Knows, KnowsPredecessor, Past, Holds, LiveLeaf, Superseded, Recorded, Unquoted, rows
<1>8. KnowsErased(q)'
  BY <1>1, <1>2, <1>3 DEF Knows, KnowsErased, Past, Holds, Unquoted, rows
<1>9. KnowsQuoted(q)'
  BY <1>1, <1>2, <1>3
  DEF Knows, KnowsQuoted, Past, Quoting, Holds, Admissible, LiveLeaf, Superseded, Recorded,
      Excerpt, rows
<1>. QED  BY <1>4, <1>5, <1>6, <1>7, <1>8, <1>9 DEF Knows

LEMMA RowsStay ==
    ASSUME Inv, UNCHANGED rows, LockShape', RowsAreExclusive',
           \A q \in Procs : Knows(q)' /\ (txn'[q].pc # "idle" => Sent(q)')
    PROVE  Inv'
<1>1. RowShape'  BY DEF Inv, Shape, RowShape, rows
<1>2. SourcesInOrder'  BY DEF Inv, SourcesInOrder, Recorded, rows
<1>3. EvidenceIsOfSources' /\ EvidenceStands'
  BY DEF Inv, EvidenceIsOfSources, EvidenceStands, Recorded, rows
<1>4. ChainsAreLinear'  BY DEF Inv, ChainsAreLinear, Recorded, rows
<1>5. CommandsStand'
  BY DEF Inv, CommandsStand, Stands, Tested, Drafted, OriginMatches, Admissible, LiveLeaf, Superseded,
         Recorded, rows
<1>6. RevisionsAreKept' /\ SourcesQuoteTheirOrigin'
  BY DEF Inv, RevisionsAreKept, SourcesQuoteTheirOrigin, rows
<1>. QED  BY <1>1, <1>2, <1>3, <1>4, <1>5, <1>6 DEF Inv, Shape

LEMMA Moved ==
    ASSUME Inv, NEW p \in Procs, UNCHANGED rows,
           Alone(p), LockShape', RowsAreExclusive',
           txn'[p].pc # "idle" => Sent(p)', Knows(p)'
    PROVE  Inv'
<1>1. \A q \in Procs \ {p} : Kept(q)  BY DEF Alone, Kept
<1>2. \A q \in Procs : Knows(q)' /\ (txn'[q].pc # "idle" => Sent(q)')
  BY <1>1, OthersKnow
<1>. QED  BY <1>2, RowsStay

LEMMA NothingMoved == Inv /\ UNCHANGED vars => Inv'
<1>. SUFFICES ASSUME Inv, UNCHANGED vars  PROVE Inv'
  OBVIOUS
<1>1. UNCHANGED rows /\ txn' = txn /\ UNCHANGED locks  BY DEF vars
<1>2. LockShape' /\ RowsAreExclusive'
  BY <1>1 DEF Inv, Shape, LockShape, RowsAreExclusive, locks
<1>3. \A p \in Procs : Kept(p)  BY <1>1 DEF Kept, locks
<1>4. \A p \in Procs : Knows(p)' /\ (txn'[p].pc # "idle" => Sent(p)')
  BY <1>1, <1>3, OthersKnow
<1>. QED  BY <1>1, <1>2, <1>4, RowsStay

LEMMA MovedToTheEnd ==
    ASSUME Inv, NEW p \in Procs, UNCHANGED rows, End(p)
    PROVE  Inv'
<1>1. Alone(p) /\ LockShape' /\ RowsAreExclusive' /\ txn'[p] = Idle
  BY Ends DEF Inv, Shape
<1>2. txn'[p].pc = "idle"  BY <1>1 DEF Idle
<1>3. Knows(p)'
  BY <1>2 DEF Knows, KnowsKey, KnowsOrigin, KnowsPredecessor, KnowsErased, KnowsQuoted, Past
<1>. QED  BY <1>1, <1>2, <1>3, Moved

LEMMA BeginStep ==
    ASSUME Inv, NEW p \in Procs, NEW k \in Keys, Begin(p, k)
    PROVE  Inv'
<1>1. PICK b : /\ k \in DOMAIN cast.kinds
               /\ b \in IF commands[k] = None THEN Drafts(cast.kinds[k]) ELSE {commands[k]}
               /\ txn' = [txn EXCEPT ![p] =
                            [pc |-> "begun", key |-> k, body |-> b, read |-> None]]
  BY DEF Begin
<1>2. UNCHANGED rows /\ UNCHANGED locks  BY DEF Begin
<1>3. txn'[p].pc = "begun" /\ txn'[p].key = k /\ txn'[p].body = b
  BY <1>1 DEF Inv, Shape, LockShape
<1>4. Alone(p)  BY <1>1, <1>2 DEF Alone, locks
<1>5. LockShape'  BY <1>1, <1>2 DEF Inv, Shape, LockShape, locks
<1>6. RowsAreExclusive'  BY <1>2 DEF Inv, RowsAreExclusive, locks
<1>7. Drafted(b)
  <2>1. CASE commands[k] = None  BY <1>1, <2>1, DraftsAreDrafted DEF Inv
  <2>2. CASE commands[k] # None  BY <1>1, <2>2 DEF Inv, CommandsStand, Stands, Tested
  <2>. QED  BY <2>1, <2>2
<1>8. Sent(p)'  BY <1>2, <1>3, <1>7 DEF Sent, Drafted, Recorded, rows
<1>9. Knows(p)'
  BY <1>3 DEF Knows, KnowsKey, KnowsOrigin, KnowsPredecessor, KnowsErased, KnowsQuoted, Past
<1>. QED  BY <1>2, <1>4, <1>5, <1>6, <1>8, <1>9, Moved

(* A step to a state of the transaction pc in which it has read.           *)
LEMMA Onwards ==
    ASSUME Inv, NEW p \in Procs, UNCHANGED rows, txn[p].pc # "idle",
           Alone(p), LockShape', RowsAreExclusive',
           txn'[p].key = txn[p].key, txn'[p].body = txn[p].body, Knows(p)'
    PROVE  Inv'
<1>1. Sent(p)'  BY DEF Inv, Shape, Sent, Drafted, Recorded, rows
<1>. QED  BY <1>1, Moved

LEMMA QuotingGoesOn ==
    ASSUME NEW p \in Procs, Quoting(p), UNCHANGED rows, rowLocks' = rowLocks,
           txn'[p].body = txn[p].body, txn'[p].read = txn[p].read
    PROVE  Quoting(p)'
<1> DEFINE b == txn[p].body
<1>1. Holds(p, "share")'  BY DEF Quoting, Holds
<1>2. Admissible(b)'
  <2>1. Admissible(b) /\ sources' = sources /\ b' = b  BY DEF Quoting, rows
  <2>. HIDE DEF b
  <2>2. LiveLeaf(b.source)'
    BY <2>1 DEF Admissible, LiveLeaf, Superseded, Recorded
  <2>3. /\ sources'[b'.source].version = b'.version
        /\ <<sources'[b'.source].text, sources'[b'.source].chunks>> \in Whole
        /\ b'.chunk \in DOMAIN sources'[b'.source].chunks
        /\ SpanExists(sources'[b'.source].chunks[b'.chunk].text, b'.start, b'.end)
    BY <2>1 DEF Admissible
  <2>. QED  BY <2>2, <2>3 DEF Admissible
<1>3. txn'[p].read = [class |-> Higher(SpaceClass, sources[b.source].class),
                      excerpt |-> Excerpt(b)]'
  BY DEF Quoting, Excerpt, rows
<1>. QED  BY <1>1, <1>2, <1>3 DEF Quoting

LEMMA ReserveStep ==
    ASSUME Inv, NEW p \in Procs, Reserve(p)
    PROVE  Inv'
<1> DEFINE k == txn[p].key
<1>1. /\ txn[p].pc = "reserve" /\ keyHolder[k] = None /\ commands[k] = None
      /\ keyHolder' = [keyHolder EXCEPT ![k] = p]
      /\ UNCHANGED rows /\ rowLocks' = rowLocks /\ advisory' = advisory
      /\ txn' = [txn EXCEPT ![p].pc = Reserved(txn[p].body.kind)]
  BY DEF Reserve, GoTo, Body
<1>2. Sent(p) /\ k \in Keys  BY <1>1 DEF Inv, Shape, Sent
<1>3. /\ Alone(p) /\ LockShape' /\ RowsAreExclusive'
      /\ txn'[p].pc = Reserved(txn[p].body.kind) /\ txn'[p].read = txn[p].read
      /\ txn'[p].key = txn[p].key /\ txn'[p].body = txn[p].body
  BY <1>1, <1>2, Advances DEF Inv, Shape
<1>4. Knows(p)  BY DEF Inv
<1>5. /\ txn'[p].pc \in {"commit", "select", "write"}
      /\ txn[p].body.kind \in {"content.create", "content.revise", "source.capture"} =>
            txn'[p].pc = "commit"
      /\ txn[p].body.kind = "source.correct" => txn'[p].pc = "select"
      /\ txn[p].body.kind \in {"source.tombstone", "claim.create"} => txn'[p].pc = "write"
  BY <1>2, <1>3 DEF Sent, Drafted, Kinds, Reserved
<1>6. KnowsKey(p)'
  BY <1>1, <1>2, <1>3 DEF KnowsKey, Inv, Shape, LockShape, rows
<1>7. KnowsOrigin(p)'
  BY <1>1, <1>3, <1>4, <1>5 DEF Knows, KnowsOrigin, Past, OriginMatches, rows
<1>8. KnowsPredecessor(p)'
  BY <1>1, <1>3, <1>4, <1>5 DEF Knows, KnowsPredecessor, Past, rows
<1>9. KnowsErased(p)'
  <2>1. txn[p].body.kind = "source.tombstone" => Holds(p, "update")
    BY <1>1, <1>4 DEF Knows, KnowsErased, Past
  <2>2. txn[p].body.kind = "source.tombstone" =>
          Holds(p, "update")' /\ txn'[p].pc = "write"
    BY <1>1, <1>3, <1>5, <2>1 DEF Holds
  <2>. QED  BY <1>3, <2>2 DEF KnowsErased, Past
<1>10. KnowsQuoted(p)'
  <2>1. txn[p].body.kind = "claim.create" => Quoting(p)
    BY <1>1, <1>4 DEF Knows, KnowsQuoted, Past
  <2>2. txn[p].body.kind = "claim.create" => Quoting(p)'
    BY <1>1, <1>3, <2>1, QuotingGoesOn
  <2>. QED  BY <1>3, <2>2 DEF KnowsQuoted, Past
<1>11. Knows(p)'  BY <1>6, <1>7, <1>8, <1>9, <1>10 DEF Knows
<1>. QED  BY <1>1, <1>3, <1>11, Onwards

LEMMA ContentSteps ==
    ASSUME Inv, NEW p \in Procs, CreateContent(p) \/ LockItem(p)
    PROVE  Inv'
<1>1. /\ UNCHANGED rows /\ txn[p].pc = "begun"
      /\ txn[p].body.kind \in {"content.create", "content.revise"}
  BY DEF CreateContent, LockItem, Does, At
<1>2. Sent(p)  BY <1>1 DEF Inv, Shape
<1>3. /\ Alone(p) /\ LockShape' /\ RowsAreExclusive'
      /\ txn'[p].pc = "reserve"
      /\ txn'[p].key = txn[p].key /\ txn'[p].body = txn[p].body
  <2>1. CASE CreateContent(p)
    BY <2>1, Advances DEF CreateContent, GoTo, locks, Inv, Shape
  <2>2. CASE LockItem(p)
    <3> DEFINE i == txn[p].body.base[1]
    <3>1. i \in Keys  BY <1>2, <2>2 DEF Sent, Drafted, LockItem, Does, At
    <3>2. /\ Lock(p, i, "update") /\ UNCHANGED <<keyHolder, advisory>>
          /\ txn' = [txn EXCEPT ![p].pc = "reserve", ![p].read = Len(revisions[i])]
      BY <2>2 DEF LockItem, Body
    <3>. HIDE DEF i
    <3>3. LockShape /\ RowsAreExclusive  BY DEF Inv, Shape
    <3>. QED  BY <3>1, <3>2, <3>3, Locks
  <2>. QED  BY <2>1, <2>2
<1>4. Knows(p)'
  BY <1>1, <1>3 DEF Knows, KnowsKey, KnowsOrigin, KnowsPredecessor, KnowsErased,
                    KnowsQuoted, Past
<1>. QED  BY <1>1, <1>3, <1>4, Onwards

LEMMA AdmitCaptureStep ==
    ASSUME Inv, NEW p \in Procs, AdmitCapture(p)
    PROVE  Inv'
<1>1. /\ UNCHANGED rows /\ UNCHANGED locks
      /\ txn[p].pc = "begun" /\ txn[p].body.kind = "source.capture"
      /\ OriginMatches(txn[p].body) /\ txn[p].body.text \in Usable
      /\ txn' = [txn EXCEPT ![p].pc = "reserve"]
  BY DEF AdmitCapture, Does, At, Passes, Body, GoTo
<1>2. /\ Alone(p) /\ LockShape' /\ RowsAreExclusive'
      /\ txn'[p].pc = "reserve"
      /\ txn'[p].key = txn[p].key /\ txn'[p].body = txn[p].body
  BY <1>1, Advances DEF locks, Inv, Shape
<1>3. KnowsOrigin(p)'  BY <1>1, <1>2 DEF KnowsOrigin, OriginMatches, rows
<1>4. Knows(p)'
  BY <1>1, <1>2, <1>3 DEF Knows, KnowsKey, KnowsPredecessor, KnowsErased,
                          KnowsQuoted, Past
<1>. QED  BY <1>1, <1>2, <1>4, Onwards

(* The steps of a correction before it writes.                             *)
LEMMA PredecessorSteps ==
    ASSUME Inv, NEW p \in Procs,
           ResolveLink(p) \/ SelectPredecessor(p) \/ LockPredecessor(p)
    PROVE  Inv'
<1> DEFINE b == txn[p].body
<1>1. /\ UNCHANGED rows /\ txn[p].pc \in {"begun", "select", "wait"}
      /\ b.kind = "source.correct"
  BY DEF ResolveLink, SelectPredecessor, LockPredecessor, Does, At
<1>2. Sent(p) /\ Knows(p) /\ LockShape /\ RowsAreExclusive
  BY <1>1 DEF Inv, Shape
<1>3. b.source \in SourceIds  BY <1>1, <1>2 DEF Sent, Drafted, Recorded
<1>4. /\ Alone(p) /\ LockShape' /\ RowsAreExclusive'
      /\ txn'[p].pc \in {"reserve", "wait", "recheck"}
      /\ txn'[p].pc = "recheck" => <<p, b.source, "update">> \in rowLocks'
      /\ txn[p].pc = "begun" => txn'[p].pc = "reserve"
      /\ txn'[p].key = txn[p].key /\ txn'[p].body = b
      /\ txn'[p].pc # "reserve" => keyHolder' = keyHolder /\ txn[p].pc \in {"select", "wait"}
  <2>1. CASE ResolveLink(p)
    <3>1. /\ txn[p].pc = "begun" /\ UNCHANGED locks
          /\ txn' = [txn EXCEPT ![p].pc = "reserve"]
      BY <2>1 DEF ResolveLink, Does, At, GoTo
    <3>2. /\ Alone(p) /\ LockShape' /\ RowsAreExclusive' /\ txn'[p].pc = "reserve"
          /\ txn'[p].key = txn[p].key /\ txn'[p].body = b
      BY <1>2, <3>1, Advances DEF locks
    <3>. QED  BY <3>1, <3>2 DEF locks
  <2>2. CASE SelectPredecessor(p)
    <3>1. /\ txn[p].pc = "select" /\ UNCHANGED locks
          /\ txn' = [txn EXCEPT ![p].pc = "wait"]
      BY <2>2 DEF SelectPredecessor, Does, At, GoTo
    <3>2. /\ Alone(p) /\ LockShape' /\ RowsAreExclusive' /\ txn'[p].pc = "wait"
          /\ txn'[p].key = txn[p].key /\ txn'[p].body = b
      BY <1>2, <3>1, Advances DEF locks
    <3>. QED  BY <3>1, <3>2 DEF locks
  <2>3. CASE LockPredecessor(p)
    <3>1. /\ Lock(p, b.source, "update") /\ UNCHANGED <<keyHolder, advisory>>
          /\ txn[p].pc = "wait" /\ txn' = [txn EXCEPT ![p].pc = "recheck"]
      BY <2>3 DEF LockPredecessor, Does, At, Body, GoTo
    <3>. QED  BY <1>2, <1>3, <3>1, Locks
  <2>. QED  BY <2>1, <2>2, <2>3
<1>5. b.activity = sources[b.source].activity
  <2>1. CASE ResolveLink(p)  BY <2>1 DEF ResolveLink, Does, Passes, Body
  <2>2. CASE txn[p].pc \in {"select", "wait"}
    BY <1>1, <1>2, <2>2 DEF Knows, KnowsPredecessor, Past
  <2>. QED  BY <2>1, <2>2 DEF SelectPredecessor, LockPredecessor, Does, At
<1>6. KnowsPredecessor(p)'
  BY <1>1, <1>4, <1>5 DEF KnowsPredecessor, Past, Holds, rows
<1>7. KnowsKey(p)'
  BY <1>1, <1>2, <1>4 DEF Knows, KnowsKey, rows
<1>8. Knows(p)'
  BY <1>1, <1>4, <1>6, <1>7 DEF Knows, KnowsOrigin, KnowsErased, KnowsQuoted, Past
<1>. QED  BY <1>1, <1>4, <1>8, Onwards

LEMMA RecheckStep ==
    ASSUME Inv, NEW p \in Procs, RecheckPredecessor(p)
    PROVE  Inv'
<1> DEFINE b == txn[p].body
           r == SourceClass(b.class, sources[b.source].class)
<1>1. /\ UNCHANGED rows /\ UNCHANGED locks
      /\ txn[p].pc = "recheck" /\ b.kind = "source.correct"
      /\ LiveLeaf(b.source) /\ b.text \in Usable
      /\ txn' = [txn EXCEPT ![p].pc = "write", ![p].read = r]
  BY DEF RecheckPredecessor, Does, At, Passes, Body, StillLiveLeaf
<1>2. Sent(p) /\ Knows(p) /\ LockShape /\ RowsAreExclusive
  BY <1>1 DEF Inv, Shape
<1>3. b.source \in Recorded /\ b.class \in Classes
  BY <1>1, <1>2 DEF Sent, Drafted
<1>4. sources[b.source].class \in Classes
  BY <1>3 DEF Inv, Shape, RowShape, SourceRows, Recorded, NoSource
<1>5. r \in Classes /\ sources[b.source].class <= r
  BY <1>3, <1>4, SourceClassBounds
<1>. HIDE DEF r
<1>6. /\ Alone(p) /\ LockShape' /\ RowsAreExclusive'
      /\ txn'[p].pc = "write" /\ txn'[p].read = r
      /\ txn'[p].key = txn[p].key /\ txn'[p].body = b
  BY <1>1, <1>2, Advances DEF locks
<1>7. KnowsPredecessor(p)'
  <2>1. Holds(p, "update") /\ b.activity = sources[b.source].activity
    BY <1>1, <1>2 DEF Knows, KnowsPredecessor, Past
  <2>2. Holds(p, "update")'  BY <1>1, <1>6, <2>1 DEF Holds, locks
  <2>3. LiveLeaf(txn[p].body.source)'
    BY <1>1, <1>6 DEF LiveLeaf, Superseded, Recorded, rows
  <2>. QED  BY <1>1, <1>5, <1>6, <2>1, <2>2, <2>3 DEF KnowsPredecessor, Past, rows
<1>8. KnowsKey(p)'
  BY <1>1, <1>2, <1>6 DEF Knows, KnowsKey, rows, locks
<1>9. Knows(p)'
  BY <1>1, <1>6, <1>7, <1>8 DEF Knows, KnowsOrigin, KnowsErased, KnowsQuoted, Past
<1>. QED  BY <1>1, <1>6, <1>9, Onwards

(* A write takes the advisory lock of the source.                          *)
LEMMA Written ==
    ASSUME Inv, NEW p \in Procs, NEW kind, Write(p, kind),
           kind \in {"source.correct", "source.tombstone", "claim.create"}
    PROVE  /\ UNCHANGED rows /\ UNCHANGED <<keyHolder, rowLocks>>
           /\ txn[p].pc = "write" /\ txn[p].body.kind = kind
           /\ Alone(p) /\ LockShape' /\ RowsAreExclusive'
           /\ txn'[p].pc = "commit" /\ txn'[p].read = txn[p].read
           /\ txn'[p].key = txn[p].key /\ txn'[p].body = txn[p].body
           /\ Knows(p) /\ KnowsKey(p)'
<1>1. /\ UNCHANGED rows /\ UNCHANGED <<keyHolder, rowLocks>>
      /\ txn[p].pc = "write" /\ txn[p].body.kind = kind
      /\ txn' = [txn EXCEPT ![p].pc = "commit"]
      /\ advisory' = [advisory EXCEPT ![txn[p].body.source] = p]
  BY DEF Write, Does, At, Body, GoTo
<1>2. Sent(p) /\ Knows(p) /\ LockShape /\ RowsAreExclusive
  BY <1>1 DEF Inv, Shape
<1>3. txn[p].body.source \in SourceIds
  BY <1>1, <1>2 DEF Sent, Drafted, Recorded
<1>4. /\ Alone(p) /\ LockShape' /\ RowsAreExclusive'
      /\ txn'[p].pc = "commit" /\ txn'[p].read = txn[p].read
      /\ txn'[p].key = txn[p].key /\ txn'[p].body = txn[p].body
  BY <1>1, <1>2, <1>3, Advances
<1>5. KnowsKey(p)'  BY <1>1, <1>2, <1>4 DEF Knows, KnowsKey, rows
<1>. QED  BY <1>1, <1>2, <1>4, <1>5

LEMMA WriteCorrectionStep ==
    ASSUME Inv, NEW p \in Procs, WriteCorrection(p)
    PROVE  Inv'
<1> DEFINE b == txn[p].body
<1>1. /\ UNCHANGED rows /\ UNCHANGED <<keyHolder, rowLocks>>
      /\ txn[p].pc = "write" /\ b.kind = "source.correct"
      /\ Alone(p) /\ LockShape' /\ RowsAreExclusive'
      /\ txn'[p].pc = "commit" /\ txn'[p].read = txn[p].read
      /\ txn'[p].key = txn[p].key /\ txn'[p].body = b
      /\ Knows(p) /\ KnowsKey(p)'
  BY Written DEF WriteCorrection
<1>2. Unquoted(b.source)  BY <1>1 DEF WriteCorrection, Write, Does, Passes, At, Body
<1>3. KnowsPredecessor(p)'
  <2>1. /\ Holds(p, "update") /\ b.activity = sources[b.source].activity
        /\ LiveLeaf(b.source) /\ b.text \in Usable
        /\ txn[p].read \in Classes /\ sources[b.source].class <= txn[p].read
    BY <1>1 DEF Knows, KnowsPredecessor, Past
  <2>2. Holds(p, "update")'  BY <1>1, <2>1 DEF Holds
  <2>3. LiveLeaf(txn[p].body.source)'
    BY <1>1, <2>1 DEF LiveLeaf, Superseded, Recorded, rows
  <2>4. Unquoted(txn[p].body.source)'  BY <1>1, <1>2 DEF Unquoted, rows
  <2>. QED  BY <1>1, <2>1, <2>2, <2>3, <2>4 DEF KnowsPredecessor, Past, rows
<1>4. Knows(p)'
  BY <1>1, <1>3 DEF Knows, KnowsOrigin, KnowsErased, KnowsQuoted, Past
<1>. QED  BY <1>1, <1>4, Onwards

LEMMA WriteTombstoneStep ==
    ASSUME Inv, NEW p \in Procs, WriteTombstone(p)
    PROVE  Inv'
<1> DEFINE b == txn[p].body
<1>1. /\ UNCHANGED rows /\ UNCHANGED <<keyHolder, rowLocks>>
      /\ txn[p].pc = "write" /\ b.kind = "source.tombstone"
      /\ Alone(p) /\ LockShape' /\ RowsAreExclusive'
      /\ txn'[p].pc = "commit" /\ txn'[p].read = txn[p].read
      /\ txn'[p].key = txn[p].key /\ txn'[p].body = b
      /\ Knows(p) /\ KnowsKey(p)'
  BY Written DEF WriteTombstone
<1>2. sources[b.source].status = "live" /\ Unquoted(b.source)
  BY <1>1 DEF WriteTombstone, Write, Does, Passes, At, Body
<1>3. KnowsErased(p)'
  <2>1. Holds(p, "update")  BY <1>1 DEF Knows, KnowsErased, Past
  <2>2. Holds(p, "update")'  BY <1>1, <2>1 DEF Holds
  <2>3. Unquoted(txn[p].body.source)'  BY <1>1, <1>2 DEF Unquoted, rows
  <2>. QED  BY <1>1, <1>2, <2>2, <2>3 DEF KnowsErased, rows
<1>4. Knows(p)'
  BY <1>1, <1>3 DEF Knows, KnowsOrigin, KnowsPredecessor, KnowsQuoted, Past
<1>. QED  BY <1>1, <1>4, Onwards

LEMMA WriteEvidenceStep ==
    ASSUME Inv, NEW p \in Procs, WriteEvidence(p)
    PROVE  Inv'
<1>1. /\ UNCHANGED rows /\ UNCHANGED <<keyHolder, rowLocks>>
      /\ txn[p].pc = "write" /\ txn[p].body.kind = "claim.create"
      /\ Alone(p) /\ LockShape' /\ RowsAreExclusive'
      /\ txn'[p].pc = "commit" /\ txn'[p].read = txn[p].read
      /\ txn'[p].key = txn[p].key /\ txn'[p].body = txn[p].body
      /\ Knows(p) /\ KnowsKey(p)'
  BY Written DEF WriteEvidence
<1>2. Quoting(p)  BY <1>1 DEF Knows, KnowsQuoted, Past
<1>3. Quoting(p)'  BY <1>1, <1>2, QuotingGoesOn
<1>4. Knows(p)'
  BY <1>1, <1>3 DEF Knows, KnowsOrigin, KnowsPredecessor, KnowsErased, KnowsQuoted, Past
<1>. QED  BY <1>1, <1>4, Onwards

LEMMA LockSourceStep ==
    ASSUME Inv, NEW p \in Procs, LockSource(p)
    PROVE  Inv'
<1> DEFINE s == txn[p].body.source
<1>1. /\ UNCHANGED rows /\ txn[p].pc = "begun" /\ txn[p].body.kind = "source.tombstone"
      /\ Lock(p, s, "update") /\ UNCHANGED <<keyHolder, advisory>>
      /\ txn' = [txn EXCEPT ![p].pc = "reserve"]
  BY DEF LockSource, Does, At, Body, GoTo
<1>2. LockShape /\ RowsAreExclusive /\ s \in SourceIds
  BY <1>1 DEF Inv, Shape, Sent, Drafted, Recorded
<1>3. /\ Alone(p) /\ LockShape' /\ RowsAreExclusive'
      /\ txn'[p].pc = "reserve" /\ txn'[p].key = txn[p].key
      /\ txn'[p].body = txn[p].body /\ <<p, s, "update">> \in rowLocks'
  BY <1>1, <1>2, Locks
<1>4. KnowsErased(p)'  BY <1>3 DEF KnowsErased, Past, Holds
<1>5. Knows(p)'
  BY <1>1, <1>3, <1>4 DEF Knows, KnowsKey, KnowsOrigin, KnowsPredecessor, KnowsQuoted, Past
<1>. QED  BY <1>1, <1>3, <1>5, Onwards

LEMMA AdmitEvidenceStep ==
    ASSUME Inv, NEW p \in Procs, AdmitEvidence(p)
    PROVE  Inv'
<1> DEFINE b == txn[p].body
           r == [class |-> Higher(SpaceClass, sources[b.source].class), excerpt |-> Excerpt(b)]
<1>1. /\ UNCHANGED rows /\ txn[p].pc = "begun" /\ b.kind = "claim.create"
      /\ Admissible(b)
      /\ Lock(p, b.source, "share") /\ UNCHANGED <<keyHolder, advisory>>
      /\ txn' = [txn EXCEPT ![p].pc = "reserve", ![p].read = r]
  BY DEF AdmitEvidence, Does, At, Passes, Body
<1>2. LockShape /\ RowsAreExclusive /\ b.source \in SourceIds
  BY <1>1 DEF Inv, Shape, Sent, Drafted, Recorded
<1>3. r' = [class |-> Higher(SpaceClass, sources[b'.source].class),
            excerpt |-> Span(sources[b'.source].chunks[b'.chunk].text, b'.start, b'.end)]
  BY <1>1 DEF rows, Excerpt
<1>4. /\ Alone(p) /\ LockShape' /\ RowsAreExclusive'
      /\ txn'[p].pc = "reserve" /\ txn'[p].key = txn[p].key
      /\ txn'[p].body = b /\ txn'[p].read = r /\ <<p, b.source, "share">> \in rowLocks'
  <2>. HIDE DEF r, b
  <2>1. "share" \in {"share", "update"} /\ b.source \in Keys \cup SourceIds  BY <1>2
  <2>2. LockShape /\ RowsAreExclusive /\ Lock(p, b.source, "share")
        /\ UNCHANGED <<keyHolder, advisory>>
        /\ txn' = [txn EXCEPT ![p].pc = "reserve", ![p].read = r]
    BY <1>1, <1>2
  <2>3. /\ Alone(p) /\ LockShape' /\ RowsAreExclusive'
        /\ txn'[p].pc = "reserve" /\ txn'[p].read = r
        /\ txn'[p].key = txn[p].key /\ txn'[p].body = txn[p].body
        /\ <<p, b.source, "share">> \in rowLocks'
    BY <2>1, <2>2, Locks
  <2>. QED  BY <2>3 DEF b
<1>5. Quoting(p)'
  <2>1. Holds(p, "share")'  BY <1>4 DEF Holds
  <2>2. Admissible(txn[p].body)'
    <3>1. sources' = sources /\ b' = b  BY <1>1, <1>4 DEF rows
    <3>. HIDE DEF b
    <3>2. LiveLeaf(b.source)'
      BY <1>1, <3>1 DEF Admissible, LiveLeaf, Superseded, Recorded
    <3>3. Admissible(b)'  BY <1>1, <3>1, <3>2 DEF Admissible
    <3>. QED  BY <3>3 DEF b
  <2>3. txn'[p].read = r'  BY <1>1, <1>3, <1>4 DEF Excerpt, rows
  <2>. QED  BY <2>1, <2>2, <2>3 DEF Quoting
<1>6. Knows(p)'
  BY <1>1, <1>4, <1>5 DEF Knows, KnowsKey, KnowsOrigin, KnowsPredecessor, KnowsErased,
                          KnowsQuoted, Past
<1>. QED  BY <1>1, <1>4, <1>6, Onwards

-----------------------------------------------------------------------------
(***************************************************************************)
(* What a commit leaves as it is.                                          *)
(***************************************************************************)
(* Revisions are appended; a recorded source is the source it was.         *)
Grows ==
    /\ \A i \in Keys : \A r \in DOMAIN revisions[i] :
          r \in DOMAIN revisions'[i] /\ revisions'[i][r] = revisions[i][r]
    /\ \A s \in Recorded :
          /\ sources'[s].status # "none"
          /\ sources'[s].activity = sources[s].activity
          /\ sources'[s].class = sources[s].class
          /\ sources'[s].supersedes = sources[s].supersedes
          /\ sources'[s].origin = sources[s].origin
          /\ sources'[s].key = sources[s].key

Spares(s) ==
    /\ sources'[s] = sources[s]
    /\ (\A t \in SourceIds : sources[t].supersedes # s) =>
          \A t \in SourceIds : sources'[t].supersedes # s

SparesQuotes(s) == Unquoted(s) => \A e \in evidence' : e.source # s

(* A commit of p touches neither what is quoted nor what others hold.      *)
Harmless(p) ==
    /\ evidence \subseteq evidence'
    /\ \A s \in Recorded : ~Unquoted(s) => Spares(s)
    /\ \A q \in Procs \ {p}, s \in Recorded :
          /\ <<q, s, "update">> \in rowLocks => Spares(s) /\ SparesQuotes(s)
          /\ <<q, s, "share">> \in rowLocks => Spares(s)

LEMMA LeafOf ==
    ASSUME RowShape, NEW s \in SourceIds
    PROVE  LiveLeaf(s) <=>
             sources[s].status = "live" /\ \A t \in SourceIds : sources[t].supersedes # s
<1>1. None \notin SourceIds  BY LifecycleAssumption
<1>2. \A t \in SourceIds : sources[t].status = "none" => sources[t] = NoSource
  BY DEF RowShape, SourceRows
<1>3. NoSource.supersedes = None  BY DEF NoSource
<1>. QED  BY <1>1, <1>2, <1>3 DEF LiveLeaf, Superseded, Recorded

(* The end of a transaction that commits.                                  *)
LEMMA Committed ==
    ASSUME Inv, NEW p \in Procs, txn[p].pc = "commit", Complete(p)
    PROVE  LET k == txn[p].key IN
           /\ Sent(p) /\ Knows(p) /\ commands[k] = None
           /\ Alone(p) /\ LockShape' /\ RowsAreExclusive' /\ Knows(p)' /\ txn'[p].pc = "idle"
           /\ DOMAIN commands' = Keys /\ commands'[k] = txn[p].body
           /\ \A j \in Keys \ {k} : commands'[j] = commands[j]
           /\ outbox' \in [Keys -> Seq(Kinds)]
           /\ outbox'[k] = Append(outbox[k], txn[p].body.kind)
           /\ \A j \in Keys \ {k} : outbox'[j] = outbox[j]
           /\ cast' = cast
           /\ \A q \in Procs \ {p} : KnowsKey(q)'
<1> DEFINE k == txn[p].key
<1>1. Sent(p) /\ Knows(p) /\ LockShape /\ RowsAreExclusive /\ RowShape
  BY DEF Inv, Shape
<1>2. k \in Keys /\ keyHolder[k] = p /\ commands[k] = None
  BY <1>1 DEF Sent, Knows, KnowsKey
<1>3. /\ commands' = [commands EXCEPT ![k] = txn[p].body]
      /\ outbox' = [outbox EXCEPT ![k] = Append(@, txn[p].body.kind)]
      /\ End(p) /\ cast' = cast
  BY DEF Complete, Body
<1>4. Alone(p) /\ LockShape' /\ RowsAreExclusive' /\ txn'[p] = Idle
  BY <1>1, <1>3, Ends
<1>5. txn'[p].pc = "idle"  BY <1>4 DEF Idle
<1>6. Knows(p)'
  BY <1>5 DEF Knows, KnowsKey, KnowsOrigin, KnowsPredecessor, KnowsErased, KnowsQuoted, Past
<1>7. /\ DOMAIN commands' = Keys /\ commands'[k] = txn[p].body
      /\ \A j \in Keys \ {k} : commands'[j] = commands[j]
  BY <1>1, <1>2, <1>3 DEF RowShape
<1>8. txn[p].body.kind \in Kinds  BY <1>1 DEF Sent, Drafted
<1>9. /\ outbox' \in [Keys -> Seq(Kinds)]
      /\ outbox'[k] = Append(outbox[k], txn[p].body.kind)
      /\ \A j \in Keys \ {k} : outbox'[j] = outbox[j]
  BY <1>1, <1>2, <1>3, <1>8 DEF RowShape
<1>10. ASSUME NEW q \in Procs \ {p}  PROVE KnowsKey(q)'
  <2>1. txn'[q] = txn[q]  BY <1>4 DEF Alone
  <2>2. CASE txn[q].pc \in {"idle", "begun", "reserve"}  BY <2>1, <2>2 DEF KnowsKey
  <2>3. CASE txn[q].pc \notin {"idle", "begun", "reserve"}
    <3>1. txn[q].key \in Keys /\ keyHolder[txn[q].key] = q /\ commands[txn[q].key] = None
      BY <2>3 DEF Inv, Shape, Sent, Knows, KnowsKey
    <3>2. txn[q].key # k  BY <1>2, <3>1
    <3>3. keyHolder'[txn[q].key] = q  BY <1>4, <3>1 DEF Alone
    <3>. QED  BY <1>7, <2>1, <3>1, <3>2, <3>3 DEF KnowsKey
  <2>. QED  BY <2>2, <2>3
<1>. QED  BY <1>1, <1>2, <1>3, <1>4, <1>5, <1>6, <1>7, <1>9, <1>10

LEMMA OthersKeepDrafts ==
    ASSUME Inv, Grows, NEW q \in Procs, txn'[q] = txn[q], txn[q].pc # "idle"
    PROVE  Sent(q) /\ Sent(q)'
<1> DEFINE b == txn[q].body
<1>1. Sent(q) /\ txn'[q].body = b /\ txn'[q].key = txn[q].key  BY DEF Inv, Shape
<1>2. \A s : s \in Recorded => s \in Recorded'  BY DEF Grows, Recorded
<1>3. \A i \in Keys : DOMAIN revisions[i] \subseteq DOMAIN revisions'[i]  BY DEF Grows
<1>. HIDE DEF b
<1>4. Drafted(b)  BY <1>1 DEF Sent, b
<1>5. /\ b.kind = "content.revise" => b.base[2] \in DOMAIN revisions'[b.base[1]]
      /\ b.kind = "source.capture" /\ b.origin # None =>
            b.origin[2] \in DOMAIN revisions'[b.origin[1]]
      /\ b.kind \in {"source.correct", "source.tombstone", "claim.create"} =>
            b.source \in Recorded'
  BY <1>2, <1>3, <1>4 DEF Drafted
<1>. QED  BY <1>1, <1>4, <1>5 DEF Sent, Drafted, b

LEMMA OthersKnowAfterCommit ==
    ASSUME Inv, Grows, NEW p \in Procs, Harmless(p), Alone(p),
           NEW q \in Procs \ {p}, KnowsKey(q)'
    PROVE  Knows(q)' /\ (txn'[q].pc # "idle" => Sent(q)')
<1> DEFINE b == txn[q].body
<1>1. txn'[q] = txn[q]  BY DEF Alone
<1>2. \A r, m : <<q, r, m>> \in rowLocks => <<q, r, m>> \in rowLocks'  BY DEF Alone
<1>3. CASE txn[q].pc = "idle"
  BY <1>1, <1>3 DEF Knows, KnowsKey, KnowsOrigin, KnowsPredecessor, KnowsErased,
                    KnowsQuoted, Past
<1>4. CASE txn[q].pc # "idle"
  <2>1. Sent(q) /\ Sent(q)'  BY <1>1, <1>4, OthersKeepDrafts
  <2>2. Knows(q) /\ RowShape  BY DEF Inv, Shape
  <2>3. Drafted(b)  BY <2>1 DEF Sent
  <2>4. KnowsOrigin(q)'
    <3>1. CASE Past(q, "source.capture", {"reserve", "commit"})
      <4>1. OriginMatches(b) /\ b.text \in Usable  BY <2>2, <3>1 DEF Knows, KnowsOrigin
      <4>2. b.kind = "source.capture"  BY <3>1 DEF Past
      <4>3. OriginMatches(txn[q].body)'
        BY <1>1, <2>3, <4>1, <4>2 DEF OriginMatches, Drafted, Grows
      <4>. QED  BY <1>1, <4>1, <4>3 DEF KnowsOrigin
    <3>2. CASE ~Past(q, "source.capture", {"reserve", "commit"})
      BY <1>1, <3>2 DEF KnowsOrigin, Past
    <3>. QED  BY <3>1, <3>2
  <2>5. ASSUME b.kind \in {"source.correct", "source.tombstone", "claim.create"}
        PROVE  /\ b.source \in Recorded /\ b.source \in SourceIds
               /\ <<q, b.source, "update">> \in rowLocks =>
                     Spares(b.source) /\ SparesQuotes(b.source)
               /\ <<q, b.source, "share">> \in rowLocks => Spares(b.source)
    <3>1. b.source \in Recorded  BY <2>3, <2>5 DEF Drafted
    <3>. QED  BY <3>1 DEF Harmless, Recorded
  <2>6. ASSUME b.source \in SourceIds, LiveLeaf(b.source), Spares(b.source)
        PROVE  LiveLeaf(txn[q].body.source)'
    <3>1. /\ sources[b.source].status = "live"
          /\ \A t \in SourceIds : sources[t].supersedes # b.source
      BY <2>2, <2>6, LeafOf
    <3>2. /\ sources'[b.source].status = "live"
          /\ \A t \in SourceIds : sources'[t].supersedes # b.source
      BY <2>6, <3>1 DEF Spares
    <3>. QED  BY <1>1, <3>2 DEF LiveLeaf, Superseded, Recorded
  <2>7. KnowsPredecessor(q)'
    <3>1. CASE b.kind = "source.correct"
      <4>1. /\ txn[q].pc \in {"reserve", "select", "wait", "recheck", "write", "commit"} =>
                  b.activity = sources[b.source].activity
            /\ txn[q].pc \in {"recheck", "write", "commit"} => Holds(q, "update")
            /\ txn[q].pc \in {"write", "commit"} =>
                  /\ LiveLeaf(b.source) /\ b.text \in Usable
                  /\ txn[q].read \in Classes /\ sources[b.source].class <= txn[q].read
            /\ txn[q].pc = "commit" => Unquoted(b.source)
        BY <2>2, <3>1 DEF Knows, KnowsPredecessor, Past
      <4>2. b.source \in Recorded /\ b.source \in SourceIds  BY <2>5, <3>1
      <4>3. /\ sources'[b.source].activity = sources[b.source].activity
            /\ sources'[b.source].class = sources[b.source].class
        BY <4>2 DEF Grows
      <4>4. txn[q].pc \in {"recheck", "write", "commit"} =>
               Holds(q, "update")' /\ Spares(b.source) /\ SparesQuotes(b.source)
        BY <1>1, <1>2, <2>5, <3>1, <4>1 DEF Holds
      <4>5. txn[q].pc \in {"write", "commit"} => LiveLeaf(txn[q].body.source)'
        BY <2>6, <4>1, <4>2, <4>4
      <4>6. txn[q].pc = "commit" => Unquoted(txn[q].body.source)'
        BY <1>1, <4>1, <4>4 DEF SparesQuotes, Unquoted
      <4>. QED  BY <1>1, <4>1, <4>3, <4>4, <4>5, <4>6 DEF KnowsPredecessor, Past
    <3>2. CASE b.kind # "source.correct"  BY <1>1, <3>2 DEF KnowsPredecessor, Past
    <3>. QED  BY <3>1, <3>2
  <2>8. KnowsErased(q)'
    <3>1. CASE b.kind = "source.tombstone"
      <4>1. /\ txn[q].pc \in {"reserve", "write", "commit"} => Holds(q, "update")
            /\ txn[q].pc = "commit" =>
                  sources[b.source].status = "live" /\ Unquoted(b.source)
        BY <2>2, <3>1 DEF Knows, KnowsErased, Past
      <4>2. txn[q].pc \in {"reserve", "write", "commit"} =>
               Holds(q, "update")' /\ Spares(b.source) /\ SparesQuotes(b.source)
        BY <1>1, <1>2, <2>5, <3>1, <4>1 DEF Holds
      <4>3. txn[q].pc = "commit" =>
               sources'[b.source].status = "live" /\ Unquoted(txn[q].body.source)'
        BY <1>1, <4>1, <4>2 DEF Spares, SparesQuotes, Unquoted
      <4>. QED  BY <1>1, <4>2, <4>3 DEF KnowsErased, Past
    <3>2. CASE b.kind # "source.tombstone"  BY <1>1, <3>2 DEF KnowsErased, Past
    <3>. QED  BY <3>1, <3>2
  <2>9. KnowsQuoted(q)'
    <3>1. CASE Past(q, "claim.create", {"reserve", "write", "commit"})
      <4>1. Quoting(q) /\ b.kind = "claim.create"  BY <2>2, <3>1 DEF Knows, KnowsQuoted, Past
      <4>2. /\ Spares(b.source) /\ b.source \in SourceIds
            /\ Holds(q, "share")' /\ sources'[b.source] = sources[b.source]
        BY <1>1, <1>2, <2>5, <4>1 DEF Quoting, Holds, Spares
      <4>3. Admissible(b)  BY <4>1 DEF Quoting
      <4>4. LiveLeaf(txn[q].body.source)'  BY <2>6, <4>2, <4>3 DEF Admissible
      <4>5. /\ sources'[b.source].version = b.version
            /\ <<sources'[b.source].text, sources'[b.source].chunks>> \in Whole
            /\ b.chunk \in DOMAIN sources'[b.source].chunks
            /\ SpanExists(sources'[b.source].chunks[b.chunk].text, b.start, b.end)
        BY <4>2, <4>3 DEF Admissible
      <4>6. Admissible(txn[q].body)'  BY <1>1, <4>4, <4>5 DEF Admissible
      <4>7. txn'[q].read = [class |-> Higher(SpaceClass, sources'[b.source].class),
                            excerpt |-> Span(sources'[b.source].chunks[b.chunk].text,
                                             b.start, b.end)]
        BY <1>1, <4>1, <4>2 DEF Quoting, Excerpt
      <4>. QED  BY <1>1, <4>2, <4>6, <4>7 DEF KnowsQuoted, Quoting, Excerpt
    <3>2. CASE ~Past(q, "claim.create", {"reserve", "write", "commit"})
      BY <1>1, <3>2 DEF KnowsQuoted, Past
    <3>. QED  BY <3>1, <3>2
  <2>. QED  BY <2>1, <2>4, <2>7, <2>8, <2>9 DEF Knows
<1>. QED  BY <1>3, <1>4

LEMMA StandsAfterCommit ==
    ASSUME Inv, Grows, NEW p \in Procs, Harmless(p), NEW b,
           Tested(b),
           b.kind = "content.revise" => b.base[2] + 1 \in DOMAIN revisions'[b.base[1]],
           b.kind = "claim.create" =>
              Spares(b.source) /\ \E e \in evidence' : e.source = b.source
    PROVE  Stands(b)'
<1>1. Drafted(b)  BY DEF Tested
<1>2. RowShape  BY DEF Inv, Shape
<1>3. Drafted(b)'
  <2>1. \A s : s \in Recorded => s \in Recorded'  BY DEF Grows, Recorded
  <2>2. \A i \in Keys : DOMAIN revisions[i] \subseteq DOMAIN revisions'[i]  BY DEF Grows
  <2>3. /\ b.kind = "content.revise" => b.base[2] \in DOMAIN revisions'[b.base[1]]
        /\ b.kind = "source.capture" /\ b.origin # None =>
              b.origin[2] \in DOMAIN revisions'[b.origin[1]]
        /\ b.kind \in {"source.correct", "source.tombstone", "claim.create"} =>
              b.source \in Recorded'
    BY <1>1, <2>1, <2>2 DEF Drafted
  <2>. QED  BY <1>1, <2>3 DEF Drafted
<1>4. ASSUME b.kind = "source.capture"
      PROVE  OriginMatches(b)' /\ b.text \in Usable
  <2>1. OriginMatches(b) /\ b.text \in Usable  BY <1>4 DEF Tested
  <2>. QED  BY <1>1, <1>4, <2>1 DEF OriginMatches, Drafted, Grows
<1>5. ASSUME b.kind = "source.correct"
      PROVE  b.activity = sources'[b.source].activity
  BY <1>1, <1>5 DEF Tested, Drafted, Grows
<1>6. ASSUME b.kind = "claim.create"
      PROVE  Admissible(b)' /\ \E e \in evidence' : e.source = b.source
  <2>1. b.source \in Recorded /\ b.source \in SourceIds
    BY <1>1, <1>6 DEF Drafted, Recorded
  <2>2. Admissible(b) /\ Spares(b.source) /\ \E e \in evidence' : e.source = b.source
    BY <1>6 DEF Tested
  <2>3. /\ sources[b.source].status = "live"
        /\ \A t \in SourceIds : sources[t].supersedes # b.source
    BY <1>2, <2>1, <2>2, LeafOf DEF Admissible
  <2>4. LiveLeaf(b.source)'
    BY <2>2, <2>3 DEF Spares, LiveLeaf, Superseded, Recorded
  <2>5. sources'[b.source] = sources[b.source]  BY <2>2 DEF Spares
  <2>6. Admissible(b)'  BY <2>2, <2>4, <2>5 DEF Admissible
  <2>. QED  BY <2>2, <2>6
<1>. QED  BY <1>3, <1>4, <1>5, <1>6 DEF Stands, Tested

(* A commit that grows the tables and is harmless.                         *)
LEMMA CommitKeeps ==
    ASSUME Inv, NEW p \in Procs, txn[p].pc = "commit", Complete(p),
           RowShape', Grows, Harmless(p),
           txn[p].body.kind = "content.revise" =>
              txn[p].body.base[2] + 1 \in DOMAIN revisions'[txn[p].body.base[1]],
           txn[p].body.kind = "claim.create" =>
              /\ Spares(txn[p].body.source)
              /\ \E e \in evidence' : e.source = txn[p].body.source
    PROVE  Shape' /\ RowsAreExclusive' /\ CommandsStand' /\ \A q \in Procs : Knows(q)'
<1> DEFINE k == txn[p].key
           b == txn[p].body
<1>1. /\ Sent(p) /\ Knows(p)
      /\ Alone(p) /\ LockShape' /\ RowsAreExclusive' /\ Knows(p)' /\ txn'[p].pc = "idle"
      /\ DOMAIN commands' = Keys /\ commands'[k] = b
      /\ \A j \in Keys \ {k} : commands'[j] = commands[j]
      /\ \A q \in Procs \ {p} : KnowsKey(q)'
  BY Committed
<1>2. \A q \in Procs : Knows(q)' /\ (txn'[q].pc # "idle" => Sent(q)')
  BY <1>1, OthersKnowAfterCommit
<1>3. Drafted(b)  BY <1>1 DEF Sent
<1>4. ASSUME NEW j \in Keys, NEW c \in {commands'[j]} \ {None}
      PROVE  Stands(c)'
  <2>1. CASE j # k
    <3>1. Stands(c)  BY <1>1, <1>4, <2>1 DEF Inv, CommandsStand
    <3>2. c.kind = "claim.create" =>
             Spares(c.source) /\ \E e \in evidence' : e.source = c.source
      BY <3>1 DEF Stands, Tested, Drafted, Harmless, Unquoted
    <3>3. c.kind = "content.revise" => c.base[2] + 1 \in DOMAIN revisions'[c.base[1]]
      BY <3>1 DEF Stands, Tested, Drafted, Grows
    <3>. QED  BY <3>1, <3>2, <3>3, StandsAfterCommit DEF Stands
  <2>2. CASE j = k
    <3>1. c = b  BY <1>1, <2>2
    <3>2. /\ b.kind = "source.capture" => OriginMatches(b) /\ b.text \in Usable
          /\ b.kind = "source.correct" => b.activity = sources[b.source].activity
      BY <1>1 DEF Knows, KnowsOrigin, KnowsPredecessor, Past
    <3>3. b.kind = "claim.create" => Admissible(b)
      BY <1>1 DEF Knows, KnowsQuoted, Past, Quoting
    <3>4. Tested(b)  BY <1>3, <3>2, <3>3 DEF Tested
    <3>. QED  BY <3>1, <3>4, StandsAfterCommit
  <2>. QED  BY <2>1, <2>2
<1>5. CommandsStand'  BY <1>4 DEF CommandsStand
<1>. QED  BY <1>1, <1>2, <1>5 DEF Shape

(* What was quoted before the commit still stands.                         *)
LEMMA QuotesStand ==
    ASSUME Inv, NEW p \in Procs, Harmless(p), NEW e \in evidence
    PROVE  /\ e.source \in SourceIds /\ e.source \in Recorded'
           /\ sources'[e.source].status = "live"
           /\ \A t \in SourceIds : sources'[t].supersedes # e.source
           /\ sources'[e.source].version = e.version
           /\ sources'[e.source].class <= e.class
<1>1. e.source \in Recorded /\ ~Unquoted(e.source)
  BY DEF Inv, EvidenceIsOfSources, Unquoted
<1>2. Spares(e.source)  BY <1>1 DEF Harmless
<1>. QED  BY <1>1, <1>2 DEF Spares, Inv, EvidenceStands, Recorded

LEMMA QuotesStandAfter ==
    ASSUME Inv, NEW p \in Procs, Harmless(p), evidence' = evidence
    PROVE  EvidenceIsOfSources' /\ EvidenceStands'
<1>1. \A e \in evidence : e.key \in Keys  BY DEF Inv, EvidenceIsOfSources
<1>. QED  BY <1>1, QuotesStand DEF EvidenceIsOfSources, EvidenceStands

LEMMA CommitContentStep ==
    ASSUME Inv, NEW p \in Procs, CommitCreate(p) \/ CommitRevise(p)
    PROVE  Inv'
<1> DEFINE k == txn[p].key
           b == txn[p].body
           item == IF b.kind = "content.create" THEN k ELSE b.base[1]
           row == [text |-> b.text, key |-> k]
<1>1. /\ txn[p].pc = "commit" /\ b.kind \in {"content.create", "content.revise"}
      /\ revisions' = [revisions EXCEPT ![item] = Append(@, row)]
      /\ Complete(p) /\ sources' = sources /\ evidence' = evidence
      /\ b.kind = "content.revise" => b.base[2] = Len(revisions[item])
  <2>1. CASE CommitCreate(p)
    BY <2>1 DEF CommitCreate, Does, At, AddRevision, Body
  <2>2. CASE CommitRevise(p)
    <3>1. txn[p].pc = "commit" /\ b.kind = "content.revise" /\ AddRevision(p, b.base[1])
      BY <2>2 DEF CommitRevise, Does, At, Body
    <3>2. b.base[2] = Len(revisions[b.base[1]])
      BY <2>2, <3>1 DEF CommitRevise, Does, Passes, At, BaseIsCurrent, Body
    <3>. QED  BY <3>1, <3>2 DEF AddRevision, Body
  <2>. QED  BY <2>1, <2>2
<1>2. /\ Sent(p) /\ DOMAIN commands' = Keys /\ outbox' \in [Keys -> Seq(Kinds)]
      /\ cast' = cast /\ k \in Keys /\ commands'[k] = b
      /\ \A j \in Keys \ {k} : commands'[j] = commands[j]
  BY <1>1, Committed DEF Sent
<1>3. item \in Keys /\ row \in RevisionRows
  BY <1>1, <1>2 DEF Sent, Drafted, RevisionRows
<1>4. RowShape  BY DEF Inv, Shape
<1>. HIDE DEF item, row
<1>5. /\ revisions \in [Keys -> Seq(RevisionRows)] /\ revisions' \in [Keys -> Seq(RevisionRows)]
      /\ Len(revisions'[item]) = Len(revisions[item]) + 1
      /\ revisions'[item][Len(revisions[item]) + 1] = row
      /\ \A r \in DOMAIN revisions[item] :
            r \in DOMAIN revisions'[item] /\ revisions'[item][r] = revisions[item][r]
      /\ \A i \in Keys : i # item => revisions'[i] = revisions[i]
  <2>1. revisions \in [Keys -> Seq(RevisionRows)]  BY <1>4 DEF RowShape
  <2>2. revisions[item] \in Seq(RevisionRows)  BY <1>3, <2>1
  <2>3. /\ Append(revisions[item], row) \in Seq(RevisionRows)
        /\ revisions'[item] = Append(revisions[item], row)
        /\ \A i \in Keys : i # item => revisions'[i] = revisions[i]
        /\ revisions' \in [Keys -> Seq(RevisionRows)]
    BY <1>1, <1>3, <2>1, <2>2
  <2>. QED  BY <1>3, <2>1, <2>2, <2>3
<1>6. RowShape'  BY <1>1, <1>2, <1>4, <1>5 DEF RowShape
<1>7. \A i \in Keys : \A r \in DOMAIN revisions[i] :
         r \in DOMAIN revisions'[i] /\ revisions'[i][r] = revisions[i][r]
  BY <1>5
<1>8. Grows  BY <1>1, <1>7 DEF Grows, Recorded
<1>9. Harmless(p)  BY <1>1 DEF Harmless, Spares, SparesQuotes, Unquoted
<1>10. b.kind = "content.revise" =>
          /\ b.base[1] = item /\ b.base[2] + 1 = Len(revisions[item]) + 1
          /\ b.base[2] + 1 \in DOMAIN revisions'[b.base[1]]
  <2>1. b.kind = "content.revise" => b.base[1] = item  BY DEF item
  <2>2. Len(revisions[item]) + 1 \in DOMAIN revisions'[item]
    <3>1. revisions[item] \in Seq(RevisionRows) /\ revisions'[item] \in Seq(RevisionRows)
      BY <1>3, <1>5
    <3>. QED  BY <1>5, <3>1
  <2>. QED  BY <1>1, <2>1, <2>2
<1>11. Shape' /\ RowsAreExclusive' /\ CommandsStand' /\ \A q \in Procs : Knows(q)'
  BY <1>1, <1>6, <1>8, <1>9, <1>10, CommitKeeps
<1>12. EvidenceIsOfSources' /\ EvidenceStands'  BY <1>1, <1>9, QuotesStandAfter
<1>13. SourcesInOrder'
  <2>1. \A s \in Recorded : sources[s].origin # None => sources[s].origin[1] \in Keys
    BY <1>4 DEF RowShape, SourceRows, Recorded, NoSource
  <2>. QED  BY <1>1, <1>7, <2>1 DEF Inv, SourcesInOrder, Recorded
<1>14. ChainsAreLinear'  BY <1>1 DEF Inv, ChainsAreLinear, Recorded
<1>15. RevisionsAreKept'
  <2>1. ASSUME NEW j \in Keys, NEW c \in {commands'[j]} \ {None}, c.kind = "content.revise"
        PROVE  revisions'[c.base[1]][c.base[2] + 1] = [text |-> c.text, key |-> j]
    <3>1. CASE j = k
      <4>1. c = b  BY <1>2, <2>1, <3>1
      <4>. QED  BY <1>5, <1>10, <2>1, <3>1, <4>1 DEF row
    <3>2. CASE j # k
      <4>1. c = commands[j] /\ Stands(c)  BY <1>2, <2>1, <3>2 DEF Inv, CommandsStand
      <4>2. c.base[1] \in Keys /\ c.base[2] + 1 \in DOMAIN revisions[c.base[1]]
        BY <2>1, <4>1 DEF Stands, Tested, Drafted
      <4>3. revisions[c.base[1]][c.base[2] + 1] = [text |-> c.text, key |-> j]
        BY <2>1, <4>1 DEF Inv, RevisionsAreKept
      <4>. QED  BY <1>7, <4>2, <4>3
    <3>. QED  BY <3>1, <3>2
  <2>. QED  BY <2>1 DEF RevisionsAreKept
<1>16. SourcesQuoteTheirOrigin'
  <2>1. ASSUME NEW s \in SourceIds, sources[s].status = "live", sources[s].origin # None
        PROVE  LET o == sources[s].origin
               IN  o[1] \in Keys /\ o[2] \in DOMAIN revisions[o[1]]
    <3>1. s \in Recorded  BY <2>1 DEF Recorded
    <3>2. sources[s] \in SourceRows  BY <1>4, <2>1 DEF RowShape, NoSource
    <3>3. sources[s].origin[1] \in Keys  BY <2>1, <3>2 DEF SourceRows
    <3>. QED  BY <2>1, <3>1, <3>3 DEF Inv, SourcesInOrder
  <2>. QED  BY <1>1, <1>7, <2>1 DEF Inv, SourcesQuoteTheirOrigin
<1>. QED  BY <1>11, <1>12, <1>13, <1>14, <1>15, <1>16 DEF Inv

-----------------------------------------------------------------------------
(***************************************************************************)
(* A source is recorded.                                                   *)
(***************************************************************************)
NewSource(p, supersedes, class, origin) ==
    [status |-> "live", text |-> Captured(Body(p).text), chunks |-> ChunksOf[Body(p).text],
     class |-> class, activity |-> Body(p).activity, supersedes |-> supersedes,
     origin |-> origin, version |-> 1, key |-> txn[p].key]

(* What a transaction may record: a source of a text it knows, at most as  *)
(* the first successor of a source that nobody quotes.                     *)
Recordable(p, supersedes, class, origin) ==
    LET b == txn[p].body IN
    /\ b.kind \in {"source.capture", "source.correct"}
    /\ class \in Classes
    /\ origin # None => /\ origin \in Keys \X Nat
                       /\ origin[2] \in DOMAIN revisions[origin[1]]
                       /\ revisions[origin[1]][origin[2]].text = b.text
    /\ supersedes # None =>
          /\ supersedes \in Recorded /\ LiveLeaf(supersedes) /\ Unquoted(supersedes)
          /\ <<p, supersedes, "update">> \in rowLocks
          /\ b.activity = sources[supersedes].activity
          /\ sources[supersedes].class <= class

LEMMA SourceRecorded ==
    ASSUME Inv, NEW p \in Procs, txn[p].pc = "commit",
           NEW supersedes, NEW class, NEW origin, Recordable(p, supersedes, class, origin),
           PersistSource(p, supersedes, class, origin)
    PROVE  Inv'
<1> DEFINE k == txn[p].key
           b == txn[p].body
           row == NewSource(p, supersedes, class, origin)
<1>1. PICK n \in SourceIds : Fresh(n) /\ sources' = [sources EXCEPT ![n] = row]
  BY DEF PersistSource, NewSource
<1>2. Complete(p) /\ revisions' = revisions /\ evidence' = evidence
  BY DEF PersistSource
<1>3. /\ Sent(p) /\ DOMAIN commands' = Keys /\ outbox' \in [Keys -> Seq(Kinds)]
      /\ cast' = cast /\ k \in Keys /\ commands'[k] = b
      /\ \A j \in Keys \ {k} : commands'[j] = commands[j]
  BY <1>2, Committed DEF Sent
<1>4. RowShape /\ SourcesInOrder  BY DEF Inv, Shape
<1>5. /\ b.text \in AllTexts /\ b.activity \in Activities
      /\ b.kind \notin {"content.revise", "claim.create"}
  BY <1>3 DEF Sent, Drafted, Recordable
<1>6. supersedes \in SourceIds \cup {None} /\ origin \in (Keys \X Nat) \cup {None}
  BY DEF Recordable, Recorded
<1>7. /\ row.status = "live" /\ row.class = class /\ row.activity = b.activity
      /\ row.supersedes = supersedes /\ row.origin = origin /\ row.version = 1
      /\ row.key = k /\ row.text = Captured(b.text)
  BY DEF NewSource, Body
<1>8. row \in SourceRows
  BY <1>3, <1>5, <1>6 DEF NewSource, SourceRows, Recordable, Body
<1>. HIDE DEF row
<1>9. /\ sources \in [SourceIds -> SourceRows \cup {NoSource}]
      /\ sources' \in [SourceIds -> SourceRows \cup {NoSource}]
      /\ sources'[n] = row /\ \A s \in SourceIds : s # n => sources'[s] = sources[s]
  BY <1>1, <1>4, <1>8 DEF RowShape
<1>10. RowShape'  BY <1>2, <1>3, <1>4, <1>9 DEF RowShape
<1>11. /\ n \notin Recorded /\ \A t \in SourceIds : t < n => t \in Recorded
       /\ sources[n] = NoSource
  BY <1>1, <1>9 DEF Fresh, Recorded, SourceRows
<1>12. /\ \A s : s \in Recorded' <=> s = n \/ s \in Recorded
       /\ \A s \in Recorded : s # n /\ s \in SourceIds /\ sources'[s] = sources[s]
  BY <1>7, <1>9, <1>11 DEF Recorded
<1>13. Grows
  <2>1. \A s \in Recorded : sources'[s].status # "none"  BY <1>12 DEF Recorded
  <2>. QED  BY <1>2, <1>12, <2>1 DEF Grows
<1>14. \A s \in Recorded : s # supersedes => Spares(s)
  BY <1>7, <1>9, <1>12 DEF Spares
<1>15. Harmless(p)
  <2>1. \A s \in Recorded : ~Unquoted(s) => Spares(s)
    BY <1>14, LifecycleAssumption DEF Recordable, Recorded
  <2>2. ASSUME NEW q \in Procs \ {p}, NEW s \in Recorded,
               <<q, s, "update">> \in rowLocks \/ <<q, s, "share">> \in rowLocks
        PROVE  Spares(s)
    <3>1. CASE s = supersedes
      <4>1. <<p, s, "update">> \in rowLocks
        BY <3>1, LifecycleAssumption DEF Recordable, Recorded
      <4>. QED  BY <2>2, <4>1 DEF Inv, RowsAreExclusive
    <3>. QED  BY <1>14, <3>1
  <2>. QED  BY <1>2, <2>1, <2>2 DEF Harmless, SparesQuotes, Unquoted
<1>16. Shape' /\ RowsAreExclusive' /\ CommandsStand' /\ \A q \in Procs : Knows(q)'
  BY <1>2, <1>5, <1>10, <1>13, <1>15, CommitKeeps
<1>17. EvidenceIsOfSources' /\ EvidenceStands'  BY <1>2, <1>15, QuotesStandAfter
<1>18. SourcesInOrder'
  <2>1. ASSUME NEW s \in Recorded'
        PROVE  /\ \A t \in SourceIds : t < s => t \in Recorded'
               /\ sources'[s].supersedes # None => sources'[s].supersedes \in Recorded'
               /\ sources'[s].origin # None =>
                     sources'[s].origin[2] \in DOMAIN revisions'[sources'[s].origin[1]]
               /\ sources'[s].status = "live" => sources'[s].version = 1
               /\ sources'[s].status = "erased" => sources'[s].version = 2
    <3>1. CASE s = n
      BY <1>2, <1>7, <1>9, <1>11, <1>12, <3>1 DEF Recordable
    <3>2. CASE s \in Recorded
      BY <1>2, <1>4, <1>12, <3>2 DEF SourcesInOrder
    <3>. QED  BY <1>12, <2>1, <3>1, <3>2
  <2>. QED  BY <2>1 DEF SourcesInOrder
<1>19. ChainsAreLinear'
  <2>1. \A t \in Recorded : sources[t].supersedes # n
    BY <1>4, <1>11, LifecycleAssumption DEF SourcesInOrder
  <2>2. supersedes \in Recorded => \A t \in SourceIds : sources[t].supersedes # supersedes
    <3>1. None \notin SourceIds  BY LifecycleAssumption
    <3>2. supersedes \in Recorded => LiveLeaf(supersedes) /\ supersedes \in SourceIds
      BY <3>1 DEF Recordable, Recorded
    <3>. QED  BY <1>4, <3>2, LeafOf
  <2>3. ASSUME NEW s \in Recorded', NEW t \in Recorded', sources'[t].supersedes = s
        PROVE  /\ s < t
               /\ sources'[t].activity = sources'[s].activity
               /\ sources'[s].class <= sources'[t].class
               /\ \A u \in Recorded' : sources'[u].supersedes = s => u = t
    <3>0. None \notin SourceIds /\ n # None  BY LifecycleAssumption
    <3>1. CASE t \in Recorded
      <4>1. sources[t].supersedes = s /\ s # n  BY <1>12, <2>1, <2>3, <3>1
      <4>2. s \in Recorded  BY <1>12, <4>1
      <4>3. s # supersedes  BY <2>2, <3>1, <4>1, <4>2 DEF Recorded
      <4>4. /\ s < t /\ sources[t].activity = sources[s].activity
            /\ sources[s].class <= sources[t].class
            /\ \A u \in Recorded : sources[u].supersedes = s => u = t
        BY <3>1, <4>1, <4>2 DEF Inv, ChainsAreLinear
      <4>5. \A u \in Recorded' : sources'[u].supersedes = s => u = t
        BY <1>7, <1>9, <1>12, <4>3, <4>4
      <4>. QED  BY <1>12, <3>1, <4>2, <4>4, <4>5
    <3>2. CASE t = n
      <4>1. s = supersedes  BY <1>7, <1>9, <2>3, <3>2
      <4>2. s \in SourceIds /\ s # None  BY <3>0 DEF Recorded
      <4>3. s \in Recorded  BY <4>1, <4>2 DEF Recordable
      <4>4. s < n
        <5>1. s \in Nat /\ n \in Nat  BY <4>2, LifecycleAssumption
        <5>2. ~(n < s)  BY <1>4, <1>11, <4>3 DEF SourcesInOrder
        <5>. QED  BY <1>12, <4>3, <5>1, <5>2
      <4>5. /\ row.activity = sources[s].activity /\ sources[s].class <= row.class
        BY <1>7, <4>1, <4>2 DEF Recordable
      <4>6. \A u \in Recorded' : sources'[u].supersedes = s => u = n
        BY <1>12, <2>2, <4>1, <4>3
      <4>. QED  BY <1>9, <1>12, <3>2, <4>3, <4>4, <4>5, <4>6
    <3>. QED  BY <1>12, <3>1, <3>2
  <2>. QED  BY <2>3 DEF ChainsAreLinear
<1>20. RevisionsAreKept'
  <2>1. \A j \in Keys : commands'[j] # None /\ commands'[j].kind = "content.revise" =>
            commands'[j] = commands[j]
    BY <1>3, <1>5
  <2>. QED  BY <1>2, <2>1 DEF Inv, RevisionsAreKept
<1>21. SourcesQuoteTheirOrigin'
  <2>1. ASSUME NEW s \in SourceIds, sources'[s].status = "live", sources'[s].origin # None
        PROVE  LET o == sources'[s].origin
               IN  sources'[s].text = Captured(revisions[o[1]][o[2]].text)
    <3>1. CASE s = n  BY <1>7, <1>9, <2>1, <3>1 DEF Recordable
    <3>2. CASE s # n
      BY <1>9, <2>1, <3>2 DEF Inv, SourcesQuoteTheirOrigin
    <3>. QED  BY <3>1, <3>2
  <2>. QED  BY <1>2, <2>1 DEF SourcesQuoteTheirOrigin
<1>. QED  BY <1>16, <1>17, <1>18, <1>19, <1>20, <1>21 DEF Inv

LEMMA CommitCaptureStep ==
    ASSUME Inv, NEW p \in Procs, CommitCapture(p)
    PROVE  Inv'
<1> DEFINE b == txn[p].body
           class == SourceClass(b.class, SpaceClass)
<1>1. /\ txn[p].pc = "commit" /\ b.kind = "source.capture"
      /\ PersistSource(p, None, class, b.origin)
  BY DEF CommitCapture, Does, At, Body
<1>2. Drafted(b) /\ OriginMatches(b)
  BY <1>1 DEF Inv, Shape, Sent, Knows, KnowsOrigin, Past
<1>3. class \in Classes
  BY <1>1, <1>2, LifecycleAssumption, SourceClassBounds DEF Drafted
<1>. HIDE DEF class
<1>4. Recordable(p, None, class, b.origin)
  BY <1>1, <1>2, <1>3 DEF Recordable, Drafted, OriginMatches
<1>. QED  BY <1>1, <1>4, SourceRecorded

LEMMA CommitCorrectionStep ==
    ASSUME Inv, NEW p \in Procs, CommitCorrection(p)
    PROVE  Inv'
<1> DEFINE b == txn[p].body
<1>1. /\ txn[p].pc = "commit" /\ b.kind = "source.correct"
      /\ PersistSource(p, b.source, txn[p].read, None)
  BY DEF CommitCorrection, Does, At, Body
<1>2. Drafted(b) /\ KnowsPredecessor(p)
  BY <1>1 DEF Inv, Shape, Sent, Knows
<1>3. /\ b.activity = sources[b.source].activity /\ Holds(p, "update")
      /\ LiveLeaf(b.source) /\ txn[p].read \in Classes
      /\ sources[b.source].class <= txn[p].read /\ Unquoted(b.source)
  BY <1>1, <1>2 DEF KnowsPredecessor, Past
<1>4. Recordable(p, b.source, txn[p].read, None)
  BY <1>1, <1>2, <1>3 DEF Recordable, Drafted, Holds
<1>. QED  BY <1>1, <1>4, SourceRecorded

LEMMA ErasedFields ==
    ASSUME NEW r \in SourceRows, NEW next
    PROVE  [r EXCEPT !.status = "erased", !.text = <<>>, !.chunks = <<>>, !.version = next]
             = [status |-> "erased", text |-> <<>>, chunks |-> <<>>, class |-> r.class,
                activity |-> r.activity, supersedes |-> r.supersedes, origin |-> r.origin,
                version |-> next, key |-> r.key]
<1> DEFINE a == [r EXCEPT !.status = "erased"]
           b == [a EXCEPT !.text = <<>>]
           c == [b EXCEPT !.chunks = <<>>]
           d == [c EXCEPT !.version = next]
<1>1. a = [status |-> "erased", text |-> r.text, chunks |-> r.chunks, class |-> r.class,
           activity |-> r.activity, supersedes |-> r.supersedes, origin |-> r.origin,
           version |-> r.version, key |-> r.key]
  BY DEF SourceRows
<1>. HIDE DEF a
<1>2. b = [status |-> "erased", text |-> <<>>, chunks |-> r.chunks, class |-> r.class,
           activity |-> r.activity, supersedes |-> r.supersedes, origin |-> r.origin,
           version |-> r.version, key |-> r.key]
  BY <1>1
<1>. HIDE DEF b
<1>3. c = [status |-> "erased", text |-> <<>>, chunks |-> <<>>, class |-> r.class,
           activity |-> r.activity, supersedes |-> r.supersedes, origin |-> r.origin,
           version |-> r.version, key |-> r.key]
  BY <1>2
<1>. HIDE DEF c
<1>4. d = [status |-> "erased", text |-> <<>>, chunks |-> <<>>, class |-> r.class,
           activity |-> r.activity, supersedes |-> r.supersedes, origin |-> r.origin,
           version |-> next, key |-> r.key]
  BY <1>3
<1>. QED  BY <1>4, Zenon DEF a, b, c

LEMMA CommitTombstoneStep ==
    ASSUME Inv, NEW p \in Procs, CommitTombstone(p)
    PROVE  Inv'
<1> DEFINE k == txn[p].key
           b == txn[p].body
           n == b.source
           old == sources[n]
           row == [status |-> "erased", text |-> <<>>, chunks |-> <<>>, class |-> old.class,
                   activity |-> old.activity, supersedes |-> old.supersedes,
                   origin |-> old.origin, version |-> old.version + 1, key |-> old.key]
<1>1. /\ txn[p].pc = "commit" /\ b.kind = "source.tombstone"
      /\ Complete(p) /\ revisions' = revisions /\ evidence' = evidence
      /\ sources' = [sources EXCEPT ![n] =
            [@ EXCEPT !.status = "erased", !.text = <<>>, !.chunks = <<>>,
                      !.version = old.version + 1]]
  <2>1. txn[p].pc = "commit" /\ b.kind = "source.tombstone"
    BY DEF CommitTombstone, Does, At
  <2>. QED  BY <2>1, Zenon DEF CommitTombstone, Body
<1>2. /\ Sent(p) /\ Knows(p) /\ DOMAIN commands' = Keys /\ outbox' \in [Keys -> Seq(Kinds)]
      /\ cast' = cast /\ k \in Keys /\ commands'[k] = b
      /\ \A j \in Keys \ {k} : commands'[j] = commands[j]
  BY <1>1, Committed DEF Sent
<1>3. RowShape /\ SourcesInOrder  BY DEF Inv, Shape
<1>4. /\ n \in Recorded /\ n \in SourceIds
      /\ sources[n].status = "live" /\ Unquoted(n) /\ <<p, n, "update">> \in rowLocks
  BY <1>1, <1>2 DEF Sent, Drafted, Knows, KnowsErased, Past, Holds, Recorded
<1>5. sources[n] \in SourceRows /\ sources[n].version = 1
  BY <1>3, <1>4 DEF RowShape, SourcesInOrder, NoSource
<1>6. [old EXCEPT !.status = "erased", !.text = <<>>, !.chunks = <<>>,
                  !.version = old.version + 1] = row
  BY <1>5, ErasedFields, Zenon
<1>7. /\ row \in SourceRows /\ row.status = "erased" /\ row.version = 2
      /\ row.class = sources[n].class /\ row.activity = sources[n].activity
      /\ row.supersedes = sources[n].supersedes /\ row.origin = sources[n].origin
      /\ row.key = sources[n].key
  BY <1>5 DEF SourceRows
<1>. HIDE DEF row, n
<1>8. /\ sources' \in [SourceIds -> SourceRows \cup {NoSource}]
      /\ sources'[n] = row /\ \A s \in SourceIds : s # n => sources'[s] = sources[s]
  BY <1>1, <1>3, <1>4, <1>6, <1>7 DEF RowShape
<1>9. RowShape'  BY <1>1, <1>2, <1>3, <1>8 DEF RowShape
<1>10. \A s : s \in Recorded' <=> s \in Recorded
  BY <1>4, <1>7, <1>8 DEF Recorded
<1>11. \A s \in SourceIds :
          /\ sources'[s].class = sources[s].class
          /\ sources'[s].activity = sources[s].activity
          /\ sources'[s].supersedes = sources[s].supersedes
          /\ sources'[s].origin = sources[s].origin
          /\ sources'[s].key = sources[s].key
  BY <1>7, <1>8
<1>12. Grows  BY <1>1, <1>10, <1>11 DEF Grows, Recorded
<1>13. \A s \in SourceIds : s # n => Spares(s)  BY <1>8, <1>11 DEF Spares
<1>14. Harmless(p)
  <2>1. \A s \in Recorded : ~Unquoted(s) => Spares(s)  BY <1>4, <1>13 DEF Recorded
  <2>2. ASSUME NEW q \in Procs \ {p}, NEW s \in Recorded,
               <<q, s, "update">> \in rowLocks \/ <<q, s, "share">> \in rowLocks
        PROVE  Spares(s)
    <3>1. s # n  BY <1>4, <2>2 DEF Inv, RowsAreExclusive
    <3>. QED  BY <1>13, <3>1 DEF Recorded
  <2>. QED  BY <1>1, <2>1, <2>2 DEF Harmless, SparesQuotes, Unquoted
<1>15. Shape' /\ RowsAreExclusive' /\ CommandsStand' /\ \A q \in Procs : Knows(q)'
  BY <1>1, <1>9, <1>12, <1>14, CommitKeeps
<1>16. EvidenceIsOfSources' /\ EvidenceStands'  BY <1>1, <1>14, QuotesStandAfter
<1>17. SourcesInOrder'
  <2>1. ASSUME NEW s \in Recorded
        PROVE  /\ \A t \in SourceIds : t < s => t \in Recorded
               /\ sources'[s].supersedes # None => sources'[s].supersedes \in Recorded
               /\ sources'[s].origin # None =>
                     sources'[s].origin[2] \in DOMAIN revisions[sources'[s].origin[1]]
               /\ sources'[s].status = "live" => sources'[s].version = 1
               /\ sources'[s].status = "erased" => sources'[s].version = 2
    <3>1. s \in SourceIds  BY DEF Recorded
    <3>2. CASE s = n
      BY <1>3, <1>5, <1>7, <1>8, <1>11, <3>1, <3>2 DEF SourcesInOrder
    <3>3. CASE s # n  BY <1>3, <1>8, <3>1, <3>3 DEF SourcesInOrder
    <3>. QED  BY <3>2, <3>3
  <2>2. ASSUME NEW s \in Recorded'
        PROVE  /\ \A t \in SourceIds : t < s => t \in Recorded'
               /\ sources'[s].supersedes # None => sources'[s].supersedes \in Recorded'
               /\ sources'[s].origin # None =>
                     sources'[s].origin[2] \in DOMAIN revisions'[sources'[s].origin[1]]
               /\ sources'[s].status = "live" => sources'[s].version = 1
               /\ sources'[s].status = "erased" => sources'[s].version = 2
    BY <1>1, <1>10, <2>1, <2>2
  <2>. QED  BY <2>2 DEF SourcesInOrder
<1>18. ChainsAreLinear'
  <2>1. \A s \in Recorded : s \in SourceIds  BY DEF Recorded
  <2>. QED  BY <1>10, <1>11, <2>1 DEF Inv, ChainsAreLinear
<1>19. RevisionsAreKept'
  <2>1. \A j \in Keys : commands'[j] # None /\ commands'[j].kind = "content.revise" =>
            commands'[j] = commands[j]
    BY <1>1, <1>2
  <2>. QED  BY <1>1, <2>1 DEF Inv, RevisionsAreKept
<1>20. SourcesQuoteTheirOrigin'
  <2>1. \A s \in SourceIds : sources'[s].status = "live" => sources'[s] = sources[s]
    BY <1>7, <1>8
  <2>. QED  BY <1>1, <2>1 DEF Inv, SourcesQuoteTheirOrigin
<1>. QED  BY <1>15, <1>16, <1>17, <1>18, <1>19, <1>20 DEF Inv

LEMMA CommitEvidenceStep ==
    ASSUME Inv, NEW p \in Procs, CommitEvidence(p)
    PROVE  Inv'
<1> DEFINE k == txn[p].key
           b == txn[p].body
           n == [source |-> b.source, version |-> b.version, class |-> txn[p].read.class,
                 excerpt |-> txn[p].read.excerpt, key |-> k]
<1>1. /\ txn[p].pc = "commit" /\ b.kind = "claim.create"
      /\ evidence' = evidence \cup {n}
      /\ Complete(p) /\ revisions' = revisions /\ sources' = sources
  BY DEF CommitEvidence, Does, At, Body
<1>2. /\ Sent(p) /\ Knows(p) /\ DOMAIN commands' = Keys /\ outbox' \in [Keys -> Seq(Kinds)]
      /\ cast' = cast /\ k \in Keys /\ commands'[k] = b
      /\ \A j \in Keys \ {k} : commands'[j] = commands[j]
  BY <1>1, Committed DEF Sent
<1>3. RowShape  BY DEF Inv, Shape
<1>4. Quoting(p) /\ b.source \in Recorded /\ b.source \in SourceIds
  BY <1>1, <1>2 DEF Sent, Drafted, Knows, KnowsQuoted, Past, Recorded
<1>5. /\ sources[b.source].status = "live"
      /\ \A t \in SourceIds : sources[t].supersedes # b.source
      /\ sources[b.source].version = b.version
      /\ txn[p].read.class = Higher(SpaceClass, sources[b.source].class)
      /\ <<p, b.source, "share">> \in rowLocks
  <2>1. Admissible(b) /\ txn[p].read.class = Higher(SpaceClass, sources[b.source].class)
        /\ <<p, b.source, "share">> \in rowLocks
    BY <1>4 DEF Quoting, Holds
  <2>2. LiveLeaf(b.source) /\ sources[b.source].version = b.version
    BY <2>1 DEF Admissible
  <2>. QED  BY <1>3, <1>4, <2>1, <2>2, LeafOf
<1>6. sources[b.source].class <= txn[p].read.class
  <2>1. sources[b.source].class \in Classes
    BY <1>3, <1>4, <1>5 DEF RowShape, SourceRows, NoSource
  <2>. QED  BY <1>5, <2>1, LifecycleAssumption, HigherClass
<1>7. n.source = b.source /\ n.version = b.version /\ n.class = txn[p].read.class /\ n.key = k
  OBVIOUS
<1>. HIDE DEF n
<1>8. RowShape'  BY <1>1, <1>2, <1>3 DEF RowShape
<1>9. Grows  BY <1>1 DEF Grows, Recorded
<1>10. \A s : Spares(s)  BY <1>1 DEF Spares
<1>11. Harmless(p)
  <2>1. ASSUME NEW q \in Procs \ {p}, NEW s \in Recorded, <<q, s, "update">> \in rowLocks
        PROVE  SparesQuotes(s)
    <3>1. s # b.source  BY <1>5, <2>1 DEF Inv, RowsAreExclusive
    <3>. QED  BY <1>1, <1>7, <3>1 DEF SparesQuotes, Unquoted
  <2>. QED  BY <1>1, <1>10, <2>1 DEF Harmless
<1>12. Shape' /\ RowsAreExclusive' /\ CommandsStand' /\ \A q \in Procs : Knows(q)'
  BY <1>1, <1>7, <1>8, <1>9, <1>10, <1>11, CommitKeeps
<1>13. EvidenceIsOfSources' /\ EvidenceStands'
  <2>1. \A e \in evidence : e.key \in Keys  BY DEF Inv, EvidenceIsOfSources
  <2>2. ASSUME NEW e \in evidence'
        PROVE  /\ e.source \in Recorded' /\ e.key \in Keys
               /\ sources'[e.source].status = "live"
               /\ \A t \in SourceIds : sources'[t].supersedes # e.source
               /\ sources'[e.source].version = e.version
               /\ sources'[e.source].class <= e.class
    <3>1. CASE e \in evidence  BY <1>11, <2>1, <3>1, QuotesStand
    <3>2. CASE e = n
      BY <1>1, <1>2, <1>4, <1>5, <1>6, <1>7, <3>2 DEF Recorded
    <3>. QED  BY <1>1, <2>2, <3>1, <3>2
  <2>. QED  BY <2>2 DEF EvidenceIsOfSources, EvidenceStands
<1>14. SourcesInOrder'  BY <1>1 DEF Inv, SourcesInOrder, Recorded
<1>15. ChainsAreLinear'  BY <1>1 DEF Inv, ChainsAreLinear, Recorded
<1>16. RevisionsAreKept'
  <2>1. \A j \in Keys : commands'[j] # None /\ commands'[j].kind = "content.revise" =>
            commands'[j] = commands[j]
    BY <1>1, <1>2
  <2>. QED  BY <1>1, <2>1 DEF Inv, RevisionsAreKept
<1>17. SourcesQuoteTheirOrigin'  BY <1>1 DEF Inv, SourcesQuoteTheirOrigin
<1>. QED  BY <1>12, <1>13, <1>14, <1>15, <1>16, <1>17 DEF Inv

LEMMA InitInv == Init => Inv
<1>. SUFFICES ASSUME Init  PROVE Inv
  OBVIOUS
<1>1. \A s \in SourceIds : sources[s] = NoSource  BY DEF Init
<1>2. Recorded = {}  BY <1>1 DEF Recorded, NoSource
<1>3. RowShape  BY DEF Init, RowShape
<1>4. LockShape  BY DEF Init, LockShape, Idle
<1>5. \A p \in Procs : txn[p].pc = "idle"  BY DEF Init, Idle
<1>6. \A p \in Procs : Knows(p)
  BY <1>5 DEF Knows, KnowsKey, KnowsOrigin, KnowsPredecessor, KnowsErased, KnowsQuoted, Past
<1>7. SourcesInOrder /\ ChainsAreLinear  BY <1>2 DEF SourcesInOrder, ChainsAreLinear
<1>8. RowsAreExclusive /\ EvidenceIsOfSources /\ EvidenceStands
  BY DEF Init, RowsAreExclusive, EvidenceIsOfSources, EvidenceStands
<1>9. CommandsStand /\ RevisionsAreKept  BY DEF Init, CommandsStand, RevisionsAreKept
<1>10. SourcesQuoteTheirOrigin  BY <1>1 DEF SourcesQuoteTheirOrigin, NoSource
<1>. QED  BY <1>3, <1>4, <1>5, <1>6, <1>7, <1>8, <1>9, <1>10 DEF Inv, Shape

LEMMA NextInv == Inv /\ [Next]_vars => Inv'
<1>. SUFFICES ASSUME Inv, [Next]_vars  PROVE Inv'
  OBVIOUS
<1>1. CASE UNCHANGED vars  BY <1>1, NothingMoved
<1>2. ASSUME NEW p \in Procs, NEW k \in Keys, Begin(p, k)  PROVE Inv'
  BY <1>2, BeginStep
<1>3. ASSUME NEW p \in Procs, Step(p)  PROVE Inv'
  <2>1. CASE Replay(p) \/ Refuse(p)
    BY <2>1, MovedToTheEnd DEF Replay, Refuse
  <2>2. CASE Reserve(p)  BY <2>2, ReserveStep
  <2>3. CASE CreateContent(p) \/ LockItem(p)  BY <2>3, ContentSteps
  <2>4. CASE CommitCreate(p) \/ CommitRevise(p)  BY <2>4, CommitContentStep
  <2>5. CASE AdmitCapture(p)  BY <2>5, AdmitCaptureStep
  <2>6. CASE CommitCapture(p)  BY <2>6, CommitCaptureStep
  <2>7. CASE ResolveLink(p) \/ SelectPredecessor(p) \/ LockPredecessor(p)
    BY <2>7, PredecessorSteps
  <2>8. CASE RecheckPredecessor(p)  BY <2>8, RecheckStep
  <2>9. CASE WriteCorrection(p)  BY <2>9, WriteCorrectionStep
  <2>10. CASE CommitCorrection(p)  BY <2>10, CommitCorrectionStep
  <2>11. CASE LockSource(p)  BY <2>11, LockSourceStep
  <2>12. CASE WriteTombstone(p)  BY <2>12, WriteTombstoneStep
  <2>13. CASE CommitTombstone(p)  BY <2>13, CommitTombstoneStep
  <2>14. CASE AdmitEvidence(p)  BY <2>14, AdmitEvidenceStep
  <2>15. CASE WriteEvidence(p)  BY <2>15, WriteEvidenceStep
  <2>16. CASE CommitEvidence(p)  BY <2>16, CommitEvidenceStep
  <2>. QED
    BY <1>3, <2>1, <2>2, <2>3, <2>4, <2>5, <2>6, <2>7, <2>8, <2>9, <2>10, <2>11, <2>12,
       <2>13, <2>14, <2>15, <2>16 DEF Step
<1>4. ASSUME NEW p \in Procs, Fail(p)  PROVE Inv'
  BY <1>4, MovedToTheEnd DEF Fail
<1>. QED  BY <1>1, <1>2, <1>3, <1>4 DEF Next

(* What every transaction knows of the rows it locked stays true until it  *)
(* ends: the inductive invariant of the proofs below.                      *)
THEOREM Invariance == Spec => []Inv
BY InitInv, NextInv, PTL DEF Spec

(* A quoted source is neither erased nor corrected, keeps the version that *)
(* was quoted and is no more restricted than the evidence, however claims, *)
(* corrections and tombstones race.                                        *)
THEOREM QuotedSourcesStand == Spec => []EvidenceStands
<1>1. Inv => EvidenceStands  BY DEF Inv
<1>. QED  BY <1>1, Invariance, PTL

(* Corrections that race, or follow a tombstone, never fork a chain and    *)
(* never lower its class or change its activity.                           *)
THEOREM CorrectionsFormChains == Spec => []ChainsAreLinear
<1>1. Inv => ChainsAreLinear  BY DEF Inv
<1>. QED  BY <1>1, Invariance, PTL

(* A command that was completed is never refused when it is sent again:    *)
(* what it tests before it reserves its key stays true.                    *)
THEOREM RetriesFindTheirAnswer == Spec => []RetriesAreAnswered
<1>1. Inv => RetriesAreAnswered
  BY DEF Inv, CommandsStand, Stands, Tested, RetriesAreAnswered
<1>. QED  BY <1>1, Invariance, PTL

-----------------------------------------------------------------------------
(***************************************************************************)
(* The triggers.  What they check again of a text is a fact about the      *)
(* text; that all the rest still holds when they run is the invariant's.   *)
(***************************************************************************)
LEMMA AdmittedPasses ==
    ASSUME \A limit \in Nat : TextsAgree(limit), Inv, NEW p \in Procs,
           At(p, "claim.create", "write")
    PROVE  EvidenceAccepted(p)
<1> DEFINE b == txn[p].body
           s == sources[b.source]
<1>1. Quoting(p) /\ Sent(p) /\ b.kind = "claim.create"
  BY DEF At, Inv, Shape, Knows, KnowsQuoted, Past
<1>2. /\ LiveLeaf(b.source) /\ s.version = b.version
      /\ <<s.text, s.chunks>> \in Whole
      /\ b.chunk \in DOMAIN s.chunks
      /\ SpanExists(s.chunks[b.chunk].text, b.start, b.end)
      /\ txn[p].read.class = Higher(SpaceClass, s.class)
      /\ txn[p].read.excerpt = Span(s.chunks[b.chunk].text, b.start, b.end)
  <2>1. Admissible(b)  BY <1>1 DEF Quoting
  <2>2. txn[p].read = [class |-> Higher(SpaceClass, s.class), excerpt |-> Excerpt(b)]
    BY <1>1, Zenon DEF Quoting
  <2>3. txn[p].read.class = Higher(SpaceClass, s.class) /\ txn[p].read.excerpt = Excerpt(b)
    BY <2>2
  <2>. QED  BY <2>1, <2>3, Zenon DEF Admissible, Excerpt
<1>3. PICK t \in Reconstructed : s.chunks = ChunksOf[t]  BY <1>2 DEF Whole
<1>4. b.start \in Nat /\ b.end \in Nat  BY <1>1 DEF Sent, Drafted
<1>5. PICK n \in Nat : b.start \in 0 .. n /\ b.end \in 0 .. n
  <2>1. CASE b.start <= b.end
    <3>1. b.start \in 0 .. b.end /\ b.end \in 0 .. b.end  BY <1>4, <2>1
    <3>. QED  BY <1>4, <3>1
  <2>2. CASE b.end <= b.start
    <3>1. b.start \in 0 .. b.start /\ b.end \in 0 .. b.start  BY <1>4, <2>2
    <3>. QED  BY <1>4, <3>1
  <2>. QED  BY <1>4, <2>1, <2>2
<1>6. QuotesInDatabase(s.chunks[b.chunk].text, b.start, b.end,
                       Span(s.chunks[b.chunk].text, b.start, b.end))
  <2>1. TextsAgree(n)  OBVIOUS
  <2>. QED  BY <1>2, <1>3, <1>5, <2>1 DEF TextsAgree
<1>. QED  BY <1>2, <1>6 DEF EvidenceAccepted, Body

(* A correction that reaches its insertion has a live, uncorrected         *)
(* predecessor and does not lower its class: lockCurrentSourceForCorrection*)
(* read both under the lock that the transaction still holds.              *)
THEOREM CorrectionsArePassed == Spec => []CorrectionsPassTheirTrigger
<1>1. Inv => CorrectionsPassTheirTrigger
  <2>1. ASSUME Inv, NEW p \in Procs, At(p, "source.correct", "write")
        PROVE  CorrectionAccepted(p)
    BY <2>1 DEF At, Inv, Knows, KnowsPredecessor, Past, CorrectionAccepted, Body
  <2>. QED  BY <2>1 DEF CorrectionsPassTheirTrigger
<1>. QED  BY <1>1, Invariance, PTL

(* Where the server and the database agree on texts, no trigger ever       *)
(* refuses what a command is about to commit, in whatever order commands   *)
(* run: what they tested is still so when the trigger tests it again.      *)
THEOREM CommandsPassTheirTriggers ==
    ASSUME \A limit \in Nat : TextsAgree(limit)
    PROVE  Spec => []TriggersNeverRefuse
<1>1. Inv => TriggersNeverRefuse
  <2>. SUFFICES ASSUME Inv  PROVE TriggersNeverRefuse
    OBVIOUS
  <2>1. ASSUME NEW p \in Procs, At(p, "source.correct", "write")
        PROVE  CorrectionAccepted(p) /\ txn[p].body.text \in Usable
    BY <2>1 DEF At, Inv, Knows, KnowsPredecessor, Past, CorrectionAccepted, Body
  <2>2. ASSUME NEW p \in Procs, At(p, "source.capture", "commit")
        PROVE  txn[p].body.text \in Usable
    BY <2>2 DEF At, Inv, Knows, KnowsOrigin, Past
  <2>3. Usable \subseteq Reconstructed
    <3>1. TextsAgree(0)  OBVIOUS
    <3>. QED  BY <3>1 DEF TextsAgree
  <2>4. CorrectionsPassTheirTrigger  BY <2>1 DEF CorrectionsPassTheirTrigger
  <2>5. AdmittedEvidencePasses  BY AdmittedPasses DEF AdmittedEvidencePasses
  <2>6. ChunksPassTheirChecks  BY <2>1, <2>2, <2>3 DEF ChunksPassTheirChecks, Body
  <2>. QED  BY <2>4, <2>5, <2>6 DEF TriggersNeverRefuse
<1>. QED  BY <1>1, Invariance, PTL

-----------------------------------------------------------------------------
(***************************************************************************)
(* What a command has written: nothing until it is completed, and then one *)
(* row of its kind.                                                        *)
(***************************************************************************)
RevisionsBy(k) == {r \in Revisions : revisions[r[1]][r[2]].key = k}
CapturedBy(k) == {s \in Recorded : sources[s].key = k}
QuotedBy(k) == {e \in evidence : e.key = k}

IsOne(S) == \E x \in S : S = {x}

Effect(kind, k) ==
    /\ IF kind \in {"content.create", "content.revise"} THEN IsOne(RevisionsBy(k))
       ELSE RevisionsBy(k) = {}
    /\ IF kind \in {"source.capture", "source.correct"} THEN IsOne(CapturedBy(k))
       ELSE CapturedBy(k) = {}
    /\ IF kind = "claim.create" THEN IsOne(QuotedBy(k)) ELSE QuotedBy(k) = {}

Done(k) ==
    /\ commands[k] = None =>
          RevisionsBy(k) = {} /\ CapturedBy(k) = {} /\ QuotedBy(k) = {} /\ outbox[k] = <<>>
    /\ commands[k] # None => Effect(commands[k].kind, k) /\ Len(outbox[k]) = 1

EffectInv == \A k \in Keys : Done(k)

SameEffects(k) ==
    UNCHANGED <<RevisionsBy(k), CapturedBy(k), QuotedBy(k)>>

LEMMA Announced ==
    ASSUME Inv, EffectInv, NEW p \in Procs, txn[p].pc = "commit", Complete(p),
           NEW k \in Keys, k = txn[p].key, NEW kind, kind = txn[p].body.kind,
           \A j \in Keys \ {k} : SameEffects(j),
           (RevisionsBy(k) = {} /\ CapturedBy(k) = {} /\ QuotedBy(k) = {}) => Effect(kind, k)'
    PROVE  EffectInv'
<1>1. /\ commands[k] = None /\ commands'[k] = txn[p].body /\ Drafted(txn[p].body)
      /\ \A j \in Keys \ {k} : commands'[j] = commands[j] /\ outbox'[j] = outbox[j]
      /\ outbox'[k] = Append(outbox[k], kind)
  BY Committed DEF Sent
<1>2. commands'[k] # None /\ commands'[k].kind = kind
  BY <1>1, NoRequestAssumption DEF Drafted
<1>3. Done(k)'
  <2>1. outbox[k] = <<>> /\ Effect(kind, k)'  BY <1>1 DEF EffectInv, Done
  <2>2. Len(outbox'[k]) = 1  BY <1>1, <2>1
  <2>. QED  BY <1>2, <2>1, <2>2 DEF Done
<1>4. ASSUME NEW j \in Keys \ {k}  PROVE Done(j)'
  BY <1>1 DEF EffectInv, Done, Effect, SameEffects
<1>. QED  BY <1>3, <1>4 DEF EffectInv

RowsOf(rev, k) ==
    LET items == {i \in Keys : rev[i] # <<>>}
    IN  {r \in UNION {{<<i, n>> : n \in DOMAIN rev[i]} : i \in items} :
            rev[r[1]][r[2]].key = k}

HasKey(r, rev, k) ==
    \E i \in Keys : \E n \in DOMAIN rev[i] : r = <<i, n>> /\ rev[i][n].key = k

LEMMA RowsOfAKey ==
    ASSUME NEW rev \in [Keys -> Seq(RevisionRows)], NEW j
    PROVE  \A r : r \in RowsOf(rev, j) <=> HasKey(r, rev, j)
<1> DEFINE items == {i \in Keys : rev[i] # <<>>}
           at(i) == {<<i, n>> : n \in DOMAIN rev[i]}
           all == UNION {at(i) : i \in items}
<1>1. ASSUME NEW r \in all
      PROVE  \E i \in Keys : \E n \in DOMAIN rev[i] : r = <<i, n>>
  <2>1. PICK i \in items : r \in at(i)  BY <1>1, Zenon
  <2>. QED  BY <2>1
<1>2. ASSUME NEW i \in Keys, NEW n \in DOMAIN rev[i]  PROVE <<i, n>> \in all
  <2>1. i \in items /\ <<i, n>> \in at(i)
    <3>1. rev[i] # <<>>  OBVIOUS
    <3>. QED  BY <3>1
  <2>. QED  BY <2>1, Zenon
<1>3. RowsOf(rev, j) = {r \in all : rev[r[1]][r[2]].key = j}  BY DEF RowsOf
<1>. HIDE DEF all
<1>4. ASSUME NEW r
      PROVE  r \in RowsOf(rev, j) <=> HasKey(r, rev, j)
  BY <1>1, <1>2, <1>3 DEF HasKey
<1>. QED  BY <1>4

LEMMA RevisionWritten ==
    ASSUME Inv, RowShape', NEW k \in Keys, NEW i \in Keys, NEW row, row.key = k,
           revisions' = [revisions EXCEPT ![i] = Append(@, row)]
    PROVE  /\ \A j \in Keys \ {k} : RevisionsBy(j)' = RevisionsBy(j)
           /\ RevisionsBy(k) = {} => IsOne(RevisionsBy(k))'
<1>1. /\ DOMAIN revisions = Keys /\ revisions[i] \in Seq(RevisionRows)
      /\ RowShape
  BY DEF Inv, Shape, RowShape
<1> DEFINE n == Len(revisions[i]) + 1
<1>2. /\ DOMAIN revisions'[i] = DOMAIN revisions[i] \cup {n}
      /\ revisions'[i][n] = row /\ n \notin DOMAIN revisions[i]
      /\ \A r \in DOMAIN revisions[i] : revisions'[i][r] = revisions[i][r]
      /\ \A j \in Keys \ {i} : revisions'[j] = revisions[j]
  <2>1. revisions'[i] = Append(revisions[i], row)  BY <1>1
  <2>2. \A j \in Keys \ {i} : revisions'[j] = revisions[j]  BY <1>1
  <2>3. revisions'[i] \in Seq(RevisionRows)  BY DEF RowShape
  <2>4. Len(revisions'[i]) = n /\ revisions'[i][n] = row
    BY <1>1, <2>1
  <2>5. \A r \in 1 .. Len(revisions[i]) : revisions'[i][r] = revisions[i][r]
    BY <1>1, <2>1
  <2>. QED  BY <1>1, <2>2, <2>3, <2>4, <2>5
<1>. HIDE DEF n
<1>3. \A r : \A j : r \in RevisionsBy(j)' <=> r \in RevisionsBy(j) \/ (r = <<i, n>> /\ j = k)
  <2>1. ASSUME NEW r, NEW j
        PROVE  r \in RevisionsBy(j)' <=> r \in RevisionsBy(j) \/ (r = <<i, n>> /\ j = k)
    <3>1. RevisionsBy(j) = RowsOf(revisions, j) /\ RevisionsBy(j)' = RowsOf(revisions', j)
      BY Zenon DEF RevisionsBy, Revisions, Items, RowsOf
    <3>2. /\ revisions \in [Keys -> Seq(RevisionRows)]
          /\ revisions' \in [Keys -> Seq(RevisionRows)]
      BY <1>1 DEF RowShape
    <3>3. r \in RowsOf(revisions, j) <=> HasKey(r, revisions, j)
      BY <3>2, RowsOfAKey, Zenon
    <3>4. r \in RowsOf(revisions', j) <=> HasKey(r, revisions', j)
      BY <3>2, RowsOfAKey, Zenon
    <3>5. HasKey(r, revisions', j) <=>
             HasKey(r, revisions, j) \/ (r = <<i, n>> /\ j = k)
      BY <1>2 DEF HasKey
    <3>. QED  BY <3>1, <3>3, <3>4, <3>5
  <2>. QED  BY <2>1
<1>4. ASSUME NEW j \in Keys \ {k}  PROVE RevisionsBy(j)' = RevisionsBy(j)
  <2>1. \A r : r \in RevisionsBy(j)' <=> r \in RevisionsBy(j)  BY <1>3
  <2>. QED  BY <2>1
<1>5. ASSUME RevisionsBy(k) = {}  PROVE IsOne(RevisionsBy(k))'
  <2>1. RevisionsBy(k)' = {<<i, n>>}  BY <1>3, <1>5
  <2>. QED  BY <2>1 DEF IsOne
<1>. QED  BY <1>4, <1>5

LEMMA ContentEffect ==
    ASSUME Inv, Inv', EffectInv, NEW p \in Procs, CommitCreate(p) \/ CommitRevise(p)
    PROVE  EffectInv'
<1>1. /\ txn[p].pc = "commit" /\ txn[p].body.kind \in {"content.create", "content.revise"}
      /\ \/ txn[p].body.kind = "content.create" /\ AddRevision(p, txn[p].key)
         \/ txn[p].body.kind = "content.revise" /\ AddRevision(p, txn[p].body.base[1])
  BY DEF CommitCreate, CommitRevise, Does, At, Body
<1>2. Sent(p)  BY <1>1 DEF Inv, Shape
<1>3. PICK k \in Keys : k = txn[p].key  BY <1>2 DEF Sent
<1>4. PICK kind : kind = txn[p].body.kind  OBVIOUS
<1>5. PICK i \in Keys : AddRevision(p, i)  BY <1>1, <1>2 DEF Sent, Drafted
<1>6. PICK row : row.key = k /\ revisions' = [revisions EXCEPT ![i] = Append(@, row)]
  <2> DEFINE new == [text |-> txn[p].body.text, key |-> txn[p].key]
  <2>1. new.key = k  BY <1>3
  <2>2. revisions' = [revisions EXCEPT ![i] = Append(@, new)]  BY <1>5 DEF AddRevision, Body
  <2>. QED  BY <2>1, <2>2
<1>7. Complete(p) /\ sources' = sources /\ evidence' = evidence
  BY <1>5 DEF AddRevision
<1>8. /\ \A j \in Keys \ {k} : RevisionsBy(j)' = RevisionsBy(j)
      /\ RevisionsBy(k) = {} => IsOne(RevisionsBy(k))'
  BY <1>6, RevisionWritten DEF Inv, Shape
<1>9. \A j : CapturedBy(j)' = CapturedBy(j) /\ QuotedBy(j)' = QuotedBy(j)
  BY <1>7 DEF CapturedBy, QuotedBy, Recorded
<1>10. \A j \in Keys \ {k} : SameEffects(j)  BY <1>8, <1>9 DEF SameEffects
<1>11. RevisionsBy(k) = {} /\ CapturedBy(k) = {} /\ QuotedBy(k) = {} => Effect(kind, k)'
  BY <1>1, <1>4, <1>8, <1>9 DEF Effect
<1>. QED  BY <1>1, <1>3, <1>4, <1>7, <1>10, <1>11, Announced

LEMMA SourceEffect ==
    ASSUME Inv, EffectInv, NEW p \in Procs, txn[p].pc = "commit",
           txn[p].body.kind \in {"source.capture", "source.correct"},
           NEW supersedes, NEW class, NEW origin, PersistSource(p, supersedes, class, origin)
    PROVE  EffectInv'
<1>1. Sent(p)  BY DEF Inv, Shape
<1>2. PICK k \in Keys : k = txn[p].key  BY <1>1 DEF Sent
<1>. PICK kind : kind = txn[p].body.kind  OBVIOUS
<1>3. PICK n \in SourceIds : \E row :
         /\ Fresh(n) /\ sources' = [sources EXCEPT ![n] = row]
         /\ row.key = k /\ row.status = "live"
  <2> DEFINE new == NewSource(p, supersedes, class, origin)
  <2>1. new.key = k /\ new.status = "live"  BY <1>2 DEF NewSource
  <2>2. \E n \in SourceIds : Fresh(n) /\ sources' = [sources EXCEPT ![n] = new]
    BY DEF PersistSource, NewSource
  <2>. QED  BY <2>1, <2>2
<1>4. Complete(p) /\ revisions' = revisions /\ evidence' = evidence
  BY DEF PersistSource
<1>5. DOMAIN sources = SourceIds  BY DEF Inv, Shape, RowShape
<1>6. \A s : \A j : s \in CapturedBy(j)' <=> s \in CapturedBy(j) \/ (s = n /\ j = k)
  BY <1>3, <1>5 DEF CapturedBy, Recorded, Fresh
<1>7. \A j : RevisionsBy(j)' = RevisionsBy(j) /\ QuotedBy(j)' = QuotedBy(j)
  BY <1>4 DEF RevisionsBy, Revisions, Items, QuotedBy
<1>8. \A j \in Keys \ {k} : SameEffects(j)
  <2>1. ASSUME NEW j \in Keys \ {k}  PROVE CapturedBy(j)' = CapturedBy(j)
    <3>1. \A s : s \in CapturedBy(j)' <=> s \in CapturedBy(j)  BY <1>6
    <3>. QED  BY <3>1
  <2>. QED  BY <1>7, <2>1 DEF SameEffects
<1>9. ASSUME RevisionsBy(k) = {} /\ CapturedBy(k) = {} /\ QuotedBy(k) = {}
      PROVE  Effect(kind, k)'
  <2>1. CapturedBy(k)' = {n}  BY <1>6, <1>9
  <2>2. IsOne(CapturedBy(k))'  BY <2>1 DEF IsOne
  <2>. QED  BY <1>2, <1>7, <1>9, <2>2 DEF Effect
<1>. QED  BY <1>2, <1>4, <1>8, <1>9, Announced

LEMMA TombstoneEffect ==
    ASSUME Inv, EffectInv, NEW p \in Procs, CommitTombstone(p)
    PROVE  EffectInv'
<1> DEFINE n == txn[p].body.source
<1>1. txn[p].pc = "commit" /\ txn[p].body.kind = "source.tombstone"
  BY DEF CommitTombstone, Does, At
<1>2. PICK row : /\ sources' = [sources EXCEPT ![n] = row]
                 /\ row = [sources[n] EXCEPT !.status = "erased", !.text = <<>>, !.chunks = <<>>,
                                             !.version = sources[n].version + 1]
  BY Zenon DEF CommitTombstone, Body
<1>3. Complete(p) /\ revisions' = revisions /\ evidence' = evidence
  BY DEF CommitTombstone
<1>4. Sent(p)  BY <1>1 DEF Inv, Shape
<1>5. PICK k \in Keys : k = txn[p].key  BY <1>4 DEF Sent
<1>. PICK kind : kind = txn[p].body.kind  OBVIOUS
<1>6. n \in Recorded /\ n \in SourceIds /\ sources[n] \in SourceRows
  BY <1>1, <1>4 DEF Sent, Drafted, Recorded, Inv, Shape, RowShape, NoSource
<1>7. row.key = sources[n].key /\ row.status # "none"
  <2>1. row = [status |-> "erased", text |-> <<>>, chunks |-> <<>>,
               class |-> sources[n].class, activity |-> sources[n].activity,
               supersedes |-> sources[n].supersedes, origin |-> sources[n].origin,
               version |-> sources[n].version + 1, key |-> sources[n].key]
    BY <1>2, <1>6, ErasedFields, Zenon
  <2>. QED  BY <2>1, Zenon
<1>8. \A j : CapturedBy(j)' = CapturedBy(j)
  <2>1. DOMAIN sources = SourceIds  BY DEF Inv, Shape, RowShape
  <2>2. sources' = [sources EXCEPT ![n] = row]  BY <1>2, Zenon
  <2>3. \A s \in SourceIds : sources'[s] = IF s = n THEN row ELSE sources[s]
    BY <1>6, <2>1, <2>2, Zenon
  <2>4. sources[n].status # "none"  BY <1>6 DEF Recorded
  <2>. QED  BY <1>7, <2>3, <2>4 DEF CapturedBy, Recorded
<1>9. \A j : RevisionsBy(j)' = RevisionsBy(j) /\ QuotedBy(j)' = QuotedBy(j)
  BY <1>3 DEF RevisionsBy, Revisions, Items, QuotedBy
<1>10. \A j \in Keys \ {k} : SameEffects(j)  BY <1>8, <1>9 DEF SameEffects
<1>11. RevisionsBy(k) = {} /\ CapturedBy(k) = {} /\ QuotedBy(k) = {} => Effect(kind, k)'
  BY <1>1, <1>5, <1>8, <1>9 DEF Effect
<1>. QED  BY <1>1, <1>3, <1>5, <1>10, <1>11, Announced

LEMMA EvidenceEffect ==
    ASSUME Inv, EffectInv, NEW p \in Procs, CommitEvidence(p)
    PROVE  EffectInv'
<1>1. txn[p].pc = "commit" /\ txn[p].body.kind = "claim.create"
  BY DEF CommitEvidence, Does, At
<1>2. Complete(p) /\ revisions' = revisions /\ sources' = sources
  BY DEF CommitEvidence
<1>3. Sent(p)  BY <1>1 DEF Inv, Shape
<1>4. PICK k \in Keys : k = txn[p].key  BY <1>3 DEF Sent
<1>. PICK kind : kind = txn[p].body.kind  OBVIOUS
<1>5. PICK n : evidence' = evidence \cup {n} /\ n.key = k
  <2> DEFINE b == txn[p].body
             new == [source |-> b.source, version |-> b.version, class |-> txn[p].read.class,
                     excerpt |-> txn[p].read.excerpt, key |-> txn[p].key]
  <2>1. evidence' = evidence \cup {new}  BY DEF CommitEvidence, Body
  <2>2. new.key = k  BY <1>4
  <2>. QED  BY <2>1, <2>2
<1>6. \A j : RevisionsBy(j)' = RevisionsBy(j) /\ CapturedBy(j)' = CapturedBy(j)
  BY <1>2 DEF RevisionsBy, Revisions, Items, CapturedBy, Recorded
<1>7. \A j \in Keys \ {k} : SameEffects(j)
  BY <1>5, <1>6 DEF SameEffects, QuotedBy
<1>8. ASSUME RevisionsBy(k) = {} /\ CapturedBy(k) = {} /\ QuotedBy(k) = {}
      PROVE  Effect(kind, k)'
  <2>1. QuotedBy(k)' = {n}  BY <1>5, <1>8 DEF QuotedBy
  <2>2. IsOne(QuotedBy(k))'  BY <2>1 DEF IsOne
  <2>. QED  BY <1>1, <1>4, <1>6, <1>8, <2>2 DEF Effect
<1>. QED  BY <1>1, <1>2, <1>4, <1>7, <1>8, Announced

LEMMA NextEffect == Inv /\ Inv' /\ EffectInv /\ [Next]_vars => EffectInv'
<1>. SUFFICES ASSUME Inv, Inv', EffectInv, [Next]_vars  PROVE EffectInv'
  OBVIOUS
<1>1. CASE UNCHANGED rows
  <2>1. \A k \in Keys : SameEffects(k)
    BY <1>1 DEF rows, SameEffects, RevisionsBy, Revisions, Items, CapturedBy, Recorded, QuotedBy
  <2>2. commands' = commands /\ outbox' = outbox  BY <1>1 DEF rows
  <2>. QED  BY <2>1, <2>2 DEF SameEffects, EffectInv, Done, Effect
<1>2. ASSUME NEW p \in Procs, Step(p), ~UNCHANGED rows  PROVE EffectInv'
  <2>1. CASE CommitCreate(p) \/ CommitRevise(p)  BY <2>1, ContentEffect
  <2>2. CASE CommitCapture(p)
    BY <2>2, SourceEffect DEF CommitCapture, Does, At
  <2>3. CASE CommitCorrection(p)
    BY <2>3, SourceEffect DEF CommitCorrection, Does, At
  <2>4. CASE CommitTombstone(p)  BY <2>4, TombstoneEffect
  <2>5. CASE CommitEvidence(p)  BY <2>5, EvidenceEffect
  <2>. QED
    BY <1>2, <2>1, <2>2, <2>3, <2>4, <2>5, Zenon
    DEF Step, Reserve, Replay, Refuse, CreateContent, LockItem, AdmitCapture, ResolveLink,
        SelectPredecessor, LockPredecessor, RecheckPredecessor, WriteCorrection, LockSource,
        WriteTombstone, AdmitEvidence, WriteEvidence, Write
<1>3. ASSUME NEW p \in Procs, (\E k \in Keys : Begin(p, k)) \/ Fail(p)  PROVE UNCHANGED rows
  BY <1>3 DEF Begin, Fail
<1>4. UNCHANGED vars => UNCHANGED rows  BY DEF vars
<1>. QED  BY <1>1, <1>2, <1>3, <1>4 DEF Next

(* A completed command has one effect and one announcement, and nothing is *)
(* in the tables that no completed command wrote, however often a request  *)
(* is sent and wherever a transaction fails.                               *)
THEOREM CommandsHaveOneEffect == Spec => []OneEffectPerCommand
<1>1. Init => EffectInv
  <2>1. ASSUME Init, NEW k \in Keys  PROVE Done(k)
    <3>1. Items = {} /\ Recorded = {} /\ evidence = {} /\ commands[k] = None
          /\ outbox[k] = <<>>
      BY <2>1 DEF Init, Items, Recorded, NoSource
    <3>2. Revisions = {}  BY <3>1 DEF Revisions
    <3>. QED  BY <3>1, <3>2 DEF Done, RevisionsBy, CapturedBy, QuotedBy
  <2>. QED  BY <2>1 DEF EffectInv
<1>2. Inv /\ EffectInv => OneEffectPerCommand
  <2>1. Cardinality({}) = 0 /\ \A S : IsOne(S) => Cardinality(S) = 1
    BY FS_EmptySet, FS_Singleton DEF IsOne
  <2>2. ASSUME Inv, EffectInv, NEW k \in Keys
        PROVE  LET effects == Cardinality(RevisionsBy(k)) + Cardinality(CapturedBy(k))
                                + Cardinality(QuotedBy(k))
               IN  IF commands[k] = None THEN effects = 0 /\ outbox[k] = <<>>
                   ELSE /\ Len(outbox[k]) = 1
                        /\ commands[k].kind # "source.tombstone" => effects = 1
    <3>1. commands[k] # None => commands[k].kind \in Kinds
      BY <2>2 DEF Inv, CommandsStand, Stands, Tested, Drafted
    <3>2. Done(k)  BY <2>2 DEF EffectInv
    <3>3. CASE commands[k] = None
      <4>1. /\ RevisionsBy(k) = {} /\ CapturedBy(k) = {} /\ QuotedBy(k) = {}
            /\ outbox[k] = <<>>
        BY <3>2, <3>3 DEF Done
      <4>. QED  BY <2>1, <3>3, <4>1
    <3>4. CASE commands[k] # None
      <4>1. Effect(commands[k].kind, k) /\ Len(outbox[k]) = 1  BY <3>2, <3>4 DEF Done
      <4>2. CASE commands[k].kind \in {"content.create", "content.revise"}
        BY <2>1, <3>4, <4>1, <4>2 DEF Effect
      <4>3. CASE commands[k].kind \in {"source.capture", "source.correct"}
        BY <2>1, <3>4, <4>1, <4>3 DEF Effect
      <4>4. CASE commands[k].kind = "claim.create"
        BY <2>1, <3>4, <4>1, <4>4 DEF Effect
      <4>5. CASE commands[k].kind = "source.tombstone"
        BY <3>4, <4>1, <4>5
      <4>. QED  BY <3>1, <3>4, <4>2, <4>3, <4>4, <4>5 DEF Kinds
    <3>. QED  BY <3>3, <3>4
  <2>. QED  BY <2>2, Zenon DEF OneEffectPerCommand, RevisionsBy, CapturedBy, QuotedBy
<1>. QED  BY <1>1, <1>2, NextEffect, Invariance, PTL DEF Spec

(* The tables hold what the completed commands asked for, once each: no    *)
(* revision is lost between two that are written on one base, and a source *)
(* holds the text of exactly the revision it names.                        *)
THEOREM EffectsStay == Spec => []EffectsAreAsAsked
<1>1. Inv => RevisionsAreKept /\ SourcesQuoteTheirOrigin  BY DEF Inv
<1>2. RevisionsAreKept /\ SourcesQuoteTheirOrigin /\ OneEffectPerCommand => EffectsAreAsAsked
  BY DEF EffectsAreAsAsked
<1>. QED  BY <1>1, <1>2, CommandsHaveOneEffect, Invariance, PTL

=============================================================================
