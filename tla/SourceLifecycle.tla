-------------------------- MODULE SourceLifecycle ---------------------------
(***************************************************************************)
(* Content items with their revisions, source artifacts with their chunks, *)
(* and the evidence that claims quote from them, written by concurrent     *)
(* READ COMMITTED transactions: content.create, content.revise,            *)
(* source.capture, source.correct and source.tombstone of the account      *)
(* command bus and claim.create of the truth command bus.                  *)
(*                                                                         *)
(* A source is corrected by a successor and erased by a tombstone; a       *)
(* source that is quoted must see neither, and nothing that was corrected  *)
(* or erased may be quoted.  Three things keep the two apart: the row lock *)
(* of the source, the advisory lock source-truth of the triggers, and the  *)
(* triggers' own tests.  Who may do what, titles, metadata and retention   *)
(* of hashes are left out; one Space.                                      *)
(***************************************************************************)
EXTENDS SourceText, FiniteSets

CONSTANTS
    Procs,        \* requests served at the same time
    Keys,         \* idempotency keys; a content item is named by its creator's
    Casts,        \* kinds of the keys' commands, with texts and classes
    SourceIds,    \* in the order in which sources are captured
    Activities,
    Classes,      \* ranks of the access classes
    SpaceClass,   \* the class of the Space
    None

Kinds == {"content.create", "content.revise", "source.capture",
          "source.correct", "source.tombstone", "claim.create"}

ASSUME LifecycleAssumption ==
    /\ SourceIds \subseteq Nat
    /\ Classes \subseteq Nat /\ SpaceClass \in Classes
    /\ \A c \in Casts : /\ DOMAIN c.kinds \subseteq Keys
                        /\ \A k \in DOMAIN c.kinds : c.kinds[k] \in Kinds
                        /\ c.texts \subseteq Seq(Units)
                        /\ c.classes \subseteq Classes
    /\ None \notin Procs \cup Keys \cup SourceIds \cup Activities

VARIABLES
    cast,        \* which commands the keys are used for
    revisions,   \* content.content_revisions of each item, in order
    sources,     \* content.source_artifacts, source_chunks, activity_sources
    evidence,    \* truth.verified_evidence_spans
    commands,    \* ops.domain_command_records that are completed
    outbox,      \* audit and outbox rows a command caused
    keyHolder,   \* who has inserted the reservation of a key
    rowLocks,    \* row locks on sources and items: <<process, row, mode>>
    advisory,    \* who holds the advisory lock of a source
    txn          \* the transaction each process runs

rows  == <<cast, revisions, sources, evidence, commands, outbox>>
locks == <<keyHolder, rowLocks, advisory>>
vars  == <<rows, locks, txn>>

NoSource ==
    [status |-> "none", text |-> <<>>, chunks |-> <<>>, class |-> SpaceClass,
     activity |-> None, supersedes |-> None, origin |-> None,
     version |-> 0, key |-> None]
Idle == [pc |-> "idle", key |-> None, body |-> None, read |-> None]

Init ==
    /\ cast \in Casts
    /\ revisions = [k \in Keys |-> <<>>]
    /\ sources = [s \in SourceIds |-> NoSource]
    /\ evidence = {}
    /\ commands = [k \in Keys |-> None]
    /\ outbox = [k \in Keys |-> <<>>]
    /\ keyHolder = [k \in Keys |-> None]
    /\ rowLocks = {}
    /\ advisory = [s \in SourceIds |-> None]
    /\ txn = [p \in Procs |-> Idle]

Recorded == {s \in SourceIds : sources[s].status # "none"}

(* Mutant: an erased successor does not count.                             *)
SupersededLive(s) ==
    \E t \in SourceIds : sources[t].status = "live" /\ sources[t].supersedes = s

Superseded(s) == \E t \in Recorded : sources[t].supersedes = s

LiveLeaf(s) == sources[s].status = "live" /\ ~Superseded(s)

----------------------------------------------------------------------------
(* What becomes of the texts that are sent.                                *)

AllTexts == UNION {c.texts : c \in Casts}

Usable == {t \in AllTexts : Acceptable(Captured(t))}

(* normalizeAndChunkSource. *)
ChunksOf == [t \in AllTexts |-> Chunks(Normalized(Captured(t)))]

Reconstructed ==
    {t \in AllTexts : /\ Reconstructs(ChunksOf[t], Normalized(Captured(t)))
                   /\ ReconstructsInDatabase(ChunksOf[t], Normalized(Captured(t)))}

(* The artifacts whose text is what their chunks reconstruct.              *)
Whole == {<<Captured(t), ChunksOf[t]>> : t \in Reconstructed}

----------------------------------------------------------------------------
(* Requests.  The client of a quote sees the chunks of a live source.      *)

Requests ==
    [kind : {"content.create"}, text : AllTexts]
    \cup [kind : {"content.revise"}, base : Keys \X Nat, text : AllTexts]
    \cup [kind : {"source.capture"}, activity : Activities, text : AllTexts,
          class : Classes, origin : (Keys \X Nat) \cup {None}]
    \cup [kind : {"source.correct"}, source : SourceIds, activity : Activities,
          text : AllTexts, class : Classes]
    \cup [kind : {"source.tombstone"}, source : SourceIds, version : Nat]
    \cup [kind : {"claim.create"}, source : SourceIds, version : Nat, start : Nat, end : Nat,
          chunk : UNION {DOMAIN ChunksOf[t] : t \in AllTexts}]

ASSUME NoRequestAssumption == None \notin Requests

Items == {k \in Keys : revisions[k] # <<>>}
Revisions == UNION {{<<i, r>> : r \in DOMAIN revisions[i]} : i \in Items}

Quotes ==
    UNION { UNION { [kind : {"claim.create"}, source : {s}, chunk : {c},
                     version : {sources[s].version},
                     start : 0 .. Len(Points(sources[s].chunks[c].text)) - 1,
                     end : 1 .. Len(Points(sources[s].chunks[c].text))] :
                  c \in DOMAIN sources[s].chunks } : s \in Recorded }

Drafts(kind) ==
    CASE kind = "content.create" -> [kind : {kind}, text : cast.texts]
      [] kind = "content.revise" -> [kind : {kind}, base : Revisions, text : cast.texts]
      [] kind = "source.capture" ->
            [kind : {kind}, activity : Activities, text : cast.texts,
             class : cast.classes, origin : Revisions \cup {None}]
      [] kind = "source.correct" ->
            [kind : {kind}, source : Recorded, activity : Activities,
             text : cast.texts, class : cast.classes]
      [] kind = "source.tombstone" ->
            {[kind |-> kind, source |-> s, version |-> sources[s].version] : s \in Recorded}
      [] kind = "claim.create" -> Quotes

(* A request arrives, for the first time or again; one whose command was   *)
(* completed arrives as it was.  (A key reused for another request is      *)
(* refused by the same statement as in the truth ledger.)                  *)
Begin(p, k) ==
    /\ txn[p] = Idle
    /\ k \in DOMAIN cast.kinds
    /\ \E b \in IF commands[k] = None THEN Drafts(cast.kinds[k]) ELSE {commands[k]} :
          txn' = [txn EXCEPT ![p] =
                     [pc |-> "begun", key |-> k, body |-> b, read |-> None]]
    /\ UNCHANGED <<rows, locks>>

----------------------------------------------------------------------------
(* The transaction.                                                        *)

Body(p) == txn[p].body
At(p, kind, pc) == txn[p].pc = pc /\ txn[p].body.kind = kind
GoTo(p, pc) == txn' = [txn EXCEPT ![p].pc = pc]

(* PostgreSQL grants a row lock when no other transaction holds one that   *)
(* conflicts.                                                              *)
Lockable(p, row, mode) ==
    \A l \in rowLocks : l[2] = row /\ l[1] # p => l[3] = "share" /\ mode = "share"
Lock(p, row, mode) ==
    /\ Lockable(p, row, mode)
    /\ rowLocks' = rowLocks \cup {<<p, row, mode>>}

(* Mutant: the row locks outlive their transaction.                        *)
EndLocked(p) ==
    /\ txn' = [txn EXCEPT ![p] = Idle]
    /\ keyHolder' = [k \in Keys |-> IF keyHolder[k] = p THEN None ELSE keyHolder[k]]
    /\ advisory' = [s \in SourceIds |-> IF advisory[s] = p THEN None ELSE advisory[s]]
    /\ UNCHANGED rowLocks

(* The end of a transaction, committed or not: every lock is released.     *)
End(p) ==
    /\ txn' = [txn EXCEPT ![p] = Idle]
    /\ keyHolder' = [k \in Keys |-> IF keyHolder[k] = p THEN None ELSE keyHolder[k]]
    /\ advisory' = [s \in SourceIds |-> IF advisory[s] = p THEN None ELSE advisory[s]]
    /\ rowLocks' = {l \in rowLocks : l[1] # p}

(* A statement fails or the process dies, at any point.                    *)
Fail(p) ==
    /\ txn[p] # Idle
    /\ End(p)
    /\ UNCHANGED rows

----------------------------------------------------------------------------
(* What the commands test.                                                 *)

Higher(a, b) == IF a < b THEN b ELSE a

(* Mutant: the text is compared with the current revision of the origin.   *)
OriginIsCurrent(b) ==
    b.origin # None =>
        LET r == revisions[b.origin[1]] IN r[Len(r)].text = b.text

(* readAuthorizedOriginRevision: exactly the text of the named revision.   *)
OriginMatches(b) ==
    b.origin # None => revisions[b.origin[1]][b.origin[2]].text = b.text

(* content_hash is taken of the bytes that were sent, and a trigger        *)
(* compares it with the hash of the text that is stored.                   *)
HashIsOfItsText(b) == Captured(b.text) = b.text

(* The expected revision is the one read under the lock of the item, and   *)
(* still the one of the row that is selected for update and updated.       *)
BaseIsCurrent(p) ==
    /\ Body(p).base[2] = txn[p].read
    /\ Body(p).base[2] = Len(revisions[Body(p).base[1]])

(* Mutant: the second statement is left out.                               *)
StillLive(b) == sources[b.source].status = "live"

(* The second statement of lockCurrentSourceForCorrection.                 *)
StillLiveLeaf(b) == LiveLeaf(b.source)

(* The insertion trigger: predecessor a live leaf, class not lowered.      *)
CorrectionAccepted(p) ==
    /\ LiveLeaf(Body(p).source)
    /\ sources[Body(p).source].class <= txn[p].read

(* Mutant: the interlock looks for no evidence.                            *)
NeverQuoted(s) == TRUE

(* enforce_b2_source_truth_lifecycle_interlock, under the advisory lock: a *)
(* source that is quoted is neither corrected nor erased.                  *)
Unquoted(s) == \A e \in evidence : e.source # s

(* verifySnapshot: the source is current, its chunks are whole and the     *)
(* excerpt the client selected is the one at its offsets.                  *)
Admissible(b) ==
    LET s == sources[b.source] IN
    /\ LiveLeaf(b.source)
    /\ s.version = b.version
    /\ <<s.text, s.chunks>> \in Whole
    /\ b.chunk \in DOMAIN s.chunks
    /\ SpanExists(s.chunks[b.chunk].text, b.start, b.end)

(* The trigger verify_evidence_snapshot. *)
EvidenceAccepted(p) ==
    LET b == Body(p)
        s == sources[b.source] IN
    /\ LiveLeaf(b.source)
    /\ s.version = b.version
    /\ b.chunk \in DOMAIN s.chunks
    /\ QuotesInDatabase(s.chunks[b.chunk].text, b.start, b.end, txn[p].read.excerpt)
    /\ txn[p].read.class = Higher(SpaceClass, s.class)

(* The test that ends the step a transaction is at.                        *)
Passes(p) ==
    LET b == Body(p) IN
    /\ At(p, "content.revise", "commit") => BaseIsCurrent(p)
    /\ At(p, "source.capture", "begun") => OriginMatches(b) /\ b.text \in Usable
    /\ At(p, "source.capture", "commit") => HashIsOfItsText(b) /\ b.text \in Reconstructed
    /\ At(p, "source.correct", "begun") => b.activity = sources[b.source].activity
    /\ At(p, "source.correct", "select") => LiveLeaf(b.source)
    /\ At(p, "source.correct", "wait") => sources[b.source].status = "live"
    /\ At(p, "source.correct", "recheck") =>
          StillLiveLeaf(b) /\ b.text \in Usable
    /\ At(p, "source.correct", "write") =>
          /\ CorrectionAccepted(p) /\ Unquoted(b.source)
          /\ HashIsOfItsText(b) /\ b.text \in Reconstructed
    /\ At(p, "source.tombstone", "write") =>
          /\ sources[b.source].status = "live" /\ sources[b.source].version = b.version
          /\ Unquoted(b.source)
    /\ At(p, "claim.create", "begun") => Admissible(b)
    /\ At(p, "claim.create", "write") => EvidenceAccepted(p)

(* The locks that the statement a transaction is at waits for.             *)
Granted(p) ==
    LET b == Body(p) IN
    /\ txn[p].pc = "reserve" => keyHolder[txn[p].key] = None
    /\ At(p, "content.revise", "begun") => Lockable(p, b.base[1], "update")
    /\ At(p, "source.correct", "wait") \/ At(p, "source.tombstone", "begun") =>
          Lockable(p, b.source, "update")
    /\ At(p, "claim.create", "begun") => Lockable(p, b.source, "share")
    /\ txn[p].pc = "write" => advisory[b.source] = None

(* A test fails: the command is refused.                                   *)
Refuse(p) ==
    /\ txn[p] # Idle
    /\ Granted(p)
    /\ ~Passes(p)
    /\ End(p)
    /\ UNCHANGED rows

Does(p, kind, pc) == At(p, kind, pc) /\ Granted(p) /\ Passes(p)

----------------------------------------------------------------------------
(* Reservation and completion.                                             *)

(* Where a command of a kind continues after its reservation.              *)
Reserved(kind) ==
    CASE kind \in {"content.create", "content.revise", "source.capture"} -> "commit"
      [] kind = "source.correct" -> "select"
      [] kind \in {"source.tombstone", "claim.create"} -> "write"

(* Mutant: a completed command does not stop its key from being reserved.  *)
ReserveAgain(p) ==
    LET k == txn[p].key IN
    /\ txn[p].pc = "reserve"
    /\ keyHolder[k] = None
    /\ keyHolder' = [keyHolder EXCEPT ![k] = p]
    /\ GoTo(p, Reserved(Body(p).kind))
    /\ UNCHANGED <<rows, rowLocks, advisory>>

(* The insertion of the reservation waits for an uncommitted one.          *)
Reserve(p) ==
    LET k == txn[p].key IN
    /\ txn[p].pc = "reserve"
    /\ keyHolder[k] = None
    /\ commands[k] = None
    /\ keyHolder' = [keyHolder EXCEPT ![k] = p]
    /\ GoTo(p, Reserved(Body(p).kind))
    /\ UNCHANGED <<rows, rowLocks, advisory>>

(* The command was completed before: its result is the answer.             *)
Replay(p) ==
    /\ txn[p].pc = "reserve"
    /\ keyHolder[txn[p].key] = None
    /\ commands[txn[p].key] # None
    /\ End(p)
    /\ UNCHANGED rows

(* The command is completed and announced, and the transaction commits.    *)
Complete(p) ==
    LET k == txn[p].key IN
    /\ commands' = [commands EXCEPT ![k] = Body(p)]
    /\ outbox' = [outbox EXCEPT ![k] = Append(@, Body(p).kind)]
    /\ End(p)
    /\ UNCHANGED cast

----------------------------------------------------------------------------
(* Content items.                                                          *)

CreateContent(p) ==
    /\ Does(p, "content.create", "begun")
    /\ GoTo(p, "reserve")
    /\ UNCHANGED <<rows, locks>>

AddRevision(p, item) ==
    /\ revisions' = [revisions EXCEPT ![item] =
                        Append(@, [text |-> Body(p).text, key |-> txn[p].key])]
    /\ Complete(p)
    /\ UNCHANGED <<sources, evidence>>

CommitCreate(p) == Does(p, "content.create", "commit") /\ AddRevision(p, txn[p].key)

(* getContentItemScope with its lock. *)
LockItem(p) ==
    LET i == Body(p).base[1] IN
    /\ Does(p, "content.revise", "begun")
    /\ Lock(p, i, "update")
    /\ txn' = [txn EXCEPT ![p].pc = "reserve", ![p].read = Len(revisions[i])]
    /\ UNCHANGED <<rows, keyHolder, advisory>>

CommitRevise(p) == Does(p, "content.revise", "commit") /\ AddRevision(p, Body(p).base[1])

----------------------------------------------------------------------------
(* Capture and correction.                                                 *)

(* deriveSourceAccessClass: never below the Space or the predecessor.      *)
SourceClass(requested, predecessor) ==
    Higher(Higher(SpaceClass, requested), predecessor)

AdmitCapture(p) ==
    /\ Does(p, "source.capture", "begun")
    /\ GoTo(p, "reserve")
    /\ UNCHANGED <<rows, locks>>

Fresh(s) == s \notin Recorded /\ \A t \in SourceIds : t < s => t \in Recorded

(* persistSource: the artifact, its chunks and its link to the activity.   *)
PersistSource(p, supersedes, class, origin) ==
    /\ \E s \in SourceIds :
          /\ Fresh(s)
          /\ sources' = [sources EXCEPT ![s] =
                [status |-> "live", text |-> Captured(Body(p).text),
                 chunks |-> ChunksOf[Body(p).text],
                 class |-> class, activity |-> Body(p).activity,
                 supersedes |-> supersedes, origin |-> origin, version |-> 1,
                 key |-> txn[p].key]]
    /\ Complete(p)
    /\ UNCHANGED <<revisions, evidence>>

(* An item has the class of the Space, and so does its revision.           *)
CommitCapture(p) ==
    /\ Does(p, "source.capture", "commit")
    /\ PersistSource(p, None, SourceClass(Body(p).class, SpaceClass), Body(p).origin)

(* The activity of the predecessor, which the request may also name.       *)
ResolveLink(p) ==
    /\ Does(p, "source.correct", "begun")
    /\ GoTo(p, "reserve")
    /\ UNCHANGED <<rows, locks>>

(* The first statement of lockCurrentSourceForCorrection: its NOT EXISTS   *)
(* is evaluated on the statement's snapshot, before it waits for the row.  *)
SelectPredecessor(p) ==
    /\ Does(p, "source.correct", "select")
    /\ GoTo(p, "wait")
    /\ UNCHANGED <<rows, locks>>

(* The row is locked; a row that was changed meanwhile is tested again, but*)
(* a successor, another row, is not seen.                                  *)
LockPredecessor(p) ==
    /\ Does(p, "source.correct", "wait")
    /\ Lock(p, Body(p).source, "update")
    /\ GoTo(p, "recheck")
    /\ UNCHANGED <<rows, keyHolder, advisory>>

(* The second statement: the same tests on a new snapshot, and the class.  *)
RecheckPredecessor(p) ==
    /\ Does(p, "source.correct", "recheck")
    /\ txn' = [txn EXCEPT ![p].pc = "write", ![p].read =
                 SourceClass(Body(p).class, sources[Body(p).source].class)]
    /\ UNCHANGED <<rows, locks>>

(* The triggers of a correction, a tombstone and of evidence take the      *)
(* advisory lock of the source before they test.                           *)
Write(p, kind) ==
    /\ Does(p, kind, "write")
    /\ advisory' = [advisory EXCEPT ![Body(p).source] = p]
    /\ GoTo(p, "commit")
    /\ UNCHANGED <<rows, keyHolder, rowLocks>>

WriteCorrection(p) == Write(p, "source.correct")

CommitCorrection(p) ==
    /\ Does(p, "source.correct", "commit")
    /\ PersistSource(p, Body(p).source, txn[p].read, None)

----------------------------------------------------------------------------
(* Tombstones.                                                             *)

LockSource(p) ==
    /\ Does(p, "source.tombstone", "begun")
    /\ Lock(p, Body(p).source, "update")
    /\ GoTo(p, "reserve")
    /\ UNCHANGED <<rows, keyHolder, advisory>>

WriteTombstone(p) == Write(p, "source.tombstone")

CommitTombstone(p) ==
    LET s == Body(p).source IN
    /\ Does(p, "source.tombstone", "commit")
    /\ sources' = [sources EXCEPT ![s] =
          [@ EXCEPT !.status = "erased", !.text = <<>>, !.chunks = <<>>,
                    !.version = sources[s].version + 1]]
    /\ Complete(p)
    /\ UNCHANGED <<revisions, evidence>>

----------------------------------------------------------------------------
(* Evidence.                                                               *)

Excerpt(b) == Span(sources[b.source].chunks[b.chunk].text, b.start, b.end)

(* Mutant: the source is read without a lock.                              *)
AdmitUnlocked(p) ==
    /\ Does(p, "claim.create", "begun")
    /\ txn' = [txn EXCEPT ![p].pc = "reserve", ![p].read =
          [class |-> Higher(SpaceClass, sources[Body(p).source].class),
           excerpt |-> Excerpt(Body(p))]]
    /\ UNCHANGED <<rows, locks>>

(* getAuthorizedClaimEvidenceSnapshot: the source is locked for sharing,   *)
(* then its successor and its chunks are read.                             *)
AdmitEvidence(p) ==
    /\ Does(p, "claim.create", "begun")
    /\ Lock(p, Body(p).source, "share")
    /\ txn' = [txn EXCEPT ![p].pc = "reserve", ![p].read =
          [class |-> Higher(SpaceClass, sources[Body(p).source].class),
           excerpt |-> Excerpt(Body(p))]]
    /\ UNCHANGED <<rows, keyHolder, advisory>>

(* The trigger's own lock of the row is one its transaction holds already. *)
WriteEvidence(p) == Write(p, "claim.create")

CommitEvidence(p) ==
    LET b == Body(p) IN
    /\ Does(p, "claim.create", "commit")
    /\ evidence' = evidence \cup
          {[source |-> b.source, version |-> b.version, class |-> txn[p].read.class,
            excerpt |-> txn[p].read.excerpt, key |-> txn[p].key]}
    /\ Complete(p)
    /\ UNCHANGED <<revisions, sources>>

----------------------------------------------------------------------------
Step(p) ==
    \/ Reserve(p) \/ Replay(p) \/ Refuse(p)
    \/ CreateContent(p) \/ CommitCreate(p)
    \/ LockItem(p) \/ CommitRevise(p)
    \/ AdmitCapture(p) \/ CommitCapture(p)
    \/ ResolveLink(p) \/ SelectPredecessor(p) \/ LockPredecessor(p)
    \/ RecheckPredecessor(p) \/ WriteCorrection(p) \/ CommitCorrection(p)
    \/ LockSource(p) \/ WriteTombstone(p) \/ CommitTombstone(p)
    \/ AdmitEvidence(p) \/ WriteEvidence(p) \/ CommitEvidence(p)

Next == \E p \in Procs : (\E k \in Keys : Begin(p, k)) \/ Step(p) \/ Fail(p)

Spec == Init /\ [][Next]_vars

(* A statement that can run does run, and one that waits for a lock gets it*)
(* in its turn.  Nothing says that a request comes or that a process fails.*)
Fairness == \A p \in Procs : SF_vars(Step(p))
FairSpec == Spec /\ Fairness

----------------------------------------------------------------------------
(* The state has the shape of the tables, and a live source its chunks.    *)
TypeOK ==
    /\ \A k \in Keys : \A r \in DOMAIN revisions[k] : revisions[k][r].key \in Keys
    /\ \A s \in SourceIds :
          /\ sources[s].status \in {"none", "live", "erased"}
          /\ sources[s].class \in Classes
          /\ sources[s].version =
                CASE sources[s].status = "none" -> 0
                  [] sources[s].status = "live" -> 1
                  [] sources[s].status = "erased" -> 2
          /\ sources[s].status = "live" <=> sources[s].chunks # <<>>
    /\ \A e \in evidence : e.source \in Recorded /\ e.key \in Keys
    /\ \A k \in Keys : keyHolder[k] \in Procs \cup {None}
    /\ \A s \in SourceIds : advisory[s] \in Procs \cup {None}
    /\ \A l \in rowLocks : l[1] \in Procs /\ l[2] \in Keys \cup SourceIds

(* What a claim quotes is there for good: its source is neither erased nor *)
(* corrected, has the version that was quoted and is no more restricted    *)
(* than the evidence (the interlock of corrections, tombstones and claims).*)
EvidenceStands ==
    \A e \in evidence :
       /\ sources[e.source].status = "live"
       /\ \A t \in SourceIds : sources[t].supersedes # e.source
       /\ sources[e.source].version = e.version
       /\ sources[e.source].class <= e.class

(* A source has one successor at most, of the same activity and at least as*)
(* restricted: corrections that race never fork the chain, nor does one    *)
(* made after the successor was erased.                                    *)
ChainsAreLinear ==
    \A s, t \in Recorded :
       sources[t].supersedes = s =>
          /\ s < t
          /\ sources[t].activity = sources[s].activity
          /\ sources[s].class <= sources[t].class
          /\ \A u \in Recorded : sources[u].supersedes = s => u = t

(* The commands never lean on the triggers: a correction that reaches its  *)
(* insertion has a live, uncorrected predecessor and does not lower the    *)
(* class, because lockCurrentSourceForCorrection read both under the lock. *)
CorrectionsPassTheirTrigger ==
    \A p \in Procs : At(p, "source.correct", "write") => CorrectionAccepted(p)

(* Evidence that was admitted is never refused by the trigger that checks  *)
(* it again: the lock keeps the source as it was read, and offsets mean the*)
(* same characters in both places.                                         *)
AdmittedEvidencePasses ==
    \A p \in Procs : At(p, "claim.create", "write") => EvidenceAccepted(p)

(* The chunks the server cuts pass every check of their reconstruction: of *)
(* the chunker itself, of the admission of evidence and of the database.   *)
ChunksPassTheirChecks ==
    \A p \in Procs :
       At(p, "source.capture", "commit") \/ At(p, "source.correct", "write") =>
          Body(p).text \in Reconstructed

(* What the commands and the chunker check agrees with what the database   *)
(* checks again: no trigger ever refuses what a command is about to commit.*)
TriggersNeverRefuse ==
    /\ CorrectionsPassTheirTrigger
    /\ AdmittedEvidencePasses
    /\ ChunksPassTheirChecks

(* A source that names a revision as its origin holds the text of exactly  *)
(* that revision, whatever revisions were added meanwhile.                 *)
SourcesQuoteTheirOrigin ==
    \A s \in SourceIds :
       sources[s].status = "live" /\ sources[s].origin # None =>
          LET o == sources[s].origin
          IN  sources[s].text = Captured(revisions[o[1]][o[2]].text)

(* No revision is lost: what a command wrote on top of a revision is the   *)
(* next revision of the item.                                              *)
RevisionsAreKept ==
    \A k \in Keys :
       commands[k] # None =>
          LET b == commands[k]
          IN  b.kind = "content.revise" =>
                 revisions[b.base[1]][b.base[2] + 1] = [text |-> b.text, key |-> k]

(* Every completed command has one effect and one announcement, and nothing*)
(* is there that no completed command wrote (reserve, complete, retries).  *)
OneEffectPerCommand ==
    \A k \in Keys :
       LET written == {r \in Revisions : revisions[r[1]][r[2]].key = k}
           captured == {s \in Recorded : sources[s].key = k}
           quoted == {e \in evidence : e.key = k}
           effects == Cardinality(written) + Cardinality(captured) + Cardinality(quoted)
       IN  IF commands[k] = None THEN effects = 0 /\ outbox[k] = <<>>
           ELSE /\ Len(outbox[k]) = 1
                /\ commands[k].kind # "source.tombstone" => effects = 1

(* The tables hold what the completed commands asked for, once each and of *)
(* the text they meant, whatever was retried or happened in between.       *)
EffectsAreAsAsked == OneEffectPerCommand /\ RevisionsAreKept /\ SourcesQuoteTheirOrigin

(* A retry is answered: what a command tests before its reservation stays  *)
(* true once it is completed, so that the request is never refused when it *)
(* is sent again.                                                          *)
RetriesAreAnswered ==
    \A k \in Keys :
       LET b == commands[k] IN
       b # None =>
          /\ b.kind = "source.capture" => OriginMatches(b) /\ b.text \in Usable
          /\ b.kind = "source.correct" => b.activity = sources[b.source].activity
          /\ b.kind = "claim.create" => Admissible(b)

(* What TriggersNeverRefuse asks of the texts alone: one that is accepted  *)
(* is whole, and an excerpt of one of its chunks, at offsets up to limit,  *)
(* is the same in the database as in the server.                           *)
TextsAgree(limit) ==
    /\ Usable \subseteq Reconstructed
    /\ \A t \in Reconstructed : \A c \in DOMAIN ChunksOf[t] : \A i, j \in 0 .. limit :
          LET text == ChunksOf[t][c].text
          IN  SpanExists(text, i, j) => QuotesInDatabase(text, i, j, Span(text, i, j))

(* No command waits for ever for the key, the row or the advisory lock of  *)
(* another.                                                                *)
CommandsEnd == \A p \in Procs : txn[p] # Idle ~> txn[p] = Idle

(* WAVE_B1_PLAN: of the text one leading byte order mark is removed, and   *)
(* its hash is of the exact bytes retained.  So no text a source may have  *)
(* is refused for its hash.                                                *)
HashesMatch ==
    \A p \in Procs :
       At(p, "source.capture", "commit") => HashIsOfItsText(Body(p))

=============================================================================
