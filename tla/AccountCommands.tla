--------------------------- MODULE AccountCommands ---------------------------
(***************************************************************************)
(* The commands of the account command bus as whole transactions: what     *)
(* they lock, how they are authorized while access changes under them      *)
(* (module SpaceAccess), their reservation and replay, and what they       *)
(* leave: a child Space with its organization or initiative, an activity,  *)
(* a relationship that is created or ended, a change of a source.  A fact  *)
(* is accepted here as one more command whose authority is locked.         *)
(*                                                                         *)
(* The program of each kind of command is the sequence of its steps.  Home *)
(* is the Space of an organization below the root, Other that of one of    *)
(* its initiatives.  Content and sources are the subject of module         *)
(* SourceLifecycle and facts that of TruthLedger; here they are a row in a *)
(* Space.  Names, profiles, people and times are left out, and so are the  *)
(* locks of the workspace and the relay principal (module LockOrder).      *)
(***************************************************************************)
EXTENDS SpaceAccess

CONSTANTS
    Home, Other,
    Keys,       \* idempotency keys
    Casts,      \* who asks for what, and the access there is at the start
    MaxRuns     \* how many transactions a process runs

ASSUME WorkAssumption ==
    /\ {Home, Other} \subseteq Spaces \ {Root} /\ Home # Other
    /\ None \notin Keys
    /\ MaxRuns \in Nat

VARIABLES
    cast,          \* the member of Casts this behaviour is about
    relationship,  \* version of the row of work.relationships that is ended
    commands,      \* ops.domain_command_records that are completed
    effects        \* rows of completed commands: <<command key, table, Space>>

work == <<cast, relationship, commands, effects>>
vars == <<access, locks, txn, work>>

RelationshipRow == <<"relationship", 0>>
ItemRow == <<"item", 0>>
SourceRow == <<"source", 0>>
ActivityRow == <<"activity", 0>>
KeyRow(k) == <<"key", k>>

----------------------------------------------------------------------------
(* Steps: a row that is locked, decisions, the reservation of the key, a   *)
(* child Space, the check of the expected version and the statement that   *)
(* ends the relationship, and rows that are written.                       *)

LockStep(row, mode) == [do |-> "lock", row |-> row, mode |-> mode]
DecideStep(mode, todo) == [do |-> "decide", mode |-> mode, todo |-> todo]
BatchStep(todo) == [do |-> "batch", todo |-> todo]
ReserveStep == [do |-> "reserve"]
ChildStep == [do |-> "child"]
VersionStep == [do |-> "version"]
EndStep == [do |-> "end"]
WriteStep(tables) == [do |-> "write", tables |-> tables]

Messages == {"audit", "outbox"}
SpaceLock(s) == LockStep(<<"space", s>>, "update")

CreateOrganization ==
    <<SpaceLock(Root),
      DecideStep("plain", <<<<"manage", Root>>, <<"manage", Root>>>>),
      ReserveStep, ChildStep>>

CreateInitiative ==
    <<SpaceLock(Home),
      DecideStep("plain", <<<<"contribute", Home>>, <<"manage", Home>>, <<"read", Home>>>>),
      ReserveStep, ChildStep>>

CreateActivity ==
    <<SpaceLock(Home),
      DecideStep("plain", <<<<"contribute", Home>>, <<"read", Home>>>>),
      ReserveStep, WriteStep({"activity"} \cup Messages)>>

(* The endpoints of a relationship, each once and in the order of their    *)
(* keys: the initiative in Other, the organization in Home.                *)
EndpointReads == <<<<"read", Other>>, <<"read", Home>>>>

CreateRelationship ==
    <<SpaceLock(Home),
      DecideStep("plain", <<<<"contribute", Home>>>> \o EndpointReads),
      ReserveStep, WriteStep({"relationship"} \cup Messages)>>

EndRequests == EndpointReads \o <<<<"contribute", Home>>, <<"enter", Home>>>>

(* Mutant: a retry finds the version it has changed itself.                *)
EndCheckedFirst ==
    <<DecideStep("unlocked", <<<<"contribute", Home>>>>),
      LockStep(RelationshipRow, "update"),
      BatchStep(EndRequests),
      VersionStep, ReserveStep, EndStep, WriteStep(Messages)>>

EndRelationship ==
    <<DecideStep("unlocked", <<<<"contribute", Home>>>>),
      LockStep(RelationshipRow, "update"),
      BatchStep(EndRequests),
      ReserveStep, VersionStep, EndStep, WriteStep(Messages)>>

(* Mutant: content is created in a Space that is not locked.               *)
CreateContentUnlocked ==
    <<DecideStep("plain", <<<<"contribute", Home>>>>),
      ReserveStep, WriteStep({"content", "revision"} \cup Messages)>>

CreateContent ==
    <<SpaceLock(Home), DecideStep("plain", <<<<"contribute", Home>>>>),
      ReserveStep, WriteStep({"content", "revision"} \cup Messages)>>

ReviseContent ==
    <<LockStep(ItemRow, "update"), DecideStep("plain", <<<<"contribute", Home>>>>),
      ReserveStep, WriteStep({"revision"} \cup Messages)>>

CaptureSource ==
    <<LockStep(ActivityRow, "share"), DecideStep("plain", <<<<"contribute", Home>>>>),
      ReserveStep, WriteStep({"source"} \cup Messages)>>

CorrectSource ==
    <<DecideStep("locked", <<<<"read", Other>>, <<"contribute", Other>>>>),
      ReserveStep, LockStep(SourceRow, "update"),
      DecideStep("locked", <<<<"read", Other>>, <<"contribute", Other>>>>),
      WriteStep({"source"} \cup Messages)>>

TombstoneSource ==
    <<DecideStep("locked", <<<<"read", Other>>, <<"manage", Other>>>>),
      LockStep(SourceRow, "update"),
      DecideStep("locked", <<<<"read", Other>>, <<"manage", Other>>>>),
      ReserveStep, WriteStep({"tombstone"} \cup Messages)>>

AcceptFact ==
    <<DecideStep("locked", <<<<"own", Other>>>>), ReserveStep,
      DecideStep("locked", <<<<"read", Other>>, <<"read", Other>>>>),
      WriteStep({"fact"} \cup Messages)>>

Script ==
    [organization |-> CreateOrganization, initiative |-> CreateInitiative,
     activity |-> CreateActivity, relationship |-> CreateRelationship,
     end |-> EndRelationship, content |-> CreateContent, revise |-> ReviseContent,
     capture |-> CaptureSource, correct |-> CorrectSource,
     tombstone |-> TombstoneSource, accept |-> AcceptFact]

Kinds == DOMAIN Script
Creations == {"organization", "initiative"}

(* resolveReservationSpace                                                 *)
ReservationSpace(kind) ==
    CASE kind = "organization" -> Root
      [] kind \in {"correct", "tombstone", "accept"} -> Other
      [] OTHER -> Home

(* What there is at the start: rows of the tables, the Spaces of the       *)
(* scripts among them.  The parent of a Space is a row of the table too    *)
(* (access.spaces references itself) and no live Space is its own ancestor. *)
ASSUME CastAssumption ==
    /\ None \notin Kinds
    /\ \A c \in Casts :
          /\ c.requests \in [Procs -> SUBSET [kind : Kinds, key : Keys]]
          /\ c.spaces \in [Spaces -> [status : {"none", "live", "archived"},
                                      parent : Spaces \cup {None},
                                      mode : {"inherit", "restricted"},
                                      class : 0 .. Ceiling + 1]]
          /\ \A s \in {Root, Home, Other} : c.spaces[s].status # "none"
          /\ \A s \in Spaces :
                c.spaces[s].status # "none" /\ c.spaces[s].parent # None =>
                    c.spaces[c.spaces[s].parent].status # "none"
          /\ \A S \in SUBSET {s \in Spaces : c.spaces[s].status = "live"} :
                S # {} => \E s \in S : c.spaces[s].parent \notin S
          /\ c.grants \in [Grants -> [status : {"none", "live", "revoked"},
                                      space : Spaces \cup {None},
                                      relation : Relations \cup {None}]]
          /\ c.role \in {"member", "admin"}
          /\ c.budget \in 0 .. MaxChanges

Unused == {s \in Spaces : spaces[s].status = "none"} \ {txn[p].child : p \in Procs}

----------------------------------------------------------------------------
(* Transactions.                                                           *)

Idle == [pc |-> "idle", key |-> None, kind |-> None, script |-> <<>>,
         todo |-> <<>>, mode |-> None, after |-> None, role |-> None,
         grant |-> None, other |-> None, path |-> <<>>, found |-> Nothing,
         expected |-> Nothing, requests |-> <<>>, since |-> 0, scope |-> None,
         child |-> None, version |-> None, rows |-> {}, replay |-> FALSE, runs |-> 0]

Init ==
    /\ cast \in Casts
    /\ spaces = cast.spaces
    /\ grants = cast.grants
    /\ actor = [role |-> cast.role, active |-> TRUE, policy |-> TRUE]
    /\ changes = MaxChanges - cast.budget
    /\ locks = {}
    /\ txn = [p \in Procs |-> Idle]
    /\ relationship = 1
    /\ commands = [k \in Keys |-> None]
    /\ effects = {}

(* A request, or a retry of one, starts its transaction in the Space of    *)
(* the reservation.                                                        *)
Begin(p, request) ==
    /\ At(p, "idle")
    /\ txn[p].runs < MaxRuns
    /\ request.kind \in Creations => Unused # {}
    /\ txn' = [txn EXCEPT ![p] =
                  [Idle EXCEPT !.pc = "next", !.key = request.key, !.kind = request.kind,
                               !.script = Script[request.kind], !.since = changes,
                               !.scope = ReservationSpace(request.kind),
                               !.runs = txn[p].runs + 1]]
    /\ UNCHANGED <<access, locks, work>>

Release(p) == locks' = {l \in locks : l[1] # p}

(* Ready to make a step of this kind, and what is left after it.           *)
Ready(p, do) == At(p, "next") /\ txn[p].script # <<>> /\ Head(txn[p].script).do = do
StepOf(p) == Head(txn[p].script)
Rest(p) == Tail(txn[p].script)
Advance(p) == Become(p, [txn[p] EXCEPT !.script = Rest(p)])
Invalid(p) == Step(p, "invalid")

(* Row-level security: the Space of the row is the Space of the session.   *)
InScope(p, s) == txn[p].scope = s

LockRow(p) ==
    /\ Ready(p, "lock")
    /\ LET row == StepOf(p).row IN
       IF row[1] = "space" /\ ~Live(row[2])
       THEN Invalid(p) /\ UNCHANGED locks
       ELSE /\ Lock(p, {row}, StepOf(p).mode)
            /\ IF row = RelationshipRow
               THEN Become(p, [txn[p] EXCEPT !.script = Rest(p), !.version = relationship])
               ELSE Advance(p)
    /\ UNCHANGED <<access, work>>

StartDecisions(p) ==
    /\ Ready(p, "decide")
    /\ LET rest == [txn[p] EXCEPT !.script = Rest(p)] IN
       Become(p, Decide(rest, StepOf(p).todo, StepOf(p).mode, "next"))
    /\ UNCHANGED <<access, locks, work>>

StartAuthorityBatch(p) ==
    /\ Ready(p, "batch")
    /\ StartBatch(p, [txn[p] EXCEPT !.script = Rest(p)], StepOf(p).todo)
    /\ UNCHANGED <<access, locks, work>>

Decision(p) == Authorize(p) /\ UNCHANGED work

(* Mutant: the reservation does not look for a completed command.          *)
ReserveAnew(p) ==
    /\ Ready(p, "reserve")
    /\ Lock(p, {KeyRow(txn[p].key)}, "update")
    /\ Advance(p)
    /\ UNCHANGED <<access, work>>

(* The key is reserved, or its result is returned again.                   *)
Reserve(p) ==
    /\ Ready(p, "reserve")
    /\ Lock(p, {KeyRow(txn[p].key)}, "update")
    /\ IF ~InScope(p, ReservationSpace(txn[p].kind)) THEN Invalid(p)
       ELSE IF commands[txn[p].key] # None
            THEN Become(p, [txn[p] EXCEPT !.pc = "commit", !.replay = TRUE])
            ELSE Advance(p)
    /\ UNCHANGED <<access, work>>

CheckVersion(p) ==
    /\ Ready(p, "version")
    /\ IF txn[p].version = 1 THEN Advance(p) ELSE Invalid(p)
    /\ UNCHANGED <<access, locks, work>>

(* endRelationship: the statement checks the actor, the governing Space    *)
(* and the grants of the decisions once more.                              *)
StillGranted(p) ==
    /\ actor.policy /\ actor.active /\ Live(Home)
    /\ \/ Admin
       \/ /\ \A r \in txn[p].found.grants : grants[r[1]].status = "live" /\ grants[r[1]].space = r[2].space
          /\ \E r \in txn[p].found.grants : grants[r[1]].relation = "contributor"

WriteEnd(p) ==
    /\ Ready(p, "end")
    /\ IF ~StillGranted(p) THEN Step(p, "denied")
       ELSE IF relationship = 1 /\ InScope(p, Home)
            THEN Become(p, [txn[p] EXCEPT !.script = Rest(p), !.rows = {"ended"}])
            ELSE Invalid(p)
    /\ UNCHANGED <<access, locks, work>>

WriteRows(p) ==
    /\ Ready(p, "write")
    /\ IF InScope(p, ReservationSpace(txn[p].kind))
       THEN Become(p, [txn[p] EXCEPT !.script = Rest(p), !.rows = @ \cup StepOf(p).tables])
       ELSE Invalid(p)
    /\ UNCHANGED <<access, locks, work>>

(* withCreatedChildSpaceScope: the Space and the relay's grant are         *)
(* inserted and the session goes on in the new Space, where the aggregate  *)
(* and its messages are written; then the session returns.                 *)
OpenChild(p) ==
    /\ Ready(p, "child")
    /\ txn[p].child = None
    /\ Unused # {} \* a bound: identifiers are left for Spaces
    /\ LET parent == ReservationSpace(txn[p].kind)
           child == LowestOf(Unused) IN
       IF InScope(p, parent) /\ Live(parent)
       THEN /\ Lock(p, {<<"space", parent>>, <<"space", child>>}, "update")
            /\ Become(p, [txn[p] EXCEPT !.child = child, !.scope = child,
                                      !.rows = {"space", "grant"}])
       ELSE Invalid(p) /\ UNCHANGED locks
    /\ UNCHANGED <<access, work>>

FillChild(p) ==
    /\ Ready(p, "child")
    /\ txn[p].child # None /\ txn[p].kind \notin txn[p].rows
    /\ IF InScope(p, txn[p].child)
       THEN Become(p, [txn[p] EXCEPT !.rows = @ \cup {txn[p].kind} \cup Messages])
       ELSE Invalid(p)
    /\ UNCHANGED <<access, locks, work>>

CloseChild(p) ==
    /\ Ready(p, "child")
    /\ txn[p].kind \in txn[p].rows
    /\ Become(p, [txn[p] EXCEPT !.script = Rest(p), !.scope = ReservationSpace(txn[p].kind)])
    /\ UNCHANGED <<access, locks, work>>

(* completeCommand, in the Space of the reservation.                       *)
Complete(p) ==
    /\ At(p, "next") /\ txn[p].script = <<>>
    /\ IF InScope(p, ReservationSpace(txn[p].kind)) THEN Step(p, "commit") ELSE Invalid(p)
    /\ UNCHANGED <<access, locks, work>>

Finish(p) == txn' = [txn EXCEPT ![p] = [Idle EXCEPT !.runs = txn[p].runs]]

NewSpace(t) ==
    [status |-> "live", parent |-> t.scope, mode |-> "inherit",
     class |-> IF t.kind = "organization" THEN 0 ELSE spaces[t.scope].class]

PlaceOf(t) == IF t.child # None THEN t.child ELSE t.scope

Commit(p) ==
    LET t == txn[p] IN
    /\ At(p, "commit")
    /\ Release(p) /\ Finish(p)
    /\ IF t.replay THEN UNCHANGED <<spaces, relationship, commands, effects>>
       ELSE /\ commands' = [commands EXCEPT ![t.key] = t.kind]
            /\ effects' = effects \cup {<<t.key, table, PlaceOf(t)>> : table \in t.rows}
            /\ spaces' = IF t.child = None THEN spaces ELSE [spaces EXCEPT ![t.child] = NewSpace(t)]
            /\ relationship' = relationship + (IF "ended" \in t.rows THEN 1 ELSE 0)
    /\ UNCHANGED <<grants, actor, changes, cast>>

(* A refusal, an error of any statement or a lost connection.              *)
Rollback(p) ==
    /\ txn[p].pc # "idle"
    /\ Release(p) /\ Finish(p)
    /\ UNCHANGED <<access, work>>

Serve(p) ==
    \/ LockRow(p) \/ StartDecisions(p) \/ StartAuthorityBatch(p) \/ Decision(p)
    \/ Reserve(p) \/ CheckVersion(p) \/ WriteEnd(p) \/ WriteRows(p)
    \/ OpenChild(p) \/ FillChild(p) \/ CloseChild(p) \/ Complete(p) \/ Commit(p)

Refused(p) == txn[p].pc \in {"denied", "invalid"} /\ Rollback(p)
Lost(p) == txn[p].pc \notin {"idle", "denied", "invalid"} /\ Rollback(p)

Next ==
    \/ \E p \in Procs :
          \/ \E request \in cast.requests[p] : Begin(p, request)
          \/ Serve(p) \/ Refused(p) \/ Lost(p)
    \/ Administer /\ UNCHANGED work
    \/ /\ \A p \in Procs : At(p, "idle") /\ (txn[p].runs = MaxRuns \/ cast.requests[p] = {})
       /\ UNCHANGED vars

Spec == Init /\ [][Next]_vars

(* Whoever holds locks goes on; a commit is not refused for ever.          *)
FairSpec == Spec /\ \A p \in Procs : WF_vars(Serve(p)) /\ WF_vars(Refused(p))

----------------------------------------------------------------------------
(* Properties.                                                             *)

Needs(kind) ==
    UNION {LET step == Script[kind][i] IN
           IF step.do \in {"decide", "batch"} THEN {step.todo[j] : j \in DOMAIN step.todo} ELSE {} :
           i \in DOMAIN Script[kind]}

Allowed(kind) == \A n \in Needs(kind) : May(n[1], n[2])

Guarded == {"end", "correct", "tombstone", "accept"}
Creating == {"organization", "initiative", "activity", "relationship", "content"}

Writes(p) == txn[p].pc = "commit" /\ ~txn[p].replay

(* The rows of access and work, the locks and the open transactions are    *)
(* what the code and its tables can hold.                                  *)
TypeOK ==
    /\ \A s \in Spaces :
          /\ spaces[s].status \in {"none", "live", "archived"}
          /\ spaces[s].parent \in Spaces \cup {None}
          /\ Live(s) => spaces[s].parent # s
          /\ spaces[s].class \in 0 .. Ceiling + 1
          /\ spaces[s].mode \in {"inherit", "restricted"}
    /\ \A g \in Grants : grants[g].status \in {"none", "live", "revoked"}
    /\ actor.role \in {"member", "admin"} /\ {actor.active, actor.policy} \subseteq BOOLEAN
    /\ changes \in 0 .. MaxChanges
    /\ \A l \in locks : l[1] \in Procs /\ l[3] \in {"share", "update"}
    /\ \A p \in Procs : txn[p].kind \in Kinds \cup {None} /\ txn[p].scope \in Spaces \cup {None}
    /\ relationship \in 1 .. 2
    /\ \A k \in Keys : commands[k] \in Kinds \cup {None}

(* What relationship.end, source.correct, source.tombstone and fact.accept *)
(* have decided is still true when they commit: no Space, grant,           *)
(* membership or policy they relied on has changed since, and none that    *)
(* they did not look at could take the authority away (lockAuthority and   *)
(* lockAndReauthorizeRelationshipAuthority).                               *)
CommitsAreAuthorized ==
    \A p \in Procs : Writes(p) /\ txn[p].kind \in Guarded => Allowed(txn[p].kind)

(* The creations decide without locking the actor or its grants, but the   *)
(* Space they lock and decide about is live, within the actor's class and  *)
(* under the active policy version until they commit.                      *)
GoverningSpaceHolds ==
    \A p \in Procs :
        LET space == ReservationSpace(txn[p].kind) IN
        Writes(p) /\ txn[p].kind \in Creating =>
            Live(space) /\ spaces[space].class <= Ceiling /\ actor.policy

(* A command is only refused when its actor may not do what it asks, when  *)
(* access has changed while it ran, or when another command has ended the  *)
(* relationship: the locks, the comparisons and the change of the          *)
(* session's Space never refuse a command by themselves, and the retry of  *)
(* a completed command does not fail over what it has changed itself       *)
(* (reserveCommand comes before the version is checked).                   *)
RefusalsAreDue ==
    \A p \in Procs :
        txn[p].pc \in {"denied", "invalid"} =>
            \/ changes > txn[p].since
            \/ ~Allowed(txn[p].kind)
            \/ /\ txn[p].kind = "end"
               /\ relationship # 1
               /\ commands[txn[p].key] = None

(* A child Space is never seen without the relay's grant, its organization *)
(* or initiative, the audit event and the outbox row, all in it, and one   *)
(* command has made it, which has made no other (one transaction, and      *)
(* withCreatedChildSpaceScope's checks).                                   *)
ChildSpacesAreComplete ==
    \A s \in Spaces :
        cast.spaces[s].status = "none" /\ spaces[s].status # "none" =>
            \E k \in Keys :
                /\ commands[k] \in Creations
                /\ {e \in effects : e[3] = s \/ e[1] = k} =
                       {<<k, table, s>> : table \in {"space", "grant", commands[k]} \cup Messages}

(* Every transaction ends: waits for row locks and keys never close a      *)
(* cycle.                                                                  *)
TransactionsEnd == \A p \in Procs : txn[p].pc # "idle" ~> txn[p].pc = "idle"
=============================================================================
