--------------------------- MODULE TrustedObjective ---------------------------
(***************************************************************************)
(* The trusted objective service of the API.  A request reads the          *)
(* initiative, its note and its objective, decides, has the command bus    *)
(* commit at most one command, and reads the page it answers with.  Every  *)
(* statement of a READ COMMITTED transaction sees the ledger of its own    *)
(* instant, so a request is the sequence of its statements, between which  *)
(* anybody else may commit.                                                *)
(*                                                                         *)
(* The ledger is what module TruthLedger shows of one objective: a command *)
(* commits as one step on what it checked.  A text is an objective with    *)
(* its excerpt.  The initiative, its activity and organization do not      *)
(* change; visibility, rework lineage and the last recovery are shown and  *)
(* decide nothing.                                                         *)
(***************************************************************************)
EXTENDS Integers, Sequences, FiniteSets

CONSTANTS
    People, Owner, \* members of the initiative, and the one who owns it
    User,          \* the identity the API is started with
    Texts, Notes, ClaimIds, FactIds,
    Calls,  \* requests the API may be working on
    Casts,  \* the instances of the model, see cast
    None

ASSUME ObjectiveAssumption ==
    /\ {Owner, User} \subseteq People
    /\ FactIds \subseteq Nat \ {0}
    /\ ClaimIds \subseteq FactIds \* the bound of claims is met before that of facts
    /\ \A c \in Casts : /\ User \in c.people /\ c.people \subseteq People
                        /\ {c.revisions, c.requests, c.interruptions} \subseteq Nat
    /\ None \notin People \cup Texts \cup Notes

VARIABLES
    cast,     \* who takes part, and the bounds: revisions of the note, requests
              \* at once, and commands of others during one request
    claims,   \* truth.claims of the objective
    facts,    \* truth.accepted_facts, with the claim behind each and the fact it replaced
    source,   \* the current note of the activity
    commands, \* completed commands, each with who gave it
    calls     \* requests in progress

ledger == <<claims, facts, source, commands>>

NoClaim == [status |-> "none", text |-> None, by |-> None]
NoFact == [status |-> "none", claim |-> 0, prior |-> 0]
NoSource == [rev |-> 0, note |-> None]

----------------------------------------------------------------------------
(* The ledger.  0 is the identifier of nothing.                            *)

Last(S) == IF S = {} THEN 0 ELSE CHOOSE x \in S : \A y \in S : y <= x

ClaimsThatAre(status) == {x \in ClaimIds : claims[x].status = status}
FactsThatAre(status) == {f \in FactIds : facts[f].status = status}
Open == ClaimsThatAre("proposed")
Current == FactsThatAre("current")

LatestId == Last({x \in ClaimIds : claims[x].status # "none"})
Generation(x) == <<x, IF x = 0 THEN "none" ELSE claims[x].status>>
NewClaim == LatestId + 1
NewFact == Last({f \in FactIds : facts[f].status # "none"}) + 1

(* The objective a fact states. *)
Stated(f) == claims[facts[f].claim].text

(* readLifecycleHistory: the fact that f replaced, or else the last one    *)
(* that was revoked.                                                       *)
Past(f) == IF f # 0 /\ facts[f].prior # 0 THEN facts[f].prior
           ELSE Last(FactsThatAre("revoked"))

----------------------------------------------------------------------------
(* Commands.  The idempotency key is made of the body (stableKey), except  *)
(* that of a capture, which is made of the activity alone.                 *)

OwnerDecides == {"accept", "supersede", "revoke"}

Permitted(u, b) ==
    /\ b.kind \in OwnerDecides => u = Owner
    /\ b.kind = "rework" => claims[b.claim].by = u
    /\ b.kind = "withdraw" =>
          u = Owner \/ (b.as = "withdrawn" /\ claims[b.claim].by = u)

(* A proposal on the latest generation, with evidence of the current note. *)
Novel(b) == /\ Open = {}
            /\ b.gen = Generation(LatestId) /\ b.rev = source.rev

(* A proposal that a person withdraws, rejects or reworks is still open.   *)
Pending(x) == x \in Open

(* Mutant: an objective is accepted whatever is current.                   *)
LegalBeside(b) ==
    \/ b.kind = "capture"
    \/ b.kind = "propose" /\ Novel(b)
    \/ b.kind = "rework" /\ Pending(b.claim) /\ b.rev = source.rev
    \/ b.kind = "withdraw" /\ Pending(b.claim)
    \/ b.kind = "accept" /\ b.claim \in Open
    \/ b.kind = "supersede" /\ b.claim \in Open /\ b.fact \in Current
    \/ b.kind = "revoke" /\ b.fact \in Current /\ Open = {}

(* What the bus checks before it commits (module TruthSlots), the evidence *)
(* of a claim included.                                                    *)
Legal(b) ==
    \/ b.kind = "capture"
    \/ b.kind = "propose" /\ Novel(b)
    \/ b.kind = "rework" /\ Pending(b.claim) /\ b.rev = source.rev
    \/ b.kind = "withdraw" /\ Pending(b.claim)
    \/ b.kind = "accept" /\ b.claim \in Open /\ Current = {}
    \/ b.kind = "supersede" /\ b.claim \in Open /\ b.fact \in Current
    \/ b.kind = "revoke" /\ b.fact \in Current /\ Open = {}

KeyTaken(b) ==
    \E d \in commands :
       d.body.kind = b.kind /\ (b.kind = "capture" \/ d.body = b)

Replayed(u, b) == [by |-> u, body |-> b] \in commands

(* A bound: the instance has identifiers left for what b creates. *)
Room(b) == /\ b.kind \in {"propose", "rework"} => NewClaim \in ClaimIds
           /\ b.kind \in {"accept", "supersede"} => NewFact \in FactIds

Admissible(u, b) == Legal(b) /\ Permitted(u, b) /\ ~KeyTaken(b) /\ Room(b)

Status(x, status) == [claims EXCEPT ![x].status = status]

Proposed(u, text) == [status |-> "proposed", text |-> text, by |-> u]
Accepted(x, prior) == [status |-> "current", claim |-> x, prior |-> prior]

(* The writes of the command with body b, given by u. *)
Commit(u, b) ==
    /\ Admissible(u, b)
    /\ commands' = commands \cup {[by |-> u, body |-> b]}
    /\ \/ /\ b.kind = "capture"
          /\ source' = [rev |-> 1, note |-> b.note]
          /\ UNCHANGED <<claims, facts>>
       \/ /\ b.kind = "propose"
          /\ claims' = [claims EXCEPT ![NewClaim] = Proposed(u, b.text)]
          /\ UNCHANGED <<facts, source>>
       \/ /\ b.kind = "rework"
          /\ claims' = [Status(b.claim, "superseded") EXCEPT
                          ![NewClaim] = Proposed(u, b.text)]
          /\ UNCHANGED <<facts, source>>
       \/ /\ b.kind = "withdraw"
          /\ claims' = Status(b.claim, "rejected")
          /\ UNCHANGED <<facts, source>>
       \/ /\ b.kind = "accept"
          /\ claims' = Status(b.claim, "accepted")
          /\ facts' = [facts EXCEPT ![NewFact] = Accepted(b.claim, 0)]
          /\ UNCHANGED source
       \/ /\ b.kind = "supersede"
          /\ claims' = Status(b.claim, "accepted")
          /\ facts' = [facts EXCEPT ![b.fact].status = "superseded",
                                    ![NewFact] = Accepted(b.claim, b.fact)]
          /\ UNCHANGED source
       \/ /\ b.kind = "revoke"
          /\ facts' = [facts EXCEPT ![b.fact].status = "revoked"]
          /\ UNCHANGED <<claims, source>>

(* The bodies a client of the service may send now with some effect. *)
Sendable ==
    {[kind |-> "capture", note |-> n] : n \in Notes}
    \cup {[kind |-> "propose", gen |-> Generation(LatestId), rev |-> source.rev, text |-> t] :
            t \in IF source.rev = 0 THEN {} ELSE Texts}
    \cup {[kind |-> "rework", claim |-> x, rev |-> source.rev, text |-> t] :
            x \in Open, t \in Texts}
    \cup {[kind |-> "withdraw", claim |-> x, as |-> a] :
            x \in Open, a \in {"withdrawn", "rejected"}}
    \cup {[kind |-> "accept", claim |-> x] : x \in Open}
    \cup {[kind |-> "supersede", fact |-> f, claim |-> x] : f \in Current, x \in Open}
    \cup {[kind |-> "revoke", fact |-> f] : f \in Current}

(* Corrections and tombstones of the note, which the interlock of sources  *)
(* and evidence refuses once a claim quotes it (module SourceLifecycle).   *)
Unquoted == source.rev # 0 /\ LatestId = 0

Correct(n) ==
    /\ Unquoted /\ source.rev < cast.revisions
    /\ source' = [rev |-> source.rev + 1, note |-> n]
    /\ UNCHANGED <<claims, facts, commands>>

Tombstone ==
    /\ Unquoted
    /\ source' = NoSource
    /\ UNCHANGED <<claims, facts, commands>>

----------------------------------------------------------------------------
(* Requests.  A request has its kind, what the person entered, and what it *)
(* names of the page it was sent from: the fact, the proposal, and the     *)
(* anchors of the generation and of the source.                            *)

(* Mutant: a page reads the open proposal before the accepted memory.      *)
PageOpenFirst ==
    <<"latest", "status", "source", "open", "openAgain", "fact", "factAgain",
      "history", "acceptedClaim", "rights", "answer">>

(* The statements of getState; "Again" reads the row of an identifier that *)
(* the statement before it found.                                          *)
Page == <<"latest", "status", "source", "fact", "factAgain", "open", "openAgain",
          "history", "acceptedClaim", "rights", "answer">>

(* What a request reads before its command. *)
Before == [
    capture   |-> <<"source">>,
    propose   |-> <<"source", "fact", "factAgain", "revoked", "acceptedClaim",
                    "latest", "status", "open", "openAgain">>,
    rework    |-> <<"source">>,
    withdraw  |-> <<>>,
    accept    |-> <<"source", "fact", "factAgain", "revoked", "acceptedClaim",
                    "open", "openAgain">>,
    supersede |-> <<>>,
    revoke    |-> <<"fact", "factAgain">>]

(* A request whose command is past ("done"), a reload and a draft of the   *)
(* confirmation question read a page.                                      *)
Program ==
    [kind \in DOMAIN Before \cup {"load", "draft", "done"} |->
       IF kind \in DOMAIN Before THEN Before[kind] \o <<"command">> ELSE Page]

Unread == [latest |-> <<0, "none">>, source |-> NoSource, fact |-> 0, open |-> 0,
           history |-> 0, decides |-> FALSE]

(* The page of this instant. *)
PageNow ==
    [latest |-> Generation(LatestId), source |-> source, fact |-> Last(Current),
     open |-> Last(Open), history |-> Past(Last(Current)),
     decides |-> Current # {} /\ User = Owner]

(* readValidClaim: a proposal that was found is read again with its        *)
(* evidence, and is gone when it is no longer open.                        *)
StillOpen(x) == IF x \in Open THEN x ELSE 0

(* What a statement adds to what was seen. *)
Read(step, s) ==
    CASE step = "latest" -> [s EXCEPT !.latest = Generation(LatestId)]
      [] step = "status" -> [s EXCEPT !.latest = Generation(s.latest[1])]
      [] step = "source" -> [s EXCEPT !.source = source]
      [] step = "fact" -> [s EXCEPT !.fact = Last(Current)]
      [] step = "open" -> [s EXCEPT !.open = Last(Open)]
      [] step = "openAgain" -> [s EXCEPT !.open = StillOpen(@)]
      [] step = "history" -> [s EXCEPT !.history = Past(s.fact)]
      [] step = "revoked" -> [s EXCEPT !.history = Past(0)]
      [] step = "rights" -> [s EXCEPT !.decides = s.fact \in Current /\ User = Owner]
      [] OTHER -> s

(* Mutant: an accepted claim without an accepted memory is never expected. *)
NeededAfterRevocation(step, s) ==
    CASE step = "status" -> s.latest[1] # 0
      [] step \in {"factAgain", "rights"} -> s.fact # 0
      [] step = "revoked" -> s.fact = 0
      [] step = "open" -> s.source.rev # 0
      [] step = "openAgain" -> s.open # 0
      [] step = "acceptedClaim" -> s.source.rev # 0 /\ s.fact = 0
      [] OTHER -> TRUE

(* Whether a statement is executed after what was seen.                    *)
Needed(step, s) ==
    CASE step = "status" -> s.latest[1] # 0
      [] step \in {"factAgain", "rights"} -> s.fact # 0
      [] step = "revoked" -> s.fact = 0
      [] step = "open" -> s.source.rev # 0
      [] step = "openAgain" -> s.open # 0
      [] step = "acceptedClaim" -> s.source.rev # 0 /\ s.fact = 0 /\ s.history = 0
      [] OTHER -> TRUE

Following(kind, at, s) ==
    CHOOSE j \in DOMAIN Program[kind] :
       /\ j > at /\ Needed(Program[kind][j], s)
       /\ \A i \in (at + 1) .. (j - 1) : ~Needed(Program[kind][i], s)

Step(c) == Program[calls[c].req.kind][calls[c].at]

(* The proposal x is the one the request asks for, on the same generation.  *)
Same(r, x) == claims[x].text = r.data /\ r.latest = Generation(x - 1)

(* Mutant: the note may be another revision than the person read.          *)
MisfitAnySource(r, step, s) ==
    \/ step = "factAgain" /\ s.fact \notin Current
    \/ step = "acceptedClaim" /\ ClaimsThatAre("accepted") # {}
    \/ r.kind = "capture" /\ step = "source" /\ s.source.note \notin {None, r.data}
    \/ /\ r.kind \in {"propose", "rework", "accept"} /\ step = "source"
       /\ s.source.rev = 0
    \/ r.kind = "revoke" /\ step = "fact" /\ s.fact # r.fact
    \/ r.kind = "propose" /\ step = "factAgain" /\ Stated(s.fact) = r.data
    \/ /\ r.kind = "propose" /\ step \in {"open", "openAgain"}
       /\ s.open = 0 /\ s.latest # r.latest
    \/ r.kind = "propose" /\ step = "openAgain" /\ s.open # 0 /\ ~Same(r, s.open)
    \/ /\ r.kind = "accept" /\ step = "factAgain"
       /\ facts[s.fact].claim # r.open
    \/ r.kind = "accept" /\ step \in {"open", "openAgain"} /\ s.open # r.open

(* What was just read refuses the request: 404 or 409.                     *)
Misfit(r, step, s) ==
    \/ step = "factAgain" /\ s.fact \notin Current
    \/ step = "acceptedClaim" /\ ClaimsThatAre("accepted") # {}
    \/ r.kind = "capture" /\ step = "source" /\ s.source.note \notin {None, r.data}
    \/ /\ r.kind \in {"propose", "rework", "accept"} /\ step = "source"
       /\ s.source.rev = 0
    \/ /\ r.kind \in {"propose", "rework"} /\ step = "source"
       /\ s.source.rev # r.rev
    \/ r.kind = "revoke" /\ step = "fact" /\ s.fact # r.fact
    \/ r.kind = "propose" /\ step = "factAgain" /\ Stated(s.fact) = r.data
    \/ /\ r.kind = "propose" /\ step \in {"open", "openAgain"}
       /\ s.open = 0 /\ s.latest # r.latest
    \/ r.kind = "propose" /\ step = "openAgain" /\ s.open # 0 /\ ~Same(r, s.open)
    \/ /\ r.kind = "accept" /\ step = "factAgain"
       /\ facts[s.fact].claim # r.open
    \/ r.kind = "accept" /\ step \in {"open", "openAgain"} /\ s.open # r.open

(* What was just read shows that the request is fulfilled already.         *)
Fulfilled(r, step, s) ==
    \/ /\ r.kind = "accept" /\ step = "factAgain"
       /\ facts[s.fact].claim = r.open
    \/ r.kind = "propose" /\ step = "openAgain" /\ s.open # 0 /\ Same(r, s.open)

(* The command of a request that saw s. *)
Command(r, s) ==
    CASE r.kind = "capture" -> [kind |-> "capture", note |-> r.data]
      [] r.kind = "propose" ->
           [kind |-> "propose", gen |-> s.latest, rev |-> s.source.rev, text |-> r.data]
      [] r.kind = "rework" ->
           [kind |-> "rework", claim |-> r.open, rev |-> s.source.rev, text |-> r.data]
      [] r.kind = "withdraw" ->
           [kind |-> "withdraw", claim |-> r.open, as |-> r.data]
      [] r.kind = "accept" -> [kind |-> "accept", claim |-> r.open]
      [] r.kind = "supersede" ->
           [kind |-> "supersede", fact |-> r.fact, claim |-> r.open]
      [] r.kind = "revoke" -> [kind |-> "revoke", fact |-> r.fact]

CommandOf(c) == Command(calls[c].req, calls[c].seen)

----------------------------------------------------------------------------
(* The steps of a request.                                                 *)

Asked(r, quiet) ==
    [req |-> r, at |-> Following(r.kind, 0, Unread), seen |-> Unread,
     awaited |-> TRUE, quiet |-> quiet, interrupted |-> 0]

Done == [kind |-> "done"]

(* A request whose command is past has only its page to read, and nobody   *)
(* to read it for when its connection is closed.                           *)
Answering(call) ==
    IF call.awaited THEN [Asked(Done, call.quiet) EXCEPT !.interrupted = call.interrupted]
    ELSE None

(* Of what a request read its command takes the generation and the source. *)
GoOn(call, s) ==
    LET at == Following(call.req.kind, call.at, s) IN
    [call EXCEPT !.at = at,
       !.seen = IF Program[call.req.kind][at] # "command" THEN s
                ELSE [Unread EXCEPT !.latest = s.latest, !.source = s.source]]

ReadStep(c) ==
    LET call == calls[c]
        s == Read(Step(c), call.seen) IN
    /\ call # None /\ Step(c) \notin {"command", "answer"}
    /\ ~Misfit(call.req, Step(c), s)
    /\ calls' = [calls EXCEPT ![c] =
                   IF Fulfilled(call.req, Step(c), s) THEN Answering(call)
                   ELSE GoOn(call, s)]
    /\ UNCHANGED ledger

(* Somebody commits something while others are asking. *)
Interrupted ==
    [c \in Calls |-> IF calls[c] = None THEN None
                     ELSE [calls[c] EXCEPT !.quiet = FALSE, !.interrupted = @ + 1]]

Execute(c) ==
    /\ calls[c] # None /\ Step(c) = "command"
    /\ \/ /\ Replayed(User, CommandOf(c))
          /\ calls' = [calls EXCEPT ![c] = Answering(@)]
          /\ UNCHANGED ledger
       \/ /\ Commit(User, CommandOf(c))
          /\ calls' = [Interrupted EXCEPT ![c] = Answering(calls[c])]

(* The request is refused by what it read or by the bus.                   *)
Refused(c) ==
    LET call == calls[c] IN
    /\ call # None
    /\ \/ /\ Step(c) \notin {"command", "answer"}
          /\ Misfit(call.req, Step(c), Read(Step(c), call.seen))
       \/ /\ Step(c) = "command"
          /\ ~Replayed(User, CommandOf(c)) /\ ~Admissible(User, CommandOf(c))
       \/ Step(c) = "answer" /\ call.req.kind = "draft" /\ call.seen.fact = 0

Others ==
    /\ \A c \in Calls : calls[c] # None => calls[c].interrupted < cast.interruptions
    /\ \/ \E u \in cast.people, b \in Sendable : Commit(u, b)
       \/ \E n \in Notes : Correct(n)
       \/ Tombstone
    /\ calls' = Interrupted
=============================================================================
