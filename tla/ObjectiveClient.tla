--------------------------- MODULE ObjectiveClient ----------------------------
(***************************************************************************)
(* The page of an initiative in a browser: what it shows, what it lets the *)
(* person do, one request at a time, through the Next.js routes that       *)
(* forward to the API and give up after five seconds.  A request given up  *)
(* goes on in the API, and so do other browsers and other people.          *)
(*                                                                         *)
(* Everything but an answer in time is the same failure to the page, which *)
(* then loads itself again.  Forms, dialogs and reasons are left out: what *)
(* the buttons of a page may send is sent at any time the page is shown.   *)
(***************************************************************************)
EXTENDS TrustedObjective

VARIABLES page \* what the browser shows: a page, or None when it has none

vars == <<cast, ledger, calls, page>>

Init ==
    /\ cast \in Casts
    /\ claims = [x \in ClaimIds |-> NoClaim]
    /\ facts = [f \in FactIds |-> NoFact]
    /\ source = NoSource
    /\ commands = {}
    /\ calls = [c \in Calls |-> None]
    /\ page = None

----------------------------------------------------------------------------
(* What the page offers.                                                   *)

Label(v) ==
    CASE v.fact # 0 -> "accepted"
      [] v.fact = 0 /\ v.open # 0 -> "proposed"
      [] v.fact = 0 /\ v.open = 0 /\ v.history # 0 /\ facts[v.history].status = "revoked" ->
           "revoked"
      [] OTHER -> IF v.source.rev # 0 THEN "captured" ELSE "empty"

(* Who may decide about an open proposal. *)
CanRework(x) == claims[x].by = User
CanReject == User = Owner
CanWithdraw(x) == User = Owner \/ claims[x].by = User

Dispositions(v) ==
    IF v.open = 0 THEN {}
    ELSE IF v.fact # 0 THEN IF CanReject THEN {"rejected"}
                            ELSE IF CanWithdraw(v.open) THEN {"withdrawn"} ELSE {}
    ELSE {a \in {"withdrawn", "rejected"} :
            IF a = "rejected" THEN CanReject ELSE CanWithdraw(v.open)}

(* bodyForAction: what the body of each kind of request names.  The fact a *)
(* proposal would replace is not sent; it is kept for the properties below.*)
Names == [
    fact   |-> {"propose", "supersede", "revoke"},
    open   |-> {"rework", "withdraw", "accept", "supersede"},
    latest |-> {"propose"},
    rev    |-> {"propose", "rework"}]

(* demoActionEnvelope. *)
Request(kind, data, v) ==
    [kind |-> kind, data |-> data,
     fact |-> IF kind \in Names.fact THEN v.fact ELSE 0,
     open |-> IF kind \in Names.open THEN v.open ELSE 0,
     latest |-> IF kind \in Names.latest THEN v.latest ELSE <<0, "none">>,
     rev |-> IF kind \in Names.rev THEN v.source.rev ELSE 0]

Offers(v) ==
    LET When(condition, requests) == IF condition THEN requests ELSE {} IN
    When(Label(v) = "empty", {Request("capture", n, v) : n \in Notes})
    \cup When(v.source.rev # 0 /\ v.open = 0 /\ NewClaim \in ClaimIds,
            {Request("propose", t, v) : t \in Texts})
    \cup When(v.open # 0 /\ v.fact = 0 /\ CanRework(v.open) /\ NewClaim \in ClaimIds,
            {Request("rework", t, v) : t \in Texts})
    \cup {Request("withdraw", a, v) : a \in Dispositions(v)}
    \cup When(v.open # 0 /\ v.fact = 0 /\ User = Owner, {Request("accept", None, v)})
    \cup When(v.open # 0 /\ v.fact # 0 /\ v.decides, {Request("supersede", None, v)})
    \cup When(v.open = 0 /\ v.fact # 0 /\ v.decides, {Request("revoke", None, v)})
    \cup When(v.open = 0 /\ v.fact # 0, {[kind |-> "draft"]})

Load == [kind |-> "load"]
Reload == Asked(Load, TRUE)

----------------------------------------------------------------------------
(* Steps of the browser.                                                   *)

Busy == \E c \in Calls : calls[c] # None /\ calls[c].awaited

(* A bound: how many requests are in progress at once. *)
Free(c) == calls[c] = None /\ Cardinality({d \in Calls : calls[d] # None}) < cast.requests

(* A request is undisturbed from the start when its page is up to date. *)
Send(c, r) ==
    /\ Free(c)
    /\ calls' = [calls EXCEPT ![c] = Asked(r, r.kind = "load" \/ page = PageNow)]
    /\ UNCHANGED <<ledger, page>>

(* Mutant: a second click is a second request.                             *)
StartAgain(c) == page # None /\ \E r \in Offers(page) \cup {Load} : Send(c, r)

(* runSingleFlight: while a request is awaited there is no other.  A page  *)
(* that is shown can be loaded again.                                      *)
Start(c) == ~Busy /\ page # None /\ \E r \in Offers(page) \cup {Load} : Send(c, r)

(* The page is opened. *)
OpenPage(c) == ~Busy /\ page = None /\ Send(c, Load)

(* An action that failed loads the page again; when that fails too the     *)
(* initiative is unavailable.                                              *)
Failed(c) ==
    IF calls[c].req.kind = "load"
    THEN calls' = [calls EXCEPT ![c] = None] /\ page' = None
    ELSE calls' = [calls EXCEPT ![c] = Reload] /\ UNCHANGED page

Answer(c) ==
    LET call == calls[c] IN
    /\ call # None /\ Step(c) = "answer" /\ ~Refused(c)
    /\ page' = IF call.req.kind = "draft" THEN page ELSE call.seen
    /\ calls' = [calls EXCEPT ![c] = None]
    /\ UNCHANGED ledger

Refuse(c) ==
    /\ Refused(c)
    /\ IF calls[c].awaited THEN Failed(c)
       ELSE calls' = [calls EXCEPT ![c] = None] /\ UNCHANGED page
    /\ UNCHANGED ledger

(* The route gives up on a request, or its answer is lost.  The API goes   *)
(* on: a command it was about to give is given later, a request that had   *)
(* more to read may still give one as others do (Others).                  *)
Timeout(c) ==
    /\ calls[c] # None /\ calls[c].awaited
    /\ IF Step(c) = "command"
       THEN /\ \E d \in Calls :
                  /\ Free(d)
                  /\ calls' = [calls EXCEPT ![d] = Reload, ![c].awaited = FALSE,
                                            ![c].quiet = FALSE,
                                            ![c].interrupted = 0]
            /\ UNCHANGED page
       ELSE Failed(c)
    /\ UNCHANGED ledger

Next ==
    /\ \/ \E c \in Calls :
             \/ Start(c) \/ OpenPage(c) \/ Answer(c) \/ Refuse(c) \/ Timeout(c)
             \/ (ReadStep(c) \/ Execute(c)) /\ UNCHANGED page
       \/ Others /\ UNCHANGED page
    /\ UNCHANGED cast

Spec == Init /\ [][Next]_vars

----------------------------------------------------------------------------
Pages == [latest : (ClaimIds \cup {0}) \X {"none", "proposed", "accepted", "rejected", "superseded"},
          source : [rev : 0 .. cast.revisions, note : Notes \cup {None}],
          fact : FactIds \cup {0}, open : ClaimIds \cup {0},
          history : FactIds \cup {0}, decides : BOOLEAN]

(* Every table, page and request keeps its type. *)
TypeOK ==
    /\ claims \in [ClaimIds -> {NoClaim} \cup
                     [status : {"proposed", "accepted", "rejected", "superseded"},
                      text : Texts, by : People]]
    /\ facts \in [FactIds -> {NoFact} \cup
                    [status : {"current", "superseded", "revoked"},
                     claim : ClaimIds, prior : FactIds \cup {0}]]
    /\ source \in [rev : 0 .. cast.revisions, note : Notes \cup {None}]
    /\ \A d \in commands : d.by \in People
    /\ page = None \/ page \in Pages
    /\ \A c \in Calls : calls[c] # None =>
          /\ calls[c].at \in DOMAIN Program[calls[c].req.kind]
          /\ calls[c].seen \in Pages

(* A page never shows one claim twice, as the accepted memory and as the   *)
(* replacement proposed for it, although it is read in many statements     *)
(* between which the claim may be accepted (getState).                     *)
NoClaimShownTwice ==
    page # None /\ page.fact # 0 /\ page.open # 0 => facts[page.fact].claim # page.open

(* Somebody's request commits its command: c does.                         *)
Commits(c) == calls[c] # None /\ Execute(c) /\ commands' # commands

(* A person's decision commits only on the accepted memory and the         *)
(* proposal that the page it was taken on showed, all of them and no       *)
(* others, however late it arrives and whatever others did meanwhile       *)
(* (accept, supersede, revoke, withdraw).                                  *)
DecisionsMatchThePage ==
    [][\A c \in Calls :
          Commits(c) /\ calls[c].req.kind \in OwnerDecides =>
             /\ Last(Current) = calls[c].req.fact
             /\ Last(Open) = calls[c].req.open]_vars

(* A proposal commits only on what its author saw.  One that is sent from a*)
(* page replaces the objective that page showed (proposalGenerationAnchor, *)
(* read first), and it quotes the revision of the note on which the person *)
(* confirmed that it is supported (sourceRevisionAnchor).                  *)
ProposalsMatchThePage ==
    [][\A c \in Calls :
          Commits(c) /\ calls[c].req.kind \in {"propose", "rework"} =>
             /\ source.rev = calls[c].req.rev
             /\ calls[c].req.kind = "propose" => Current \subseteq {calls[c].req.fact}]_vars

(* Requests that are refused although nothing else happens: an objective   *)
(* that is current already, and a note under the key of another that was   *)
(* removed since.                                                          *)
Excused(r) ==
    \/ r.kind = "propose" /\ r.fact # 0 /\ Stated(r.fact) = r.data
    \/ r.kind = "capture" /\ commands # {}

(* A request from a page that is up to date, with which nobody interferes, *)
(* succeeds and its answer is the ledger as it then is: the checks before  *)
(* the command, the command and the statements of the page agree with each *)
(* other.                                                                  *)
QuietAnswersAreTrue ==
    [][\A c \in Calls : calls[c] # None /\ calls[c].awaited /\ calls[c].quiet =>
          /\ Refuse(c) => Excused(calls[c].req)
          /\ Answer(c) /\ calls[c].req.kind # "draft" => page' = PageNow']_vars

(* What a page shows never goes back: no late answer undoes a newer one    *)
(* (runSingleFlight, and requests given up are not answered).              *)
ViewNeverGoesBack ==
    [][page # None /\ page' # None =>
          /\ page'.latest[1] >= page.latest[1]
          /\ page'.fact # 0 => page'.fact >= page.fact
          /\ page'.history # 0 => page'.history >= page.history]_vars

=============================================================================
