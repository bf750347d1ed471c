# Throughline in TLA+

Throughline is a TypeScript monorepo over PostgreSQL: an API that records the
work of account teams (organizations, initiatives, activities, sources) and a
ledger of claims and accepted facts about it, a web client that shows and decides
the primary objective of an initiative, and two outboxes that carry
notifications and jobs through SQS to relays and a worker. Nearly all of its
correctness lives in what concurrent database transactions, retries and lost
answers may do to each other. This directory models that part in TLA+, checks it
with TLC on small instances and proves the central properties with TLAPS.

File names below are relative to the repository root.

## Contents

| Module | What it is |
| --- | --- |
| `ProductOutbox` | canonical product outbox, its relays and its queue |
| `NotificationDelivery` | abstract: what the product outbox promises of a notification |
| `FoundationWorker` | API proof creation, queue and worker of the foundation chain |
| `ProofPromise` | abstract: what the foundation chain promises of a proof key |
| `FoundationRelay` | foundation outbox and its relays |
| `FoundationChain` | `FoundationRelay` and `FoundationWorker` joined at the queue |
| `TruthLedger` | the truth commands as concurrent transactions |
| `TruthSlots` | abstract: what the truth ledger promises of a coordinate |
| `SourceText` | normalisation, chunks and spans of a text, as functions |
| `SourceLifecycle` | content revisions, sources, corrections, tombstones and claim evidence as concurrent transactions |
| `AssistedObjective` | the line of a note the browser suggests, and whether the server can quote it |
| `SpaceAccess` | decisions about Spaces, statement by statement, while access changes |
| `AccountCommands` | the account commands as transactions over `SpaceAccess` |
| `TrustedObjective` | requests of the objective service, statement by statement |
| `ObjectiveClient` | `TrustedObjective` and the page of a browser |
| `LockOrder` | which rows every kind of transaction locks, in which order |
| `ProductOutboxProofs`, `FoundationWorkerProofs`, `FoundationChainProofs`, `TruthLedgerProofs`, `SourceLifecycleProofs`, `AccountCommandsProofs`, `ObjectiveClientProofs`, `LockOrderProofs` | the theorems |
| `MC*` with `MC*.cfg` | the instances TLC checks |

To run: `tlc -config MCProductOutbox.cfg MCProductOutbox` and likewise for the
others; `tlapm ProductOutboxProofs.tla` and likewise. `PROJECT.json` maps each
definition to the lines it stands for.

## The system

### Product outbox

State: `ops.product_outbox_events` (migration 0003), one row per domain event,
in state pending, claimed, retry_wait, published, terminal_failed or
terminal_unconfirmed, with an attempt counter of at most six, a claim (owner,
token, expiry) and the time of the next attempt; the authority rows (tenant,
workspace, policy version, relay principal, Space, grant); an SQS Standard queue
with no consumer in this repository.

Operations: a command inserts the row in its own transaction
(`product-domain-repositories.ts`); `ProductOutboxRelay.publishNext`
(`apps/outbox-relay/src/product-relay.ts`) claims a row, and in one transaction
(`product-outbox-repository.ts`) locks the row, locks and checks the authority
rows, sends, marks and commits; afterwards it looks up an outcome in doubt and
records a failure as a retry or a terminal state.

Hard: sends whose fate is unknown at the deadline; a COMMIT whose answer is lost
while the server may still decide it; leases that run out while their relay
works on; revocation racing a send; the last attempt.

Correct when: published means that the broker has the message; failed means
that it has not and will not get the last one; one relay holds a claim; nothing
is sent without authority; every row is settled in the end.

### Foundation chain

State: an aggregate per proof key (version, pending job, last job, effect
count), idempotency records, context references, `ops.outbox_events`
(migration 0002), an SQS queue with redrive to a dead-letter queue.

Operations: the API creates a proof, which replaces a pending one
(`foundation-proof.service.ts`, `foundation-proof-repository.ts`); the relay
claims, sends and settles (`relay.ts`, `relay-transaction.ts`); the worker
receives, rehydrates the context, authorizes, discovers duplicates, locks,
applies, commits and deletes (`foundation-consumer.ts`, `worker-context.ts`,
`worker-transaction.ts`).

Hard: a message delivered again, to the same worker or another; a newer proof
overtaking the older one's messages; the deadline hitting a lock wait, the
COMMIT or the delete; a reference revoked or expired on the way.

Correct when: each job takes effect at most once and only as the newest proof;
a message disappears only after its effect; every message ends.

### Truth ledger

State: claims, accepted facts, proposal recoveries and fact lifecycle events
(migrations 0007, 0011, 0012), durable command records and the product outbox
rows (0003), advisory locks for coordinates and for reservation identities.

Operations: six commands, each one transaction of `PostgresTruthCommandBus`
(`packages/truth-ledger/src/domain-command-bus.ts`, `repository.ts`): propose,
withdraw or reject, rework, accept, supersede, revoke.

Hard: retries of a request whose first run is open, rolled back or committed;
requests written against an older state; checks made before a lock is waited
for and relied on after it; authority revoked in the middle; five kinds of row
that have to change together.

Correct when: a coordinate has at most one current fact and an objective at
most one open proposal; lineage and support say exactly what happened; a
request takes effect once; the author of a proposal saw what it replaces;
nobody writes without authority.

### Account operations and work graph

State: Spaces in a tree, organizations, initiatives, activities, relationships
(migration 0004), command records, audit and outbox rows, and the Space the
session is set to, on which row level security depends.

Operations: ten commands of `packages/account-operations/src/domain-command-bus.ts`,
each one transaction of `withTenantTransaction` (`packages/db/src/transaction.ts`):
create an organization or an initiative with its child Space, an activity or a
relationship, end a relationship, create and revise content, capture, correct and
tombstone a source.

Hard: the switch of the session to a child Space and back; authority that is
discovered without locks and then locked; decisions made without locking the
grant; two requests for one key, where the second waits for the first; a
version check that a retry must not trip over.

Correct when: a decision that is said to be locked still holds at commit; a
child Space is there with its relay grant, its row, its audit event and its
notification, or not at all; a request is refused only for a reason; a completed
command is answered again.

### Authorization

`packages/authorization/src/authorization-service.ts` decides inside the
caller's transaction, over policy version, membership, Spaces with their
ancestors and grants, in statements that each see another instant. Its modes
are: without locks, with locks on what it finds, and, for relationship.end,
discover everything, lock it in the order of ids, compare and evaluate again. It
keeps no state. Hard: a Space that moves, is restricted or archived between two
statements; a grant that is revoked after it was found; an inherited grant
whose path changes. Correct when: what was allowed under locks is allowed at
commit.

### Content and sources

State: content items and their revisions, source artifacts with chunks, one
chain of corrections per source, tombstones, and evidence spans of claims
(migrations 0005 and 0009). Operations: capture from an activity or from a
revision, correct, tombstone, quote as evidence
(`packages/content/src/repository.ts`, `source-text.ts`,
`packages/truth-ledger/src/source-span.ts`), and the triggers, which check the
same things again in SQL and refuse what the code let pass. Hard: a source
corrected or erased while a claim quotes it; two corrections of one source; two
revisions on one base; offsets counted in UTF-16 units here, in code points
there; a check in the code that a trigger does not share. Correct when: quoted
sources stay; chains do not fork; no revision is lost; nothing the code admits
is refused by a trigger.

### Trusted objective service and web client

State: none in the service (`apps/api/src/trusted-objective`), which reads the
page of an initiative in a dozen statements and gives the command bus at most one
command per request; in the browser
(`trusted-objective-experience.tsx`, `apps/web/lib`) the page last shown, and the
one request in progress. Next.js routes forward a request and give it up after
five seconds.

Hard: a page read while others commit; a decision taken on a page that is out of
date; a request that was given up and commits later; the anchors of generation
and source a request carries; a retry. Correct when: a decision affects exactly
what the page showed; a page does not contradict itself; it does not go back; a
request with which nobody interferes succeeds.

### How they interact

The browser calls the service over HTTP; the service calls the account bus and
the truth bus; commands write outbox rows in their own transaction; relays poll
those rows; relay and worker share only the queue; all of them lock the same
authority rows. API, relays and worker are separate processes which share nothing
but the database and the queue. `ObjectiveClient` composes browser, service and
ledger, `SourceLifecycle` the two buses over sources and evidence,
`AccountCommands` commands, authorization and administrators, `FoundationChain`
relay and worker over the queue, `LockOrder` everything over the rows all of them
lock; the rows a truth command announces (`outbox` in `TruthLedger`) are the
`Insert` of `ProductOutbox`.

### Not modelled, and why

- Forms, dialogs, focus and wording of the web client, and the sentence
  heuristics that pick a line for the assisted objective. Which line it is does
  not matter to what is checked.
- API routing, header guards, request syntax: they refuse or pass on.
- Migrations, seeds, catalogue readback (some seven thousand lines of literals
  compared with the installed schema), schemas of messages, profiles,
  observability, placeholders: immutable data, one-shot administration, or empty.
- Signing and parsing of asynchronous context references; confidence decimals,
  predicate registry and value validation: checks of one value against a
  literal, which a unit test reaches.
- Reads of people and of data-class purposes, lists and projections: they change
  nothing and no command rests on them.
- SQL itself: a statement is one atomic step, except where it waits for a lock.
  Row level security, grants and CHECK constraints are taken to hold where a type
  invariant shows that the code never relies on them to stop it.

## How the modules correspond to the code

**ProductOutbox.** A row is a record; its expiry and due times are two booleans
that the clock actions `LeaseExpires` and `RetryDue` change at any time, which
covers every timing. A claim's owner, token and expiry are one token. Actions
follow `publishNext` in order: `ClaimNext` (with the sweep of exhausted rows the
same statement does), `LockRow` or `RejectClaim`, `Send` (authorization and
locks, then the request) or `Deny`, `Acknowledged`, `Rejected` or
`SendUnanswered`, `Mark`, `Commit` or `CommitLost`, then `FoundPublished` or
`Unresolved`, then `RecordFailure`. `Server` owns the locks of a transaction
whose COMMIT is in doubt until `DecideInDoubt`. `SessionLost` and `Crash` strike
anywhere. The lease is checked under the row lock and not again after waiting
for the authority rows, as in the code. A row in the order of its due time is
any claimable row here. Retries inside the SQS client, clock skew and the
contents of the envelope are left out. "Failed" speaks of the last send only: an
earlier one whose answer was lost may be on the queue.

**FoundationRelay.** The same shape with its differences: retries without limit
(`MaxAttempts` is a bound of the model), a terminal answer fails the row at any
attempt, an aborted send is waited for, a failure is recorded only under a live
lease, a published row keeps its claim. Authorization is not modelled here.

**FoundationWorker.** `CreateProof` is the API's transaction, `Receive` to
`Delete` or `Undeleted` one receipt, `Enqueue`, `Redrive` the queue, `Expire` and
`Revoke` the context reference. The rows an authorization locks are one lock.
The worker is given its authorization from outside, so `AuthorityLocks` is a
constant: TRUE is the repository's service, FALSE one that does not lock, with
which everything but `NoEffectAfterRevocation` still has to hold. A message is
redriven after `MaxReceives` receipts, a setting of the queue. That an older
job superseded by a newer proof ends in the dead-letter queue is the
documented design.

**TruthLedger.** A request is a body with a key; several processes may run the
same request. `Begin`, `Admit` (subject locked and authorized), `Reserve` or
`Replay`, `LockSlot` or `SkipSlot`, `Verify` (locks claims and authority, checks
again), `Commit*` (all writes of the command), `Refuse` and `Fail` (rollback at
any point). Reads before the lock and checks after it are separate steps.
Versions are not kept, since the tables tie version 1 to proposed and current
and version 2 to every other status. The unique indexes and validation triggers
are left out of the guards on purpose, so that the invariants show that they are
never needed. The advisory lock of a reservation identity and the row lock of a
command record are both `keyHolder`. An audit row is written with every outbox
row and is not kept apart. Withdrawn and rejected are one status. A mixed or
unconfirmed acceptance, and everything source evidence may object to, is a
`Fail`. Subjects keep their version and owner. A supersession announces its
predecessor and names the replacement.

**SourceText.** A text is a sequence of units: letter, space, newline, return,
byte order mark, and the two halves of a surrogate pair. That is enough to tell
code points from UTF-16 units and every class of boundary the chunker looks
for. `MaxScalars` is the chunk size, 2 for 4,000. `Captured` is what
`normalizeSourceText` stores: the decoder drops a mark, normalisation another one.

**SourceLifecycle.** A command is `Begin`, its steps with their locks (`keyHolder`
for the reservation, `rowLocks`, `advisory` for the lock the triggers take) and
`Commit*`; `Refuse` and `Fail` roll back anywhere. The triggers are operators
(`CorrectionAccepted`, `Unquoted`, `EvidenceAccepted`) that are no guards where
the code claims never to rely on them, so that the invariants show it, and are
guards where they are the mechanism, as the interlock is. Which commands run with
which texts is chosen at the start (`cast`).

**AssistedObjective.** `Suggests` is what the browser offers from a note, with its
own copy of the chunk boundaries; `Derivable` and `ShownAt` are what the server
accepts and shows again. Both are constant operators over the texts of
`SourceLifecycle`.

**SpaceAccess and AccountCommands.** A command is a sequence of steps (`Script`),
each a statement or a decision; a decision is in turn a sequence of statements
(`CheckActor`, `LoadScope`, `LoadTarget`, `Look`, `Confirm...`), each of which
reads the state of its own instant and locks what the code locks. Administrators
change Spaces, grants, the membership and the policy version whenever no lock
forbids it. `scope` is the Space of the session. Home and Other stand for the Space of an
organization and of one of its initiatives. Locks on workspace and relay
principal are left to `LockOrder`.

**TrustedObjective and ObjectiveClient.** A request is its list of statements
(`Page`, `Before`), of which one is executed per step on the ledger of that
instant (`Read`, `Misfit`, `Fulfilled`), then its command as one atomic step
(`Commit`, with the checks of the bus in `Legal`; that the bus makes it atomic is
the subject of `TruthLedger`), then a page. `Others` are requests of other
people and browsers and changes of the note. The browser keeps a page and sends
what its buttons would send (`Offers`); a request may time out anywhere, and goes
on when it was about to give its command. Rights of the actor, the initiative and
its organization stay. The decision which of the two halves of a lineage is shown
to whom is left out. The locks of a page's authority are left out, so that the
model has more interleavings than the code.

**LockOrder.** A transaction is the list of locks it takes (`OrganizationCreate`
and the like), taken one by one, all released at `End`. Modes are FOR KEY SHARE,
FOR SHARE and FOR UPDATE, of which only the last conflicts here, as no script
takes FOR NO KEY UPDATE on a row it did not lock FOR UPDATE. A compatible request
passes a waiting one, as in PostgreSQL, so only holders block. Deadlock
detection and lock timeouts are left out: the question is whether they are
ever needed. One human actor and one resource of each type per Space maximise
contention. Truth commands appear with the wider of their variants
(supersede stands for revoke, which locks less).

## What the runs show

Deadlock is checked where sessions go on for ever or the model says when all is
done (`product_outbox`, `lock_order`, `account_commands`, `objective_client`); the
others stop when their finite set of jobs, keys or attempts is used up.

| Run | Instance | Shows |
| --- | --- | --- |
| `product_outbox` | 2 relays, 1 event, 3 tokens, 3 attempts (8,362 states) | safety, trigger conformance, implementation of `NotificationDelivery`, `EventuallySettled` |
| `foundation_worker` | 2 workers, 2 jobs, 3 receipts, authorization without locks (201,385) | effects once and in order, duplicates confirmed; implementation of `ProofPromise`; messages end |
| `foundation_redelivery` | 1 worker, 2 jobs | a finding, below |
| `foundation_chain` | 2 relays, 1 worker, 1 job, 3 tokens, 2 attempts (150,314) | settlements are exclusive, true and final; published is on the queue; no effect after a revocation |
| `truth_ledger` | 2 processes, 5 keys, 1 objective (274,488) | lineage and support, effects once, generations; implementation of `TruthSlots` (one open proposal, one current fact) |
| `truth_ledger_outcomes` | 2 processes, 3 keys, 1 outcome (9,409) | one current fact, authority, `CommandsEnd` |
| `source_lifecycle` | 2 processes, mixes of up to 4 commands; some hundreds of texts alone (152,627) | evidence and chains stand, triggers never refuse what the code admits, effects are as asked, retries answered, suggestions can be quoted, commands end |
| `source_mark` | 1 process | a finding, below |
| `account_commands` | each command alone under 1 or 2 changes of access; races for a relationship and for a key (90,684) | locked decisions hold at commit, refusals have a reason and retries none, child Spaces are complete, transactions end |
| `objective_client` | a browser, 2 requests at once, 2 people or 2 revisions of the note (1.3 million) | what a page shows, what a decision on it commits, when a request may fail |
| `lock_order` | any 2 commands; 3 of the widest; 3 publish, provisioning, foundation (407,663) | no circle of waiting transactions |
| `lock_order_mixed` | 1 command, 1 publish | a finding, below |

Some properties are proved for every instance and not checked by a run as well: `PublishedWasAccepted`, `FailedWasRefused` and
`NoAttemptSentTwice` of `ProductOutbox`, `EffectFollowsItsProof` and
`DeletedOnlyWhenApplied` of `FoundationWorker`, `OneOpenProposal` of `TruthLedger`.
Several named parts are checked as one property: `SettlementsAreTrue` of the
foundation relay, `HistoryIsExact` of the ledger, `TriggersNeverRefuse` and
`EffectsAreAsAsked` of the sources. Type invariants are stated in every stateful
module; the runs check those of `ProductOutbox` and `TruthLedger`, and those two
and the ones of `FoundationWorker`, `FoundationRelay` and `LockOrder` are proved. The
invariants of `SourceLifecycle` and `ObjectiveClient` that are proved contain as
much of the types as their arguments need.

### Bounds, and why they are enough

- Two relays or workers: every race in the code is between the holder of a row
  or lease and one other party; a third would only repeat the second. Three
  tokens are a claim, its take-over and one more, after which tokens repeat.
- Three attempts of six: first, middle and last behave differently, the others
  like the middle one. Two in the chain, where retries have no limit.
- One event in the product runs, as rows meet only in the sweep and in the
  authority lock; the theorems cover any number of rows.
- Two jobs of a proof key: older and newer. Three receipts: first, again, last.
- Five keys on an objective: propose, accept, propose again, supersede, revoke,
  the shortest history through every command that reuses a slot; withdraw and
  rework take the place of others in it.
- Chunks of two code points and texts of up to six units: up to four chunks, and
  a surrogate pair, a newline or a space before, at and after every boundary.
- Sources: a capture and two further commands make every chain the code
  distinguishes (corrected, corrected twice, erased, quoted). Two classes, as
  classes are only compared.
- Three Spaces in a line and two to create; two grants, one inherited and one
  direct. A command alone meets at most two changes (`budget`): one behind its
  decision, one more to undo or hide the first. Races run without changes. Each
  process runs twice, which is a request and its retry.
- `objective_client`: two claims and two facts are a fact, its replacement and
  the page between; two texts; two requests at once, one awaited and one given up.
  Each cast bounds what others commit during one request (`interruptions`): two
  when the owner is alone with late requests and corrections, one when a
  contributor takes part.
- In `lock_order`, two Spaces, a parent and a child, and two keys: same or different; three
  sessions for circles of three, on the scripts with the widest lock sets.
- A creation waits for an identifier that no Space has and no open transaction uses
  (`Unused`); identifiers are a bound of the model, the code generates its own.
- Symmetry: relays, tokens, processes, keys, texts, requests and sessions are
  interchangeable; runs with a liveness property use none.

### Fairness

- Product outbox: every relay's step (the host repeats `publishNext`; no loop is
  in the repository, so this is an assumption on the host), the server's decision
  on a COMMIT in doubt, and the clock. No fairness on the broker: a send may never
  be answered.
- Worker: the steps of a worker (`runConsumerLoop` is an endless loop and each
  receipt has a deadline), redrive by the queue, the server's decision. None on
  the API, expiry or revocation.
- Truth ledger: strong fairness where a request waits for a lock, since
  PostgreSQL queues waiters, and weak fairness for its other steps. None on `Fail`,
  on clients or on revocation.
- Source lifecycle: strong fairness on the steps of a process, as each waits only
  for locks that PostgreSQL hands on. None on new requests.
- Account commands: weak fairness on the steps of a transaction and on its
  rollback once it is refused; locks are queued and the administrators' changes
  are bounded. None on requests, changes or lost connections.
- The objective client has no liveness property: nothing in the code repeats a
  request or obliges a person.

## What is proved

TLAPS proves, for every number of relays, workers, events, jobs, tokens, keys,
processes, sources, Spaces, people and requests, and every limit:

| Module | Theorems |
| --- | --- |
| `ProductOutboxProofs` | `TypeCorrect`, `PublishedIsAccepted`, `FailedIsRefused`, `ExclusiveClaims`, `AuthorizedSends`, `AttemptsSentOnce`, `ImplementsDelivery`, `EveryUpdateIsAdmitted` |
| `FoundationWorkerProofs` | `TypeCorrect`, `EffectsOnce`, `EffectsFollowProofs`, `DuplicatesConfirmed`, `DeletionsAreSafe`, `RevocationsAreFinal`, `ImplementsPromise` |
| `FoundationChainProofs` | `RelayInvariance`, `RelaySettlesTruly`, `SettledRowsStay` of a relay alone; `ChainRelays`, `ChainWorks`, `ChainSettlesTruly`, `ChainSettledStays`, `PublishedReachesTheQueue`, `ChainEffectsOnce`, `ChainRevocationsAreFinal`, `ChainKeepsThePromise` of the chain |
| `TruthLedgerProofs` | `TypeCorrect`, `Invariance`, `CurrentFactsAreUnique`, `OpenProposalsAreUnique`, `ImplementsSlots`, `GenerationsAreSeen`, `CommitsAreAuthorized`, `CommandsTakeEffectOnce`, `HistoryStaysExact` |
| `SourceLifecycleProofs` | `Invariance`, `QuotedSourcesStand`, `CorrectionsFormChains`, `RetriesFindTheirAnswer`, `CorrectionsArePassed`, `CommandsPassTheirTriggers`, `CommandsHaveOneEffect`, `EffectsStay` |
| `AccountCommandsProofs` | `AccountCommandsInvariance`, `GoverningSpaceStands`, `ChildSpacesStandComplete`, `AuthorityInvariance`, `CommitsStandAuthorized`, `DueInvariance`, `EveryRefusalIsDue`, `TypeCorrect` |
| `ObjectiveClientProofs` | `Invariance`, `NoClaimIsShownTwice`, `DecisionsAreAboutThePage`, `ProposalsAreAboutThePage`, `ViewInvariance`, `TheViewOnlyAdvances`, `QuietInvariance`, `QuietRequestsSucceed` |
| `LockOrderProofs` | `TypeCorrect`, `FixedOrderHasNoDeadlock`, `GroupsHaveNoDeadlock` |

Assumptions are the named ones of the modules, which TLC evaluates in the runs:
constants are distinct, limits are positive. `ChainAssumption` gives the chain the
bounds of its two parts, `NoneAssumption` and `NoRequestAssumption` say that None is
neither a command record nor a request. `CastAssumption` says
what the tables may hold when account commands begin, and that the Spaces they name
exist: the parent of a Space is a row of the table
(`src/packages/db/migrations/0001_wave_a2_identity_access_rls.sql:143-155`) and no
live Space is its own ancestor. `ObjectiveAssumption` has a fact identifier for
every claim identifier: identifiers are a bound of the model, and no acceptance is
refused for lack of one. `RevocationsAreFinal` and
`ChainRevocationsAreFinal` assume `AuthorityLocks`; `FixedOrderHasNoDeadlock` assumes
sessions that run publish, provisioning and foundation transactions only;
`GroupsHaveNoDeadlock` assumes that either all of them do or all of them run commands
only, as in the casts of the run (a mix can deadlock, see Findings), and finitely
many Spaces, since a relationship.end locks its Spaces one after the other.
`CommandsPassTheirTriggers` assumes `TextsAgree`: that the chunks of every
acceptable text reconstruct it and that server and database cut the same excerpt
from a chunk. That is a fact about recursive functions on texts, which needs
induction over data; the source run evaluates it for its texts (`TextsOfTheRun`).

The arguments:

- **ProductOutbox.** The properties are not inductive: that a published row was
  accepted needs that a relay in phase acked or committing holds the row lock,
  that the row's claim is the relay's while it does, and that the send it reports
  is of the row's current attempt. The invariant ties phase, lock, claim and the
  sets of open and accepted sends together; a send of an attempt exists only if
  the row's counter has reached it, which gives `AttemptsSentOnce`. That the
  transition trigger refuses nothing is proved of the seven changes a statement
  makes to a row (`RowChange`), with `Messages`: what never changes in a row is
  what the command put there.
- **FoundationWorker.** `Inv` is `TypeOK`, `DataInv` and `ControlInv`. Its heart
  is `PendingIsFresh`: the pending job is the newest one created and has no
  record. With it, and with the row lock held from `LockPending` to the
  commit, an effect is always the first of its job.
- **FoundationRelay.** `RelayInv`: a token may be used again, so a claim is told
  from another by the number of its attempt (`ClaimsAreDistinct`); while a relay
  locks a row, the row is open and carries that relay's claim (`LockHoldsClaim`);
  the send of a claim is not under way before it is made and is accepted once it
  is acknowledged (`SendsFollowClaims`). A row is marked published only under its
  lock and only for an accepted attempt, and failed only by the holder of the
  claim that was refused.
- **FoundationChain.** Every step of the chain is a step of the relay or leaves
  it alone, and likewise for the worker (`ChainStep`), so whatever is proved of
  either holds of the chain, `ProofPromise` included. The theorems of the worker
  are taken over through an instance of its proof module (`W`). What belongs to
  neither part is that an accepted send has put its copy on the queue
  (`AcceptedIsSent`).
- **TruthLedger.** `Inv` is `TypeOK`, requests addressed to their commands,
  `LockInv` (a transaction past a step holds the lock that step took) and
  `CheckInv` (what was checked under the coordinate lock still holds). Each commit
  touches only its own coordinate, so it cannot spoil the checks of a
  transaction at another one, and no one else holds the same. Each commit is then a step of
  `TruthSlots`, and uniqueness of current facts and open proposals follows from
  the abstract specification. `CommandsTakeEffectOnce` counts the rows that carry a
  key: none while the key has no completed command, and afterwards exactly those of its kind
  (`EffectInv`); a commit writes under its own key only, whose lock it holds, and
  identifiers are fresh. `HistoryStaysExact` compares the links of a row with the rows they name
  before and after each commit.
- **SourceLifecycle.** The commands race for one source, so `Inv` says for each
  transaction what it still knows at every step (`Knows`): an admitted claim
  holds its source for sharing and found it live, uncorrected and of that version
  (`Quoting`); a correction or a tombstone holds its own for update and, from its recheck
  on, found it unquoted. No two transactions hold a row unless both share it
  (`RowsAreExclusive`), and whatever one commits leaves alone the rows that
  others hold (`Harmless`). Then a quoted source stays, chains do not fork, and what a trigger tests
  again is still so. `RetriesFindTheirAnswer` rests on `CommandsStand`: what a
  completed command had tested stays true for good.
- **AccountCommands.** The invariant follows the script of each kind of command:
  of the lock, the decision, the reservation and the child Space it says that the step is
  ahead (`Ahead`, the script that is left contains it) or that what it achieved still
  holds. For a creation that is (`Governed`): the Space is locked and live; its
  class was compared under that lock, or a decision that compares it is to come; the
  policy version is active and locked for sharing, or its check is to come. That each script
  begins with the lock of the Space it decides about, and reserves before it
  writes, is proved of the eleven scripts (`ScriptsAreOk`). Decisions are dealt with by what they do
  to the command (`Effect`): which step they are at, and that they only add
  share locks. Whatever others do leaves locked rows, reserved keys and Spaces in the
  making alone (`Undisturbed`). A child Space is no row before the commit,
  belongs to one open transaction (`ChildFresh`) and its key has no other effect.
  `CommitsStandAuthorized` needs a second invariant (`AInv`). The tree of live
  Spaces stays rooted, so `Chain` is a finite climb and two climbs over the same
  rows are the same. A decision of the locked mode names its evidence: the Space,
  the grant, and for an inherited grant the Spaces up to the granted one, each
  of which passes it on (`Trail`); all are held for sharing from the moment they
  are relied on, and others leave held rows alone (`Untouched`). The batch of
  relationship.end holds nothing while it finds its rows; what it has found is
  compared under lock, and what is found again under those locks must be equal
  (`BatchOk`). At the commit the evidence is current and gives `May`.
  `EveryRefusalIsDue` needs a third (`DInv`), about a command whose access has not
  changed since it began and whose actor may do what it asks (`Calm`). All that
  the statements about a Space can read is gathered in one record (`Grounds`): the
  way it is read, the grant, the path, the rows and what the actor may do
  there. While nobody administers, the record stays, since a Space that another
  command adds is above none of the Spaces that are (`GroundsKeep`); every
  step of a decision then finds what the record says and goes on (`Succeeding`), and
  the second reading of the batch finds exactly what the first did, all of it
  (`Everything`). Of the rest of the script it says by the number of steps left in which
  Space the session is (`ScopeOk`) and which version of the relationship is held
  under its lock (`VersionOk`): a version that is not the expected one was written by
  another command, as the reservation has found no result under the key.
  `TypeCorrect` rests on all three and `TInv`: that the relationship is ended at
  most once is the version of `VersionOk` at the commit (`EndingOnce`), and that no
  live Space is its own parent is the rooted tree.
- **ObjectiveClient.** Nothing is locked between the statements of a page, so the
  invariant speaks of ledgers that have moved on. `Keeps` is what any commit
  leaves: claims that are decided and facts that are ended stay so, and a ledger
  that shows the generation of an earlier one again, with nothing open, has made nothing current
  meanwhile, since a decision changes the status of the latest claim. What a request has read
  (`SeenOk`: the generation is one the ledger had, a fact is one that exists and
  is not the open claim) and what it names of its page (`RequestOk`) are
  kept by `Keeps`. A claim that is behind a fact is not open later; as the fact is read before the
  open proposal, the page never shows one claim twice. `NoClaimIsShownTwice` would
  fail with the two statements exchanged, which is the mutant of that property.
  That a page never goes back needs a second invariant (`ViewInv`): the browser
  awaits one request at a time, one it gave up that is still there has only its command to
  give, and so every statement of the request that will be shown was executed after
  the page that is shown was answered (`NotOlder`). Of the past memory that is not
  plain, as it is read four statements after the fact whose predecessor it is:
  a fact that is current is given after every fact that is past; when none is current the last one
  was revoked, and it stays so.
  That an undisturbed request succeeds needs a third (`QuietInv`), which says of a
  request nobody has interfered with what `Inv` cannot say of the others: it has
  seen of each statement past what the ledger shows now (`SeenNow`), skipped ones
  included as those would have added nothing, and the page of now offers what it
  asks for (`Offered`). The key of its command is free, for a command that was
  given has moved the ledger on (`Spent`); the service does not miss the memory
  behind an accepted claim, for each has its fact (`ClaimsHaveFacts`).
- **LockOrder.** Both groups rest on `Compatible`: locks that two sessions hold on
  one row do not conflict. In the first group the tables have a rank and a script
  takes rows of ascending rank, so who blocks a session waits for a row of higher
  rank than that session does, and a set in which everyone waits for another would
  need ever higher ranks. One script breaks the order: proof creation locks the
  membership before the user. It never waits there (`ProofsPassTheUser`), because
  who holds the user FOR UPDATE holds the tenant FOR UPDATE too, and the proof holds
  the tenant. The commands follow no single order of tables: claim.create locks the
  Space before the coordinate, fact.supersede after it, and only the modes make that
  harmless. So a lock has a tier by its table and mode (`Tier`), and a held lock has a
  reach, the highest tier it can make somebody wait for (`Reach`). A script is orderly
  when each of its locks either lies beyond the reach of the ones before it or needs
  no waiting (`Free`): it is not FOR UPDATE, and the row is either of a table that no
  command locks FOR UPDATE or held already, when `Compatible` excludes a conflicting
  holder. Parts that follow each other this way join (`SectionsJoin`); each of the 15
  scripts is put together so. A circle would again need ever higher tiers.

Only model-checked:

- Liveness (`EventuallySettled`, `MessagesLeaveTheQueue`, `CommandsEnd`,
  `TransactionsEnd`), which with fairness is out of the prover's reach.
- `TextsAgree` and `SuggestionsAreProposable`: what recursive functions compute
  for every text.

## Findings

**A command and a publish can deadlock** (`lock_order_mixed`). A publish locks
tenant, workspace, policy, relay principal, Space and grant FOR UPDATE in that
order; activity.create locks the Space FOR UPDATE and then the workspace FOR
SHARE, and every command locks or references its Space before the relay
principal. PostgreSQL aborts one of the two; neither side retries at once. The
plan (`docs/status/WAVE_B1_PLAN.md:1379-1387`) states that the fixed order of
publishes has no deadlock, which `FixedOrderHasNoDeadlock` confirms for those who
follow it; the commands do not.

**A redelivery after a committed effect need not be confirmed as a duplicate**
(`foundation_redelivery`). When a newer proof replaced the aggregate's last job,
the older message is rejected as out of order and dead-lettered although its
effect is committed; the closure plan says that such a redelivery is resolved
through the duplicate path.

**A text that begins with a byte order mark cannot be captured** (`source_mark`).
`normalizeSourceText` hashes the bytes before its decoder drops the mark; the hash
no longer belongs to the text that is stored, and the trigger of migration 0005
refuses it. The plan (`docs/status/WAVE_B1_PLAN.md:883-899`) accepts such texts
and hashes what is retained. Notes of the trusted objective page are normalised
before they are sent and do not meet it.

### Observations

Met while modelling, with no statement in the repository that they contradict, or
outside what the runs check:

- A page whose accepted memory is read just before its revocation commits shows
  the objective as current and as removed. Its buttons are refused.
- A page and `fact.supersede` can deadlock: claim then fact FOR SHARE, fact then
  claim FOR UPDATE. PostgreSQL aborts one; the browser reloads.
- A request that lost a race is mostly answered 409, but 404 when a row it had
  found is gone at the next statement; the concurrency test
  (`trusted-objective.postgres.spec.ts`) expects 201 or 409.
- When a command commits and the page that follows fails, or the five seconds are
  over, the browser says that no unconfirmed change occurred, and reloads.
- A form stays open while the page under it is refreshed and is sent with the
  anchors of the new page: the key of the suggestion form is the source alone. A
  drafted confirmation question stays after a supersession.
- The idempotency key of a capture is the activity: after a tombstone the same
  note replays the first capture and leaves none, another one conflicts.
- A revocation between page and proposal changes no generation, so a proposal
  that was meant as an update commits as a new objective.

## Hazards

`PROJECT.json` lists them at their lines with the properties that cover them. Not
covered, each with its reason there: rows of a retired policy version, and the
deadlock of page and supersession.

## Plan

All modules planned so far are there. What is left, in order:

1. `LockOrder`: the page of the trusted objective among the sessions.
2. Two policy versions in `ProductOutbox`: which rows are stranded when one is
   retired.
3. Decisions about people and purposes in `SpaceAccess`.
