# A TLA+ model of beaconflame-api

beaconflame-api takes applications over HTTP, runs each through an asynchronous
pipeline (enrichment, features, score, policy rules, decision, webhook) and lets
staff override decisions. It is a Django REST application with a PostgreSQL
database and Celery workers behind a Redis broker. This directory holds TLA+
modules that model its core, the TLC runs that check them on small instances and
theorems about them that TLAPS checks for every value of the constants.

Contents: [inventory](#inventory), [modules](#the-modules), [runs](#the-runs),
[fairness](#fairness), [proofs](#what-is-proved),
[findings](#where-the-code-and-its-documents-disagree), [limits](#what-is-not-modelled),
[plan](#plan). Paths are relative to `src/`; `tasks.py` is
`apps/applications/tasks.py`.

## Inventory

| Component | State | Operations | Hard behaviour | What makes it correct |
|---|---|---|---|---|
| Intake (`apps/applications/services.py`, `apps/api/v1/views.py`) | `Application` rows, unique on key + principal | `submit`, then publication of the chain | concurrent requests with one key; a failure between commit and publication | one application per key and principal; no chain twice or for an uncommitted row; an accepted application is queued |
| Pipeline (`tasks.py`) | status, feature snapshot, score result, audit rows, Celery message | six tasks with `_fail` handlers and `autoretry_for` | several commits per task; errors in handlers; retries after partial work; lost workers | decisions are traceable; failures are reported; a chain ends |
| Decisions (`apps/decisions/services.py`, override view) | `Decision` rows, `is_current`, `Application.status` | `create_pipeline_decision`, `override_decision` | unlocked check before the transaction; overlapping READ COMMITTED transactions | newest decision in force; history kept; status agrees with it |
| Features and scoring (`apps/scoring`) | `FeatureSnapshot`, `ScoreResult` | `compute_feature_dict`, `WeightedScoringEngine.score` | zero read as missing, bounds of bands | one band per score; more risk, no lower score |
| Policies (`apps/policies`, `PolicyRuleViewSet`) | `PolicyRule` rows | `RuleEngine.evaluate`, create, update and delete of rules, `seed_policy_rules` | priority ties, unreadable bounds; edit and audit row as two commits; stale instances saved whole; seeds that overlap or are killed | the first match decides; the log explains the table; a partial seed decides nothing by mistake, a finished one has put the defaults back |
| Audit (`apps/audits`) | `AuditLog` rows | `AuditService.record`, listing | separate commits from what they report | what is done is audited before it is answered |
| Integrations (`apps/integrations`) | `WebhookDelivery` rows | `dispatch_webhook_placeholder` | swallowed errors, repetition | at most one delivery; it reports a real decision |
| API keys (`api_keys.py`, `authentication.py`, `APIKeyViewSet`) | `APIKey` rows | create, authenticate, revoke | check-then-act of revocation; a key saved while it is revoked | a revoked key stays refused and is not revoked again; a key or a revocation without an event belongs to a failed request |
| Accounts and login (`apps/authentication`) | users, outstanding and blacklisted tokens, sessions | password and Google login, for tokens (API) or a session (browser), logout, deactivation | get-then-create of a Google account; tokens that outlive a change of the account; audit row after the token but before the session | one account per address; a deactivated account is refused; logins are audited |
| Permissions and visibility (`permissions.py`, `visible_queryset_for_request`) | none of their own | predicates on role and principal | - | see [limits](#what-is-not-modelled) |
| Middleware, settings, admin site, migrations, containers | none of their own | request ids, generated forms, start-up | - | see [limits](#what-is-not-modelled) |

Interaction: the web process writes the application and publishes a chain of six
messages; the broker hands each task to a worker, which publishes the next one
when the task returns. Everything else the parts say to each other goes through
the database: a task reads what the tasks before it have saved, the override view
reads the status that the pipeline writes, and both write decisions. `evaluate_rules`
reads whatever rules administrators and seeds have left in the table at that moment.
Every API request is authenticated first, which reads the rows of its user or key.

`PROJECT.json` lists what is hard to test in this code, each hazard at its line
with the properties that cover it.

## The modules

    DecisionLedger   what an application promises about its decisions (abstract)
         ^ implements
    Pipeline ------- EXTENDS Decisions              MCPipeline     PipelineProofs, LedgerProofs
    Decisions                                       MCDecisions    DecisionsProofs
    Intake                                          MCIntake       IntakeProofs
    Assessment ----- EXTENDS Scoring, PolicyRules   MCAssessment   AssessmentProofs
    PolicyTable ---- EXTENDS PolicyRules            MCPolicyTable  PolicyTableProofs
    PolicyRules, Scoring --- EXTEND JsonValues                     PolicyRulesProofs
    Access                                          MCAccess       AccessProofs

**`Decisions`**: the decision table of one application under PostgreSQL's READ
COMMITTED. `txn[w].at` is the statement that the transaction of writer `w`
executes next: `select` (the current decision), `snapshot` and `clear` (start and
end of the UPDATE that clears `is_current`), `save` (the status), `commit`. An
UPDATE visits the rows that were current when it started, waits for the
transaction that has locked one of them, and then skips rows that are no longer
current. The override view's checks are `AdmitOverride`, outside the transaction,
as in the code. Ids order rows as `created_at` does. The audit row of a decision
belongs to the transaction and is therefore not a variable. Statements that take
no lock another writer waits for (the INSERTs) are merged with the one before. The
UPDATE takes the locks of all its rows in one step, so that two of them that visit
several current rows in different orders and wait for each other are outside the model.

**`Pipeline`**: the Celery chain of one application composed with `Decisions`.
`stage` is the task, `phase` the point where it is: `ready`, `auditing` (its work
is committed, its audit row is not), `persisting` (the transaction of
`persist_decision` is open), `failing` and `reporting` (in the exception handler,
before `_fail`'s status save and before its audit row), `raised` (Celery decides
about a retry), `done`, `stopped`, `lost`. Every commit of a task is an action:
`enrich_application` is one transaction, `evaluate_rules` commits nothing but its
audit row, the other tasks have two commits or, for the decision, a transaction
whose statements are steps. `Faults` chooses the environment:

| Fault | Meaning |
|---|---|
| `error` | a statement of a task raises, transient (retried) or permanent |
| `handler` | a statement of an exception handler raises, replacing the error |
| `indoubt` | a commit takes effect but its caller sees an error |
| `crash` | the worker is killed, the broker loses the message, or the next task cannot be published, which Celery does after the task has returned; messages are acknowledged on receipt, so nothing comes back |

**`DecisionLedger`**: one decision by the pipeline, then overrides, each replacing
and naming the decision in force. `Pipeline!ImplementsLedger` maps the rows, the
current id and the status to it.

**`Intake`**: `ApplicationViewSet.create` and `ApplicationService.submit` for
concurrent requests: the lookup, the INSERT with its wait on the unique index,
the `IntegrityError` branch, the commit, and the publication after it. A client's
retry is another request with the same slot (key and principal).

**`Scoring`**, **`PolicyRules`**: `compute_feature_dict`, `WeightedScoringEngine`,
`RuleEngine` and the seeded rules as functions. Numbers count hundredths, a grid
on which the weighted sum is exact. `PolicyRules!Tests` keeps the order of the
tests of `_matches`, so that a test that raises does so only when it is reached.
`JsonValues` names what may stand where a number should be (nothing, or a text).
**`Assessment`** runs them as the tasks do, each possibly again, with the seeded
rules in the table.

**`PolicyTable`**: the rule table. A request of an administrator is `Create`,
`Update` or `Destroy` (what it has in memory: `held`), then the commits `Save` or
`Delete` and `Audit`, in the order of the view. `Save` is Django's `save()`: all
fields of the instance, by id, inserted again if the row has gone. A seed is
`Start` and then, for each of `Defaults`, `UpdateDefault` (the transaction of an
`update_or_create` that finds one row) or the two statements of one that finds none;
with several rows it is `raised`. `Fail` ends a request or a seed between any two
commits. `overtaken` is a history variable: the seeds during which a request has
written the table.

**`Access`**: accounts, credentials and what requests do with them. A request has a
`job` (what, by which credential, on what) and a phase `at`: a login goes `find`,
perhaps `create`, `issue` (the stored token), `audit`, and for the browser `respond`
(SessionMiddleware stores the session with the response); any other request goes
`authenticate`, for a key also `touch` (the save of `last_used_at`), and then its
view: `insert` for a new key, `load` and `end` for a revocation or a logout, both
of which check and then act. `ended` holds revoked keys and blacklisted refresh
tokens. Submitting, an action of several steps in `Intake`, is one step here and stands
for what an authenticated request may do. `before[q]` is a history variable: the requests that had
been answered with success when `q` came, so that properties can speak of a request
that *comes after* another one and not merely of states. The branch for inactive
users in `browser_login` is not reached, as `authenticate()` returns nobody for
them; the models have it only for Google. Keys are authenticated by their own row,
tokens and sessions by the row of their user, and `DeactivatedUserIsRefused` says
so.

Definitions marked *Bug variant* differ from the one they precede by one
plausible mistake; putting them in its place makes a property fail, which shows
that the property depends on the code. `PROJECT.json` pairs them under `mutants`.

## The runs

| Run | Question | Instance |
|---|---|---|
| `decisions` | Do any interleaved decision transactions keep the newest row current, the superseded ones superseded, every override with the decision it replaced and the history whole, and end? | 2 reviewers and a worker that may persist at any moment; no transaction is admitted after 3 rows |
| `pipeline_serial` | Do status and decision agree, does the chain implement the ledger and end? | 1 reviewer, the code's retry limits 3 and 2, `error`, `handler`, `crash` |
| `pipeline_reported` | Is a chain that gives up reported, is the webhook dispatched once, does the application settle? | 1 reviewer, limits 3 and 2, `error` |
| `pipeline_races` | Are decisions traceable and webhooks honest whatever happens? | 2 reviewers, all faults, limits 1 and 1 |
| `pipeline_unreported` | (violation) Is a failure always reported? | 1 reviewer, limits 3 and 2, `error` and `handler` |
| `intake` | One application per key, one chain per application, an answer for everybody, a chain for every accepted application whose creator did not fail? | 3 requests, 2 slots and no key, all faults |
| `intake_duplicate` | (violation) Is a concurrent duplicate answered with the application? | 2 requests, 1 slot, no fault at all |
| `intake_unqueued` | (violation) Is every accepted application queued when publishing fails? | 2 requests, 1 slot, `publish` |
| `scoring` | Has every score its band, is risk monotone, what do the seeded rules decide? | 7^4 payloads: missing, unreadable, negative, 0, 40, 100 and above 100 |
| `policy_table` | Does the first match decide on every table that edits and seeds make, does the log explain it, are seeds cautious and do they restore the defaults? | 2 requests, 2 seeds of three defaults, an added rule with a default's name and an unreadable bound, 2 patches, ids before and after the seeded ones, failures anywhere; 3 applications |
| `seed_again` | (violation) Does a seed succeed whatever seeds have run? | 3 seeds of the four defaults, no administrator |
| `access` | Is what was ended refused to whoever comes later and not ended again, one account made per address, and nothing answered without its event? | 3 requests of any kind, failures anywhere; an administrator with a token, a client with a key, one address without an account |

Bounds, and why they are enough. `MaxRows` stops overrides from being admitted;
transactions that are open may then still add rows. In `decisions` overrides overlap and
override each other, in `pipeline_serial` one overrides another, in `pipeline_races`
two overlap on the first decision; the other two runs are about the chain and have
room for one override or none. Two overlapping overrides and a worker already
give every conflict of this locking scheme on one row; the theorems below lift
the safety properties to any number. Retry limits enter only as a counter, and
the runs about retries use the code's. Applications share no row and no lock, so
one is modelled. In `scoring` the values hit both clamps and, combined, every
bound of the bands. `policy_table` leaves out the catch-all, which decides as no
rule does; six ids for the seeds are enough for both to create every default. Of
ids only the order within a priority matters (`PolicyTable!NewId`). In `access` three
requests suffice for each property's worst case: one that has read a row, one that
changes it, and one that comes after. Both runs use the symmetry of their processes,
which their properties (no liveness) allow. `CHECK_DEADLOCK FALSE` stands in runs whose system ends
(chains end, requests are answered once).

The overlap of two overrides is the case to understand. Both transactions select
the same current row; the second waits for the first one's row lock, then skips
the cleared row and never sees the first one's new row. Both new rows are
current. `StatusAgreesWithDecision` and `ImplementsLedger` are therefore stated
for one reviewer at a time, and what holds in general is weaker: the newest row is
among the current ones (`LatestRowIsCurrent`; reads order by `-created_at`, so
it is the one that is shown), a predecessor is never current again, and every
override has one (`OverridesHavePredecessors`), although the view looks for it outside
the transaction. A commit
in doubt likewise may give a second pipeline decision.

## Fairness

`FairSpec` of `Pipeline` assumes weak fairness of `Progress`: a worker that is up
takes its next message and executes the statements of its task; Celery's retries
count as progress (`autoretry_for` schedules them). Of the reviewers it assumes
weak fairness of the statements of a transaction that is open: a web process
executes a request it has begun. Nothing is assumed of faults, of new requests or
of aborts. Locks need no strong fairness, since a held lock is released by a step
that is itself weakly fair, and the number of transactions is bounded.
`Intake!FairSpec` assumes weak fairness of `Handle(q)` for each request; of
`PolicyTable` and `Access`, whose steps never wait for each other, only safety is
stated. The
liveness properties of `Pipeline` are `ChainEnds`, which holds even if workers
are lost because a lost chain has ended, and `ApplicationSettles`, which is
claimed only for `Faults = {"error"}`.

## What is proved

`DecisionsProofs`, for any set of reviewers, any types and any bound:

| Theorem | Statement |
|---|---|
| `Typing` | `DSpec => []DTypeOK` |
| `LatestRow` | `DSpec => []LatestRowIsCurrent` |
| `Superseded` | `DSpec => []SupersededStaysSuperseded` |
| `History` | `DSpec => HistoryIsKept` |
| `Predecessors` | `DSpec => []OverridesHavePredecessors` |

The properties are not inductive: that the newest row stays current depends on
what the open transactions have in hand. `DInv` adds: the stamp that a
transaction has taken is fresh and no other transaction's (`FreshIds`); the rows
it has cleared are older than its own (`ClearsOlder`); and the
predecessor it has read is cleared already, or will be by its own UPDATE, which
starts after the read (`PrevIsCleared`). `FindsADecision` carries the view's check to the
commit: what is current is replaced and never merely cleared, so that an admitted override
finds a decision and its own stamp, taken later, is above that one's. The lemmas prove each part over
`AnyStep`, which has neither the bounds of `DNext` nor its schedule, so that the
chain can use them too.

`PipelineProofs`, for any retry limits, reviewers and faults:

| Theorem | Statement | Assumes |
|---|---|---|
| `PipelineTyping` | `Spec => []TypeOK`, retry limits included | |
| `Traceable` | `Spec => []DecisionIsTraceable` | |
| `WebhookHonest` | `Spec => []WebhookReportsADecision` | |
| `PipelineHistory` | the chain keeps `LatestRowIsCurrent`, `SupersededStaysSuperseded` and `OverridesHavePredecessors` | |
| `DeliveredOnce` | `Spec => []OneDelivery` | no `handler` fault |
| `FailureReported` | `Spec => []FailureIsReported` | no `handler`, no `indoubt` fault |

`TableStep` shows that every step of the chain is an `AnyStep` or leaves the table
alone, which reuses the invariant of the decisions. `Inv` adds: the worker has a
transaction open only while the chain persists, for the outcome it carries
(`WorkerPersists`); a stage is reached only with the events of the earlier ones
audited (`StagesInOrder`); at the webhook the status is one that a row has
(`StatusIsDecided`). `DispatchedOnce` and `Undecided /\ Reported` strengthen the
last two: without commits in doubt no row exists and no reviewer is admitted
before the chain leaves `persist_decision`, so nothing undoes what `_fail` wrote.
`FailureReported` names more faults than its run does: the theorem
covers `crash` as well.

`IntakeProofs`, for any requests, keys and faults:

| Theorem | Statement |
|---|---|
| `TypesOfIntake` | `Spec => []TypeOK` |
| `OneApplicationPerKey` | `Spec => []SameKeySameApplication` |
| `OneChainPerApplication` | `Spec => []QueuedOnceAndCommitted` |

That two requests never settle on two applications rests on the unique index:
committed rows have different slots (`OnePerSlot`), and so have the rows that are
inserted and not committed, from each other and from the committed ones
(`InsertedIsFree`, which needs the INSERT's wait). `AppIsOfSlot` ties what a request
has found to its slot. A chain is published by the request that has created the
application, at its end (`PublishedByCreator`), so no second one follows.

`LedgerProofs`, for any set of reviewers with at most one member (`Reviewers \subseteq
{r}`) and faults without `indoubt`; with two reviewers, or with a commit in doubt,
both statements are false (see [runs](#the-runs)):

| Theorem | Statement |
|---|---|
| `StatusAgrees` | `Spec => []StatusAgreesWithDecision` |
| `LedgerImplemented` | `Spec => ImplementsLedger` |

`SerialInv` adds to `Inv /\ Undecided` that an override works on the decision in force
from its first statement to its commit (`OverridesTheCurrent`: the predecessor, the
snapshot and the cleared rows are all the one current row, and the new stamp is above
every other) and that the worker replaces nothing (`WorkerDecidesFirst`). The
refinement goes step by step: the worker's commit is `Ledger!Decide`, a reviewer's is
`Ledger!Override`, and `ChainFrame` shows that any other step leaves the rows alone and
moves the status only among those that are no verdict. Both theorems cover `error`,
`handler` and `crash` with any retry limits.

`PolicyRulesProofs`, for every table (any finite set of rules with integer priorities and
distinct ids):

| Theorem | Statement |
|---|---|
| `EvaluateIsFirstMatch` | `FirstMatch(rules, ctx, Evaluate(rules, ctx))` |

The loop is a fold, and the library's induction theorems cannot be instantiated. The proof takes
a smallest counterexample instead: `LoopExists` and `LoopDecides` consider the index sets
for which the recursion behind the fold has no solution, or not the first match;
inclusion of finite sets is well-founded, so one of them would be minimal, and the step
from there to the next rule (`VisitDecides`) contradicts that. `OrderedRules` shows that
sorting by priority and id (a `CHOOSE` by counting the rules before) enumerates
the active rules in order. `DefaultsDecide` computes what tables made of the seeded rules decide.

`AssessmentProofs`, for any set of payloads over the integers:

| Theorem | Statement |
|---|---|
| `ScoresHaveTheirBand` | `Spec => []ScoreHasItsBand` |
| `RiskRaisesTheScore` | `Spec => []RiskIsMonotone` |
| `BandDecides` | `Spec => []SeededOutcome` |

The invariant says that snapshot, result and outcome are what the functions give for the
payload, however often a task is repeated. `ScoreRange` and `ScoreIsMonotone` do the
arithmetic of the clamped weighted sum, `BandOfScore` that the thresholds neither overlap nor
leave a gap.

`PolicyTableProofs`, for any requests, seeds, defaults, additions and patches:

| Theorem | Statement | Assumes |
|---|---|---|
| `TypesOfPolicyTable` | `Spec => []TypeOK` | |
| `TableIsDecidedByFirstMatch` | `Spec => []FirstMatchDecides` | |
| `LogExplains` | `Spec => []LogExplainsTable` | |
| `SeedsRestoreDefaults` | `Spec => SeedRestoresDefaults` | |
| `SeedingNeverMisleads` | `Spec => []SeedingIsCautious` | `Defaults = DefaultRules`; contexts have an integer score, below 85 if the band is low |

`Inv` adds: what a request holds has been in the table, or is a rule whose id nobody else
has (`Memory`); deletions are audited only of ids that have been used (`Deletions`); a seed
that no request has overtaken has put back every default before the one it is at
(`Progress`); and while there are only seeds, the table holds copies of defaults and all
of them once a seed is done (`Unedited`). That another seed never takes a default away, by
its update of the same name or by an insertion, is `SeedsProgress`. The second assumption of the
last theorem is what `ScoresHaveTheirBand` gives of every score that is saved.

`AccessProofs`, for any number of requests and any addresses:

| Theorem | Statement |
|---|---|
| `TypesOfAccess` | `Spec => []TypeOK` |
| `RevocationIsFinal` | `Spec => []RevokedKeyIsRefused` |
| `DeactivationIsFinal` | `Spec => []DeactivatedUserIsRefused` |
| `EndingIsFinal` | `Spec => []EndedIsNotEndedAgain` |
| `LoginsShareTheAccount` | `Spec => []OneAccountPerAddress` |
| `AuditPrecedesAnswer` | `Spec => []EffectIsAudited` |

`Inv` adds: a request is in a phase that its kind has (`Jobs`); addresses are unique and a login
acts for the account of its address, which only a request that may still create one
can add (`Accounts`); what was answered with success stays done, since nothing shrinks
`ended` or reactivates an account (`Done`); a session is stored by a request that has its
event (`RespondsAudited`). The proof has one lemma per step of a request and, in each,
one part per conjunct.

The assumptions are those named in the modules: the worker is no reviewer, the types
are decision types, the bounds are natural numbers, the faults are `Fault`s, no slot is
`NoKey` and no request is `None`; texts and missing values are no numbers; rules have
integer priorities and known outcomes, as the columns and the serializer enforce, and a patch
does not set the read-only id; ids are distinct numbers, as random UUIDs are
distinct; there is at least one default and their names differ.

Only model-checked: liveness (`TransactionsEnd`, `ChainEnds`, `ApplicationSettles`
and the two of `Intake`), which is beyond the prover with its fairness and ENABLED, and the
four violations. The floating-point weights are taken as the grid of hundredths in
proofs and runs alike.

## Where the code and its documents disagree

- `pipeline_unreported`: the exception handlers use the database that has just
  failed. If it still fails, `_fail`'s save or audit raises in turn, and a chain
  that gives up leaves its application `queued` or `processing`, or failed without
  an event, where `README.md:24` says failures set the status and emit an audit.
- `intake_duplicate`: of two simultaneous requests with one key the loser gets
  `IntegrityError` inside `transaction.atomic`; the query of the `except` branch
  then raises `TransactionManagementError`, and the docstring's "idempotent" ends
  in an error answer. No second row is created.
- `intake_unqueued`: when publication fails after the commit, a repeated request
  is answered with the application and skips the publication for good.
- `seed_again`: the command's help says "idempotent by name", but names are not
  unique. Two seeds at once may both create a rule; from then on every seed raises
  `MultipleObjectsReturned` at it. The table still decides as the defaults do
  (`SeedingIsCautious`).

Smaller observations that the models contain: the seeded rule "Manual review high
score" can never decide, as a score of 85 is in the band that is declined first
(`SeededOutcome`); an explicit zero is read as missing, so that a `history_score`
of 0 scores higher than 1 (`RiskIsMonotone` leaves zero out); the webhook task is
repeated only if its handler fails too; an update of a rule that overlaps its
deletion brings the rule back, and one that overlaps another update writes the other's
old fields back (`PolicyTable!Save`); a revocation whose audit row fails is never audited,
since repeating it is answered "Already revoked."; `ROTATE_REFRESH_TOKENS` has no effect,
as no endpoint refreshes tokens.

## What is not modelled

- Time: expiry of tokens and sessions, throttling. The admin site, except for the
  deactivation of an account; its forms save whole rows and could undo what the API does.
- Clocks: ids order rows as `created_at` would on one clock. The processes take it from
  the clocks of their hosts; where these differ, "newest" in `LatestRowIsCurrent` and
  "older" in `OverridesHavePredecessors` mean the order of the INSERTs, and a read that
  orders by `-created_at` may show another of the current rows.
- Roles do not change, and permission classes are modelled where a step needs them
  (submitting, managing keys). Which applications a request may read is a filter on
  columns that are written once: no sequence of steps changes what it selects.
- What a property does not tell apart: events are sets, so that in `FailureIsReported`
  an earlier attempt's `pipeline.failed` stands for a later one, and `LogExplainsTable`
  lets any audited update of a rule explain any change to it. `EffectIsAudited` confines
  changes without events to requests that were not answered; that such a change may
  stay without its event for good is what the code does. `RiskIsMonotone` leaves zero
  out, and `ChainEnds` counts a lost chain as ended: nothing resumes it.
- Passwords, hashes, prefixes and Google's verification are outcomes, right or wrong.
- Middleware, exception pages, settings, read-only listings,
  migrations and container start-up: they keep no state the properties mention.
- SQLite, the default of local development, has one writer at a time and shows
  fewer interleavings; Celery's eager mode of the tests runs a chain sequentially.
- Wording of audit and decision records, correlation ids, reason codes.
- Floating point between hundredths in the score: the code rounds to two decimals.

## Plan

Done: the modules above, their runs, and eight modules of proofs; every safety
property that a passing run checks has a theorem. Open:

1. Theorems that need less: `StatusAgrees` and `LedgerImplemented` for any number of
   reviewers whose transactions do not overlap, instead of for one reviewer.
2. The exact number of webhook deliveries when handlers fail too (the retry limit bounds
   them), and what a commit in doubt can at most do to the ledger.
3. `Intake` with `Pipeline`: two slots, one of each chain reduced to its stages, for
   "an accepted application settles" from request to decision.
