# LUNATIC SIEM: verification project

TLA+ models of the backend's core (`src/backend/app`), model-checked with TLC.
The safety of every stage of the pipeline, of playbooks, logins, incidents,
indicators and the ATT&CK catalogue is also proved with TLAPS. `PROJECT.json` maps every
definition to the lines it models; paths below are relative to
`src/backend/app`.

## The system

Collectors hand raw events to the ingestion service. From there events go
through a pipeline of workers joined by Redis Streams topics, each read by one
consumer group per kind of worker:

```
collectors -> ingestion -> events.raw -> parser -> events.normalized
events.normalized -> indexer (OpenSearch), detection, correlation
detection -> detections.created -> correlation, alert worker
correlation -> correlations.created -> alert worker -> alerts (PostgreSQL)
alerts -> analysts' triage, incidents, response playbooks (REST API)
```

Workers are asyncio processes that run as several replicas. An `await` lets any
other task run; nothing but Redis and PostgreSQL is shared between processes.
PostgreSQL runs READ COMMITTED, and most services read rows without locking
them. A handler's transaction is committed by the API route.

| Component | State | Operations | What makes it correct |
|---|---|---|---|
| Event bus (`core/eventbus.py`) | streams, pending lists, delivery counters | publish, subscribe, ack, claim_stale, dead_letter | unacked messages come back, acked ones do not |
| Ingestion (`services/ingestion.py`, `api/ingestion.py`) | quota counter, idempotency keys | ingest | one copy per event, no event silently discarded, truthful answers |
| Parser worker (`workers/parser_worker.py`) | batches of two loops per replica | handle, reclaim, shutdown | nothing acked without its outcome, everything settles |
| Indexer (`workers/indexer_worker.py`, `services/indexing.py`) | pending list, flushes in progress | accept, flush by size and by interval | nothing acked that is not stored or rejected, nothing held twice |
| Index management (`services/index_management.py`) | policy, template, write index | bootstrap by every replica | a replica that is ready writes where its fields can be searched, unless the log says otherwise |
| Rule management (`services/detection_rules.py`) | rows, versions, exceptions | create, update, set status, except | history explains what was executed |
| Detection (`workers/detection_worker.py`, `detection/`) | rule caches, suppression keys | accept, refresh, windowed pass | detections justified, spaced, judged by recent rules |
| Correlation (`workers/correlation_worker.py`, `correlation/`) | hit lists, suppression keys | record, evaluate, publish | reports are chains, completed chains are reported |
| Alert worker and store (`workers/alert_worker.py`, `services/alerts.py`) | alerts, display counter | create_or_update, transition, assign | repeats counted, gapless numbers, listed transitions |
| Incidents (`services/incidents.py`) | incidents, links, tasks, timeline | create, transition, update, link, note, task | the timeline is true, and complete for status, links and tasks; links are unique |
| Playbooks (`playbooks/`, `services/playbooks.py`) | runs, approvals | start, approve, reject | dual control, steps in order and once |
| Identity (`services/auth.py`, `services/users.py`) | accounts, roles, sessions, MFA secrets | register, login, refresh, logout, enrol, administer | one live token per login, lockout counts, one role, MFA proven |
| Threat intelligence (`services/threat_intel.py`, `services/feeds.py`) | indicators, history, feeds | create, update, delete, match, sync | every analyst's change is in the history, a feed's row tells what it brought |
| ATT&CK catalogue (`services/mitre.py`, `mitre/importer.py`) | techniques, tactics, rule mapping | import, sync, coverage | a report claims what enabled rules claim |
| Conditions (`detection/conditions.py`, `detection/query.py`) | none | evaluate, compile | the two readings of a rule agree, but for a known list |
| Hunting (`hunting/`, `services/hunting.py`) | saved hunts, export quota | search, pivot, save, run, export | answers are the tenant's and complete, exports are on record |
| Risk and enrichment (`risk/`, `enrichment/`) | none | enrich, assess | a score follows from its explanation, and that of a detection from what was found |

The hard behaviours are the interleavings of tasks and replicas on shared rows
and keys; a crash between a claim and what it claims for, or between an outcome
and its ack; redelivery and retries; time limits (idle times, TTLs, refresh
intervals, windows); and rows that are read without a lock and written later.
`PROJECT.json` lists each as a hazard, at the line where it bites.

## Modules

| Module | Models | Notes |
|---|---|---|
| `EventBus` | one topic as one consumer group sees it | Redis is external; `Msg` are entry ids |
| `DeliveryContract` | what a pipeline stage promises | abstract: accepted, produced, settled; some messages may be exempt from having output |
| `ParserWorker` | the parser stage on `EventBus` | implements `DeliveryContract` |
| `IndexManagement` | the bootstrap of one index family | extended by `IndexerWorker` |
| `IndexerWorker` | the indexing stage on `EventBus` | implements the safety part of `DeliveryContract` (proved) |
| `Ingestion` | `ingest()` step by step | events are named by idempotency key |
| `DetectionRules` | a rule's row, versions and exceptions | extended by `Detection` |
| `Detection` | rule cache, consumer and scheduler of each replica | one rule |
| `Correlation` | recording and evaluating stage hits | one rule and one entity |
| `Alerts` | the alert store's transactions | extended by `AlertWorker` |
| `AlertWorker` | the alert workers on `EventBus`, and analysts | the two input topics are merged; implements the safety part of `DeliveryContract` (proved) |
| `Playbooks` | runs, approvals and decision transactions | |
| `Cases` | incidents, links, tasks and timelines | |
| `Identity` | accounts, roles, sessions and MFA of one organization | |
| `ThreatIntel` | indicators, their history, and the feed worker | |
| `Mitre` | catalogue, rule mapping and coverage reports | |
| `Conditions` | condition trees: the evaluator, the compiler, and what a compiled query finds | operators only |
| `RulePaths` | a rule from the loader to both engines | extends `Conditions` |
| `HuntExports` | the hourly ration and the record of exports | extended by `Hunting` |
| `Hunting` | searches, saved hunts, pivots and exports | extends `Conditions` and `HuntExports`; two tenants |
| `Scoring` | enrichment and risk scores | operators, and a small state machine around them |
| `Api` | the services behind the REST API | composes `Ingestion`, `Cases`, `Identity`, `ThreatIntel`, `Mitre`, `RulePaths`, `Hunting`, `Scoring` |
| `ParserWorkerProofs`, `IndexerWorkerProofs`, `AlertWorkerProofs`, `DetectionProofs`, `CorrelationProofs`, `PlaybooksProofs` | theorems of the module of that name and of those it extends | |
| `CaseProofs` | theorems of `Cases` | |
| `ServiceProofs` | theorems of the other services behind the API: `Ingestion`, `Identity`, `Mitre`, `ThreatIntel`, `Scoring` and `HuntExports` | |
| `MC...` | instances for TLC | |

How state and actions correspond to the code:

- *Tasks.* A task is a record (or a few functions) with a phase: the place
  where it awaits. One action is what happens from one await to the next.
  Redis commands and Lua scripts are atomic.
- *Transactions.* A request reads committed rows in one step, keeps what it
  read, and writes in a later one. Row locks are modelled where the code or an
  UPDATE takes them (`Locked` in Playbooks, `RowLocked` in Alerts). An UPDATE
  writes only the columns that differ from the loaded row, as SQLAlchemy does.
- *Time.* TTLs and windows are either a clock that ticks (`Correlation`,
  `Detection`) or an event that may come at any moment (`KeyExpires` in
  Ingestion, `GoIdle` on the bus, `Elapse` in Alerts, `LockElapses` in Identity).
- *Data.* In the pipeline modules payloads are model values or numbers, and
  what parsing, condition evaluation or normalization decides about them is a
  constant: the set of messages that are malformed, the stages an input
  satisfies, the events a rule matches. `Conditions` and `Scoring` compute what
  the others abstract: a text is a short sequence of tokens, so that letter
  case, wildcards, digits and address prefixes can differ; factor values are
  ten-thousandths, the precision the code rounds them to.
- *Failures.* A call to Redis, PostgreSQL or OpenSearch may raise before or
  after it took effect; a process may end in any phase. `MaxFaults` (or the
  scenario's `faults`, `MaxBusFaults`) bounds how often.
- *History variables* are marked as such and never read by a guard.
- Definitions called *Mutant of X* are plausible mistakes in X. They are used
  by no specification: each stands for the check that a property would notice.

## Runs

| Run | Instance | Shows |
|---|---|---|
| `parser` | 2 replicas with 2 loops, 3 messages, batches of 2, 2 faults | acks follow outcomes, duplicates only by redelivery; the stage implements `DeliveryContract`, liveness included |
| `indexer` | 2 replicas with 2 flushers, 4 messages, batches of 2, 2 code versions, 2 rollovers, faults by scenario | see below; includes liveness |
| `api` | 8 services, one per behaviour; 2 overlapping requests each | see below |
| `ingestion_discarded` (violation) | 2 attempts, 1 fault | an attempt cut off after its claim makes the retry a "duplicate" of nothing |
| `detection` | 2 replicas, 2 editors, 3 events, a streaming rule and two threshold rules (by events, by distinct values), 5 scenarios, clock 0..2 | see below |
| `correlation` | 2 tasks, 5 inputs, an ordered and an unordered rule, lists of 3, clock 0..3, 1 fault | reports are chains, no completed chain is missed by both tasks, reports are spaced |
| `correlation_order` (violation) | 3 inputs delivered late | a later hit recorded first hides a chain for good |
| `alerts` | 2 tasks, 5 firings (one undecodable, one ignored), 1 analyst with 2 requests at once and 3 in all, 1 fault | gapless numbers, exact counts, acked firings accounted for, `closed_at` agrees with the status unless transitions overlap |
| `alert_duplicates` (violation) | 2 tasks, 2 firings | two tasks create two alerts for one key |
| `alert_lost` (violation, fair) | 2 firings, 1 crash | no alert worker reclaims what a crashed one left |
| `playbooks` | 3 decisions in flight, 4 approvals, 3 steps, 2 destructive | dual control, order, no stranded run; resumption and finality without overlap |
| `playbooks_replay` (violation) | 2 decisions at a time, 3 approvals | a step asked for twice is executed twice: decisions of two approvals lock different rows, and each loads the run before the other commits |

The violations are disagreements between the code and what its own comments
say; `PROJECT.json` quotes both sides. Where one exists, the passing run checks
the property under the weakest condition that makes it true (`...Alone`: no two
requests overlapped; `abandoned`: no attempt was cut off).

`indexer`: `HeldOnce` (two flushes and an accept never share or drop a message),
`AckedIsDurable` (an ack follows storage or dead-lettering of that document, not
of its batch), `ReadyMeansSearchable` (a replica past its bootstrap writes through
an alias into an index that is managed and declares its fields, whatever starts,
crashes and rollovers interleave) and `EveryDocumentSettles` (a batch that never
fills is flushed). `ReadyMeansSearchable` has three exceptions, and the model
takes each of those paths. Two are only logged by the code: the policy could not
be put (`unpoliced`), so that an index is not managed, and the update of the
mapping was refused since the index was created (`refused`), so that the replica
goes on while its fields are not searchable. The third is a mixed deployment in
which an older replica restarts after a newer one and puts its template back
(`regressed`).

`api`, by service:

- *ingestion*: `OneCopyPerClaim`, `ClaimMeansIngested`, `AnswersAreTrue`:
  copies are bounded by claims, a set key stands for an event that was or is
  being ingested, the quota holds, and every answer is true.
- *cases*: `CaseTimelineIsTrue` (numbers are gapless; every status change on a
  timeline is a listed transition and the last one leads to the status;
  `contained_at`, and `closed_at` of a closed case, are on it) and
  `LinksAreOnTheTimeline` (each link once, however many requests asked for it).
  Where two transitions overlapped on a case (`contended`), its changes need not
  be a chain, `contained_at` need not be the first containment, and a case that
  was opened again may keep its `closed_at`; everywhere else they are, it is,
  and it does not. Severity, priority and title are in no entry (see below).
- *identity*: `LoginsAreSingleAlone` and `AccountsAreCoherentAlone`: at most one
  usable refresh token per login and none after logout; the failure count, the
  role and the MFA secret agree with what was done to the account.
- *intel*: `IntelligenceIsExplained`: a row's classification is one that was
  asserted, and its history says how it came about unless a feed reclassified it
  or updates overlapped (`muddled`); a feed's row says what the last pass that
  was committed brought.
- *mitre*: `CoverageIsTrueAlone`, however often the catalogue was re-imported.
- *rules*: `PathsAgree`: evaluator and compiled query agree on every document,
  unless a condition is of one of the kinds in `Diverges`; and an accepted
  windowed rule raises only if a condition does not suit the type of its field
  (`Mistyped`) or an exception was added that has no translation. Both lists are
  needed: without any one of their disjuncts TLC finds a rule and a document
  that violate the property.
- *hunting*: `HuntsAreFaithful`: an answer is the asker's own events, all that
  the evaluator would match, newest first, with true totals; every exported file
  is on record and within the quota.
- *risk*: `ScoresAreExplained`: the score can be recomputed from its explanation,
  a worse input never lowers it, a clean answer never scores above no
  answer, a detection's factors are what enrichment found, and a chain is scored
  on its rule alone: severity, confidence and techniques, 52 of the 60 points a
  score is normalized over, so never above 87.

`detection`: `DetectionsAreJustified` says what a windowed detection rests on: a
set of events that the rule matches, of one entity and within one window, which
reach the threshold by number or by distinct values; of them it cites the newest,
up to `Evidence`, and so perhaps fewer than the threshold (the instance cites 1
of 2). `VersionsAreHistory` includes that columns and definition agree
unless edits overlapped. `TypeOK` of `AlertWorker`, `Correlation`, `Detection`
and `IndexerWorker` is checked by no run, since it is proved.

### Disagreements without a run

Met while modelling; the models follow the code, and the properties are stated
in the form that holds.

- `set_rule_status` rewrites the definition it loaded, so a status change that
  overlaps an edit restores the old definition under the new version.
  `VersionsAreHistory` and `HistoryExplainsDetections` exclude overlapping edits.
- A rule "must mean the same thing on both paths" (`detection/query.py:9`). It
  does not, and `Diverges` in `Conditions` lists the kinds of condition that are
  known to differ: a negative operator on a field with several values (some
  value differs / none is equal); a number written with leading zeros, compared
  with a keyword field; equality with a network on an address, which a term
  query takes as membership; `cidr` on any other field; `gt`, `gte`, `lt` and
  `lte` on keywords and addresses, which only the query orders; an empty list,
  whose `bool` query finds everything; and fields the mapping does not declare.
  Kinds that are not modelled (below) may differ as well.
- An operator that cannot be compiled faithfully is refused "when the rule is
  written rather than at 3am when it should have fired" (`detection/query.py:17-26`),
  but the loader looks at `matches` only. `contains`, `starts_with` and
  `ends_with` on an address or a number, and a value the field's type does not
  accept, compile to a query that OpenSearch rejects as a whole
  (`hunting/query.py:154-160` says so of wildcards): the rule never fires
  (`Mistyped`). The same filter in a hunt, or a pivot from something that is no
  address, passes `_validate_query` and fails at the cluster; an export has used
  its quota by then.
- `add_exception` validates an exception so that it "cannot be stored in a shape
  the engine will later choke on" (`services/detection_rules.py:259-262`), and
  accepts `matches` on a windowed rule, whose passes then raise.
- "Failures are isolated per feed" (`services/feeds.py:10-11`), but all shared
  feeds share a transaction, and a database error in one undoes them all
  (`FlushFails`).
- On shutdown the indexer must "never exit holding un-indexed events that have
  already been read off the bus" (`workers/indexer_worker.py:157-158`), but
  what it read and has not yet accepted is left behind, and nobody reclaims it.
- Detections are scored "where the enriched event is"
  (`workers/detection_worker.py:191-194`); the detection worker reads
  `events.normalized`, which the indexer enriches only in its own memory.
  `Scoring` shows what is computed when the context is there.
- "A correlation is scored on the worst context its whole chain touched"
  (`workers/correlation_worker.py:97-99`, and "a chain is as serious as the most
  critical thing it touched", `risk/engine.py:150-153`). It is scored on the
  excerpts in its timeline, and `_SUMMARY_FIELDS` (`correlation/engine.py:53-63`)
  has none of `asset`, `risk_context`, `ioc_matches` and `enrichment_partial`:
  asset, user and intelligence are never available, whatever the chain touched.
  `ScoresAreExplained` states what is left.
- "Every mutating operation writes a timeline entry. That is the invariant this
  module is built around" (`services/incidents.py:10-13`). `update_incident`
  writes one only for the assignee, and none when it changes severity, priority
  or another column. `CaseTimelineIsTrue` therefore says nothing of these columns.
- Re-seeing an indicator "never silently raises its classification"
  (`services/threat_intel.py:311-312`), but `:355-356` overwrite it, upwards too,
  and `upsert_from_feed` writes no history row. `IntelligenceIsExplained`
  requires of such a row only that somebody asserted its classification.
- `event_ids_truncated` is there so that nobody reads "3 event ids" as "3 events
  matched" (`detection/windowed.py:310-312`). With a `distinct_field` it compares
  the number of values with the number of ids: twenty events with three values
  cite ten ids, and it is false.
- `total` is "the cluster's full match count" (`services/hunting.py:61-62`);
  OpenSearch counts to 10 000 unless asked otherwise (`TRACKED`).
- Two requests that rotate one refresh token at once both succeed, and two
  overlapping role changes leave two roles; hence `...Alone`.

### Bounds

Every property concerns at most two tasks (or requests) in conflict and a third
party that reads the result, so two tasks and one or two faults reach each
conflict; three decisions (`playbooks`) let a third one arrive in the middle. Batches of 2 of 3 messages leave one unread.
Lists of 3 with up to 4 hits make trimming happen. Clocks are as long as the
longest TTL plus one. The dedup window and display numbers need at least two
alerts of one key: three firings that count,
next to one that does not decode and one that is ignored. The constraint
`FewAtOnce` trades firings for triage: five firings without an analyst, four
with one request, two with up to three requests and no fault.

`Detection` would be too large as one product, so a constant `Scenario` lists
bounds for several interplays, and each behaviour picks one in `Init`: edits
that overlap each other; two consumers and a fault; two consumers and an edit;
two windowed passes and a fault; a consumer and a pass that share a cache. With
`Refresh = 1` and `LoadTime = 1` the cache goes stale twice before the clock
ends. Where a scenario has no pass that could search, the rule that counts
distinct values is left out (`MeasuresWhereSearched`): it would behave like the
other threshold rule. `LoadTime` is an assumption: loading the rules takes no longer.
`IndexerWorker` has scenarios too: one replica with four messages and two
faults; two replicas with three messages and a fault; and two replicas that
bootstrap in two versions through two faults and two rollovers.

`Api` drives one service per behaviour: the services keep separate tables and
take no lock on each other's, so an interleaving of two is one of each. Two
overlapping requests and three to five in all make every conflict happen (TLC takes them
as symmetric, except those on indicators, whose states it cannot order), with
one request before or after it: four for cases (open, two that overlap, one
that reads the result; five were explored once with the same result), three for
identity (next to accounts that exist from the start) and for indicators, five
for coverage (import, edit, report, import, report). Trees, documents, queries
and subjects in `MCApi` are chosen by case: every operator, absent, null and
multi-valued fields, both letter cases, literal wildcards, values that do not suit
the field, two tenants with the same values, partial enrichment, and every factor
present and absent. Conditions come on a keyword, a number, an address and a field
that is not declared.

Runs switch deadlock checking off: the bounds make every behaviour end.

### Fairness

`ParserWorker`, `AlertWorker` and `IndexerWorker` have liveness properties. All
assume weak fairness of the steps of a live task (asyncio runs every ready
task); for the parser and the indexer also that a dead replica is restarted
(`restart: unless-stopped` in `docker-compose.yml`), that a stopping one is
killed after its grace period, and that time passes (`Expire`,
`FlushOnInterval`). Crashes, stalls, failed requests, signals and new messages
are never required. `alert_lost` fails under this fairness, not for the lack of
it: after a crash no action that could deliver the message is ever enabled.

## Proofs

TLAPS proves the following for every value of the constants that satisfies the
named assumptions. Most only give constants their types. The others, and what
justifies them:

- `BusConstants`: batch sizes are positive. `WorkerConstants`, `IndexConstants`,
  `IngestionConstants`: finitely many replicas, or calls at once.
- `PlaybookConstants`: destructive steps are steps of the playbook.
- `DetectionConstants`: a threshold is at least 1, and so is the number of events
  a detection cites; there are finitely many events, with finitely many values;
  the refresh interval is not zero, and a load takes at most `LoadTime`.
- `CorrelationConstants`: a rule has a window, and at least one required stage
  that wants at least one hit (`correlation/schema.py` refuses others).
- `IdentityConstants`: the limit of failed logins is positive; accounts that
  exist from the start have a role.
- `MitreConstants`, `CaseConstants`: finitely many techniques, and objects that
  can be linked; a bundle is a list.
- `IntelConstants`: `Nothing`, a classification left out, is none of the words a
  feed can send.
- `RiskConstants`: what the schemas let into an event and a rule: a rule has a
  known severity and a confidence, an indicator's confidence is a number, and
  the fields only enrichment writes are not in the event yet.
- `ExportConstants`: a tenant's id is not empty; finitely many exports at once.

Every property is a consequence of an inductive invariant that relates the
tables to what each task or request in flight has read and still holds.

`ParserWorkerProofs`: `TypeCorrect`, `AckedOnlyWithOutcomeHolds`,
`OneOutcomePerDeliveryHolds` and
`RefinesDeliveryContract` (the safety half of the contract). The properties are
not inductive alone: acking is safe because a task in stage `ack` has already
emitted the head of its batch, and outcomes are bounded by deliveries because a
task that has yet to emit a message holds a delivery nobody has used. The
inductive invariant (`DeliveryInv`, and a second one for the bound on
deliveries) says that of every task, and that batches contain only messages
that were read.

`PlaybooksProofs`: in four layers, each inductive relative to the ones before.

- `ControlInv` gives `TypeCorrect` and `DualControlHolds`: approvals and
  requests point to existing rows, every approval was requested in the name of
  the run's trigger and decided by somebody else, and every grant goes back to
  such an approval.
- `OrderInv` gives `StepsInOrderHolds`: a request's loaded step is never ahead
  of the steps executed, however stale it is.
- `WaitInv` gives `NoStrandedRunHolds`: a waiting run has a pending approval
  that every request about to commit a decision on it has loaded the run as
  waiting for, so the commit writes another status or leaves a new approval.
- `AloneInv` gives `ResumesNotReplaysAloneHolds` and
  `DecisionsAreFinalAloneHolds`: while decisions do not overlap, what a request
  loaded is still so, and each step below the current one was executed once.

Commit steps are first reduced to one shape (`Effect`, `StartEffect`), so each
layer argues about four kinds of step instead of nine actions.

`ServiceProofs`, of `Ingestion`: `IngestInv` gives `OneCopyPerClaimHolds`,
`ClaimMeansIngestedHolds` and `AnswersAreTrueHolds`, of `IngestSpec`. Copies
alone are not inductive: what is bounded by the claims is copies plus the calls
that are about to make one (`CopiesAreClaimed`), and the same call cannot be
counted twice because the key admits one holder until it expires. The quota
counter never lags behind the calls it let through.

`IndexerWorkerProofs`: two invariants. `IndexInv` (the bootstrap) gives
`ReadyMeansSearchableHolds`: each call a replica has behind it left something
that no other replica's call and no rollover takes away: the alias, a template
that covers its fields, an index, the mapping. The paths the code only logs are
steps of the model, and the invariant says exactly what each of them costs: an
index without a policy only if some put of a policy failed, an index that lacks
a ready replica's fields only if their update was refused. `DeliveryInv` gives
`HeldOnceHolds` and `AckedIsDurableHolds`: what a replica holds is unacked,
nobody else holds it, and a flush holds what it took from the pending list in a
form that agrees with its phase (`Coherent`). All steps are first reduced to one
shape: a replica takes unread messages, passes some on among its places, and
acks some that are durable. From the same invariant follows
`IndexerRefinesDeliveryContract`: what a replica writes or dead-letters it holds,
and what it holds was published, so every bulk write, dead letter and ack is a
step of the contract and everything else, the faults included, is none. (That
every document settles is not part of it: the stage never reclaims what a dead
replica left behind.)

`AlertWorkerProofs`: one invariant, `AlertInv`, gives all six theorems, since
they need each other: the counter row's lock makes the number a transaction
read still the newest when it commits (`CounterLocked`), the row lock the count
it read still right (`FoldsLocked`), and only because no two tasks have the
same firing (`BatchesApart`) is one counted once (`HandledOnce`). The sixth is
`AlertsRefineDeliveryContract`, the contract of the parser and the indexer with
`Exempt` messages: a firing below the threshold is acked and leaves no trace.
The outcome of a firing is the alert that counts it, and if the firing created
the alert, its announcement as well: `CreateAlert` maps to no step and
`PublishAlert` to the outcome. (TLC found the same on the `alerts` instance. As
for the indexer, that every firing settles is not part of it, and false:
`alert_lost`.)

`DetectionProofs`: layers over `Base` (types, and what a task may hold in which
phase).

- `HistoryInv`: what overlapping edits have loaded is no newer than the row, and
  alone it is the row; gives `VersionsAreHistoryHolds`.
- `ExplainedInv`, `JustifiedInv`, `SpacedInv` concern claims, which exist from
  the moment the suppression key is set, in a task's hands, and become
  detections when published. A published detection alone would not do: two
  tasks may each hold one. `SpacedInv` adds that the key outlives the window.
- `RecentInv` gives `RulesAreRecentHolds`: a copy of the rules, and the age a
  task has measured, are bounded at each place they pass through; one load per
  replica at a time keeps an older read from replacing a newer one.
- `DueInv` gives `DueIsDetectedHolds`: without faults every key in Redis belongs
  to a claim.

`CorrelationProofs`: `CompleteIffChain` is about the algorithm: the greedy
search of `_evaluate` (each stage takes the earliest hits after the previous
stage) finds a chain if there is one. It is proved by induction on the stages,
as the statement that the set of stage numbers for which the search is not
behind an arbitrary chain has no least missing element (`LeastNatural`), which
needs no induction principle with an operator parameter. `ChainsInv`,
`SpacedInv` and `ReportedInv` then give the theorems about tasks: a task that is
to publish has found a chain, claims are apart, and while nothing failed a chain
in the list is claimed, or some task that has seen the whole list has still to
evaluate it. That task is the last one to have appended: it is why two racing
tasks do not both miss a chain.

`ServiceProofs`, of `IdentitySpec` (the identity service as `Api` drives it, with
any number of users, requests and tokens): `AuthBase` says that requests in
flight are well formed and that any two on the same object are in `raced`.
`SessionInv` gives `LoginsAreSingleAloneHolds`; the statement about live tokens
is not inductive, since a request may have read a token before it expired and
a logout may present an expired one, so the invariant counts every token that
was not revoked. `AccountInv` gives `AccountsAreCoherentAloneHolds`: as long as
nothing raced with a request, the columns it is about to write are still what
it read (`StillSo`), and what it writes are its own columns (`WritesOwn`).

`ServiceProofs`, of `MitreSpec`: `MitreInv` gives `CoverageIsTrueAloneHolds`. The
report is true because the mapping it reads is: a synchronization that nothing
disturbed still adds and removes exactly what separates the mapping from what
the rules claim (`NothingSince`), and whatever objects a bundle repeats, moves or
withdraws, the links after an import are those of the last bundle that mentioned
the technique (`LinksArePublished`, `ImportLinks`).

`ServiceProofs`, of `IntelSpec` (any number of feeds and of updates in flight):
`IntelInv` gives `IntelligenceIsExplainedHolds`. The property speaks of committed
rows only, so the invariant adds what is about to be committed: the rows in the
feed worker's open transaction still follow from the committed ones, which it
keeps locked (`PassStands`), an update in flight has read what is there unless
its row is in `muddled` (`UpdatesStand`), and no shared feed has been synced in
a pass whose shared transaction is still open (`FeedsStand`), which is why an
indicator its feed no longer lists is older than that feed's last sync.

`CaseProofs`, of `CasesSpec`: `CaseInv` gives `CaseTimelineIsTrueHolds` and
`LinksAreOnTheTimelineHolds`. A timeline is read by the positions of its entries:
entries of other kinds leave what it tells of the status alone (`ToldQuietly`),
and a status change tells of the row it is committed with if the request had
read the row it replaces (`ToldChange`). The properties are not inductive
without the requests in flight (`CaseStands`): a transition's row is current
unless the case is in `contended`, a completed task that was read is still
completed, the number a request took is the next one as long as it holds the
counter, and nothing is recorded of a case that is not open. Of a contended case
`ToldAnyway` keeps what survives the overlap: every change was tested against
TRANSITIONS from the status its request had read, the last one wrote the row,
and the milestones point to entries that are there.

Only model-checked:

- liveness (`KeepsDeliveryContract` includes it, `EveryFiringSettles`,
  `EveryDocumentSettles`): it needs reasoning about fairness and ENABLED;
- `PathsAgree`, and of `HuntsAreFaithful` that the answers are the tenant's and
  complete: the operators of `Conditions` are recursive over trees and texts,
  and so would their induction be.

## Not modelled

- Parsers and normalization: pure text conversion without state.
- Collectors and the frontend: I/O in front of and behind what is modelled.
- Assets, collector keys, evidence lookups: single-row writes and reads.
- Creating and installing playbooks, and what an action does outside.
- Row-level security, cryptography, password hashing and codes: external or
  abstracted to right and wrong. The permission table is modelled where
  `Identity` reaches it. Except in `Hunting`, every model is of one tenant.
- Free text in `command_line` (an analyzed field), CSV layout, regular
  expressions beyond a literal. Of conditions also: boolean and text fields,
  case folding beyond ASCII, other spellings of a number or an address, texts
  longer than a keyword field indexes, a list as the value of an operator that
  takes one value, fields that are objects.
- The approximation of the distinct count (`CARDINALITY_PRECISION`, exact up to
  40 000 values).
- The in-memory bus and stores are test doubles.

## Plan

Done: every stage of the pipeline, rule management, and the stateful services
behind the API; proofs for all pipeline stages (the three that consume to
produce one outcome per message as refinements of `DeliveryContract`),
ingestion, playbooks, identity, threat intelligence, the ATT&CK catalogue,
incidents, risk scoring and the ration of exports.

Next: what the detection and correlation stages promise, as a contract in which
whether a message calls for an outcome depends on the rules of the moment.
