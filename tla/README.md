# Formal models of Signal Archive

Signal Archive (packages `@techpulse/*`) collects developer-tech sources,
normalizes, deduplicates, chunks and embeds them into PostgreSQL with pgvector,
and answers questions from that archive. PostgreSQL is authoritative: leases,
outbox, checkpoints and the money ledger are rows, changed in short
transactions. Redis with BullMQ only carries delivery ids. Workers may die, be
slow or run twice, and provider calls cost money: the models here are about
what survives that.

Paths are relative to the repository (`src/` in `PROJECT.json`).

## 1. Inventory

### 1.1 Components with a protocol of their own

| Component | Source | State | Operations | What makes it correct |
| --- | --- | --- | --- | --- |
| Partition collection | `packages/database/src/collection-state.ts` | targets and revisions, partitions (state, page, cursor, lease, epoch, run), runs, page attempts, checkpoints, raw items, memberships, delivery outbox | `registerTarget`, `setTargetEnabled`, `planPartition`, `claimPage`, `renewPage`, `commitPage`, `failPage`, `resumePartition`, `claimDeliveries`, `markSent`, `completeDelivery`, `attachRevision` | every page fetched from the cursor where the last one ended, committed once, never forgotten; one holder; verdicts final |
| Page execution | `apps/worker/src/ingestion.ts` | the claim, the abort signal and `renewalFailed` of one execution | `executePartitionPage` with its renewal timer | a stale execution changes nothing; every execution ends |
| Dispatch and transport | `apps/worker/src/partition-runtime.ts`, `index.ts` | claimed batches, BullMQ jobs | `dispatchBatch`, `enqueue`, `handle`, the planner tick, shutdown | a lost or ignored job comes back from the outbox |
| Budget ledger | `packages/database/src/provider-budget.ts`, `packages/domain/src/provider-budget.ts` | scope (approval, block, limits), reservations | `configureScope`, `authorize`, `reserve`, `settle`, `holdUnknown`, `releaseUnsent` | the caps hold over concurrent callers, midnight, crashes and late answers; a verdict is final |
| Paid embedding work | `packages/database/src/embedding-work.ts`, `packages/domain/src/embedding-service.ts` | work items (state, lease, epoch, reservation), vectors | `claimOrReadCompleted`, `beginCall`, `completeWork`, `markOutcomeUnknown`, `markFailed`, `processChunk` | at most one paid call per chunk and profile; work and money agree |
| Delivery pipeline | `apps/worker/src/normalization.ts`, `deduplication.ts`, `embedding.ts`, `packages/domain/src/normalization.ts`, `packages/database/src/repositories.ts`, `coverage.ts` | deliveries of the later stages, documents, revisions, chunks | normalize, save, cut into chunks, publish, attach a revision, embed, complete a delivery | a completed delivery left what it promises; every item with a text of its own becomes searchable; stages only go forward |
| Operations routes | `apps/api/src/routes/ops.ts`, `packages/database/src/discovery-state.ts`, `cohort-state.ts`, `packages/domain/src/replay.ts` | idempotency records, operator audit, candidates, cohorts, runs | register, enable, review, cohort, run, replay, resume, reconcile | an acknowledged command has happened; a repeated one is explained; a run without a job failed or its operator was told of no success |
| Answer service | `packages/rag/src/answer-service.ts`, `context-assembly.ts`, `evidence-requirements.ts`, `answer-validation.ts`, `query-parser.ts` | hits, evidence, drafts of one question | parse, search, fuse, acquire, assemble, draft, validate, respond | an answer cites evidence that was shown, is of its range and suffices |
| Bounded acquisition | `packages/rag/src/acquisition.ts` | counters, reservation and stages of one round | resolve, search, fetch, persist, settle | what a result reports stays within its allowance; nothing is requested that the guard forbids |
| Requests and their limits | `apps/api/src/routes/answers.ts`, `abuse-controls.ts`, `app.ts` | rate windows, daily budget, slots, request id | admit, answer, refuse | no slot is lost, no limit passed |
| Release evaluation | `apps/api/src/release-budget.ts`, `release-evaluation*.ts` | append-only journal with its lock file, reports, spend | preflight, reserve, call, settle, resume, report, review | no call without a record before it; a gate rests on one corpus |
| Source collectors | `packages/collectors/src` | the place in a listing, browser sessions, the queue of a polite connection, the cursor of a feed | `collectPage`, `collect`, `executeRequest` | the window is collected; nothing stays open; refusals are no end |
| Deduplication | `apps/worker/src/deduplication.ts`, `packages/domain/src/deduplication.ts` | clusters, assignments, memberships, review candidates | save, read, decide, write | a group holds exact duplicates, and all of them |
| Texts and topics | `packages/domain/src/normalization.ts`, `sanitizer.ts`, `chunking.ts`, `topic-classification.ts` (pure) | none | normalize, sanitize, cut, classify | the same payload makes the same revision; no word is lost |
| Ingestion of a run | `packages/domain/src/ingestion.ts` | the run row, raw items, stage jobs | `executeIngestion` | an item is handed on once, and counted |
| Tombstones, retention, restore | `packages/domain/src/tombstone.ts`, `retention.ts`, `backup-restore.ts`, `packages/database/src/ops.ts` | status of revisions, switch of sources, expired rows, audit trail | withdraw, reindex, purge, restore drill | withdrawn content comes back only by a reindex; a purge is confirmed and aged, leaves no reference behind and is audited where there is an audit |
| Source concurrency | `apps/worker/src/concurrency.ts` | leased slots in Redis, a queue in memory (used by tests only at this commit) | acquire, renew, release | no more holders than slots |
| Worker process | `apps/worker/src/index.ts`, `partition-runtime.ts`, `scheduler.ts`, `health.ts` | loops, queues, status, stop order, planned slices | start, tick, handle, stop, plan | nothing is in hand when the database closes; slices tile their window |
| Coverage reports | `packages/database/src/coverage.ts`, `packages/domain/src/coverage.ts` | none of their own: one snapshot, or the sums read so far | report a period, compare two periods member by member | no reason means nothing is missing; a number stands on what was covered |
| Web application | `apps/web/src` | panels, flags, pages of a list | ask, coverage, search, load more, check | what is shown belongs together |

### 1.2 Components without such a protocol

Metric reports (read-only SQL), contracts, observability, the
deployment script and the tooling are transformations, adapters or layout.
`PROJECT.json` lists every component with its status.

### 1.3 How the components interact

```
planner --planPartition--> outbox <--claimDeliveries-- dispatcher --add--> Redis
operator --resume, enable--> partition                                       |
                                                                   handle, executor
 collection:    claimPage -> collectPage (renewals meanwhile) -> commitPage | failPage
 normalization: delivery of an item -> revision, chunks -> embedding delivery
 embedding:     claimOrReadCompleted -> reserve -> beginCall -> provider
                    -> settle -> completeWork, or unknown / failed / release
 chat, query:   authorize -> reserve -> provider -> settle | holdUnknown
 operator:      reconcile -> settle | releaseUnsent
```

Two steps communicate through rows only. Between two awaits of one
execution, every other execution, the planner, the operator and the clock may
act.

### 1.4 What is hard

* An executor outlives its lease and commits, fails or renews late. Its clock
  is read before the transaction waits for row locks.
* An acknowledgement is lost: the transaction committed, the caller thinks it
  failed and runs its error path.
* Redis loses a job, BullMQ ignores one whose id is still active, or gives a
  stalled one to a second executor.
* A process dies between any two transactions, in particular around a paid call.
* The operator resumes, reconciles, disables or registers a new revision
  meanwhile.
* Limits are shared by lanes and days; a charge may come after midnight or
  exceed its reservation.

* Handlers of one process interleave at every await: operator commands, answer
  requests, browser panels, evaluation runs.
* Providers change their listings between two pages, refuse, redirect, and answer
  that nothing has changed.

`PROJECT.json` ("hazards") has each of these at its line, with the properties
that would catch it.

## 2. Modules

| Module | Role |
| --- | --- |
| `CollectionState` | partition collection, page execution, dispatch and transport, composed |
| `PageLog` | the abstract specification that a partition implements |
| `CollectionStateProofs` | type correctness, `NoPageLost`, the fencing theorems, the history of a partition, staging and the refinement of `PageLog` |
| `ProviderBudget` | the ledger, its scope and the chat and query callers |
| `EmbeddingWork` | paid embedding, EXTENDS `ProviderBudget` and composes it |
| `EmbeddingWorkProofs` | of the ledger: types, the caps, final verdicts and the block after an overrun; of the work: one paid call per chunk, work against ledger, final outcomes, the caps once more |
| `DocumentPipeline` | normalization and embedding deliveries, tombstones and source switches, composed |
| `RevisionLife` | the abstract specification that every revision implements |
| `DocumentPipelineProofs` | types, `DoneMeansIndexed`, `TombstoneHolds` and the refinement of `RevisionLife` |
| `Collectors` | composes the next three |
| `SourcePages` | the pages of every collector from first to last, with their commit |
| `BrowserSession` | one call of a collector that drives a browser |
| `PoliteFetch` | the queue, cache and spacing of the arXiv connection |
| `ArticleFeed` | the article collector: feed, validator, cursor, limit; the text of a page |
| `AnswerTurn` | one question to the answer service |
| `BoundedAcquisition` | one round of acquisition |
| `ApiRequests` | answer requests at the API and their limits |
| `WebClient` | the panels of the page in the browser |
| `ReleaseEvaluation` | the processes, journal and reports of a release evaluation |
| `OperatorCommands` | commands of operators, the idempotency store, row locks |
| `DuplicateGroups` | saving texts and grouping duplicates |
| `ServicesProofs` | the browser page, the limits of the API, acquisition, operator commands and answers |
| `CollectorProofs` | the polite connection, the browser sessions, the pages of a partition, and the types of the three |
| `ArchiveProofs` | the slots of a source, the worker process and its planner, the release evaluation, what comes into the archive and goes |
| `CorpusProofs` | groups of duplicates, texts and chunks, markup, topics, article pages, coverage reports |
| `DataLemmas` | lemmas about sums over finite sets, folds over sequences, joined sequences, and queues that hold each member once |
| `CorpusText`, `TopicRules` | normalizers, markup, chunks; topics of texts and questions (pure functions) |
| `RawIngestion` | `executeIngestion` with overlapping and repeated calls |
| `DataCustody` | retention and the restore drill |
| `ArchiveCustody` | composes `RawIngestion`, `ArticleFeed` and `DataCustody` and says what they promise together |
| `CoverageReports` | the coverage report of a period and the comparison of two |
| `ArchiveCorpus` | composes `DuplicateGroups`, `CorpusText`, `TopicRules`, `ArticleFeed` and `CoverageReports` and says what they promise together |
| `SourceSlots` | the two concurrency limiters |
| `WorkerRuntime` | the life of a worker process and its planner |
| `MCCollectionState`, `MCEmbeddingWork`, `MCDocumentPipeline`, `MCSourcePages` | instances for TLC |
| `MCServices`, `MCArchive` | the services side by side, and with them what keeps the archive |
| `MCLiveness` | collection, embedding work and the pipeline side by side, with their fairness |

Some definitions of these modules are marked "Faulty variant". They are never
used by the specification: each is a plausible mistake in the code which the
mutation runs listed in `PROJECT.json` put in the place of the real definition,
to show that the property named there notices.

### 2.1 CollectionState

State. `pstate, page, cursor, epoch, lease, due` are the columns of
`collection_partitions`; `runs[p]` and `attempts[p]` are sequences because every
claim adds one epoch, one run and one attempt; `checkpoints`, `raw`, `acquired`
(memberships), `normalize` (normalization deliveries) and `outbox` with its
subsets `done, future, leased` are rows; `batch` and `queue` are the dispatcher's
memory and Redis; `worker[w]` is what one `executePartitionPage` holds between
two awaits, with `pc` naming the await.

| Action | Code |
| --- | --- |
| `RegisterTarget`, `SetTargetEnabled`, `PlanPartition`, `ResumePartition` | the repository methods of those names |
| `ClaimDeliveries`, `Enqueue`, `EnqueueFails` | `claimDeliveries` from `dispatchBatch`; `queue.add` with the delivery id as job id |
| `TakeJob` | `handle`: load the delivery, skip a completed one |
| `ClaimPage`, `SkipPage` | `claimPage`, or its `null` and its errors |
| `RenewPage`, `RenewFails` | the interval timer and `renewalFailed` |
| `CollectPage`, `CollectThrows` | any result or error of the source's collector |
| `CommitPage`, `CommitFencedOut`, `CommitBlocked`, `CommitThrows` | `commitPage` and each of its error paths; a lost acknowledgement is the second disjunct of `CommitPage` |
| `FailPage`, `FailPageThrows` | `failPage` and its errors, which the caller ignores |
| `LoseJob`, `Crash` | Redis loses a job; a process dies and the job may be stalled back |
| `NotBeforePasses`, `DeliveryLeaseExpires`, `DuePasses`, `LeaseExpires` | time |

Abstractions.

* Time is what the code compares it with. A lease is `none`, `live` or
  `expired`. The code computes `now` before the transaction; the transaction may
  then wait for locks. So an expired lease may still pass the fence
  (`FencePasses`) and may as well be rejected (`FenceRejects`).
* `claimDeliveries` joins the target's current revision, `claimPage`,
  `renewPage` and `commitPage` join the partition's own. Both are kept
  (`Deliverable`, `CanCollect`), with policy and capability of a revision as the
  constant set `Approved`.
* A cursor and an item are model values. An item stands for an external id with
  a payload hash. The normalization stage is one flag per item, `completed_at` of
  such deliveries is in `DocumentPipeline`.
* Rows of raw items that exist from earlier runs without a delivery are initial
  states (`raw \in SUBSET Items`): such rows are what the insert with
  `ON CONFLICT DO NOTHING` must not skip.
* The two dispatch lanes and their limits choose among deliverable rows; any
  subset covers every choice. One dispatcher is modelled; a second one would be
  kept apart by `FOR UPDATE SKIP LOCKED`, which makes claims disjoint.
* `retryAt` comes with disposition `deferred` only, as every collector of the
  repository returns it.
* `sent_at` is left out of the state: `markSent` is called with lease epoch 0
  (`apps/worker/src/index.ts:331`), which no claimed delivery has, so that it
  changes no row.

### 2.2 PageLog

An append-only log of pages, each fetched from where the log ended, closed once,
given up and taken up again only while it is open or failed. The refinement
mapping is at the end of `CollectionState`: the log is the checkpoints in page
order, "fetched" is the cursor that the executor had in memory when it called
the collector.

### 2.3 ProviderBudget and EmbeddingWork

`ledger[a]` is the reservation row of attempt `a`, `approved, blocked` the
scope, `today` the UTC day. `caller[c]` is a chat or query embedding call between
two awaits: `StartCall` (`authorize`), `ReserveCall`, `CallAnswered` or
`CallFailed`, `SettleCall` or `HoldCall`; `DropCall` is a crash at any of these,
with or without the reservation having been made. `Reconcile` and
`ReleaseUnsent` are the operator. Units stand for micro-dollars and tokens: the
code sums and compares both alike, as two conjuncts of the same form. The limits
are constants, since nothing but tooling writes them.

A chat call is settled with the usage that the provider reports, unchecked; the
embedding callers reject a usage above the reserved maximum first. That is
`Unchecked`.

`EmbeddingWork` adds the work items, and one `worker[w]` per running
`processChunk`, whose `pc` is the await it is at: `claimed`, `reserved`,
`sending`, `waiting`, `answered`, `settled`, and on the error paths `refused`,
`unclear`, `marking`, `holding`, `releasing`. `GiveUpCall` is the branch of
`claimOrReadCompleted` that finds an expired call. `BeginCall` and
`CompleteWork` have a second outcome in which the commit is done but its
acknowledgement lost. `sent` and `refused` are history variables for the
properties. `processChunk` reads its clock once, so its own lease checks compare
the lease with the time at which it was taken and always pass: only another
claim sees a lease expire.

### 2.4 DocumentPipeline and RevisionLife

State. `url` is `documents.canonical_url`; `status, raw, ready` are columns of
`document_revisions`, which are identified by their natural key, document and
hash; `chunked` and `vectors` say whether all chunks and all their embeddings are
stored; `attached` is the revision of the item's membership; `normalized` and
`embedding` are the two deliveries; `enabled` is the switch of the source.
`worker[w]` is one execution of a handler, `pc` the transaction it does next.
`operator[o]` is one request. `withdrawn` is a history variable: the
withdrawals that nothing has taken back.

| Action | Code |
| --- | --- |
| `StartNormalization`, `StartEmbedding` | `handle`: load the delivery, skip a completed one |
| `RepeatNormalization`, `RepeatEmbedding` | a stalled job is given to a second executor |
| `Normalize` | look the source up among the enabled ones, normalize |
| `Locate`, `Save` | `saveNormalizedDocument`, cut at its unlocked lookup |
| `Enrich` | deduplication and enrichment, of which the chunks matter |
| `Publish` | `markLexicalReady` |
| `Attach`, `Complete` | `attachRevision`, `completeDelivery` of a normalization |
| `Embed`, `Finish` | the chunks of an embedding delivery with `checkWorkRights`, then `completeDelivery` |
| `Fail` | any call throws or the process dies |
| `BeginWithdraw`, `CommitWithdraw`, `WithdrawFails` | `createTombstone` with `applyTombstone` |
| `Reindex` | `reindex` with `restoreSearchable` |
| `StartSwitch`, `Switch` | the enable, disable and patch routes up to `updateEnabled`, and `updateEnabled` |

Abstractions.

* An item yields at most one document; its text is a model value, equal texts
  are those with equal `normalized_hash`. `Own` is what the normalizer of its
  source makes of it, `Fallback` what `github_releases` makes of it, which
  is the key the handler starts with. A metric has no text; a text in `Blank` has
  no chunks. A URL is never null: only repositories found by a search can lack one.
* A transaction is one action where its reads are protected by its row locks or
  where any other order of it and a concurrent one comes to the same. Two
  are cut: `saveNormalizedDocument` after its unlocked lookup, and a withdrawal
  after its UPDATE, whose snapshot misses revisions that are inserted later and
  which holds the rows it has until it commits. `Publish` and `Embed` wait for
  these rows, `Embed` also for the row of the source (`FOR SHARE`).
* A violated unique key of a concurrent insert throws, which is `Fail`, and the
  delivery comes again.
* An item has one membership and its target stays enabled and approved. Topics,
  clusters, metrics and pipeline events are not in the state.
* The chunks of a revision get their vectors in one step; `EmbeddingWork` is about
  the single call. A chunk without an outcome is a `Fail` here.
* `start()` of the API at this commit passes no tombstone service to the routes;
  only tests and callers of `createApp` do. Without it the routes are
  `StartSwitch` and `Switch`, with it a source's withdrawal or reindex and
  then `Switch`. The scopes of a document and of a revision are the calls of the runbook
  (`docs/DATABASE.md`, 8.2). The scope of a raw item changes nothing in the code.

`RevisionLife` knows of a revision only its stage (absent, saved, chunked,
ready, queued, embedded) and whether it is withdrawn. A stage follows the one
before, "ready" and "embedded" are reached only while not withdrawn, and only
what was ready is restored. The mapping (`StageOf`) reads the stage off the rows.

### 2.5 Collectors

`SourcePages` is what `CollectionState` leaves open. The collector is the code
and the provider is open: between two requests it lists, withdraws, refuses or
fails. `listing` is what the provider lists now, `place` the cursor of the
partition, `progress` its state, `collected` the stored items. `CollectPage` is
one delivery: the request, the page that the collector of `source` builds
(`ReleasesPage`, `SearchPage`, `ArxivPage`, ... one operator per collector) and
its commit. `Refuse`, `RateLimited`, `RequestFails` are the refusals; `Publish`
and `Withdraw` move the listing. `etag` is the validator that a release page
leaves in the target (a validator is the page it stands for), and the request for
the next page carries it: `Unmodified` is the 304, which ends the partition.
`unmodified` is a history variable that says so.

`BrowserSession` has one step per await of a Reddit or Chrome origin trials
call (`OpenPage`, `NavigateReddit`, `ProbeTrials`, ..., `CloseAll`); any of them
may throw and the site may answer with a login or send the browser elsewhere.
`PoliteFetch` has the callers of one `ArxivCollector`: `Ask`, `Enter`, `Start`,
`Answered`, `Fails`, and `Advance` for time, kept as ages. Its fetch is the plain
one (`arxiv.ts:266`), which follows redirects by itself, so that a request is one
step here.

`ArticleFeed`: `AskForArticles` begins `collect` with the caller's cursor or
`collectPage` with none; `Discover` is the conditional request with its 304;
`ReadArticle`, `RefuseArticle`, `StoreArticles`, `ArticlesAreLost`. Beside it is
a pure part, one page token by token: `ParseXmlOrHtml` and `CleanBodyText`.

### 2.6 Services

| Module | State | Actions |
| --- | --- | --- |
| `AnswerTurn` | `hits`, `evidence`, `drafts`, `cited`, `outcome`, the await `at` | `Asked`, `SearchFts`, `LexicalFallback`, `EmbedAndFuse`, `ReSearched`, `Acquire`, `Assemble`, `Draft`, `Respond`; the index, the acquisition and the model answer anything or fail |
| `BoundedAcquisition` | the ports the service has, counters, reservation, stages stored and counted per candidate | `ReserveBudget`, `Resolve`, `SearchTarget`, `Choose`, `FetchHop`, `FetchThrows`, `Persist`, `SettleBudget`, `Abort` at any await |
| `ApiRequests` | windows per client, budget, slots, the shared request id, time | `Arrive`, `Admit`, `Handle`, `Responds` |
| `WebClient` | panels and flags of one tab, requests under way | `Submit`, `Answered`, `Covered`, `SearchList`, `LoadMore`, `Retry`, `CheckHealth`, `Arrives` in any order, `Navigate` |
| `ReleaseEvaluation` | what the lines of the journal come to, lock file, reports, one record per process | `Begin`, `Preflight`, `Open`, `Reserve`, `CallOut`, `SettleRunCall`, `Postflight`, `Report`, `Review`, `Dies` with a torn or missing line, `CorpusMoves` |
| `OperatorCommands` | idempotency store, one record per command, row locks, target, candidate, cohort, runs, and whether the process has rows and a queue for them | `CommandArrives` (look into the store), one action per transaction of each command (`CreateRun`, `DispatchRun`, `MarkRunFailed`, ...), `RegisterRefused`, `HandlerFails`, `Finish` (make the entry), `BreakDeadlock` (PostgreSQL aborts one), `Restart` |
| `DuplicateGroups` | documents, revisions, clusters, memberships, one record per job | `SaveNormalizedDocument`, `ReadJob`, `Deduplicate`, `CreateCluster`, `AssignRepresentative`, `RecordRepresentative`, `AssignTarget`, `RecordTarget`, `JobFails` |
| `RawIngestion` | which publishers the service has, source switch, run row, stored rows, stage jobs, one record per call | one action per await of `executeIngestion`, `SaveThrows`, `FailRun`, `IngestionRejects` (death or lost acknowledgement), `SwitchFeed` |
| `DataCustody` | the optional ports, kept rows, events and queries, references that hold a row and those that let it go, audit trail; one record per purge, one drill | `AskRetention`, `CountRows`, `CountLogs`, `PurgeExpired`, `AuditRetention`; `AskDrill`, `LookAtShelf`, `MigrateShelf`, `RestoreTables`, `VerifyShelf`, `AuditDrill`; errors of each |
| `CoverageReports` | partitions with their memberships, the state of each item's revision, observations, enabled targets; one comparison | `CompareWindows`, `ReadBaselineSlices`, `ReadCurrentSlices`, `SumBaseline`, `SumCurrent`, `EvaluateComparison`; meanwhile `PlanReportedSlice`, `CommitSlicePage`, `PublishItem`, `EmbedItem`, `UpsertObservation`, `TombstoneItem`, `DisableTarget` |
| `SourceSlots` | the Redis hash, one step per call; counter and queue in memory | `AcquireSlot`, `Renew`, `Release`, their failures, `ProcessDies`, `Tick`; `LocalRun`, `LocalEnds` |
| `WorkerRuntime` | deliveries, queues, loop, status, two stops, planner | `TickBegins`, `Claim`, `Enqueue`, `Take`, `Handled`, `StopServer` ... `CloseDatabase`, `Crash`; `PlanBegins`, `PlanSlice`, `PlanWindow`, `PlanFails` |

`CorpusText` and `TopicRules` are pure: a state is one input, built piece by
piece, and the invariants compare the functions of the code with a reference
definition. The reference of the chunker counts fences instead of following
them, that of the sanitizer pairs tags instead of keeping a stack.

In `CoverageReports` the report is an operator of the state, since
`getCoverage` is one statement and `DiagnoseCoverage` works on its counts; the
invariant therefore asks for the report in every state. The comparison has one
step per statement; nothing in the application asks for one at this commit.
What goes on meanwhile is the collection as these two read it; its protocol is
in `CollectionState` and `DocumentPipeline`.

Services are built with optional ports, and what a missing one leaves out is part
of the model: `wired` (budget and the five writes of an acquisition), `runPorts`
(rows and queue of runs), `custodyPorts` (purge and audits), `Publishers` (events and
jobs of an ingestion). The three variables are chosen at the start and never change.
The fetch of `BoundedAcquisition` is the service's own
(`executeHardenedHttpFetch`); a `candidateFetcher` that is passed in reports its
own counts, of which nothing can be said.

In `DataCustody` the references to a raw item are of two kinds. Events,
memberships of acquisitions and of clusters, and deliveries restrict
(`schema/index.ts:125`, `:288`, `:681`, `:706`): `HeldRow`. Revisions and
observations are set to null (`:231`, `:435`): `derived` are the rows they name and
`bereft` those they have lost.

Texts, URLs and words are values that are equal where the code finds them equal,
and a date is a day or none.

## 3. Runs

| Run | Instance | Question |
| --- | --- | --- |
| `collection_safety` | 2 executors, 1 partition, pages 0 and 1, 1 cursor, 2 faults, symmetric executors | fencing, outbox, one history of checkpoints, runs and deliveries, refinement of `PageLog` |
| `embedding_work` | 2 executors, 1 chunk, 2 claims, 1 chat call, 2 days, 3 faults, caps that bind | at most one call, work against ledger, caps, verdicts, overruns |
| `pipeline` | 2 items, 2 texts (one blank) of one URL, 2 documents, 2 executors, 1 operator, 2 faults, symmetric executors and documents | completed deliveries, withdrawals, refinement of `RevisionLife` |
| `collectors` | 11 sources over 3 items, 2 moves of the provider, 1 refusal; a browser session with 2 cards; 2 callers and 2 queries of one connection | is the window collected, does nothing stay open, is the connection polite, does a partition end? |
| `liveness` | 1 executor with 2 partitions of 2 revisions and 1 shared item, 2 faults; 2 executors of one chunk, 4 claims, 1 fault; 2 normalizers, an article and a metric, 1 operator, 1 fault | does each reach its end, is every acquired item staged? |
| `services` | nineteen parts, below | does each keep what it promises? |
| `pipeline_withdrawn`, `pages_deferred`, `pages_refusal`, `answer_substitution`, `enable_race`, `duplicates_apart` | the least instance of each | expected violations, section 6 |

The parts of `collectors`, `liveness` and `services` share no state. `part`,
which the initial state fixes, says which of them moves; the others stay at
their beginning. So one run is a sum of small instances and no product.

The parts of `services`: eight
questions, three set-ups and five hits of a duplicate group, a thread and a
metric; four calls of an acquisition with two targets and two documents, one of
which yields no chunk, by a service with all ports, with some or with none; three
requests of a client at a limit of one per window and two per day; three asks or
pages in the browser; two release runs, one fault and two states of the
corpus; six plans of three commands of two operators, with rows and queue, and for the
plan of three runs with any of the two; two jobs over four
texts; items of twelve sources, texts of five lines, pages of five tokens, five
pieces of topics; two callers of a run of two pages; four entries of a feed with
one URL twice and one that is refused, pages of five tokens; two purges of three
choices of four rows, with and without the ports for purge and audit; fifteen manifests of a restore; four partitions of a target (one per period,
one over both, one for a question) with three items, one of them without a date,
and two members to compare; two calls of one slot and three in memory;
one worker with two stops; five requests to the planner.

Bounds and why they are enough.

* `MaxFaults`, `RunFaults`, `JobFaults`, `RedisFaults`, `RuntimeFaults`,
  `IngestFaults`, `CustodyFaults`, `MaxFeedFaults` and `MaxRefusals` count
  failures: crashes, lost jobs, lost acknowledgements, throwing calls, missed
  renewals; in collection and pipeline also operator actions. Normal expiry and
  retries are free. Two suffice for every scenario of a stale executor: one lets a
  lease run out under its holder, the other happens to whoever takes over. Where
  handlers only read and write once, one failure reaches every step.
* `MaxPage` 1 gives a first page, a continuation and the last page. Three items
  with `Limit` 1 give the same to the collectors, and a cap (`PageCap`,
  `OffsetCap`) in the middle of the listing.
* `Wirings` has a service without ports, one with the budget only, one with all and
  one that stores and attaches documents but
  neither raw items nor their readiness; `Textless` is a
  document without a chunk. The ports of retention take all their subsets, those of
  runs do so for the plan of three runs.
* Two executors: a page has at most one holder and the interesting other is a
  stale one. Symmetry over executors is used in safety runs only.
* `MaxEpoch` bounds the claims of a chunk. With 1 fault and 4 claims the bound is
  out of reach in `liveness`; `Decided` names it.
* Budgets: the caps are 1 and 2 units for three calls of one unit in two lanes,
  so that every limit (daily, lane, and outstanding over midnight) refuses something
  in some state and `MaxUsage` 2 lets a chat call exceed its reservation.
* In the pipeline two faults allow a withdrawal and its reindex, a repeated
  execution that meets a withdrawal, or two documents of one URL and a failure.
  Two documents are all that two executions can insert. One of the texts is
  blank so that executions end before publication too, and both items share the
  second text when the source is disabled.
* Time (`EndOfTime`, `Horizon`, `Ttl`, `LastDay`) covers two windows, one lease
  and one renewal, one day and its end.
* `MaxArticle`, `MaxMarkup`, `MaxLines`, `MaxPieces` of 5 reach a tag inside a
  tag and a closing tag of another name; a fence, text in it, its end and a
  heading; an alias, a particle and a context with spaces between.
* `MaxCollected` 5: a page, its item published, observed and embedded, and one
  thing more (a further partition, a tombstone, a disabled target) between any
  two reads of a comparison.
* `MaxFeedCalls` 3 and `ArticleLimit` 1: a reading that is cut, a 304 that hides
  the rest, and one after the feed has moved.

Deadlock checking is off in all runs because the system may stop: all work is
finished, the target is disabled, or a bound is used up.

What the properties say. Safety of collection: `NoPageLost` (outbox against
partition), `ContentMatchesCursor` (content from the right cursor),
`HistoryIsWhole` (checkpoints without gaps, succeeded runs committed, completed
deliveries settled), `SingleHolder`, `NoOrphanRun`, `RunVerdictFinal`,
`AcquiredIsStaged`, `ImplementsPageLog`. Money: `AtMostOneCall`, `SpendIsHeld`,
`WorkMatchesLedger`, `OutcomeIsFinal`, `CapsHold`, `OverrunBlocks`,
`SettledOnce`. Pipeline: `DoneMeansIndexed` (deliveries against rows),
`TombstoneHolds` (what a step may never do), `ImplementsRevisionLife`. Liveness:
`Finishes`, `EveryChunkDecided`, `EveryItemPublished`, `PartitionEnds`,
`QueueMoves`. Collectors: `CollectsTheWindow`, `SessionsAreClean`,
`PoliteRequests`. Services: `AnswersAreSound`, `AcquisitionWithinBounds`,
`LimitsHold`, `PageIsConsistent`, `ReleaseIsBounded`, `OperationsOnce`,
`CorpusIsSound` (groups, texts, topics, article pages, coverage reports), `CustodyIsKept`
(ingestion, feeds, retention, restore), `WorkerIsOrderly` (slots, stop order,
plans). All of these hold. Results a reader may not expect:

* `DailyWithinCap` is exact only up to what providers charge above the
  reservation, and the overrun of one call is admitted before the block.
* `Finishes` ends at "failed" after a single failed renewal: the code then treats
  any later failure of the page as final and waits for the operator.
* `CollectsTheWindow` admits one missing item for each that the provider
  withdrew, and search results of GitHub without a date. A partition of releases
  that a 304 ended is excepted, and then the provider listed as many new items
  meanwhile as a page has.
* `PartitionEnds` excepts the partitions of Stack Exchange, section 6.
* `LimitsHold` admits two windows' requests in any span as long as a window.
* `AcquisitionWithinBounds` bounds what a result reports; redirects of fetches
  that failed come on top of it. Requests are sent under a reservation only where
  the service has a budget, and "acquired" means the writes whose port is given,
  which may be none.
* `OperationsOnce` does not say that every run gets its job. A pending row
  without one belongs to a handler under way, to a process that was lost, to an
  operator who was told of an error, or to a service without a queue.
* `CustodyIsKept` asks for audit events of purges only where there is an audit;
  a raw item that revisions and observations name is purged and they lose it.
* `CorpusIsSound`: a coverage report without a reason says that every planned
  partition of an enabled target is whole, and nothing of a target for which
  none is planned.
* `FeedIsRead` excepts readings that the limit cut short, section 6.

### Fairness

`CollectionState`: the poll loop of the partition runtime claims and enqueues
again and again; clocks advance (expiry, due times); every call that was started
returns or throws, since collectors and database calls have timeouts (weak
fairness of `Returns`). BullMQ hands a waiting job to a free executor, and
executors become busy and free again, so `TakeJob` and the claim of a row have
strong fairness. `DocumentPipeline`: a delivery that is not completed is
claimed, enqueued and taken again and again (strong fairness per item and per
revision); every transaction that was begun returns or throws (weak fairness of
`Works`), and so does a request that was begun. None is assumed of repeated
executions, failures or new requests. `EmbeddingWork`: the deliveries of
undecided chunks come again (strong fairness of `ClaimWork`, because rights and
approval may come and go), leases expire, `processChunk` returns or throws. No
fairness is assumed of faults, operators or renewals.

`MCLiveness` states these conditions with each weak one guarded by its part. The
strong ones are paired, one of each part to a condition: in a behaviour only one
part ever moves, so a pair asks exactly what its member of that part asks, and
TLC's work, which doubles with every strong condition, stays small.

`MCSourcePages`: the poll loop delivers a pending partition again (weak fairness of
`CollectPage`), time advances, callers of the polite connection go on, and a
request is answered or fails. The last is an assumption about the network, since
the fetch has no timeout.

## 4. Proofs

The assumptions are those the modules make of their constants. None of them
fixes how many actors, items or calls there are:

* `CollectionConstants` (a revision per partition, approved revisions among the
  revisions, the null cursor no cursor, bounds in `Nat`);
* `BudgetConstants` (the lanes, limits and attempts of the ledger, each attempt
  with a lane and units) and `WorkConstants` (attempts of embedding work are pairs
  of a chunk and an epoch, and none of them is a chat or query call);
* `PipelineConstants` (every item has a source and a fallback text, every text
  one URL, the null is no item, text, URL, document or revision);
* `WebConstants` (the list without a filter is a query, bounds are positive);
* `ApiConstants` (finitely many requests, limits in `Nat`, a day is not empty);
* `AcquisitionConstants` (finitely many candidates, limits in `Nat`);
* `CommandConstants` (a command is of a kind the routes have, a review accepts
  or rejects, a cohort has members, no entry is no answer);
* `FetchConstants` (nobody is no caller, query or number, times in `Nat`),
  `SessionConstants` (the limit of items is positive) and `PagesConstants` (the
  provider's catalog is not empty and lists each item once, caps are positive);
* `SlotAssumption` (cap, lease, interval and patience are positive, a renewal comes
  before the lease ends) and `RuntimeAssumption` (thresholds of health, a request
  to the planner has one of three modes, slices that are not empty, and no window or one
  of two instants);
* `AnswerConstants` (finitely many hits with ordinals and tokens in `Nat`, hits of
  one revision share repository, date and cluster; topics and retries in `Nat`,
  there are questions and set-ups);
* `GroupAssumption` (no document and no cluster is the mark of absence, a row is never
  the empty one), `TextAssumption` (a raw item has its fields, no license is the
  null, a table line has words and a blank line none, tokens are text, opening or
  closing), `TopicAssumption` (days are numbers, units are positive, no topic is told by the
  absent source) and `CoverageAssumption` (finite tables, a partition lists items of
  the table, values in `Nat`, a cohort has members, two periods);
* `IngestAssumption` (every place of a cursor has a page, whose next place is one
  or none), `ArticleAssumption` (the limit is a number, tokens are text, opening or closing) and `CustodyAssumption`
  (tables are finite, days and the row counts of a manifest are integers).

| Theorem | Statement | Argument |
| --- | --- | --- |
| `TypeCorrect` | `Spec => []TypeOK` | `TypeOK` is inductive. Its part with content: each claim adds exactly one epoch, run and attempt |
| `HistoryStaysWhole` | `Spec => []HistoryIsWhole` | from `HistoryInv` |
| `AcquiredStaysStaged` | `Spec => []AcquiredIsStaged` | inductive with the types |
| `PageLogRefined` | `Spec => ImplementsPageLog` | step simulation under `HistoryInv` and `ClaimsInv` |
| `PagesAreKept` | `Spec => []NoPageLost` | see below |
| `OneHolder` | `Spec => []SingleHolder` | from `ClaimsInv` |
| `ContentFollowsCursor` | `Spec => []ContentMatchesCursor` | from `ClaimsInv` and `ContentNext` |
| `RunsAreEnded` | `Spec => []NoOrphanRun` | from `RunsInv` |
| `VerdictsAreFinal` | `Spec => RunVerdictFinal` | from `RunsInv` |
| `BudgetTypeCorrect` | `BudgetSpec => []BudgetTypeOK` | inductive |
| `CapsAreHeld` | `BudgetSpec => []CapsHold` | from `CapsInv`, with the lemmas about sums |
| `VerdictOnce` | `BudgetSpec => SettledOnce` | from `Unreserved` |
| `OverrunsBlock` | `BudgetSpec => []OverrunBlocks` | inductive with the types |
| `WorkTypeCorrect` | `Spec => []TypeOK` | with `WorkInv`, which says that only a request that was sent is refused |
| `PaidOnce` | `Spec => []AtMostOneCall` | from `WorkInv` |
| `SpendStaysHeld` | `Spec => []SpendIsHeld` | part of `WorkInv` |
| `WorkAgreesWithLedger` | `Spec => []WorkMatchesLedger` | part of `WorkInv` |
| `OutcomesAreFinal` | `Spec => OutcomeIsFinal` | every write is fenced by an undecided state |
| `WorkKeepsCaps` | `Spec => []CapsHold` | from `CapsInv` and `WorkFresh` |
| `DocumentPipelineProofs!TypeCorrect` | `Spec => []TypeOK` | inductive |
| `DoneIsIndexed` | `Spec => []DoneMeansIndexed` | from `PipelineInv` |
| `TombstonesHold` | `Spec => TombstoneHolds` | every writer of `status` with the types |
| `RevisionLifeRefined` | `Spec => ImplementsRevisionLife` | step simulation under `PipelineInv` |
| `PageStaysConsistent` | `WebSpec => []PageIsConsistent` | from `WebInv` |
| `LimitsAlwaysHold` | `ApiSpec => []LimitsHold` | from `ApiInv`, with the lemmas about sums |
| `AcquisitionStaysWithinBounds` | `AcquisitionSpec => []AcquisitionWithinBounds` | from `AcquisitionInv` |
| `OperationsHappenOnce` | `CommandSpec => []OperationsOnce` | from `CommandInv` |
| `AnswersStaySound` | `AnswerSpec => []AnswersAreSound` | from `AnswerInv` |
| `RequestsStayPolite` | `FetchSpec => []PoliteRequests` | from `FetchInv` |
| `SessionsStayClean` | `SessionSpec => []SessionsAreClean` | from `SessionInv` |
| `WindowsAreCollected` | `PagesSpec => []CollectsTheWindow`, given `ForumPage <= Limit` | from `PagesInv` |
| `CollectorsKeepTypes` | `CollectorsSpec => []CollectorsTypeOK` | from `PagesShape`, `SessionInv` and `FetchInv`, whatever the pages of the forum are |
| `WorkerStaysOrderly` | `WorkerSpec => []WorkerIsOrderly` | from `RedisInv`, `LocalInv`, `RuntimeInv` and `PlanInv` |
| `PaidCallsStayBounded` | `ReleaseSpec => []PaidCallsBounded` | from `SpendInv` |
| `ReleaseStaysBounded` | `ReleaseSpec => []ReleaseIsBounded`, given `CorpusKeepsGoing` | from `SpendInv` and `MeasureInv` |
| `CustodyStaysKept` | `CustodySpec => []CustodyIsKept` | from `IngestInv`, `FeedInv` and `CustodyInv` |
| `CorpusStaysSound` | `CorpusSpec => []CorpusIsSound` | from `CorpusInv`: `GroupInv`, `CoverageInv`, and the types of the inputs of the pure functions |

* `PagesInv == NoPageLost /\ OutboxBounded`. `NoPageLost` alone is not inductive:
  `commitPage` moves to the next page, whose delivery must not be there already
  and completed. `OutboxBounded` says that no delivery is ahead of its
  partition's page.
* `ClaimsInv`. What a busy executor knows: its epoch and its page are at most
  the partition's, epochs of two executors in the same partition differ, and
  while its page is the partition's the cursor it holds is the partition's
  cursor. `claimPage` establishes it with a fresh epoch, `commitPage` moves the
  page on and thus makes every other claim of that page stale. Steps that change neither
  claims nor fenced columns keep it by the lemma `ClaimsKept`.
* `RunsInv`. Only the last run may be running and a running partition's last run
  is running, so the fenced writes of `commitPage` and `failPage` find a running
  run and no verdict is overwritten.

* `HistoryInv`. `HistoryIsWhole` is nearly inductive. A page 0 begins without a
  cursor only because a partition that has committed nothing has none
  (`FreshStart`), and a new claim leaves the verdicts of earlier runs true because
  no checkpoint carries its epoch yet (`EpochsReached`).
* `PageLogRefined`. The mapped log is the set of checkpoints read in page order.
  `LogCommits` shows that the checkpoint of a commit is appended at its end, and
  `LogEnds` that its last cursor is the partition's, so that the abstract guard
  "fetched from where the log ended" is `ContentMatchesCursor` of the executor.
  All other steps change at most the status of the log.
* `CapsInv`. A limit compares a sum over all reservations with a cap, and a
  step changes one row. Stated of `Base`, the amount of a row up to its
  reservation, the sums stay within the caps (`HeldInv`, `DaysInv`); what is above
  is `Overrun`, so that `CapsHold` follows from `Spent = Base + Overrun`. The library's
  induction takes a predicate, which the provers cannot instantiate; with a set in
  the place of the predicate it is provable from well-foundedness (`NatSetInduction`,
  `SubsetInduction`). `DataLemmas` derives from it that the fold
  `SumFunctionOnSet` is a sum: what one element adds, that a smaller summand or a
  smaller set gives a smaller sum, sums of disjoint sets.
* `WorkFresh`. Reservations of the embedding workers enter the same sums; an
  attempt that is about to be reserved has no row, since its epoch is new.

* `Unreserved`. A chat or query call that has not yet reserved has a fresh
  attempt id: without it `reserve` could overwrite a verdict.
* `WorkInv`. Neither `AtMostOneCall` nor the agreement of work and ledger is
  inductive. A second call is excluded because an attempt that was sent is that
  of the latest claim of its chunk, and the chunk is calling or decided, so that
  it cannot be claimed again (`SentIsCalled`). A worker that is about to send
  must know that its attempt is the latest and not sent yet (`WorkersKnow`), and
  that nobody else holds the same attempt (`ClaimsDiffer`). A reservation is not
  given back under a call because, once called, the work item names it
  (`CallsAreLinked`), which is what `releaseUnsent` looks at.
* `PipelineInv`. `DoneMeansIndexed` is not inductive: that a completed
  normalization still has its chunks and its queue entry follows from what
  holds of every revision (`StagesInOrder`: ready needs chunks, queued needs
  ready, done needs vectors), and that the right revision is meant from
  `ItemsKnowTheirs` (an attached revision exists and came from that item). An
  execution works on rows it read in an earlier transaction; `WorkersKnowTheirs`
  says what remains true of them (they exist, they were published, they are
  queued) whatever others did meanwhile, because no step takes it back (`Grows`).
  `HeldExist` says that a withdrawal under way holds existing revisions only.
* `RevisionLifeRefined`. `StageFacts` reads the rows off the stage; each
  worker step is then one `Advance` (`AdvancesLife`) or a stutter, a commit
  of a withdrawal is `Withdraw` of what it holds, a reindex `Restore`.

* `WebInv`. Every panel flag says which request is under way (`PanelFits`,
  `StatusFits`), and a list that never overlapped has at most one request, which
  its flags know (`ListFits`, `SourcesFit`). Without the flags an answer that is late would be
  shown beside a newer question.
* `ApiInv`. The property is about every span as long as a window, the code
  knows only the current window. `Window` says for each client that the
  requests since the window began are what it counted, and that every earlier
  span ending before it has at most the limit; a span then lies across at most one
  beginning (`WindowPasses`, `WindowBegins`).
* `AcquisitionInv`. The candidates in the queue, the one being fetched and the
  acquired ones are different members of the set of candidates
  (`QueueFits`, the lemmas about `Once`): with that each candidate costs at most
  `Hops` uncounted requests and counts once, after the writes whose ports are
  given, none of which follows one that is still left (`StoredFits`, the lemma `WritesFollow`).
* `CommandInv`. A handler works on what it has read in earlier transactions.
  What is needed of the world only grows (`WorldGrows`): then what was told to one
  request stays told (`ToldStays`), and an entry in the store is one that was told
  to a command with this payload (`StoreFits`, `KeptFits`). A pending row has its job, or a handler
  that is not through with it, or a caller who knows of no success (`RunFits`), and an ended one stays (`RunsStay`). Locks are held in the
  places between taking and committing only (`LocksFit`).
* `FetchInv`. The line holds each caller once, only its head waits or fetches,
  and a head that waits found no cached answer: no other caller can have filled
  the cache meanwhile, since only a fetch does.
* `SessionInv`. From the context on, what is open is owned or is the page, so that
  `CloseAll` closes it; a browser whose context is awaited is owned by nobody yet.
* `PagesInv`. What has been read is a beginning of the listing whatever the
  cursor is, a page, an offset or nothing (`ReadAt`). What the window has there and
  the partition lacks (`Behind`) is no more than what was withdrawn (`ReadFits`): a new
  entry pushes a read one back, which is then read twice; only a withdrawal pulls
  an unread entry among the read ones, one at a time. An item that was listed late is
  after the window, so that the end of the listing is the end of the window.
  To this `WindowInv` adds that the first item of the page whose validator is kept has
  moved on by no more than what was listed since (`ValidatorFits`), so that the next page
  can be equal to it only after as many new items as a page has.
  `WindowsAreCollected` needs `ForumPage <= Limit`: the Discourse collector takes the first
  `Limit` topics of a page and goes on with the next page, so that a smaller limit
  would skip the rest. The worker asks for 100 where the forum lists 30.

* `RedisInv`, `LocalInv`. A token in the hash is the one that its call was promised,
  and whoever runs on a promise that is not over has its token there
  (`HoldersFit`): the purge of an acquire script only takes tokens that are
  over. Counting the tokens bounds the holders. In memory nobody waits twice or
  while active, and a queue means that the cap is reached.
* `RuntimeInv`. What each stop has closed stays closed (`StopFits`): after the
  loop no tick begins, after the tick none is under way, after a worker it takes no job and
  has none in hand. Two stops overlap, and each keeps what the other relies on.
* `PlanInv`. The slices that all attempts have made begin at the start of the
  window and follow one another (`Tiled`); the place where an attempt goes on is
  aligned with them (`ReachedIn`), so that a slice made twice is the same slice.
* `SpendInv`. Whoever pays owns the lock file, and only one process does
  (`OneOwner`); it counts what the journal counts (`MoneyFits`). A journal whose last
  reservation was not settled belongs to a call that is under way, or to nobody
  who will pay again. What a run still has to call for must fit as well
  (`TodoFits`): the embedding of an answer is followed by the call of the model.
* `MeasureInv`. The rows of a run were judged between its preflight and now, or
  taken from a report on the same fingerprint (`Measured`). The command compares
  the fingerprints of the two ends only. So `ReleaseStaysBounded`, unlike
  `PaidCallsStayBounded`, has a hypothesis, `CorpusKeepsGoing`: a corpus that was left does
  not come back. It is needed: with three states of the corpus of which
  the first and the last are equal, TLC finds a gate passed with a row that was judged
  on the one between.
* `IngestInv`. An item that calls have in hand is in the hands of one only
  (`HandsApart`): the insert of the document decides who goes on. Without faults a stored
  item has its job and its event where the publishers are given, or is in the hand of the call that will write them
  (`ItemsFit`); a run that succeeded counts right and has its page stored (`RowFits`).
* `FeedInv`. A URL that the cursor names was handed on once and again by at
  most each page reading, any other by page readings only (`HandedFit`). A
  cursor that was not cut names everything the provider lists under its tag
  (`Covers`), which is why a 304 hides nothing. A reading that is under way has
  seen or still has before it what is listed (`FeedCallFits`).
* `CustodyInv`. Where there is an audit, a committed purge has its event, a fault, or a
  keeper who still owes it; the count of the three (`AuditsFit`, `Owing`) is at least
  the number of purges. What lost its raw item lost it to a purge (`BereftFit`). A drill past its look knows that the target was empty or
  that it holds the token (`DrillFits`).
* `AnswerInv`. What is chosen stays chosen: from the assembly on the evidence is
  that of the hits (`ChoiceFits`), and each draft costs one retry (`DraftsFit`).
  The assembly thins the hits (`Thins`: some entries, in their order), by revision,
  by cluster, by kind and by the budget in turn; that the budget is kept is an
  induction over the beginnings of the hits.
* `GroupInv`. `GroupsAreExact` says of the closure of "equal texts or equal URLs" that no set
  of documents parts two members of a group (`HangTogether`). Each document
  hangs together with the representative of its group (`DocIsTied`), and what a job
  has read and will write later does so as well (`JobIsTied`), because rows that are added
  part nobody (`Grows`). `RepresentativesStored` and `MembersAreSaved` keep the rows that are
  referred to.
* `CoverageInv`. A partition that was complete when a comparison read it stays
  so and one planned later was not there, and sums only grow: what was read is a
  report of a moment between the beginning and now (`ReadIsWhole`, `ReadIsUnderWay`).
* Topics. A part that stands between spaces shows the whole text the same pieces around each place
  as it has itself (`PartsShow`), so that what is found in it is found in the whole.
* Markup and article pages. The code keeps a stack of open tags. The place where a tag was
  opened is on the stack exactly while opened minus closed tags do not fall
  below it (`Levels`); on a well nested page the stack is the list of the elements around the
  place that is read (`Around`), and the first one closed is the last one opened.
* Chunks. By induction over the lines read (`Held`): the words of the blocks with those
  of the lines gathered are the text so far, the path is that of the headings over
  the next line, and a fence is open when an odd number of fence lines was read. A
  block is cut and chunks are merged by inductions over words and blocks.

Each step lemma has one step per action of `Next`. What actions share is stated
once: for collection the facts about `worker` (`BecomeKeeps`, `ReleaseKeeps`,
`FailsKeeps`), for embedding work the steps that leave the work items alone
(`LedgerStep`, given what may happen to one row, `RowStep`) and those by which a
call begins or gets its outcome (`WorkStep`).

### Model-checked only

* Liveness under fairness is out of the prover's reach: `Finishes`,
  `EveryChunkDecided`, `EveryItemPublished`, `PartitionEnds`, `QueueMoves`.
* `ArchiveTypeOK`, the types of all services side by side. What matters of them is in
  the inductive invariants of the services.

## 5. Plan

Done: collection, ledger, paid embedding, pipeline with their proofs (first
four modules); then collectors, services, operator commands, release evaluation,
deduplication, texts and topics, ingestion, retention and restore, slots and the
worker process, the article collector, coverage reports.

The suite is kept at a dozen runs, one per question. A new module becomes a part
of `MCArchive` and one of its summary properties.

Every safety property that a passing run checks has its theorem, except `ArchiveTypeOK`:
its theorem would compose the inductive invariants of all services once more and
say nothing new of any of them.

## 6. Findings

Each of these runs is expected to be violated: it states what a document or a
comment says, and TLC shows the code doing otherwise.

| Run | Says | The code |
| --- | --- | --- |
| `pipeline_withdrawn` | `docs/SECURITY.md:96`: a tombstone shuts out all searches | a reindex of the source restores revisions withdrawn for themselves (`ops.ts:246`) |
| `pages_deferred` | `docs/COLLECTION_CONTRACTS.md:48`: a deferred page can be continued | a rate limit comes with a null cursor, which the commit stores: the partition begins again (`github-releases.ts:401`) |
| `pages_refusal` | `docs/COLLECTION_CONTRACTS.md:47`, `:53`: complete only when exhausted, an error is no empty source | the browser collectors swallow errors and answer complete (`chrome-origin-trials.ts:1006`) |
| `answer_substitution` | `evidence-requirements.ts:57`: evidence of another kind is rejected | the kind is looked for among the hits, before the assembly drops some (`answer-service.ts:548`) |
| `enable_race` | `collection-state.ts:202`: every new revision needs an enable of its own | an enable checks the revision it read and enables whatever is current (`collection-state.ts:221`) |
| `duplicates_apart` | `deduplication.ts:61`: exact duplicates are linked by their cluster | overlapping jobs assign one document to two clusters one after the other (`deduplication.ts:194`) |

Other observations. They follow from reading the code for the models, and no
run states them as a property of its own.

Collection and pipeline

* The normalizer of an item depends on whether its source is enabled at that
  moment: a disabled one is not found and the key stays `github_releases`
  (`apps/worker/src/normalization.ts:76`, `:118`). `TextOf` has both texts.
* A revision that is saved while a source tombstone is being written is not in
  the snapshot of its UPDATE (`packages/database/src/ops.ts:171`) and stays
  searchable under the withdrawn source, although `docs/DATABASE.md:216` speaks of
  every connected revision. The searches also ask for an enabled source.
* `docs/DATABASE.md:223` lets a reindex restore the revisions that have chunks;
  `restoreSearchable` asks for `searchable_at` (`ops.ts:253`). A revision withdrawn
  between its chunks and its publication stays so and its item fails for ever.
* A transient error is retried every five seconds without a counter
  (`apps/worker/src/ingestion.ts:234`); `MAX_JOB_ATTEMPTS` and
  `docs/DATA_PIPELINE.md:197` speak of five attempts. `claimDeliveries` orders by
  the time a row may be taken, so rows that cannot be collected come back to the
  head after each lease.
* A payload whose text equals that of an earlier one gets the earlier revision,
  which `attachRevision` (`collection-state.ts:758`) does not find under the new item
  (`docs/DATA_PIPELINE.md:246`). A delivery without chunks is never completed
  (`collection-state.ts:728`); a chunk of unknown outcome makes its delivery come
  back for ever (`apps/worker/src/embedding.ts:218`).
* The lookup of a URL takes no lock and the column is not unique
  (`repositories.ts:288`): two executions insert two documents
  (`docs/TESTING.md:93`). `current_revision_id` stays at the first revision
  (`repositories.ts:366`). All versions of an npm package share one URL.
* `deduplication.ts` gives candidates no natural key, so the first stage never
  matches. After a crash between the assignment and the membership of a
  representative, the membership is never made.
* `compareWindows` leaves out every observation of an item that some question
  acquired, also where a regular partition has the item too (`coverage.ts:384`):
  an acquisition for a question lowers the statistics, although
  `docs/DATA_PIPELINE.md:169` says that it alone must not change them.
* A covered member without observations has the sum 0. Both ends of a period
  belong to it, so that an observation exactly between two periods counts in both
  (`docs/GLOSSARY.md:73` has half-open ranges).
* `processing_pending` stays for ever where an item is withdrawn, may not be
  embedded, or no embedding profile is approved.
* The heading path of a chunk has a hole where a level is skipped.

Collectors

* Pages of Stack Exchange carry `canonical_url`, the commit asks for
  `canonicalUrl` (`collection-state.ts:399`): a page with items is always rejected.
* The request for the next page of releases carries the validator of the page before
  (`github-releases.ts:353`); a 304 then ends the partition as complete (`:364`). When
  one page's worth of releases appears between two pages, the next page is the one read
  before, and the rest of the window is lost, although `docs/COLLECTION_CONTRACTS.md:47`
  allows "complete" for an exhausted range only. `EndsUnreadIfShifted` states when.
* The forum collector takes items exactly at `to`, Hugging Face ignores the
  window, and a rate limit whose reset is past is rejected by the commit.
* The page port makes a new `ArxivCollector` per call, so that cache and
  spacing do not carry over. `timeoutMs` of `createHardenedFetch` is unused.
* The article collector stores the feed's validator even when the limit left
  entries unread (`article.ts:1162`): the rest is hidden behind 304 until the feed
  changes. One article that fails or is refused throws away the whole call, each
  time. `collectPage` begins without a cursor, ignores the window and says
  complete of a page that the limit cut.

Services

* A failed fetch does not count the requests it made (`acquisition.ts:734`), so
  that the requests may pass the maximum of eight, redirects included, that
  `acquisition.ts:444` and `docs/COLLECTION_CONTRACTS.md:134` set. The
  acquisition is not wired in the application, and its raw item ids are no UUIDs.
* Without a budget port an acquisition sends without a reservation
  (`acquisition.ts:534`), and a reservation stays open when the rights of all targets
  forbid the acquisition or the resolver throws. An item counts as acquired whichever
  of the five writes were possible, none included, and also when it yields no chunk.
* The request id is kept in the store that all requests share (`app.ts:156`): a
  response may carry the id of another (`docs/API.md:17`). A request that finds no
  slot has used daily budget.
* A failure of the observations query loses an answer that was paid for
  (`answer-service.ts`, after validation). The alias match of the question
  parser knows no particles, so that an ambiguous Korean alias with a particle
  is neither entity nor ambiguity.
* In the browser, a search that overtakes "load more" mixes two queries, the
  coverage report is not cleared by a new question, and the client's timer ends
  with the headers.
* The key of an operator command is compared by its payload and not by the
  actor (`ops.ts:207`): a review that repeats the key of another operator's
  is answered with the kept answer and not recorded under the second name.
  `AcknowledgedHolds` therefore asks for the name only of a command that was
  carried out itself. A first form that asked it of every one was refuted
  in the proof and then by TLC.
* A run whose dispatch failed is set to failed by a second statement
  (`routes/ops.ts:490`). When that throws as well, the operator gets a 500 and the row stays
  pending without a job; nothing looks for such rows.
* A dispatched run goes to the queue `techpulse-delivery` (`apps/api/src/index.ts:103`),
  but the workers read `techpulse-incremental` and `techpulse-backfill`
  (`scheduler.ts:6`, `:72`), and a job there names a delivery (`apps/worker/src/index.ts:332`),
  which a run id is not. So no run that an operator starts leaves pending:
  `dispatched` says that it was queued and not that it is executed.
* `POST /ops/targets` catches errors of `registerTarget` other than its own
  and reads `targetId` of an undefined value, which ends as a 500. The joined lock of `readTarget` and
  that of `registerTarget` may deadlock; PostgreSQL aborts one. The check for a
  repeated key stands before the transaction.
* A purge sets the raw item of revisions and observations to null
  (`schema/index.ts:231`, `:435`) where only they refer to it, although `retention.ts:99`
  says that a purge never alters revisions or metrics (`bereft`). Purges and drills are
  audited only where an audit is given (`retention.ts:220`, `backup-restore.ts:233`,
  `:259`; `ops-tombstone-retention.test.ts:169` purges without). Only tests
  make a retention service at this commit.
* The restore drill restores no rows and reports the manifest's counts
  (`database/src/ops.ts:345`), its verification always passes, and an error counts as
  a clean environment. A raw item that a delivery, membership or event refers
  to is never purged and undoes the purge with it; sources missing in
  `SOURCE_RAW_RETENTION_DAYS` are never purged.
* `executeIngestion`: what a call stored before it failed is a duplicate to its
  repetition and is never published; a publish that throws leaves the run running;
  a disabled source turns even a succeeded run into a cancelled one; and an
  overlapping call may set a succeeded run to failed.
* The limiter's comment "a successful operation with lost ownership fails closed"
  (`concurrency.ts:131`) does not hold where no renewal noticed the loss. A tick
  that fails after a stop turns the status back to degraded, and a second signal
  calls stop a second time. `planTargetPartitions` has no caller in the runtime.
* The gate of a report is never true from the command line alone;
  only the review releases.

## 7. Not modelled, and why

* Coverage: the filters by topic, scope and target, which are those of one fixed
  question here; `getVectorReadiness` and `aggregateMetricObservations`, which have
  no caller. The stage writes of `coverage.ts` are in `DocumentPipeline`.
* Contracts and observability: schemas, log and metric formats.
* Deployment: a script around containers, outside the program.
* Partition collection state: windows and capabilities of a target are the set
  of approved revisions here; the planner's windows are in `WorkerRuntime`.
* Budget ledger: the values of limits, which tooling alone writes.
* Document repositories and search: the SQL of searches and rankings; fusion
  and filters are in `AnswerTurn`.
* AI ports: request and response formats; what a provider may answer is an
  input of `EmbeddingWork`, `ProviderBudget` and `AnswerTurn`.
* Source collectors: the `collect` methods of the sources other than articles,
  which only the earlier ingestion would call, `SourceSearchAdapter`, and how a JSON
  or XML answer is read into items.
* API server: reading routes, static files, and the conversion of parameters.
* Release evaluation: the golden questions themselves, the negative diagnostics
  and the comparison with a baseline.
* Ingestion of a run: `createPartitionCollectionService`, which has no caller and
  which the worker's page execution succeeds.

PostgreSQL, Redis and BullMQ are modelled by what the code relies on: atomic
transactions with row locks, a job id that is unique while a job exists, and
stalled jobs given out again.
