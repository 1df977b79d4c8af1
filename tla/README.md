# A TLA+ verification of the e-commerce workbench

This directory models the workbench of this repository in TLA+: the parts of it
whose correctness depends on the order in which requests, background jobs,
crashes and retries happen. TLC checks the models on small instances, and TLAPS
proves the theorems in the `*Proofs` modules for every value of the constants.

All paths below are relative to `src/`.

- [1. The system](#1-the-system)
- [2. The plan](#2-the-plan)
- [3. The models](#3-the-models)
- [4. The runs](#4-the-runs)
- [5. The proofs](#5-the-proofs)
- [6. Where code and documentation disagree](#6-where-code-and-documentation-disagree)
- [7. Limits](#7-limits)

## 1. The system

The workbench is a FastAPI application (`app/main.py`) over one SQL database
(`app/db.py`; SQLite by default) with a background job engine in the same
process (`app/background.py`). Every HTTP request runs in a thread and a
database session of its own, and so does every background job.

Three facts about the database layer are behind most of what can go wrong, and
every model here contains them:

- `SessionLocal(autoflush=False, expire_on_commit=False)` (`app/db.py:22`): an
  object keeps the values it was loaded with, through commits, and a second
  SELECT does not refresh it. Only a rollback of an open transaction expires it.
- A flush writes the attributes that differ from the loaded ones, by primary key.
  A check made on the loaded object is not repeated by the UPDATE. Only the
  operations that put the condition in the WHERE clause of one UPDATE
  (`claim_job`, `finish_job`, `decide_purchase_request`) compare and set.
- Unique constraints are checked by the database when the row is flushed.

### Components

| Component | State | Operations | What makes it correct |
|---|---|---|---|
| Background job engine: `app/background.py`, `app/repository.py`, `app/jobs.py` | rows of `crawl_jobs`; the executor, the future registry, the dispatcher thread | enqueue, claim, renew, finish, retry, cancel, recover, stop, restart | statuses follow the transition table; one execution at a time; no result of a superseded attempt; a cancelled job does not start again; every job settles |
| Inbound orders and stock: `app/repository.py` | `inbound_orders`, `inbound_lines`, `inventory_transactions`, `inventory_balances` | `create_inbound`, `receive_inbound`, `confirm_inbound` | postings are whole, made once, within the purchase request; balances are the sum of the postings |
| Replenishment: `app/replenishment.py` | `replenishment_suggestions`, `purchase_requests` and their lines | generate, decide, draft, edit, submit | one open suggestion per sku; a submitted request agrees with its suggestions |
| Purchase approval: `app/purchase_approval.py` | the same, and the inbound order of a request | approve, reject, cancel, generate the inbound order | decided once; ordered only if approved; withdrawn suggestions are free again |
| Knowledge publication and vector index: `app/knowledge_admin.py`, `app/rag/vector_store.py`, index jobs of `app/background.py` | `document_versions.published_at`, the store in memory and its file | publish, unpublish, index, unindex | one published version per document; what can be searched is published, what is published can be searched |
| Document import: `app/importers`, `app/versioning.py` | `document_versions`, `document_chunks` | import job, mark ready or failed | chunks are made once, a failed import can be repeated |
| Live sync: `app/main.py` (`live_sync` and its helpers), `app/external_sync.py`, `app/platform_adapters` | `external_sync_runs` with the status and cursor of each resource, cancellation tokens, the single-flight gate | begin, page, record cursor, ingest, finalize, resume, cancel | a run ends with all resources accounted for; a resume skips nothing that was not stored; the heartbeat tells a dead run |
| Dead letters: `app/dead_letters.py` | `external_sync_dead_letters` | register, replay, ignore, archive | a letter is replayed once; gates are judged on current values |
| Fixture sync: `app/sync_application.py`, `app/platform_sync.py` | `external_sync_runs` with the entry of each resource | ingest a bundle, retry what failed | a retry under one key answers with one run; what succeeded is not fetched again |
| External orders and costs: `app/external_orders.py`, `app/costs.py` | `external_orders`, their lines, mappings, daily sales, cost snapshots | ingest, map a product, rebuild sales, record and backfill costs | a late older event changes nothing; anchors never move; sales equal the lines |
| Order merging: `app/order_aggregation.py` | none (pure) | `aggregate_order_records` | idempotent, loses no line, hides no contradiction |
| CSV imports: `app/imports.py`, `app/connectors.py` | a run, snapshots, `external_import_rejections` | parse, bisect, commit | each row is a fact or is isolated |
| Event inbox: `external_events_ingest`, `app/external_sync.py` | `external_event_inbox` | take a batch of events | judged once; contradictions are marked |
| Profit: `app/finance.py` | none (reads) | summary, ranking, details | the details add up to the total, but for half cents |
| Source quality: `app/source_quality.py`, `ShopifyLiveTransport` | retained responses, `quality_status` of a run | retain, judge, replay | a verdict says no more than the evidence bears |
| Replenishment judged: `app/replenishment.py`, `app/dashboard.py`, `app/analytics.py` | suggestions, `replenishment_evaluations` | suggest, evaluate, show | the same sales are judged alike; the views agree as far back as both look |
| Content: `app/content_application.py`, `app/content_production.py` | revisions, actions, exports, their jobs | create, generate, review, retry, export | approved content stays; reviewers decide on what they saw |
| Alerts: `app/alerts.py` | policies, `inventory_alerts` | refresh, acknowledge | open exactly while the cause is there |
| Tickets: `app/tickets.py` | tickets, assignments, events | create, transition, assign | one assignment is open; every change is recorded |
| Accounts: `app/account_admin.py`, `app/employee_auth.py` | accounts, memberships, grants, sessions | log in, log out, administer | an administrator remains; sessions are current |
| Catalogue: `app/catalog_live.py`, `app/catalog_replay.py`, `app/crawler.py`; `upsert_product` of `app/repository.py` | files of products and a report; products and their price history | page, stop, write; import | what is called whole is whole; the trail ends at the price |
| Retrieval, tool servers, uploaded files, user interface | none that anything reads back | reads | not modelled |

`PROJECT.json` lists them all with their files.

### How they interact

- Routes call the operations of a component in their own session; most load a
  row first, to check that the caller may see it, and it is this row the
  operation then checks (the identity map).
- `enqueue_job` commits a row of `crawl_jobs` and the API thread submits it; the
  dispatcher thread submits the rows that were left. The job body
  (`document_import`, `document_index`, `content_generation`, crawls) works on
  the tables of its component and reports by returning or raising.
- A purchase request becomes an inbound order (`create_inbound`), and that
  order's count is limited by the request (`receive_inbound`).
- Publishing commits first and updates the vector index afterwards: at once for
  deletes, by an index job for the new version.
- A failed resource of a live sync becomes a dead letter, and a replay of the
  letter is a resumed sync.
- A report file is read and bisected (`FileImport`), its order rows are merged
  (`OrderMerge`), the records are ingested (`ExternalOrders`); profits
  (`Profit`) and suggestions (`Replenishment`) read the lines and the daily sales. Each part
  takes from the one before it what its own inputs range over, and shares no row
  with it while it works.

### What is hard

The hazards of `PROJECT.json` name each one at its line: two calls that both
passed a check made on loaded objects (lost updates, write skew); a run whose lease
lapsed and which goes on; results of a superseded attempt; a crash between the
commit and what should follow it; a session that answers from its identity map;
a registry key that is removed before it is added; a bounded scan that is
always filled by the same rows; counters compared in two places; files that can
not be written while the run goes on; and rules that are written down more than once, each
time a little differently (rounding, covered days, overall statuses).

## 2. The plan

Most important behaviour first; steps 1 to 10 are done.

1. **Job engine**: `JobLifecycle` (abstract), `JobEngine`, its safety, its liveness
   under the fairness of live threads, its proofs.
2. **Inbound orders and stock**: `StockLedger` (abstract), `InboundLedger`, its proofs.
3. **Purchasing and knowledge**: `PurchaseFlow` (abstract) and `Purchasing`,
   `KnowledgeIndex`, and their proofs.
4. **Live sync, dead letters, fixture sync**: `LiveSync` and `FixtureSync` with their proofs.
5. **Content production**: `Content`, with jobs whose bodies run twice, and its proofs.
6. **Orders, costs, merging, profit**: `ExternalOrders` and `Profit` with their proofs,
   `OrderMerge` with its proofs.
7. **Documents and the catalogue**: `DocumentImport`, `CatalogCrawl`, `Products`, and
   their proofs.
8. **Files, events, quality, replenishment**: `FileImport`, `EventInbox`,
   `SourceQuality` and `Replenishment` with their proofs.
9. **Alerts, tickets, accounts**: one small module each, and their proofs.
10. **The compositions**: `SalesData` over the modules of 6 and 8 that sales data passes through,
   `Desks` over the rest, with their proofs.

Left:

- the registry of cancellation tokens of live syncs (a token can be asked for before
  the run has registered its own);
- idempotency keys of purchase decisions and submissions.

## 3. The models

### The job engine: `JobLifecycle`, `JobEngine`, `MCJobEngine`, `JobEngineProofs`

`JobLifecycle` is the promise: the statuses of `app/jobs.py` and their legal
transitions, with a retry budget. `JobEngine` is what the code does.

| Model | Code |
|---|---|
| `row` | the `crawl_jobs` row: status, worker_id, lease_until, next_run_at, retry_count, attempt, cancel_requested |
| a run `r`, `pc[r]` | one call of `_submit_future`: its future and where the thread is in `_run_one_job` |
| `obj[r]` | the `CrawlJob` in the identity map of the session of the run |
| `registry` | `_cancel_futures` |
| `sub`, `subRun` | the threads inside `_submit_future` (one API thread per job, and the dispatcher) |
| `scan`, `scanJob` | the ids one turn of `_dispatch_loop` has still to submit |
| `ClaimJob`, `FinishJob`, `Heartbeat`, `RecoverExpired` | the guarded UPDATEs of `app/repository.py`, each one step with its commit |
| `RetryJob`, `CancelJob` | commits of a loaded object, unconditional (`Flush`) |
| `StopWorkers`, `ShutdownExecutor`, `Restart` | `stop_background_workers`, and a process that dies |

Time is abstract: a live lease lapses (`LeaseLapses`) and a backoff elapses
(`BackoffElapses`) in steps of their own. `LeaseMayLapse` says whether a lease
may lapse under a run that is still alive, which the code allows when its
heartbeat thread is delayed for a whole lease. The claims that need punctual
heartbeats are stated and proved for `LeaseMayLapse = FALSE`; the others hold
either way. `PermanentErrors` says whether bodies may raise `retryable=False`.

### Inbound orders and stock: `StockLedger`, `InboundLedger`, `MCInboundLedger`, `InboundLedgerProofs`

Each client is one request in progress. It loads the order
(`ReadOrder`), loads the lines (`ReadLines`), is refused, or writes in one
commit. A confirmation walks the lines in order (`PlanLine`), and
`create_cost_snapshot` flushes what is planned so far for a line with a known
price (`FlushPlan`), which takes the write lock until the commit. A unique
constraint that fails rolls the whole request back (`ConfirmFails`). `Reported`
and `NewBalance` write only attributes that differ from the loaded ones.

`serial` chooses, once, whether requests are served one at a time. The balances
equal the sum of the postings only then: two confirmations that share a sku
both read the balance and both write it, and one of the two amounts is lost. What holds
under any race is stated without `serial`. `StockIsPosted` also holds what
`get_receipt_progress` tells of a purchase request (`ReceiptProgress`) to the
postings behind it. The type invariant is proved for all constants and not repeated in the run.

### Purchasing: `PurchaseFlow`, `Purchasing`, `MCPurchasing`, `PurchasingProofs`

A call loads rows (`Start...`), checks them, and writes in one commit. `approve`,
`reject` and `cancel` compare and set (`Hit`); the others write what they
loaded (`Flushed`). Idempotency keys are not modelled: a request stands for its
key. `Apart` is the set of kinds of calls that never overlap each other. The
run has `decide`, `edit`, `submit`, `direct`, `cancel` and `order` apart, because
each checks rows another one of them writes: overlapped, a cancellation and the
generation of the inbound order both pass (an order for a cancelled request),
and a stale submission turns a cancelled draft into a submitted request.
Generating, drafting, approving and rejecting overlap everything.

### Knowledge: `KnowledgeIndex`, `MCKnowledgeIndex`, `KnowledgeIndexProofs`

`published` is the database, `mem` and `disk` the store and its file. An import marks its version
ready (`MarkReady`) and enqueues an index job for it in a later commit (`EnqueueImported`), published or not,
so that a version may have two jobs, one of which finds nothing to do. A publication
reads the siblings that are published, commits, deletes their chunks one by one,
and enqueues an index job; the job looks at `published_at` three times: before it
deletes, before it writes, and after it wrote. `faults` chooses, once, what may go
wrong (a restart, a file that cannot be written, a request that dies, a job that
is cancelled), and `serial` whether requests and jobs come one at a time.

### Live sync and dead letters: `LiveSync`, `MCLiveSync`, `LiveSyncProofs`

| Model | Code |
|---|---|
| `runs[i]` | the i-th `external_sync_runs` row: status, `retry_of_run_id` (`source`), idempotency key, attempt |
| `runs[i].res` | `resource_status_json`; a failed resource holds its kind of error: `auto` (timeout, rate limit, upstream), `guard` (cancelled or out of time) or `manual` (all others) |
| `runs[i].cursor` | `cursor_json`, as the number of the last page fetched; complete when it is the last page upstream |
| `letters[i]` | the `external_sync_dead_letters` row of the run |
| `stored` | the pages whose records `ingest_orders` and `ingest_inventory` have committed |
| `cur`, `step`, `todo` | the holder of `_sync_gate_lock` and where its thread is |
| `loaded[c]` | a request about a letter, between its read and its act |

A run visits its resources in order: `SkipResource`, or pages (`FetchPage`, which
commits the cursor) and then `Ingest`. It ends through `Finalize`,
`RegisterLetter`, `ForceFailed` (a guardrail makes the run failed after the
letter is registered) and `EndRun`, each a commit. The commits between the
gate and the first page (the row, the seeded cursor, the pending resources) are one step,
since the model's other actors read nothing of a running run; so are a
resource's outcome and its metadata.

`_dead_letter_replay_core` reads the letter again under the gate to close a race,
but in a session that holds the object and does not refresh it: the second check
judges the first read. In the model `Replay` acts on what `ReadForReplay` saw.
So requests that overlap can replay a letter twice, or replay one that was
ignored; `serial` chooses, once, whether they overlap, and the part of `ReplaysHold` that says
a letter is settled once is stated for those that do not. The other part, that replays
keep to their gates, holds either way: class, attempt and error are fixed when the letter is
registered.

The resumed run fetches from the cursor of its source, whose own pages were
never stored (a run stores only after its last page): `SucceededIsStored` speaks
of the pages from the run's own start, which is what the code does. The report of such a
run still says `data_completeness: complete`. `LiveSyncSkipped` shows the extreme, a
resource of which nothing was stored.

A caller of a sync names each resource once, which the code does not check (a resume drops repetitions).
Whether a run is cancelled or runs out of time is left open at every checkpoint
(`GuardrailStops`), and so is whether a backoff has elapsed. The command line
(`app/cli.py`) is modelled as a request of the same process; it is a process of
its own, whose gate does not exclude the server's. Its archive of a run without a letter
asks for no stale heartbeat, so `Archive` may meet a live run.

### The way of sales data: `SalesData`, `MCOrders`, `OrdersProofs`

Seven components that hand over records and touch no row of each other. `SalesData`
chooses one part at the start, and a behaviour is one of that part: the
state spaces add up instead of multiplying, and nothing is lost since no step
of one part reads or writes what another one's steps do. `PartsTypeOK` is their common
type invariant.

**`ExternalOrders`** (`app/external_orders.py`, `app/costs.py`). `orders`, `lines`,
`mapping`, `snaps` and `daily` are the tables. A call ingests a batch
(`StartIngest`): it looks at an order (`LookAndSkip` when the stored one is as new,
by `Newer`), loads its lines (`LoadLines`) or writes and takes the write
lock (`LookAndWrite`), and `WriteBatch` is the commit with the sales it rebuilds. `Inherits`
is what keeps the anchor of a line that comes again, `Touched` the skus and days
whose sales are rebuilt. `SetProductMapping` and the rebuild that follows are two
transactions, as in the route. `serial` chooses whether calls overlap; overlapping ones
are given the events of `Racing`. What an order is is stated for events that can be
compared (`Comparable`: all carry a version, or none); a platform that mixes them gets
whatever came last. A backfill reads and commits in one step, and the account
of an order exists. A cost file has finitely many rows (`ImportCosts`), of which the latest before
a day is then a definite one.

**`FileImport`** (`app/imports.py`). `Parse` reads the file and bisects what does not
read; `BeginImport`, `Ingest`, `CompleteImport`, `FailImport` and
`PersistRejections` are the commits of `external_import_commit`, and
`StopImport` a crash between two of them, which leaves the run running. Cells a CSV
fills from its first row (`imports.py:10`) change meaning when bisection cuts
the first row off; the model keeps them. `ParseWhole` is the older door, which takes a
file whole or not at all. A failure after the commit of the facts leaves facts with a
failed run: `EveryRowAnswered` speaks of answers, not of runs.

**`OrderMerge`** (`app/order_aggregation.py`). The grouping, its first row and the ids
given to lines that have none are operators; a batch is every sheet of up to
`MaxRows` rows. `CheckBatch` is the check in `ingest_orders` behind it. The order of rows
by their ids, which `Replenishment` needs too, is in a module of its own, `Places`.

**`EventInbox`** (`ingest_events`). Each event is looked up by its key without a lock
(`LookUpEvent`), and `CommitEvents` inserts and marks what was found; a key that is
taken meanwhile, or that is twice in the batch, meets the unique key and fails the batch.

**`Profit`** (`app/finance.py`). Cents, and rates in ten-thousandths. The code rounds the fee of a
line twice: half up, as a decimal, for the details (`Fee`, `app/finance.py:447`), and by `round` of
the database, over doubles, for the summary (`SummedFee`, `app/finance.py:187`). A double is next to
the decimal it stands for, so the two can only differ where a fee comes to half a cent (`IsHalf`), and
there by a cent less in the summary. For which amounts they do is a constant, `ShortFees`,
and the theorem holds for any. The instance has one: 5 % of 100.10 less 99.40, which is 0.03 in
SQLite and 0.04 in the details.
`Summarize` and `ListLines` answer from one set of lines; `SummaryIsSumOfDetails` says
that the profit of the details falls short of the summary by at most a cent for each line with half a
cent of fee, and that the ranking, which is made from the same rows as the summary, adds up to it exactly.
Only SQLite is modelled: another database may round decimals. Without a currency filter `page_profit` adds up currencies as if
they were one: the property asks for one currency.

**`SourceQuality`** (`ShopifyLiveTransport`, `app/source_quality.py`). `Fetch` is one
response, whose body or meta file may not be written; `End`, `Gate` and
`ReplayPages` are the end of the run, the verdict that is recorded, and the one a replay
answers. A response that is lost is told by the ledger's retention status and not by
the gate, when the resource has another one; `VerdictIsEarned` says what each of the two
can and can not miss. Only live runs retain responses. Files that change after the run are
left out.

**`Replenishment`** (`calculate_replenishment`, `evaluate_replenishment`,
`build_sku_health`, `build_product_quadrant`). `sales` is a sequence in the order of the
row ids, because `RebuildDay` deletes rows and inserts them again and both
queries read in id order. Decimals are a number over a power of ten (`TenTo`), with at most
`Digits` digits, half to even. `Fits` is the bound under which an average keeps two decimals: sums
below 7 * 10^26 with the 28 digits of Python, below 700 with the 4 of the instance. Within
it a suggestion is what was sold and the safety stock, or one more (`BringsToTarget`).

The views work on the average as a double. It decides nothing but where a target is a whole number
(`TargetShown`), which a double above it makes one more, or where days of stock are just at a limit
(`Below`), which a double below it puts under. Which doubles do so are constants, `Overshot` and
`Undershot`, any sets in the theorem and the true ones in the instance (29 sold in 7 days, times
7, is 29.000000000000004). So the suggestion and the view differ by one in either direction
(`ViewsAgree`), except for a sku that sold nothing in a covered window: the suggestion asks for its
safety stock, where the view says "no_sales" and zero. The quadrant reads no rows before the days it
compares (`app/analytics.py:145`): asked for 30 days of stock beside windows of 7 and 14, it looks back
21 days. What the health view knows nothing of is then insufficient for the quadrant too, but only with
windows within the compared days does the converse hold, and only then do "urgent" and "reorder" exclude good
supply. A day counts for a suggestion only if the rows of all
shops are complete, and for an evaluation if one of them is. An explicit as-of date is not
modelled.

### The desks: `Desks`, `MCDesks`, `DesksProofs`

Eight components, composed in the same way; `DesksTypeOK` is their type
invariant, and callers and workers are interchangeable.

**`Content`** (`app/content_application.py`, `app/content_production.py`). A
revision, the job that generates it and the link between them, which is a commit of
its own (`LinkJob`; `CrashContent` comes in between). A run claims the job, loads the revision and
commits what it made; `LapseContentLease` lets a second run do the same.
`StartReview` compares the expected version with the loaded one and
`CommitReview` writes what differs. The guarantees are those the code can give: for
revisions no lapse touched (`disturbed`), and for reviews served one at a time
(`oneReview`). Cancellation is the matter of `JobEngine`. `upload_product_media` and the
branch of `review_revision` that no state reaches are left out.

**`Accounts`** (`app/account_admin.py`, the sessions of `app/employee_auth.py`).
An administrator's call is authorised and checked when it arrives and commits later
(`StartAdminCall`, `CommitAdminCall`), and so is a login, which takes its time over the
hash. `oneCall` chooses whether they overlap; if they do, two administrators can
deactivate each other, and a login can open a session on a password that was just reset.

**`Tickets`** (`app/tickets.py`). Transitions and assignments compare a version they
loaded. The idempotency key is not looked at on a transition, "assigned" may be
entered without an assignee, and `TicketLink` is never written: none of them is a
state of the model.

**`Alerts`** (`app/alerts.py`). One cause of each kind (stock of a sku, the latest run, the
snapshot), with the policy a refresh judges by. `fresh` remembers whether anything changed
since the last refresh; `RefreshedAlertsAgree` compares alerts and causes while it
is so. To acknowledge an alert that was resolved sets it to acknowledged
(`alerts.py:124`), which `fresh` excludes. Refreshes overlap over stock and snapshots.

**`FixtureSync`** (`app/sync_application.py`). `bundle` is the
run with the entry of each resource, `syncer` where a call is. Every commit is a step,
and `StopSync` cuts a call off between any two; a run whose call stopped stays
"running" and can not be retried. `StartRetry` looks for the key without a
lock, and `BeginBundle` meets the unique key. An entry is carried forward with its status
moved to `prior`, whatever it was: one that is carried twice is neither failed nor
succeeded any more for `calculate_overall_status` and `retryable_resources`.

**`DocumentImport`** (`app/knowledge_admin.py`, `app/background.py`). Uploads find
their document and version without a lock and enqueue in a second commit; attempts
commit the chunks, mark the version and enqueue the index job in three. Attempts die
and jobs are claimed again while an old attempt goes on. `ImportedIsWhole` holds for any overlap;
`LineagesHold` for uploads one at a time, since two racing uploads of one name begin
two lineages.

**`CatalogCrawl`** (`app/catalog_live.py`, `app/catalog_replay.py`, `app/crawler.py`). The
page loops, with the order of their checks: cancellation, deadline, refused pages,
repeated pages, the page and product limits. Listings end, go on or come back to a page.
The live limit counts products twice that are listed twice, a partial crawl writes no file,
and the fixture collector gets no `cancel_check`.

**`Products`** (`upsert_product`). An import looks its records up one by one; the first
insert takes the write lock. `TrailEndsAtPrice` has a part for any overlap (a price exactly
where there is a trail) and one for imports that come one at a time. The currency is neither updated nor
recorded in the history.

## 4. The runs

| Run | Question | Result |
|---|---|---|
| `JobEngineSafety` | Do rows stay recoverable, and do superseded attempts and cancelled jobs stay out, when leases lapse under live workers? | holds |
| `JobEngineLiveness` | With punctual heartbeats, is a job executed once at a time, does the engine implement `JobLifecycle`, and does every job settle, through two crashes or stops? | holds |
| `InboundLedger` | Are postings whole, final, within the request and, served one by one, an implementation of `StockLedger`? Is the reported progress what was posted? | holds |
| `Purchasing` | Do requests agree with their suggestions and implement `PurchaseFlow`? | holds |
| `PurchasingWithdrawn` | Can a withdrawn suggestion be requested again? | violated: its line stays |
| `KnowledgeIndex` | Is one version published, is a stale one about to be removed and a published one about to be indexed? | holds |
| `KnowledgeIndexCrash` | Does the index settle on published versions across a restart? | violated: nothing repeats the delete |
| `LiveSync` | Is what a run reports stored, does each failure leave its letter, do replays keep to their gates and letters settle once? | holds |
| `LiveSyncSkipped` | Has a resource been stored that a resumed run takes as done? | violated: its cursor was complete, its records were refused |
| `Orders` | Are orders the latest that came, with whole lines, final anchors and equal sales; is what arrives taken whole; do sums, verdicts and suggestions tell the truth? | holds |
| `ReplenishmentRounding` | Is the target stock the documented formula? | violated: the average is rounded first |
| `Desks` | Do approvals stand, does an administrator remain, are tickets, alerts, retries, documents, collections and price trails what they claim? | holds |

Properties of one component are joined where a single question asks for them all:
`ArrivalsAreTakenWhole` (`EveryRowAnswered`, `AcceptedOrdersAreWhole`,
`EventsAreJudged`), `OrdersAreTheLatest` (`LatestIsStored`, `LinesAreOfThePayload`),
`SuggestedAndJudged` (with `JudgedAlike` and `ViewsAgree`), `VerdictIsEarned` (with
`LedgerTellsLosses`), `RevisionsHold`, `AccountsHold`, `RetriesHold`, `DocumentsHold`
and `ReplaysHold`; each part has its own comment in its module.

### Bounds

- **Job engine.** One job and two runs are enough for every race of one row: the
  run that lost its lease and the run that took over; a third run adds only another
  loser. `MaxRetries = 2` has a retry that is granted and one that is
  refused; `MaxAttempt = 2` tells the first attempt from a later one (the bound stops the
  count, not the runs). Liveness has one job and two crashes or stops.
- **Inbound.** Two orders that share a sku (the lost update, the racing insert of
  a balance) of which one has two lines (a torn posting) and a purchase request
  behind it (two of sku 1, one of sku 2). Three requests: a confirmation against another one
  or a count, with a third in between. The payloads have a priced line, so that the flush in the
  middle of a confirmation happens, two that may be torn, and one that exceeds the request
  in one sku but not in all.
- **Purchasing.** Two suggestions of one sku, two requests, two calls; quantities
  0 and 1 (not ready and ready); versions of a suggestion up to 4 (generated,
  decided twice, submitted or withdrawn) and of a request up to 3 (created,
  submitted or edited, decided).
- **Knowledge.** Two versions, each with the index job of its import, two requests, two workers, two
  publications: a version that supersedes its sibling, is withdrawn, or comes back.
- **Live sync.** Two runs of both resources or of one, or three runs of inventory
  (`Scopes`): a source with its resume or replay, and a chain of two replays. Orders
  have two pages and a run may ask for one (`MaxPages`), so the page limit and a
  cursor in the middle happen; inventory has one page, so a first page can be the
  last. `MaxAttempts = 2`: a first run may be replayed, a second one is exhausted. Two
  requests and two keys, one restart (none in `LiveSyncSkipped`).
- **Orders.** Five events of two orders: one order with versions (a sale of two skus,
  one that drops a sku, a cancellation), one with times (a sale, a refund that moves the
  day); batches of two, two calls; overlapping calls get the events of one order. Files of up to
  four rows, so that a half has a middle of its own. Reports of up to three rows under two
  order numbers. Two event keys with two payloads each, two receivers. Two order lines
  in two currencies with a sale, a part refund and a full one, and a fee of half a cent.
  Two responses of each form (whole, old, truncated, broken) and two attempts of a write. A week of
  sales in two shops and the two days after it, three weeks that end on a higher day, and thirty
  days whose first nine sell, so that a window of 30 sees what one of 21 does not.
- **Desks.** One revision, two runs and two reviewers, two contents, one lapse. Two users,
  one administrator's call and one login at a time beside it, two sessions, one reset of the
  password. One ticket to version 4. Stock 0 and 1. Three fixture runs of two resources (a run,
  its retry and the retry of that) with one key and two calls. Three uploads under two names, of which one
  does not parse and one repeats a chunk, one crash or lapse. Listings of up to three
  pages that end, go on or come back, with a limit of two. Two products, two prices, two
  imports of two records.

Symmetry is used for runs of jobs, clients, keys, versions, workers, requests,
suggestions, callers and receivers in safety runs only; nothing but equality is tested on them.

`CHECK_DEADLOCK FALSE` is set in the purchasing, knowledge, live sync, replenishment,
`Orders` and `Desks` runs: with their bounds used up nothing is left to do, and the
system rests until the next request. The other runs check for deadlock.

### Fairness

`JobEngine!Fairness` is what the code's scheduling justifies: threads of a
process that is up make progress (weak fairness of `Dispatching` and
`Running(r)`), leases and backoffs elapse (`Passing`), a stopped process is started
again, and a thread that waits for `_executor_lock` or for a place in the
unbounded queue of the executor gets it in the end (strong fairness of
`Submitting`, since the lock is taken and released again and again). Users, crashes and
heartbeats owe nothing. No other component promises progress on its own: each waits for a
request, or is a job, whose progress is the engine's.

## 5. The proofs

Each proofs module EXTENDS its component and is laid out the same way: typing
lemmas for the operators that build rows, one lemma per action that needs more
than a line, an inductive step with one step per action, and the temporal
theorem last.

**`JobEngineProofs`.** `TypeInv` is `TypeOK` and what the program counter says of
the other variables. `CancellationStopsAttempts` follows from `TypeInv`: only
`ClaimJob` starts an attempt, and no flush clears the flag, since a loaded flag
is only ever raised. `SuccessIsLatest` needs `AttemptInv`: a run that still owns its row has
loaded the row's attempt. Both hold with leases lapsing at will.
`SingleExecution` and `LifecycleImplemented` assume `LeaseMayLapse = FALSE`; their
invariant `HeartbeatInv` has three parts: a run between its claim and its outcome owns its
row, under a live lease (`OwnerInv`); what it has loaded of status, owner and
retries is what the row holds (`FreshInv`), so that an unconditional commit is as good as a guarded
one; and a row that may run again has budget (`BudgetInv`).
`RunningStaysRecoverable` holds with leases lapsing: `SoundInv` says that a row agrees with its
status, that what a run has loaded, however old, does too, and that a cancellation a
run has seen is there to stay. So a late commit over the row of a successor mixes two rows that are each
sound, and the mixture is sound as well.

**`InboundLedgerProofs`.** `PostingsAreFinal` follows from the unique key
(`Conflict`) alone. `RequestsAreNotExceeded` needs `WithinInv`: counts within the
request are all that lines, loaded lines and plans ever contain; a torn line mixes two
such counts. `OrdersArePostedWhole` needs `WholeInv`: every line of an order that a
confirmation does not still have to look at has a posting planned or made, so its
commit leaves none out, and the unique key makes those it plans new.
`StockIsAsPosted` has a part for any race and one for requests served one by one. For the
first, `BalanceInv`: what a confirmation has read of a balance is at most what has been posted,
which only grows while nothing negative is posted; so what it writes is at most the new sum, and a posting that
is lost makes it less. For the second, `SerialInv`: what was read is still so. `LedgerImplemented` adds that a count that is written
is valid and the first of its order, and that what is posted was confirmed (`CountInv`).

**`KnowledgeIndexProofs`.** `StaleVersionsAreDoomed` holds for any overlap of
requests and jobs, with no fault: the invariant is inductive with the typing. The third look of the job
is what makes it so. `OneVersionIsPublished` assumes `serial`; `SerialInv` says that at
most one request is in progress and that what it has read is still so.
`PublishedGetsIndexed` needs `CalmInv` besides: a delete or a purge that is in progress may hit a version that
has been published again, and then its publication is still pending, so that the index job comes after it.

**`LiveSyncProofs`.** All four invariants of `LiveSync`, for any pages, limits, runs and clients.
Runs are numbered as they come and only the youngest holds the gate (`UsedInv`), so
the cursors a resumed run began with never move (`LineageInv`, `WalkInv`). `SuccessIsStored` needs in
addition that what is left to visit has pages left: a resource is ingested when
its last page was fetched, and at no other time (`StoreInv`). `FailuresLeaveLetters` follows the three commits
at the end of a run (`EndInv`); a letter's class never changes once it has one (`LetterInv`), so a gate
passed on a letter read long ago is still passed when the replay begins (`GateInv`). For
`SettledOnce`, `SettleInv` says, with requests one at a time, that a request in progress is about an open
letter that no live run replays, and which replays of a letter may still be alive.

**`PurchasingProofs`.** What holds under any overlap is typing (`TypesHold`). The rest assumes
`Unguarded \subseteq Apart`: the calls that write what they loaded (decide, edit, submit, direct,
cancel, order) come one at a time, while approvals, rejections, generations and drafts overlap
anything; the run makes the same assumption. `SubmittedAgree` is not inductive alone: a line names
the version of the suggestion it was made from, and while that is still the version, it has the
suggestion's quantity (`RowInv`). `Relies` says what each call in progress may still take for true:
the unguarded ones what they loaded, a draft only that it is not ahead of its suggestions.
`FlowImplemented` then maps requests to statuses, their lines and the suggestions that are submitted.

**`OrdersProofs`**, the way of sales data, one section for each part of it and one for
their composition.

- `ExternalOrders`. `LinesAreOfThePayload` holds for any overlap: a call that writes
  over an order names another event than the one it loaded (`LoadedInv`), so its UPDATE emits the
  event (`FlushNames`) and its commit has the lines of that event (`PayloadInv`). The rest
  assumes `serial`: what a call has loaded is still so (`SeenIsSo`), and an order is one
  event, as late as any that was judged (`LatestInv`). `SkippedIsNotLater` and `LaterStays`
  are the two facts about `Newer` this takes, for events that can be compared. `AnchorsStayPut`
  is the same step seen through `Inherits`. `SalesAreOfTheLines` adds `SalesInv`: the orders a
  call holds are as stored and what it computed still is. A step that writes changes
  the lines of some skus only, and those are in `Touched`: the sums of the others have equal terms.
  `TypeInv` types the book and the calls: snapshots stay finite, so the cost as of a day is one of them
  (`AsOfTyped`), and a backfilled line exists because its order does.
- `SourceQuality`. Until a run ends there is no verdict, and afterwards the evidence does
  not change, so a verdict is `GateVerdict` or `ReplayVerdict` of the evidence there is
  (`VerdictsHold`). `LossesTold` counts files and responses of each resource, which is what makes the
  ledger tell a loss.
- `EventInbox`. An entry keeps its payload, so what a call found without a lock is still
  so at its commit (`FoundIsSo`); the unique key sees to the rest.
- `FileImport`. `Parted` says of what bisecting the rows between two places gives that each row is
  in exactly one of records and rejections, and that records come in order. The
  recursive function of the bisection is shown to exist and to satisfy its equation, by induction
  on the width of an interval, before anything is said of its values.
- `OrderMerge`. The rows of a sheet fall into groups by their order number, each group in the order
  of the rows (`InOrder` enumerates a set of places upwards), and the lines of a group's records
  are put end to end: a line has its place in the result from the record it came from, so none is
  lost, and where two have one id all are numbered by their place, which tells them apart. Merging
  again finds groups of one record, and leaves each as it is. `MergeInv` says what each step has so far.
- `Replenishment`. A suggestion goes through three roundings: the average, the average times
  its days, and the target. `TenTo` is shown to exist and to satisfy its equation before
  anything is said of its values; `HalfEvenNear` says that half to even is off by a half at most, and
  `DecimalNear` that a decimal is off by half of its last place. An average within `Fits` keeps two places
  (`AverageOf`) and its multiple one (`AgainOf`), so that the three errors, each of which the
  next step multiplies, stay below one (`RoundedThrice`), and the ceiling is the sum or one more.
  Two evaluations are alike because snapshots of the same rows are related by a
  bijection, under which sums do not change (`SumRearranged`, `RowsSumAlike`), nor whether a whole row is
  there; `ReplInv` says that what is recorded, or about to be, is an evaluation of its own
  snapshot by the suggestion, which never changes. What the views tell of each other follows from
  the same sums over covered days (`ViewsHold`), whatever doubles do (`Overshot`, `Undershot`): a
  stock below seven days to the hundredth lasts less than seven days, and sales on fewer days
  are no more (`ShortOfStock`, `SoldOnFewerDays`).
- The parts together. A part that is not at work rests, in a first state of its own or of the
  composition (`WayInv`); the step of the one at work is covered by its own invariant. So
  `ArrivalsAreTakenWhole` and `PartsTypeOK` are theorems of the specification that TLC runs. `SalesDataIsKept`
  states the rest for it: the composition implies the specifications of orders and events, and
  each other part follows its own specification or rests, in which case it shows nothing.
- `Profit`. The lines do not change, so a report is what its operators say (`Answered`,
  `Paged`). The proof is that of a double sum: the skus of a ranking part the lines of a currency.
  The fees of the summary and of the details differ by nothing or a cent for each line (`AmountsAre`), and
  not at all but at half a cent, so their sums differ by at most the number of those lines
  (`DetailsNear`), whatever `ShortFees` is.

**`DesksProofs`**, the desks, one section each and one for their composition.

- `Accounts` and `Tickets` hold with calls one at a time, and both need that what a call has
  read is still so at its commit (`AccountSeenIsSo`, `TicketSeenIsSo`): there is another
  administrator, and the sessions it closes are all that are open; the assignments it ends are
  all that are open. `AccountsAreKept` adds that members are active and sessions follow
  the password, also while a call is in progress. `TicketsAreKept` numbers the assignments
  of a ticket by their count (`Numbered`), so that a new one is none of the old ones.
- `FixtureSync`. `RetriesAreMadeOnce` holds for any number of runs, resources,
  keys and overlapping calls, any of which may stop. The invariant adds to `RetriesHold`: a call
  writes a run that is running and that no other call serves
  (`CallInv`), so that a run that is over is never written again and what a
  retry was granted on stays true; two retries of one run have
  different keys (`KeyInv`); what a retry did not ask for is not there yet or is as its parent has it
  (`CarryInv`), and what succeeded, here or before, is not retryable (`EntryInv`), so that
  no retry below can ask for it; an answer names what was asked (`AnswerInv`).
- `Alerts`. `RefreshSeenIsSo`: what a refresh is about to write is judged by what is still so,
  unless `fresh` says that something changed.
- `CatalogCrawl`. The pages visited are those within as many steps of the first as there were
  pages before (`Walked`), and each page leads to one that was visited or to the one the crawl is on
  (`BeforePage`, `OnPage`). So a crawl that found the end has found all, and one that came
  back to a page has gone round. `PagesWithin`, which is recursive, is shown to exist
  by a closed form: the pages at the ends of ways of that length.
- `DocumentImport`. Chunks are committed all at once and before the version is ready
  (`Chunked`), whatever overlaps. Without mishaps a running job has one attempt
  (`CalmJobs`); with uploads one at a time the number that was drawn is the next (`Lines`).
- `Content`. A revision that no lapse disturbed has one run, which owns its job and has its
  status to itself until both are settled (`OneRun`, `RunOwns`); then the revision says how the
  job ended (`SaysHow`), and only what was written is reviewed (`ReviewSeenIsSo`), so neither
  outcome can come after a review.
- `Products`. What an import holds extends what is stored: the trail with the rows it is about to add
  ends at the price it holds (`SessionHolds`). `AfterAll`, the fold of an import over its batch, is taken
  record by record.
- The desks together. `DesksAreTyped` joins the invariants of the desks, each of which rests
  in a first state while another is at work. Those of `Tickets` assume calls one at a time; its
  types hold for overlapping calls too (`TicketTypes`: assignments stay finite, so that their
  number is one, and a call that assigns has someone to assign to). A step of the desks is a step of
  one of them or leaves it alone, so the composition implies the specification of each
  (`DesksAreEach`), and `DesksAreKept` carries all their properties over to what TLC runs.

**`SumTheorems`.** The facts about `SumFunctionOnSet` that the balances, the sales, the profits and
the counts need: a sum is an integer, does not depend on the order, grows with its terms,
and a sum of sums over a partition is the sum over the whole (`SumOfSums`). The theorems of the
library that state induction take an operator, which the provers cannot instantiate; these
proofs go by a minimal counterexample instead, which is a set (`MinimalSubset`,
from `WFMin`; `LeastNumber` for numbers). The table behind the recursive fold is shown to
exist and to be unique first (`TableExists`, `TablesAgree`).

What is assumed is in the named ASSUMEs of the modules: shapes of the constants, that NULL is
none of the values it stands beside, that a caller of a live sync names each resource once, that orders,
listings and reports have finitely many lines, pages and rows, and that no resource is called
"unknown", the name `SourceQuality` gives to a response without one. TLC evaluates all of them in
the runs. The hypotheses of the theorems are three: `LeaseMayLapse = FALSE` where a claim
needs punctual heartbeats, `Unguarded \subseteq Apart` for purchasing, and inside the properties the
switches (`serial`, `oneCall`, `oneReview`...) that say which part holds for overlapping calls.

**Only model-checked:** `JobsSettle`, since liveness under fairness is outside the prover, and
the properties of the runs that TLC refutes. Every other invariant and action property
of the passing runs is stated by a theorem.

## 6. Where code and documentation disagree

Four are runs that TLC refutes and entries of `findings` with the line that states the
opposite: a withdrawn suggestion cannot be requested again; a restart leaves chunks of an
unpublished version in the index; a resumed sync takes a resource as done that was never
stored; and the target stock is not the formula of `README.md:608`, since the
average is rounded before it is multiplied again: eight sold in seven days come to a
target of nine, where `app/dashboard.py:213` shows eight.

Others show in the models, or were met while modelling, without a run of their own:

- `app/finance.py:185` says that the lines of the details and the ranking "永远相等" (always equal) the total,
  since fees are rounded line by line. The details are not: they round a decimal half up
  (`app/finance.py:447`), the total a double in SQL. A line of 100.10 with 99.40 refunded, at 5 %, has a fee of
  0.03 in the summary and of 0.04 in the details. Bounded by `SummaryIsSumOfDetails`.
- The quadrant with `days_window` 30 beside windows of 7 and 14 averages the last 21
  (`app/analytics.py:141`): a sku that sold only before them is "insufficient",
  though the health view has its sales.
- `build_sku_health` multiplies a double by its days and rounds up: with 29 sold in 7 days it
  has a target of 30, where the decimals of `calculate_replenishment` give 29.
- With two jobs and a scan window of one, `JobsSettle` fails: a job cancelled while
  it was queued is never claimed and hides the one behind it
  (`app/background.py:391`; the window of the code is `worker_concurrency * 2`, filled by as
  many cancelled jobs).
- With `PermanentErrors = TRUE`, `JobsSettle` fails: an error with `retryable=False` does not
  count as a retry (`app/repository.py:431`), and the job runs again for ever. Content jobs raise such errors.
- A run can pop its registry key before the submitting thread attaches it and resolve
  its future after that thread has looked (`app/background.py:79`): the key stays
  (`LeakedKey`), and the dispatcher skips the job until a restart; `JobsSettle` makes
  an exception of it.
- Two racing counts of an inbound order can be mixed, and leave more damaged than received.
- `delete_by_version` removes from memory before it writes the file
  (`app/rag/vector_store.py:151`): when the write fails, the job that compensates finds nothing left to remove.
- `order_amount` of a live order is set while its lines are walked (`app/main.py:2569`): an
  order without lines takes the amount of the one before.
- A failure that is carried forward twice disappears from the chain of retries, although
  `app/external_sync.py:195` says it must not (`initialize_resources`, line 226).
- Unmapping a product loses the anchors of its lines at the next update of the
  order, against the comment at `app/external_orders.py:31`.
- A cost file that repeats a row of another file records it again, under another source
  reference.
- The revision of a generation job that crashed between its retry's commit and its mark stays
  "generating"; a document version whose enqueue died, or whose chunks were committed before a
  crash, stays "parsing".
- For a sku that sold nothing in a covered window, `calculate_replenishment` asks for the
  safety stock that is missing (`app/replenishment.py:115`), while `build_sku_health` shows "no_sales" and
  suggests nothing (`app/dashboard.py:206`).
- The hash of the sales behind an evaluation depends on the order of the rows, so the same sales may be
  evaluated twice. The growth of the quadrant compares totals of windows of different lengths.

## 7. Limits

- Workspaces, warehouses and the visibility checks of routes are left out (roles and
  sessions are in `Accounts`); the models are of one workspace and one warehouse.
- Some races the code loses, and the property that they break is then stated for calls that come one
  at a time: a late count that sets a confirmed order back, a cancellation beside the generation of an
  inbound order, two publications, a late delete of a new publication's chunks with two workers, a letter
  replayed twice, two reviews, two administrators, two transitions of a ticket, and two imports of one
  product. A behaviour chooses at its start whether calls overlap (`serial`, `oneReview`, `oneCall`,
  `oneClerk`, `alone`; for purchasing the constant `Apart` does), and those properties ask for calls that
  do not; the hazards of `PROJECT.json` say of each race what is shown nevertheless.
- Answers, error codes and idempotent replays of a stored answer are left out
  where they write nothing.
- The database is SQLite with one writing transaction at a time. An UPDATE with its
  commit is one step; reads are steps of their own.
- Job bodies are modelled by how they end in `JobEngine`, and in full in `KnowledgeIndex`,
  `Content` and `DocumentImport`.
- Parsing, embedding, pricing, rendering and platform protocols are abstracted to
  their outcomes.
- The command line is a process of its own, with a gate of its own; the models have one process.
- Not modelled: retrieval and the assistant, tool servers, the file store and the user
  interface (they read, and nothing reads back what they keep); cockpit and workbench
  reports and export formats (they format what they read); migrations; visual
  workflows of content production.
