# A TLA+ model of dtex

dtex moves rows from sources (databases, SaaS APIs, files) to destinations
(DuckDB, BigQuery, Klaviyo). It has no server: a scheduler starts a *run*, the
run loads some *streams* of one source into one destination, keeps its memory
in tables of that destination, and ends. Everything that is hard about it
happens between runs: a run is killed and the next one resumes, two runs
overlap, a job that was given up still executes.

This directory models that core, the way its connectors walk their services,
and what a run resolves before it starts, and proves the main properties. It
needs only TLC, the TLA+ community modules and TLAPS.

```
tlc -config stream_load.cfg MCStreamLoad        # a run
tlapm EngineProofs.tla                      # the proofs of a module
```

## 1. Inventory

### 1.1 Parts, their state, and what can go wrong

| part | state it keeps | operations | what is hard | what makes it correct |
|---|---|---|---|---|
| **stream load** `engine/runner.py:_run_one_stream` | locals of one load: seed, floor, observed cursor, coalescing buffer, time of the last flush; in the destination: the table and the `_dtex_state` row | seed, pull, coalesce, write, flush, final commit | kills between any two calls; rows that arrive late or tie; streams that yield out of order; a throttled flush; a transaction around all of it, or none | no row is stepped over; the high-water mark is monotone; data and cursor become visible together; everything lands in the end |
| **leases** `engine/runner.py:_LeaseCoordinator`, lease hooks of the destinations | `_dtex_leases`: run, status, heartbeat of each stream; in the run: `_live_by_other`, `_held`, `_last_beat` | read, acquire (compare-and-set), beat, release | stale takeover, late messages, lost beats, crashed holders, a window between the statement and its bookkeeping | a stream is never executed twice; a live lease is kept; an ended or dead run blocks nobody for ever; the cap holds |
| **dispatchers** `engine/runner.py:run` | streams not started, being executed, their outcome | sequential loop, thread pool with a pump, SIGTERM handler, drain, `finally` | which thread beats, what a failure cancels, what an interruption waits for | a run that works is seen alive; a run ends |
| **run_tag** `engine/runner.py:run_tag` | one semaphore per destination, a pool, the answers | run every pipeline with a tag | pool threads blocked on semaphores; failures while planning, in the run record and in the close hook; signals inside a `finally` | caps hold; answers agree with the run records; one pipeline's failure does not end the sweep; it ends |
| **normalize and drift** `engine/normalize.py`, `runner.py`, `ensure_schema` | the resolved schema, which later batches extend; the columns and the partition of the table | infer, merge, coerce, evolve, report | a type inferred from the first batch, late columns, two builds that evolve one table from copies they read | a column never disappears or changes its type; no write names a column that is not there; a value fits its column or its loss is reported |
| **configuration, discovery, registry** `engine/config.py`, `engine/discovery.py`, `registry.py` | the registry of the import under way | parse, layer, validate, resolve, import connectors | precedence of six layers with nulls; imports on several threads | the documented precedence; a connector has its own streams and nobody else's |
| **BigQuery destination** `destinations/bigquery` | table, staging tables, GCS objects, jobs in the service; `replace_truncated` of the connection | `write_batch` (append, merge, replace), `commit_state`, lease hooks, `ensure_schema` | a job whose answer was lost is submitted again and both run; late jobs; partial clean-up | whole batches only; one row per key; acknowledged rows stay; a replace is a snapshot |
| **DuckDB destination** `destinations/duckdb` | one file, one connection, the open stream transaction | the same hooks | calls that must join the open transaction or start one | as above, by transaction |
| **Klaviyo destination** | a state backend (DuckDB or BigQuery) | send events, delegate state and leases | a batch sent request by request | no event is lost; repeats only after a failure |
| **table walks** `sources/cockroachdb`, `sources/postgres` | `last_pk` or `floor`, the running maximum; in `state_blob`: `bootstrapped`, `bootstrap_last_pk`, `bootstrap_cursor_max` | page in key order or in cursor order, record progress, hand over | rows stamped behind the walk; ties at a page end; progress recorded only when the generator is resumed; a page cap; a full refresh with progress on record | the persisted state passes no row that is not landed; a sweep loses no ground; it gets through |
| **requests** `sources/*/client.py` | tokens, attempts, page numbers or tokens | fetch page by page, poll reports, renew tokens | answers that are tried again or not, tokens that expire or are voided, a collection that changes between two pages, a report that never ends | a complete walk gave every row that stayed, once; retries are used up before it fails; it ends |
| **extraction** `sources/*/source.py` | windows, parts, the batch held back, the cursor to be observed | plan windows, go through parts, yield, observe | batches that span windows, a window that is refused, days that are not over, caps | the saved cursor passes no row that has not landed; runs catch up |
| **RevenueCat** `sources/revenuecat` | the tables it landed before, the sweep watermark | walk the customers, plan whom to ask, ask | no feed of changes; caps; customers seen behind the walk; runs that die between walk and plan | the watermark passes no checkpoint unprocessed; purchases are found |
| **secrets** `secrets/` | resolvers and their instances, plugin files loaded, per process | register, load on first use, resolve | first use on several threads, a plugin file that raises, projects that register one scheme | one resolver per scheme, the project's own where it has one; a run has what it requires |
| **CLI** | none | `state reset`, `state set`, exit codes, listings, scaffolding | setting a cursor while builds are under way | setting it to a correct value makes no build skip a row |
| **logging** | a file per run | emit, redact | – | – |

`PROJECT.json` lists every part with what is modelled of it, and each hazard at
the line where it bites.

### 1.2 How they interact

```
scheduler / CLI --> run ------ read_state ------------------> destination
                     |---- read_leases, acquire_leases ----->  (_dtex_state,
                     |                                          _dtex_leases,
                     |  for each leased stream                  tables)
                     |     _run_one_stream <-- batches -- connector generator
                     |        |-- write_batch --------------->
                     |        |-- heartbeat_leases ---------->
                     |        `-- commit_state (flush, final) >
                     `---- release_leases, write_run_record ->
```

Runs share nothing but the destination's tables. Within a run, the generator of
a connector is driven by the thread that executes the stream; with several
threads, the main thread is the pump that beats the leases. A tag sweep
runs several pipelines in one process: their runs share the semaphores of the
destinations, the resolvers of secrets, the plugin files and the import of
connectors.

## 2. Modules

| module | models | composed with |
|---|---|---|
| `AtLeastOnce` | the promise of a stream: what is offered has landed or will be asked for | abstract |
| `StreamLoad` | one stream, run after run, against a transactional or a plain destination | implements `AtLeastOnce` |
| `Leases` | many runs of one source: leases, dispatchers, interruptions, time | – |
| `SharedStream` | the runs of `Leases` loading one stream and overwriting its state row | extends `Leases` and implements its `Spec` |
| `WholeBatches` | the promise of a table: it changes by whole batches | abstract |
| `BigQueryLoad` | `write_batch` on BigQuery with its jobs and retries | implements `WholeBatches` |
| `TableWalk` | the walks of CockroachDB and Postgres over a table that changes, driven by the engine's loop | contains the part of `_run_one_stream` that it needs |
| `Fetch` | how each client fetches one collection: requests, retries, tokens, reports, pages | – |
| `Extract` | how each connector plans its windows, yields and observes, run after run | takes a unit of `Fetch` as one step |
| `Purchases` | RevenueCat: the walk over customers and the plan of whom to ask | takes an answer of `Fetch` as one step |
| `TagSweep` | `run_tag`: pool, semaphores, run records, signals | takes the load of a pipeline as one step |
| `Coercion` | `coerce_value` as a table from kinds of value to kinds of value | extended by `Schemas` |
| `Schemas` | the schema of a stream and of its table, batch by batch, of several builds | – |
| `Layers` | precedence of parameters, targets, folders, streams in scope, as operators | extended by `Resolution` |
| `Resolution` | plugin files, secret resolvers and connector imports on several threads | – |
| `MC…` | the instances that TLC checks | one per module |
| `…Proofs` | theorems and proofs | `EngineProofs` is about `StreamLoad` and `TagSweep`, `LeasesProofs` about `Leases` and `SharedStream`, `ConnectorProofs` about `Fetch` and `Purchases`, the others about the module they are named after |

### 2.1 StreamLoad

The variables are the locals of `_run_one_stream` and the two tables it writes.
`target` and `cursor` are what another session reads; `loaded` and `flushed`
are what the run's own connection reads, which differ inside an open DuckDB
transaction. `pc` follows the code: `pulling` (in the `for batch in batches`
loop), `writing` (the buffer is due), `written` (`write_batch` returned, the
flush comes), `committing`, `closing` (the end of the `with` block).

| action | code |
|---|---|
| `Begin…` | the seed of `_seed_value`/`_apply_lookback`, `since:`, or none in a full refresh; the floor |
| `PullBatch`, `SourceExhausted` | `next(batches)`, `Cursor.observe`, the coalescing buffer and its tail |
| `WriteBatch` | `hooks["write_batch"]` |
| `FlushState` | `_maybe_flush_state`: throttle, `skip_state`, `ordered`, `_floor_cursor` |
| `FinalCommit`, `CommitTransaction` | the terminal `commit_state`; `COMMIT` |
| `Interrupt` | an exception, signal or kill; a write in flight may have landed in part |
| `ResetState` | `dtex state reset` between runs, on DuckDB |
| `Arrive` | the source, outside the program |

Rows are abstract, with an integer cursor value. The interesting data are ties
(`CursorOf` is not injective), late rows (`Lateness`) and order (`ordered`).
`ConnectorAssumption` is what docs/03 asks of a connector: rows arrive no
later than its lookback and not before `initial_value`. `TiesCovered` is *not*
assumed by the module; the theorems name it where they need it. What a
connector does with a page is the matter of `TableWalk`.

### 2.2 Leases

One record per stream is the row of `_dtex_leases`; the other variables are per
run. A run goes `new → read → running → final → ended`, or through `shutdown`
when it is interrupted on a pool, or to `dead`. `StartStream`, `Batch`, `Pump`,
`EndStream` are both dispatchers; `Sequential` is the test of the code, which is
evaluated on the leased streams and not on the thread count alone.

Time is kept as ages: of a heartbeat (up to `Stale + 1`), of `_last_beat` (up to
`Interval`) and of the last batch or wake-up (`gap`). `MaxGap` bounds how long a
stream may be silent and is the one assumption about the connector: with a
larger gap a healthy run is taken for dead, by design. A heartbeat stamps
`_last_beat` before it writes, and the write may be lost: `MaxMissed` bounds how
many in a row.

`AcquireLost` is the window between the statement and `_held`; `ReleaseFails`
is `_safe_release_all` swallowing an error; `Interrupt` on a pool leads to
`shutdown`, where streams go on and nobody beats.

### 2.3 SharedStream

Adds to a run of `Leases` what its load of one stream does to the table and the
state row. `prior` is the copy of `_dtex_state` that a run takes *before* it
looks at the leases. Each action is an action of `Leases` plus its effect on the
load, or leaves the variables of `Leases` alone, so the module refines `Leases`
(theorem `LoadsFollowLeases`) and inherits its theorems. `SetState` is
`dtex state set` with "a value you already know is correct", as its docs say: it
takes no lease and may come at any moment of a build. Rows are `1, 2, …` in cursor order;
a flush that is throttled and one that is not are both allowed after a write.

### 2.4 BigQueryLoad

The client half is `write_batch` as a `pc`: `upload`, then `load`, then `merge`
and `drop` for a merge stream, `truncate` first for a replace stream. The
service half is the set of accepted `jobs`; each has effect at once when
BigQuery runs it (`RunJob`), or fails without one (`FailJob`). `Submit`,
`RequestFails`, `PollFails`, `PollTimesOut` and `JobFailed` are
`run_with_retries`: after a transient error a new job is submitted, and the old
one may exist and run later. A `Copy` of a row names the attempt that wrote it,
so that an append that landed twice is two copies.

`lost`, `acked`, `before` and `straggled` record history and no action reads
them, other than to define the properties. `straggled` becomes true when a MERGE
is still queued although its `write_batch` is over and its staging table is
there (a kill, or a drop that failed): then a late MERGE may put an older record
over a newer one, and `AckedRowsStay` does not promise otherwise.

### 2.5 TableWalk

`StreamLoad` takes a connector's promise for granted; here the connector is
modelled page by page. `table` holds the cursor value (`updated_at`) of each row,
`landed` the version of it in the destination, `cursor` and `blob` are the
`_dtex_state` row, and the other variables are the locals of a run and of its
generator. The table starts empty, so that every table is reached by
transactions.

| action | code |
|---|---|
| `Commit` | a transaction at the source, outside the program |
| `Begin` | `_seed_value`, the `State` of the run, the choice of `extract_stream` |
| `ReadPage`, `ReadNothing` | one statement of `_extract_bootstrap_pk` or `_extract_table_keyset` / `_extract_query_keyset`, `cursor.observe`, `yield`; the coalescing buffer of the engine |
| `Resume` | the engine asks for the next batch: the lines after the `yield`, where the sweep records its progress, and the end of the walk when the page was short |
| `PauseSweep` | `bootstrap_max_pages` is reached |
| `HandOver` (in the two above) | the sweep is complete: `bootstrapped` is set and the running maximum is observed |
| `WriteBatch`, `FlushState`, `FinalCommit` | as in `StreamLoad`, for a destination that merges and commits each call |
| `Interrupt`, `ResetState` | an exception or kill; `dtex state reset` |

`Sweeps` says which kinds of stream are explored: with `TRUE` the table stream of
CockroachDB, with `FALSE` a stream of Postgres or an author-written query. `Bulk`
lets one transaction stamp several rows alike. `began` is a history variable: the
newest stamp when the walk under way began, which for a sweep over several runs is
the first of them. `LookbackSpans` is what CockroachDB's README asks of the
operator, that the lookback be longer than the bootstrap, as a guard of `Commit`:
a sweep that outlasts its lookback may lose updates and says so. `Lateness` is how
far behind the newest stamp a transaction may commit (a clock, or a transaction
that took its `now()` at the start).

### 2.6 Fetch

`api` is fixed for a behaviour and says which client it is about; the rest is
one machine. `Policy` gives for each loop

* `tries`, how often it sends, and `again`, the answers after which it sends
  once more (`Again`);
* `chokes`, the pairs of an answer and a `Retry-After` at which the call ends at
  once with tries left: the header does not parse as the `int()` or `float()` it
  is put through, `time.sleep` refuses it, or the client does (the Klaviyo
  destination, above a minute or when it is not finite);
* `last`, the answers of 200 that the client takes for a page without rows and
  without a next one: a body without the fields of a page for most, one without
  a body for Intercom (`_request` returns `{}`), one that is not JSON for Meta.

`Ends` says when a page is the last one, `Unfollowed` which clients do not go to
a next page that is announced in a way they do not expect. `Send` puts a request
on its way (for a token, a report, its status or a page), `Answer` is whatever
comes back: `Trouble` (nothing, 429, 5xx, not JSON, no body, an error in the
body, a status above 400, also an answer lost after the service acted),
`TokenGarbled` (of Google Ads, which leaves that to the loop of the request),
`Minted`, `Unauthorized`, `Submit`, `Poll`, `Misread` (one of `last`, or a status
that cannot be read and counts as "not yet"), `Page` (with `stray` for a next
page that is not followed). `misled` records that the walk ended on one of the
last two. `Change` inserts and removes rows between pages, `Age` and `Revoke`
spoil the token, `Deadline` ends the wait for a report. The Klaviyo destination's
delivery is one of the clients: its pages are the payloads it sends. Waiting
times are left out, except for the `Retry-After` headers above. The operators
`ShipHeroUnauthorized`, `KonnektiveEnds`, `MetaPoll`, … are named for the client
whose lines they stand for.

### 2.7 Extract

Again one machine, with `stream` fixed for a behaviour: `…Plan` are the windows
and parts a connector computes from its cursor, `…Notes`, `…Unit` and
`EndObserved` what it remembers or observes after a row, a unit and the walk.
`Fetch` brings the rows of a unit, `Read` goes through them in the order that
matters, `Yield` hands the batch over, and the observation that follows a yield
in the code is `due` until the engine resumes the generator (`Resume`, where
`write` says whether a flush came first). `MetaBisect` splits a refused window;
`CapReached` ends a capped walk; `Kill` ends a run anywhere. A tick is a day or
a second. `Lag` is how long after its tick a row may still change and
`Lag <= Lookback` is what the connectors ask of the operator; for profiles
`Lookback` is not zero either (the manifest declares `lookback: 6h`), as their
filter is strict: two profiles updated at one tick would otherwise lie on both
sides of a flush. Snapshots replace their table, but for those the manifest
merges (`Merged`: Intercom's companies and articles, and alerts), whose table
keeps the rows that are gone. `Change` has a file of a listing carry the time at
which it appeared: one that is copied in with an older modification time than the
last listing is below the cursor, and no run loads it (section 3).

### 2.8 TagSweep

A pipeline goes `queued → waiting → planning → opening → loading → recording →
closing → printing → done`. `Acquire` and `Release` are the semaphore of its
destination, `free` its permits. `Cap(d)` is asked of the first pipeline that
names the destination and is without limit when that one does not resolve.
`Load` succeeds, fails or is cut by a signal; `Record` writes the run record or
fails to; `CloseFails` is a close hook that raises, which in the sequential loop
ends the sweep and in the pool becomes the answer of its pipeline. `Signal` is
SIGINT or SIGTERM: `Abort` unwinds a sequential run through its `finally`,
`Terminated` ends a process that has no handler in force, `KeyboardInterrupt` is
raised in the thread that waits for the pool, or inside a `finally`, whose rest
is then left undone (`cut`). Pipelines are
numbered in the order of their names, which is the order in which they are
started and reported.

### 2.9 Coercion, Schemas

A *kind* stands for all values that every branch of `normalize.py` treats alike:
a bool, an integer of 0 or 1, one that fits in 64 bits, one that does not, a
float with and without a fraction or beyond 64 bits, a dozen kinds of text, also
of digits beyond 64 bits. `Accepted` is what each
`_to_<type>` makes of each kind; `Fallback` is what `warn` does with the rest.

A build in `Schemas` infers or takes its schema (`Begin`), makes the table fit
(`DuckEnsure`; on BigQuery `ReadTable`, then `CreateTable` or `UpdateTable` with
another build's step possible in between), and for each batch `Pull`s it, adds
new columns (`Evolve`), coerces (`Normalize`) and writes (`WriteBatch`). `copy` is
the table as the build read it last; `update_table` carries the ETag of that read
and fails when the table has changed. A DuckDB stream that fails gives back what
it added; its `INSERT` fails on a text that is no JSON in a JSON column (`Holds`),
which BigQuery, where the type is loaded as a STRING, takes.

### 2.10 Layers, Resolution

`Layers` holds the parts of RESOLVE that are functions of their input. TLC
evaluates them for all combinations of layers and values in the initial states of
`Resolution` (`ResolvedAsWritten`).

In `Resolution` each thread resolves one pipeline after another: `EnterPlugins`,
`Register`…, `LeavePlugins` under the lock of the plugin files; `OpenScope`,
`Decorate` and `ImportMore`…, `LeaveScope`, `CloseScope` for the import of the
connector; then its references, in order: `ReadPlain` for environment and profile, and for a
URL `FirstLookup` and `LoadEntryPoint`… (the scan, which a second thread does not wait for),
`Lookup`, `Publish` (the instance, checked again under the lock), `Resolve` or
`Raises`. `load_project_plugins` is called by `run_tag` before its pool starts;
that several threads are in it at once happens when a program calls `run()` from
threads of its own.

`sys.modules` is one for the process, and nothing locks it. Between `LeaveScope`
and `CloseScope` a thread loops over it to find the modules of its own import
(discovery.py:333); a thread that puts a module in or takes one out meanwhile
(`Disturb`, in the import of another connector or plugin file, or whatever a
factory, an entry point or a run under way imports, `ImportMore`) makes it one of
the `disturbed`, and `CloseScope` may then fail with "dictionary changed size
during iteration", whatever the connector is like. That end has a `reason` of its
own, "modules", and it takes the place of another error of the import.

### 2.11 Purchases

`seenAt` and `paid` are RevenueCat's, `copy` and `landed` are what earlier runs
landed of them, `watermark` is in the persisted state. A run is `BeginWalk`,
`ReadRow`…, `EndWalk` (the stream customers), `BeginPass`, `Ask`…, `EndPass` (the
stream subscriptions); `BeginPass` computes `Targets` and `NewWatermark` as
`plan_targets` does. The clock is one for all; customers act at its odd instants
and runs start at even ones, which is all the order that the comparisons need.
Which customers the operator's queries name (up to `hinted` of them, which may be
as many as the cap) and which days the reconciliation found short (`heals`) is
left open. `Pay` leaves a customer with an active subscription or without one;
`held` is what the landed table says of that, and `Hot` is who is held active
there, without a term, or ended within the window. Where `capped` is set
(`customers_max_pages`) the walk may end before it is through (`EndWalk`), which
succeeds and leaves the copy of the unread as it was. `skipped` is a history
variable: hot customers for whom a pass had no room, and those whose rows a walk
left unread, until they are asked for. `Share` is `cap // 4`, for caps of four and
more, scaled down: the sweep's least part of the cap. `See` keeps the checkpoints
of two customers apart; what happens when they coincide is among the RevenueCat
entries in the list of section 3. A run stops at the first stream that fails, so a
walk that was killed is not followed by a pass.

## 3. Runs

| run | what it shows | distinct states |
|---|---|---|
| `stream_load` | `DataAndCursorFlipTogether`, refinement of `AtLeastOnce`, and that every row is `Delivered` | 219 893 |
| `leases_sequential` | `NoDoubleRun`, `WorkingLeaseIsLive`, `EndedRunHoldsNoLease`, `DeadLeaseExpires` for runs with one thread | 47 415 |
| `leases_pool` | `CapRespected`, `OverlapOnlyInShutdown`, `LiveLeaseKeepsOwner`, `RunEnds` for pools | 76 049 |
| `shared_stream` | `NothingSkipped` with runs that overlap, after a takeover, and with `state set` in between | 362 882 |
| `bigquery_load` | `NoSpareCopies`, `AckedRowsStay`, `ReplaceIsSnapshot`, refinement of `WholeBatches`, `WriteEnds` | 406 300 |
| `table_walk` | `PassedRowsLanded`, `SweepKeepsGround`, and that a capped sweep `CatchesUp` | 389 398 |
| `requests` | a walk of every client gives each row that stayed, once, unless its pages have numbers or the service misled it (`WalkIsExact`); its tries are spent only on as many troubles in a row (`TroubleIsOutlasted`); it loses its token only when that was voided (`OnlyRevocationLocksOut`), and ends (`EveryWalkEnds`) | 53 291 |
| `extract` | for every stream `PassedIsLanded`, `SteadyRunIsExact` and `CatchesUp` | 684 741 |
| `tag_sweep` | `CapsHold`, `AnswersMatchRecords`, `OnlySignalsStopTheSweep`, `SweepEnds`, sequential and in pools of two and three | 126 303 |
| `schemas` | `NoUnknownColumn`, `ValuesSurviveOrAreReported`, `TableOnlyGrows` on both destinations | 1 340 410 |
| `resolution` | `OneOwnResolver`, `SoundFilesLoad`, `RegistriesAreOwn` (imports do not mix, and a sound connector is refused only when `sys.modules` changed under the loop), `ResolvedAsWritten`; no thread waits for ever (deadlock is checked) | 526 782 |
| `purchases` | `NoCheckpointIsPassed` but for who was `skipped`, and that `PurchasesAreFound` unless the hot and the hints take up the cap | 828 289 |

Type invariants are not repeated in the runs where a theorem proves them
(section 4).

Where the code does something else than a document, comment or changelog says,
the model follows the code, and the properties say what holds of it. These are
the divergences met. In the engine:

* docs/12-configs.md:118 says that `since:` does not change the state; such a run
  commits a cursor like any other.
* A slow, healthy stream is never taken for dead (types.py:1919, CHANGELOG.md:983):
  with several threads and a single leased stream nobody beats, since the runner
  beats itself only when the *leased* streams leave one thread.
* A stream never double-runs (CHANGELOG.md:987): an interrupted pool waits for its
  threads and does not beat meanwhile, so another run may take its streams over.
  `OverlapOnlyInShutdown` says that this is the only case.
* docs/03-connector-contract.md:598 has the persisted cursor only move forward: a
  run that read the state before another one committed moves it back.
  `NothingSkipped` holds all the same.
* A second signal while a pool shuts down ends the wait; `state set` writes back
  the blob and the row count it read, over what a build has flushed since.
* docs/02-architecture.md says that a destination's cap wins over `threads`:
  `run_tag` asks it of the first pipeline only, and there is no cap at all when
  that one does not resolve. `CapsHold` is about the cap that was asked for.
* `last_run_tag_parallelism` keeps the value of an earlier parallel sweep after a
  later sequential one (runner.py:1782).
* A strict contract looks at the first batch only (runner.py:1176 against
  docs/05-destinations-and-state.md:180): later batches add columns.
* docs/02 says that tables evolve to wider types: nothing widens. A column
  inferred INTEGER makes 1.5 a NULL under `warn`. docs/05 says that an incompatible
  change of type is a hard error: `ensure_schema` compares names. Inference takes
  the first type that fits, so `["abc", 5]` is INTEGER. An integer beyond 64 bits
  still fails the writer under `warn`, against the comment of `_drift_fallback`.
* The build that loses the creation of a BigQuery table writes to the table under
  the other's partition (hence `found` in `PartitionRespected`).
* A text of digits beyond 64 bits is coerced to an integer that no INTEGER column
  takes, so the writer fails under `warn` here too.
* discovery.py:333 loops over `sys.modules` without a lock while other pipelines
  of a sweep import: the loop may raise, and a sound connector then fails with an
  error that is not the `DiscoveryError` of a connector.
* docs/08-security.md:176 says that a packaged resolver registers itself:
  `_ENTRY_POINTS_LOADED` is set before the entry points are loaded, so a second
  thread that resolves its first secret meanwhile is told that there is none; an
  optional secret is then silently absent.
* A second project in one process that registers a scheme which an entry point or
  another project has claimed fails, against "project-local always wins". A
  plugin file that raises after it registered fails the next call with "already
  registered".
* A null in a higher layer of parameters overrides a default; an unknown target
  is silently ignored by `build_destination_config`.

In the destinations and connectors:

* On the keyset of Postgres, and on queries of CockroachDB, a full refresh binds
  NULL as its floor, and `cursor > NULL` holds for no row (docs/07).
* postgres/client.py:130 says that a row which ties at the page boundary may be
  read again: it is skipped, the next page starts above the tied value.
* shiphero/client.py:159 says that the refresh after a 401 consumes no attempt: it
  does (`TroubleIsOutlasted` counts it).
* Answers that are taken for the last page although they are not one, so that the
  walk succeeds with rows missing (`misled` in `StayersAreGiven`): a 200 without a
  body by Intercom (intercom/client.py:253) and Meta, a 200 that is not JSON by
  Meta, a file of a Sigma report that is not in the format, a body without the
  fields of a page by most clients.
* A next page that is announced and not gone to, likewise: a `Link` to another
  origin and a cursor that repeats, in `rest` (pagination.py:364; the latter under
  "A misbehaving API must fail the run, not hang it": the run succeeds); a last row without an `id` in
  Stripe; a missing cursor next to "there is more" in Meta, ShipHero and Intercom.
* Pages with numbers skip a row when one before it goes (also named there).
* A `Retry-After` ends a call that has tries left: in the Klaviyo destination when
  it is longer than a minute, not finite or not valid
  (destinations/klaviyo/client.py:202), elsewhere when `int()`, `float()` or
  `time.sleep` do not take it (a fraction, a date, a negative number, "inf").
  A read timeout while a Sigma file is downloaded is not tried again, a broken
  connection is. A token answer of Google Ads that is not JSON uses up a try of
  the request that needed the token, not one of the token's own loop.
* The file sources load what is newer than the cursor by modification time: a
  file that is copied into the folder with an older one is never loaded. `Change`
  leaves such a file out.
* RevenueCat, whose sweep `plan_targets` says "always gets at least a quarter of
  the cap": seeds and bootstrap ids as many as the cap leave it nothing. More
  customers with a checkpoint at one instant than the sweep takes are first in
  line for ever, and nobody behind them is asked for. Before the first pass has
  ended the watermark is `now - sweep_initial_days` of each try, so checkpoints
  older than that at the second try are forgotten (`origin`). When the customers
  table is empty the watermark becomes `now`, although a first customer may have
  come in behind the walk. A walk that was killed, followed by hand by
  `--select subscriptions`, moves the watermark past customers it never read
  again, and so does `--threads` above 1, which does not keep the order of the
  streams.
* targets.py:143 says of the watermark "every sweep checkpoint at or before it has
  been processed". With `customers_max_pages` a walk ends early and succeeds, its
  rows carry its start, and the watermark goes by it: past the checkpoints of
  customers whose row was not read. `NoCheckpointIsPassed` leaves these out.
* The hot tier of RevenueCat comes before the heals and the cold, and a customer
  stays hot as long as a subscription is active (source.py:345). With as many
  active customers as the cap, less the hints, no customer outside the sweep and
  the hot is asked for any more: the cold rotation finds no refund, and a short
  day is not healed. `PurchasesAreFound` excepts the cold then (`Starved`).
* RevenueCat's transactions and periods (not modelled): more changes stamped alike
  than the cap hold the watermark before them for ever; refunds that v1 no longer
  describes stay at the head of the list.

* `types.py` says the mid-stream flush bounds what a kill re-appends to at most
  one batch; flushes are throttled, so it is every batch since the last one.
* docs/03 says the lookback is not applied to `initial_value`; a first run that
  sees no row persists `initial_value` as its cursor (`commit_state` gets the
  seed), and the second run subtracts the lookback from it.
* docs/05 has the staging table dropped in a `finally`; when the LOAD into it
  fails, the block with the `finally` was not entered yet and the table stays
  until it expires.
* CockroachDB's README says a full refresh restarts the sweep; the progress it
  makes is not persisted (`skip_state`), so with `bootstrap_max_pages` a full
  refresh loads the first pages of the table and no further.
* `bootstrapped` may be flushed before the maximum that is handed over with it:
  an unordered stream flushes its seed as the cursor. The next run then reads the
  whole table again through the keyset, which `PassedRowsLanded` allows.

### 3.1 Bounds

* `stream_load`: four rows with cursor values 1, 2, 2, 3, so that a batch of at
  most two can end between the tied ones and a row can arrive behind the newest;
  lookback and lateness 2, `min_batch_rows` 2 (a tail remains in the buffer), a
  flush that is due every second tick (both throttled and not), `MaxSetbacks` 2:
  a run can be killed, and its successor too. Interruptions that gained ground
  are not counted, so an ordered stream may be killed at every flush.
* `leases_*`: two runs suffice for each property, which speaks of a pair of
  runs or of one; `Stale` 4 leaves room for one lost beat at `Interval` and
  `MaxGap` 1 in `leases_sequential`. `leases_pool` has four streams, a cap of
  two and two threads, so that each run fills its pool. A run is one signal
  away from an interruption.
* `shared_stream`: `Stale` 1 with `MaxGap` 2 makes a healthy run lose its
  lease, which is the case of interest; three rows let one run land what the
  other has not read.
* `bigquery_load`: two keys, batches that are empty, of one row, and with a
  duplicate key; two batches, two runs, two attempts for each job; three faults,
  enough for a lost answer in one step, another in the next and a kill.
* `table_walk`: three keys in pages of two, so a walk has a full and a short page
  and a row can be stamped on either side of the position; one page per run, so a
  sweep takes several runs; `min_batch_rows` 3 leaves the first page in the
  buffer while the second is read; four stamps, with lookback 2 and lateness 1,
  let a row be updated behind the walk, late, and again after it. One
  interruption or reset: what a kill leaves is a state from which every
  behaviour without one is explored, and the theorems need no bound.
* `requests`: three rows in pages of two, two retries, one change of the
  collection and one voided token: each client meets a full page, a short one, a
  row that crosses the boundary, and more troubles in a row than it has tries
  (troubles are not bounded, but by the tries).
* `extract`: two rows, one of which lacks a field, in two parts that they may
  change; four ticks with windows of three, lookback and lag 1, caps of one; two
  changes at the service and one kill. A window of one tick and one of several,
  a row that moves behind the walk and a run that begins in the middle of a
  window all occur, for each of the 25 streams.
* `tag_sweep`: three pipelines of one destination that takes one writer at a
  time, and one of another: in a pool of three, two wait. The configuration
  of two of them, the first one included, may not resolve. Two signals, one fault.
* `schemas`: two columns, two batches of each of two builds, each of them one of
  five: late columns, values that fit and do not fit what was inferred, a value
  beyond 64 bits. Two partition specs, with and without a declared and a
  configured field.
* `resolution`: two threads and three runs (so that one thread comes late), three
  projects: one with a resolver of its own, one with one for an installed scheme,
  one whose plugin file raises. One factory or call raises. Imports of other
  modules are not bounded, but only matter while a thread loops over
  `sys.modules`. Precedence is evaluated for two of three names and for "*".
* `purchases`: two customers, checkpoints after 0 and 4 instants, one rotation place
  per run; customers are seen and buy at instants 1 and 3, runs begin at 2, 4, 6
  and 8; one kill. Two settings: a cap of one, without hints, where walks may be cut
  short: each tier of the plan is cut off by the one before it, and one customer
  who stays active fills the cap; and a cap of two with up to one hint, where
  walks are complete.
* Deadlock is checked in `stream_load`, `table_walk`, `extract`, `purchases`, where
  a run can always be started, and in `tag_sweep`, `schemas` and `resolution`,
  whose modules say when they are through. In the other systems behaviours end
  when all runs (a run id is fresh), or the one walk, have ended, so their
  configurations say `CHECK_DEADLOCK FALSE`; that nothing is stuck before is `RunEnds`, `WriteEnds` and `EveryWalkEnds`.

### 3.2 Fairness

* `stream_load`: a run that is under way takes steps, and the scheduler starts
  incremental runs again. No fairness on the source, interruptions or the
  operator.
* `leases_*`: time passes; the threads of a run do what they do next; each
  stream ends (a connector that never returns is a run that never ends); a
  release is called. No fairness on starting a run, and none on failures.
* `bigquery_load`: the client's thread runs, and BigQuery ends the job a client
  waits for, one way or the other. Jobs nobody waits for may stay for ever.
* `table_walk`: a run that is under way takes steps, and the scheduler starts
  incremental runs again and again, also when full refreshes come in between:
  strong fairness, as a run can only begin when none is under way.
* `requests`: the client sends, each request is answered or dropped (all have a
  timeout), and the clock reaches a report's deadline. No fairness on any
  particular answer: a service may fail for ever.
* `extract`: runs go on and are started again and again; time passes, strongly, as
  it stands still while a run looks at rows. None on changes or kills.
* `tag_sweep`: each thread of the pool takes its next step, and `run_tag` returns
  when all have. A load ends, one way or the other.
* `purchases`: time passes, runs go on and are started again, and every row on the
  list of customers comes by, unless the walk ends before. None on customers, kills
  or on a particular order.
* `schemas` and `resolution` check no liveness and need no fairness.

## 4. Proofs

Each theorem holds for every value of the constants, under the assumptions the
modules declare and the ones named below.

| theorem | states | assumes |
|---|---|---|
| `EngineProofs!NeverSkips` | `NoSkip` | `Careful` |
| `EngineProofs!CursorIsMonotone` | `CursorNeverRegresses` | `Careful` |
| `EngineProofs!ImplementsAtLeastOnce` | `ImplementsPromise` | `Careful` |
| `EngineProofs!DataFlipsWithCursor` | `DataAndCursorFlipTogether` | – |
| `EngineProofs!Typing` | `TypeOK` | – |
| `LeasesProofs!WorkInvariance` | `WorkInv` | `InTime` |
| `LeasesProofs!BeatingRunsExclude` | runs that beat never share a stream | `InTime` |
| `LeasesProofs!OnlyShutdownsOverlap` | `OverlapOnlyInShutdown` while `PoolsUsed` | `InTime`, one signal per run |
| `LeasesProofs!SequentialRunsExclude` | `NoDoubleRun` | `InTime`, one thread |
| `LeasesProofs!WorkingLeaseStaysLive` | `WorkingLeaseIsLive` | `InTime`, one thread |
| `LeasesProofs!LiveLeasesAreKept` | `LiveLeaseKeepsOwner` | one signal per run |
| `LeasesProofs!CapIsRespected` | `CapRespected` | – |
| `LeasesProofs!EndedRunsHoldNothing` | `EndedRunHoldsNoLease` | – |
| `LeasesProofs!LeaseTyping` | `TypeOK` | – |
| `LeasesProofs!LoadsFollowLeases` | refinement of `Leases` | – |
| `LeasesProofs!SharedNeverSkips` | `NothingSkipped` | – |
| `LeasesProofs!SharedTyping` | `SharedTypeOK` | – |
| `BigQueryLoadProofs!WholeBatchesOnly` | refinement of `WholeBatches` | – |
| `BigQueryLoadProofs!AcknowledgedRowsStay` | `AckedRowsStay` | – |
| `BigQueryLoadProofs!OneRowPerKeyAlways` | `OneRowPerKey` | – |
| `BigQueryLoadProofs!RunsLeaveSnapshots` | `ReplaceIsSnapshot` | – |
| `BigQueryLoadProofs!CopiesAreAccountedFor` | `NoSpareCopies` | – |
| `BigQueryLoadProofs!LoadTyping` | `LoadTypeOK` | – |
| `TableWalkProofs!PassesNoRow` | `PassedRowsLanded` | `~Bulk` |
| `TableWalkProofs!GroundIsKept` | `SweepKeepsGround` | – |
| `TableWalkProofs!Typing` | `TypeOK` | – |
| `EngineProofs!CapsAlwaysHold` | `CapsHold` | – |
| `EngineProofs!SweepStoryHolds` | `AnswersMatchRecords`, `OnlySignalsStopTheSweep`, `NothingLeftOpen` | – |
| `EngineProofs!OnlySignalsStop` | `OnlySignalsStopTheSweep` | – |
| `EngineProofs!RunsAreRecorded` | `RecordedBeforeClosed` | – |
| `EngineProofs!SweepTyping` | `SweepTypeOK` | – |
| `SchemasProofs!TablesOnlyGrow` | `TableOnlyGrows` | – |
| `SchemasProofs!ColumnsAreThere` | `NoUnknownColumn` | – |
| `SchemasProofs!ValuesFitOrAreReported` | `ValuesSurviveOrAreReported` | – |
| `SchemasProofs!DeclaredTypesStay` | `DeclaredTypesHold` | – |
| `SchemasProofs!PartitionsAreRespected` | `PartitionRespected` | – |
| `SchemasProofs!SchemaTyping` | `TypeOK` | – |
| `ResolutionProofs!ResolversAreOneAndOwn` | `OneOwnResolver` | – |
| `ResolutionProofs!PluginsLoadOnce` | `SoundFilesLoad` | – |
| `ResolutionProofs!ImportsDoNotMix` | `RegistriesAreOwn` | – |
| `ResolutionProofs!SecretsAreThere` | `RequiredAreThere` | – |
| `ResolutionProofs!LayersDecide` | `ResolvedAsWritten` | – |
| `ResolutionProofs!ResolutionTyping` | `TypeOK` | – |
| `ConnectorProofs!TokensOutlastWalks` | `OnlyRevocationLocksOut` | – |
| `ConnectorProofs!TriesAreUsed` | `TroubleIsOutlasted` | – |
| `ConnectorProofs!WalksAreExact` | `WalkIsExact` | – |
| `ConnectorProofs!CheckpointsAreKept` | `NoCheckpointIsPassed` | – |
| `ExtractProofs!CursorsPassOnlyLanded` | `PassedIsLanded` | – |
| `ExtractProofs!SteadyRunsAreExact` | `SteadyRunIsExact` | – |

* **StreamLoad.** `NoSkip` speaks of the committed pair of table and cursor; the
  run prepares the next pair elsewhere, so the invariant `LoadInv` says of every
  pair it may commit that it is safe: of the seed (rows below it have landed), of
  what was pulled (each row of the snapshot is loaded, pending, unread, or below
  the seed), of the observed maximum of an ordered stream (nothing unread lies
  below it), and of `loaded` and `flushed`. `Careful` is needed: two rows with
  one cursor value can lie on both sides of a flush, and a source that filters
  with `>` returns to the second only under a lookback; and a `since:` ahead of
  the resume point skips rows because it was told to.
  `DataAndCursorFlipTogether` needs neither: `FlipInv` says that what a transaction
  has not published is covered by the observed maximum, and at its end by the
  cursor it publishes.
* **Leases.** `NoDoubleRun` is about executing, while the table is about rows. The
  invariant `WorkInv` ties them: a run that beats (`Beats`: it is running, and has
  one thread, or a pool with its pump) executes only what it holds, and a row it
  holds is its own and so young that, even if the beats since were all lost, the
  next one comes before it is stale. `InTime` is that arithmetic: `MaxMissed + 1`
  beat periods fit into `Stale`. So two runs that beat never share a stream,
  however the others behave. Those others are the two divergences of section 3:
  a pool that leased a single stream and so runs it without a pump (excluded by
  `PoolsUsed`, a hypothesis on the behaviour, as what is left to lease depends on
  other runs; it holds in every state of `leases_pool`), and a pool that was
  interrupted and waits, the case that `OverlapOnlyInShutdown` leaves.
  That a live lease keeps its owner
  needs no timing at all, only the compare-and-set and the `run_id` guard. Nor does
  the cap: a run acquires once, from the first `MaxParallel` candidates, and no
  later step gives it a row (`CapInv`), so that until it ends it holds every row
  that carries its id (`RowsHeldInv`), and a release ends them all.
* **SharedStream.** `SkipInv` says of the state row and of *every* run, also one
  whose lease was taken over, that what it may commit covers landed rows only:
  `prior` was committed once, and tables only grow. It does not use the lease
  invariants, so at-least-once delivery does not rest on the leases.
* **BigQueryLoad.** `Provenance` says that a staging table holds copies of its
  batch's Parquet object, all of it or nothing; a MERGE of either is a whole batch
  or no change. `AckInv` follows one batch through its steps: the LOAD that was
  seen to end has filled the staging table, the MERGE that was seen to end has
  landed, acknowledged batches are older than the one being written, and
  `~Straggler` says that the only MERGE that can take effect is that of the
  batch being written. `SnapInv` does the same for the table of a `replace` run
  while no job was left behind (`OneJobInv`: then BigQuery has at most the awaited
  job). `CopyInv` says who wrote the copies of a batch: LOADs left behind, and at
  most one the client saw end; an injection of the others into the set of lost
  jobs gives the bound of `NoSpareCopies`.
* **TableWalk.** `PassedRowsLanded` speaks of the persisted state, and a run
  prepares the next one in `state`, `at` and `observed`. `SweepInv` and
  `KeysetInv` say of the position of the walk under way that each row up to it is
  landed or in the buffer, or was stamped behind it; `SpanInv` says that what was
  stamped behind it is within the lookback, hence beyond every resume point that
  the run may persist (`FreshIsBeyond`). `Persisting` puts the two together, once
  for the flush and the final commit. `GroundInv` orders the three positions: the
  persisted one, the recorded one and that of the generator. `~Bulk` is needed:
  a keyset skips rows that tie with the last one of a page; the
  ground of a sweep is kept with ties as well.

* **TagSweep.** `CapsHold` counts connections, while a semaphore counts permits.
  `PoolInv` says that an open connection belongs to a pipeline that holds a permit
  and that the permits left and the pipelines that hold one add up to the cap;
  each step then moves one pipeline from one side to the other (lemmas about the
  cardinality of `Holders`). `StoryInv` follows one pipeline: what it has said by
  each phase, and which of answer, record and connection are there together.
* **Schemas.** `TableInv` says which columns the table must have by the phase of
  each build: on DuckDB there is one active build and its copy is what a rollback
  brings back, on BigQuery a table that exists stays and the ETag makes an update
  one of the table as it is. `KnownInv` (a batch's columns are in the schema once
  it has evolved) makes the cells of a batch have a type; `AgreeInv` carries the
  declared and configured types through inference, evolution and both
  destinations, and `PartInv` the partition that was found. What `coerce_value`
  returns is a finite table, so its lemmas are proved by cases over kinds.
* **Resolution.** `PluginInv` is about a file that is read under the lock, up to
  which step it has registered, and who else may have taken one of its schemes;
  it needs `TraceInv`, which says that a registration by a file that is not
  loaded is being executed right now. `ScopeInv` does the same for an import: the
  registry in force holds what the thread's own files have registered so far.
  `ReasonInv` says that an import has failed for no other reason before its end,
  so that a refusal is for the connector, or for the loop over `sys.modules`,
  which `RegistriesAreOwn` names as the one way in which a sound connector can
  fail; that imports do not mix holds there as well.
  `SecretInv` says that an instance was made by the factory in force and that a
  thread resolves through that instance only; the double check in `Publish` is
  where it could break. `GotInv` collects what has been resolved so far.

  `LayersDecide` has no state: `ResolvedAsWritten` quantifies over layers, values
  and names. What its lemmas say holds for all inputs of the operators: `ValueIs`
  unrolls the recursion of `Value` over the six layers, with the function it
  defines given explicitly, and `TopDecides` reads off that the highest layer that
  speaks decides, for any values; `StreamsAreNamed` ("*" included),
  `TargetIsDefined` and `FirstFolderIsTaken` hold for any names, blocks and
  sequences of paths, where the property, which TLC evaluates, takes three names
  and two paths.
* **Fetch.** A 401 is judged by the token the request was sent with: `TokenInv`
  says which tokens can still be under way (one that is void was revoked; one is
  never over once the client minted after a 401). `TriesInv` relates the tries a
  client counts to the troubles the service made, through a refresh, which
  ShipHero counts as a try, and a token answer of Google Ads that is not JSON,
  which counts as one of the request. It says nothing of the answers a client does
  not try again (`again`, `chokes`): these end the call as "failed", not "spent".
  `WalkIsExact` is about rows and pages that shift as rows come and go: `Past` is
  how far the walk has come, by its cursor or, where pages have numbers, by rank
  among the rows present. `OnceInv` says that what was given lies past that place,
  `StayInv` that what stayed and lies past it was given; each with the exception
  that the property states (a row before the place came in, or went). When a walk
  is complete that place is the end of the collection, unless it was `misled`. The cardinality lemmas `RankIsTaken` and `SliceRanks` turn
  ranks into the rows of a page.
* **Purchases.** `NoCheckpointIsPassed` speaks of the persisted watermark, which a
  pass computes before it asks anyone and which is committed when it is through.
  `CopyInv` says what a walk knows: of a customer it has come past, the copy is
  what RevenueCat has, unless that changed after the walk began; and when it is
  over this holds of all but those whose rows it left unread. `PassInv` says
  during a pass that the watermark prepared is good (`Settled`) already for all who
  have not to be asked for any more and are not `skipped`: neither left out for
  want of room nor left unread by a walk that `customers_max_pages` cut short.
* **Extract.** One proof covers the sixteen streams with a cursor. `PassedIsLanded`
  speaks of the persisted cursor, while a run prepares the next one in `noted`,
  `observed` and `due`. `Marks` are the ticks that may yet become the cursor; a
  row that changed after it was fetched is `Ahead` of all of them, so that the
  next run asks for it, whatever this one persists (`FreshInv`). This is where
  `Lag <= Lookback` is needed, and that time runs on between plan and commit does
  no harm. `CoverInv` accounts for every other row (in the table, given, held,
  unread, or asked for by what is left of the plan). A stream that declares
  itself ordered persists its cursor at any flush, so `OrderInv` says at each
  moment that all behind a tick it has told of is handed over; the other streams
  need that only at the end, from `CoverInv`. The streams differ in their plans
  and observations: `PlanIsSound` shows of each plan that it leaves out only rows
  behind the cursor or so late that the run may not pass them. It rests on
  lemmas about spans (`SpansAre`, `SpansCover`), days and the grids of windows
  and parts, with quotients and remainders.

  `SteadyRunIsExact` holds for the streams without a cursor as well. While the
  service rests, what the run has in hand is what the service has (`RecordsInv`),
  and each row is `Placed`: in the table, in hand, asked for, or left out for a
  reason that the property names. The caps need counts: `RankInv` says that
  parents are counted in the order of the plan, so that those beyond the cap are
  the ones left out, and `DoneInv` that the conversations counted are different
  ones, all of them before any that is still to come. `StreamsAssumption` only
  says that a run looks at streams that there are.

Every safety invariant and every action property of the runs is a theorem, with
the qualification for `NoDoubleRun` below.
Only model-checked is liveness (`Delivered`, `DeadLeaseExpires`, `RunEnds`,
`WriteEnds`, `CatchesUp`, `EveryWalkEnds`, `SweepEnds`, `PurchasesAreFound`):
temporal proofs with fairness are beyond the prover used here.
`NoDoubleRun` is proved for sequential runs; for pools it is false, which
`OverlapOnlyInShutdown` delimits.

## 5. Not modelled

* The shape of records: mapping, flattening, type names of services, the SQL and
  GAQL text, file formats. The properties tell rows and versions apart, not
  fields.
* Rate limiters and the length of a wait, but for the `Retry-After` headers that
  end a call.
* Files that appear in a folder with a modification time before the last listing:
  no run loads them (section 3), and `PassedIsLanded` says nothing of them.
* Of CockroachDB and Postgres, the full scan of a stream without a cursor (one
  statement after another, no state) and rows whose cursor column is NULL, which
  no keyset reads.
* Of RevenueCat, the streams customer_details, subscription_transactions,
  subscriber_periods, reconciliation_daily and metrics_daily. The first three
  follow the scheme of subscriptions with another list of whom to ask; the fourth
  only supplies `heals`.
* Of Klaviyo, the reporting endpoints; of its destination, the mapping to events.
* The SQL of the DuckDB `write_batch`, and its heartbeat that joins the open
  transaction (one process owns the file, so no other run reads the row
  meanwhile).
* Parsing of YAML and of manifests, injection of arguments by name, logging and
  redaction, and the CLI apart from `run --tag`, `state reset` and `state set`:
  they run once, in sequence, and keep nothing another part reads.
* Clock skew: all runs share one notion of time.
* A connector's own concurrency (RevenueCat's chains, map_concurrent) is in the
  order in which rows come by, which is left open.

## 6. Plan

What is left, in this order:

1. RevenueCat's three other cursored streams, with the ties that hold their
   watermark.
2. The full scans of the table connectors, and keysets over NULLs.
3. The part of `_dtex_runs` that `state` and `runs` commands report from.

The runs are kept to a dozen: a run for a new module takes the place of one that
checks a single divergence, which then moves to the list in section 3.
