# bulk_http in TLA+

TLA+ modules, TLC runs and TLAPS proofs about `bulk_http`, a library that sends large
batches of HTTP requests from several processes, keeps the responses that match and
can be killed and started again. Paths below are those of the repository; the Python
package is `src/bulk_http/`.

There are three groups of modules. The campaign modules cover what everything else is
there for: that a campaign interrupted anywhere and started again neither loses a result
nor delivers one twice. `TaskProcessor` opens up a batch: the coroutines that share the
robots gate, the rate limiters, the proxy pool and the retries. `DataPath` follows the
data of a campaign, from the rows of a source to the exported file.

## The system

| component | state it keeps | operations | what makes it correct |
|---|---|---|---|
| checkpoint store (`checkpoint/store.py`) | the manifest, a file of JSON lines | `record_distributed`, `commit_chunk`, `load` | committed lines are never lost or changed; a torn line is never mistaken for a whole one |
| resume (`checkpoint/resume.py`, `Engine._resume`) | none; cuts the files of `out_dir` | `plan_resume`, `truncate_worker_files` | each file ends at its last committed row, whatever it held |
| engine (`engine/core.py`) | counters, the set of chunks to skip, the position in the source | `run`, `distributed`, `on_control` | each chunk is run until committed once, and only then counted |
| in-process executor (`engine/executor.py`) | one batch at a time, one sink | `execute` | output first, checkpoint second |
| spawn executor (`engine/spawn.py`) | a deque of results to wait for; per process a sink kept across batches | `execute`, `_spawn_init`, `_spawn_run_batch` | bounded batches in flight; results checkpointed in submission order; every run ends |
| NDJSON sink (`sinks/ndjson.py`) | a buffer and a file | `write`, `commit`, `close` | the offset `commit` returns is durable |
| chunking (`concurrency/chunking.py`) | none | `chunk_batches` | a partition of the stream, in order |
| task processor (`concurrency/processor.py`) | matcher cache; per batch a semaphore, the pending tasks and their results | `process`, `run_batch` | a result per task, at most `concurrency` at once, replays bounded |
| robots gate (`compliance/robots_gate.py`, `robots.py`, `engine/robots_support.py`) | a cache of parsers, the next allowed time per origin | `allowed`, `throttle` | disallowed URLs are not requested; crawl-delay between requests to a host |
| rate limiters (`proxies/ratelimit.py`, `adaptive.py`) | next slot per domain; rate, success and failure streaks | `acquire`, `record` | distinct slots; rate within its bounds; a ban only after failures at the floor |
| proxy pool (`proxies/pool.py`, `health.py`, `backconnect.py`) | a cursor; per proxy a window, quarantine and backoff deadlines | `select`, `report` | no quarantined proxy is handed out; each healthy one in turn |
| retries (`net/retry.py`) | attempt number, deadline | `perform_with_retries` | only replayable requests, at most `retries` more, none begun past the deadline |
| library pool (`concurrency/pool.py`) | a deque of results | `imap_batches` | as the spawn executor, without a checkpoint |
| metrics (`metrics/`) | counters, a bounded sample | `merge`, `snapshot` | totals equal the sum over batches |
| configuration (`config.py`) | none | `effective`, validation | a request's own setting wins over the engine's |
| sources (`sources/`) | a position in a file | `__iter__`, `build_request` | every usable row becomes one request, numbered in order |
| compliance filter (`compliance/filter.py`, `Engine._prepare`) | none | `is_allowed`, `apply_headers`, `annotate_meta` | deny wins over allow; one identity header; the configured note on every row |
| curl transport (`net/curl.py`) | a buffer per transfer | `perform` | stops reading at the threshold, and has what arrived up to it |
| decompression, evaluation (`decompress.py`, `evaluate/`) | none | `decompress_fragment`, `evaluate` | no row without a match in the response, no match lost by cutting it |
| CSV export (`sinks/csv_export.py`) | none | `export_csv` | a line per record, a column per key |
| sizing (`concurrency/sizing.py`) | none | `resolve_workers`, ... | not modelled, see below |

How they interact. `Engine.run` filters the source, cuts it into numbered chunks and
hands the generator `distributed()` to an executor together with the callback
`on_control`. Pulling a chunk from the generator appends a *distributed* line to the
manifest; the executor runs the batch through a `TaskProcessor`, writes the matched
rows to the sink of the process that ran it, commits the sink (flush, `fsync`,
`tell`) and calls `on_control` with the offset, which appends a *committed* line. A
later run reads the manifest, cuts the output files back to the last committed
offsets and skips the committed chunks. The spawn executor does the same with the
sinks in other processes and a window of batches in flight.

Hard behaviours: crashes between any two of these steps and in the middle of an
append; a second crash during the resume of the first; workers that finish out of
order, fail half-way through a batch with rows in their buffer, are replaced, or
outlive the coordinator; pids that come back and with them the file names; tasks of
one batch interleaving at every `await` around shared limiters, caches and breakers.
`PROJECT.json` lists them one by one under `hazards`, with the property that covers
each.

## Modules

| module | models | notes |
|---|---|---|
| `CheckpointManifest` | `store.py`, `resume.py` | operators: appending a line, whole or cut; what `load` makes of the lines; truncation |
| `ExactlyOnceOutput` | nothing in the code: the promise | the abstract specification, over bags of rows |
| `InProcessCampaign` | `core.py`, `executor.py`, `ndjson.py`, the manifest | one process, any number of starts |
| `SpawnCampaign` | `core.py`, `spawn.py`, `ndjson.py`, the manifest | coordinator, worker processes, whole and partial deaths |
| `Outcomes` | `transport.py`, `health.py`, `retry.py` | responses and how they are classified |
| `AdaptiveLimiter` | `adaptive.py` | operators: what an outcome does to a domain's rate and streaks |
| `ProxyPool` | `pool.py`, `health.py` | operators: selection, circuit breaker, backoff |
| `TaskProcessor` | `processor.py`, `retry.py`, `robots_gate.py`, `ratelimit.py`, and the two above | the coroutines of a batch, time in ticks |
| `Requests` | `models.py`, `config.py`, `_build.py` | operators: building and validating requests, configuration and `effective` |
| `Sources`, `Compliance`, `Evaluation`, `Metrics` | the files of these names | operators, used by `DataPath` |
| `DataPath` | `core.py`, `processor.py`'s `process`, `curl.py`, `csv_export.py` | one campaign, rows to CSV file |
| `MCInProcessCampaign`, `MCSpawnCampaign`, `MCTaskProcessor`, `MCDataPath` | | the instances for TLC |
| `CheckpointManifest_proofs`, `InProcessCampaign_proofs`, `SpawnCampaign_proofs`, `SpawnOutput_proofs`, `TaskProcessor_proofs`, `FoldLeftFacts`, `DataPath_proofs`, `DataRecords_proofs` | | lemmas, theorems and their proofs |

The refinement mappings are with the two campaigns (`VisibleCells`, `Promise`), so that the
runs and the proofs use the same.

An operator whose name ends in `_Mutant` is a plausible mistake in the definition
that follows it. No specification uses one; substituting it shows that the property
named with it in `PROJECT.json` notices.

### State and actions

**Manifest.** A sequence of lines and whether the last one already has its newline.
The file is opened in append mode, so what is appended after an unterminated line
becomes part of that line (`GlueTo`). `load` skips what does not parse; for each file
the last committed line wins (`LastCommitLine`), for a file without one the offset is
0 (`CommittedOffset`).

**Output.** A file is a sequence of *cells*, one per result line; an offset counts
cells where the code counts bytes. A cell is a row, identified by its chunk and its
number in the chunk, or a `Torn` line, or a `Hole` where `truncate()` extended a file.
`synced` says how much of the file an `fsync` has covered: a crash keeps any prefix
that contains it, perhaps with a torn line after it. A row that is replayed may have
another response; the model gives it the same name on purpose, because having
processed the task twice is what is to be excluded. How many rows of a chunk match
is chosen afresh at every replay.

**`InProcessCampaign`.** `Start` is `run` up to the loop, with `_resume` in its two
cases: `KeepOutput`, the early return with nothing committed, and `TruncateOutput`.
`Skip` and `Distribute` are `distributed()`, `RunBatch`, `WriteRow` and `CommitSink`
the body of `execute`, `OnControl` the callback, `Finish` the end of the loop with the
closing of sink and store. `Fail` is an exception or Ctrl-C anywhere, whose `finally`
blocks write the sink's buffer out; `Crash` loses the buffer and cuts the file and,
if an append was next, perhaps the line being appended. `leftover` is a history
variable: the cells a run found in the file when it kept it uncut.

**`SpawnCampaign`.** `truncate` makes the resume one step per file, so that a crash
can fall between two. `Submit` is `next(iterator)` (a distributed line) and
`apply_async`; `FirstBatches` fills the window, `Get`, `OnControl` and `Refill` are the
loop after it. A process takes a task (`Take`), runs it and writes its rows
(`RunBatch`), commits its sink and returns the message (`CommitSink`), or fails
(`Raise`): the exception is the result, the process lives on with the rows in its
buffer. `GetError` re-raises in the coordinator, which terminates the pool. The
processes of a run are pids of a small set that the operating system hands out again
and again, so that files are shared between processes as the code's naming allows.
`multiprocessing.Pool` itself is external: a FIFO queue, one task per process at a
time, replacement after `maxtasksperchild` tasks. Two extra specifications are worse:
`SpecWorkerDeath` (the system kills one worker, the pool replaces it and its task is
gone) and `SpecOrphans` (only the coordinator dies).

**`TaskProcessor`.** A coroutine runs undisturbed from one suspension to the next, so an
action is the code between two `await`s that really suspend: an `acquire` or `throttle`
that need not sleep is part of the step that calls it. `step[t]` says where the
coroutine of a task is suspended (`waiting` for a permit, `robots`, `crawl`, `pace`,
`send`, `backoff`, `done`), with the local variables it will use after it: the proxy, the
attempt, the time left of the total budget, the delay `throttle` read. `Enter` is
`process` up to its first suspension, `RobotsFetched`, `Throttled`, `Paced`, `Answered`
and `Retry` what follows each kind; `PassGate`, `SendFirst` and `Answered*` are the shared
tails. `Replay` and `Return` are the end of a pass of `run_batch`, `NextBatch` the
executor's loop, which keeps limiter, gate and pool; `Raise` and `Stop` an exception that
leaves `gather` while the other coroutines go on until the loop is closed. Clock readings
are kept as the time left until them and a `Tick` counts them all down (`left` may be
any integer in the types, because the prover knows no bound of `2^attempt`). Sleeps end
exactly when they are over, a request is answered at any time. Rates are whole numbers,
halving rounds down, and a slot is a whole number of ticks. `sinceSlot`, `failures`,
`sent` and `denied` are history variables. A robots.txt is what it forbids and its delay.

**`DataPath`.** `ReadRow` is one turn of the generator chain source, `_prepare`,
`chunk_batches`: a row gives no request, an exception, or a request that is numbered,
filtered and added to the batch. `RunBatch` hands the batch over when the generator
yields. `Send` begins a transfer and ends it at once unless the response is a stream;
`Receive` is one chunk of a stream with the test of the threshold, `Complete` the
evaluation and the `Result`. Transfers of a batch interleave in every way. `FinishBatch`
writes the matches and merges the statistics, `Return` makes the summary and `Export` the
CSV file, which may be made of the file of a campaign that raised. A random place in the
reservoir is any place. Texts are compared only as far as the code's tests go: hosts are
sequences of labels; `Numeral` and `LowerCase` say what `int()` and `lower()` make of the
few texts used.

A body is a sequence of chunks of bytes. `Yields` says what each byte of a compressed
stream comes to, `Failing` at which bytes each decoder fails (damaged ones, or a stream of
another format), `Piece` how many bytes brotli and zstd are fed at a time. `Evaluation`
follows the loops of `decompress.py` over them: gzip and deflate decode in one call, whose
error leaves nothing (`Inflated`), deflate falls back to a raw stream if that is nothing
(`Deflated`), brotli and zstd lose the piece an error is in and what follows (`Pieced`),
and layered codings are undone one after the other (`Decoded`). What is decoded of a
damaged body may therefore shrink when more of it arrives. The properties are stated with
another definition, `Reading`, that is independent of these loops: what can be read of a
body until every decoder for its coding has failed, and whether all of it could be.

## Runs

| run | shows | size |
|---|---|---|
| `inprocess` | all properties of `InProcessCampaign` hold | 58,207 states, 10 s |
| `spawn` | all properties of `SpawnCampaign` hold | 427,005 states, 90 s |
| `task_processor` | the properties of `TaskProcessor` listed below hold | 407,383 states, 100 s |
| `data_path` | all properties of `DataPath` but `PrefixSearched` hold | 10,428 states, 40 s |
| `inprocess_leftover` | `NoRowTwice` fails | finding 1 |
| `inprocess_cut_line` | `CommittedForever` fails when a manifest line is cut just before its newline | finding 2 |
| `spawn_worker_death` | `EveryRunEnds` fails when a worker process is killed | finding 3 |
| `spawn_orphans` | `ExactlyOnce` fails when only the coordinator is killed | finding 4 |
| `crawl_delay` | `CrawlDelayHonoured` fails for requests that wait together | finding 5 |
| `unwanted_replay` | `NoUnwantedReplay` fails when a row overrides the engine | finding 6 |
| `robots_refetch` | `DisallowedSkipped` fails when a second fetch fails | finding 7 |
| `damaged_body` | `PrefixSearched` fails for a gzip body with a damaged last byte | finding 8 |

Properties of both campaigns:

- `CommittedDurable`: no committed offset lies beyond what was synced.
- `ExactlyOnce`: a campaign that ends has every chunk committed and, beyond leftovers
  (finding 1), only whole rows, none twice, in one file or in two.
- `KeepsPromise`: the campaign implements `ExactlyOnceOutput`. Seen through the committed
  part of its files, and through the whole files once it is done, its output grows by
  whole chunks, each at most once, and nothing is taken back; crashes, truncations and
  replays are stuttering steps.

Of the in-process campaign: `CommittedIntact` (the cells before each committed offset
are the rows of its chunk, in order), `CommittedForever` (no step drops or changes a
committed line), `SummaryExact` (the counters of `RunSummary` are those of the lines
this run added), `IInv` (the inductive invariant below) and `EventuallyAllCommitted`.
Of the spawn campaign: `CommittedInOrder` (what is committed is always a prefix of the
source), `BoundedInFlight` (queued and running batches never exceed
`in_flight_batches`, and each is waited for) and `EveryRunEnds`.

Of the task processor:

- `DistinctSlots`: two tasks never start on a domain closer than the fixed interval, or
  than `max_rate` allows, however their `acquire`s and the changes of the rate interleave.
- `NoUnwantedReplay`: a request whose method and effective setting forbid it is not sent
  twice. It holds as long as no row overrides the engine (finding 6).
- `NoEarlyReturn`: `run_batch` returns a result for every task, and a transient failure of
  a request that may be sent again only when the retries are used up or, in adaptive mode,
  when there are no passes left or the last one got nothing done (`NoProgress`). May a
  request be sent again is asked of its own effective setting, so this too holds as long
  as no row overrides the engine: `_should_defer` returns such a request unreplayed when the
  engine's setting is `False` (finding 6). The code makes no use of `NoProgress`; see the
  observations.
- `DeadlineHonoured`: no retry starts once `total_timeout` has passed.
- `BanIsEarned`: a ban is suspected only at the floor and after `ban_failures` failures in
  a row (in the order they arrive, see the observations below).
- `RobotsFirst`, `NoTrippedWindow`, `RestNotShortened`: nothing is asked of an origin
  before its robots.txt; a breaker that should have tripped has; late reports let no
  proxy in early.
- `BatchEnds`: every batch returns, or its exception stops the loop.

Of the data path, each against a definition that does not follow the code:

- `OnlyAllowedAsked`, `IdentitySent`, `AuthorizationNoted`: the guardrails, on the requests
  made of rows and on what was written. Redirects are followed by curl and a robots.txt is
  fetched without them: the lists do not filter either, and the fetch carries no identity
  (`robots_support.py:22`).
- `MatchedSound`: a row is written only of a task whose complete response, read up to its
  first damage, meets every condition (JSON data may be a first part of it that parses).
- `NothingMissed`: a row is written of every task whose response meets the conditions within
  the part that is promised to be searched (the whole body, or up to the threshold, on the
  wire or decoded), whatever the chunks, if what was received is not damaged. Without that
  condition it is `PrefixSearched`, which `decompress.py` promises and does not keep
  (finding 8).
- `NoOverread`: no chunk is read once those before it reach the threshold on the wire, or
  with an undamaged text.
- `IdsInOrder`: ids grow along the output.
- `MetricsExact`, `ReservoirSampled`, `PercentilesRight`: counts, sample and percentiles
  agree with the tasks that were run.
- `ExportKeepsAll`: the CSV file has every record with its fields, and all its metadata but
  what is under the name of a field.
- `CampaignEnds`: the campaign returns or raises.

### Bounds

Three chunks let a crash fall before, in and after a committed one, with one left
over; three starts let a resume be interrupted and resumed again. Two rows per chunk
against a flush threshold of two make the buffer overflow in the middle of one batch
and stay half full in another. The spawn run has two processes, two pids and a window
of two: with three chunks the window is full, refilled and drained, results arrive out
of order, and pids are reused by replaced workers (after two tasks) and by later runs.
One row per batch against a threshold of two leaves rows in the buffer of a failed
task, which is what the FIFO collection has to keep out of the output. Manifest cuts
are left to the in-process run (`PartialWrites = {}` in the spawn run), because the
manifest has one writer in both. `CHECK_DEADLOCK FALSE`: a campaign stops when it is
done and its starts are used up.

`task_processor` runs two batches of a GET, a POST and a GET to one host with two permits,
so that one task always waits for a permit and two contend for slot, gate and pool; the
second batch meets what the first left behind. Two passes, two retries, a window of two
samples, two proxies, rates of one and two per second and two failures for a ban are the
least that let each mechanism begin, reach its limit and be reset. The five configurations
switch the limiters, the gate, the pool, retries and deadline on in turn and in the
combinations that share state; the answers are a success, a 429, a 503, a transport failure
and an unreadable body. One domain is enough since no state is shared between domains but
the permits and the proxies. `data_path` has a campaign per source and kind of cut, with
rows that are short, empty, denied, malformed or override a setting, batches of one to three
and eight kinds of replies: complete ones with no coding, with one and with two, one with an
unknown coding, refused, broken off, and damaged at the end in gzip and brotli. Three or
four bytes in two or three chunks against thresholds of one to three put the cut before, in
and after a needle; pieces of two bytes make an error of brotli lose one of two pieces.
Latencies of a batch are cut at two and the reservoir holds two, so that both overflow.

### Fairness

The process runs as long as it is alive and is started again while starts are left:
weak fairness of `Start` and of the engine's steps. `Fail`, `Crash` and `Raise` have
none, and none of them comes in the last run (`runs < MaxRuns`): liveness says that a
campaign which is eventually left alone ends, not that one that is killed for ever
does. In the spawn campaign the coordinator has weak fairness, each process that holds
a task has it, and some process takes a waiting task while one is free; which one is
the pool's choice.

In `TaskProcessor` each coroutine has weak fairness for what it does next: the event loop
runs what is ready, and a request ends, at the latest by its `timeout`, which the code
always sets. `run_batch` and the executor have it, and time passes. `DataPath` has weak
fairness of its next step, for the same reasons.

## Findings

1. `Engine._resume` returns before it truncates anything if nothing is committed
   (`core.py:193`). A run that dies before its first checkpoint leaves rows that the next
   run writes again. `resume.py:32` says "(0 if never committed)", the tutorial
   "each row processed once".
2. `load` accepts a last line that lacks only its newline, and the next `_append` is glued
   to it (`store.py:48`, `store.py:77`): the following run forgets a chunk that its
   predecessor skipped as committed.
3. A worker process that is killed takes its task with it and `get()` has no timeout
   (`spawn.py:148`): the coordinator waits for ever.
4. A worker that outlives its coordinator commits its batch to a file that the resume
   of the next run has already truncated, or kept (`spawn.py:87`).
5. `AsyncRobotsGate.throttle` reads the next allowed instant before it sleeps and writes it
   after (`robots_gate.py:68`): tasks that wait for one host together start together.
   `docs/TUTORIAL.md:430`: "per-host crawl-delay is honoured".
6. `_should_defer` goes by the engine's `retry_non_idempotent` and not by the request's
   (`processor.py:189`): in adaptive mode a POST whose row forbids it is sent again,
   and one whose row allows it is not, when the engine's setting says otherwise.
   `docs/TUTORIAL.md:132`: "Any engine default can be overridden per row".
7. Two tasks may fetch the same robots.txt, and the later answer replaces the earlier one
   even if it is a failure (`robots_gate.py:45`): disallowed URLs are requested from then on.
8. An error anywhere in a gzip or deflate body, a wrong checksum at its end included, makes
   `_inflate` return nothing of all that precedes it (`decompress.py:24`); brotli and zstd
   lose the piece of 8192 bytes the error is in. `decompress.py:3-6` promises "whatever can
   be decoded from the prefix" and to "ignore end-of-stream errors". A needle in front of the
   damage is not found.

A consequence of 1 that no run shows, because cells abstract from bytes: a torn line
kept at the end of a file has no newline, so the first row of the next run shares its
line.

Other observations about the code, made while modelling, that no run is about:

- Failures of requests that were sent at a higher rate, but arrive when the floor is
  reached, count toward the ban; `adaptive.py` speaks of a "sliding window" and of failures
  "after" the floor, the code keeps a streak of arrivals.
- Passes are said to go on "until none remain, no progress is made, or the `max_attempts`
  pass budget is exhausted" (`processor.py:197-200`; `docs/TUTORIAL.md:345-347` adds "a ban
  is detected"). No line of `run_batch` looks for progress or a ban: when all that a pass
  replays fails again the next pass follows, while passes are left. `NoEarlyReturn` allows
  it to stop there, which it does not. Disallowed results pass for transient ones and are
  replayed too.
- `_resume` truncates every regular file of `out_dir` that no committed line names to 0
  (`core.py:196`). If the checkpoint file lies there it is one of them, and all that was
  committed is forgotten: `CommittedForever` fails when `ManifestInOutDir` is `TRUE`. Nothing
  forbids such a path, and no example in the docs has one.
- A retry does not ask the fixed limiter for another slot. A proxy is chosen before the
  wait for the slot and kept over all retries, of which only the last is reported.
- With every proxy resting, requests go out directly.
- An origin whose robots.txt could not be had is allowed for good. The fetch overrides
  `fast_status` but not `stream_cut`, so a long file may be cut.
- `source_id` numbers requests, not rows as `models.py` says: skipped rows are not counted.
- Entries of the lists with capital letters match nothing, since hosts come in small ones.
- An unknown coding, a needle list of blanks or a malformed JSON line ends the campaign.
- Metadata under the name of a base field (`status`, say) is not exported.

## Proofs

### The checkpoint

`CheckpointManifest_proofs` and `InProcessCampaign_proofs` hold for every number of
chunks, rows, starts, every flush threshold and every naming of the files.

| theorem | states |
|---|---|
| `TypeCorrect` | `Spec => []TypeOK`, with no assumption on the deployment |
| `Inductive` | `Spec => []IInv` |
| `CheckpointBehindOutput` | `Spec => []CommittedDurable` |
| `CommittedRowsIntact` | `Spec => []CommittedIntact` |
| `NothingLostNothingTwice` | `Spec => []ExactlyOnce` |
| `NeverForgotten` | `Spec => CommittedForever` |
| `SummaryIsExact` | `Spec => []SummaryExact` |
| `PromiseKept` | `Spec => KeepsPromise` |

All but the first assume `Deployment`: the manifest is outside `out_dir` and no crash cuts
a manifest line exactly before its newline. Finding 2 and the observation on `out_dir`
show that neither can be dropped. The other assumptions are the types of the constants.

None of the properties is inductive: `ExactlyOnce` speaks of the last state only, and
`CommittedDurable` survives a truncation only because offsets grow. `IInv` says what
the code relies on without writing it down. `Blocks`: every committed line stands for
its own block of synced rows, the last line's block ends where a resume would cut, no
chunk has two, and the blocks leave no cell out. `WholeTail`: only a fragment can be an
unterminated last line, and none is while a batch is under way, so that an append of a
committed line is always a line of its own. `Progress`: the committed chunks are those
the run found plus all that the enumeration has passed. `Batch`: after the last block
the file and the buffer hold the written rows of the current batch and nothing else.
`OnControl` is the step that adds a block (`BlockAdded`), a crash keeps the blocks
because they are synced, a resume because it cuts at the end of the last, every other
step because it only appends (`BlocksKept`). `ExactlyOnce` follows at the end: the file
is all blocks, the blocks are of different chunks, and every chunk is committed. That
the last committed line exists and is unique needs the well-foundedness of the line
numbers (`LastExists`), cited from the library.

`SummaryIsExact` needs that a run adds each line once and that the counters grow with
them (`CountersKept`, in terms of the cardinality of sets of line numbers). `PromiseKept`
is the refinement, step by step: `Init` maps to the empty output, the last `OnControl` of
a chunk adds its block to the visible part of the files and thereby its rows to the bag,
and every other step leaves the visible cells alone. That the bag of a file with a new
block at its end is the sum of two bags rests on the cardinality theorems of the library.

### The spawn campaign

`SpawnCampaign_proofs` holds for any number of chunks, pids, pool processes, batches in
flight, tasks per process, rows, buffer sizes and restarts.

| theorem | states |
|---|---|
| `TypeCorrect` | `Spec => []TypeOK` |
| `Inductive` | `Spec => []IInv` |
| `SubmissionBounded` | `Spec => []BoundedInFlight` |
| `CheckpointBehindFiles` | `Spec => []CommittedDurable` |
| `CommittedInSourceOrder` | `Deployment => (Spec => []CommittedInOrder)` |

`Deployment` is here that no crash cuts a manifest line exactly before its newline; the
other theorems hold without it. The parts of `IInv`: `InFlightCounted`, queued, running
and answered batches together are at most those in the deque, and the deque has room
whenever the coordinator has taken a result. `OnePlace`, a batch is queued, run or
answered, one of them at a time, and what is queued comes after all that is run or
answered. `AllAwaited`, the deque is increasing and holds all of them, and the result at
hand precedes it. `OffsetsGrow`, for each file the offsets grow along the manifest's
lines, then the result at hand, then the results not yet fetched in the order of their
chunks, and a process always works on a later chunk than those its file has answers for;
this is what the truncation of a resume relies on when it cuts at the last line, though
lines of one file come from several runs and from several processes with the same pid.
`CommittedInOrder` needs `Accounted` besides: every chunk yielded so far is committed, in
the deque, or the one whose result is at hand.

Each step is one of a few kinds (`Kinds`): a chunk is queued, taken, answered or fetched,
the manifest gets a commit, a run ends, or none of it; the lemmas `QueueStep` to
`AnswerStep` say what a kind does to the places a batch can be in, so that the proof that
a part is kept has one case per kind.

`SpawnOutput_proofs` goes on from there to what the files hold, under `Deployment`:

| theorem | states |
|---|---|
| `CompleteAndOnce` | `Spec => []ExactlyOnce` |
| `PromiseKept` | `Spec => KeepsPromise` |

`OutputInv` is what has to be added to `IInv`, because `ExactlyOnce` speaks of the end and
rows reach a worker's file long before the coordinator hears of them. `Blocks`: in every
file each committed line stands for its own block of rows, no chunk has two lines, and
the blocks leave no cell out. `AnswersFit`: the same of the answers that are not yet
committed, whose blocks come after the committed ones in the order of their chunks.
`TailsFit`: what follows is the rows of the batch the process is running. The gap that a
failed batch leaves in its file (its rows were written, or sit in the buffer and are
written with the next batch) is covered by neither, and `Covers` says why that does no
harm: the failed chunk comes before everything that lies after the gap, and its result
ends the run before one of those is committed. `Complete` is the end: nothing lies beyond
the committed blocks. `Filled` and `NotAgain` rule out that the run ends with chunks left,
or submits one twice. The steps of the proof are those of the processes (`RunFits`,
`CommitFits`, `RaiseFits`, `TakeFits`), of the coordinator (`OnControlFits`,
`CoordinatorFits`) and of the beginning and the end of a run (`StartFits`, `TruncateFits`,
`StopFits`), and each uses `BlocksKept`, `AnswersStand` or `TailStands` for the files it
does not touch. For the refinement, `OutputIsCommitted` shows that the visible rows are
those of the committed chunks, each once; so only `OnControl` is seen, and it adds a chunk
that was not there.

### The task processor

`TaskProcessor_proofs` holds for every batch and set of configurations, any number of
tasks, domains, proxies, permits, passes and batches, any rates and delays, and whatever
servers answer. Its only assumptions are the named ones on the constants.

| theorem | states | inductive invariant |
|---|---|---|
| `TypeCorrect` | `Spec => []TypeOK` | itself |
| `WindowCleared` | `Spec => []NoTrippedWindow` | itself, with `TypeOK` |
| `RestRunsOut` | `Spec => RestNotShortened` | `TypeOK` |
| `GateComesFirst` | `Spec => []RobotsFirst` | `AskedFirst` |
| `BansAreEarned` | `Spec => BanIsEarned` | `FailuresCounted` |
| `RetriesInTime` | `Spec => DeadlineHonoured` | `WithinBudget` |
| `SlotsAreDistinct` | `Spec => DistinctSlots` | `Spaced` |
| `NoReplayWithoutRefusal` | `NoneRefuses` implies `Spec => []NoUnwantedReplay` | `OnceOnly` |
| `NothingReturnedEarly` | `NoneInsists` implies `Spec => []NoEarlyReturn` | `Worked` |

`AskedFirst`: a task that is beyond the gate, or was ever sent, has its origin in the
cache. `FailuresCounted`: the limiter's count of failures at the floor never exceeds the
failures in a row that arrived. `WithinBudget`: what a backing-off task has left to sleep
is less than what is left of its budget, which both count down together. `Spaced`: the
slots that pacing tasks wait for, the one reserved next, and the last one used are all at
least the shortest interval apart; it is what makes "reserve before sleeping" right, and
with the write after the sleep (as in finding 5) it is lost in one step. `OnceOnly`: a
request that may be sent only once has not been sent yet, waits for its answer, or is
done. `NoneRefuses` says that no row forbids a replay that the engine
allows, which finding 6 shows to be needed, and `NoneInsists` the reverse, that no row of
an adaptive campaign allows a replay that the engine forbids. `Worked`: every
task that is done has a result, and one that is transient and that `_should_defer` would
defer has its passes or its retries used up or waits for the next pass; under `NoneInsists`
those are all that may be sent again.

### The data path

`DataPath_proofs` holds for any campaigns: any rows, sources, configurations, needles and
predicates, hosts and lists of any length, and any replies.

| theorem | states | part of the invariant it rests on |
|---|---|---|
| `TypeCorrect` | `Spec => []TypeOK` | all |
| `OutputInOrder` | `Spec => []IdsInOrder` | `OutInv` |
| `AuthorizationKept` | `Spec => []AuthorizationNoted` | `OutInv` |
| `DeniedNeverAsked` | `Spec => []OnlyAllowedAsked` | `AskedInv` |
| `AlwaysIdentified` | `Spec => []IdentitySent` | `AskedInv` |

The properties speak of what was sent and written, the code decides long before, when a
request is batched; `DataInv` carries the decision along. `BatchInv`: every task of the batch
is a request of the source, admitted by the lists and prepared, and the ids grow from task
to task, below `built`. `ResultInv`: a finished transfer has the id and the metadata of its
own task. `OutInv`: rows carry the authorization and their ids grow and lie below those of
the batch. `AskedInv`: what was handed to curl is the prepared request of a row.
`MatchingSelects` is the lemma that the matches of a batch are a subsequence of its
results, which is why ids still grow across a batch that ends in any order.

`DataRecords_proofs` goes on from there to what was read, counted, sampled and written, with
a second invariant, `RecordInv`:

| theorem | states | part of the invariant it rests on |
|---|---|---|
| `CountsExact` | `Spec => []MetricsExact` | `TallyInv`, `LogInv` |
| `SampleOfMeasured` | `Spec => []ReservoirSampled` | `TallyInv` |
| `PercentilesAreRanks` | `Spec => []PercentilesRight` | `SummaryInv`, `TallyInv`, `LogInv` |
| `ExportIsComplete` | `Spec => []ExportKeepsAll` | `ExportInv` |
| `NeverOverread` | `Spec => []NoOverread` | `TransferInv`, `LogInv` |
| `RowsAreMatches` | `Spec => []MatchedSound` | `RowsInv`, `LogInv` |
| `NoMatchMissed` | `Spec => []NothingMissed` | `RowsInv`, `LogInv` |

- `TransferInv` says of every transfer of the batch that it is `Sound`: it read a further
  chunk only while those before were not enough (`GoesOn`), it stands at a chunk of its
  reply, and once done it either failed without a match or has the verdict that the
  received chunks give (`Answered`). `LogInv` keeps that for the transfers of all batches.
- `RowsInv`: the rows written are the results that matched, in both directions.
- `TallyInv`: each counter is the tally of one field over all transfers, and the sample is
  drawn from their latencies by an injection of places (`Drawn`), so that no latency counts
  twice however the batches were cut and the reservoir was overwritten.
- `ExportInv`, `SummaryInv`: the file and the summary are made of the final rows and
  counters.

None of the properties follows from these parts alone. `NoOverread`, `MatchedSound` and
`NothingMissed` compare a verdict on the chunks that were received with a definition on the
complete response. The lemma between them is `DecodedFollows`: what the code decodes of the
first chunks is how what can be read of them begins, and is all of it when they are not
damaged; and what can be read of them is how what can be read of more chunks begins
(`Follows`). It is shown for each decoder (`UndoneComes`) and carried through any number of
layered codings (`FollowsOn`). That it speaks of `Reading` on the right is essential:
between two things the code decodes it does not hold, since more of a damaged body may
decode to less. A needle found in the part is therefore in the whole (`MatchedSound`), and
where the promised text ends within an undamaged received part (`PromiseReceived`, on the
wire or decoded) no match is lost (`NothingMissed`). `PercentilesRight` rests on
`AllSortable`, that values are put in order by a permutation of their places, and on
counting: the places up to the rank inject into the values at most that great, and the
smaller values into the places before it (`NearestAt`). `ExportKeepsAll` rests on the
metadata keys of a request being finitely many, through every way of building one.

Assumptions are the named ones: `CampaignAssumption` (the configuration passed
`EngineConfig.__post_init__`, the source is one of the four kinds, `stream_cut` is an
integer or `None` as `config.py` declares it), `HostAssumption` (hosts and entries of the
lists have a label), `NeedleAssumption` (needles are strings: they have a sequence of
symbols), `ReplyAssumption` (the shape of replies: the fields they have, a latency of zero
or more, finitely many chunks of bytes, `None` is no status), `ByteAssumption` (bytes decode
to finitely many bytes, pieces have at least one), `NumeralAssumption` and `SampleAssumption`.

**Folds.** The operators of the data path fold an operator over a sequence, as the code
loops over one. The library's induction theorem for that takes the operator as a parameter,
which no backend can instantiate. `FoldLeftFacts` has the facts instead as theorems about
its constants `Op` and `Good`: `FoldEmpty`, `FoldNext` (the fold of a sequence is one more
application of `Op` to the fold of its front) and `Induction`. `INSTANCE FoldLeftFacts WITH
Op <- WithField, Good <- Shaped` then gives the induction for one loop and one claim about
its results, without assumptions left open.

### Only model-checked

The four liveness properties, `EventuallyAllCommitted`, `EveryRunEnds`, `BatchEnds` and
`CampaignEnds`: the prover does not reason about fairness or enabledness. Every invariant
and every action property that a passing run checks is also a theorem.

The proofs do not depend on the instances, but on the named assumptions, which TLC evaluates
for the instances only; that the code meets them is argued where they are declared.

## What is abstracted or left out

- Bytes, JSON and the content of results; see cells above.
- The compression formats: what a byte of a body yields is given (nothing, if the text comes
  with a later one), the same wherever it stands and for every decoder that does not fail at
  it.
- The source: the same chunks in the same order in every run. A changed `chunk_size`,
  source or allow list renumbers the chunks, which no line of the manifest would reveal.
- Two campaigns that use the same checkpoint at the same time.
- That the truncation of a resume is not `fsync`ed: a crash soon after may bring cut rows
  back. The next resume cuts them again, from the same manifest.
- What runs inside a batch is one step of the campaign modules. `TaskProcessor` abstracts
  from the data of a request, `DataPath` from time; the three meet where a batch begins and
  ends.
- In a worker process of the spawn executor limiter and proxy pool are kept from batch to
  batch (`spawn.py:58-61`), only the gate is made anew for every batch. `TaskProcessor` keeps
  all three, as the in-process executor does; a first batch, whose gate is empty, meets the
  limiter and the pool in their initial state only.

## Not modelled

- `concurrency/pool.py`: `WorkerPool` is not used by the engine and has the submission loop
  of `SpawnCampaign`, without sinks and checkpoint.
- `concurrency/sizing.py`, `Engine._default_executor`: a choice made from the operating
  system's name and the number of processors.
- `RobotsCache`, `BackconnectGateway`, `MetricsCollector.record`: used by nothing in the
  package. `FakeTransport` is a test double, `sources/proxy_pool.py` strips lines.
- libcurl, zlib, brotli, zstandard, pyahocorasick, orjson, `urllib.robotparser`,
  `multiprocessing.Pool`: external, modelled as far as the code depends on what they do.
- Byte-level formats: JSON, CSV quoting, HTML; the throughput in the summary.
