# Convexa: TLA+ models, checks and proofs

Convexa streams every option trade and quote of a few underlyings from ThetaData's Theta
Terminal, keeps the day's option flow, volume, prices and gamma in Postgres and shows them
in a desktop client.  This directory models the parts of its backend (`src/backend`) that run
concurrently, fail and restart: TLC checks each on a small instance, and TLAPS proves the
facts that matter most for every value of the constants.

Paths below are relative to `src/backend`; `provider.py` is
`adapters/providers/thetadata/provider.py`.  The exact lines each definition stands for are in
`PROJECT.json` under `map`.

## 1. The system

The processes share one Postgres database and one Theta Terminal:

| process | started by | role |
|---|---|---|
| worker | `worker.py` | owns `ThetaStreamHub`, the only WebSocket to the Terminal; relays its frames |
| stream processor | `stream_processor_worker.py` | parses and classifies every frame the worker relays; writes prices, flow, volume |
| scheduler | `scheduler_worker.py`, `core/scheduler.py` | 30 s cycles: REST snapshots, chain, gamma, derived metrics |
| whale alerts | `whale_alerts_worker.py` | detects large flow in what the worker sends it |
| fast gamma, EMA alerts, volume corrections | `fast_gamma_worker.py`, `ema_alerts_worker.py`, `volume_correction_pass.py` | periodic passes |
| API | `main.py`, `api/` | reads the tables, pushes prices to clients |

### Inventory

| component | state | operations | hard behaviour | correct when |
|---|---|---|---|---|
| request slots (`request_slots.py`) | table `theta_request_slots`: per row `acquired_at`, `holder` | `acquire` (poll, claim, give up), `release`, `hold` | callers in several processes, crashes while holding, claims that turn stale, lost answers | the account's limit holds; a release never frees another's row; leaked rows return |
| REST request path (`provider.py` `_send_with_rate_limit_retry`) | locals of a call | slot, GET, release, sleep on 429, retry | retries compete for slots | a slot is held only while the request runs; retries are bounded |
| hub: frames (`provider.py` `ThetaStreamHub`) | `_message_queue`, frame counters, `_terminal_connected`, active socket | read, enqueue, evict, take, handle, reconnect, stop | reader and processor interleave; the queue outlives connections | a STATUS frame is attributed to the connection it was read from |
| hub: subscriptions | `_contracts`, `_subscription_requests`, `_failed_subscriptions` | register, resubscribe burst, live subscribe, verify, drop expired | scheduler threads register while the event loop resubscribes; answers come late | every registered contract is subscribed on the live connection |
| hub: watchdog | `_last_status_at` and the moments of the three streams, `_connection_opened_at`, `_market_open_since`, the delay | check, reconnect, back off, wait for the login | timers in lock-step, a Terminal that crashes, hangs or logs in late | a healthy Terminal is reconnected for good; a stalled stream is replaced |
| relay (`core/stream_processor_relay.py`) | one client, bounded queue | publish, drop, connect, disconnect | slow or lost client | the worker parses frames itself exactly while no processor is connected |
| cumulative volume (processor, `core/stream_state_export.py`, `postgresql.py`) | a counter per contract in two processes; one row per contract | count, export, upsert, roll at 20:15 ET, resume | two writers, restarts, roll during a save | stored volume is never double counted and never goes back |
| latest price (processor, `stream_underlying_price.py`, `refresh_snapshot.py`) | pending ticks, writer tasks, debounce windows; `market_snapshots` | receive, drain, persist, refresh | read-then-write from two processes | last tick written in order; the scheduler's volume survives |
| minute and strike flow (`minute_flow.py`, `strike_flow.py`, flush loops) | buckets per minute; additive rows | observe, take, flush in batches, put back | flush failures, cap, restarts | each trade reaches the table exactly once |
| large prints, option quote minutes | pending lists | capture, flush, put back | as above | lost at most, never duplicated |
| whale alerts (`whale_alerts_relay.py`, `flow.py`, `stream_whale_alerts.py`, `whale_alerts_stream.py`) | relay queues; per contract a bucket and two windows; tasks, lock and executor of a symbol | relay, batch, count, close a bucket, flush, save alerts, restart | lost connections, late trades, a save that fails inside the closing of a bucket | a trade counts once, in its minute; an episode is alerted once; quiet minutes close |
| stale index guard (`index_stale_guard.py`, the publisher in the processor) | samples and ratios per index, the open episode, the row `index_price_fallback` | observe a tick, start and end an episode, publish, retry, heartbeat | failed writes, restarts, hysteresis over medians | the row says what the guard does, for as long as it is trusted |
| storage adapters (`postgresql.py`, `postgresql_async.py`, `memory.py`) | the tables of the application, a cache of ids | a save and the reads of each table | SQL written twice, upserts, windows, transactions that fail, a second implementation for the tests | the three answer alike |
| schema (`db/migrations`, `db/env.py`) | the schema and its version | 58 migrations up and down | runs that break off, autocommit blocks, live imports, rows in the way | each version has its schema; upgrades go through; INSERTs fit |
| gamma mathematics (`gamma.py`, the calculators) | none | views of a chain, walls, flip, max pain, band | selections that overlap, ties | the views split the book; the levels of a view belong together |
| session readings (`calculate_anchored_vwap.py`, `replay.py`, `calculate_expected_move.py`, ...) | none | VWAP, candles, expected move, closing dynamics | carried volumes, gaps in a strip | each trade weighs once; the walk stops where it should |
| futures (`futures_proxy.py`, `futures_live.py`, `futures_anchor.py`) | anchors, live bars, three caches | resolve the offset, check an anchor, move a page, save automatically | caches that outlive their source, the roll, two savers and a typist | the offset in force is allowed; a page is its index moved by it |
| read models (`read_models.py`, `gamma.py`) | none | snapshot, gamma, chain, heatmap, history of a symbol | missing pieces | a future shows what its index shows |
| domain entities (`entities.py`) | none | construct | a value refused ends the cycle | every view the calculators build is accepted |
| chain discovery, EMA alerts, price notifications, monitors, frontend | caches, tables | periodic passes, queries | failures of one step of several | see PROJECT.json `components` |

Interactions: the hub calls the relay synchronously for every frame and falls back to its own
counters when the relay has no client; both counters reach the same rows through Postgres;
the processor and the scheduler meet only in `market_snapshots`; every REST caller of every
process meets the others only in `theta_request_slots`; the pages read what the scheduler, the
processor and the guard have stored, and a page of a future reads the index's rows and the
three caches of the basis.

The list of what is hard to test, each item at the line where it bites, is `hazards` in
PROJECT.json.

## 2. The modules

| module | models | run |
|---|---|---|
| `RequestSlots` | the Postgres slot pool and its caller's retry loop | `request_slots` (through `MCRequestSlots`) |
| `RequestSemaphore` | what any slot pool promises: a semaphore; also `InProcessThetaRequestSlots` | refined by `RequestSlots` |
| `RequestSlotsProofs` | proofs about `RequestSlots` | TLAPS |
| `CumulativeVolume` | both volume counters, both exports, the stored row | `cumulative_volume` |
| `PriceWrites` | the processor's price writers and the scheduler's price row | `price_writes` |
| `PriceWritesProofs` | proofs about `PriceWrites` | TLAPS |
| `FlowFlush` | minute and strike flow from capture to table | `flow_flush`, `flow_twice` |
| `ProcessorCountsProofs` | proofs about `CumulativeVolume` and `FlowFlush` | TLAPS |
| `StreamFrames` | the hub's frame queue and connection | `stream_frames` |
| `StreamFramesProofs` | proofs about `StreamFrames` | TLAPS |
| `StreamSubscriptions` | what the hub has subscribed: scheduler threads, burst, answers, verifier | `stream_subscriptions` |
| `StreamSubscriptionsProofs` | proofs about `StreamSubscriptions` | TLAPS |
| `HubWatchdog` | connection, backoff, silence watchdog and Terminal, with time | `hub_watchdog` |
| `WhaleEngine` | the windows of a contract and the closing of a bucket | used by `WhaleAlerts` |
| `WhaleAlerts` | relay, consumer, flush, lock and restarts of one symbol | `whale_alerts` |
| `WhaleAlertsProofs` | proofs about `WhaleAlerts` | TLAPS |
| `Schema` | what one statement of a migration does to the schema and to the rows that matter | used by `Migrations` |
| `Migrations` | the 58 migrations, up and down | used by `SchemaUpgrade` |
| `StorageWrites` | the columns and conflict keys of the adapters' INSERTs | used by `SchemaUpgrade` |
| `SchemaUpgrade` | alembic's runs over a database in use | `schema` (through `MCSchemaUpgrade`) |
| `PostgresStorage`, `AsyncStorage` | the tables, their saves, and the reads written in SQL twice | used by `Storage` |
| `MemoryStorage` | `InMemoryStorage` and its wrapper | used by `Storage` |
| `Storage` | the three side by side, and the anchor savers | `storage` |
| `StorageProofs` | proofs about `Storage` | TLAPS |
| `Entities` | what the constructors of the domain accept | used by the calculations |
| `Numbers` | arithmetic on integers, order, medians | used by the calculations |
| `GammaViews` | from a chain to the gamma views | `calculations` |
| `SessionReadings` | from a session's readings to VWAP, candles, expected move, closing dynamics | `calculations` |
| `FutureLevels` | the basis of a future, its caches, its anchors, moving a page | `calculations` |
| `PageReads` | what a page is told | `calculations` |
| `IndexGuard` | the stale index guard, its publisher and reader | `calculations` |
| `Calculations` | the questions put to the calculations, and the guard | `calculations` |
| `CalculationsProofs` | proofs about `IndexGuard`, `FutureLevels`, `PageReads` | TLAPS |

The components meet only through Postgres rows or the relay's one connection, and every module
contains both sides of the meeting it is about (both writers of the volume row, both writers
of the price row, reader and handler of the queue, threads and event loop of the
subscriptions, savers and typist of an anchor, guard and reader of its row).  Where modules
build on one another they EXTEND: `SchemaUpgrade` over `StorageWrites`, `Migrations` and
`Schema`; `Storage` over `AsyncStorage` and `PostgresStorage`, with `MemoryStorage` as an
instance beside them; `Calculations` over `PageReads`, `FutureLevels`, `SessionReadings`,
`GammaViews`, `Entities` and over `IndexGuard`.  The definitions a comment calls a mutant are
not part of any specification; each is a plausible bug that the property named next to it in
PROJECT.json `mutants` must catch.

### RequestSlots

State: `age[s]` is `now - acquired_at` of row *s* (`NULL` when free), saturated just past
`StaleAfter`, so time needs no bound; `pc`, `held`, `elapsed`, `waited`, `attempt`, `limited`
are the locals of a call of `_send_with_rate_limit_retry`.  `Acquire` is the whole UPDATE of
`_ACQUIRE_SQL` (lowest free or stale row, `FOR UPDATE SKIP LOCKED`), `ReleaseAndReturn` and
`ReleaseAndBackOff` are the end of `hold()`, which clears the row by number whoever holds it.
`AcquireLost` (claim committed, answer lost), `ReleaseFails` and `Crash` (every thread of a
process) leave a row behind.

*Assumption.* `HoldAssumption == MaxHold <= StaleAfter` is the claim of the comment on
`STALE_AFTER_SECONDS` ("comfortably above every known caller's real timeout").  httpx bounds
each phase of a request (connect, read, write, pool), not the whole: a response that keeps
trickling in may outlive the 90 s.  Without the assumption `WithinLimit` is false (the
`FreeTooSoon` mutant shows how).

*Bounds.* Three threads in two processes over two rows: a third caller always has to wait,
one process can crash with two rows while the other lives, and a row can go through claim,
crash, stale, reclaim while the other row is in use.  `StaleAfter = MaxHold = 3` ticks is the
tightest case the assumption allows; `AcquireTimeout = 1` is shorter than `StaleAfter`, as in
the code.

*Fairness.* Time passes; a thread that polls goes on polling; httpx ends every request; a
call leaves `hold()`.  Nothing else is fair: crashes, failures and new calls may or may not
happen.

### CumulativeVolume

One contract: contracts never interact.  `count["processor"]` and `count["worker"]` are the
two `cumulative_volume` dictionaries' values, `row` the stored volume and the trade date of its
`updated_at`.  A save is three steps, as in the code: the counter is copied on the event loop
(`ProcessorCopies`, `WorkerCopies`), the clock is read in a worker thread (`StampSave`:
`updated_at` and the cutoff), the upsert commits (`CommitSave`, GREATEST within a date,
replacement across dates) or fails.  `RollDate` can fall between any two of them.  The
processor's own roll (`roll_volume_day`) is part of the actions that call it.  `FrameLost` is a
frame in the relay's queue or on the socket of a connection that breaks.

*Bounds.* Three dates (so an old row can be two dates old) and three trades (one for each
counter and one for a resumed row).  A trade is one lot; sizes only multiply.

*Fairness.* Both export loops run for ever; a save may fail any number of times but not for
ever (SF on `CommitSave`).

### PriceWrites

Per symbol: `pending` and `writer` are `_pending_prices` and the state of the drain task
(created, waiting for a write slot, before the read, before the save), `event` and `carried`
its locals, `window` whether the write interval has passed.  `latest` is the newest row of the
append-only `market_snapshots`.  The scheduler's cycle is fetch, read the latest row, save; a
fetch that fails answers 0, as `_fetch_underlying_volume` does.  A price itself plays no part:
a row is its time and its volume.

`session` is ThetaData's counter: `Trade` raises it and `SessionOpens` (9:30) starts it over.
Nothing else starts over with it: the latest row, a tick between its read and its write and a
cycle between its fetch and its save still have the number of the session before, and ticks go on
carrying it.  Two history variables tell the sessions apart: `fetched` (the volumes a cycle ever
fetched) and `today` (since the session opened: no cycle has fetched, one has, one that did has
stored the latest row with no tick between its read and its write).

*Bounds.* Two symbols and one write slot (the code: four), so that a writer has to wait; one
of them is refreshed by the scheduler; two ticks let one be pending behind one being
written, and one carry the old session's volume past the opening and a second read the new one's.
Two sessions (`MaxOpens` = 1) and volumes up to 1 are enough for a volume of the first to be
above the second's; the inductive invariant was checked for one symbol with three
sessions, three ticks and volumes up to 2.  `MaxAsOf` bounds the times the scheduler still builds on.

*Fairness.* The event loop runs each ready task; the semaphore is first come first served
(SF on passing it).

### FlowFlush

One symbol and root: buckets are minutes.  `pending` is the recorder, `rows`/`todo` the flush
under way and the batches not yet committed, `stored` the table.  `whole` says which of the
two loops is modelled: `take_before` takes only minutes that ended, `take_strikes_all` takes
all.  The upsert adds to the row.  `BatchFails(landed)` is an exception before the commit or
after it; every row of the flush goes back, as in the code.  `counted`, `lost` and `partials`
are history.

*Bounds.* Three minutes, four trades, batch size 1 and cap 2: a flush of several batches, a
cap that evicts, late prints for an ended minute and a put-back over a changed recorder all
occur.  One partial failure is enough for what follows it.

*Fairness.* Minutes end, the flush loop goes on, and the database does not refuse a minute
for ever.

### StreamFrames

`conn`, `phase` and `closing` are the connection task of the hub, `queue` is
`_message_queue`, `hand` the frame `_process_messages` has taken but not counted (it yields to
the event loop after every 64 frames, between the take and the count), `enqueued`,
`dequeued`, `staleBefore` are the hub's own counters.  A frame is its kind and the connection
it was read from; the code only knows its position.  `overtaken` records that a frame was
evicted while another was in hand: the position is then off by one, which the code accepts.
`Evict` is the full-queue branch: everything but a QUOTE replaces the oldest frame.

*Bounds.* A queue of two, five frames, three connections: frames of two dead connections can
wait at once, and a full queue can evict before and after a reconnect.  The run does not
check for deadlock: `Stop` ends the hub for good, and the bounds on frames and connections
end the rest.

*Fairness.* The processor's task runs again whenever it can, and a scheduled close lands
(`WF_vars(closing /\ ConnectionEnds)`); connections are not assumed to succeed.

### StreamSubscriptions

`registered` is `_contracts`; `missing` and `fresh` are a scheduler thread in
`_register_streaming_contracts` (it asks, registers, and after its loop has each new contract
subscribed), `scheduled` the coroutines it gave the event loop.  `Connect`, `WaitEnds`,
`BurstSend`, `BurstEnds`, `ConnectionEnds` are `_consume`; `Verify`, `Resend`, `ResendEnds` are
`_verify_subscriptions`.  `requests`, `nextId`, `failed`, `checks` are the hub's own fields.
`sent`, `forced` and `rejected` are history.  An answer keeps the connection it was read from;
the code sees only its id.  Answers are handled in any order, and one that is never read
stands for one that never came, was thrown away during the wait for CONNECTED, or was evicted
from the queue.  A contract's TRADE and QUOTE requests are one; `MAX_STREAMS_REACHED` and the
like count as answered, as in `_note_subscription_response`.

*Bounds.* Two contracts and one thread (a second one would only repeat the first's steps on
other contracts), two connections, four requests, one retry round, two failed checks in a
row: a contract can be registered in every phase, a rejection can outlast a round, and a
second failed check can follow a forced reconnect.  The run does not check for deadlock:
`stop()` leaves the hub down for good, and the bounds on connections and requests end the rest.

*Fairness.* The verifier's task goes on.  The Terminal need not answer.

### HubWatchdog

Time is counted in the watchdog's 5 s intervals and kept as ages: `openFor` of the connection,
`statusAge`, `dataAge[stream]` and `since` of the four moments the hub remembers, saturated
where no comparison looks further, so time needs no bound.  `Connect`, `Login`, `StatusDown`,
`RecvTimesOut` and `ConnectionEnds` are `_run` and `_consume` with the backoff (back to the base
delay only after a stable connection); `Tick` is one interval with the whole check of
`_watch_for_data_silence`, in its order: STATUS first, then the streams, at most one reconnect.
The Terminal crashes, hangs (it accepts and says nothing), drops its own link or stops one
stream at any moment, and the market opens and closes.

*Bounds.* Ages saturate; two streams are enough for the loop that stops at the first silent
one.  `Silence` is longer than `Stale`, which is longer than `LoginWait`, as in the code, and the
largest delay is a multiple of the check interval, which is what the lock-step needs.

*Fairness.* The hub's own steps and time; a Terminal that was asked logs in.  `HubSettles` is
conditional on a Terminal that stays healthy, and the Terminal itself may never be.

### WhaleEngine and WhaleAlerts

`engine[c]` is a `_ContractState`: the bucket in progress, the previous buckets (the trailing
average) and the window of the sustained flow, with the trades behind each so that a trade
can be found again.  `published`, `outbox` and `inbox` are the server's and the client's
queue of the relay, both of which drop when full; a broken connection loses what is on its
way.  `trader` is the consumer: it collects (a batch of `Batch` for SPY and QQQ), takes the
lock, runs the engine on an executor thread, and ends the run when that raises, upon which
the manager starts it again.  `flusher` is the periodic flush with its own task.  An engine call
is one step for each trade (`TraderCounts`) or contract (`FlushLooks`; `remaining` are those it
has yet to look at), so that calls can interleave: a flush that is cancelled while its executor
call runs leaves the call running (`orphans`), beside the run that the manager starts.  A write of an
alert may fail in the calls named by `Failing`; what the engine had changed before stays
changed, in the order of `_finalize_bucket`.

*Bounds.* Two contracts, batches of two, queues of two, three trades, three minutes and one
failed write: a bucket can close by a trade, by the flush or by neither, a late trade can
follow the flush, and a failed write can hit either alert of a closing.  Windows of one and
two minutes stand for 5 and 15.  The run does not check for deadlock: minutes and trades end.

*Fairness.* The tasks of the loop go on, executor calls return, and the lock serves its
waiters in turn.

### Schema, Migrations, StorageWrites and SchemaUpgrade

`Schema` gives each statement a migration uses (create, drop, add, seed, delete, swap a CHECK,
build an index) its effect, and its refusal: a column or a key that is missing or still needed, a NOT NULL
without a value for a row that exists, a row that another one refers to.  `Migrations` is the chain as data.
`SchemaUpgrade` keeps what is committed and the transaction of the run under way; `StepUp` is
one migration, and when it has an autocommit block everything before the block is
committed with the version of the migration before it, as alembic and PostgreSQL do.
`Application` writes the rows that can be in a migration's way: an underlying, a customised
threshold, an aggregate without a flip, prices of NQ (which stand for its bars and alerts too: the
migration that removes NQ deletes none of them).

*Bounds.* Three symbols, one of each fate (there from the first seed, added later, added and
deleted), two rows of the application, two runs that break off, in all orders of upgrades
and downgrades.

### PostgresStorage, AsyncStorage, MemoryStorage and Storage

A table is a set of records, a save an operator from tables to tables, a read an operator
from tables to an answer; one number stands for the values of a row.  `EnsureUnderlying` is
`_ensure_underlying_id` with its cache and its sequence.  In a behaviour of `Storage` one family of
tables is saved into, at times that may be old, equal or out of order; each save goes to the
tables and to the memory at once, and the properties compare what the three adapters then
answer.  `SaveFails` is a transaction that rolls back; `AutoReads` and `AutoWrites` are the two halves of
`auto_save_anchor`, for NinjaTrader and Yahoo, with a typed anchor between them.

*Bounds.* Two symbols (a configured one and another), a second configured one without a row, three saves,
three moments over two days of two moments each, windows of two and one.  A chain from before
migration 0036 may be in the tables.  Both symbols have their row in the run: a symbol
created by a transaction that rolls back stays in the cache of ids and is written to a row
that does not exist (`StorageCachedIds.cfg` below).  The run does not check for deadlock: the
saves are bounded.

### GammaViews, SessionReadings, FutureLevels, PageReads and Calculations

Pure operators, one per function, with the function's name where it is public.  Prices are
integers and every factor that scales all results alike is left out; a quotient is kept as a
fraction (the VWAP) or only its sign matters (the variance).  `Calculations` asks: a behaviour
puts one question, with one of its inputs, and keeps question and answer; only the roll is a
walk of sixty days, and the offset of a future is asked twice, so that the second page finds
the caches of the first.

*Bounds.* Books of options over seven places in six expirations and three strikes, each empty,
light or heavy, with and without daily bars; two pages up to 700 s apart around
the open, with any of three live bars and an anchor there, missing or typed in between; each of two rolls, a
trader up to three business days before or two after it, three bases; five volumes of which
any may be carried; a strip of five strikes with any bids missing on either side.  These are
the cases the functions distinguish: ties, gaps, missing expirations, boundaries of the
windows and of the times to live.

### IndexGuard

`guard` is the `_IndexState` of one index, `proxy` the last tick of its ETF, `changes` what
`drain_changes` returns next, `publisher` the locals of `_publish_index_fallback_periodically`, `row`
what is stored.  A tick of the index is fresh or lagging, at one of two prices, so the ratio is
aligned or has drifted; the publisher's write may fail; `RestartProcessor` loses everything but the row.
`unhealthy_at` and `restarted_at` are history.

*Bounds.* Six moments, two prices of the index against one of the proxy, hold times of one
or two moments, two samples for a good ratio, one restart.  An episode can start, end, start
again and be forgotten by a restart.

## 3. What the runs show

Every property of a passing run has a mutant in PROJECT.json, a plausible bug that makes TLC
find it violated.  The name in brackets after several facts is the conjunction of them.

* `request_slots`: types, distinct rows, a live claim's row neither free nor stale, the limit
  on requests in flight (`SlotsSafe` = `TypeOK`, `DistinctRows`, `ClaimStands`, `WithinLimit`); no
  release takes another's row, rows of the dead come back (`OrphansRecovered`), every acquire
  ends (`AcquireEnds`), and the table refines the semaphore (`ImplementsSemaphore`).
* `cumulative_volume`: no trade is counted twice on the way to the table (`NoDoubleCount`, which
  needs the GREATEST: the `AddToRow` mutant breaks it) and the processor's counter is of its
  date (`CountsReal`); the stored figure falls only at a roll, counts are stored.
* `price_writes`: no pending tick without a writer, ticks in order, every shown volume one that
  was fetched, and never the session before's again after a cycle of this session has stored its
  own undisturbed (`WritesSound`; a scheduler that kept the larger volume would pass any one-session
  test and breaks it); the scheduler's volume shows unless a stream row came in between.
* `flow_flush`: no trade lost, exactly one place for each as long as no flush fails after
  committing some of its rows (`TradesAccounted`); ended minutes are written.
* `stream_frames`: the counting stays aligned through evictions, positions tell the
  connections apart while one is read (`FramesSafe`), a STATUS is judged by its connection, and a
  live DISCONNECTED takes the connection down.
* `stream_subscriptions`: once the snapshot is taken every registered contract was sent after
  the Terminal was ready or is on its way, rejections survive the verifier's rounds
  (`NothingForgotten`) and are re-sent while it has one left, it never forces `MaxChecks`
  reconnects in a row, and answers of a dead connection never count for the live one.
* `hub_watchdog`: once the Terminal stays healthy the hub ends up on one connection it never
  closes again (`HubSettles`: the lock-step of 2026-10-03 is gone), and a stream seen before does not
  stay stalled in market hours (`StallEnds`).
* `whale_alerts`: each trade is taken once, in order, and counted in its own minute
  (`TradesInPlace`), the sustained flag agrees with the window whatever write failed
  (`AlertedMatchesWindow`), and a quiet minute closes (`BucketsClose`, as long as the flush's own
  writes succeed).
* `schema`: the schema is the one of the recorded version, but for what an autocommit block
  leaves (`SchemaHolds`); PostgreSQL refuses a statement because of stored rows only
  (`StatementsGoThrough`); every INSERT fits the newest schema; no upgrade clobbers a customised
  threshold.
* `storage`: the tests' storage answers as the tables do (`SameAnswers`, whose conditions say
  where it does not), the asynchronous SQL as the synchronous and the charts show what is stored
  (`ReadsAgree`), a typed anchor stands (`TypedAnchorStands`).
* `calculations`: the tabs split the book and the levels of a view belong together (`ViewsAgree`);
  the offset in force is within the allowed gap of the anchor and as fresh as its caches allow
  (`OffsetStands`); the pages of a future are those of its index moved (`FutureFollowsIndex`); true
  anchors around a roll are accepted (`RollAccepted`); traded volume weighs once
  (`VwapCountsOnce`); the walk over the strikes stops where it should (`WalkStops`); the guard's
  row is true while trusted (`BannerTrue`) and an episode ends only after a quiet hold
  (`QuietBeforeRecovery`).

One run ends in a violation, the finding of PROJECT.json: `flow_twice`, where
"every batch is one transaction, so a failed flush leaves nothing half written"
(`postgresql_async.py:945`), while batches already committed are put back and added again.

### Further configurations

Nine configurations are kept beside the runs; each checks one sentence and ends in a
counterexample (`CalculationsSentences` holds three sentences, of which one at a time is left in).
`tlc -config <cfg> <module>` shows it.

| configuration (module) | property | sentence | what happens |
|---|---|---|---|
| `MCRequestSlotsExhausted` (`MCRequestSlots`) | `ExhaustedMeansContention` | `request_slots.py:150` "real, sustained contention across processes" | a crash blocks the rows for 90 s while callers wait 15 s |
| `CumulativeVolumeRoll` (`CumulativeVolume`) | `ProcessorSavesItsDate` | `stream_processor_worker.py:253` "a per-trade-date figure" | copy before, clock after 20:15 ET: the old total becomes the new date's |
| `CumulativeVolumeWorker` (`CumulativeVolume`) | `WorkerExportsItsDate` | `trade_date.py:10` "the counters now roll at 20:15 ET" | the worker's fallback counters never roll |
| `PriceWritesZero` (`PriceWrites`) | `StreamNeverZeroesVolume` | `stream_underlying_price.py:169` "can never reset it back to 0" | the stream's read of "no row yet" is saved after the scheduler's row |
| `StreamFramesStale` (`StreamFrames`) | `StaleStatusIgnored` | `provider.py:1071` a left-over STATUS "is not mistaken for news about the new one" | it is, until the wait for CONNECTED ends |
| `WhaleAlertsOverlap` (`WhaleAlerts`) | `OneCallAtATime` | `stream_whale_alerts.py` `run()`: flush and trades "can never run concurrently" | a cancelled flush's executor call runs on beside the restarted consumer |
| `WhaleAlertsFlush` (`WhaleAlerts`) | `BucketsClose` | `flow.py` `flush_stale_buckets`: the bucket "previously wouldn't close" without a trade | a write that fails inside the flush ends the flush task until the symbol's run ends |
| `StorageCachedIds` (`Storage`) | `CachedIdsExist` | `postgresql.py` `_ensure_underlying_id`: "never a wrong value" | the id of a symbol whose creation rolled back stays cached |
| `CalculationsSentences` (`Calculations`) | `OneOffset` | `futures_proxy.py:9` one anchor "drives the chart, the VWAP and these levels" | the history pages use the anchor only, the levels the live basis |
| `CalculationsSentences` (`Calculations`) | `EarlyRollAccepted` | `futures_anchor.py:39` "within ROLL_WINDOW_DAYS of it either contract is accepted" | a contract changed three business days early has true anchors refused around the roll |
| `CalculationsSentences` (`Calculations`) | `CarriedNeverCounts` | `calculate_anchored_vwap.py:85` carries of "the pre-open count" are dropped | a carry lower than every real counter is not recognised (4, 6, 4, 8 weighs 10 of 8) |

### Met while modelling

Smaller things the models contain and no property is about:

* Closing a bucket (`flow.py`): a save that fails between the window and the reset leaves the
  bucket to be closed again, so its amount enters the window twice and a WHALE alert may be
  saved twice; a SUSTAINED alert whose save fails is never saved, since its flag is set first.  The start of a
  sustained window counts back whole minutes from the last bucket, and after quiet minutes or a late trade is
  not its first trade's minute.
* The whale relay's client never goes back to its first delay after a good connection.
* `SchemaUpgrade`: the autocommit blocks of 0036 and 0037 leave their column and index behind
  when the run breaks off; 0035 fails while NQ has prices; the downgrade of 0021 is refused
  once an aggregate without a flip is stored.
* `Storage`: a narrow snapshot that is alone in the 15-minute window is preferred to an older
  one of several expirations; a configured symbol without a row has no stored threshold, but a default in
  `InMemoryStorage`; rows from before 0036 are missed by the fast tier.  `CandleCache`s are
  stamped before the read they wait for.
* `IndexGuard`: every evening a "silent" episode opens and lasts until the hold after the next
  open; after a recovery the samples are gone and the guard is blind until it has enough; samples are
  pruned only when one is added, so a good ratio may be older than its window; an index can recover without
  a proxy to compare it with.
* `calculate_expected_move` falls back to a volatility of 0 and so to a move of 0 when no
  option has one; the floor of `MIN_YEAR_FRACTION` acts in the last minute and a half only.
* `HubWatchdog`: a stream never seen on any connection is never judged.

## 4. What is proved

`RequestSlotsProofs` proves, for every number of callers, processes, rows and every
`MaxHold <= StaleAfter`: `TypeOK`, `DistinctRows`, `ClaimStands`, `WithinLimit`,
together `SlotsSafe` (theorem `SlotsAreSafe`), `NeverFreesAnothersRow` and the refinement of
`RequestSemaphore`.

The invariant is `IInv`: types, `RetryCounted` (a call in backoff has a retry left, which
bounds `attempt`), `HeldByHolders` (exactly the callers between claim and release have a row),
`ClaimStands` and `DistinctRows`.  `WithinLimit` is not inductive: it follows because holders
map injectively into `Slots`.  `DistinctRows` is not inductive either: a claim could take a
held row that turned stale.  `ClaimStands` excludes it, since a held row's age equals its
holder's `elapsed`, at most `MaxHold`, so it is never `Stale`; this is the one place where
`HoldAssumption` is used.  `ClaimStands` in turn needs `DistinctRows`, because a release clears a
row by number.  The refinement maps `inFlight` to the callers whose request runs: `Acquire` is
an `Enter` (its room comes from the row it takes, which no holder has), `EndRequest` and `Crash`
are a `Leave`, everything else stutters.

`StreamFramesProofs` proves, for every queue size and any number of frames and connections:
`TypeOK`, `CountsAligned`, `PositionTellsConnection`, together `FramesSafe` (theorem
`FramesAreSafe`), and the action property `StatusJudgedRight`.
The invariant adds `FramesAreOld` (no frame is from a later connection, and all are from earlier
ones while the hub waits for CONNECTED: this is why `_stale_frames_before` can be set to
`_frames_enqueued` after the wait) and `HandTold`, the position of the frame in hand.
`PositionTellsConnection` alone is not inductive: a taken frame leaves the queue before it is
counted, so its position has to be remembered until then; an eviction in between invalidates
it, which `overtaken` records.  The only assumptions are that the bounds are natural numbers
and that `None` is not a frame.

`ProcessorCountsProofs` proves about the volumes, for any number of dates and trades: `CountsReal` (types, no trade
twice in the stored figure, the processor's counter is of its date) and `StoredOnlyGrows`.
`NoDoubleCount` speaks about the row only and is not inductive: a figure is on its way long before
it is stored.  The invariant adds `NoneMadeUp` (counters, the copies of saves under way and the
resumed figure hold no more than was received), `StampHasCopy` (a save has copied before it is
stamped) and `ProcessorInTime` (the processor's counter is 0 until it has resumed, so that adding
the resumed figure counts nothing twice).

About the minute and strike flow it proves, for any number of minutes and trades and any batch size
and cap: `TradesAccounted`, which is inductive as it stands.  What carries it is the type of `todo`: the
minutes still to be written have a bucket in `rows`, so a flush that has nothing in hand owes
nothing, and the next take cannot overwrite an unwritten batch.

`PriceWritesProofs` proves, for any number of symbols, ticks, sessions and volumes and any concurrency:
`WritesSound` (types, no pending tick without a writer, ticks in order, every shown volume one that was
fetched, and of this session once a cycle has stored it) and `SchedulerVolumeShows`.  The invariant says what the two writers hold between their read and their
write: `WriterHasEvent` and `CarriedIsReal` for the stream's writer, `CycleHasMarket` and
`SeenIsPast` for the scheduler.  `CarriedIsReal` also says of which session each volume in hand
is: a tick that read before the new session's row was stored may still write the old one, which is
why `today` waits for it.  `SeenIsPast` is why the scheduler's row, one step later than the
row it read, is the latest one unless a stream row came in between.  Assumed besides the
bounds: `None` is neither a tick nor a row (`NoneAssumption`).

`StreamSubscriptionsProofs` proves, for any number of contracts, threads, retry rounds, connections
and requests: `NothingForgotten`, `ForcedReconnectsBounded` and `OldAnswersNeverCount`.  None is inductive
alone.  The invariant adds `IdsUsed` (request ids are below the next one), `AnswersOfConnection` (an
answer of an earlier connection carries the id of no open request, which is why it cannot count),
`VerifierReads` (the verifier runs only while frames are read, and starts with every rejection on
its list) and `OneCheckEach` (a connection is checked at most once, and forced away at most once).

`WhaleAlertsProofs` proves, for any contracts, thresholds, windows, queue and batch sizes and any number of
trades, minutes and failed writes: `TradesInPlace`, `AlertedMatchesWindow`, and two facts no run
checks because they bound what the configurations above show.  `TakenInOrder` is not inductive: nothing
about the engine says what it will be given next.  `InLine` speaks of the whole line, what was taken,
what is left of the batch, the client's queue and the server's: each part is in order, the parts
come one before the other, and none holds a number beyond `published`.  Full queues, lost
connections, closed collectors and failed calls only ever cut something out of that line.
`BucketHoldsItsMinute` needs that a flush puts an empty bucket of a later minute in place of the old
one, and that a late trade is refused; `AlertedMatchesWindow` that `Close` sets the flag with the window
and before the write that may fail.  `EngineCallsApart` says how far the sentence of `run()` is true: the
flush and the trade calls of one run never overlap, since who calls holds the lock, and before
the first failed write there is one call at a time, so only a thread left behind overlaps.
`OneAlertAnEpisode`: a sustained alert is stored only in the step in which that contract's window becomes due.
`WhaleAssumption` and `WindowsAssumption`: the bounds and thresholds are natural numbers, and windows and batches
hold at least one.

`CalculationsProofs` proves about the guard, for any prices, clock, hold times and limits: `BannerTrue` and
`QuietBeforeRecovery`, of `IndexGuard` by itself (`BannerIsTrue`, `QuietRecovery`) and of the
composition that the run checks (`GuardAmongCalculations`).  `BannerTrue` is about quiet moments
only; the invariant follows the fact "the index is replaced" through every hand that passes it on:
`ChangesTell` (the last undrained change, or else the publisher's open episode, says what the
guard does) and `RowTells` (what is still to be written, or else the row, says what the publisher
knows, but for an old row that a restart left).  `WaitIsQuiet` (the wait of an open episode
starts after its last unhealthy tick) gives the other.  `GuardAssumption`: `None` is neither a number nor a
row, times are natural numbers, and prices are positive natural numbers (the ratio divides by
them).

About the futures it proves that `OffsetStands` is an invariant (`OffsetStandsAlways`), from two results for any
storage: `OffsetKeepsToAnchor`, for any caches, and `PagesKeepCaches`, for the caches that any number of
earlier pages may have left.  What such pages keep is `CachesStand`: a live basis was read with a bar
fresh at that moment, and an open is the median of a first minute that is over.  It needs that the readings
that arrive between two pages are later than those there were (`GrowsTo`), and that a finite
set of readings has a latest one (`LatestIsNewest`).  The run asks for two pages; its
storages meet both (`KnownIsWorld`, `KnownGrows`).  `FuturePageFollowsIndex` is the part of `FutureFollowsIndex` about the
snapshot, for any tables instead of those the run puts in.  Its hypotheses are the shape of the page of
an index (`IsSnapshot`: prices and levels are integers, a level may be missing) and an integral
offset, both of which TLC found true in every state of `calculations`.

`StorageProofs` proves, for any symbols, moments and number of saves, over every save of the
adapters and every transaction that fails: `TypeOK`; `CachedIdsAreTheirOwn`; `OneAutomaticAnchor`;
`TypedAnchorStands`.  The invariant is `IdsFit` (the ids of underlyings come from a sequence that
never goes back, and a row and the cache never give one id to two symbols: it has to speak of
the sequence because a rollback takes the row back but neither the cached id nor the number drawn),
`OneAnchorADay` (the primary key) and `SavedIsThere` (a saver that reports a save left a row that is
still there: without it the second saver could report one as well).  `CachedIdsAreTheirOwn` bounds what
`StorageCachedIds` shows: the wrong cached id names no row, never another symbol's.
`TwinReads` states for the fifteen asynchronous reads with a synchronous twin that they answer alike
over any tables whose rows of aggregates and snapshots are finitely many, and whose times are integers, those of
flow events not before the epoch (`RowsFit`).  `RowsFit` is an invariant of the saves, so that they
answer alike in every state: `ReadsOfTwinsAgree`, the part of `ReadsAgree` about one statement each.  Where one statement takes a MAX and the other compares rows, the proof needs
that a finite set of times has a latest one (`MaxIsLatest`: among the sets without one a
smallest would exist, since strict inclusion of finite sets is well-founded).  `StorageAssumption`: finitely many symbols, those with a
row to begin with among them, one of them configured, and a clock that starts after the epoch.

`KeyedAnswersAlike` proves three of the seven parts of `SameAnswers`: `SameAccounts`, `SameLatest` and
`SameVolumes`, the families whose tables have one row per key that a save replaces.  The
invariant, `KeyedFits`, gives for each family the correspondence of its table with the
dictionary of `InMemoryStorage`.  Where rows carry an `underlying_id` it is `Mirrors`, and keeping it
needs `IdsFit`: a save through a wrong id would change what another symbol is told.  For the volumes it has to
say that each row comes from a save of the day, or the pruning of old trade dates could not be shown to
leave them alone.  Presets go to JSON and back, and a limit that was not set has to come back
unset (`PresetRoundTrip`).  The conditions are those of the
properties: a username is unique in its normal form only, volumes are pruned and compared by trade date, and a
configured symbol without a row has a threshold in `InMemoryStorage` only (NQ, whose row and
threshold 0035 deletes and which ACTIVE_UNDERLYINGS has again, until one is saved).

Only model-checked, and why:

* liveness and leads-to, which TLAPS does not prove under fairness: `OrphansRecovered`,
  `AcquireEnds`, `CountsAreStored`, `PendingTakenUp`, `EndedMinutesStored`, `RejectedResent`, the
  reaction to a live DISCONNECTED, `HubSettles`, `StallEnds`, `BucketsClose`;
* what folds, sorts or recursive functions compute, which needs induction over data:
  `SchemaHolds`, `StatementsGoThrough`, `WritesFitNewest`, `UpgradesKeepThresholds` (a fold over the
  migrations); of `SameAnswers` the histories, chains, feeds and minutes, which are sorted or summed; the tiers of the full chain and the charts in `ReadsAgree`; `ViewsAgree`, `RollAccepted`,
  `VwapCountsOnce`, `WalkStops`; the strikes of the pages in `FutureFollowsIndex`.

## 5. Not modelled

Black-Scholes and its Greeks (exp, log, erf), the classification of a trade (Lee-Ready, BVC) and
its delta weighting, password hashing, serialisation and routing of the API, the frontend,
diagnostics.  Chain discovery, the EMA alerts and the price notifications are left out: they
keep caches or one row each, and the code makes no promise about them that relates two
steps.  Large prints repeat the minute flow's capture, flush and put-back and are modelled as a
table only.  PROJECT.json `components` gives the reason for each part.  Frames lost with a broken
relay connection are modelled, but no promise is made about them: the code makes none.

## 6. What is open

One theorem is about operators over any data, and not yet an invariant of its specification:
`FuturePageFollowsIndex` supposes that the snapshot page of an index has the shape `IsSnapshot`.
