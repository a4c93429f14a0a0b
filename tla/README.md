# Verification of AUREON-MCX

TLA+ models of the live data path and the services around it, checked with TLC and partly
proved with TLAPS. AUREON-MCX observes MCX contracts: it builds one-minute candles from a
WebSocket feed, aggregates them, analyses closed candles, and presents setups in Discord. It
places no orders; what it promises is that **analysis only ever sees closed, complete and
trusted candles, exactly once each and in order**, and that whatever it could not observe is
asked of the broker, repaired, or put on record as lost. Most of this project is about that
promise; the rest is about what is derived from those candles, and how it is told.

## 1. Inventory

All code is in `src/aureon_mcx`. One asyncio loop runs everything except broker and chart
calls, which leave it through `asyncio.to_thread`; an interleaving is therefore possible at an
`await` and nowhere else, and an action of the models is what runs between two awaits. The one
exception is the HTTP client, which several threads share.

| Component | State it keeps | Operations | Hard behaviours | What makes it correct |
|---|---|---|---|---|
| M1 builder (`market/candle_builder.py`, `M1CandleBuilder`) | open bucket, coverage start, staleness, last closed minute | `add_tick`, `flush_at`, `set_connected`, `set_disconnected`, `set_stale`, `mark_emitted_until` | ticks late, buffered, replayed; stalls; loop that runs late | a broken minute is never trusted; each minute decided once; an open minute closes |
| Candle pipeline (`CandlePipeline`) | pending minutes, gaps, deferred bars, suspension, last dispatched bar per timeframe, tick buffer | `on_tick`, `flush_at`, `process_m1`, `verify_m1`, `recover_m1`, `repair`, `begin/end_recovery`, `reconcile_m1` | bars completed late or out of order, several gaps at once | complete bars are delivered once, in order; nothing after a gap before the gap; nothing lost |
| Aggregators (`market/aggregation.py`) | open bucket, buckets that are gaps with what they have | `add`, `flush_at`, `add_late`, `replace_constituent` | missing constituents, empty buckets, session ends | a passed bucket is either complete or a gap |
| Continuity (`continuity.py`, `app.py`) | incidents in memory and in SQLite, backoff, in-flight flags | `verify`, `repair`, `recover`, `reconcile`, `_continuity_tick`, `_restore_incidents` | state read before an await, partial answers, crash, day end | every unresolved minute or gap has an incident; every incident ends; LIVE means continuous |
| Health (`health/health.py`) | component table, a state per symbol | `set_symbol_state`, `_settle_symbol_state`, `_stale_check` | several writers of one state | the state says what the data is worth |
| Feed (`broker/dhan/live_feed.py`) | socket, subscriptions, reconnect attempt | `run`, `subscribe`, `unsubscribe` | drops, frozen sockets, bounded backoff | reconnects for ever, resubscribes all |
| Supervisor (`app.py`, `crash.py`, `agents.py`) | tasks, restart counters, crash reports, agent states | `_supervise`, `_handle_task_exit`, `_recovery_check`, `shutdown` | exits during a backoff, stop during a backoff | every exit is handled; stop stops; given up is final |
| Rollover (`app.py`) | runtimes and pending runtimes per contract | `check_rollover`, `roll_symbol` | feed, recovery and verification between its awaits; its own exceptions end housekeeping | a tick reaches its contract's pipeline; a bar stays with its contract; the symbol does not stay warming |
| Symbol resolver (`broker/dhan/symbol_resolver.py`) | instrument master | `resolve`, `_apply_policy` | an older master | one contract or an error |
| Observer and setups (`observer.py`, `setups/`) | last bar per timeframe, open setups, their context; tables | `on_closed_candle`, `warm`, `SetupTracker.evaluate` | restart in the middle of a candle, replay of history | replay changes nothing; each transition is allowed and recorded |
| Detection, indicators, structure (`detection/`, `indicators/`, `structure/`) | rolling windows, an episode per level | `update` per closed candle | boundaries of windows, restart in the middle of the history | no look-ahead; the same pivots whatever the start; an episode is told in order |
| Multi-timeframe reads, confirmation (`mtf/`, `confirmation/`) | running sessions | `assess`, `evaluate_clearance`, `fakeout_flags`, `SessionTrendTracker.update` | timeframes that close in any order | no clearance against a timeframe or under a risk flag; an ended session is not current |
| Outcomes (`outcomes/`) | frozen snapshots, observations per horizon, markers | `freeze`, `update_pending` | crash between writes, session end, missing bars | a final observation covers its horizon, no more and no less |
| Sessions (`market/sessions.py`) | calendar files | twenty questions: open, next open, effective close, H4 buckets, named sessions ... | short days, special sessions, a day past midnight, year ends | all answers agree with one set of open times |
| Market watch (`app.py`, `_market_watch`) | last state told | a periodic look | a look that comes late | what was told last is what was seen last |
| Scanner (`scanner/`) | a quote per contract, leaders, a cached board | `tick`, `rankings`, `leaderboard`, `build_universe` | stale quotes, market closing, restart | shown is what the quotes say now |
| Historical cache (`broker/dhan/historical.py`, `storage/repositories.py`) | candles, verified coverage intervals | `fetch`, `load`, `record`, `uncovered` | partial answers, chunks, crash between writes | coverage is never claimed for what is not stored |
| HTTP client (`broker/dhan/client.py`) | times of recent calls | `acquire`, `post_json` | several threads, retries | both limits hold in every window |
| Event bus and operations channel (`events.py`, `discord/ops.py`, `discord/bot.py`) | last event per key; queue, times of sends | `publish`, `on_event`, `due`, the flush loop | bursts, an exhausted rate limit, failing sends | nothing vanishes unannounced; sends are paced |
| Discord cards (`discord/`) | pending views, message ids | `offer`, `due`, `_flush_once` | failed sends, deleted messages, crash between send and record | a changed setup is eventually shown; one card per setup |
| Storage, API, configuration, tools | tables; none | repositories, projections | transactions | idempotent writes |

`Application` composes them: feed status and ticks go to each symbol's pipeline; the pipeline
calls the observer back with complete bars and the application with gaps and pending minutes;
the application opens incidents, spawns verification and repair, and settles the health state;
the observer writes tables and publishes views, which the Discord task sends; state changes,
crash reports and market events go to the event bus and from there to the operations channel.

`PROJECT.json` lists the hazards met in this code, each at its line, with the properties that
cover it or the reason why none does.

## 2. Modules

| Module | Models | Notes |
|---|---|---|
| `M1Builder` | the builder, the recovery tick buffer, the stall watchdog, the flush loop's effect on it | time in instants, `Slots` to a minute; a packet carries a trade time up to `MaxLag` behind its arrival |
| `MinuteStream` | the promise of the builder: minutes decided at most once, in order, admitted or queued | refined by `M1Builder` (`StreamOfMinutes`) |
| `Basics` | lemmas about sets and sequences that several proofs need | TLAPS |
| `M1BuilderProofs` | proofs about `M1Builder` | TLAPS |
| `CandlePipeline` | one symbol's pipeline and aggregators, recovery, verification and repair answers | time in minutes; the pipeline is one record that the methods pass along |
| `BarStream` | the promise of the pipeline: bars in order and once, a gap open until it is served, nothing past an open gap unless one is settled, a minute owed until it is served | refined by `CandlePipeline` (`StreamOfBars`) |
| `Continuity` | incidents, their table, the scheduler, the asynchronous operations, day end, crash and restart, health | extends `CandlePipeline`: every pipeline step is wrapped in the application's callbacks |
| `Supervisor` | supervised tasks, restarts, crash reports, shutdown | |
| `ContinuityProofs` | proofs about `CandlePipeline` and `Continuity` | TLAPS |
| `NoticesProofs` | what the steps of `Notices` preserve | TLAPS |
| `ApplicationProofs` | proofs about `Supervisor`, what the steps of `Rollover` preserve, and the proofs about `Application` | TLAPS |
| `Resolver` | the choice of a contract | operators |
| `Rollover` | one symbol's change of contract, with the feed, recovery, verification and crashes around it | extends `Resolver`; a pipeline is a summary |
| `Notices` | event bus, operations channel, the flush loop that sends | times are ages |
| `Application` | the supervisor with a rollover inside the housekeeping task and the notices of both | extends `Supervisor`, `Notices`, `Rollover` |
| `Setups` | the observer's handling of a closed primary candle, as far as setups are concerned: lifecycle, creation, tables, crash and replay | one transaction per step; one anchor price, bullish; time in bars |
| `Cards` | from a published view to a Discord card: coalescer, sends, message references | extends `Setups` |
| `CardsProofs` | proofs about `Setups` and `Cards` | TLAPS |
| `Structure` | indicators and swing structure | operators over sequences of candles |
| `Detection` | levels and every detector | extends `Structure` |
| `Reads` | timeframe reads, present trend, assessment, fakeout flags, clearance | extends `Detection` |
| `Outcomes` | windows, observations, labels | extends `Structure` |
| `Analysis` | the observer: all of these on each closed candle, their tables, outcomes, crash and replay | extends `Reads`, `Outcomes`; an instance of `Sessions` |
| `AnalysisProofs` | proofs about `Analysis` | TLAPS |
| `Sessions` | the exchange calendar | operators; time in slots |
| `HttpClient` | rate limiter and retries, for any set of threads | |
| `HistoryCache` | download in chunks, candles table, verified coverage | extends `Sessions`, `HttpClient` |
| `MarketWatch` | housekeeping's look at the calendar, its events | extends `HistoryCache` |
| `Scanner` | universe, quotes, rankings, board, snapshots | extends `MarketWatch` |
| `HistoryProofs` | proofs about `HttpClient`, `HistoryCache` and `MarketWatch`, as parts of `Scanner` | TLAPS |
| `MC...` | timeframes, tasks, calendars, limits and bars for TLC | |

### State and actions

*M1Builder.* `builder` holds the fields of `M1CandleBuilder` (bucket, coverage start,
staleness, watermark); `socket`, `lastPacket` and `feedStalled` are the application's view of the
feed and `flowing` the truth behind it. `Packet` is `on_tick` (or buffering it during a recovery),
`Flush` a pass of `_flush_loop`, `Watchdog` `_feed_watchdog`, `Connect`/`Disconnect`
`_on_feed_status`, `BeginRecovery`/`EndRecovery`/`ReplayTick` the recovery of `app.recover`, `Verify`
the watermark's move by `verify_m1`. `broken`, `interrupted` and `backdated` are history: the minutes in which the
program was told of a loss, those in which delivery really was frozen, and the broken ones that a packet ending a stall reached
back to, its trade time being at or before them. Prices, volume and open interest are left out.

*CandlePipeline.* `pipe` has the pipeline's fields: builder summary (coverage, watermark, last
minute), `pending`, `gaps`, `deferred`, `suspended`, `last`, the aggregators' buckets, `seen`, and
`delivered`, the history of dispatched bars. One minute is a unit of time, so a minute is trusted,
partial (`blip`, `stall`, `drop`) or `silent` as a whole. Fetches ask for the minutes the code
asks for and are answered with any subset the broker may have published. `_dispatch`, `_handle`, `repair`
and `_drain_deferred` call each other, through the aggregators too: a bar that is dispatched may complete a higher bucket, the repair of
one gap may complete another bucket that was closed as a gap. Each is one operator, which changes the pipeline up to its first call and puts
what is left to call in front of `calls`; `MakeCall` makes the next one, and `Returned` all of them, so that no callback of the event loop
comes in between. Left out: reconcile
mode (not the default), zero-trade filling, trimming of `_seen_m1`.

*Continuity.* `book` is the tracker with its table (`rows`); the actions `VerifyStart`/`VerifyEnd`,
`RepairStart`/`RepairEnd`, `RecoverStart`/`RecoverEnd` are the parts of those coroutines before and after
their await. `Crash` forgets everything but the table, `Restart` seeds and restores.
A retry delay is nondeterministic: an incident is out of `due` until `RetryComesDue`.

*Supervisor.* `watched` is the set handed to `asyncio.wait`, `batch` what it returned, `current` the
task whose backoff is being slept. `agent` is the registry: one entry per agent id (`AgentOf`), which several tasks may share,
as `scanner` and every `scanner_feed_i` do (app.py:88, 927, 930); each writes it when it crashes, is given up or has recovered. No agent
registers a heartbeat timeout, so none ever turns STALE. The status API also sets its own agent HEALTHY when it has started (api/server.py:215),
which is left out: `_recovery_check` says the same of it a little later.

*Rollover.* `running` and `incoming` are `runtimes` and `pending_runtimes` of the symbol, `active` and
`files` what is stored (the active instrument, the contracts with an open incident), `feed` the socket with
what the program wants and what the broker was told on this socket. A pipeline is what decides the handover:
whether its ticks are covered, a hole before them, an ended partial minute that nobody queued yet, whether a minute
is pending, and whose bars it holds. `roll` is where `roll_symbol` is: `RollStart` up to the thread that prepares
the history, `PrepareFails`, `PrepareCold`, `PrepareWarm`, `BrokerAccepts`, `SubscribeFails`, `Switch`,
`UnsubscribeFails`, `UnsubscribeEnd`, `RollEnd` its ways on. `RecoverEnd` and `VerifyEnd` belong to the contract they were
asked for, whatever runs by then. `check_rollover` may run at any moment. A send completes, or raises when the socket drops
under it. Gaps, silent minutes and the day's end are the matter of `Continuity`; the wording of the state
by the age of an incident is folded into `RECOVERING_GAP`.

*Notices.* `last` is the bus's memory of keys, `queue` the channel's, `stamps` its window of sends, `sending` what
`due()` handed to the flush loop. `Tell` is a publication with the channel's handler, `Due` a call of `due()`, `Send` one send (also
a refused one: `HTTPException` is logged and the message gone), `SendBreaks` an exception of another kind, which
loses the rest of the list. `untold` counts the updates that are still owed. Symbol states are not fed
into it; the keys are those of crash reports.

*Application.* A task may exit, an exception that leaves `roll_symbol` (`UnsubscribeFails`) is the exit of the housekeeping
task, and no housekeeping task rolls while it is down. `Report` feeds what the supervisor reports into the bus. A
crash ends every task; `StartAgain` is a fresh process over the stored state.

*Setups.* `rows` and `events` are the tables `setups` and `setup_events`, keyed by the originating detection;
`obs` is the observer's memory and where `on_closed_candle` is. The handler runs without an await, so
only a crash can come between its steps: `TakeBar` up to the lifecycle loop, `EvaluateOne` per open setup,
`LookForNew`/`CreateOne` for new ones, `Commit` per transaction, `FinishBar` for clearance and publishing.
A setup is read from the table for every bar and written only when a transition happened, as in the
code. A bar is its close relative to the anchor, whether its low touched the anchor, and its number of setup-making
detections; the warm-up window is longer than the bars of a run. Bearish setups are the mirror image.

*Cards.* A view is what the state hash covers of a setup: its state and last event. `Due` takes any set
of pending views (a debounce of any length), `Post`/`Patch`/`NotFound` is the request to Discord and `Record`
what follows its answer; a crash may come in between. `SendFails` drops one view (`HTTPException`) or the
rest of the batch (any other error leaves `_flush_once`). `missed` is history.

*Structure, Detection, Reads, Outcomes* are what the classes compute, with their memory as an argument: `Indicate`, `Structured`,
`Breakout`, `Liquidity`, `EmaStep`, `RsiStep`, `Wick`, `Classify`, `Assess`, `Cleared`, `Observe`. Prices are integers and averages fixed-point
(sixteenths), shares of the ATR are counted in quarters, all rules of `config/confirmation_policy.yaml`
are on and all outcome thresholds one ATR.

*Analysis.* `market` is the candles table, `tables` what the observer writes, `outcomes` the tables of
the outcome service, `obs` the memory of the process and where it is in a candle: `TakeBar` is `on_closed_candle` (its writes are one
step each: they are `INSERT OR IGNORE` or upserts, and a crash between two of them is a replay that
repeats them), `Freeze` the snapshots of its detections, `Settle` one snapshot of `update_pending`, `Mark` its marker, `Restart` a new
process that replays the last warm-up bars and so starts in the middle of what was seen before. A setup of any
state may stand behind a clearance. `HigherBar` is a closed bar of a higher timeframe, any of a few rows. Snapshots of one bar
and direction are one. `update_pending` reads a page of the oldest open snapshots (`Page`, 500 in the code), which `Freeze` takes; what is
`Behind` it waits for a later candle. A warm-up is at least as long as a swing.

*Sessions.* A calendar is a record of what the files say; every question is an operator on it, `IsOpen`, `NextOpen`, `EffectiveClose`,
`H4Buckets`, `SessionFor`, `MarketState` ... A slot is the smallest unit that any time of day is given in.

*HttpClient.* `sec` and `min` are the limiter's two windows, `req` where each thread is in `acquire` and `post_json`:
`Submit`, `Acquire` (one hold of the lock: admitted, or refused with a time to sleep), `Wake`, `Answer` with its retries, `Take`.
A refused thread sleeps outside the lock with what it measured; `admitted` is history.

*HistoryCache.* `load` is the load under way, `bars` the candles table, `ranges` the intervals. `StartLoad` finds the
uncovered parts, each is asked for in chunks (`Request`, and `Receive` any part of it or `Fail`), its candles
stored (`Store`) and what they verify recorded (`Record`), each in a transaction of its own with a crash possible between. *MarketWatch* adds `Housekeep`. *Scanner* adds packets of each
kind, a request of the board and the loop's pass; partitions and feeds are merged,
changes in per cent are compared by cross-multiplication, and which wording a leader's event gets, the bus's suppression and
`previous_close_from_quote_day_close` are left out.

## 3. Runs and what they show

Deadlock checking is off in all of them: the clocks are bounded, the supervisor ends.

### Properties that hold

| Run | Shows |
|---|---|
| `M1Builder_hostile` | with lag, freezes, stalls in recovery, a late flush loop: no minute reopened, refinement of `MinuteStream`, an open minute closes, and a minute with a loss inside is trusted only when the packet that ended a stall carried a trade time from before it |
| `CandlePipeline_single` | one blip or silent minute, the broker answering in any order: complete bars are kept, passed buckets accounted for, later bars held back, no minute skipped without trace, a repair delivers, and when the broker has served everything delivery catches up |
| `CandlePipeline_hostile` | two faults, late loop, delayed recovery: delivered bars are backed by their constituents or a broker bar, `suspended` means an open gap, refinement of `BarStream`, and a minute of which a packet arrived stays in hand |
| `Continuity_safety` | any fault, a crash, a day's end, broker out of order: pending minutes have incidents, memory equals table, LIVE means continuous, and incidents of a past day end, through a crash |
| `Cards_hostile` | a crash between any two transactions or around any send, a replay at restart, a failed send or deleted message: replay changes no table, events explain states but for the setup a crash interrupted, one card per setup but for the one a crash interrupted, and the card of every open setup becomes current (after one crash; see `SkippedIsShown` below) |
| `History` | loads that overlap, fail, are answered in part and crash, with a competing thread at the rate limiter: coverage is backed by stored bars and both limits hold in every window; five days of three calendars, over a weekend and a year's end, looked at late: every answer agrees with one set of open slots, and what was told last is what was seen last; the scanner while the market opens and closes: the board shows what the quotes say |
| `Analysis` | bars of every shape, days with bars missing, crashes between the tables' writes, replays from the middle: pivots are exact whatever bar a process started at, a level's episodes are told in order, no clearance is contested, an ended session is not current, an outcome is final over the whole of its horizon and a complete one left open only behind a page of older ones (or on a day's last bar) |
| `Application` | tasks that exit during another's backoff, a rollover between drops, reconnects, recoveries, verifications, its own failure (which ends housekeeping) and a crash, and the reports of failing tasks: a covered contract's ticks reach it, bars stay with their contract, the symbol does not stay warming, a task given up stays down whatever the tasks it shares an agent with do, a stop ends the service, no notice vanishes, sends are paced |

### Disagreements between code and documentation

Each violation run states one sentence of the repository that the code does not keep; the
finding in `PROJECT.json` quotes it.

| Run | What happens |
|---|---|
| `Supervisor_lost` | a task that exits during another's backoff is never handled (with `QuietBackoff = TRUE`, no exits during a backoff, all are) |
| `Supervisor_failed` | two tasks share `scanner_agent`: after one of them is given up, the crash of the other takes FAILED, which agents.py:9-10 calls terminal, back to DEGRADED, RESTARTING and at last HEALTHY |
| `Cards_age` | a setup outlives `max_age_bars`: its age is stored only when a transition happens and read afresh on every bar |
| `Rollover_early` | a recovery of the old contract that ends after the switch settles the symbol LIVE while the new contract's recovery is still under way |

### Further disagreements

The modules state more properties that the code does not keep in every environment. They are in no run
of the project; each is violated under the configuration of the named run with the changes given here.

| Property | Configuration | What happens |
|---|---|---|
| `TrustedMinutesWhole` | `M1Builder_hostile` | the packet that ends a stall restarts coverage at its trade time, inside the stall (README.md:187 of the repository: "coverage resumes only at the next packet") |
| `TrustedMinutesWhole` | the same with `MaxLag = 0` | a tick buffered before a stall is replayed after it: coverage restarts at its own time |
| `StallIsNeverMissed` | the same | and with it the builder's staleness goes while the watchdog's latch stays, so that an open minute is trusted during a stall |
| `NoTrustAcrossFreeze` | the same with `PromptLoop = TRUE` | a minute whose end was never delivered is closed before the stall threshold |
| `CatchesUp` | `CandlePipeline_single` with `Higher <- ThreeLevels`, `LastMinute = 8`, `Kinds = {"blip"}`, `BrokerInOrder = TRUE` | an H4 gap and the deferred bar it needs wait for each other for good (README.md:129 of the repository) |
| `PassedBucketAccounted` | `CandlePipeline_single` with `Kinds = {"silent"}`, `MaxFaults = 2`, `LastMinute = 6`, `BrokerInOrder = TRUE` | a bucket with no constituent at all is never a gap |
| `RepairDelivers` | `CandlePipeline_single` with `Kinds = {"blip"}`, `MaxFaults = 2`, `LastMinute = 6` | repairing the younger gap first loses the older bar |
| `CompleteBarKept` | the same with `BrokerInOrder = TRUE` | the deferred list is overwritten while draining it defers another bar |
| `HeldBack` | `CandlePipeline_single` with `Kinds = {"drop"}`, `LastMinute = 8`, `BrokerInOrder = TRUE` | a bar goes out past an older unresolved gap |
| `NoMinuteForgotten` | `CandlePipeline_single` with `BrokerInOrder = TRUE`, `LastMinute = 6` and `Kinds` as follows: `{"drop"}` with `RecoveryMayWait = TRUE`; `{"stall"}`; `{"silent"}` with `PromptLoop = FALSE`; or `{"drop"}` with `MaxFaults = 2`, `LastMinute = 7` | four ways to skip a minute without a trace |
| `HealthyMeansResolved` | `Supervisor_lost` with `SPECIFICATION Spec`, `QuietBackoff = TRUE` | the first of two crash reports is never resolved |
| `SuspensionIsRetried` | `Continuity_safety` with `SPECIFICATION CSpec`, `Kinds = {"silent", "blip"}`, `MaxFaults = 2`, `MaxCrashes = 0`, `MayBeQuiet = FALSE`, `BrokerInOrder = TRUE` | an abandoned gap keeps delivery suspended and nothing retries it (the comment at app.py:754 says later bars retry) |
| `EndsOnce` | `Continuity_safety` with `SPECIFICATION CSpec`, `Kinds = {"silent"}`, `MaxCrashes = 0`, `MayBeQuiet = FALSE`, `BrokerInOrder = TRUE` | a silent minute abandoned at day end is found and abandoned again every second |
| `RetriesWait` | the same with `Kinds = {"silent", "blip"}`, `MaxFaults = 2`, `LastMinute = 5`, `DayEnd = 5` | a gap in backoff is fetched again because another one is due |
| `StaleMeansQuiet` | the same with `Kinds = {"silent", "blip"}`, `LastMinute = 2`, `MayBeQuiet = TRUE` | STALE stays after ticks resume |
| `ContinuationEnds` | `Cards_age` | `completion_bars` is never reached by bars passing, for the same reason |
| `EndedCardsCurrent` | `Cards_hostile` | a setup that ends while bars are replayed, or just before a crash, keeps a card in a state it has left |
| `SkippedIsShown` | `Cards_hostile` with `MaxCrashes = 2`, `MaxFaults = 0` | a card is edited (bot.py:204) and the process crashes before the edit is recorded (bot.py:209); a second crash loses the event of the next transition, which makes the view equal to the one recorded: coalescer.py:56 skips it as unchanged, and the card shows a state the setup has left (the code's hash also covers clearance and blockers, which return to an earlier value without a second crash) |
| `SecondAfterReclaim` | `Analysis` with `Paths <- TwinPaths` | two equal swing prices put one level on the list twice, and each bar visits its episode twice: a second failure is told without a reclaim (tests/test_detection.py:137 expects one) |
| `SessionEndsWithDay` | `Analysis` (and with `Page = 3`) | a snapshot behind a page of older open ones is not looked at when its day closes, though its docstring says that its session is finalised then; where days' last bars leave open snapshots for ever (below), these fill the page for good |
| `PriceIsLive` | `History` | a PREV_CLOSE or OI packet refreshes `last_update`, so an old price ranks as fresh (scanner.py:132: stale prices are never presented as winners) |

Others were met while translating and have no property, because the models have no state for them or one step shows them:

* *Rollover.* A rollover given up because the new contract is cold sets LIVE whatever the old pipeline's continuity
  (app.py:1218), and so may one whose preparation fails. An `unsubscribe` that raises leaves the health entry at the old
  security id. Pipeline callbacks are bound by symbol (app.py:364): a pending minute of a contract that is coming in, or
  of the old one, is filed under the running contract, and nothing retries it. Open incidents of the old contract are
  skipped by `load()` and the tick for good. A recovery that raises (app.py:631) marks no minute pending, and a later
  settlement says LIVE over the hole. A subscription that failed leaves the new id in `_subscribed`; coverage starts
  before the subscription is in effect (app.py:1226, live_feed.py:254).
* *Event bus.* The key of a symbol's change of state is its name and new state, and `clear_key` is never called for it: LIVE,
  STALE, LIVE, STALE within a quarter of an hour tells the second STALE to nobody.
* *Operations channel.* An exception that is not `HTTPException` loses the rest of the list (`SendBreaks`); `dropped`
  counts again at every retry without allowance; a dropped summary counts as one; the cap is stamped when messages are taken,
  not sent, so a minute may see twice the cap.
* *Outcomes.* A detection on a trading day's last bar has no session candle, so its session outcome never exists, it is never marked and it
  is recomputed at every bar. The page takes the oldest first: 500 of these would starve all that come after them.
* *Detection.* A level that leaves the last three swings and returns keeps its episode, so the closes an acceptance counts need
  not follow each other. The first candle of a session sees the previous session's levels when that session's last candle
  is missing. After a replay that starts in the middle the table may hold more detections than a process that saw all.
* *Calendar.* Editing the calendar file leaves coverage that was verified under the old one. Only a legacy override may
  run past midnight.
* *Scanner.* Previous closes are not reset on a new trading day, the universe is built only at startup, a leader change across
  a closed period is not told, and every partition is subscribed under the first segment.

### Bounds

*M1Builder:* two instants to a minute and three minutes: an interruption needs a minute before, in
and after it, and within a minute only "before" and "after the event" differ. A stall is one
instant without a packet, the smallest that can end inside or across a minute. Two buffered ticks
would let one resume and one close a minute; a live packet does the latter, so one is enough. *CandlePipeline:* two minutes
to the primary bar and two of those to the next timeframe: with two constituents a bucket can be empty, partial with either one
missing, or complete. Eight minutes hold two top bars, so that a gap is followed by a
complete bar of every timeframe; `single` has sixteen, for the broker's answers to come late. Two faults are the fewest that make two gaps. `MaxCalls`, the calls
one method leads to, is 40 where the runs need fewer; TLC stops with an error where it is too small (`HasReturned`). *Continuity:* one
timeframe (incidents do not depend on how many), four minutes, two trading days, one crash.
*Setups, Cards:* six bars, few shapes for each, chosen so that every lifecycle rule fires, the maximum age
is reached on the bar of another transition, a setup ends and another starts, and two detections fall on one bar (`MCCards`);
one crash, which a replay from the first bar follows, and one lost or deleted card.
*Application:* one or two restarts a task, so that one may be given up while another is in its backoff, the two tasks of the scanner sharing their agent; two contracts, two days,
one drop and one crash: a drop before, inside or after each await of the rollover, with a recovery of the old contract
still under way; one message a minute and a window of one slot, so that every report meets an exhausted limit.
Three scopes keep these apart (tasks failing, a rollover, the reports of a failing feed task): they share the supervisor,
and no step of one reads another's state.
*History:* days of six slots, requests of five, loads of five and nine slots: a chunk ends inside a day, in the night and over a
weekend; a year ends inside the run. Three calendars: a festival (special Sunday session, half days, a seasonal close), the same
announced without hours and with overrides, and a legacy one whose day runs past midnight. One call a slot and two in three
slots, so that either window is the full one. The scopes start loads before a close, over a weekend, with a competing thread or a crash, look
at the market for five days, and run the scanner over a close and an opening with a few packets and one place in the rankings.
*Analysis:* averages and swings as short as they can be, candles of few shapes chosen so that swings, equal highs, broken, accepted, retested,
failed and reclaimed levels, both reads, both outcomes of every horizon occur; days with a bar missing; one crash; two higher timeframes;
a page of two snapshots, so that a third one open is behind it.

### Fairness

The flush loop is a supervised `while` loop with a one-second wait: its passes recur for ever. In
`M1Builder` they need strong fairness, because a pass that meets a recovery in flight does not flush and
recoveries may come again for ever, but not at every pass. A fetch returns: the client has timeouts and a
last attempt. In `Continuity` (`FairCSpec`) the fairness is stated per loop: if a pass (a trade, a
recovery's start) is due from some point on, it happens again and again, whichever of its outcomes
the environment picks; weak fairness of one outcome would oblige the broker. A crashed process
is restarted by its service manager; the feed reconnects for ever (`live_feed.py` `run`). In `Application` the
supervisor's own steps are weakly fair, being a coroutine whose wait has ended; so are a rollover under way, the feed's
reconnect, a recovery that was spawned, and the answers of requests. Nothing is
assumed of the broker: the liveness runs must hold even if it never answers with a bar. Of drops, crashes, minutes and days
nothing is assumed either. That a load ends is not stated: other threads may take every free place in the limiter's window.

## 4. Proofs

Proved with TLAPS for all values of the constants that satisfy the assumptions of the modules: any
number of tasks, contracts, threads, bars and crashes, any calendars, limits and windows. A task set is
finite in `Application`; `None` is taken to be no pipeline and no market state; the bars of a run are any sequence of
shapes. Each theorem that ends in `[]P` follows the same way: an invariant `I` with `Init => I`, `I /\ [Next]_vars => I'` and
`I => P`; TLC checked `I` on the configurations of section 3 before it was proved.

*Builder* (`M1BuilderProofs`)

* `TypeCorrect`: the types of its state, the watermark, the buffer and the watchdog.
* `ClosedStaysClosed`: `Spec => []NeverReopened`. The inductive invariant is `Watermark`: all
  decided minutes are at or below the last closed one, an open bucket is above it. The floor lemmas
  (a tick's minute is the largest multiple of `Slots` not above it, and the floor is monotone) carry it.
* `BuilderStreamsMinutes`: `M1Builder` implements `MinuteStream`; each step either decides one minute
  above the watermark or stutters.
* `TrustIsEarned`: `Spec => []TrustedMinutesUnbroken`, for any lag, freezes, stalls during a recovery and lateness of the loop. The inductive invariant
  `TrustInv`: coverage begins after every loss but those a resume has backdated, an open minute is trusted only behind coverage, and every minute
  handed over lies before the current one, out of reach of the next loss. `WaitInv` adds that no tick waits in the buffer or
  the replay that is of the future.

*Pipeline and continuity* (`ContinuityProofs`, over `Spec` of `CandlePipeline`, and over `CSpec` of `Continuity` with any number of crashes; for any
timeframes, order of the broker's answers, lateness of the flush loop and number of faults)

The methods of the pipeline are in the middle of their work when they call each other, so no invariant of the pipeline at rest holds then.
Each invariant is stated with the calls still to be made, and each call is shown to keep it, whatever waits behind it. After
`Returned` none is left: a method that makes more calls than `MaxCalls` makes no step (`HasReturned`), and the theorems hold for every `MaxCalls`. What an aggregator and a call do is stated once (`AddDoes`, `LateDoes`, `DispatchDoes`, `RepairDoes`, `ReleaseDoes` ...). An answer of the broker is fed
minute by minute: `SweepStays` carries an invariant over such a pass, a function over the minutes.

* `PipelineTyped`, `ApplicationTyped`: the types, calls included.
* `SuspensionEndsWithGaps`: `Spec => []SuspendedByGaps`. `Suspends`: an unresolved gap suspends delivery, and where delivery is suspended without one, the
  call that resumes it waits.
* `BarsAreBacked`: `Spec => []DeliveredIsBacked`. `Backs`: what an open bucket holds is there, deferred bars and those in waiting calls have
  their constituents, and a delivered bar has them or is a repaired gap. It needs `Unique`, that no gap is recorded twice, or the repair of the second would leave the bar
  an open gap: no bucket is emitted twice, nor is one that is behind its aggregator's watermark.
* `PipelineStreamsBars`: `Spec => StreamOfBars`, `CandlePipeline` implements `BarStream`. A step is a whole method, and bars go out in the middle of it
  while gaps are found and settled: the lemmas say of each call that what went out so far comes before what will (`Ordered`: the watermarks are
  those of what was delivered), that a bar goes out only while no gap is open or one is being settled (`HoldsOver`), and that
  this carries through the calls that follow (`Continues`). `Advances` says of every method that it keeps the invariants, loses no minute
  seen or gap found, and takes a minute from `pending` only for a bar of the broker.
* `NothingHeardIsLost`: `Spec => HeardIsHeld`, with no assumption: a minute of which a packet arrived is in hand at once, and what is in hand stays there. It passes
  from the buffer or the open bucket to processed or pending, and leaves `pending` only by a bar of the broker. The invariant `HeldInv`: the pipeline is behind the
  clock (`Behind`), its open minute above the last one closed (`OpenIsLast`), so that a tick that opens a minute closes the one before; and a recovery under way
  starts at or before the open minute and ends before what is buffered, so that it asks for the minute it takes over. Minutes of which nothing arrived are the
  matter of `NoMinuteForgotten`, which fails with other faults than those of `CandlePipeline_single`.
* `WaitingIsTracked`, `NothingIsLost`, `LiveIsContinuous`: `CSpec => []PendingIsTracked`, `[]StoredAsHeld`, `[]LiveMeansContinuous`. One invariant, `AppInv`: in a
  running process the open incidents are the `OPEN` rows, what is due is open, every pending minute has an open incident, and LIVE is said
  of a continuous pipeline only. The callbacks of the application (`Sound`) keep it around every step of the pipeline, after an await too; a restart
  restores every incident in the table, gaps in the order of their bars (`Chronological`, an order that any finite set of bars has).

*Supervision, rollover and notices* (`NoticesProofs`, and for the supervisor, rollover and the system of the
three `ApplicationProofs`, over its whole specification with processes that are killed and start again)

* `TypeCorrect` of `Supervisor`, and `GivenUpForGood`: `Spec => GivenUpIsFinal`, for any sharing of agents. The property is about a step and is not inductive:
  `FailedInv` adds that a given-up task is finished, not waited for, and not the one in backoff, and that its agent is FAILED unless another task of it is left;
  `BatchDone` that only finished tasks are in the batch.
* `AppTyped`, `AppGivenUpIsFinal`: the same of `Application`, where a given-up task stays down for the rest of its process.
* `AppRoutes`: `AppSpec => []CoveredIsRouted`, the ticks of a covered contract reach a pipeline. It needs `RolloverInv`:
  `Places` says which contract `roll_symbol` is about at each of its awaits; `Registered`, that a wanted contract with
  a pipeline is the running or the incoming one, that the broker sends what is wanted, but for the old contract's
  ticks until `unsubscribe` returns, and that nothing is sent without a socket. `DownIsShut` connects a killed process
  with its supervisor.
* `AppHistories`: `AppSpec => []BarsStayWithContract`, a part of the same invariant, through recoveries and verifications that end after a switch.
* `AppTellsAll`: `AppSpec => []NothingVanishes`. `Holding` adds the types of the messages; the work is in the lemmas on
  `Updates`, which counts them over a queue: what a queue holds after an append, a fold into a summary, a drop at a limit.
* `AppPaced`: `AppSpec => []SendsArePaced`. `PaceInv` has the ages of sends and stamps in order, no message in hand younger than its
  stamp, and bounds (`Paced`) for every stamp the sends since then and those still to come by the stamps after it and one allowance.

*History* (`HistoryProofs`, over the specification of `Scanner`, which has all of the steps)

* `RateIsKept`: `ScannerSpec => []RateKept`, for any number of threads. `RateInv` says that each of the limiter's windows is the
  tail of all admitted calls, holds every call younger than its length, and no more than its limit; what the
  threads measured before they slept occurs nowhere in it, and so it may be stale.
* `TellsWhatIs`: `ScannerSpec => []ToldWhatIs`. `ToldInv` adds that nothing is told before the first look; that an answer of
  `MarketState` is one of the listed states, for every calendar and time, is most of the proof.
* `CoverageHolds`: `ScannerSpec => []CoverageIsStored`. `CoverageInv`: intervals are not empty (`Ranged`), the candles of a load are
  in the table before its coverage is recorded (`Loading`), and each interval holds stored candles only (`Complete`). The lemmas say
  that what `verified_coverage` returns holds no missing candle, that merging intervals adds no slot, and that a gap is in what was asked for.

*Setups and cards* (`CardsProofs`, over the specification of `Cards`)

* `HistoryExplains`: `Spec => []EventsMatchRows`. `SetupsInv`: what is left to write for a bar has one of a few forms, each of which ends with
  the event of the state the row then has (`Writing`); no event is later than the last change of its setup (`Told`), so that the event of
  a new transition is never swallowed as a duplicate; and each crash left at most one setup without its event (`Explained`).
* `ReplayIsIdempotent`: `Spec => ReplayChangesNothing`. `ReplayInv`: the observer is at most one bar past those it finished
  (`Reached`); finished bars take no setup anywhere (`Settled`) and what they detected is in the table or stood for
  (`Kept`); on a bar that is analysed again nothing is to be written (`Again`), and a new one is on its way there (`Forward`).
* `CardsAreOnePerSetup`: `Spec => []OneCardEach`. `CardsInv`: a reference is to a card of its setup, a send in hand to the referred card
  if there is one, and the standing cards that are neither referred to nor in hand are at most as many as there were crashes.
* `CardsCatchUp`: `Spec => [](crashes <= 1 => OpenCardsCurrent)`; after a second crash it is not true (`SkippedIsShown` above). `WatchInv`: on a live bar every
  open setup is among those to be shown, the one being written too (`Showable`), because no setup was changed after the bars the replay covers
  (`Followed`), so that what an observer published last of an open setup is its view (`Announced`). `CurrentInv`: what was published last waits, is in the batch or is on the card
  (`Delivering`), and the views of a setup get later on the way back from its card to its row (`Later`). A skipped view equals the recorded one; the card was
  recorded with it, or shows what is later than recorded and no later than what waits (`Records`), which is then the same view. A crash between send and record keeps this as long
  as two views after the same event are the same (`Recorded`), which holds until a crash leaves a row without its event, and no longer: hence one crash.

*Analysis* (`AnalysisProofs`, for bars that come in the order of their slots, each a slot long, and a warm-up that is not empty)

* `ClearancesAreUncontested`: `Spec => []ClearedIsUncontested`. The invariant `Read` is that each read is one of the three
  values; that a clearance leaves no opposing read, no contested flag and no clearance of the other side is a matter of every
  branch of the assessment, for any set of timeframes.
* `EndedSessionsAreOver`: `Spec => []CompletedIsNotCurrent`, if `WindowsApart`: the named sessions of a group do not overlap. The
  validation of the configuration does not ask for this; `config/sessions.yaml` has it, and `MCAnalysis` assumes it of its calendar. The
  invariant `Tracking`: a row is of a session that has begun, and current only if the last analysed bar closes before its end.
* `OutcomesAreWhole`: `Spec => []FinalIsWhole`. The invariant `Accounted` has three parts: each row holds the observation of its horizon as
  some length of the table showed it (`RowsExact`), a closed snapshot has final rows only (`ClosedWhole`), and
  a snapshot that is open is still to be visited in this pass, was behind its page, is of a day's last bar, or has a horizon that waits for bars (`NoneForgotten`). The lemmas: a window
  takes the bars of `Whole` and no others, and what a complete horizon shows does not change with later bars.
* `SwingsAreExact`: `Spec => []PivotsAreExact`, if `WarmCovers`: a warm-up is longer than the two sides of a swing. It is with the
  default `SWING_STRENGTH` of two; app.py:339 only asks for `EMA_SLOW` + 5 bars, whatever the strength. `MCAnalysis` assumes it of its paths; with two bars
  of warm-up and a strength of one, TLC finds a swing that no process sees. The invariant `SwingsKnown`: the window holds the last bars the process was fed; all
  of the table but perhaps its last bar was fed to some process (a crash may come between the candle and its analysis), and a process
  starts before the swing that the next bar may complete.
* `EpisodesTellTheirStory`: `Spec => []EpisodesAreOrdered`, for every `acceptance_closes` of at least one. The invariant `AllTold` relates an episode to what was said of its
  level (`Told`): its flags and its failure are those the entries since the last breakout tell, an episode whose last close is inside ended with that failure, and
  one not yet accepted counts the closes since its last breakout or reclaim. Levels that were visited twice at a bar or missed at one are excepted (`unsteady`), as
  they are in the property. What the visits of a bar do to one level does not depend on the others, so `Breakout` is a function of the levels and not a pass over their list.

Model-checked only:

* liveness, its fairness, and what is enabled: `OpenMinuteCloses`, `StopEndsService`, `WarmingEnds`, `IncidentsEnd`, `CatchesUp`;
* `CompleteBarKept`, `PassedBucketAccounted`, `NoMinuteForgotten`, `HeldBack` and `RepairDelivers` of `CandlePipeline`: the code keeps them in the scope of their run only, one
  blip or silent minute with a flush loop that is in time. "Further disagreements" has an environment that violates each, so
  that an invariant would have to count faults along the history of a run;
* `CalendarAgrees`, which compares some twenty questions about the calendar with a set of open slots: it is about recursive
  functions over dates, an induction that cannot be instantiated; `BoardIsCurrent`, which is about sorting.

## 5. Not modelled, and the plan

Not modelled at all: the read-only status API, loading and validation of configuration, command-line tools,
metrics and logging, SQL text and migrations, parsing (packets, CSV, YAML, Parquet), layout of cards and charts,
cohort statistics over outcomes, reconcile mode (off by default), the event table and `clear_key`,
a second flush loop after a restart of the Discord client, heartbeats that turn an agent STALE, the backoff times of the feed. The parts that read
and format keep no state of their own; the others are listed with their components in `PROJECT.json`.

Planned, in this order:

1. Reconcile mode of the pipeline.
2. The properties of `CandlePipeline_single` for one fault, from an invariant that counts them.
3. Symbol states through the event bus, with `clear_key`.
