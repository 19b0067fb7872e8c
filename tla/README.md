# cb-hft: a TLA+ model of the trading process

cb-hft is a market maker for Coinbase Exchange in Rust: two FIX 5.0 sessions
(market data and order entry), one strategy per symbol, an order engine with an
open-order limit, and a small web dashboard that starts and stops the process.
This directory models what can go wrong between these parts: threads and
channels, numbered sessions, late and repeated reports, reads that end anywhere,
overlapping requests, processes that die and are started again, clocks that are
set back, texts and numbers at their edges. Every definition is translated from the Rust sources; the
file `PROJECT.json` names, for each of them, the lines it stands for.

```
tlc -workers 2 -config MCOrderFlow.cfg MCOrderFlow    # one of the runs below
tlapm Trading_proofs.tla                              # one of the *_proofs modules
```

## 1. Inventory

The live process (`run_live_pipeline`, `src/runtime.rs:545-602`) has four threads.
The main thread starts the other three, joins the market thread, raises an
`AtomicBool` and joins the rest. Market events, exchange events and commands go
through three unbounded `mpsc` channels:

```
 exchange --FIX--> market thread --market events--> strategy thread --commands--> order thread --FIX--> exchange
                                                        ^------- exchange events -------'
```

| Component | State | Operations | What is hard about it | What makes it correct |
|---|---|---|---|---|
| Order engine, `order.rs` | seen ExecIDs, status and symbol per order, open orders per symbol, next client id, next MsgSeqNum | new order, cancel, cancel-all, execution report | reports are late, repeated, reordered; statuses are overwritten whatever they were; one call sends many messages | the limit holds at the exchange, no slot is given back twice, ids and numbers are used once, a cancel-all reaches every live order |
| Order thread, `runtime.rs:813-961` | `sender_seq`, pending bytes, `--once`, the flag | Logon, drain commands, blocking read, frames | orders before the Logon's answer; two counters in one session; commands behind a 30 s read; a write that fails in the middle of a batch | consecutive numbers, each applied report forwarded once, the thread ends when told, commands are taken |
| Market thread and decoder, `runtime.rs:693-811`, `fix/coinbase/market_data.rs`, `market.rs` | `sender_seq`, `subscribed`, pending, event count, books | Logon, subscription, heartbeat, snapshot, update | updates with one side; levels that are removed; a second Logon; several frames in one read | a book is a top the exchange had; one subscription; one numbering |
| FIX framing, `fix/parser.rs` | bytes read and not consumed | `next_frame` | a read ends anywhere | the stream's sound prefix arrives, nothing else ends the session |
| Maker, `maker.rs` in `market.rs` | book, phase, tracked orders, next order id, trend window | book update, fill, order event | ids are guessed until the exchange's Open arrives; fills and Opens come late | phase and tracked orders agree; an order is priced across the book only when book and offset say so |
| Live trading | all of the above in one symbol | | guesses, refusals and late Opens together | standing aside cancels everything that can trade; an order given up for another one, and known by its Open, is cancelled |
| Threads' life cycle | who is up, the flag, the channels | start, fail, panic, join | order of joins; a thread that dies unnoticed | no deadlock on the way down, no success over a failed thread |
| Trend score, `maker.rs:97-164, 357-453` | window of trades, last top | trade, book, score, verdict | trades carry wall-clock times and are cut by scanning from the oldest; four ratios are rounded on their own | the window is the recent trades; buyers and sellers are treated alike |
| Restart of the process | nothing is persisted | crash at any point, start again | ids and counts begin at zero again while the exchange may still hold orders of the last run | the orders of all runs together stay within the limit |
| Dashboard, `dashboard.rs`, `config.rs:236-319` | child process, last error, the configuration file | start, stop, state, save, each on a thread; the process may die | requests overlap; a stop waits for a process under the mutex; the file is under no lock and is truncated first; reads and writes fail; a dead dashboard leaves its runtime behind | at most one runtime held, the others are orphans; nothing but interference and failed writes loses a save; every request ends |
| Event feed, `dashboard_feed.rs` | four views, ring of numbered events | publish, snapshot, events after n | rings overflow at different times | a client without a hole has missed nothing |
| `FixSession`, `fix/session.rs` | state, two sequence numbers | build Logon/heartbeat, inbound frame | frames lost, repeated, overtaken | acts on the peer's prefix, answers once |
| Encoder and field iterator, `fix/encoder.rs`, `fix/parser.rs` | body, offset | builders, `wrap`, `next_frame`, `next` | lengths and checksums over any values; a value that looks like a field | what was pushed is what is read |
| Decimals, `types.rs:91-164`, `order.rs:485-509` | scanner registers | scan, format | dots, signs, more digits than the scale, overflow | the number read is the one denoted; values survive the trip |
| `RuntimePipeline`, `runtime.rs:238-397` | two queues, engines | market batch, exchange batch, drains, senders | other threads send while a call drains | events reach whom they name; no answer is left behind |
| Rings and topology, `ring.rs`, `app.rs` | bounded rings per symbol | build, push, pop | a ring at its capacity, of capacity zero, of another symbol | each is a bounded FIFO of its own |
| Supervisor, account book, command line, authentication, network, CPU pinning, telemetry, configuration parser | | | | not modelled, see section 7 |

`FixSession`, the feed, `RuntimePipeline`, the rings and the supervisor are in
the library and tested, but the live pipeline does not call them: its two
session threads keep their own counters and channels.

The 40 hazards found while reading, each with its line and the properties
aimed at it, are listed in `PROJECT.json`. The definitions of the modules stand
for some 2300 lines of the sources, close to half of the implementation.

## 2. Modules

| Module | Models | Correspondence |
|---|---|---|
| `OpenOrderSlots` | the promise behind `max_open_orders_per_symbol` | abstract: an order takes one of a symbol's slots once and gives it back once |
| `OrderEngine` | `OrderManager` + `OrderThreadEngine` | one variable per field (`seenExecIds`, `latestStatus`, `symbolOf`, `openCounts`, `nextClientId`, `nextSeqNum`) and `wire`, all messages handed out; `NewOrder`, `CancelOrder`, `CancelAll`, `OnExecutionReport` are whole calls; `Refused` gathers the early returns |
| `OrderFlow` | the engine and an external exchange | `reported` is a set that is never taken from: any report may be delivered late, again, in any order; an OrdStatus that `parse_status` does not know may come with an acceptance, while an order is live (`Accept`, `Amend`) or at its end (`Expire`) |
| `OrderSession` | `run_fix_order_entry` | `pc` is the place in the loop; one action per branch; `pipeline`/`once` are the two ways of starting it |
| `OrderRestart` | the process across crashes, and the exchange's sessions | extends `OrderFlow`: `Restart` resets every variable of the process; the exchange serves one session at a time and cancels on disconnect if the Logon asked |
| `Maker` | `MakerStrategy` within `MarketEngine` | one action per callback; the trend test is a free choice between standing aside and quoting; `opened` and `givenUp` are history: which orders an Open event has put into a slot, and which of these a call gives up for others |
| `Trend` | the trade window and the score | one action per trade and per book; the score is the code's formula, with integer division that truncates as Rust's does |
| `Strategy` | the whole of `maker.rs` | extends `Maker` and `Trend`; the verdict is all that passes between them, so a behaviour is of one or the other |
| `LiveTrading` | strategy thread, order thread, exchange, FIFO channels between | extends `OrderFlow` and `Maker`: each step is one of theirs, joined to what the channels bring or take; `replaced` gathers the maker's `givenUp` |
| `Options` | `Option::None` | a constant that several modules share |
| `FixFramer` | `next_frame` under the read loops | a frame is its length, the digits of its BodyLength and its fault; `NextFrame(f, n)` is the answer to the first `n` bytes of it |
| `FixMessages` | `fix/encoder.rs`, `next_frame` and `FixFieldIter` on bytes | a builder pushes a field a step, `wrap` computes length and checksum, the reader gets a byte a step |
| `Decimals` | `parse_decimal_scaled`, `format_scaled` | one step per byte of the text, one action per branch of the scanner; i64 and i128 have their widths as constants |
| `Ascii` | digits as bytes | operators only |
| `Parsing` | the wire | extends the three above; they are explored one at a time |
| `MarketSession` | `run_fix_market_data`, `parse_market_data`, `L1Book::apply` | frames carry entries, in the place of a removed level or to remove one: the decoder does not tell them apart; the exchange keeps the true top of each book |
| `LiveThreads` | `run_live_pipeline` and the ends of its threads | a location per thread, channels as counts |
| `Dashboard` | `dashboard.rs` and `persist_dashboard_update` | each request has a location; starting and reporting are one step each under the mutex (`lock`), stopping is two, with the wait for the killed process (`victim`) between; reading, truncating and writing the file are three, and each may fail; `Crash` ends the process with all its requests. `due` and `stale` are history: the value each key should have, and the saves another one has interfered with |
| `FixSession` | `fix/session.rs` | frames of the peer are numbered by their place in `peerSent`; any of them may be delivered at any time, again or never |
| `DashboardFeed` | `dashboard_feed.rs` and a following client | an event's number stands for its content |
| `BoundedFifo` | the promise of a set of bounded queues | abstract |
| `Rings` | `ring.rs`, `app.rs` | a ring per kind and symbol; a push at capacity is refused; `BoundedFifo` with a queue per ring |
| `RuntimePipeline` | the pipeline of `runtime.rs` | each call runs to its end, with the sends of other threads between its steps |
| `Library` | the parts of the crate the live threads do not run | extends `FixSession`, `DashboardFeed`, `Rings`, `RuntimePipeline`; they are explored one at a time |
| `*_proofs` | | `OrderEngine_proofs`, `OrderSession_proofs`, `MarketSession_proofs`: of the module; `Trading_proofs`: of `OrderFlow`, `LiveTrading` and `OrderRestart`; `Strategy_proofs`: of `Maker` and `Trend`; `Processes_proofs`: of `LiveThreads` and `Dashboard`; `Parsing_proofs`: of `FixFramer`, `Decimals` and `FixMessages`; `Library_proofs`: of its four parts |
| `MC*` | | instances for TLC |

Next to some definitions stands a *variant*, such as `HasRoomForOneMore` beside
`HasRoom`: the definition with one plausible slip in it. No specification uses
them. For each property, `PROJECT.json` (`mutants`) names a variant under which
TLC finds that property violated in the same run: this is the evidence that the
property depends on the code and that the bounds let the bad case happen.

## 3. What is abstracted

Prices, quantities and notional limits of an order are one bit, `valid`, in
`OrderEngine`, and small integers in `Maker`, `Trend` and `MarketSession`. FIX
messages are records in the modules of the threads; `FixFramer` counts their
bytes, and `FixMessages` and `Decimals` have them: `EncodedIsRead` says that the
two views of a frame agree. Values given to the encoder contain no separator: it does not look
for one (`encoder.rs:203-208`), and where they come from (configuration, credentials, numbers,
times) none is expected. `parse_u32` and the sum of `checksum` are u32 in the code and unbounded
in `FixMessages`, so that the model speaks of messages below 4 GiB. Time is not modelled but in `Trend`, where trades carry
the receive times of a clock that may be set back: elsewhere a time-out may happen
whenever nothing has arrived. The sums of `Trend` are unbounded integers, the code's weighted sum is an i64
(`maker.rs:121-125`): its parts are percentages and basis points, so that only weights
near the limits of the type could tell. The exchange, the
peer of `FixSession` and the client of the feed are external, and as
unconstrained as the property in question allows: `Maker` and `OrderEngine`
accept any event in any order; `OrderFlow` lets an exchange do to an order only
what orders can undergo, but says nothing about delivery; `LiveTrading` delivers
in FIFO order, because there the FIX stream and the channels are in the model.

Offsets and prices are integers of either sign, and books may be locked or crossed: `Maker` excludes
no configuration. Market data frames all carry a number (tag 34); the decoder would give a frame without
one the number 0, and `L1Book::apply` then never applies it. A save of the dashboard sets one key in the
model, any number in the code. A request to it starts with its arrival: reading it
(`dashboard.rs:79`) and writing the answer have no timeout and hold no lock.

In `OrderFlow` an execution report carries the ClOrdID of the order it is about.
`parse_execution_report` takes tag 11 even from the answer to a cancel request,
whose tag 11 may be the request's own id; under such an exchange the engine
would file the cancellation under an id of its own. What the exchange sends is
not decided by the sources, so this is listed for later (section 8).

## 4. Runs

Every run finishes within two minutes on two workers.

| Run | Instance | What it shows |
|---|---|---|
| `flow` | 2 symbols, 2 slots each, 4 client ids for orders and cancels, 2 ExecIDs, symmetric | `ExposureLimit`: no symbol has more than `MaxOpen` orders that can trade, at the exchange. `CountIsExact`: the counter is the number of orders whose end was not applied, so `saturating_sub` never hides a decrement, or above it by some of those of which an unreadable status was applied. `CancelAllReachesLive`: although reports overwrite statuses, an order that can trade is active unless its last status could not be read. `FreshClientIds`: over batches of cancels. `SlotsSpec`: all this implements `OpenOrderSlots`. |
| `restart` | 1 symbol, 2 slots, 3 client ids and 2 ExecIDs a run, 2 runs | `ExposureAcrossRuns`: the orders of all runs that can trade, together, are no more than `MaxOpen`, although each run counts from zero and sends before its Logon is answered. It rests on the flag that asks for cancel-on-disconnect: the variant without it is refuted. |
| `session` | 2 symbols, one configured; 2 commands and 2 frames of any kind; 1 ExecID, so that a second report is a repetition | `OrdersNumberedOnFromLogon`, `AppliedIsForwarded`, `OnceNeverWaitsAgain`; liveness: `ShutdownStopsThread`, `CommandsAreTaken` |
| `session_numbers` | same, one symbol | violated: `SeqNumsIncrease` (finding 1) |
| `strategy` | orders: 3 prices, 5 order ids, sequence numbers to 2; an offset of -1, so that quotes go through the top and books of any spread decide; trend: 3 trades of two sizes, 5 tops of the book, a clock of 4 readings that is set back once | under any order of events `PhaseMatchesTracking`, `CrossesAsConfigured` (an order that would trade at once is asked for exactly when the newest book is crossed by the offset; late updates do not matter); `KeptIsRecent` (the window is exactly the recent trades, or a run of the latest when the clock was set back) and `ScoreMirrors` (neither side is preferred, beyond the rounding of the prices to a unit of their scale; two opposite verdicts of the same kind are excluded when that unit is not a strong score by itself) |
| `trading` | 1 symbol, 8 client ids, 3 market events, 2 reports | `StandingAsideSweeps`: after standing aside, once the commands are taken, each order that can trade has a cancel request, whatever the maker had guessed, or an unreadable status. `ReplacedIsCancelled`: an order given up for another one has a cancel request of its own number, if its Open had come before; if not, the code may cancel another one (section 7) |
| `parsing` | 3 frames of two lengths, under a BodyLength of one or two digits, with any fault, all cuts; texts of up to 5 bytes out of `- . 0 9 A` under scales 0, 1, 10, 25 and 100, with integers of 8 and 16 bits for i64 and i128; each message of the encoder with texts of up to 2 bytes, `=` among them, and any fault | `SoundPrefix`, `NothingLeftBehind`, `KilledByFaultOrTornTag`; `ParsedIsDenoted`, `OrderedIsSent`; `EncodedIsRead` |
| `framer_halfframe` | the frames of `parsing` | violated: `OnlyFaultsKill` (finding 2) |
| `threads` | 2 events, with and without `--once` | `SuccessIsOrderly`, `StrategyReadsAll`; liveness: `MarketEndReturns`, `OnceReturns` |
| `market` | 2 symbols, one configured, 2 prices, 3 frames; updates of both sides or of those that changed; removals in front or behind | `BookIsAPastTop`, `BookFollowsFeed`, `OneCounterOneSubscription` |
| `dashboard` | 3 requests of any kind, 2 keys, failures anywhere, one death of the process | `OneRuntimeHeld`; `SavedIsKept`: between saves each key has its last saved value, unless another save interfered with one, or a write failed or was torn with the file emptied; liveness: `RequestsEnd` |
| `library` | session: 4 frames, 5 messages; feed: 2 symbols, rings of 2, event ring of 3, 6 events; rings: capacities 0 and 2, 2 symbols of which one is configured, 4 items pushed; pipeline: 2 engines and an unknown symbol, 3 events, batches of 2, one command from outside | `ActsOnPrefix`, `AnswersOnce`; `FollowingIsSeeing`, `HolesOnlyWhenLate`; `RingsAreFifos` (refinement to `BoundedFifo`); `SeenIsAddressed`, `NoAnswerWaits` |

In `strategy`, `parsing` and `library` a variable `part`, chosen at the start, says which
of the parts is explored; the others rest in an initial state, so that nothing is
multiplied and one run serves parts that share no state.

**Bounds.** Four client ids allow two orders at the limit and a cancel-all for
both, or an order sent again after a slot came free; two reports, each usable any
number of times, allow a late Open after an end, a repetition of an end, and an
end unknown to the parser after an acceptance. What these bounds cannot show of
the order flow, the theorems do for all values. Two commands and two frames put
every pair of handlers next to each other in the order session. Two runs of the
process are what it takes for orders of one to meet the limit of the next, and 3 ids
fill the limit and leave one for a cancel or an order too many. Three frames
give a torn frame a sound one on each side. Three requests are needed for
two that overlap and one that observes; one death of the dashboard is enough for an
orphan and for a torn write. Texts of five bytes put every two branches of the
scanner behind each other at either end of a number, and with 8 bits both the value
and, on the way, the wider accumulator overflow. A ring of two is full, empty and
in between; one of none is the case the constructor treats apart. The bounds of `LiveTrading` allow quoting,
one report of an old quote arriving after a requote, and standing aside. Constants
of the code that are scaled down (5 events for `--once`, `4 * cap` and 16 in the
feed, the lengths of FIX fields, the trade window) are parameters with the same comparisons.

`CHECK_DEADLOCK FALSE` is given everywhere because every instance does stop: at
its bounds, or when its thread, process or requests have ended. That no
thread is left waiting is stated instead by the leads-to properties.

## 5. Fairness

* `OrderSession`: weak fairness of the thread as a whole. Its reads end within the time-out of
  30 s (`runtime.rs:831`). Writes have no time-out: an exchange that stops reading can block
  the thread, and with it the shutdown, for as long as it likes. The fairness assumes
  that it does not: that a write ends or fails.
  Commands, frames, the flag and the peer have no fairness. The drain of
  commands has no limit in the code: a strategy that sent without end could keep
  the thread from the flag; in the model, commands are bounded by `MaxCommands`.
* `LiveThreads`: weak fairness of each thread, for the same reasons (`recv_timeout`
  of 10 ms, read time-outs at `runtime.rs:706` and `831`) and under the same assumption on
  writes. `OnceReturns` also needs strong fairness of
  `MarketEvent`: a market that is read again and again does bring events. This is
  about the exchange and not guaranteed by the code; without it, a session of
  heartbeats alone never ends, which is how the code behaves. `MarketEndReturns`
  does not depend on it.
* `Dashboard`: weak fairness of each request's thread, and of the end of a process that was
  killed, for which `stop_runtime` waits under the mutex. Weak fairness is enough although
  others compete for the mutex, because requests are finite in number.

## 6. Proofs

Of the 40 properties of the passing runs, all invariants and action properties, and both
refinements, are theorems for every value of the constants. Each proof has the same shape: an
inductive invariant, a lemma for each action, and a last step of temporal logic. Theorems are
listed in `PROJECT.json`; what follows is the argument of each.

**The order engine** (`OrderEngine_proofs`), under *any* reports:
`EngineTypeCorrect`, `EngineCountWithinLimit` (the counter never passes the
limit), `EngineConsecutiveSeqNums`, `EngineFreshClientIds`. Each is inductive with
the type invariant; the work is in the batch a cancel-all sends, for which
`CancelBatchOnWire` says what lies where on the wire.

**Engine and exchange** (`Trading_proofs`), for every number of symbols,
slots, orders and reports:

* `FlowTypeCorrect`, and `FlowImplementsEngine`: every behaviour of the flow is
  one of the engine, so the engine's theorems hold in it.
* `FlowInvariant`: `FlowInv` is inductive. The properties are not so on their own.
  That the counter is right after a report needs to know that a report that ends
  an order finds it open-like when, and only when, it is the first to do so. That
  needs: reports are about orders that were sent (`ReportsOfSentOrders`); an
  ExecID belongs to one report (`OneReportPerExec`), so that the engine's set of
  seen ids tells repetitions; an order ends once at the exchange
  (`OneFinalReport`); seen ids were reported (`SeenWasReported`); and the tables hold each
  sent order under its symbol, open-like - or unreadable, if such a status was applied - until
  its end has been applied (`TablesOfSentOrders`): this survives the late Open and the cancel of a
  finished order, which both only make orders *more* open-like.
  There is one lemma per kind of step (`FlowInvNewOrder`, `FlowInvCancels`,
  `FlowInvExchange`, `FlowInvDeliver`).
* From it: `FlowCountIsExact`, `FlowExposureLimit` (orders that can trade are
  among the outstanding, which the counter covers), `FlowCancelAllReachesLive`, and
  `FlowImplementsSlots`, the refinement to `OpenOrderSlots` with an order
  holding its slot until its end has been applied.

**Live trading** (`Trading_proofs`). `LiveInv` joins the invariants of the flow and of the maker
to what the channels hold: only what the maker sends and the engine tells
(`ChannelsTypeOK`); each order sent is one the strategy placed (`SentIsPlaced`);
and, for as long as the maker stands aside, a `CancelAll` is on its way with no new order
behind it, or nothing new is on its way and every order that can trade has been asked to be
cancelled (`Sweeping`). That the second follows from the first when the order thread takes the
`CancelAll` is `CancelAllReachesLive` of the flow, which `LiveInv` contains; orders of which an unreadable status was
applied are exempt throughout. The theorems:
`LiveImplementsFlow` (the composed system takes steps of `OrderFlow` only, so the limit and all
of the above hold in it), `LiveStandingAsideSweeps`, `LiveReplacedIsCancelled` (each order in
`replaced` has been asked to be cancelled or its cancel is on its way, and such a cancel names an order
that was sent, so that the engine does not refuse it), and `LiveMakerKeeps`: fed by the
engine, whose ids are not those it guesses, the maker keeps what is proved of it below.

**Restarts** (`Trading_proofs`). `RestartInvariant` carries `FlowInv` across crashes and adds
that one session is served at a time, that live orders are in the session that is
on, and that each past run was within its own limit when it ended; `RestartExposure`
follows by counting over the runs.

**The order thread** (`OrderSession_proofs`), for any engine, any numbers of
commands and frames and any write that fails: `SessionTypeCorrect`;
`SessionOrdersNumbered`, where the invariant relates the engine's counter to what was
written (the same as long as no heartbeat came between and no write failed; a failed one
ends the thread); `SessionAppliedIsForwarded`, where what was told is, event by event, what
was applied, unless the thread has ended in an error; `SessionOnceEnds`. A command or a
report is a step of `OrderEngine` here as well, so its type theorem is used, not repeated, and
no branch of the loop connects again. Hence `SessionImplementsEngine`: with `FirstSeqNum = 2`,
the number after the Logon's that `set_next_seq_num` gives the engine and the value in the
run's configuration, the thread implements `EngineSpec`; and `SessionKeepsEngine`: the
engine's limit, numbering and ClOrdIDs hold in the thread.

**The maker** (`Strategy_proofs`). `MakerInvariant`, `MakerPhaseMatchesTracking` and
`MakerCrossesAsConfigured`. `MakerInv` adds to the agreement of phase and tracking
that what the strategy was last shown is the engine's book, and that it was shown one before
it left `Flat` (`BookIsShown`): this is why the early return of `start_exit` is never
taken, and why every order is priced on the newest book; and that an order an Open event has put into a
slot is the one tracked there (`OpenedIsTracked`), and is cancelled by the call that gives it
up (`GivenUpIsCancelled`). Nothing is assumed of the offset but that it is an integer.

**The trend** (`Strategy_proofs`). `TrendKeptIsRecent`: `prune_trades` cuts in front of the
first trade still live (`PruneCuts`), and on a clock that is not set back what has left the window
stays out and what was sampled is in order of time (`TrendInv`, `LeftForGood`), so that cutting
at the first live trade cuts exactly the old ones. `TrendScoreMirrors` is arithmetic: the
ratios of trades and quantities change their sign exactly, since Rust's division rounds towards zero
(`QuotOdd`); the micro price and its mirror image add up to twice the mid price less the two
roundings (`MicroNearlyMirrors`); the sum is divided once more, and the quotients of two numbers that
add up to at most `n` add up to at most `n \div 100` and two (`QuotsCancel`, `SumsCancel`). `StrategyRunsItsParts`:
the run `strategy` explores both specifications.

**The market thread** (`MarketSession_proofs`). `MarketOneCounterOneSubscription`; the invariant
adds that `subscribed` tells whether the request was written. `MarketBookIsAPastTop`
follows what a top becomes on its way (`PastInv`): a frame in the stream or the buffer, an
event in the channel and the book show a top the exchange had, with a number no later than the
exchange's. For this the decoder's answer to each form of frame is worked out.
`MarketBookFollowsFeed` is about the other end: whatever is on its way to a book, and
the book, either shows the present top or has later news of the same product behind it, further
up the way (`FollowedFrom`). Both need that the last entry of a side is the side's new price, removed levels
before it notwithstanding (`LastFit`). When nothing is on its way nothing later can be, so the
book is the top. Both are proved for any prices, products and any cuts of the stream.

**Threads and dashboard** (`Processes_proofs`). `LiveSuccessIsOrderly` and
`LiveStrategyReadsAll` need what main knows of the threads it has joined (`Joined`), and that the
flag is raised before the strategy is joined and never lowered. `DashOneRuntimeHeld` (the runtimes
alive are the orphans, the one held and the one killed and waited for) needs to know that the
mutex is kept as long as a killed process is waited for, and that none is held then (`RuntimesInv`). `DashSavedIsKept` needs more (`FileInv`): as long as no
other save has emptied the file since a save read it, the save's copy is what is due, but for the key it
sets; a save that is not so is in `stale`.

**Framing, decimals and messages** (`Parsing_proofs`), for any frames, any cuts, any texts, scales
and integer widths:

* `FramesAreSoundPrefix`, `FramesAreNotLeftBehind`, `FramesKillByFaultOrTornTag`: `FramerInv` says
  what has been read is no more than the stream, and what `next_frame` answers to
  the bytes there are (`AnswersTell`). `SizeOf`, a recursive function, is related to
  prefixes by `SizeOfNext`, frame by frame, so that "the frame at the front" is meaningful at each cut.
* `ParsedAsDenoted`: `Registers` says what the scanner's five registers hold after the first
  `pos` bytes: what the digits in front of the dot and behind it spell, and the power of ten
  behind. Each branch of the scanner extends the text by one byte (`TakesDigit`, `TakesDot`);
  a branch that gives up does so because no text that begins so has a value that fits, and the last
  step puts the registers together without passing the wider type.
* `OrdersAreSent`: what `format_scaled` writes has the digits of the value (`DigitsTell`), with the
  zeros in front and behind that make it spell the value over the power of ten (`FormatTells`); with
  the theorem before, it is read as that value.
* `MessagesAreRead`: for any values and sequence numbers `next_frame` answers on each part of a
  message what `FixFramer` counts, and the fields pushed are read back in order, an `=` in a value or a
  value that looks like a trailer notwithstanding. `MessagesInv` has the body as the fields pushed
  `Laid` one behind the other, with `e[i]` the last byte of field `i`. Separators are then the
  ends of fields only, and, since no builder pushes tag 10, none is followed by `10=`
  (`SeparatorsTell`): this is `SoundBody`, what the reader relies on. Where each
  byte of a wrapped body stands is `WireBytes`; on the first `n` of these bytes `next_frame` is followed
  through its early returns (`HeadIsRead` to the body, `BodyIsRead` and
  `TooLongIsRead` behind it), which `KindIsCounted` compares with `NextFrame(f, n)`. That a BodyLength and a
  checksum are read as they were written is `NumbersAreRead` and `SumsAreRead`; that the iterator
  finds the next field where it was laid, `FieldsAreRead`; that every builder pushes a MsgType of
  one character first, and no checksum, `MessagesAre`.
* `ParsingRunsItsParts`: a behaviour of `Parsing` is one of each part.

**What the live threads do not run** (`Library_proofs`). `FixActsOnPrefix`; `FixAnswersOnce`, with
the requests answered so far below the next number (`AnswersInv`); `FeedHolesOnlyWhenLate`, as the
ring of events holds the last numbers without a gap (`RingInOrder`);
`FeedFollowingIsSeeing`, with a history `h` of what the feed showed at each number: the
client shows `h[after]` (`SeenInv`), whatever part of it the reply that brought it there
contained; `RingsImplementFifos`, with the items between a ring's ends as what `BoundedFifo` has accepted
and not given out; `PipelineNoAnswerWaits`; `PipelineSeenIsAddressed`, where an engine has been
called with the events among those taken that name it (`PipeInv`); and `LibraryRunsItsParts`.

**Means.** The recursive functions of the models (`SizeOf`, `Spelled`, `Power10`, `DigitsOf`,
`NotionalOf`, `Checksum`, `ParseU32`) are reasoned about without the induction rules of the library: the naturals at
which a claim fails have a least element (`LeastNatural`, from `NatLessThanWellFounded` and
`WFMin`), and the claim holds there because it holds just before. The same shows that a function
that satisfies the recursion exists and that two agree. `FoldLeft` is unfolded into the function
that defines it.

**Assumptions** are those of the modules' constants, and TLC evaluates each in some run
(`EngineAssumption`, `MakerAssumption`, `RestartAssumption`, `SessionAssumption`, `MarketAssumption`,
`DashboardAssumption`, `RingAssumption`, `PipelineAssumption`, `LiveAssumption`, `TrendAssumption`,
`FramerAssumption`, `DecimalsAssumption`, `MessagesAssumption` and the like): configured symbols are
symbols, bounds and capacities are naturals, prices and the quote offset are integers,
`None` and the marks are none of the values. Beyond this, `TrendAssumption` has quantities and
prices of a top and notionals of trades as naturals, with weights and thresholds any integers;
`DecimalsAssumption` has bytes in 0..255, scales within an i64 and the wider integer wider than
the narrow one; `FramerAssumption` has tags and bodies of at least the lengths FIX gives them; `MessagesAssumption`
has sequence numbers as naturals and values as texts of bytes without a separator.

**Only model-checked:**

* The liveness properties `ShutdownStopsThread`, `CommandsAreTaken`, `MarketEndReturns`, `OnceReturns`
  and `RequestsEnd`: leads-to under fairness is out of reach of the prover.
* The two findings of section 7, as counterexamples.

## 7. What the runs found, and what was seen without a run

Findings (violated on purpose, each with the sentence it contradicts):

1. **Two counters in one session.** Heartbeats of the order session take
   MsgSeqNum from `sender_seq`, orders from the engine's `next_seq_num`; both go on
   from 2 after the Logon (`runtime.rs:847, 916`). An order and then a heartbeat
   carry the same number; `docs/live-test-flow.md:182` asks for increasing ones
   without repetition. What does hold is `OrdersNumberedOnFromLogon`.
2. **Half frames.** `next_frame` answers with an error instead of "more" when a
   read ends inside `8=`, `9=` or `10=` (`fix/parser.rs:60-62, 70-75, 98-103`), and the
   read loops end the thread with it. `docs/coinbase-hft-architecture.md:265` lists
   half packets as handled. `KilledByFaultOrTornTag` says that these three places are the
   only ones.

Seen while modelling, and part of the modules as the code has them:

* `quote_two_sides` takes its guesses after both ids were handed out, so each quote
  is tracked one too high (`maker.rs:187-196`) until the Open arrives: a requote or a fill
  before that cancels the other quote, or an order that was never placed, and the order given up stays in
  the market until the next cancel-all. A late Open of a replaced order does the same to its
  successor (`maker.rs:292`). `ReplacedIsCancelled` is therefore about orders known by their Open.
* `quote_tick_offset` may be negative (`config.rs:209`): with an offset of -1 a spread of two ticks is
  crossed by both quotes, which the exchange refuses as post-only. `CrossesAsConfigured` says when.
* A partial fill is taken for a whole one, and a fill during the exit of the other side is ignored: no
  quantity is kept.
* A cancel, or a late report, makes an ended order active again (`order.rs:153,
  163`); as an OrderCancelReject is only printed, such an order stays active for
  ever, and each cancel-all sends it another request. The limit does not suffer.
* A status the parser does not know (`order_entry.rs:92`) is not open-like: at an order's end it takes
  the slot for good; of a live order it takes the order out of the reach of cancel-all until
  another status comes, and the slot for good if what comes next is the end.
* `CancelOrder` takes the product from the command, not from the order it names (`order.rs:384`).
* With `requote_ticks` of two or more, one side may be moved up to the other, older
  quote. `CrossesAsConfigured` is about the book only.
* The decoder ignores MDUpdateAction (tag 279): an entry that removes a level is read as one that sets
  it. If an exchange names it behind the level in its place, the book shows a top that is gone;
  `BookIsAPastTop` and `BookFollowsFeed` hold if it does not, and both fail in the model if it does.
* An order thread that dies goes unnoticed while the market thread runs: sends to
  it are ignored. An orderly end may still be reported as an error, when the
  strategy thread is faster than the order thread (`SuccessIsOrderly` is one
  direction only). A panic in the market thread returns before the flag is raised.
* The strategy thread leaves its loop at the flag with whatever its channels still hold;
  `StrategyReadsAll` is about one that ends without having been told.
* Saves of the dashboard are under no lock. One that has read the file before another one writes it takes the
  other's key back; one that reads it while it is empty writes a file without the other keys.
* `fs::write` empties the file before it writes it (`config.rs:262`): a write that fails then, as on a full
  disk, or a process that dies in between leaves an empty or cut configuration, and a state request may read
  it so. `SavedIsKept` says that these, and saves that were interfered with, are all that loses a key.
* A dashboard that is started again knows nothing of
  the runtime its predecessor spawned and will start a second one beside it.
* A process that starts again counts from zero and sends orders before its Logon is
  answered; nothing cancels the last run's orders but the exchange. The limit holds
  because the Logon asks for that, and an exchange that serves one session at a time
  ends the old one first.
* The Logon promises a heartbeat every 10 seconds (tag 108); the session threads write
  one only in answer to a TestRequest.
* `format_scaled` is right for scales that are powers of ten; `ilog10` makes 25 a scale of
  one digit. The configuration accepts any scale. `OrderedIsSent` is stated for powers of ten.
* `RuntimePipeline` ignores the two capacities it is given (`runtime.rs:260-261`), so its
  `CommandDropped` never happens; its order engine is never shown an execution report, and
  its strategies no session or risk event. `on_market_events` drains the commands only:
  exchange events that other threads sent wait for the next call with exchange events.
* One ring of capacity zero makes the whole topology fail; a full command ring refuses
  a cancel as it does an order.
* When the wall clock is set back the trade window keeps trades of the "future" until the
  clock has passed them by a window, and with them what lies behind them.
* A gap in the peer's numbers stops `FixSession` from acting on anything further.

Not modelled: the text of the configuration, HTTP and HTML (formatting and parsing
without state), `validate_order` (a free choice of `OrderEngine` to refuse an order), the
prices and times of execution reports (nothing is decided by them), account REST snapshot
(printed only), authentication, sockets, CPU pinning, telemetry, command-line options, the
supervisor (a latch that nothing calls).

## 8. Plan

The order was: the engine and its limit first, since money is lost there; the
threads around it; the strategy; the composition; the edges (framing, market
data, dashboard). Then the process across
restarts, and what the live threads do not use or what has no state of its own: trend,
encoder, decimals, rings, `RuntimePipeline`. Then the proofs: of the engine, the flow and the
sessions first, then of the composed system, the books, the parsers and what is left of the
library. What is left, in this order:

1. *More of the system.* Cancel reports under the cancel's own ClOrdID in `OrderFlow`;
   liveness of `LiveTrading` (a stand-aside is eventually followed by no live order, with
   a fair exchange).
2. Where a deeper property comes up, it replaces the shallowest one of its run.
