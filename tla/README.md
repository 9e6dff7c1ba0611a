# Formal model of the trading system

TLA+ specifications of `src/src/trader` (paths below are relative to it), the TLC
configurations that check them on small instances, and TLAPS proofs of what holds
for every instance. Every definition is read off the code; where a document says
something else, that is recorded as a finding.

| module | what it is |
|---|---|
| `OrderLifecycle` | order statuses and the transition table |
| `OrderLedger` | abstract: what the journal's order table promises |
| `OrderGateway` | `ExecutionGateway`, its journal writes, router, broker adapters |
| `KillSwitch`, `RiskEngine` | the three-channel halt; `RiskEngine` with `LimitState` and sizing, extending it |
| `Portfolio`, `SafeMode` | `PortfolioManager` and its two tables; the reconciler and the gate over it, with a broker and its adapter's list |
| `Bars`, `Session`, `EquityORB`, `MarketFeed` | bar builder, session features, opening-range strategy, and the queue and loop that compose them |
| `VwapReversion`, `SwingBreakout`, `OptionDesk` | the other strategies; the snapshot publisher and the greeks overlay |
| `TickSocket` | the market-data websocket's subscriptions |
| `Backtest`, `Archive` | engine, simulator and tracker; backfill, Parquet store and the runner's reading |
| `Lifecycle`, `Alerts`, `Watchdog`, `CapitalRamp` | the process from boot to exit; dispatcher; watchdog; capital ramp |
| `Fractions` | exact quotients, for average prices |
| `MCOrderGateway`, `MCRiskEngine`, `MCSafeMode`, `MCMarketFeed`, `MCOptionDesk`, `MCStrategies`, `MCOps` | instances for TLC |
| `OrderGatewayProofs`, `OrderJournalProofs` | theorems about the order path and its journal |
| `RiskEngineProofs`, `SafeModeProofs`, `OpsProofs` | theorems about the parts of sections 3, 4 and 6 |
| `StrategyProofs`, `OptionDeskProofs` | theorems about the parts of section 5: bars and strategies; options |
| `NumberTheorems` | lemmas: sums over finite sets, greatest and smallest members, division; exact fractions |

## 1. The system

A single-process asyncio program: strategies turn bars into signals, the gateway
turns signals into orders, two broker adapters send them, a journal in SQL keeps
them. The parts, the state each keeps, and what makes each of them correct:

| component | state | operations | correct when |
|---|---|---|---|
| execution gateway (`execution/gateway.py`) | `_open_orders`, one `Order` object per open order, tasks for sliced orders | `submit`, `_send`, `_twap_slice`, `on_broker_update` | sender and callback agree on one object; the row follows it; nothing is sent that is not journalled; every submit ends |
| order state machine (`execution/state_machine.py`, `core/enums.py`) | none | `transition` | statuses move forward only |
| router (`execution/router.py`) | none | `choose` | derivatives never fail over |
| journal (`storage/journal.py`, `storage/database.py`) | tables | upserts and inserts, one session each | a row moves forward through the lifecycle |
| Dhan adapter (`brokers/dhan`) | HTTP client, sockets | `place_order` with retries, order feed, market feed, queries | an order is created once; REJECTED means rejected |
| Groww adapter (`brokers/groww`) | HTTP client | `place_order`, queries | as above |
| risk engine (`risk/engine.py`, `risk/limits.py`, `risk/sizing.py`) | heat, P&L of day/week/month, streaks, pauses, brakes | `check`, `commit`, `on_trade_closed`, `start_of_day_reset` | caps hold; brakes say what the trades say |
| kill switch (`risk/kill_switch.py`, `storage/redis_client.py`, `api/server.py`) | manual flag, file, Redis flag, gauge | `activate`, `deactivate`, `active`, `POST /api/halt`, shell | a standing halt ends all entries |
| portfolio manager (`portfolio/manager.py`) | positions, P&L per strategy | `on_fill`, `on_tick` | position, P&L and both tables follow the fills once each |
| reconciler, safe mode (`portfolio/reconciler.py`, `ops/safe_mode.py`) | gate status | `reconcile_positions`, `observe_reconciliation`, `acknowledge` | no difference is reported where there is none |
| market data, bars, session (`marketdata`, `features`) | tick queue, open windows, VWAP, opening range | `_enqueue`, `_consume_loop`, `on_tick`, `update` | every tick is in one bar; a day's features are that day's |
| market-data socket (`brokers/dhan/websocket.py`) | `_subscriptions` | `subscribe`, `unsubscribe`, reconnect | what is wanted is served |
| strategies (`strategies`) | latches, counters, IV series | `on_tick`, `on_bar`, `evaluate` | so many entries a day, of the kind they claim |
| backtest (`backtest`) | cash, lots, positions, equity curve | bar loop, `fill`, `on_fill` | cash, lots and P&L are one account |
| Parquet store, backfill (`storage/parquet_store.py`, `marketdata/backfill.py`, `cli.py`) | files by symbol and month | `run`, `write_bars`, `read_bars` | what was written is read, once |
| application, health, API (`app.py`, `observability`, `api`) | tasks, checks, run log | build, start, serve, stop, `/health` | whatever ends a run, `stop` follows |
| notifications (`notifications`) | `_last_sent` | `dispatch` | only repetitions are held back |
| watchdog (`ops/watchdog.py`) | latencies, two time stamps | recorders, `watchdog_check` | the verdict is the feed's |
| capital ramp, greeks overlay (`risk`) | stage and its start, paused; book of greeks | `can_promote`, `promote`, `pause`; `would_breach`, `apply` | no stage is shorter than its days |
| options pricing, indicators, machine learning | numeric state | formulas | numeric |
| reporting, configuration, migrations | - | formatting, parsing, schema | - |

`app.py` does not construct gateway, risk engine or kill switch yet ("Phase 0"):
they are components with tests. They interact like this:

    strategy --signal--> gateway.submit --> risk.check --> kill switch (file, Redis)
                             |--> journal.record_signal
                             |--> router.choose --> broker.healthy
                             |--> journal.upsert_order
                             |--> _send / TWAP task --> broker.place_order (POST, retries)
                             |--> risk.commit
    broker order socket --> on_broker_update --> journal (get_order, upsert_order)
    closed trades --> risk.on_trade_closed;  scheduler --> start_of_day_reset
    operator --> halt file, redis-cli, POST /api/halt --> kill switch
    fills --> portfolio.on_fill --> journal (record_fill, upsert_position)
    (nobody in src): broker.list_positions --> reconcile_positions --> safe-mode gate
    market socket --> queue --> consume loop --> bar stream, strategies
    chain snapshotter --> parquet store, option strategies --> legs
    backfill --> parquet store --> backtest runner --> engine --> simulator, tracker

Hard behaviours: everything runs on one event loop, so code between two awaits is
atomic and everything else interleaves; the answer of a POST races the reports on
the order socket; journal transactions overlap on pooled connections, or fail
after the object has moved; POSTs time
out and are retried; reconnects lose reports; a crash leaves rows and broker and
forgets the rest; `check` and `commit` are far apart. `PROJECT.json` lists each
hazard with its line and the properties that cover it.

## 2. Order path

### State and actions

An **order** is `<<signal, i>>`: `i = 0` is the one `submit` creates (`Whole`), `i > 0` a
TWAP slice. Its record is the status and `filled_qty`; ids, prices and timestamps
are left out. Four copies of it exist: `mem[o]`, the Python object; `row[o]`, the
committed row; `br[o]`, the broker's; and reports under way in `feed` and `hand`.

| code | model |
|---|---|
| `submit` to its end | `phase[s]`; `RiskCheck`, `RecordSignal`, `ChoosePrimary`, `ChooseFailover`, `InsertOrder`, then `_send`'s actions and `Return` |
| `_send` | `send[o]`; `WritePending`, `AnswerArrives` or `Timeout` or `OtherFailure`, `StageResult`, `CommitResult` |
| `_twap_slice` | `InsertSlice`, `_send`, `Wake`; a slice is never in `_open_orders` |
| `on_broker_update` | `hand[h]`; `Receive`, `Rehydrate`, `StageUpdate`, `CommitUpdate` |
| `upsert_order` | a transaction that reads the row and takes the object's values (`Stage...`), and later writes the columns that changed (`Commit...`) |
| `Database.session` that raises | `SubmitRollsBack`, `SendRollsBack`, `HandleRollsBack`: the row stays, the object keeps the status it has moved to, and the exception ends `submit`, the TWAP task or the call; the feed's loop drops its connection with what it still held |
| `_open_orders` | `tracked` |
| adapters, HTTP | `reply`, `tries`, `late` (a timed-out POST that may still arrive) |
| broker, socket | external: `BrokerAccepts`, `BrokerRefuses`, `BrokerProgress`, `feed`, `LoseReport` |
| the process | `Crash`, including the start-up that reads nothing back |

Details the code decides and the model keeps: the insert and the first transition
have no await between them; an illegal transition after the answer raises out of
`submit` (which then skips `commit`), out of a callback it is logged and dropped;
`commit` for a sliced order happens before its first slice; the pop tests the
object's status after the awaited write; a rehydrated copy is not put back into
`_open_orders`; derivatives fail in Dhan's adapter with a `ValueError` before the
POST; Dhan's answer carries any early status, FILLED for a market order perhaps;
Groww acknowledges everything as PENDING and has no order socket. Brokers reject
duplicates (`execution/README.md:9`), so a retry cannot create a second order.

**Transactions.** `upsert_order` opens a session, SELECTs, assigns and commits. The
flush writes only the columns whose new value differs from what this SELECT
returned. The default engine (`storage/database.py:75`) has a pool of several
connections, so two transactions on one row may overlap and then mix columns:
`seen` and `callSeen` hold what each read, `UpdateColumns` what each writes; there is
no limit on how many are open (waiting for a pooled connection changes nothing but
time, and its timeout is a failure like the others). The read and its return to
the loop are one step; the first upserts of an order (insert, PENDING) are
uncontested, as the broker has not heard of it, and are single steps.

**Where the code loses updates.** Three history variables say of which orders, and
the properties except these and no others: `contested`, two copies of the row that could
differ were in use at once (`Contest`; the exception of `JournalRefinesLedger`);
`unsaved`, an upsert was rolled back after the object had moved and no later commit
made up for it (added in `QuietAgreement`, `TrackedUntilSettled`); `missed`, a report was
lost, or its handling failed (added in `Settles`).

### Runs

| run | instance | states | what it shows |
|---|---|---|---|
| `gw_feed` | a plain and a sliced (derivative) order, feed only, answering network, a crash, a failing transaction | 137,784 | `TrueRejection`: REJECTED in a row means the broker does not have the order; `Settles`: how the broker ended an order reaches the row, unless one of the losses above hit it |
| `gw_hostile` | one order, feed and a poller, timeouts, losses, a crash, a failing transaction | 1,522,169 | `TypeOK`; `MirrorsBroker`: the journal is never ahead of the broker; `SentIsJournaled`: no POST and no order at the broker without a row past NEW and an approved signal; `QuietAgreement`: when no write is under way, row and object agree; `TrackedUntilSettled`: an order stays in `_open_orders` until its row is terminal; `JournalRefinesLedger`: rows implement `OrderLedger` |
| `gw_twap` | one order of two slices, two tries, losses, a failing transaction | 469,835 | `SubmitEnds`: every submit and every TWAP task ends; `SentIsJournaled`, here through retries and for slices |
| `gw_stale_row` | one order, feed only, nothing fails | violation | A row leaves a terminal status: `_send`'s second transaction is older than the feed's and commits later |
| `gw_false_reject` | one order, three tries, timeouts | violation | A row says REJECTED of an order the broker has |

**Bounds.** A second order adds nothing to the races of one (no handler touches two
orders; the shared things are the feed and the loop, and the
second order of `gw_feed` exercises them). Two slices have a first, a last and a
sleep between; two units of quantity have a partial fill. `Attempts` 2 (in `gw_twap`) has a retry
and a last try; one crash and one failing transaction can fall between any two steps.
`gw_hostile` makes one try: its timeouts leave late POSTs behind all the same. The broker's moves are
bounded by `BrokerSteps`: `Conformant` has one path through every status and the
shortcut PENDING -> FILLED, `Short` the shortest life. The system comes to rest
when all orders are settled, so deadlock is not checked in these runs.

**Fairness** (`FairSpec`, used by `gw_feed` and `gw_twap`): the event loop runs ready
tasks, and POST, health and journal calls come back (in `gw_twap` with a timeout at
worst, with a rollback in both); weak, as a step of a task that is ready stays so
until it is taken or fails. Signals, pollers, crashes, losses, failures and
the broker's later moves are never forced. `Settles` therefore says: if the broker
ended the order, the row will say so.

### What is proved (`OrderGatewayProofs`, `OrderJournalProofs`)

* `TypeCorrect`: `Spec => []TypeOK`, for all constants, losses, pollers and crashes
  included. The invariant needs the stages (`StageOK`): the slice a sender works
  on is its task's, a sender and a callback under way have an object, a staged
  transaction has values, the slice counter stays in range.
* `LifecycleKept`: `Spec => JournalRefinesLedger`. `OrderLedger` creates an order's row
  as NEW, advances it along chains of legal transitions and never moves it out of a
  terminal status, until the order is disputed (`Dispute`); the journal does the
  same, until the order is `contested`.
* `TerminalRowsStay`: in the same histories the row of an order that `submit` created
  stays in a terminal status for as long as it is not contested. It is
  `NeverBackFromTerminal`, which `gw_stale_row` refutes, with that exception: overlapping
  copies are the only way there.
* `TrackedKept`: `Spec => []TrackedUntilSettled`, and `NoUpdateIsLost`: `Spec =>
  []QuietAgreement`, for orders that are neither contested nor `unsaved`: the two ways in
  which the code does lose an update.

The four hold for any connections, pollers, failing transactions, lost answers and
reports, and crashes. The inductive invariant they share, `LifeInv`, says: only
terminal objects are forgotten, and copies of a row are made only of forgotten
orders (`Forgotten`); before its insert an order has no row (`BirthStage`); and of every
order that is not contested (`CopyStage`) one copy of the row is in use at most
(`OneCopy`), it will be written over the very row it was read from (`FreshCopy`), it is
ahead of that row but not of the object (`Onward`; `Reach`, chains of legal
transitions, is transitive), a copy rehydrated from the row is no news to the
object (`LateCopy`), and what was staged last, or else the row, is the object, unless
an upsert was rolled back (`Agree`). A step that would break one of them is a step that
contests its order, which is what `Contest` is defined by.

* `WriteAhead`: `Spec => []SentIsJournaled`, and `NeverAheadOfBroker`: `Spec =>
  []MirrorsBroker`, without any condition: any connections, pollers, retries, losses
  and crashes. The shared invariant `JournalInv` follows an order through its stages:
  worked on only under an approved signal (`SignalStage`), unknown to `_send` before
  its insert (`FutureStage`), posted only after the upsert of PENDING
  (`PostStage`); and every copy of it, in memory, in the row, in an image on its way
  (`RecordStage`, `MirrorStage`) or in a report under way (`ReportStage`), claims no
  more than the broker has done (`Mirrored`). That survives because the broker's record
  only `Extends`, and a write that mixes the columns of two such records is
  `Mirrored` again.
* `RejectionsAreTrue`: `~Lossy => (Spec => []TrueRejection)`. `RejectStage` says what
  REJECTED may mean wherever it is held: the broker rejected, or does not have the
  order and never will. A lost answer breaks the second half (`gw_false_reject`).
`GatewayAssumption` bounds nothing: it types the constants, and asks that the
broker moves no order out of a terminal status nor back to NEW or PENDING.
`~Lossy` is a network that answers.

## 3. Risk and halt

### State and actions

`check` is three steps: `BeginCheck` (manual flag and file, up to the await),
`ReadFlag` (what Redis answers; a failure reads as not halted) and `Decide` (the
rest, without an await: stops, pause, size, heat). `Commit` adds the exposure when
`submit` gets there, `LeaveEarly` is a `submit` that ends before it. `TradeClosed` is
`on_trade_closed` with everything it calls, `NewDay` is `start_of_day_reset`, `Restart`
forgets all of it. Percentages of NAV are amounts, prices and risks small numbers;
`volCap` stands for `vol_normalized_size`. `KillSwitch` has one action per channel and
actor; `POST /api/halt` is two (`ToggleFile`, `ToggleFlag`), as it awaits Redis after
it moved the file.

### Runs

| run | instance | states | what it shows |
|---|---|---|---|
| `risk` | two concurrent submits, two strategies; either three closing trades and two sessions with the switch at rest, or everybody moving the switch with Redis outages and a restart (`Scenarios`) | 207,899 | `TypeOK`; `HeatOverrunBounded`: the heat cap is overrun by at most one largest order per other caller; `BrakesMatchBook`: streaks, pauses, brakes are a function of the history of closed trades; `SizedWithinCaps`; `PreservedForGood`: once the month's limit was hit entries end, even if P&L recovers; `HaltDrains`: a halt that stays in the file or in a reachable Redis ends all entries |
| `risk_uncapped` | an instrument dearer than the cap | violation | The notional cap of 0 units is read as no cap |

**Bounds.** `HardPause` 2 and `SoftBrake` 1 separate a brake from a pause, three trades
give loss-loss-win and loss-win-loss, two days separate what a session resets
from what it keeps. `DailyLimit < WeeklyLimit < MonthlyLimit` lets each stop act on
its own. `HeatCap` 6 fits one order and not two of the largest. Losses, days and
sizes play no part in a halt: the second scenario has one kind of signal and no
closing trade. **Fairness**: a check whose Redis
call is out is answered, and an approved submit commits or leaves; operators,
trades and signals are never forced.

### What is proved (`RiskEngineProofs`)

* `RiskTypeCorrect`: type correctness for all constants; it includes that an approval
  is for at least one unit.
* `SizingKept`: `Spec => SizedWithinCaps`. The work is in `SizeFits` (caps are applied
  before the brake halves, so half of each cap holds while braked) and in
  products of integers.
* `HeatCapKept`: with one caller, `Spec => [](heat <= HeatCap)`. The invariant adds that
  an approved order still fits (`Fits`), which a second caller breaks: the overrun
  that `risk` bounds is due to concurrency alone.
* `OverrunIsBounded`: `Countable => (Spec => []HeatOverrunBounded)`, for any finite number
  of tasks and of possible orders (`Countable`; a maximum over them has to exist).
  The invariant adds that an approved order is no larger than its signal asked
  (`SmallOrders`). The step that matters is `Commit`, which moves an exposure from one
  sum to the other, and `Decide`, which adds one where the rest of the sum is
  bounded by one largest order for each other task.
* `BrakesAreEarned`: `Spec => []BrakesMatchBook`. Inductive once no trade of the book is of
  a later session than today (`DaysPast`); the work is in what one more trade does
  to the streaks of its strategy, which the property tells from the whole history.
* `PreservationEndsApprovals` and `HaltLetsNobodyIn`: the safety halves of
  `PreservedForGood` and `HaltDrains`. Once the month's limit was reached `check`
  approves nothing until a restart, whatever later trades bring (`Breach`, `Since`).
  While the file or the manual flag stands nobody is approved who had not begun
  (`AllIdle`), and while a Redis that answers holds the flag nobody whom it has not
  answered otherwise (`NoneFree`). What the liveness properties add, that calls
  under way come to an end, is TLC's. The two cannot be put together into one
  statement about file or flag: a halt that is in the flag when a check looks at
  the file, and in the file when the check asks Redis, is seen by neither.

Constants are typed by `RiskAssumption` and `KillSwitchAssumption`; limits and streak
lengths are positive, as in the shipped configuration.

## 4. Positions and safe mode

`on_fill` changes the position, awaits `record_fill`, awaits `upsert_position`, and only
then books the strategy's P&L. Each stretch is an action of `Portfolio`: `OnFill`,
`RecordFill` (or `RefuseFill`: `fill_id` is unique), `ReadPosition`, `WritePosition` (or
`RefusePosition`), with `DbFails` in any of them and `OnTick` and other fills between.
The row is written with the position as it is when the second transaction begins
and, as in the order table, only the columns that differ from what it read. Average
prices are exact fractions. A restart empties memory and reads nothing back.

`SafeMode` adds the broker (external: its fills, its quantity, what the open position
cost and what all purchases did), the fills on their way to `on_fill` (late, overtaken,
twice, or lost with the process), the reconciler and the gate. Nothing in `src/` calls
these two: `scheduler/jobs.py:76-77` registers a hook if one is given, and
`register_default_jobs` has no caller. So no job is modelled and none is assumed to
run: `BrokerLists` (the environment fetches `list_positions`), `Reconcile` (it compares the
list it has, fresh or old, and tells the gate) and `Acknowledge` happen at any moment
or never. `ListPositions` is what Dhan's adapter makes of a row of the broker: the average
is `buyAvg`, that of everything bought, where there is one, else the cost of the
open position (`brokers/dhan/client.py:118-139`).

| run | instance | states | what it shows |
|---|---|---|---|
| `desk` | one instrument, three fills of two strategies (open, add, then reduce, close, cross or open short, as the order has it), either one feed with a fill delivered twice, a failing write, ticks, a restart and an acknowledgement, or two feeds whose calls overlap (`scenario`) | 1,220,069 | `BooksBalance`: what a position realised is what its fills and its rest cost, unless a fill crossed zero; `RowsAgree`: between calls the position's row is the sum of the fill rows; `PnlAttributed`: strategies earned what positions realised; `ReviewHasACause`: the gate goes to review only where book and broker may differ |

**Bounds.** Three fills of 2, 1 and -2 in any order give every case of the average: flat,
adding, reducing, closing, crossing. One instrument is enough, as no handler touches
two; one feed awaits its calls one after the other, two feeds need two. One
acknowledgement is enough: the gate's past plays no part in the properties.

The exceptions in the properties are what the code does: a fill that crosses zero
keeps the old side's average price for the new position; `RowsAgree` is claimed
before a restart only, since the first fill after one restarts the row from zero;
without overlapping calls, since the older image of the position may be written
last and the second of two first inserts is refused; and with every write successful,
since a failed `record_fill` leaves the position changed and a failed
`upsert_position` the row behind. The causes that `ReviewHasACause` lists are each the code's,
and TLC finds a review without any of the others for all but one of them: a list
older than the broker's last fill; a fill that has not come in, or came twice; fills
of one instrument that came in the wrong order, as the average depends on it; a
restart; `buyAvg` where it is not what the open position cost. The crossing of zero is
the one: from long to short, as in the instance, the old average that the book
keeps is `buyAvg` too; it takes a crossing from short to long to make a difference.

### What is proved (`SafeModeProofs`)

For any instruments, strategies and fills, any number of overlapping calls, and any
failures of database and process:

* `BooksAlwaysBalance`: `Spec => []BooksBalance`. `BooksInv` says of every instrument that
  was not crossed: realised P&L = average x quantity - what the fills cost. The
  three cases of `on_fill` (adding, reducing, closing) keep it, in exact fractions over
  a common denominator.
* `RowsAlwaysAgree`: `Spec => []RowsAgree`. While nothing is disturbed (no failing write,
  no fill twice, no overlap) at most one call is under way (`OneAtATime`); the book has
  the fill it records, the image it writes has it too, and only the row of its own
  position may lack it (`TablesFollow`).
* `PnlAlwaysAttributed`: `Spec => []PnlAttributed` for finite sets of instruments and
  strategies, as the property sums over both. What the strategies earned lacks
  exactly the gain of the call under way (`MoneyFollows`), also across a restart.

## 5. Market data and strategies

A moment is a slot of a day. `MarketFeed` composes `TickSocket`'s consumer side: the
bounded queue (`Enqueue` drops what does not fit), the loop that awaits one consumer
after the other (`ServeBars`, `ServeORB`, in either order of registration), `Bars` and
`EquityORB`. A window is closed by the first tick of a later one; there is no timer. The
strategy updates the range with ticks and with bars of every timeframe. ATR, volume
confirmation and book imbalance are choices.

`OptionDesk`: a snapshot goes to its subscribers in turn; condor, debit spread and
butterfly pick strikes from the chain (the nearest beyond a target, or the last one),
compute the worst loss and the lots, and return legs that are submitted one by one
(`Accept`, `Decline`: overlay, risk engine, kill switch or broker). The loop that submits
them is not in the repository; it is the one `submit` asks for, one signal at a time.
Strategies compute the worst loss per unit and return a number of lots; how many
units a lot has is "resolved by the caller" (`options_iron_condor/strategy.py:87-89`), so
it is a constant, `LotSize`, and what a spread is worth counts it (`Worth`).
`held` is the list of accepted legs, each with its structure; a sum over a chain
or over legs is a sum over its members, so that the proofs can take it apart.
`VwapReversion` has the daily count and the warm-up, `SwingBreakout` the whole condition
over short histories, `TickSocket` the two sets of subscriptions, the client's and the
server's, over losses and reconnects.

| run | instance | states | what it shows |
|---|---|---|---|
| `strategies` | one of the five parts per behaviour: four ticks over two days, two timeframes, a queue of one, a late tick or a restart, the bars or the strategy served first; three snapshots of five kinds, a chain with gaps and one that ends early; daily candles; seven bars over two days; four calls and two losses on the socket | 1,054,181 | `BarsAreTheTicks`: bars, told from the ticks alone, each tick in exactly one; `RangeSpansWindow`, `FreezesAtEnd`, `OneEntryADay`, `EntriesBreakOut` for the opening range; `LossBounded`: complete spreads lose at most their budget times the lot size, wherever the underlying settles; `NeverBothSides`; `FadesTheFirst`; `ServesTheWanted` |
| `naked_short` | the options part | violation | The condor's sold call held without its wing |
| `no_breakout` | the swing part | violation | A daily close above the pivot, in stage two, out of a shallow base, on heavy volume, and no entry |

**Bounds.** The opening window of slots 2 - 4 and the time stop at 7 leave moments before,
in, at the edge of and after both; six moments over two days, one of them a
second day's start, and four ticks can fill a window, close it and break out. Bars of
one and two slots close together or apart. The three chains have strikes on the
targets, beyond them and none beyond them; IV 0, none, low and high give every comparison of ranks in a window of three. Lots of
two units tell lots from units. Averages of 3 and 2 bars stand for 200 and 50, a base
of two for 25: the pivot is the high of a base, with the bar under judgement or without.

What limits the properties is again the code: if the strategy's tick handler runs
before the bars', today's first tick is cleared by yesterday's last bar (`Known`), and a
bar of the day that ended before the window freezes the range on the window's first
tick (`FrozenAtOnce`), so that after a restart the day may have a
second entry; a butterfly on uneven strikes can lose more than its debit (`EvenWings`); reconnects
revive what was unsubscribed before (`revived`); a late tick spoils the opening range.

### What is proved (`StrategyProofs`, `OptionDeskProofs`)

* `SwingNeverBuys`: `SwingSpec => []NeverBuys`, for any candles and lengths: what
  `no_breakout` shows once is so always, as the judged bar's high is in the base its
  close would have to exceed.
* `SocketServesTheWanted`: `SocketSpec => []ServesTheWanted`. `SocketInv` looks ahead: what
  will be served once the messages on the wire are handled (`Ends`) is what is wanted
  or was revived by a reconnect.
* `ReversionFadesTheFirst`: `ReversionSpec => []FadesTheFirst`. `Counts` ties the counter to
  the history: the number of faded bars of the current day, whose bars are the last.
* `DeskNeverOnBothSides`: `DeskSpec => []NeverBothSides` for `Proper` rosters: somebody is
  subscribed, and nobody who keeps an IV series twice. (Twice would feed the series
  twice; the code's publisher appends callbacks and is given each strategy once.)
  `FedAlike` says that the two IV series differ at most by the snapshot that one of
  them has had and the other has not, and by the zeros that one of them skips.
* `LossAlwaysBounded`: `DeskSpec => []LossBounded`, and `LossBoundedAnywhere`: the same at
  every price, not only where the worth bends; for any chains, however uneven,
  budgets, lot sizes, IV histories and number of structures. The bound is the
  budget times the lot size, and only with lots of one unit the budget, which is what
  `docs/strategies/options.md:20-21` promises per structure (section 7). Two halves. What an evaluation
  returns is `SafeLegs`: the legs, all of them, lose at most the budget at any price.
  That is arithmetic about the strikes picked (`Wings`, `ClosestIs`: a bought strike
  lies on the outer side of the sold one, or is it), the pay-off between and beyond
  them, and the lots, which are the budget divided by the worst loss. And what is
  held of a structure that has not failed is `HeldInOrder`: a contiguous piece of
  `held`, as long as the legs already submitted and equal to them, so that a
  complete structure is worth the pay-off of its legs (`HeldWhole`). `LegsInv` is the
  inductive invariant; a butterfly with the wider wing above is the exception the
  property names (`Narrow`).
* `BarsAlwaysTheTicks`: `FeedSpec => []BarsAreTheTicks`, for any timeframes, either order
  of the consumers, any queue size, drops, late ticks and restarts. `StreamInv` says of
  each timeframe that the builder holds the bar of all the ticks of the last
  tick's window (`Building`) and that the bars handed out are those of all earlier
  windows, each once, in order (`Complete`). A late tick stays in the window that is
  open (`WindowOf`), so windows never go back; one more tick either joins the open
  bar, whose sums and extremes grow by it, or closes it and opens the next.
* `RangeSpansTheWindow`, `EntriesAlwaysBreakOut`, `OneEntryEveryDay`, `FreezesPastTheEnd`:
  `Nested => (FeedSpec => [](order[1] = "bars" => P))` for `RangeSpansWindow`,
  `EntriesBreakOut`, `OneEntryADay` and `FreezesAtEnd`, over any ticks, days, queue
  sizes, drops and restarts. `Nested` asks that each timeframe is a multiple of the
  ones before it and no longer than the morning before the window, as the stream's
  default ("1m", "5m") and a window from 09:15 are: otherwise the bars that one
  tick closes end out of order, or a bar that ends in the window holds yesterday's
  prices. The other order of the consumers is left to TLC; there the first and the
  last of the four are weaker or false.

  The inductive invariant `FeedInv` is about a moment T, that of the last tick the
  bar stream has taken, while no tick is late. No tick in the queue precedes T,
  each builder holds the window of T (`UnderWay`), its prices seen since that window
  began; and `OrbGood` says what the strategy makes of it. A range is frozen only if T is
  past its day's window, spans the window's ticks so far (`Covers`), and has its
  ends from ticks of that morning (`Sources`). Every past entry is beyond the window, and
  its day is `Spent`: over, latched, or, after a restart, one whose range will stay
  empty because its window is over. A bar ends between the last tick and the one that
  closes it, so judging the bars of a tick in turn advances the moment step by
  step to that tick's (`JudgedTo`), which is where the timeframes have to nest.

## 6. Around the trading path

* `Backtest`: `TakeBar`, then `Filled` or `Unfilled` per signal, then `EndBar`. A fill takes at
  most its share of the bar's volume, a limit needs a bar that reached it; the tracker
  matches FIFO (`Book`). `MaxDrawdown` is `metrics._drawdown`.
* `Archive`: fetches overlap up to the semaphore; a symbol's months are appended
  without yielding; appending reads the file, empties it and writes it anew, and a
  writer that dies in between leaves it torn (`OpenMonth`, `WriteMonth`, `JobDies`). Reads
  (`ReadBars`, `Load`) are operators over the files. Rows are bags: nothing removes
  what a second backfill fetched again. A read lists a file's rows as often as they
  are stored, file after file and symbol after symbol (`Listed`), and sorts the list:
  `ByTime` is a stable sort by what it does, every bar to its `Place`. The months of
  one fetch are consecutive, as only the first of its bars may be missing.
* `Lifecycle`: `launch` from build to exit. Every end of a run after `build` goes
  through `Stopping`, as the `finally` does. The signal handlers are installed by
  `wait_for_shutdown` only (`app.py:230-240`). With them a signal sets `_shutdown` (`Signal`) and
  `stop()` is not disturbed; without them `asyncio.run` cancels the task, which ends
  `start()` (`Interrupt`) or, in a dry run, after a failed boot or an interrupted start,
  `stop()` itself (`InterruptStop`), the event awaited just then being written or not
  (`LogsOrNot`). `db.dispose` may raise (`DisposeFails`; `app.py:224`), `redis.close` swallows
  its own failures. Services flap (`Flip`), health checks are answered one by one, `Kill`
  takes everything.
* `Alerts`, `Watchdog`, `CapitalRamp`: one action per method.

| run | instance | states | what it shows |
|---|---|---|---|
| `ops` | one of the six parts per behaviour: three bars and three signals; two symbols, two months, two jobs; two brokers, two launches, two flips; two overlapping dispatches; 21 latencies; four stages | 263,334 | `LotsAreThePosition`, `CashIsExplained`, `DrawdownIsWorst`; `ReportIsStored`: the job's count is what the files gained; `RowsAreKept`: a file that is not torn has every row given to it; `LoadIsTheRange`: a read returns the asked range, in order, as often as stored; `LogTellsTheRun`, `ShutdownEnds`; `HeldForACause`; `VerdictIsTrue`; `StagesLast` |

**Bounds.** Three signals open, add, close and cross. Two months of two bars have a month
boundary inside and at the edge of a range. `Kept` 21 and `Enough` 20 put the percentile's
index at both sides of its rounding. Four stages of two days have a first, two inner
and a last. **Fairness** (`ShutdownEnds`): the process's own steps and the checks it waits
for take place in the end; requests, flips, signals and kills are never forced.

The parts of `strategies` and of `ops` share no state, so interleaving them would add
nothing: a behaviour follows one part, chosen at the start, and the others stand still.

### What is proved (`OpsProofs`)

* `RampTypeCorrect`, and `StagesAlwaysLast`: `CapitalRampSpec => []StagesLast`. `StagesLast`
  is not inductive: `RampInv` adds that an answer of `can_promote` stays true while it
  waits (days only grow, and the one step that starts a stage uses the answer up)
  and that the stage began at its promotion.
* `AlertsTypeCorrect`, and `AlertsAlwaysHeldForACause`: `AlertsSpec => []HeldForACause`.
  `AlertsInv` ties the stamp to the time of the last dispatch, 0 standing for none:
  the host's first `dedup_seconds` are the one exception.
* `LogAlwaysTellsTheRun`: `LifecycleSpec => []LogTellsTheRun`: a run that served has logged
  its boot and its shutdown, whatever signals came when, and one whose start was
  interrupted or failed its shutdown; unless it was killed, never got past
  `build()`, the database refused an event or its disposal, or an interrupt cut the
  `stop()` of one that never served. `LifeInv` says what the log holds in each phase, and
  that the server runs only while `launch` serves, so that its end is the end of a
  run that logged its boot and has the handlers.
* `VerdictAlwaysTrue`: `WatchdogSpec => []VerdictIsTrue`. `StampsTellGap` ties the two stamps
  to how long the feed has been away; the latency half is arithmetic about the
  95th percentile's place, for windows of any length.
* `RowsAlwaysKept`: `ArchiveSpec => []RowsAreKept`. While a month's file is emptied, the job
  that will write it back holds all its rows and the new ones (`HoldsAll`).
* `ReportAlwaysStored`: `ArchiveSpec => []ReportIsStored`, for any finite set of symbols,
  any months, feeds, jobs and deaths of the writer. `ReportInv` says that what a job
  has counted is what the files have gained by it, and, between emptying a file and
  rewriting it, that the gain lacks the rows to be written and the count the new ones
  (`Reported`); the number of rows of two bags put together is the sum of theirs
  (`RowsJoin`).
* `LoadAlwaysTheRange`: `ArchiveSpec => []LoadIsTheRange`. `ReportInv` has every row in the
  file of its month (`RowsOf`). The rest is about lists, over any sizes: lists laid one
  after the other hold a bar as often as they do together (`OccursListed`); a row is
  in one file only, which is opened if the row is in the range (`MonthIsOpened`, from
  the monotony of division); and `ByTime` is a permutation (`Place` is one-to-one
  since the order by time, then by place in the list, is total) that leaves time
  rising (`SortedByTime`).
* `LotsAlwaysThePosition`, `CashAlwaysExplained`: `BacktestSpec => []...` for finite sets of
  stocks and strategies, which cash sums over. `BacktestInv` has both in one: the lots
  are all on the position's side and add up to it (`LotsHold`), and cash and the
  strategies' P&L are explained by trades, fees and open lots. The FIFO match is a
  recursive function of the queue; `Takes` says what its first i lots have taken.
* `DrawdownAlwaysWorst`: `BacktestSpec => []DrawdownIsWorst`, a fact about the running
  maximum of any positive curve.

The specifications are those whose parts `ops` checks.

### How facts over all sizes are proved

The library's induction theorems cannot be used here, so nothing is proved by naming
them. Where a fact has to hold for every finite set or every length (sums of exposures,
lots, P&L; the run of a recursive function), the proof takes a smallest
counterexample (`SmallestSubset`, `SmallestNumber` of `NumberTheorems`, which follow from the
well-foundedness of the subset ordering) and takes one member away. A fold's value
does not depend on the order of its members (`SumUnique`, `SumExists`); that of a
fold of lists does, and there the fold itself fixes the order (`ListFold`).

## 7. Findings

* **Terminal rows can come back** (`gw_stale_row`). `state_machine.py:3` promises that
  FILLED -> OPEN fails fast; the table guards the object, not the row.
* **REJECTED may be false** (`gw_false_reject`). `docs/architecture.md:39` calls
  `OrderRejectedError` structural; Dhan's `place_order` raises it for timeouts too.
* **A spread can leave a naked short** (`naked_short`). `docs/strategies/options.md:3`.
* **No cap when the price exceeds the cap** (`risk_uncapped`). `risk/engine.py:108`.
* **The swing breakout never enters** (`no_breakout`). `swing_breakout/strategy.py:5-9` and
  `docs/strategies/swing.md:25` enter above the pivot; `strategy.py:60` takes the base's high
  over bars that include the one judged, and `:71` asks its close to exceed that. (The
  weekly close that `swing.md` also asks for is not in the code.)

Other observations that no run states: rows of slices may go backwards
(a copy is rehydrated from the row while the sender still holds the
object); overlapping transactions can tear a row (FILLED beside a partial
`filled_qty`), which is why `MirrorsBroker` claims the broker's status of a terminal row
and only a bound on its quantity; a sliced parent keeps the status NEW for ever;
nothing reads open orders back at start-up; heat is never lowered, in spite of
`risk/README.md:12`; a check that awaited Redis can set the halt gauge back to 0;
`docs/architecture.md:19` calls the journal append-only, order rows are updated.

Further disagreements that the modelling met, without a run of their own:

* `features/session.py:59` and `:84` say that the opening range freezes at, or past,
  `end`; the branch is taken by every update outside the window, also before `start`.
  With the strategy's `on_tick` served before the bar stream, the bar that the
  window's first tick closes freezes the range on that one price: `FreezesAtEnd`
  without its exception (`FrozenAtOnce`) fails. Theorem `FreezesPastTheEnd`: with the
  bars first it cannot happen, provided the timeframes nest.
* `docs/runbooks/kill_switch.md:41` resumes with `POST /api/halt # toggles off if file gone`;
  the endpoint looks at the file (`api/server.py:100-109`), so once it is gone, after the
  runbook's `rm`, the call halts again;
* `equity_orb/strategy.py:155` comments "Stop = min(distance to OR mid, 1 * ATR-15m)", the
  nearer of the two; the code takes the smaller level for a long and the larger for
  a short, so the farther. `docs/strategies/intraday_equity.md:27`, `min(OR mid, close − 1 *
  ATR-15m)`, is a minimum of levels and agrees with the code. `EntriesBreakOut` says of the
  stop only what both demand: it is on the losing side of the entry;
* `docs/strategies/options.md:20-21` sizes by "NAV × 0.5 % / max loss per lot";
  `max_loss_per_lot` (`options_iron_condor/strategy.py:42-46`) is per unit and never
  multiplied by the lot size, so a structure may lose that many times the budget;
* Dhan's `list_positions` reports `buyAvg` as a position's average (`brokers/dhan/client.py:128`):
  after a sale and a new purchase, or for a short that was bought back in part, it is
  not what the open position cost, and the reconciler sees a mismatch that is none;
* `ops/safe_mode.py:3-5` "forces a broker reconciliation before *any* new entries are
  allowed"; `acknowledge()` clears the gate from any status, reconciled or not, and
  `tests/unit/test_safe_mode.py:34` has it so;
* `docs/runbooks/safe_mode_recovery.md:11` loads the last-known positions from the
  journal on boot, and `:14` blocks entries until acknowledged; nothing in the code
  reads positions back, and nothing asks `allows_new_entries`;
* `docs/architecture.md:20` says Parquet files are never mutated after write, each
  append rewrites one; `:21` that losing Redis stops trading, `KillSwitch` reads an
  unreachable Redis as not halted, and a Redis absent at boot is not health-checked;
* `docs/strategies/intraday_equity.md` judges 5m bars before 14:45; the code judges every
  timeframe it is given, and by the bar's own close time, so an entry may be
  returned later, when the tick that closes the bar comes;
* the VWAP reversion's stop can be on the wrong side of an entry that is already
  farther away than `z_stop`;
* the simulator's docstring rejects a fill below one share, the code fills one;
* a second backfill of a range duplicates its bars, and the bar of now is stored
  unfinished; a torn file makes every later append and read of its month raise.

## 8. Only model-checked, and not modelled

Every invariant and every action property that a passing run checks has its
theorem, under the conditions stated there, but `ReviewHasACause`. Checked by TLC only:

* liveness, which is beyond the proof system: `Settles`, `SubmitEnds`, `HaltDrains`,
  `PreservedForGood` (of these two the safety halves are proved), `ShutdownEnds`;
* `ReviewHasACause`, which needs the book and the broker to average the same fills in
  the same order;
* the opening range with the strategy served before the bars: `RangeSpansTheWindow`
  and the three theorems beside it assume the other order;
* that exceptions and conditions are needed: TLC refutes `JournalRefinesLedger`,
  `QuietAgreement` and `TrackedUntilSettled` without `contested`, the latter two without
  `unsaved`, and `TrueRejection` without an answering network.

Not modelled: indicators, machine learning, the pricing formulas and the metrics
beyond the drawdown (floating point); reporting, configuration, secrets, the
universe file, logging and metrics, migrations, the installer and the commands
that print (formatting, parsing and I/O); APScheduler and the default jobs, which
nothing registers; what uvicorn does with signals of its own accord. `force_close`, `kelly`, trades and risk
events of the journal, cancel, modify, margin and instruments of the brokers have no
caller in the code. Within the modules: ids, prices and wording of orders and
alerts, the per-order transition history, charge rates and market impact (one
number each), streaming endpoints.

## 9. Plan

1. Proofs: `OneEntryADay` for the other order of the consumers, without restarts.
2. Composition of gateway and risk engine: exposure committed against orders sent,
   with the kill switch between check and send.
