------------------------------ MODULE MarketFeed ------------------------------
(* The path of a tick: the broker's socket hands it to the bounded queue of  *)
(* MarketDataClient (marketdata/client.py), the consume loop awaits every    *)
(* consumer in turn, the bar stream (features/bar_builder.py) closes bars    *)
(* with it, and the opening-range strategy sees ticks and bars.  A tick may  *)
(* carry no quantity; Dhan's never do (client.py:290), so that live bars     *)
(* have volume 0.                                                            *)
EXTENDS Bars, EquityORB, Sequences, SequencesExt

CONSTANTS
  Timeframes,      \* seconds of the bar builders, in the stream's order
  QueueSize,
  Times, Deals,    \* what a tick can be: moments, and [price, qty]
  Orders,          \* orders in which the consumers may be registered
  Atrs,            \* values of the strategy's ATR
  MaxTicks,        \* bounds of the model: ticks, and late ones and
  MaxUpsets        \* restarts together

ASSUME MarketFeedAssumption ==
  /\ Timeframes \in Seq(Nat \ {0}) /\ QueueSize \in Nat \ {0}
  /\ Times \subseteq Nat /\ Atrs \subseteq Nat
  /\ \A d \in Deals : d.price \in Nat /\ d.qty \in Nat
  /\ Orders \subseteq {<<"bars", "orb">>, <<"orb", "bars">>}

VARIABLES
  queue, dropped,
  tick,            \* the tick the loop is serving, and to whom next, or Nobody
  builders,        \* builders[k]: the bar of Timeframes[k]
  orb,             \* the strategy's _State
  order,           \* the consumers
  sent,            \* history: how many ticks the socket brought
  fed,             \* history: ticks the bar stream has seen since the start
  bars,            \* history: bars[k], the bars handed out since the start
  entries,         \* history: the entries ever returned
  clock,           \* history: the time of the newest tick ever
  late, feedRestarts

wires    == <<queue, dropped, sent>>
time     == <<clock, late, feedRestarts>>
features == <<builders, orb, fed, bars, entries>>
feedVars == <<wires, tick, features, order, time>>

Ticks  == {[time |-> t, price |-> d.price, qty |-> d.qty] :
             t \in Times, d \in Deals}
Nobody == [next |-> 1]

Fresh ==
  /\ queue = <<>> /\ dropped = 0 /\ tick = Nobody
  /\ builders = [k \in DOMAIN Timeframes |-> NoBar]
  /\ orb = FreshORB
  /\ fed = <<>> /\ bars = [k \in DOMAIN Timeframes |-> <<>>]

FeedInit ==
  /\ Fresh
  /\ order \in Orders
  /\ sent = 0 /\ entries = <<>> /\ clock = 0 /\ late = 0 /\ feedRestarts = 0

(* _enqueue: a full queue drops the tick that comes.  Ticks carry the        *)
(* exchange's time, and a few are overtaken.                                 *)
Enqueue(t) ==
  /\ sent < MaxTicks
  /\ t.time >= clock \/ late + feedRestarts < MaxUpsets
  /\ late' = IF t.time >= clock THEN late ELSE late + 1
  /\ clock' = Max({clock, t.time})
  /\ sent' = sent + 1
  /\ IF Len(queue) < QueueSize
     THEN queue' = Append(queue, t) /\ UNCHANGED dropped
     ELSE dropped' = dropped + 1 /\ UNCHANGED queue
  /\ UNCHANGED <<tick, features, order, feedRestarts>>

(* _consume_loop takes the next tick and awaits the consumers in turn; one   *)
(* that raises is logged, and the next one is served.                        *)
Served == IF tick = Nobody THEN Head(queue) ELSE tick.it

Serving(consumer) ==
  /\ tick # Nobody \/ queue # <<>>
  /\ order[tick.next] = consumer
  /\ queue' = IF tick = Nobody THEN Tail(queue) ELSE queue
  /\ tick' = IF tick.next < Len(order) THEN [next |-> tick.next + 1,
                                             it   |-> Served]
             ELSE Nobody
  /\ UNCHANGED <<dropped, sent, order, time>>

(* The timeframes whose bar a tick closes; the strategy judges those bars    *)
(* one by one in the stream's order, each confirmed or not.                  *)
Closing(t) == {k \in DOMAIN Timeframes : Closes(builders[k], t, Timeframes[k])}

Judged(t, confirmed, atr) ==
  LET after[k \in 0 .. Len(Timeframes)] ==
        IF k = 0 THEN [state |-> orb, entries |-> <<>>]
        ELSE IF k \notin Closing(t) THEN after[k - 1]
        ELSE LET r == ORBOnBar(after[k - 1].state,
                               CloseCurrent(builders[k], Timeframes[k]),
                               confirmed[k], atr)
             IN  [state |-> r.state,
                  entries |-> after[k - 1].entries \o r.entries]
  IN  after[Len(Timeframes)]

(* TimeframeBarStream.on_tick, its bars passed to the strategy's on_bar.     *)
ServeBars ==
  /\ Serving("bars")
  /\ builders' = [k \in DOMAIN Timeframes |->
                    AfterTick(builders[k], Served, Timeframes[k])]
  /\ bars' = [k \in DOMAIN Timeframes |->
                IF k \in Closing(Served)
                THEN Append(bars[k], CloseCurrent(builders[k], Timeframes[k]))
                ELSE bars[k]]
  /\ \E confirmed \in [Closing(Served) -> BOOLEAN],
        atr \in Atrs :
       LET judged == Judged(Served, confirmed, atr)
       IN  orb' = judged.state /\ entries' = entries \o judged.entries
  /\ fed' = Append(fed, Served)

ServeORB ==
  /\ Serving("orb")
  /\ orb' = ORBOnTick(orb, Served)
  /\ UNCHANGED <<builders, bars, fed, entries>>

(* A crash and the next start: nothing of this is restored.                  *)
FeedRestart ==
  /\ late + feedRestarts < MaxUpsets
  /\ feedRestarts' = feedRestarts + 1
  /\ queue' = <<>> /\ dropped' = 0 /\ tick' = Nobody
  /\ builders' = [k \in DOMAIN Timeframes |-> NoBar]
  /\ orb' = FreshORB
  /\ fed' = <<>> /\ bars' = [k \in DOMAIN Timeframes |-> <<>>]
  /\ UNCHANGED <<sent, order, entries, clock, late>>

FeedNext ==
  \/ \E t \in Ticks : Enqueue(t)
  \/ ServeBars
  \/ ServeORB
  \/ FeedRestart

FeedSpec == FeedInit /\ [][FeedNext]_feedVars

---------------------------------------------------------------------------
(* What the bars of a timeframe should be, told from the ticks alone: a tick *)
(* belongs to its own window or, if it comes late, to the one then open.     *)
WindowOf(i, secs) == Max({FloorTs(fed[j].time, secs) : j \in 1 .. i})

BarOf(w, secs) ==
  LET K == {i \in DOMAIN fed : WindowOf(i, secs) = w}
      prices == {fed[i].price : i \in K}
  IN  [open |-> fed[Min(K)].price, close |-> fed[Max(K)].price,
       high |-> Max(prices), low |-> Min(prices),
       volume |-> SumFunctionOnSet([i \in DOMAIN fed |-> fed[i].qty], K),
       worth |-> SumFunctionOnSet(
                   [i \in DOMAIN fed |-> fed[i].qty * fed[i].price], K),
       trades |-> Cardinality(K), from |-> w, until |-> w + secs]

(* Every bar handed out is the bar of all the ticks of its window, and every *)
(* window but the open one is handed out once, in order, whatever is dropped *)
(* or comes late: no tick is in two bars or in none.                         *)
BarsAreTheTicks ==
  \A k \in DOMAIN Timeframes :
    LET secs     == Timeframes[k]
        windows  == {WindowOf(i, secs) : i \in DOMAIN fed}
        finished == {w \in windows : \E v \in windows : w < v}
        from     == [n \in DOMAIN bars[k] |-> bars[k][n].from]
    IN  /\ {from[n] : n \in DOMAIN from} = finished
        /\ \A m, n \in DOMAIN from : m < n => from[m] < from[n]
        /\ \A n \in DOMAIN from : bars[k][n] = BarOf(from[n], secs)

(* The ticks of a day's opening window that the strategy can know of.  If    *)
(* its tick handler runs before the bars', the bars that a tick closes come  *)
(* after it: yesterday's last bar clears what today's first tick contributed,*)
(* and a bar of the day that ends before the window freezes the range on the *)
(* window's first tick.                                                      *)
InWindow(day) ==
  {i \in DOMAIN fed : Day(fed[i].time) = day /\ InRange(fed[i].time)}
FrozenAtOnce(day) ==
  \E i \in InWindow(day) \ {1}, k \in DOMAIN Timeframes :
    LET until == FloorTs(fed[i - 1].time, Timeframes[k]) + Timeframes[k]
    IN  until <= fed[i].time /\ Day(until) = day /\ TimeOfDay(until) < RangeStart
Known(day) ==
  IF order[1] = "bars" THEN InWindow(day)
  ELSE {i \in InWindow(day) : /\ \E j \in 1 .. i - 1 : Day(fed[j].time) = day
                              /\ ~FrozenAtOnce(day)}

(* Trades before the window enter the range through the bar that closes at   *)
(* its first moment.                                                         *)
Early(day) ==
  {i \in DOMAIN fed : /\ Day(fed[i].time) = day
                      /\ TimeOfDay(fed[i].time) < RangeStart}

(* Once frozen, the opening range spans every trade of the window: ticks and *)
(* bars of all timeframes build it together, a day after a day, and neither  *)
(* a missing tick nor the late closing of a bar may freeze it too early.     *)
RangeSpansWindow ==
  orb.range.frozen /\ late = 0 =>
    LET day    == orb.range.day
        prices == {fed[i].price : i \in InWindow(day) \cup Early(day)}
    IN  /\ orb.range.hi \in prices /\ orb.range.lo \in prices
        /\ \A i \in Known(day) :
             fed[i].price \in orb.range.lo .. orb.range.hi

(* An entry is beyond every trade of its day's window, and its stop is on    *)
(* the losing side of its price (the size divides by what is between them).  *)
EntriesBreakOut ==
  late = 0 => \A n \in DOMAIN entries : LET e == entries[n] IN
    \A i \in Known(Day(e.ts)) :
      IF e.side = "long" THEN e.price > fed[i].price /\ e.stop < 2 * e.price
                         ELSE e.price < fed[i].price /\ e.stop > 2 * e.price

(* One entry a day; across a restart, which forgets the latch, as well if    *)
(* the bars are served first.                                                *)
OneEntryADay ==
  late = 0 /\ (order[1] = "bars" \/ feedRestarts = 0) =>
    \A m, n \in DOMAIN entries :
      Day(entries[m].ts) = Day(entries[n].ts) => m = n

(* "Freezes at `end`" and "Once we've past `end`, freeze" (features/         *)
(* session.py:59 and :84): the range is not frozen before the feed is past   *)
(* the window's end, except where FrozenAtOnce says.                         *)
PastWindow(t, day) ==
  Day(t) > day \/ (Day(t) = day /\ TimeOfDay(t) > RangeEnd)

FreezesAtEnd ==
  late = 0 /\ orb.range.frozen
  /\ (order[1] = "bars" \/ ~FrozenAtOnce(orb.range.day))
    => PastWindow(clock, orb.range.day)

===============================================================================
