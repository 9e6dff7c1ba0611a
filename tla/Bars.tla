--------------------------------- MODULE Bars ---------------------------------
(* BarBuilder (features/bar_builder.py): the bar under construction of one   *)
(* instrument at one timeframe.  A window is closed by the first tick of a   *)
(* later one; there is no timer.                                             *)
EXTENDS Integers, FiniteSetsExt

NoBar == [start |-> -1]        \* _bar_start is None: before the first tick

FloorTs(t, secs) == (t \div secs) * secs

StartNew(tick, boundary) ==
  [start |-> boundary, open |-> tick.price, high |-> tick.price,
   low |-> tick.price, close |-> tick.price, volume |-> tick.qty,
   trades |-> 1, worth |-> tick.price * tick.qty]

UpdateCurrent(b, tick) ==
  [b EXCEPT !.high = Max({@, tick.price}), !.low = Min({@, tick.price}),
            !.close = tick.price, !.volume = @ + tick.qty, !.trades = @ + 1,
            !.worth = @ + tick.price * tick.qty]

(* Whether a tick closes the bar; a tick of an older window does not.        *)
(* (ClosesOnLate and the operators of that kind in the other modules are the *)
(* mistakes the properties are tested against; nothing else uses them.)      *)
ClosesOnLate(b, tick, secs) ==
  b # NoBar /\ FloorTs(tick.time, secs) # b.start
Closes(b, tick, secs) == b # NoBar /\ FloorTs(tick.time, secs) > b.start

(* BarBuilder.on_tick: what is under construction afterwards.                *)
AfterTick(b, tick, secs) ==
  IF b = NoBar \/ Closes(b, tick, secs)
  THEN StartNew(tick, FloorTs(tick.time, secs))
  ELSE UpdateCurrent(b, tick)

(* _close_current: the bar as it is handed out, stamped with its window.     *)
CloseCurrent(b, secs) ==
  [open |-> b.open, high |-> b.high, low |-> b.low, close |-> b.close,
   volume |-> b.volume, trades |-> b.trades, worth |-> b.worth,
   from |-> b.start, until |-> b.start + secs]

===============================================================================
