------------------------------- MODULE EquityORB -------------------------------
(* EquityORBStrategy (strategies/equity_orb/strategy.py) on one instrument:  *)
(* one entry a day, on a bar that closes beyond the opening range.  Both     *)
(* ticks and bars, of every timeframe, update the range.                     *)
EXTENDS Session

CONSTANT TimeStop      \* no entry from this time of the day on

ASSUME EquityORBAssumption == TimeStop \in RangeEnd .. DayLength

FreshORB == [range |-> FreshRange, vwap |-> FreshVwap, taken |-> "none",
             day |-> -1]

ORBOnTick(st, tick) ==
  [st EXCEPT !.range = RangeUpdate(@, tick.time, tick.price),
             !.vwap = VwapUpdate(@, tick.time, tick.price, tick.qty)]

(* The state a bar is judged in.                                             *)
LatchPerBar(st, bar) ==
  [st EXCEPT
     !.day   = Day(bar.until),
     !.taken = "none",
     !.range = RangeUpdate(RangeUpdate(@, bar.until, bar.high),
                           bar.until, bar.low),
     !.vwap  = VwapUpdate(@, bar.until, bar.close, bar.volume)]
ORBUpdated(st, bar) ==
  [st EXCEPT
     !.day   = Day(bar.until),
     !.taken = IF st.day = Day(bar.until) THEN @ ELSE "none",
     !.range = RangeUpdate(RangeUpdate(@, bar.until, bar.high),
                           bar.until, bar.low),
     !.vwap  = VwapUpdate(@, bar.until, bar.close, bar.volume)]

MayEnter(st, bar) ==
  /\ TimeOfDay(bar.until) >= RangeEnd /\ TimeOfDay(bar.until) < TimeStop
  /\ RangeReady(st.range)
  /\ st.taken = "none"

(* The side a bar breaks out on, if volume (twice its rolling mean) and book *)
(* imbalance confirm it; no bar breaks out on both sides.  The margin a close has  *)
(* to leave beyond the range (break_threshold_pct, 0.15 %) is less than a    *)
(* price step here, and taken as none.                                       *)
EdgeIsBreakout(st, bar, confirmed) ==
  IF /\ bar.close >= st.range.hi /\ Above(bar.close, st.vwap)
     /\ confirmed
  THEN "long"
  ELSE IF /\ bar.close < st.range.lo /\ Below(bar.close, st.vwap)
          /\ confirmed
  THEN "short" ELSE "none"
Breakout(st, bar, confirmed) ==
  IF /\ bar.close > st.range.hi /\ Above(bar.close, st.vwap)
     /\ confirmed
  THEN "long"
  ELSE IF /\ bar.close < st.range.lo /\ Below(bar.close, st.vwap)
          /\ confirmed
  THEN "short" ELSE "none"

(* The stop in half units: the farther of the range's middle and one ATR, as *)
(* min and max of the two levels make it (the comment above the line, "min   *)
(* (distance to OR mid, 1 * ATR-15m)", would be the nearer).                 *)
Stop(side, bar, range, atr) ==
  LET middle == range.hi + range.lo
      volat  == 2 * bar.close + (IF side = "long" THEN -atr ELSE atr)
  IN  IF side = "long" THEN (IF middle < volat THEN middle ELSE volat)
                       ELSE (IF middle > volat THEN middle ELSE volat)

(* on_bar: the state afterwards, and the entries it returns (at most one).   *)
ORBOnBar(st, bar, confirmed, atr) ==
  LET now  == ORBUpdated(st, bar)
      side == IF MayEnter(now, bar) THEN Breakout(now, bar, confirmed)
              ELSE "none"
  IN  [state |-> [now EXCEPT !.taken = IF side = "none" THEN @ ELSE side],
       entries |->
         IF side = "none" THEN <<>>
         ELSE << [side |-> side, ts |-> bar.until, price |-> bar.close,
                  hi |-> now.range.hi, lo |-> now.range.lo,
                  stop |-> Stop(side, bar, now.range, atr)] >>]
================================================================================
