----------------------------- MODULE VwapReversion -----------------------------
(* EquityVWAPMRStrategy (strategies/equity_vwap_mr/strategy.py) on one       *)
(* instrument: it fades closes that are far from the session's VWAP, a few   *)
(* times a day.  How far a close is, in deviations, is arbitrary: "far" if   *)
(* z_entry is reached and there is a risk and a size to trade with.          *)
EXTENDS Integers, Sequences, FiniteSets

CONSTANTS
  Warmup,             \* window of the rolling deviation, in bars
  MaxSignals,         \* max_signals_per_day
  NoEntryAfter,       \* a time of day in LastTime's scale
  LastDay, LastTime,  \* bounds of the model: days, times of a day
  MaxCloses, MaxReversionRestarts

ASSUME VwapReversionAssumption ==
  /\ Warmup \in Nat \ {0} /\ MaxSignals \in Nat \ {0}
  /\ NoEntryAfter \in Nat /\ LastDay \in Nat /\ LastTime \in Nat
  /\ MaxCloses \in Nat /\ MaxReversionRestarts \in Nat

VARIABLES
  today,              \* current_day, -1 for None
  traded,             \* the session's VWAP has volume: it is a number
  deviations,         \* how full the rolling window is; no day clears it
  signals,            \* signals_today
  moment,             \* history: day and time of the last bar
  closes,             \* history: the bars that could be faded, and whether
                      \* they were, since the start
  nth, reversionRestarts      \* bars so far, and restarts

reversionVars == <<today, traded, deviations, signals, moment, closes, nth,
                   reversionRestarts>>

ReversionInit ==
  /\ today = -1 /\ traded = FALSE /\ deviations = 0 /\ signals = 0
  /\ moment = <<0, 0>> /\ closes = <<>> /\ nth = 0 /\ reversionRestarts = 0

NeverReset(day) == signals      \* a tested mistake
SignalsOf(day) == IF today = day THEN signals ELSE 0

HasVwap(day, volume) == (today = day /\ traded) \/ volume > 0

(* RollingBar.update and ready.                                              *)
Filled(n) == IF n < Warmup THEN n + 1 ELSE n

(* Bars come in order of time; one without a VWAP does not count as a        *)
(* deviation.                                                                *)
ReversionOnBar(day, time, volume, distance) ==
  LET counted == IF HasVwap(day, volume) THEN Filled(deviations) ELSE deviations
      open    == /\ HasVwap(day, volume) /\ counted = Warmup
                 /\ time < NoEntryAfter
                 /\ distance = "far"
      fades   == open /\ SignalsOf(day) < MaxSignals
  IN  /\ nth < MaxCloses /\ nth' = nth + 1
      /\ day > moment[1] \/ (day = moment[1] /\ time >= moment[2])
      /\ moment' = <<day, time>>
      /\ today' = day
      /\ traded' = HasVwap(day, volume)
      /\ deviations' = counted
      /\ signals' = SignalsOf(day) + (IF fades THEN 1 ELSE 0)
      /\ closes' = IF open THEN Append(closes, [day |-> day, faded |-> fades])
                   ELSE closes
      /\ UNCHANGED reversionRestarts

(* A restart forgets the day's signals with everything else.                 *)
ReversionRestart ==
  /\ reversionRestarts < MaxReversionRestarts
  /\ reversionRestarts' = reversionRestarts + 1
  /\ today' = -1 /\ traded' = FALSE /\ deviations' = 0 /\ signals' = 0
  /\ closes' = <<>>
  /\ UNCHANGED <<moment, nth>>

ReversionNext ==
  \/ \E day \in 0 .. LastDay, time \in 0 .. LastTime, volume \in {0, 1},
        distance \in {"near", "far"} :
       ReversionOnBar(day, time, volume, distance)
  \/ ReversionRestart

ReversionSpec == ReversionInit /\ [][ReversionNext]_reversionVars

---------------------------------------------------------------------------
(* The strategy fades the first MaxSignals closes of a day that can be       *)
(* faded, no more and no fewer: yesterday's signals do not use up today's    *)
(* (the code's comment on signals_today tells of that mistake), whatever     *)
(* bars without a VWAP or with a small deviation come between.  A restart    *)
(* starts the count anew.                                                    *)
FadesTheFirst ==
  \A n \in DOMAIN closes :
    closes[n].faded <=>
      Cardinality({k \in 1 .. n - 1 : /\ closes[k].day = closes[n].day
                                      /\ closes[k].faded}) < MaxSignals
===============================================================================
