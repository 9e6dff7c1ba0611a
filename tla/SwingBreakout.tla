----------------------------- MODULE SwingBreakout -----------------------------
(* SwingBreakoutStrategy (strategies/swing_breakout/strategy.py): one        *)
(* instrument, one bar after the other, a history that every bar is put into *)
(* before it is judged.                                                      *)
EXTENDS Integers, Sequences, SequencesExt, FiniteSetsExt

CONSTANTS
  DailyBars,         \* [high, low, close, volume, tf], low <= close <= high
  LongAvg, ShortAvg, \* 200 and 50 in the code
  Lookback,          \* base_lookback
  DepthMax           \* base_depth_max, percent

ASSUME SwingAssumption ==
  /\ LongAvg \in Nat \ {0} /\ ShortAvg \in 1 .. LongAvg
  /\ Lookback \in 1 .. LongAvg /\ DepthMax \in Nat
  /\ \A b \in DailyBars : {b.high, b.low, b.close} \subseteq Int
  /\ \A b \in DailyBars : 0 < b.low /\ b.low <= b.close /\ b.close <= b.high

VARIABLES
  past,        \* the last LongAvg bars: closes, highs and lows
  vols,        \* the last Lookback volumes above zero
  bought       \* _State.entered

swingVars == <<past, vols, bought>>

SwingInit == past = <<>> /\ vols = <<>> /\ bought = FALSE

(* _update_state; the deques of prices keep a little more than is used.      *)
Kept(s, x, most) == IF Len(s) < most THEN Append(s, x) ELSE Append(Tail(s), x)

Update(bar) ==
  /\ past' = Kept(past, [high |-> bar.high, low |-> bar.low,
                         close |-> bar.close], LongAvg)
  /\ vols' = IF bar.volume > 0 THEN Kept(vols, bar.volume, Lookback) ELSE vols

Latest(s, n) == SubSeq(s, Len(s) - n + 1, Len(s))
SumOf(s, F(_)) == FoldLeft(LAMBDA acc, b : acc + F(b), 0, s)

(* close > sma50 > sma200                                                    *)
StageTwo(s) ==
  LET short == SumOf(Latest(s, ShortAvg), LAMBDA b : b.close)
      long  == SumOf(Latest(s, LongAvg), LAMBDA b : b.close)
  IN  Last(s).close * ShortAvg > short /\ short * LongAvg > long * ShortAvg

(* The base a breakout has to leave: the latest bars, the one being judged   *)
(* among them.                                                               *)
Base(s)     == Latest(s, Lookback)
BaseHigh(s) == Max({Base(s)[n].high : n \in 1 .. Len(Base(s))})
BaseLow(s)  == Min({Base(s)[n].low : n \in 1 .. Len(Base(s))})

Shallow(s) == 100 * (BaseHigh(s) - BaseLow(s)) <= DepthMax * BaseHigh(s)

(* volume / mean >= 1.5, the bar's own volume among the ones averaged.       *)
Heavy(volume, V) ==
  V # <<>> /\ 2 * volume * Len(V) >= 3 * SumOf(V, LAMBDA v : v)

Breaks(s) == Last(s).close > BaseHigh(s)

(* on_bar.  Bars of other timeframes are kept too, and judged never.  The    *)
(* size is abstracted to what is affordable or not.                          *)
SwingOnBar(bar, affordable) ==
  /\ Update(bar)
  /\ bought' = (bought \/ (/\ bar.tf = "1d" /\ Len(past') = LongAvg
                           /\ StageTwo(past') /\ Shallow(past')
                           /\ Heavy(bar.volume, vols') /\ Breaks(past')
                           /\ affordable))

SwingNext == \E bar \in DailyBars, affordable \in BOOLEAN : SwingOnBar(bar, affordable)

SwingSpec == SwingInit /\ [][SwingNext]_swingVars

(* The claim (strategies/swing_breakout/strategy.py:5-9, docs/strategies/    *)
(* swing.md:17-25): in stage two, out of a shallow base and on heavy volume, *)
(* a daily bar that closes above the pivot, the high of the bars before it,  *)
(* leads to an entry if one can be paid.  The code breaks it: no bar closes  *)
(* above the high of a base that it is part of.                              *)
PivotBefore(s) ==
  LET base == Latest(Front(s), Lookback)
  IN  Max({base[n].high : n \in 1 .. Lookback})

BreaksOut(bar) ==
  /\ bar.tf = "1d" /\ Len(past') = LongAvg /\ LongAvg > Lookback
  /\ StageTwo(past') /\ Shallow(past') /\ Heavy(bar.volume, vols')
  /\ bar.close > PivotBefore(past')

EntersOnBreakout ==
  [][\A bar \in DailyBars :
       SwingOnBar(bar, TRUE) /\ BreaksOut(bar) => bought']_swingVars

(* What the code does instead, whatever the bars are.                        *)
NeverBuys == ~bought
================================================================================
