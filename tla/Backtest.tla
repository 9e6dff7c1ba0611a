------------------------------- MODULE Backtest -------------------------------
(* The backtest (backtest/): the engine's loop over the bars, the simulator  *)
(* that fills a signal from the bar it came with, the tracker that matches   *)
(* fills against lots, first in first out, and the drawdown of the curve.    *)
(* Prices and fees are in whole units; what a bar is and what the strategy   *)
(* answers to it is arbitrary.                                               *)
EXTENDS Fractions, Sequences, Functions

CONSTANTS
  Stocks,          \* instruments the engine knows; bars of others are skipped
  Ideas,           \* strategies (StrategyKind)
  Candidates,      \* bars: [stock, high, low, close, vwap, volume]
  Wishes,          \* signals: [by, side, qty, type, entry, product]
  Slip,            \* impact and half spread of a fill, in price units
  Levy,            \* Levy[c]: what charge c takes from a fill
  CapDivisor,      \* a fill takes at most volume / CapDivisor
  StartingNav,
  MaxBars, MaxSignals      \* bounds of the model

ASSUME BacktestAssumption ==
  /\ Slip \in Nat /\ CapDivisor \in Nat \ {0} /\ StartingNav \in Nat \ {0}
  /\ \A b \in Candidates :
       b.volume \in Nat /\ {b.high, b.low, b.close, b.vwap} \subseteq Int
  /\ \A w \in Wishes :
       w.by \in Ideas /\ w.qty \in Nat /\ w.entry \in Int
  /\ \A c \in DOMAIN Levy : Levy[c] \in Nat

VARIABLES
  bar,         \* the bar under way, or NoBar
  handled,       \* signals handled so far
  cash,        \* PortfolioTracker.cash
  stake,       \* positions: stake[s] = [qty, avg, last]
  lots,        \* _open_lot: lots[s], a sequence of [qty, price, by]
  booked,      \* booked[k]: net P&L of the trades of strategy k
  curve,       \* equity_curve
  gross,       \* history: what the trades made before fees
  paid,        \* history: fees of all fills
  opening      \* history: fees of the fills that closed nothing

backtestVars == <<bar, handled, cash, stake, lots, booked, curve, gross, paid,
                  opening>>

NoBar == [stock |-> "none"]

BacktestInit ==
  /\ bar = NoBar /\ handled = 0
  /\ cash = StartingNav
  /\ stake = [s \in Stocks |-> [qty |-> 0, avg |-> Whole(0), last |-> 0]]
  /\ lots = [s \in Stocks |-> <<>>]
  /\ booked = [k \in Ideas |-> 0]
  /\ curve = <<>>
  /\ gross = 0 /\ paid = 0 /\ opening = 0

---------------------------------------------------------------------------
(* DhanCostModel.fee_for: which charges a fill carries.                      *)
Charges(side, product) ==
  {"exchange", "sebi", "gst"}
    \cup (IF product = "MIS" THEN {"brokerage"} ELSE {})
    \cup (IF side = "SELL" \/ product = "CNC" THEN {"stt"} ELSE {})
    \cup (IF side = "BUY" THEN {"stamp"} ELSE {})

Fee(side, product) == SumFunctionOnSet(Levy, Charges(side, product) \cap DOMAIN Levy)

(* MarketSimulator.fill.  A bar's volume caps the quantity, but one share is *)
(* always to be had; a limit order needs a bar that reached its limit, and   *)
(* is then never filled worse.                                               *)
Quantity(w, b) ==
  LET most == IF b.volume \div CapDivisor > 1 THEN b.volume \div CapDivisor
              ELSE 1
  IN  IF w.qty < most THEN w.qty ELSE most

Reference(b) == IF b.vwap # 0 THEN b.vwap ELSE b.close

Reached(w, b) ==
  w.type = "LIMIT" => IF w.side = "BUY" THEN b.low <= w.entry
                                        ELSE b.high >= w.entry

Price(w, b) ==
  LET slipped == IF w.side = "BUY" THEN Reference(b) + Slip
                                   ELSE Reference(b) - Slip
      worse   == IF w.side = "BUY" THEN slipped > w.entry
                                   ELSE slipped < w.entry
  IN  IF w.type = "LIMIT" /\ worse THEN w.entry ELSE slipped

---------------------------------------------------------------------------
(* PortfolioTracker.on_fill matches a fill against the lots of the other     *)
(* side, oldest first: what is left of both, and what the match made.        *)
Abs(n) == IF n < 0 THEN -n ELSE n

(* (MatchLong, FillGains and HighestOfAll are mistakes the properties are    *)
(* tested against; nothing else uses them.)                                  *)
MatchLong(m, lot, price) ==
  LET size == IF Abs(lot.qty) < Abs(m.left) THEN Abs(lot.qty)
              ELSE Abs(m.left)
      rest == lot.qty - size
  IN  [left |-> m.left + size,
       made |-> m.made + (price - lot.price) * size,
       kept |-> IF rest = 0 THEN m.kept
                ELSE Append(m.kept, [lot EXCEPT !.qty = rest])]

MatchOne(m, lot, price) ==
  LET size == IF Abs(lot.qty) < Abs(m.left) THEN Abs(lot.qty)
              ELSE Abs(m.left)
      long == lot.qty > 0
      rest == IF long THEN lot.qty - size ELSE lot.qty + size
  IN  [left |-> IF long THEN m.left + size ELSE m.left - size,
       made |-> m.made + (IF long THEN price - lot.price
                                  ELSE lot.price - price) * size,
       kept |-> IF rest = 0 THEN m.kept
                ELSE Append(m.kept, [lot EXCEPT !.qty = rest])]

Matched(queue, n, price) ==
  LET after[i \in 0 .. Len(queue)] ==
        IF i = 0 THEN [left |-> n, made |-> 0, kept |-> <<>>]
        ELSE MatchOne(after[i - 1], queue[i], price)
  IN  after[Len(queue)]

Adds(p, n) == p.qty = 0 \/ (p.qty > 0) = (n > 0)

NewAverage(p, n, price) ==
  IF Adds(p, n) THEN Over(Plus(Scaled(p.avg, p.qty), Whole(price * n)),
                          p.qty + n)
  ELSE IF p.qty + n = 0 THEN Whole(0) ELSE p.avg

FillGains(m, fee)   == m.made
TradeGains(m, fee)  == m.made - fee

(* A fill that closes something is a trade of the oldest lot's strategy,     *)
(* with the whole fee of the fill that closed; the fee that opened it is in  *)
(* the cash alone.                                                           *)
Book(s, n, price, fee, by) ==
  LET p    == stake[s]
      m    == Matched(lots[s], n, price)
      mine == [qty |-> n, price |-> price, by |-> by]
  IN  /\ cash' = cash - n * price - fee
      /\ paid' = paid + fee
      /\ stake' = [stake EXCEPT ![s] = [qty |-> p.qty + n,
                                        avg |-> NewAverage(p, n, price),
                                        last |-> price]]
      /\ IF Adds(p, n)
         THEN /\ lots' = [lots EXCEPT ![s] = Append(@, mine)]
              /\ opening' = opening + fee
              /\ UNCHANGED <<booked, gross>>
         ELSE /\ lots' = [lots EXCEPT ![s] =
                            IF m.left = 0 THEN m.kept
                            ELSE Append(m.kept, [mine EXCEPT !.qty = m.left])]
              /\ booked' = [booked EXCEPT ![Head(lots[s]).by] =
                              @ + TradeGains(m, fee)]
              /\ gross' = gross + m.made
              /\ UNCHANGED opening

---------------------------------------------------------------------------
(* One turn of BacktestEngine.run: the bar marks an open position, each of   *)
(* the strategy's signals is filled and booked, or is not (the runner passes *)
(* no risk check), and the equity closes the turn.                           *)
TakeBar ==
  \E b \in Candidates :
    /\ bar = NoBar /\ Len(curve) < MaxBars
    /\ b.stock \in Stocks
    /\ bar' = b
    /\ stake' = [stake EXCEPT ![b.stock].last =
                   IF stake[b.stock].qty = 0 THEN @ ELSE b.close]
    /\ UNCHANGED <<handled, cash, lots, booked, curve, gross, paid, opening>>

Signalled ==
  /\ bar # NoBar /\ handled < MaxSignals
  /\ handled' = handled + 1
  /\ UNCHANGED <<bar, curve>>

Unfilled(w) ==
  /\ Signalled
  /\ Quantity(w, bar) <= 0 \/ ~Reached(w, bar)
  /\ UNCHANGED <<cash, stake, lots, booked, gross, paid, opening>>

Filled(w) ==
  LET n == Quantity(w, bar)
  IN  /\ Signalled
      /\ n > 0 /\ Reached(w, bar)
      /\ Book(bar.stock, IF w.side = "BUY" THEN n ELSE -n, Price(w, bar),
              Fee(w.side, w.product), w.by)

(* total_equity: the cash and the positions at their last price.             *)
Equity == cash + SumFunctionOnSet([s \in Stocks |-> stake[s].qty * stake[s].last], Stocks)

EndBar ==
  /\ bar # NoBar
  /\ curve' = Append(curve, Equity)
  /\ bar' = NoBar
  /\ UNCHANGED <<handled, cash, stake, lots, booked, gross, paid, opening>>

BacktestNext ==
  \/ TakeBar
  \/ \E w \in Wishes : Unfilled(w) \/ Filled(w)
  \/ EndBar

BacktestSpec == BacktestInit /\ [][BacktestNext]_backtestVars

---------------------------------------------------------------------------
(* metrics._drawdown, of a curve above zero: the worst fall from the highest *)
(* value so far, as a share of that value.                                   *)
HighestOfAll(c, i) == CHOOSE v \in {c[j] : j \in DOMAIN c} :
                        \A j \in DOMAIN c : c[j] <= v
RunningMax(c, i) == CHOOSE v \in {c[j] : j \in 1 .. i} :
                      \A j \in 1 .. i : c[j] <= v

Fall(c, i) == Frac(RunningMax(c, i) - c[i], RunningMax(c, i))

MaxDrawdown(c) ==
  CHOOSE f \in {Fall(c, i) : i \in DOMAIN c} :
    \A i \in DOMAIN c : ~Greater(Fall(c, i), f)

---------------------------------------------------------------------------
LotQtys(q)  == [i \in DOMAIN q |-> q[i].qty]
LotCosts(q) == [i \in DOMAIN q |-> q[i].qty * q[i].price]

(* The lots are the position: they add up to its quantity, and are all long  *)
(* or all short, however fills of the two sides followed one another.        *)
LotsAreThePosition ==
  \A s \in Stocks :
    /\ stake[s].qty = SumFunction(LotQtys(lots[s]))
    /\ \A i, j \in DOMAIN lots[s] : (lots[s][i].qty > 0) = (lots[s][j].qty > 0)
    /\ \A i \in DOMAIN lots[s] : lots[s][i].qty # 0

(* The money is explained: the cash is the starting NAV, what the trades     *)
(* made and what the open lots cost, less the fees; and the strategies' net  *)
(* P&L tells the same, but for the fees of the fills that opened.            *)
OpenCost(s) == SumFunction(LotCosts(lots[s]))

CashIsExplained ==
  /\ cash = StartingNav + gross - paid - SumFunctionOnSet([s \in Stocks |-> OpenCost(s)],
                                             Stocks)
  /\ SumFunctionOnSet(booked, Ideas) = gross - (paid - opening)

(* The drawdown of the metrics is the worst loss anybody could have taken    *)
(* who entered and left at two points of the curve.                          *)
DrawdownIsWorst ==
  bar = NoBar /\ curve # <<>> /\ (\A i \in DOMAIN curve : curve[i] > 0) =>
    LET loss(i, j) == Frac(curve[i] - curve[j], curve[i])
        pairs == {p \in (DOMAIN curve) \X (DOMAIN curve) : p[1] <= p[2]}
    IN  /\ \A p \in pairs : ~Greater(loss(p[1], p[2]), MaxDrawdown(curve))
        /\ \E p \in pairs : loss(p[1], p[2]) = MaxDrawdown(curve)
=============================================================================
