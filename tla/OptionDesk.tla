------------------------------ MODULE OptionDesk ------------------------------
(* The option strategies (under strategies/) on the snapshots that the       *)
(* chain snapshotter publishes (marketdata/chain_snapshotter.py): each turns *)
(* a snapshot into the legs of a spread, and every leg is an order of its    *)
(* own that risk engine, greeks overlay or broker may refuse.                *)
EXTENDS Integers, Sequences, FiniteSets, SequencesExt, FiniteSetsExt

CONSTANTS
  Snaps,           \* enriched snapshots: [spot, iv, move, at, expiry, quotes],
                   \* iv = None if there is none, move = expected_move(...),
                   \* quotes = a set of [type, strike, ltp, oi, delta],
                   \* ltp per unit, delta in rupees and per lot
  None,
  Window,          \* IVRankTracker's window
  IvrMin, IvrMax,  \* percent: condor above, debit spread below
  WingWidth, Offset,              \* butterfly, debit spread, in price
  EntryTime, ExitTime,            \* butterfly
  Budget,          \* rupees that each strategy's sizing lets a trade lose
  LotSize,         \* units in a lot, left to the caller
  DeltaCap,        \* GreeksOverlay: limit of |delta|, the other greeks alike
  Rosters,         \* subscriber lists the desk may be set up with
  MaxSnaps, MaxDeskRestarts           \* bounds of the model

ASSUME OptionDeskAssumption ==
  /\ Window \in Nat \ {0} /\ IvrMin \in 0 .. 100 /\ IvrMax \in 0 .. 100
  /\ IvrMax < IvrMin /\ Budget \in Nat /\ LotSize \in Nat \ {0}
  /\ WingWidth \in Nat
  /\ Offset \in Nat
  /\ \A s \in Snaps :
       /\ s.iv = None \/ s.iv \in Nat
       /\ s.spot \in Nat /\ s.move \in Nat
       /\ IsFiniteSet(s.quotes)
       /\ \A q \in s.quotes :
            q \in [type : {"CE", "PE"}, strike : Nat, ltp : Nat, oi : Nat,
                  delta : Int]
  /\ Rosters \subseteq Seq({"observe", "condor", "spread", "butterfly"})

VARIABLES
  snap, turn,      \* the snapshot being published, and the next subscriber
  roster,
  ivOf,            \* ivOf[s]: the IV series of the strategy's own tracker
  entered,         \* ExpiryButterfly._entered_today
  legs,            \* legs of the running callback that are not submitted yet
  held,            \* accepted legs, [parent, leg], in order
  book,            \* GreeksOverlay.book
  fired,           \* history: strategies that returned legs for snap
  parents,         \* history: [kind, legs, failed] of every spread
  clean,           \* history: every IV so far was positive, seen by both
  snaps, deskRestarts

deskVars == <<snap, turn, roster, ivOf, entered, legs, held, book, fired,
              parents, clean, snaps, deskRestarts>>

Trackers == {"condor", "spread"}

DeskInit ==
  /\ snap = None /\ turn = 0 /\ roster \in Rosters
  /\ ivOf = [s \in Trackers |-> <<>>]
  /\ entered = {} /\ legs = <<>> /\ held = <<>> /\ book = 0
  /\ fired = {} /\ parents = <<>> /\ clean = TRUE
  /\ snaps = 0 /\ deskRestarts = 0

---------------------------------------------------------------------------
(* IVSeries.add, and rank >= or <= a percentage; a flat series has none.     *)
Observed(series, iv) ==
  LET all == Append(series, iv)
  IN  IF Len(all) > Window THEN Tail(all) ELSE all

FlatIsRanked(series) == series # <<>>
HasRank(series) == series # <<>> /\ Max(ToSet(series)) > Min(ToSet(series))

Risen(series) == 100 * (Last(series) - Min(ToSet(series)))
Span(series)  == Max(ToSet(series)) - Min(ToSet(series))

RankAtLeast(series, pct) == HasRank(series) /\ Risen(series) >= pct * Span(series)
RankAtMost(series, pct)  == HasRank(series) /\ Risen(series) <= pct * Span(series)

Calls(s) == {q \in s.quotes : q.type = "CE"}
Puts(s)  == {q \in s.quotes : q.type = "PE"}

(* Chains list their strikes in ascending order, so of two as close the      *)
(* lower is taken.                                                           *)
Size(n) == IF n < 0 THEN -n ELSE n
ClosestTo(Q, target) ==
  CHOOSE q \in Q : \A r \in Q :
    \/ Size(q.strike - target) < Size(r.strike - target)
    \/ /\ Size(q.strike - target) = Size(r.strike - target)
       /\ q.strike <= r.strike

(* _nearest: the first strike beyond a target given in fifths, or the last   *)
(* one of the chain.                                                         *)
FirstAbove(Q, fifths) ==
  LET beyond == {q.strike : q \in {r \in Q : 5 * r.strike >= fifths}}
      k == IF beyond # {} THEN Min(beyond) ELSE Max({q.strike : q \in Q})
  IN  CHOOSE q \in Q : q.strike = k
FirstBelow(Q, fifths) ==
  LET beyond == {q.strike : q \in {r \in Q : 5 * r.strike <= fifths}}
      k == IF beyond # {} THEN Max(beyond) ELSE Min({q.strike : q \in Q})
  IN  CHOOSE q \in Q : q.strike = k

Leg(q, qty) == [type |-> q.type, strike |-> q.strike, qty |-> qty,
                price |-> q.ltp, delta |-> q.delta]

(* IronCondorStrategy: short strikes at 1.2 and wings at 2 expected moves,   *)
(* the wider side less the credit, max_loss_per_lot, is what one unit of a   *)
(* lot can lose: prices are per unit.  The three strategies divide their     *)
(* budget by a loss per unit and take the result as a number of lots.        *)
NarrowSideCounts(s) ==
  LET sc == FirstAbove(Calls(s), 5 * s.spot + 6 * s.move)
      lc == FirstAbove(Calls(s), 5 * s.spot + 10 * s.move)
      sp == FirstBelow(Puts(s), 5 * s.spot - 6 * s.move)
      lp == FirstBelow(Puts(s), 5 * s.spot - 10 * s.move)
      credit == sc.ltp - lc.ltp + sp.ltp - lp.ltp
      loss == Min({lc.strike - sc.strike, sp.strike - lp.strike}) - credit
      lots == Budget \div loss
  IN  IF s.move = 0 \/ Calls(s) = {} \/ Puts(s) = {} THEN <<>>
      ELSE IF loss <= 0 THEN <<>>
      ELSE IF lots = 0 THEN <<>>
      ELSE <<Leg(sc, -lots), Leg(lc, lots), Leg(sp, -lots), Leg(lp, lots)>>
Condor(s) ==
  LET sc == FirstAbove(Calls(s), 5 * s.spot + 6 * s.move)
      lc == FirstAbove(Calls(s), 5 * s.spot + 10 * s.move)
      sp == FirstBelow(Puts(s), 5 * s.spot - 6 * s.move)
      lp == FirstBelow(Puts(s), 5 * s.spot - 10 * s.move)
      credit == sc.ltp - lc.ltp + sp.ltp - lp.ltp
      loss == Max({lc.strike - sc.strike, sp.strike - lp.strike}) - credit
      lots == Budget \div loss
  IN  IF s.move = 0 \/ Calls(s) = {} \/ Puts(s) = {} THEN <<>>
      ELSE IF loss <= 0 THEN <<>>
      ELSE IF lots = 0 THEN <<>>
      ELSE <<Leg(sc, -lots), Leg(lc, lots), Leg(sp, -lots), Leg(lp, lots)>>

(* DebitSpreadStrategy: at the money against one strike out of it.  The      *)
(* debit is at least a tiny amount: a thousandth here, in the code 1e-6.     *)
Spread(s, bias) ==
  LET Q     == IF bias = "bull" THEN Calls(s) ELSE Puts(s)
      long  == ClosestTo(Q, s.spot)
      short == ClosestTo(Q, IF bias = "bull" THEN s.spot + Offset
                                           ELSE s.spot - Offset)
      lots  == (1000 * Budget) \div Max({1000 * (long.ltp - short.ltp), 1})
  IN  IF Q = {} \/ long = short \/ lots = 0 THEN <<>>
      ELSE <<Leg(long, lots), Leg(short, -lots)>>

(* max_pain: the lowest strike at which the writers pay least.               *)
WritersPay(s, k) ==
  LET pay == [q \in s.quotes |->
                q.oi * Max({0, IF q.type = "CE" THEN k - q.strike
                                                ELSE q.strike - k})]
  IN  SumFunctionOnSet(pay, s.quotes)
MaxPain(s) ==
  LET strikes == {q.strike : q \in s.quotes}
      least   == Min({WritersPay(s, k) : k \in strikes})
  IN  Min({k \in strikes : WritersPay(s, k) = least})

(* ExpiryButterflyStrategy: one, two, one around the pin.                    *)
Butterfly(s) ==
  LET center == MaxPain(s)
      low    == ClosestTo(Calls(s), center - WingWidth)
      body   == ClosestTo(Calls(s), center)
      high   == ClosestTo(Calls(s), center + WingWidth)
      debit  == low.ltp - 2 * body.ltp + high.ltp
      lots   == Budget \div debit
  IN  IF Calls(s) = {} THEN <<>>
      ELSE IF low = body \/ body = high \/ debit <= 0 THEN <<>>
      ELSE IF lots = 0 THEN <<>>
      ELSE <<Leg(low, lots), Leg(body, -2 * lots), Leg(high, lots)>>

---------------------------------------------------------------------------
(* _loop publishes the next snapshot; if the parquet store cannot be written *)
(* _publish raises before any subscriber is called.                          *)
Publish(s) ==
  /\ turn = 0 /\ snaps < MaxSnaps
  /\ snaps' = snaps + 1 /\ snap' = s /\ turn' = 1 /\ fired' = {}
  /\ UNCHANGED <<roster, ivOf, entered, legs, held, book, parents, clean,
                 deskRestarts>>

StoreFails ==
  /\ turn = 0 /\ snaps < MaxSnaps /\ snaps' = snaps + 1
  /\ UNCHANGED <<snap, turn, roster, ivOf, entered, legs, held, book, fired,
                 parents, clean, deskRestarts>>

(* The subscribers are awaited one after the other, each until the legs its  *)
(* strategy returned are submitted.                                          *)
Awaited(subscriber) == turn # 0 /\ legs = <<>> /\ roster[turn] = subscriber

Returns(subscriber, out) ==
  /\ turn' = (turn + 1) % (Len(roster) + 1)
  /\ legs' = out
  /\ parents' = IF out = <<>> THEN parents
                ELSE Append(parents, [kind |-> subscriber, legs |-> out,
                                      failed |-> FALSE])
  /\ fired' = IF out = <<>> THEN fired ELSE fired \cup {subscriber}
  /\ UNCHANGED <<snap, roster, held, book, snaps, deskRestarts>>

(* observe_chain feeds the condor's tracker a second time, evaluate() does   *)
(* so itself.  A zero IV is skipped by observe_chain and by the debit spread *)
(* ("if snap.atm_iv"), not by the condor ("is None").                        *)
Observe ==
  /\ Awaited("observe")
  /\ IF snap.iv \in {None, 0} THEN UNCHANGED <<ivOf, clean>>
     ELSE /\ ivOf' = [ivOf EXCEPT !["condor"] = Observed(@, snap.iv)]
          /\ clean' = FALSE
  /\ Returns("observe", <<>>)
  /\ UNCHANGED entered

EvaluateCondor ==
  /\ Awaited("condor")
  /\ LET seen == IF snap.iv = None THEN ivOf["condor"]
                 ELSE Observed(ivOf["condor"], snap.iv)
         rich == RankAtLeast(seen, IvrMin)
     IN  /\ ivOf' = [ivOf EXCEPT !["condor"] = seen]
         /\ Returns("condor", IF snap.iv # None /\ rich THEN Condor(snap)
                              ELSE <<>>)
  /\ clean' = (clean /\ snap.iv # 0)
  /\ UNCHANGED entered

EvaluateSpread(bias) ==
  /\ Awaited("spread")
  /\ LET seen  == IF snap.iv \in {None, 0} THEN ivOf["spread"]
                  ELSE Observed(ivOf["spread"], snap.iv)
         cheap == RankAtMost(seen, IvrMax)
     IN  /\ ivOf' = [ivOf EXCEPT !["spread"] = seen]
         /\ Returns("spread", IF cheap THEN Spread(snap, bias) ELSE <<>>)
  /\ UNCHANGED <<entered, clean>>

EvaluateButterfly ==
  /\ Awaited("butterfly")
  /\ LET out == IF /\ snap.at \in EntryTime .. ExitTime
                   /\ snap.expiry \notin entered
                THEN Butterfly(snap) ELSE <<>>
     IN  /\ Returns("butterfly", out)
         /\ entered' = IF out = <<>> THEN entered
                       ELSE entered \cup {snap.expiry}
  /\ UNCHANGED <<ivOf, clean>>

(* GreeksOverlay.would_breach and apply.                                     *)
Projected(leg)   == book + leg.qty * leg.delta
WouldBreach(leg) == Size(Projected(leg)) > DeltaCap

(* The callback submits its legs one after the other.                        *)
Accept ==
  /\ legs # <<>> /\ ~WouldBreach(Head(legs))
  /\ held' = Append(held, [parent |-> Len(parents), leg |-> Head(legs)])
  /\ book' = Projected(Head(legs))
  /\ legs' = Tail(legs)
  /\ UNCHANGED <<snap, turn, roster, ivOf, entered, fired, parents, clean,
                 snaps, deskRestarts>>

(* submit returns None (overlay, risk engine, kill switch) and the loop goes *)
(* on, or it raises (broker) and the callback is over.                       *)
Decline ==
  /\ legs # <<>>
  /\ legs' \in {Tail(legs), <<>>}
  /\ parents' = [parents EXCEPT ![Len(parents)].failed = TRUE]
  /\ UNCHANGED <<snap, turn, roster, ivOf, entered, held, book, fired, clean,
                 snaps, deskRestarts>>

(* A crash: trackers, latches and the overlay's book start empty.            *)
DeskRestart ==
  /\ deskRestarts < MaxDeskRestarts /\ deskRestarts' = deskRestarts + 1
  /\ turn' = 0 /\ snap' = None /\ fired' = {}
  /\ ivOf' = [s \in Trackers |-> <<>>] /\ entered' = {} /\ book' = 0
  /\ legs' = <<>>
  /\ parents' = IF legs = <<>> THEN parents
                ELSE [parents EXCEPT ![Len(parents)].failed = TRUE]
  /\ clean' = TRUE
  /\ UNCHANGED <<roster, held, snaps>>

Evaluate ==
  \/ EvaluateCondor
  \/ \E bias \in {"bull", "bear"} : EvaluateSpread(bias)
  \/ EvaluateButterfly

DeskNext ==
  \/ \E s \in Snaps : Publish(s)
  \/ StoreFails
  \/ Observe
  \/ Evaluate
  \/ Accept
  \/ Decline
  \/ DeskRestart

DeskSpec == DeskInit /\ [][DeskNext]_deskVars

---------------------------------------------------------------------------
(* What is held of a spread, and what it is worth in rupees when the         *)
(* underlying settles at a price: a leg's quantity counts lots.              *)
HeldOf(p) == {n \in DOMAIN held : held[n].parent = p}

Settles(l, price) ==
  l.qty * (Max({0, IF l.type = "CE" THEN price - l.strike
                                    ELSE l.strike - price}) - l.price)
PerUnit(p, price) ==
  SumFunctionOnSet([n \in DOMAIN held |-> Settles(held[n].leg, price)], HeldOf(p))
Worth(p, price) == LotSize * PerUnit(p, price)

(* It is linear between the strikes and, as all calls are covered, flat      *)
(* beyond them.                                                              *)
Kinks(p) ==
  LET k == {held[n].leg.strike : n \in HeldOf(p)} IN k \cup {0, 2 * Max(k)}

Pending(p)  == legs # <<>> /\ p = Len(parents)
Complete(p) == ~parents[p].failed /\ ~Pending(p)

(* The wing above is no wider than the one below.                            *)
EvenWings(p) ==
  LET k == [n \in 1 .. 3 |-> parents[p].legs[n].strike]
  IN  k[3] - k[2] <= k[2] - k[1]

(* A spread whose legs were all accepted can lose no more than its budget    *)
(* times the size of a lot, wherever the underlying settles: strikes picked  *)
(* from a chain with gaps, the formula of the worst loss and the lots        *)
(* together.  The strategies mean the budget itself, and miss it by the lot  *)
(* size their sizing leaves out.  A butterfly on a chain whose strikes are   *)
(* uneven around the pin can lose more than its debit.                       *)
LossBounded ==
  \A p \in DOMAIN parents :
    Complete(p) /\ (parents[p].kind = "butterfly" => EvenWings(p)) =>
      \A price \in Kinks(p) : Worth(p, price) >= -(LotSize * Budget)

(* The condor sells rich volatility and the debit spread buys it cheap: with *)
(* the trackers fed alike, never both on one snapshot.                       *)
NeverBothSides == clean => ~({"condor", "spread"} \subseteq fired)

(* "No naked short options" (docs/strategies/options.md:3; strategies/       *)
(* options_iron_condor/strategy.py:8): once a callback has submitted its     *)
(* legs, no spread has more sold than bought contracts of a type.            *)
NoNakedShort ==
  legs = <<>> =>
    \A p \in DOMAIN parents, type \in {"CE", "PE"} :
      SumFunctionOnSet([n \in DOMAIN held |-> held[n].leg.qty],
                       {n \in HeldOf(p) : held[n].leg.type = type}) >= 0
===============================================================================
