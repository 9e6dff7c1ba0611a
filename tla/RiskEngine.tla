------------------------------ MODULE RiskEngine ------------------------------
(* The pre-trade gate of risk/engine.py with its mutable limits              *)
(* (risk/limits.py), as concurrent submit() calls and closing trades drive   *)
(* it.  check() awaits the kill switch and then decides in one go; commit()  *)
(* comes only after the order was routed, journalled and sent, and other     *)
(* calls run in between.  Money is in whole units, limits are amounts (the   *)
(* code's percentage of NAV times NAV).                                      *)
EXTENDS KillSwitch, Integers, Sequences, FiniteSets, FiniteSetsExt

CONSTANTS
  Tasks,                   \* submit() calls that may be under way at once
  Strategies,
  Signals,                 \* [strategy, price, risk, qty, volCap]: volCap is
                           \* vol_normalized_size of its instrument, 0 if none
  Outcomes,                \* net P&L a trade can close with
  HeatCap, StockCap,       \* portfolio_heat_cap, max_single_stock
  DailyLimit, WeeklyLimit, MonthlyLimit,
  SoftBrake, HardPause,    \* consecutive losses that halve and that pause
  MaxTrades, MaxDays, MaxRestarts   \* bounds of the model

SignalType == [strategy : Strategies, price : Nat \ {0}, risk : Nat,
               qty : Nat, volCap : Nat]

ASSUME RiskAssumption ==
  /\ Signals \subseteq SignalType
  /\ Outcomes \subseteq Int
  /\ {HeatCap, StockCap, MaxTrades, MaxDays, MaxRestarts} \subseteq Nat
  /\ {DailyLimit, WeeklyLimit, MonthlyLimit, SoftBrake, HardPause}
       \subseteq Nat \ {0}

VARIABLES
  call,         \* call[t]: where submit() is in task t
  heat,         \* book.portfolio_heat
  daily, weekly, monthly,           \* loss.*_pnl
  losses,       \* losses[s]: consecutive_losses
  paused,       \* strategies with paused_today
  braked,       \* strategies with size_multiplier 0.5
  preservation, \* capital_preservation_mode
  day,          \* LimitState.day
  closed,       \* history: the trades closed since start-up, in order
  restarts

lossVars  == <<daily, weekly, monthly, preservation, closed>>
brakeVars == <<losses, paused, braked>>
vars == <<switchVars, call, heat, lossVars, brakeVars, day, restarts>>

NoCall == [pc |-> "idle"]
CallType == [pc : {"asking"}, sig : Signals]
            \cup [pc : {"answered"}, sig : Signals, halted : BOOLEAN]
            \cup [pc : {"approved"}, sig : Signals, qty : Nat \ {0}]

TypeOK ==
  /\ SwitchTypeOK
  /\ call \in [Tasks -> {NoCall} \cup CallType]
  /\ heat \in Nat
  /\ {daily, weekly, monthly} \subseteq Int
  /\ losses \in [Strategies -> Nat]
  /\ paused \in SUBSET Strategies /\ braked \in SUBSET Strategies
  /\ preservation \in BOOLEAN
  /\ day \in 0 .. MaxDays
  /\ closed \in Seq([day : 0 .. MaxDays, strategy : Strategies,
                     pnl : Outcomes])
  /\ restarts \in 0 .. MaxRestarts

BookInit ==
  /\ heat = 0 /\ daily = 0 /\ weekly = 0 /\ monthly = 0
  /\ losses = [s \in Strategies |-> 0]
  /\ paused = {} /\ braked = {} /\ preservation = FALSE
  /\ closed = <<>>

Init ==
  /\ SwitchInit /\ BookInit
  /\ call = [t \in Tasks |-> NoCall]
  /\ day = 0 /\ restarts = 0

-----------------------------------------------------------------------------
(* check() and commit()                                                      *)

(* active() up to its await: the manual flag and the file reject at once.    *)
BeginCheck(t, sig) ==
  /\ call[t] = NoCall
  /\ \/ LocalHalt /\ gauge' = 1 /\ UNCHANGED call
     \/ /\ ~LocalHalt /\ UNCHANGED gauge
        /\ call' = [call EXCEPT ![t] = [pc |-> "asking", sig |-> sig]]
  /\ UNCHANGED <<manual, file, flag, up, toggle, heat, lossVars, brakeVars,
                 day, restarts>>

(* Redis answers, or get_flag turns its failure into FALSE.                  *)
ReadFlag(t) ==
  /\ call[t].pc = "asking"
  /\ call' = [call EXCEPT ![t] = [pc |-> "answered", sig |-> call[t].sig,
                                  halted |-> FlagRead]]
  /\ UNCHANGED <<switchVars, heat, lossVars, brakeVars, day, restarts>>

(* The size left after the caps, in the order of the code.  A price above    *)
(* StockCap gives a notional cap of 0 units, which the code reads as none.   *)
Capped(qty, cap) == IF cap > 0 /\ cap < qty THEN cap ELSE qty
HalvedFirst(sig) ==
  LET q == IF sig.strategy \in braked THEN sig.qty \div 2 ELSE sig.qty
  IN  Capped(Capped(q, StockCap \div sig.price), sig.volCap)
Size(sig) ==
  LET q == Capped(Capped(sig.qty, StockCap \div sig.price), sig.volCap)
  IN  IF sig.strategy \in braked THEN q \div 2 ELSE q

LossStop == preservation \/ daily <= -DailyLimit \/ weekly <= -WeeklyLimit

IgnoringHeat(sig, qty) ==
  ~LossStop /\ sig.strategy \notin paused /\ sig.risk > 0 /\ qty > 0
EvenOfZero(sig, qty) ==
  /\ ~LossStop /\ sig.strategy \notin paused /\ sig.risk > 0
  /\ heat + sig.risk * qty <= HeatCap
Passes(sig, qty) ==
  /\ ~LossStop /\ sig.strategy \notin paused /\ sig.risk > 0
  /\ heat + sig.risk * qty <= HeatCap
  /\ qty > 0

(* The rest of check() runs without an await.                                *)
Decide(t) ==
  /\ call[t].pc = "answered"
  /\ LET sig == call[t].sig  qty == Size(sig)
         ok  == ~call[t].halted /\ Passes(sig, qty)
     IN  call' = [call EXCEPT ![t] =
                    IF ok THEN [pc |-> "approved", sig |-> sig, qty |-> qty]
                          ELSE NoCall]
  /\ gauge' = IF call[t].halted THEN 1 ELSE 0
  /\ UNCHANGED <<manual, file, flag, up, toggle, heat, lossVars, brakeVars,
                 day, restarts>>

(* submit() reaches commit(), or leaves before it: no broker, or an error    *)
(* out of _send.                                                             *)
Commit(t) ==
  /\ call[t].pc = "approved"
  /\ heat' = heat + call[t].sig.risk * call[t].qty
  /\ call' = [call EXCEPT ![t] = NoCall]
  /\ UNCHANGED <<switchVars, lossVars, brakeVars, day, restarts>>

LeaveEarly(t) ==
  /\ call[t].pc = "approved"
  /\ call' = [call EXCEPT ![t] = NoCall]
  /\ UNCHANGED <<switchVars, heat, lossVars, brakeVars, day, restarts>>

-----------------------------------------------------------------------------
(* on_trade_closed() and start_of_day_reset()                                *)

(* The month's test sets the mode and nothing clears it.                     *)
Breached(pnl) == pnl <= -MonthlyLimit
PreservationNow(pnl) == Breached(pnl)
Preservation(pnl) == preservation \/ Breached(pnl)

Streak(s, pnl) == IF pnl < 0 THEN losses[s] + 1 ELSE 0

TradeClosed(s, pnl) ==
  /\ Len(closed) < MaxTrades
  /\ closed' = Append(closed, [day |-> day, strategy |-> s, pnl |-> pnl])
  /\ losses' = [losses EXCEPT ![s] = Streak(s, pnl)]
  /\ daily' = daily + pnl /\ weekly' = weekly + pnl
  /\ monthly' = monthly + pnl
  /\ paused' = paused \cup {r \in {s} : Streak(s, pnl) >= HardPause}
  /\ braked' = braked \cup {r \in {s} : /\ Streak(s, pnl) >= SoftBrake
                                        /\ Streak(s, pnl) < HardPause}
  /\ preservation' = Preservation(monthly + pnl)
  /\ UNCHANGED <<switchVars, call, heat, day, restarts>>

(* A new session clears the day's P&L and every strategy's pause and brake.  *)
(* Streaks go on, and so do the week, the month and the heat.                *)
ClearStreaks == losses' = [s \in Strategies |-> 0]
KeepStreaks  == UNCHANGED losses

NewDay ==
  /\ day < MaxDays /\ day' = day + 1
  /\ daily' = 0 /\ paused' = {} /\ braked' = {}
  /\ KeepStreaks
  /\ UNCHANGED <<switchVars, call, heat, weekly, monthly, preservation,
                 closed, restarts>>

(* All limit state is in memory.                                             *)
Restart ==
  /\ restarts < MaxRestarts /\ restarts' = restarts + 1
  /\ SwitchRestart
  /\ heat' = 0 /\ daily' = 0 /\ weekly' = 0 /\ monthly' = 0
  /\ losses' = [s \in Strategies |-> 0]
  /\ paused' = {} /\ braked' = {} /\ preservation' = FALSE
  /\ closed' = <<>>
  /\ call' = [t \in Tasks |-> NoCall]
  /\ UNCHANGED day

CheckStep(t) == ReadFlag(t) \/ Decide(t)
LeaveStep(t) == Commit(t) \/ LeaveEarly(t)

riskVars == <<call, heat, lossVars, brakeVars, day, restarts>>

Next ==
  \/ \E t \in Tasks : \/ \E sig \in Signals : BeginCheck(t, sig)
                      \/ CheckStep(t) \/ LeaveStep(t)
  \/ \E s \in Strategies, pnl \in Outcomes : TradeClosed(s, pnl)
  \/ NewDay \/ Restart
  \/ SwitchStep /\ UNCHANGED riskVars

Spec == Init /\ [][Next]_vars

(* Redis answers or fails, and submit() goes on: the event loop runs every   *)
(* ready task.  Nothing forces a signal, a trade or an operator.             *)
Fairness == \A t \in Tasks : WF_vars(CheckStep(t)) /\ WF_vars(LeaveStep(t))
FairSpec == Spec /\ Fairness

-----------------------------------------------------------------------------
(* Properties                                                                *)

(* portfolio_heat_cap under concurrency.  A check reads the heat before the  *)
(* calls approved ahead of it have committed theirs, so the cap alone is not *)
(* kept; the overrun is at most one largest order for each other call.       *)
Exposure(t) == IF call[t].pc = "approved" THEN call[t].sig.risk * call[t].qty
                                          ELSE 0
InFlight == SumFunctionOnSet([t \in Tasks |-> Exposure(t)], Tasks)
Largest  == Max({sig.risk * sig.qty : sig \in Signals})
HeatOverrunBounded ==
  heat + InFlight <= HeatCap + (Cardinality(Tasks) - 1) * Largest

(* Streaks, pauses and brakes say what the closed trades say: a strategy is  *)
(* paused (braked) exactly if some trade of this session closed on a streak  *)
(* of that length, counted across sessions; a win ends the streak but        *)
(* neither the pause nor the brake.                                          *)
LosingRun(s, k) ==
  {i \in 1 .. k :
     /\ closed[i].strategy = s
     /\ \A j \in i .. k : closed[j].strategy = s => closed[j].pnl < 0}
StreakAt(s, k) == Cardinality(LosingRun(s, k))
StreaksToday(s) ==
  {StreakAt(s, k) : k \in {i \in DOMAIN closed :
                             closed[i].day = day /\ closed[i].strategy = s}}
BrakesMatchBook ==
  \A s \in Strategies :
    /\ losses[s] = StreakAt(s, Len(closed))
    /\ s \in paused <=> \E n \in StreaksToday(s) : n >= HardPause
    /\ s \in braked <=> \E n \in StreaksToday(s) :
                          n >= SoftBrake /\ n < HardPause

(* Every approval is within the caps, and within half of each of them while  *)
(* its strategy is braked.  (StockCap binds only prices up to it; see run    *)
(* risk_uncapped.)                                                           *)
SizedWithinCaps ==
  [][\A t \in Tasks :
       call[t].pc = "answered" /\ call'[t].pc = "approved" =>
         LET sig == call[t].sig
             q   == call'[t].qty * (IF sig.strategy \in braked THEN 2 ELSE 1)
         IN  /\ q <= sig.qty
             /\ sig.price <= StockCap => q * sig.price <= StockCap
             /\ sig.volCap > 0 => q <= sig.volCap]_vars

(* "Cap by max % of NAV in one position", cap_size_by_notional's promise.    *)
StockCapHolds ==
  \A t \in Tasks : call[t].pc = "approved" =>
                     call[t].qty * call[t].sig.price <= StockCap

(* A halt that stays, in the file or in a reachable Redis, ends all entries: *)
(* checks and orders already under way drain, and none follows.              *)
NoEntry == \A t \in Tasks : call[t].pc # "approved"
HaltDrains == <>[]file \/ <>[](up /\ flag) => <>[]NoEntry

(* Capital preservation is for good: after the month's limit was once        *)
(* reached entries end, even if later wins bring the month back above it.    *)
(* (Until a restart, which forgets the limits.)                              *)
PreservedForGood == [](monthly <= -MonthlyLimit => <>[]NoEntry)
=============================================================================
