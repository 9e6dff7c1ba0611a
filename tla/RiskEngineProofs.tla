--------------------------- MODULE RiskEngineProofs ---------------------------
(* Theorems about RiskEngine, for every value of its constants.              *)
EXTENDS RiskEngine, NumberTheorems, SequenceTheorems, TLAPS

(* Integer division: the part that fits.                                     *)
LEMMA DivFits ==
  ASSUME NEW a \in Nat, NEW b \in Nat \ {0}
  PROVE  a \div b \in Nat /\ (a \div b) * b <= a
OBVIOUS

LEMMA HalfFits ==
  ASSUME NEW a \in Nat PROVE a \div 2 \in Nat /\ (a \div 2) * 2 <= a
OBVIOUS

LEMMA ProductFits ==
  ASSUME NEW a \in Nat, NEW b \in Nat, NEW c \in Nat, a <= b
  PROVE  a * c \in Nat /\ b * c \in Nat /\ a * c <= b * c
OBVIOUS

LEMMA CappedFits ==
  ASSUME NEW q \in Nat, NEW c \in Nat
  PROVE  /\ Capped(q, c) \in Nat /\ Capped(q, c) <= q
         /\ c > 0 => Capped(q, c) <= c
BY DEF Capped

LEMMA SignalFacts ==
  ASSUME NEW sig \in Signals
  PROVE  /\ sig.strategy \in Strategies /\ sig.price \in Nat \ {0}
         /\ sig.risk \in Nat /\ sig.qty \in Nat /\ sig.volCap \in Nat
         /\ StockCap \in Nat
BY RiskAssumption DEF SignalType

(* The size before the brake, and the size the brake leaves.                 *)
LEMMA SizeFits ==
  ASSUME NEW sig \in Signals
  PROVE  \E q \in Nat :
           /\ q <= sig.qty
           /\ sig.price <= StockCap => q * sig.price <= StockCap
           /\ sig.volCap > 0 => q <= sig.volCap
           /\ Size(sig) \in Nat
           /\ Size(sig) * (IF sig.strategy \in braked THEN 2 ELSE 1) <= q
<1> DEFINE notional == StockCap \div sig.price
           first    == Capped(sig.qty, notional)
           q        == Capped(first, sig.volCap)
<1>1. notional \in Nat /\ notional * sig.price <= StockCap
  BY SignalFacts, DivFits
<1>2. sig.price <= StockCap => notional > 0
  BY SignalFacts
<1> HIDE DEF notional
<1>3. first \in Nat /\ first <= sig.qty /\ (notional > 0 => first <= notional)
  BY <1>1, SignalFacts, CappedFits
<1> HIDE DEF first
<1>4. q \in Nat /\ q <= first /\ (sig.volCap > 0 => q <= sig.volCap)
  BY <1>3, SignalFacts, CappedFits
<1>5. Size(sig) = IF sig.strategy \in braked THEN q \div 2 ELSE q
  BY DEF Size, notional, first
<1> HIDE DEF q
<1>6. sig.price <= StockCap => q * sig.price <= StockCap
  <2>1. SUFFICES ASSUME sig.price <= StockCap PROVE q * sig.price <= StockCap
    OBVIOUS
  <2>2. q <= notional
    BY <1>1, <1>2, <1>3, <1>4, <2>1
  <2>3. q * sig.price <= notional * sig.price /\ q * sig.price \in Nat
        /\ notional * sig.price \in Nat
    BY <1>1, <1>4, <2>2, SignalFacts, ProductFits
  <2> QED
    BY <1>1, <2>3, SignalFacts
<1>7. Size(sig) \in Nat
      /\ Size(sig) * (IF sig.strategy \in braked THEN 2 ELSE 1) <= q
  BY <1>4, <1>5, HalfFits
<1>8. q <= sig.qty
  BY <1>3, <1>4, SignalFacts
<1> QED
  BY <1>4, <1>6, <1>7, <1>8

LEMMA CallFacts ==
  ASSUME TypeOK, NEW t \in Tasks
  PROVE  /\ call[t].pc # "idle" => call[t].sig \in Signals
         /\ call[t].pc = "answered" => call[t].halted \in BOOLEAN
         /\ call[t].pc = "approved" => call[t].qty \in Nat \ {0}
BY DEF TypeOK, CallType, NoCall

LEMMA RiskTypeInit == Init => TypeOK
<1> SUFFICES ASSUME Init PROVE TypeOK
  OBVIOUS
<1>1. SwitchTypeOK
  BY DEF Init, SwitchInit, SwitchTypeOK
<1>2. closed \in Seq([day : 0 .. MaxDays, strategy : Strategies,
                      pnl : Outcomes])
  BY DEF Init, BookInit
<1>3. 0 \in 0 .. MaxDays /\ 0 \in 0 .. MaxRestarts /\ 0 \in Nat /\ 0 \in Int
  BY RiskAssumption
<1>4. call \in [Tasks -> {NoCall} \cup CallType]
  BY DEF Init
<1>5. losses \in [Strategies -> Nat]
  BY <1>3 DEF Init, BookInit
<1>6. /\ heat \in Nat /\ {daily, weekly, monthly} \subseteq Int
      /\ paused \in SUBSET Strategies /\ braked \in SUBSET Strategies
      /\ preservation \in BOOLEAN
      /\ day \in 0 .. MaxDays /\ restarts \in 0 .. MaxRestarts
  BY <1>3 DEF Init, BookInit
<1> QED
  BY <1>1, <1>2, <1>4, <1>5, <1>6 DEF TypeOK

LEMMA RiskTypeStep == TypeOK /\ [Next]_vars => TypeOK'
<1> SUFFICES ASSUME TypeOK, [Next]_vars PROVE TypeOK'
  OBVIOUS
<1> USE DEF switchVars, lossVars, brakeVars
<1>1. ASSUME NEW t \in Tasks, NEW sig \in Signals, BeginCheck(t, sig)
      PROVE  TypeOK'
  <2>1. SwitchTypeOK'
    BY <1>1 DEF BeginCheck, TypeOK, SwitchTypeOK
  <2>2. call' \in [Tasks -> {NoCall} \cup CallType]
    <3>1. CASE UNCHANGED call
      BY <3>1 DEF TypeOK
    <3>2. CASE call' = [call EXCEPT ![t] = [pc |-> "asking", sig |-> sig]]
      <4>1. [pc |-> "asking", sig |-> sig] \in CallType
        BY DEF CallType
      <4> QED
        BY <3>2, <4>1 DEF TypeOK
    <3> QED
      BY <1>1, <3>1, <3>2 DEF BeginCheck
  <2> QED
    BY <1>1, <2>1, <2>2 DEF BeginCheck, TypeOK
<1>2. ASSUME NEW t \in Tasks, ReadFlag(t) PROVE TypeOK'
  <2>1. FlagRead \in BOOLEAN
    BY DEF FlagRead, TypeOK, SwitchTypeOK
  <2>2. call' \in [Tasks -> {NoCall} \cup CallType]
    BY <1>2, <2>1, CallFacts DEF ReadFlag, TypeOK, CallType
  <2> QED
    BY <1>2, <2>2 DEF ReadFlag, TypeOK, SwitchTypeOK
<1>3. ASSUME NEW t \in Tasks, Decide(t) PROVE TypeOK'
  <2> DEFINE sig == call[t].sig
             qty == Size(sig)
  <2>1. sig \in Signals /\ call[t].halted \in BOOLEAN
    BY <1>3, CallFacts DEF Decide
  <2>2. qty \in Nat
    BY <2>1, SizeFits
  <2>3. call'[t] \in {NoCall} \cup CallType
    <3>1. CASE ~call[t].halted /\ Passes(sig, qty)
      <4>1. qty \in Nat \ {0}
        BY <2>2, <3>1 DEF Passes
      <4>2. call'[t] = [pc |-> "approved", sig |-> sig, qty |-> qty]
        BY <1>3, <3>1 DEF Decide, TypeOK
      <4> QED
        BY <2>1, <4>1, <4>2 DEF CallType
    <3>2. CASE ~(~call[t].halted /\ Passes(sig, qty))
      BY <1>3, <3>2 DEF Decide, TypeOK
    <3> QED
      BY <3>1, <3>2
  <2>4. call' \in [Tasks -> {NoCall} \cup CallType]
    <3>1. call' = [call EXCEPT ![t] = call'[t]]
      BY <1>3 DEF Decide, TypeOK
    <3> QED
      BY <2>3, <3>1 DEF TypeOK
  <2>5. SwitchTypeOK'
    BY <1>3 DEF Decide, TypeOK, SwitchTypeOK
  <2> QED
    BY <1>3, <2>4, <2>5 DEF Decide, TypeOK
<1>4. ASSUME NEW t \in Tasks, Commit(t) PROVE TypeOK'
  <2>1. call[t].sig.risk \in Nat /\ call[t].qty \in Nat
    BY <1>4, CallFacts, SignalFacts DEF Commit
  <2>2. call[t].sig.risk * call[t].qty \in Nat
    BY <2>1
  <2>3. heat' \in Nat
    BY <1>4, <2>2 DEF Commit, TypeOK
  <2> QED
    BY <1>4, <2>3 DEF Commit, TypeOK, SwitchTypeOK
<1>5. ASSUME NEW t \in Tasks, LeaveEarly(t) PROVE TypeOK'
  BY <1>5 DEF LeaveEarly, TypeOK, SwitchTypeOK
<1>6. ASSUME NEW s \in Strategies, NEW pnl \in Outcomes, TradeClosed(s, pnl)
      PROVE  TypeOK'
  <2>1. pnl \in Int /\ {daily', weekly', monthly'} \subseteq Int
    <3>1. pnl \in Int /\ daily \in Int /\ weekly \in Int /\ monthly \in Int
      BY RiskAssumption DEF TypeOK
    <3> QED
      BY <1>6, <3>1 DEF TradeClosed
  <2>2. losses' \in [Strategies -> Nat]
    <3>1. Streak(s, pnl) \in Nat
      BY DEF Streak, TypeOK
    <3> QED
      BY <1>6, <3>1 DEF TradeClosed, TypeOK
  <2>3. closed' \in Seq([day : 0 .. MaxDays, strategy : Strategies,
                         pnl : Outcomes])
    BY <1>6, AppendProperties DEF TradeClosed, TypeOK
  <2>4. preservation' \in BOOLEAN
    BY <1>6, <2>1, RiskAssumption
    DEF TradeClosed, Preservation, Breached, TypeOK
  <2>5. SwitchTypeOK'
    BY <1>6 DEF TradeClosed, TypeOK, SwitchTypeOK
  <2> QED
    BY <1>6, <2>1, <2>2, <2>3, <2>4, <2>5 DEF TradeClosed, TypeOK
<1>7. CASE NewDay
  <2>1. day' \in 0 .. MaxDays
    BY <1>7, RiskAssumption DEF NewDay, TypeOK
  <2> QED
    BY <1>7, <2>1 DEF NewDay, KeepStreaks, TypeOK, SwitchTypeOK
<1>8. CASE Restart
  <2>1. restarts' \in 0 .. MaxRestarts
    BY <1>8, RiskAssumption, SMTT(30) DEF Restart, TypeOK
  <2>2. SwitchTypeOK'
    BY <1>8 DEF Restart, SwitchRestart, TypeOK, SwitchTypeOK
  <2>3. closed' \in Seq([day : 0 .. MaxDays, strategy : Strategies,
                         pnl : Outcomes])
    BY <1>8 DEF Restart
  <2>4. 0 \in Nat /\ 0 \in Int
    OBVIOUS
  <2>5. call' \in [Tasks -> {NoCall} \cup CallType]
        /\ losses' \in [Strategies -> Nat]
    BY <1>8, <2>4 DEF Restart
  <2>6. /\ heat' \in Nat /\ {daily', weekly', monthly'} \subseteq Int
        /\ paused' \in SUBSET Strategies /\ braked' \in SUBSET Strategies
        /\ preservation' \in BOOLEAN /\ day' \in 0 .. MaxDays
    BY <1>8, <2>4 DEF Restart, TypeOK
  <2> QED
    BY <2>1, <2>2, <2>3, <2>5, <2>6 DEF TypeOK
<1>9. CASE SwitchStep /\ UNCHANGED riskVars
  <2>1. SwitchTypeOK'
    BY <1>9
    DEF SwitchStep, Activate, Deactivate, ToggleFile, ToggleFlag, ShellFile,
        ShellFlag, Outage, TypeOK, SwitchTypeOK
  <2> QED
    BY <1>9, <2>1 DEF riskVars, TypeOK
<1>10. CASE UNCHANGED vars
  BY <1>10 DEF vars, TypeOK, SwitchTypeOK
<1> QED
  BY <1>1, <1>2, <1>3, <1>4, <1>5, <1>6, <1>7, <1>8, <1>9, <1>10
  DEF Next, CheckStep, LeaveStep

(* Every variable keeps its type; in particular what check() approves is     *)
(* always at least one unit, and the heat never goes negative.               *)
THEOREM RiskTypeCorrect == Spec => []TypeOK
<1>1. Init => TypeOK
  BY RiskTypeInit
<1>2. TypeOK /\ [Next]_vars => TypeOK'
  BY RiskTypeStep
<1> QED
  BY <1>1, <1>2, PTL DEF Spec

(* Only Decide approves, and nobody it knows to be halted, nor any while     *)
(* capital is preserved.                                                     *)
LEMMA NobodyEnters ==
  ASSUME TypeOK, [Next]_vars, NEW t \in Tasks,
         call[t].pc # "approved", call'[t].pc = "approved"
  PROVE  Decide(t) /\ ~call[t].halted /\ ~preservation
<1>1. Decide(t)
  <2>1. ASSUME NEW u \in Tasks,
               \/ \E sig \in Signals : BeginCheck(u, sig)
               \/ CheckStep(u) \/ LeaveStep(u)
        PROVE  Decide(t)
    <3>1. CASE u = t
      BY <2>1, <3>1
      DEF BeginCheck, CheckStep, LeaveStep, ReadFlag, Commit, LeaveEarly,
          NoCall, TypeOK
    <3>2. CASE u # t
      BY <2>1, <3>2
      DEF BeginCheck, CheckStep, LeaveStep, ReadFlag, Decide, Commit,
          LeaveEarly, TypeOK
    <3> QED
      BY <3>1, <3>2
  <2>2. CASE Restart
    BY <2>2 DEF Restart, NoCall
  <2>3. CASE UNCHANGED call
    BY <2>3
  <2> QED
    BY <2>1, <2>2, <2>3
    DEF Next, vars, riskVars, TradeClosed, NewDay
<1> QED
  BY <1>1 DEF Decide, NoCall, TypeOK, Passes, LossStop

LEMMA ApprovalStep ==
  ASSUME TypeOK, [Next]_vars, NEW t \in Tasks,
         call[t].pc = "answered", call'[t].pc = "approved"
  PROVE  /\ call[t].sig \in Signals
         /\ call'[t].qty = Size(call[t].sig)
         /\ Passes(call[t].sig, call'[t].qty)
<1>1. Decide(t)
  BY NobodyEnters
<1>2. call[t].sig \in Signals
  BY CallFacts
<1> DEFINE sig == call[t].sig
<1>3. call'[t] = [pc |-> "approved", sig |-> sig, qty |-> Size(sig)]
      /\ Passes(sig, Size(sig))
  BY <1>1 DEF Decide, NoCall, TypeOK
<1> QED
  BY <1>2, <1>3

(* Every approval respects the size asked for, the volatility cap, and the   *)
(* single-stock cap for any price up to it; while its strategy is braked, it *)
(* is within half of each.                                                   *)
THEOREM SizingKept == Spec => SizedWithinCaps
<1>1. TypeOK /\ [Next]_vars =>
        \A t \in Tasks :
          call[t].pc = "answered" /\ call'[t].pc = "approved" =>
            LET sig == call[t].sig
                q == call'[t].qty * (IF sig.strategy \in braked THEN 2 ELSE 1)
            IN  /\ q <= sig.qty
                /\ sig.price <= StockCap => q * sig.price <= StockCap
                /\ sig.volCap > 0 => q <= sig.volCap
  <2> SUFFICES ASSUME TypeOK, [Next]_vars, NEW t \in Tasks,
                      call[t].pc = "answered", call'[t].pc = "approved"
               PROVE  LET sig == call[t].sig
                          q == call'[t].qty
                                 * (IF sig.strategy \in braked THEN 2 ELSE 1)
                      IN  /\ q <= sig.qty
                          /\ sig.price <= StockCap => q * sig.price <= StockCap
                          /\ sig.volCap > 0 => q <= sig.volCap
    OBVIOUS
  <2> DEFINE sig == call[t].sig
             q == Size(sig) * (IF sig.strategy \in braked THEN 2 ELSE 1)
  <2>1. sig \in Signals /\ call'[t].qty = Size(sig)
    BY ApprovalStep
  <2>2. PICK c \in Nat :
          /\ c <= sig.qty
          /\ sig.price <= StockCap => c * sig.price <= StockCap
          /\ sig.volCap > 0 => c <= sig.volCap
          /\ Size(sig) \in Nat /\ q <= c
    BY <2>1, SizeFits
  <2>3. q \in Nat
    BY <2>2
  <2> HIDE DEF q
  <2>4. q * sig.price \in Nat /\ c * sig.price \in Nat
        /\ q * sig.price <= c * sig.price
    BY <2>1, <2>2, <2>3, SignalFacts, ProductFits
  <2>5. /\ q <= sig.qty
        /\ sig.price <= StockCap => q * sig.price <= StockCap
        /\ sig.volCap > 0 => q <= sig.volCap
    BY <2>1, <2>2, <2>3, <2>4, SignalFacts
  <2> QED
    BY <2>1, <2>5 DEF q
<1> QED
  BY <1>1, RiskTypeCorrect, PTL DEF Spec, SizedWithinCaps

(* What a check approved still fits when it is committed.                    *)
Fits(t) == call[t].pc = "approved" =>
             heat + call[t].sig.risk * call[t].qty <= HeatCap
HeatInv == heat <= HeatCap /\ \A t \in Tasks : Fits(t)

LEMMA HeatStep ==
  ASSUME \A t, u \in Tasks : t = u, TypeOK, HeatInv, [Next]_vars
  PROVE  HeatInv'
<1> USE DEF switchVars, lossVars, brakeVars
<1>1. ASSUME NEW t \in Tasks,
             \/ \E sig \in Signals : BeginCheck(t, sig)
             \/ CheckStep(t) \/ LeaveStep(t)
      PROVE  HeatInv'
  <2>1. \A u \in Tasks : u = t
    OBVIOUS
  <2>2. CASE Decide(t)
    <3>1. UNCHANGED heat
      BY <2>2 DEF Decide
    <3>2. call[t].pc = "answered"
      BY <2>2 DEF Decide
    <3>3. call'[t].pc = "approved" =>
            heat + call'[t].sig.risk * call'[t].qty <= HeatCap
      <4>1. CASE call'[t] = NoCall
        BY <4>1 DEF NoCall
      <4>2. CASE /\ call'[t] = [pc |-> "approved", sig |-> call[t].sig,
                                qty |-> Size(call[t].sig)]
                 /\ Passes(call[t].sig, Size(call[t].sig))
        BY <4>2 DEF Passes
      <4> QED
        BY <2>2, <4>1, <4>2 DEF Decide, TypeOK
    <3> QED
      BY <2>1, <3>1, <3>3 DEF HeatInv, Fits
  <2>3. CASE Commit(t)
    <3>1. call'[t].pc = "idle"
      BY <2>3 DEF Commit, NoCall, TypeOK
    <3>2. heat' <= HeatCap
      BY <2>3 DEF Commit, HeatInv, Fits
    <3> QED
      BY <2>1, <3>1, <3>2 DEF HeatInv, Fits
  <2>4. CASE \/ \E sig \in Signals : BeginCheck(t, sig)
             \/ ReadFlag(t) \/ LeaveEarly(t)
    <3>1. UNCHANGED heat
      BY <2>4 DEF BeginCheck, ReadFlag, LeaveEarly
    <3>2. call'[t].pc # "approved"
      BY <2>4 DEF BeginCheck, ReadFlag, LeaveEarly, NoCall, TypeOK
    <3> QED
      BY <2>1, <3>1, <3>2 DEF HeatInv, Fits
  <2> QED
    BY <1>1, <2>2, <2>3, <2>4 DEF CheckStep, LeaveStep
<1>2. CASE Restart
  <2>1. heat' = 0 /\ \A t \in Tasks : call'[t].pc = "idle"
    BY <1>2 DEF Restart, NoCall
  <2> QED
    BY <2>1, RiskAssumption DEF HeatInv, Fits
<1>3. CASE UNCHANGED <<call, heat>>
  BY <1>3 DEF HeatInv, Fits
<1> QED
  BY <1>1, <1>2, <1>3
  DEF Next, vars, riskVars, TradeClosed, NewDay

(* portfolio_heat never exceeds portfolio_heat_cap when submit() calls do    *)
(* not overlap.                                                              *)
THEOREM HeatCapKept ==
  ASSUME \A t, u \in Tasks : t = u
  PROVE  Spec => [](heat <= HeatCap)
<1>1. Init => TypeOK /\ HeatInv
  <2>1. SUFFICES ASSUME Init PROVE HeatInv
    BY RiskTypeInit
  <2>2. heat = 0 /\ \A t \in Tasks : call[t].pc = "idle"
    BY <2>1 DEF Init, BookInit, NoCall
  <2> QED
    BY <2>2, RiskAssumption DEF HeatInv, Fits
<1>2. TypeOK /\ HeatInv /\ [Next]_vars => TypeOK' /\ HeatInv'
  BY RiskTypeStep, HeatStep
<1>3. HeatInv => heat <= HeatCap
  BY DEF HeatInv
<1> QED
  BY <1>1, <1>2, <1>3, PTL DEF Spec

-----------------------------------------------------------------------------
(* Overlapping calls.  Every order under way asks for at most what its       *)
(* signal did; the heat and the orders under way exceed the cap by at most   *)
(* one largest order for each call but one.                                  *)
Countable == /\ IsFiniteSet(Tasks) /\ Tasks # {}
             /\ IsFiniteSet(Signals) /\ Signals # {}
Small(c) == c.pc = "approved" =>
              c.sig \in Signals /\ c.qty \in Nat /\ c.qty <= c.sig.qty
SmallOrders == \A t \in Tasks : Small(call[t])
Amount(c)   == IF c.pc = "approved" THEN c.sig.risk * c.qty ELSE 0
Amounts     == [t \in Tasks |-> Exposure(t)]

LEMMA LargestIsBound ==
  ASSUME Countable
  PROVE  /\ Largest \in Nat
         /\ \A sig \in Signals : sig.risk * sig.qty <= Largest
<1> DEFINE M == {sig.risk * sig.qty : sig \in Signals}
           f == [sig \in Signals |-> sig.risk * sig.qty]
<1>1. \A sig \in Signals : sig.risk * sig.qty \in Nat
  <2>1. SUFFICES ASSUME NEW sig \in Signals PROVE sig.risk * sig.qty \in Nat
    OBVIOUS
  <2> DEFINE a == sig.risk
             b == sig.qty
  <2>2. a \in Nat /\ b \in Nat
    BY SignalFacts
  <2> HIDE DEF a, b
  <2>3. a * b \in Nat
    BY <2>2
  <2> QED
    BY <2>3 DEF a, b
<1>2. M \subseteq Nat /\ M # {}
  BY <1>1 DEF Countable
<1>3. f \in Surjection(Signals, M)
  BY DEF Surjection
<1>4. IsFiniteSet(M)
  BY <1>3, FS_Surjection DEF Countable
<1>5. \A sig \in Signals : sig.risk * sig.qty \in M
  OBVIOUS
<1> HIDE DEF M
<1>6. M \in SUBSET Int
  BY <1>2
<1>7. Max(M) \in M /\ \A x \in M : x <= Max(M)
  BY <1>2, <1>4, <1>6, GreatestMember
<1> QED
  BY <1>2, <1>5, <1>7 DEF Largest, M

LEMMA AmountFits ==
  ASSUME Countable, NEW c, Small(c)
  PROVE  Amount(c) \in Nat /\ Amount(c) <= Largest
<1>1. CASE c.pc # "approved"
  BY <1>1, LargestIsBound DEF Amount
<1>2. CASE c.pc = "approved"
  <2> DEFINE a == c.sig.risk
             b == c.sig.qty
             q == c.qty
  <2>1. c.sig \in Signals /\ q \in Nat /\ q <= b
    BY <1>2 DEF Small
  <2>2. a \in Nat /\ b \in Nat /\ a * b <= Largest
    BY <2>1, SignalFacts, LargestIsBound
  <2>3. Amount(c) = a * q
    BY <1>2 DEF Amount
  <2> HIDE DEF a, b, q
  <2>4. a * q \in Nat /\ a * b \in Nat /\ a * q <= a * b
    <3>1. q * a \in Nat /\ b * a \in Nat /\ q * a <= b * a
      BY <2>1, <2>2, ProductFits
    <3> QED
      BY <2>1, <2>2, <3>1
  <2>5. Largest \in Nat
    BY LargestIsBound
  <2> HIDE DEF Largest
  <2> QED
    BY <2>2, <2>3, <2>4, <2>5
<1> QED
  BY <1>1, <1>2

(* All but one of the tasks have at most b each.                             *)
LEMMA OthersFit ==
  ASSUME Countable, NEW f, NEW t \in Tasks, NEW b \in Nat,
         \A u \in Tasks : f[u] \in Int /\ f[u] <= b
  PROVE  /\ (Cardinality(Tasks) - 1) * b \in Nat
         /\ SumFunctionOnSet(f, Tasks)
              <= f[t] + (Cardinality(Tasks) - 1) * b
<1> DEFINE others == Tasks \ {t}
           n == Cardinality(others)
           s == SumFunctionOnSet(f, others)
<1>1. IsFiniteSet(Tasks) /\ IsFiniteSet(others)
  BY FS_RemoveElement DEF Countable
<1>2. n = Cardinality(Tasks) - 1 /\ n \in Nat
  BY <1>1, FS_RemoveElement, FS_CardinalityType
<1>3. s <= n * b
  BY <1>1, SumBounded
<1>4. s \in Int /\ f[t] \in Int
  BY <1>1, SumIsInteger
<1>5. SumFunctionOnSet(f, Tasks) = f[t] + s
  BY <1>1, SumTakesAny
<1> HIDE DEF n, s
<1>6. n * b \in Nat
  BY <1>2
<1>7. n * b = (Cardinality(Tasks) - 1) * b
  BY <1>2
<1> QED
  BY <1>3, <1>4, <1>5, <1>6, <1>7

OverrunInv == SmallOrders /\ HeatOverrunBounded

LEMMA SmallOrdersStep ==
  ASSUME TypeOK, SmallOrders, [Next]_vars PROVE SmallOrders'
<1> SUFFICES ASSUME NEW t \in Tasks PROVE Small(call'[t])
  BY DEF SmallOrders
<1>1. CASE call'[t] = call[t]
  BY <1>1 DEF SmallOrders
<1>2. CASE Decide(t)
  <2> DEFINE sig == call[t].sig
  <2>1. sig \in Signals
    BY <1>2, CallFacts DEF Decide
  <2>2. Size(sig) \in Nat /\ sig.qty \in Nat /\ Size(sig) <= sig.qty
    BY <2>1, SizeFits, SignalFacts
  <2>3. \/ call'[t] = NoCall
        \/ call'[t] = [pc |-> "approved", sig |-> sig, qty |-> Size(sig)]
    BY <1>2 DEF Decide, TypeOK
  <2> QED
    BY <2>1, <2>2, <2>3 DEF Small, NoCall
<1>3. call'[t] = call[t] \/ Decide(t) \/ call'[t].pc # "approved"
  <2>1. ASSUME NEW u \in Tasks,
               \/ \E sig \in Signals : BeginCheck(u, sig)
               \/ CheckStep(u) \/ LeaveStep(u)
        PROVE  call'[t] = call[t] \/ Decide(t) \/ call'[t].pc # "approved"
    <3>1. CASE u = t
      BY <2>1, <3>1
      DEF BeginCheck, CheckStep, LeaveStep, ReadFlag, Commit, LeaveEarly,
          NoCall, TypeOK
    <3>2. CASE u # t
      BY <2>1, <3>2
      DEF BeginCheck, CheckStep, LeaveStep, ReadFlag, Decide, Commit,
          LeaveEarly, TypeOK
    <3> QED
      BY <3>1, <3>2
  <2>2. CASE Restart
    BY <2>2 DEF Restart, NoCall
  <2>3. CASE UNCHANGED call
    BY <2>3
  <2> QED
    BY <2>1, <2>2, <2>3
    DEF Next, vars, riskVars, TradeClosed, NewDay
<1> QED
  BY <1>1, <1>2, <1>3 DEF Small

LEMMA AmountsFit ==
  ASSUME Countable, SmallOrders
  PROVE  /\ IsFiniteSet(Tasks) /\ Largest \in Nat
         /\ \A t \in Tasks : /\ Amounts[t] = Amount(call[t])
                             /\ Amounts[t] \in Nat /\ Amounts[t] <= Largest
         /\ InFlight = SumFunctionOnSet(Amounts, Tasks) /\ InFlight \in Int
<1>1. IsFiniteSet(Tasks) /\ Largest \in Nat
  BY LargestIsBound DEF Countable
<1>2. \A t \in Tasks : /\ Amounts[t] = Amount(call[t])
                       /\ Amounts[t] \in Nat /\ Amounts[t] <= Largest
  <2>1. \A t \in Tasks : Amounts[t] = Amount(call[t])
    BY DEF Amounts, Amount, Exposure
  <2> QED
    BY <2>1, AmountFits DEF SmallOrders
<1>3. InFlight = SumFunctionOnSet(Amounts, Tasks)
  BY DEF InFlight, Amounts
<1>4. SumFunctionOnSet(Amounts, Tasks) \in Int
  BY <1>1, <1>2, SumIsInteger
<1> QED
  BY <1>1, <1>2, <1>3, <1>4

LEMMA AmountsFitNext ==
  ASSUME Countable, SmallOrders'
  PROVE  /\ \A t \in Tasks : /\ Amounts'[t] = Amount(call'[t])
                             /\ Amounts'[t] \in Nat /\ Amounts'[t] <= Largest
         /\ InFlight' = SumFunctionOnSet(Amounts', Tasks)
<1>1. \A t \in Tasks : Amounts'[t] = Amount(call'[t])
  BY DEF Amounts, Amount, Exposure
<1>2. InFlight' = SumFunctionOnSet(Amounts', Tasks)
  BY DEF InFlight, Amounts
<1> QED
  BY <1>1, <1>2, AmountFits DEF SmallOrders

(* One task moves: the orders under way change by its own.                   *)
LEMMA InFlightChanges ==
  ASSUME Countable, SmallOrders, SmallOrders', NEW t \in Tasks,
         \A u \in Tasks \ {t} : call'[u] = call[u]
  PROVE  InFlight' = InFlight + Amount(call'[t]) - Amount(call[t])
<1>1. \A u \in Tasks : Amounts[u] \in Int /\ Amounts'[u] \in Int
  BY AmountsFit, AmountsFitNext
<1>2. \A u \in Tasks \ {t} : Amounts'[u] = Amounts[u]
  BY AmountsFit, AmountsFitNext
<1>3. SumFunctionOnSet(Amounts', Tasks)
        = SumFunctionOnSet(Amounts, Tasks) + Amounts'[t] - Amounts[t]
  BY <1>1, <1>2, AmountsFit, SumChanges
<1> QED
  BY <1>3, AmountsFit, AmountsFitNext

LEMMA OverrunStep ==
  ASSUME Countable, TypeOK, OverrunInv, [Next]_vars
  PROVE  OverrunInv'
<1> USE DEF switchVars, lossVars, brakeVars
<1> DEFINE slack == (Cardinality(Tasks) - 1) * Largest
<1>1. SmallOrders /\ SmallOrders'
  BY SmallOrdersStep DEF OverrunInv
<1>2. slack \in Nat
  <2>1. Largest \in Nat /\ IsFiniteSet(Tasks) /\ Tasks # {}
    BY LargestIsBound DEF Countable
  <2>2. Cardinality(Tasks) \in Nat /\ Cardinality(Tasks) # 0
    BY <2>1, FS_CardinalityType, FS_EmptySet
  <2> DEFINE n == Cardinality(Tasks) - 1
  <2>3. n \in Nat
    BY <2>2
  <2> HIDE DEF n, Largest
  <2>4. n * Largest \in Nat
    BY <2>1, <2>3
  <2> QED
    BY <2>4 DEF n
<1>3. heat + InFlight <= HeatCap + slack
  BY DEF OverrunInv, HeatOverrunBounded
<1>4. InFlight \in Int /\ heat \in Nat /\ HeatCap \in Nat
  BY <1>1, AmountsFit, RiskAssumption DEF TypeOK
<1> HIDE DEF slack
<1>5. SUFFICES heat' + InFlight' <= HeatCap + slack
  BY <1>1 DEF OverrunInv, HeatOverrunBounded, slack
<1>6. ASSUME NEW t \in Tasks,
             \/ \E sig \in Signals : BeginCheck(t, sig)
             \/ CheckStep(t) \/ LeaveStep(t)
      PROVE  heat' + InFlight' <= HeatCap + slack
  <2>1. \A u \in Tasks \ {t} : call'[u] = call[u]
    BY <1>6
    DEF BeginCheck, CheckStep, LeaveStep, ReadFlag, Decide, Commit,
        LeaveEarly, TypeOK
  <2> DEFINE old == Amount(call[t])
             new == Amount(call'[t])
  <2>2. InFlight' = InFlight + new - old
    BY <1>1, <2>1, InFlightChanges
  <2>3. old \in Nat /\ new \in Nat
    BY <1>1, AmountFits DEF SmallOrders
  <2>4. CASE Commit(t)
    <3>1. heat' = heat + old /\ new = 0
      BY <2>4 DEF Commit, NoCall, Amount, TypeOK
    <3> HIDE DEF old, new
    <3> QED
      BY <1>3, <1>4, <2>2, <2>3, <3>1
  <2>5. CASE /\ Decide(t) /\ Passes(call[t].sig, Size(call[t].sig))
             /\ call'[t] = [pc |-> "approved", sig |-> call[t].sig,
                            qty |-> Size(call[t].sig)]
    <3>1. heat' = heat /\ heat + new <= HeatCap
      BY <2>5 DEF Decide, Passes, Amount
    <3>2. InFlight' <= new + slack
      <4>1. Largest \in Nat
        BY LargestIsBound
      <4>2. \A u \in Tasks : Amounts'[u] \in Int /\ Amounts'[u] <= Largest
        BY <1>1, AmountsFitNext
      <4>3. SumFunctionOnSet(Amounts', Tasks) <= Amounts'[t] + slack
        BY <4>1, <4>2, OthersFit DEF slack
      <4>4. Amounts'[t] = new /\ InFlight' = SumFunctionOnSet(Amounts', Tasks)
        BY <1>1, AmountsFitNext
      <4> HIDE DEF new
      <4> QED
        BY <4>3, <4>4
    <3> DEFINE later == InFlight + new - old
    <3> HIDE DEF old, new
    <3>3. later \in Int /\ later <= new + slack
      BY <1>4, <2>2, <2>3, <3>2
    <3>4. InFlight' = later
      BY <2>2
    <3> HIDE DEF later
    <3>5. heat + later <= HeatCap + slack
      BY <1>2, <1>4, <2>3, <3>1, <3>3
    <3> QED
      BY <3>1, <3>4, <3>5
  <2>6. CASE heat' = heat /\ call'[t].pc # "approved"
    <3>1. new = 0
      BY <2>6 DEF Amount
    <3> HIDE DEF old, new
    <3> QED
      BY <1>2, <1>3, <1>4, <2>2, <2>3, <2>6, <3>1
  <2> HIDE DEF old, new
  <2>7. CASE Decide(t)
    <3>1. heat' = heat
      BY <2>7 DEF Decide
    <3>2. CASE ~call[t].halted /\ Passes(call[t].sig, Size(call[t].sig))
      <4>1. call'[t] = [pc |-> "approved", sig |-> call[t].sig,
                        qty |-> Size(call[t].sig)]
        BY <2>7, <3>2 DEF Decide, TypeOK
      <4> QED
        BY <2>5, <2>7, <3>2, <4>1
    <3>3. CASE ~(~call[t].halted /\ Passes(call[t].sig, Size(call[t].sig)))
      <4>1. call'[t] = NoCall
        BY <2>7, <3>3 DEF Decide, TypeOK
      <4> QED
        BY <2>6, <3>1, <4>1 DEF NoCall
    <3> QED
      BY <3>2, <3>3
  <2>8. CASE \/ \E sig \in Signals : BeginCheck(t, sig)
             \/ ReadFlag(t) \/ LeaveEarly(t)
    BY <2>6, <2>8 DEF BeginCheck, ReadFlag, LeaveEarly, NoCall, TypeOK
  <2> QED
    BY <1>6, <2>4, <2>7, <2>8 DEF CheckStep, LeaveStep
<1>7. CASE Restart
  <2>1. heat' = 0 /\ \A t \in Tasks : Amount(call'[t]) = 0
    BY <1>7 DEF Restart, NoCall, Amount
  <2>2. \A t \in Tasks : Amounts'[t] \in Int /\ Amounts'[t] <= 0
    BY <1>1, <2>1, AmountsFitNext
  <2>3. PICK t \in Tasks : TRUE
    BY DEF Countable
  <2>4. SumFunctionOnSet(Amounts', Tasks)
          <= Amounts'[t] + (Cardinality(Tasks) - 1) * 0
    BY <2>2, OthersFit
  <2>5. (Cardinality(Tasks) - 1) * 0 = 0 /\ Amounts'[t] = 0
        /\ InFlight' = SumFunctionOnSet(Amounts', Tasks)
    <3>1. Cardinality(Tasks) \in Int
      BY FS_CardinalityType DEF Countable
    <3>2. (Cardinality(Tasks) - 1) * 0 = 0
      BY <3>1
    <3> QED
      BY <1>1, <2>1, <3>2, AmountsFitNext
  <2>6. SumFunctionOnSet(Amounts', Tasks) \in Int
    BY <1>1, <2>2, AmountsFit, SumIsInteger
  <2> QED
    BY <1>2, <1>4, <2>1, <2>4, <2>5, <2>6
<1>8. CASE UNCHANGED <<call, heat>>
  <2>1. InFlight' = InFlight
    BY <1>8 DEF InFlight, Exposure
  <2> QED
    BY <1>3, <1>8, <2>1
<1> QED
  BY <1>6, <1>7, <1>8
  DEF Next, vars, riskVars, TradeClosed, NewDay

(* However many submit() calls overlap, what was committed and what is under *)
(* way exceed portfolio_heat_cap by at most one largest order for each call  *)
(* but one.  (HeatCapKept is the case of a single call.)                     *)
THEOREM OverrunIsBounded ==
  ASSUME Countable
  PROVE  Spec => []HeatOverrunBounded
<1>1. Init => TypeOK /\ OverrunInv
  <2>1. SUFFICES ASSUME Init PROVE OverrunInv
    BY RiskTypeInit
  <2>2. heat = 0 /\ \A t \in Tasks : call[t] = NoCall
    BY <2>1 DEF Init, BookInit
  <2>3. SmallOrders /\ \A t \in Tasks : Amount(call[t]) = 0
    BY <2>2 DEF SmallOrders, Small, Amount, NoCall
  <2>4. PICK t \in Tasks : TRUE
    BY DEF Countable
  <2>5. \A u \in Tasks : Amounts[u] \in Int /\ Amounts[u] <= Largest
    BY <2>3, AmountsFit
  <2>6. /\ (Cardinality(Tasks) - 1) * Largest \in Nat
        /\ SumFunctionOnSet(Amounts, Tasks)
             <= Amounts[t] + (Cardinality(Tasks) - 1) * Largest
    BY <2>5, LargestIsBound, OthersFit
  <2>7. Amounts[t] = 0 /\ InFlight = SumFunctionOnSet(Amounts, Tasks)
        /\ InFlight \in Int
    BY <2>3, AmountsFit
  <2> DEFINE slack == (Cardinality(Tasks) - 1) * Largest
  <2> HIDE DEF slack
  <2>8. heat + InFlight <= HeatCap + slack
    BY <2>2, <2>6, <2>7, RiskAssumption DEF slack
  <2> QED
    BY <2>3, <2>8 DEF OverrunInv, HeatOverrunBounded, slack
<1>2. TypeOK /\ OverrunInv /\ [Next]_vars => TypeOK' /\ OverrunInv'
  BY RiskTypeStep, OverrunStep
<1>3. OverrunInv => HeatOverrunBounded
  BY DEF OverrunInv
<1> QED
  BY <1>1, <1>2, <1>3, PTL DEF Spec

-----------------------------------------------------------------------------
(* Streaks, pauses and brakes.  No trade of the book is of a later session.  *)
DaysPast == \A i \in DOMAIN closed : closed[i].day <= day
BookInv  == DaysPast /\ BrakesMatchBook

LEMMA RunFinite ==
  ASSUME NEW s, NEW k \in Nat
  PROVE  IsFiniteSet(LosingRun(s, k)) /\ StreakAt(s, k) \in Nat
<1>1. IsFiniteSet(1 .. k) /\ LosingRun(s, k) \subseteq 1 .. k
  BY FS_Interval DEF LosingRun
<1>2. IsFiniteSet(LosingRun(s, k))
  BY <1>1, FS_Subset
<1> QED
  BY <1>2, FS_CardinalityType DEF StreakAt

(* One more trade: the earlier streaks stay, and its strategy's is one       *)
(* longer or over.                                                           *)
OneMoreTrade(s, pnl, n) ==
  /\ n \in Nat /\ Len(closed') = n + 1
  /\ \A i \in 1 .. n : closed'[i] = closed[i]
  /\ closed'[n + 1] = [day |-> day, strategy |-> s, pnl |-> pnl]
NextStreak(r, s, pnl, n) ==
  /\ \A k \in 0 .. n : StreakAt(r, k)' = StreakAt(r, k)
  /\ r # s => StreakAt(r, n + 1)' = StreakAt(r, n)
  /\ r = s => StreakAt(r, n + 1)' =
                IF pnl < 0 THEN StreakAt(r, n) + 1 ELSE 0

LEMMA StreaksGrow ==
  ASSUME TypeOK, NEW s \in Strategies, NEW pnl \in Outcomes,
         TradeClosed(s, pnl), NEW r \in Strategies, NEW n, n = Len(closed)
  PROVE  OneMoreTrade(s, pnl, n) /\ NextStreak(r, s, pnl, n)
<1> DEFINE c == [day |-> day, strategy |-> s, pnl |-> pnl]
<1>1. /\ n \in Nat /\ Len(closed') = n + 1
      /\ \A i \in 1 .. n : closed'[i] = closed[i]
      /\ closed'[n + 1] = c
  BY DEF TradeClosed, TypeOK
<1> DEFINE Loses(d, i, k) ==
             /\ d[i].strategy = r
             /\ \A j \in i .. k : d[j].strategy = r => d[j].pnl < 0
<1>a. \A k : /\ LosingRun(r, k) = {i \in 1 .. k : Loses(closed, i, k)}
            /\ LosingRun(r, k)' = {i \in 1 .. k : Loses(closed', i, k)}
  BY DEF LosingRun
<1>f. /\ LosingRun(r, n) = {i \in 1 .. n : Loses(closed, i, n)}
      /\ LosingRun(r, n + 1)' = {i \in 1 .. n + 1 : Loses(closed', i, n + 1)}
  BY DEF LosingRun
<1>b. \A k \in 0 .. n : \A i \in 1 .. k :
        Loses(closed', i, k) <=> Loses(closed, i, k)
  BY <1>1
<1>c. \A i \in 1 .. n :
        Loses(closed', i, n + 1) <=>
          Loses(closed, i, n) /\ (s = r => pnl < 0)
  <2>1. SUFFICES ASSUME NEW i \in 1 .. n
                 PROVE  Loses(closed', i, n + 1) <=>
                          Loses(closed, i, n) /\ (s = r => pnl < 0)
    OBVIOUS
  <2>2. \A j : j \in i .. n + 1 <=> j \in i .. n \/ j = n + 1
    BY <1>1, <2>1
  <2>3. c.strategy = s /\ c.pnl = pnl
    OBVIOUS
  <2>4. \A j \in i .. n : j \in 1 .. n
    BY <1>1, <2>1
  <2> HIDE DEF c
  <2> QED
    BY <1>1, <2>2, <2>3, <2>4, Zenon
<1>d. Loses(closed', n + 1, n + 1) <=> s = r /\ pnl < 0
  <2>1. \A j : j \in n + 1 .. n + 1 <=> j = n + 1
    BY <1>1
  <2>2. c.strategy = s /\ c.pnl = pnl
    OBVIOUS
  <2> HIDE DEF c
  <2> QED
    BY <1>1, <2>1, <2>2, Zenon
<1>e. /\ \A i : i \in 1 .. n + 1 <=> i \in 1 .. n \/ i = n + 1
      /\ n + 1 \notin 1 .. n
  BY <1>1
<1> HIDE DEF Loses
<1>2. \A k \in 0 .. n : LosingRun(r, k)' = LosingRun(r, k)
  BY <1>a, <1>b
<1>3. \A k \in 0 .. n : StreakAt(r, k)' = StreakAt(r, k)
  BY <1>2 DEF StreakAt
<1>g. \A i : i \in LosingRun(r, n + 1)' <=>
              \/ i \in LosingRun(r, n) /\ (s = r => pnl < 0)
              \/ i = n + 1 /\ s = r /\ pnl < 0
  BY <1>c, <1>d, <1>e, <1>f, Zenon
<1>4. r # s => LosingRun(r, n + 1)' = LosingRun(r, n)
  BY <1>g, Zenon
<1>5. r = s /\ pnl < 0 => LosingRun(r, n + 1)' = LosingRun(r, n) \cup {n + 1}
  BY <1>g, Zenon
<1>6. r = s /\ ~(pnl < 0) => LosingRun(r, n + 1)' = {}
  BY <1>g, Zenon
<1>7. IsFiniteSet(LosingRun(r, n)) /\ n + 1 \notin LosingRun(r, n)
  BY <1>1, <1>a, <1>e, RunFinite
<1>8. Cardinality(LosingRun(r, n) \cup {n + 1})
        = Cardinality(LosingRun(r, n)) + 1
  BY <1>7, FS_AddElement
<1>9. Cardinality({}) = 0
  BY FS_EmptySet
<1>10. r # s => StreakAt(r, n + 1)' = StreakAt(r, n)
  BY <1>4 DEF StreakAt
<1>11. r = s => StreakAt(r, n + 1)' =
                  IF pnl < 0 THEN StreakAt(r, n) + 1 ELSE 0
  BY <1>5, <1>6, <1>8, <1>9 DEF StreakAt
<1> QED
  BY <1>1, <1>3, <1>10, <1>11 DEF OneMoreTrade, NextStreak

LEMMA BookType ==
  ASSUME TypeOK, NEW i \in DOMAIN closed
  PROVE  closed[i].day \in Int /\ day \in Int
<1> DEFINE Trades == [day : 0 .. MaxDays, strategy : Strategies, pnl : Outcomes]
<1>1. \A c \in Trades : c.day \in Int
  OBVIOUS
<1>2. closed \in Seq(Trades) /\ day \in Int
  BY RiskAssumption DEF TypeOK
<1> HIDE DEF Trades
<1>3. closed[i] \in Trades
  BY <1>2
<1> QED
  BY <1>1, <1>2, <1>3

LEMMA TodayGrows ==
  ASSUME TypeOK, NEW s \in Strategies, NEW pnl \in Outcomes,
         TradeClosed(s, pnl), NEW r \in Strategies, NEW n, n = Len(closed)
  PROVE  \A k : k \in StreaksToday(r)' <=>
           k \in StreaksToday(r) \/ (r = s /\ k = StreakAt(r, n + 1)')
<1>1. n \in Nat /\ DOMAIN closed = 1 .. n
  BY DEF TypeOK
<1>2. /\ Len(closed') = n + 1
      /\ \A i \in 1 .. n : closed'[i] = closed[i]
      /\ closed'[n + 1].day = day /\ closed'[n + 1].strategy = s
      /\ \A k \in 0 .. n : StreakAt(r, k)' = StreakAt(r, k)
  <2>1. OneMoreTrade(s, pnl, n) /\ NextStreak(r, s, pnl, n)
    BY StreaksGrow
  <2> QED
    BY <2>1 DEF OneMoreTrade, NextStreak
<1>3. DOMAIN closed' = 1 .. n + 1
  BY <1>1, <1>2 DEF TradeClosed, TypeOK
<1>4. /\ \A i : i \in 1 .. n + 1 <=> i \in 1 .. n \/ i = n + 1
      /\ \A i \in 1 .. n : i \in 0 .. n
  BY <1>1
<1>5. day' = day
  BY DEF TradeClosed
<1>6. \A k : k \in StreaksToday(r) <=>
               \E i \in 1 .. n : /\ closed[i].day = day
                                 /\ closed[i].strategy = r
                                 /\ k = StreakAt(r, i)
  BY <1>1 DEF StreaksToday
<1>7. \A k : k \in StreaksToday(r)' <=>
               \E i \in 1 .. n + 1 : /\ closed'[i].day = day
                                     /\ closed'[i].strategy = r
                                     /\ k = StreakAt(r, i)'
  BY <1>3, <1>5 DEF StreaksToday
<1> DEFINE P(i, k) == /\ closed'[i].day = day
                      /\ closed'[i].strategy = r
                      /\ k = StreakAt(r, i)'
<1>8. \A k : \A i \in 1 .. n :
        P(i, k) <=> /\ closed[i].day = day
                    /\ closed[i].strategy = r
                    /\ k = StreakAt(r, i)
  BY <1>2, <1>4
<1>9. \A k : P(n + 1, k) <=> r = s /\ k = StreakAt(r, n + 1)'
  BY <1>2
<1>10. \A k : k \in StreaksToday(r)' <=> \E i \in 1 .. n + 1 : P(i, k)
  BY <1>7
<1> HIDE DEF P
<1>11. \A k : (\E i \in 1 .. n + 1 : P(i, k))
                 <=> (\E i \in 1 .. n : P(i, k)) \/ P(n + 1, k)
  BY <1>4, Zenon
<1>12. \A k : k \in StreaksToday(r) <=> \E i \in 1 .. n : P(i, k)
  BY <1>6, <1>8, Zenon
<1> QED
  BY <1>9, <1>10, <1>11, <1>12, Zenon

LEMMA BookStep ==
  ASSUME TypeOK, BookInv, [Next]_vars
  PROVE  BookInv'
<1> USE DEF switchVars, lossVars, brakeVars
<1>1. CASE UNCHANGED <<closed, day, losses, paused, braked>>
  <2>1. \A s, k : StreakAt(s, k)' = StreakAt(s, k)
    BY <1>1 DEF StreakAt, LosingRun
  <2>2. \A s : StreaksToday(s)' = StreaksToday(s)
    BY <1>1, <2>1 DEF StreaksToday
  <2>3. \A s : StreakAt(s, Len(closed))' = StreakAt(s, Len(closed))
    BY <1>1 DEF StreakAt, LosingRun
  <2> QED
    BY <1>1, <2>2, <2>3 DEF BookInv, DaysPast, BrakesMatchBook
<1>2. ASSUME NEW s \in Strategies, NEW pnl \in Outcomes, TradeClosed(s, pnl)
      PROVE  BookInv'
  <2>1. PICK n : n = Len(closed)
    OBVIOUS
  <2>2. /\ n \in Nat /\ Len(closed') = n + 1
        /\ \A i \in 1 .. n : closed'[i] = closed[i]
        /\ closed'[n + 1].day = day
    <3>1. OneMoreTrade(s, pnl, n)
      BY <1>2, <2>1, StreaksGrow
    <3> QED
      BY <3>1 DEF OneMoreTrade
  <2>3. DaysPast'
    <3>1. DOMAIN closed' = 1 .. n + 1 /\ DOMAIN closed = 1 .. n
      BY <1>2, <2>1, <2>2 DEF TradeClosed, TypeOK
    <3>2. \A i : i \in 1 .. n + 1 <=> i \in 1 .. n \/ i = n + 1
      BY <2>2
    <3>3. day' = day /\ day <= day
      BY <1>2 DEF TradeClosed, TypeOK
    <3> QED
      BY <2>2, <3>1, <3>2, <3>3 DEF DaysPast, BookInv
  <2>4. ASSUME NEW r \in Strategies
        PROVE  (/\ losses[r] = StreakAt(r, Len(closed))
                /\ r \in paused <=> \E k \in StreaksToday(r) : k >= HardPause
                /\ r \in braked <=> \E k \in StreaksToday(r) :
                                      k >= SoftBrake /\ k < HardPause)'
    <3>1. /\ losses[r] = StreakAt(r, n)
          /\ r \in paused <=> \E k \in StreaksToday(r) : k >= HardPause
          /\ r \in braked <=> \E k \in StreaksToday(r) :
                                k >= SoftBrake /\ k < HardPause
      BY <2>1 DEF BookInv, BrakesMatchBook
    <3> DEFINE now == StreakAt(r, n + 1)'
    <3>2. losses'[r] = IF r = s THEN Streak(s, pnl) ELSE losses[r]
      BY <1>2 DEF TradeClosed, TypeOK
    <3>3. /\ r # s => now = StreakAt(r, n)
          /\ r = s => now = Streak(s, pnl)
      <4>1. NextStreak(r, s, pnl, n)
        BY <1>2, <2>1, StreaksGrow
      <4> QED
        BY <3>1, <4>1 DEF NextStreak, Streak
    <3>4. losses'[r] = StreakAt(r, Len(closed))'
      <4>1. StreakAt(r, Len(closed))' = now
        BY <2>2 DEF StreakAt, LosingRun
      <4> QED
        BY <3>1, <3>2, <3>3, <4>1
    <3>5. \A k : k \in StreaksToday(r)' <=>
                   k \in StreaksToday(r) \/ (r = s /\ k = now)
      BY <1>2, <2>1, TodayGrows
    <3>6. r \in paused' <=> r \in paused \/ (r = s /\ now >= HardPause)
      BY <1>2, <3>3 DEF TradeClosed
    <3>7. r \in braked' <=> r \in braked \/ (r = s /\ now >= SoftBrake
                                                    /\ now < HardPause)
      BY <1>2, <3>3 DEF TradeClosed
    <3> HIDE DEF now
    <3>8. r \in paused' <=> \E k \in StreaksToday(r)' : k >= HardPause
      BY <3>1, <3>5, <3>6, Zenon
    <3>9. r \in braked' <=> \E k \in StreaksToday(r)' :
                              k >= SoftBrake /\ k < HardPause
      BY <3>1, <3>5, <3>7, Zenon
    <3> QED
      BY <3>4, <3>8, <3>9
  <2> QED
    BY <2>3, <2>4 DEF BookInv, BrakesMatchBook
<1>3. CASE NewDay
  <2>1. /\ closed' = closed /\ losses' = losses /\ day' = day + 1
        /\ paused' = {} /\ braked' = {}
    BY <1>3 DEF NewDay, KeepStreaks
  <2>2. \A i \in DOMAIN closed : /\ closed[i].day # day + 1
                                 /\ closed[i].day <= day + 1
    BY BookType DEF BookInv, DaysPast
  <2>3. DaysPast'
    BY <2>1, <2>2 DEF DaysPast
  <2>4. \A s \in Strategies : StreaksToday(s)' = {}
    BY <2>1, <2>2 DEF StreaksToday
  <2>5. \A s \in Strategies : losses'[s] = StreakAt(s, Len(closed))'
    BY <2>1 DEF BookInv, BrakesMatchBook, StreakAt, LosingRun
  <2> QED
    BY <2>1, <2>3, <2>4, <2>5, Zenon DEF BookInv, BrakesMatchBook
<1>4. CASE Restart
  <2>1. /\ closed' = <<>> /\ paused' = {} /\ braked' = {}
        /\ losses' = [s \in Strategies |-> 0]
    BY <1>4 DEF Restart
  <2>2. \A s \in Strategies : StreaksToday(s)' = {}
    BY <2>1 DEF StreaksToday
  <2>3. \A s \in Strategies : StreakAt(s, Len(closed))' = 0
    BY <2>1, FS_EmptySet DEF StreakAt, LosingRun
  <2>4. DaysPast'
    BY <2>1 DEF DaysPast
  <2> QED
    BY <2>1, <2>2, <2>3, <2>4 DEF BookInv, BrakesMatchBook
<1>5. CASE UNCHANGED <<lossVars, brakeVars, day>>
  BY <1>1, <1>5
<1> QED
  BY <1>2, <1>3, <1>4, <1>5
  DEF Next, vars, riskVars, BeginCheck, CheckStep, LeaveStep, ReadFlag,
      Decide, Commit, LeaveEarly

(* consecutive_losses, paused_today and size_multiplier say what the trades  *)
(* closed since start-up say: the streak counts across sessions, and a       *)
(* strategy is paused (braked) exactly if a trade of this session closed on  *)
(* a streak of that length.                                                  *)
THEOREM BrakesAreEarned == Spec => []BrakesMatchBook
<1>1. Init => TypeOK /\ BookInv
  <2>1. SUFFICES ASSUME Init PROVE BookInv
    BY RiskTypeInit
  <2>2. /\ closed = <<>> /\ paused = {} /\ braked = {}
        /\ losses = [s \in Strategies |-> 0]
    BY <2>1 DEF Init, BookInit
  <2>3. \A s \in Strategies : StreaksToday(s) = {}
    BY <2>2 DEF StreaksToday
  <2>4. \A s \in Strategies : StreakAt(s, Len(closed)) = 0
    BY <2>2, FS_EmptySet DEF StreakAt, LosingRun
  <2> QED
    BY <2>2, <2>3, <2>4 DEF BookInv, DaysPast, BrakesMatchBook
<1>2. TypeOK /\ BookInv /\ [Next]_vars => TypeOK' /\ BookInv'
  BY RiskTypeStep, BookStep
<1>3. BookInv => BrakesMatchBook
  BY DEF BookInv
<1> QED
  BY <1>1, <1>2, <1>3, PTL DEF Spec

-----------------------------------------------------------------------------
(* Halts and capital preservation: the safety half of HaltDrains and of      *)
(* PreservedForGood.  What they add to it is that the checks under way end.  *)

(* The mode outlasts everything but a restart, and those are counted.        *)
Breach   == monthly <= -MonthlyLimit => preservation
Since(r) == restarts > r \/ (restarts = r /\ preservation)

LEMMA BreachStep == TypeOK /\ Breach /\ [Next]_vars => Breach'
<1> SUFFICES ASSUME TypeOK, Breach, [Next]_vars PROVE Breach'
  OBVIOUS
<1>1. ASSUME NEW s \in Strategies, NEW pnl \in Outcomes, TradeClosed(s, pnl)
      PROVE  Breach'
  BY <1>1 DEF TradeClosed, Preservation, Breached, Breach
<1>2. CASE Restart
  BY <1>2, RiskAssumption DEF Restart, Breach
<1>3. CASE UNCHANGED <<monthly, preservation>>
  BY <1>3 DEF Breach
<1> QED
  BY <1>1, <1>2, <1>3
  DEF Next, vars, riskVars, lossVars, BeginCheck, CheckStep, LeaveStep,
      ReadFlag, Decide, Commit, LeaveEarly, NewDay

LEMMA SinceStep ==
  ASSUME NEW r \in Nat, TypeOK, Since(r), [Next]_vars
  PROVE  Since(r)' /\ (restarts' = r => preservation)
<1>1. restarts \in Nat
  BY RiskAssumption DEF TypeOK
<1>2. CASE Restart
  BY <1>1, <1>2 DEF Restart, Since
<1>3. CASE restarts' = restarts /\ (preservation => preservation')
  BY <1>1, <1>3 DEF Since
<1>4. Restart \/ (restarts' = restarts /\ (preservation => preservation'))
  BY DEF Next, vars, riskVars, lossVars, BeginCheck, CheckStep, LeaveStep,
         ReadFlag, Decide, Commit, LeaveEarly, NewDay, TradeClosed, Preservation
<1> QED
  BY <1>2, <1>3, <1>4

(* Once the month's limit was reached check() approves nothing any more,     *)
(* whatever later trades and sessions bring, until a restart (of which r     *)
(* were before) forgets it.                                                  *)
THEOREM PreservationEndsApprovals ==
  ASSUME NEW CONSTANT r \in Nat
  PROVE  Spec => [](monthly <= -MonthlyLimit /\ restarts = r =>
                      [][restarts' = r =>
                           \A t \in Tasks : call'[t].pc = "approved"
                                              => call[t].pc = "approved"]_vars)
<1>1. Init => TypeOK /\ Breach
  BY RiskTypeInit, RiskAssumption DEF Init, BookInit, Breach
<1>2. TypeOK /\ Breach /\ [Next]_vars => TypeOK' /\ Breach'
  BY RiskTypeStep, BreachStep
<1>3. Breach /\ monthly <= -MonthlyLimit /\ restarts = r => Since(r)
  BY DEF Breach, Since
<1>4. TypeOK /\ Since(r) /\ [Next]_vars => Since(r)'
  BY SinceStep
<1>5. TypeOK /\ Since(r) /\ [Next]_vars
        => (restarts' = r => \A t \in Tasks : call'[t].pc = "approved"
                                                => call[t].pc = "approved")
  BY SinceStep, NobodyEnters
<1> QED
  BY <1>1, <1>2, <1>3, <1>4, <1>5, PTL DEF Spec

(* Nobody has been asked yet; nobody has been told that Redis holds no halt. *)
AllIdle  == \A t \in Tasks : call[t].pc = "idle"
NoneFree == \A t \in Tasks : \/ call[t].pc \in {"idle", "asking"}
                             \/ call[t].pc = "answered" /\ call[t].halted

LEMMA IdleStep ==
  ASSUME TypeOK, AllIdle, LocalHalt, [Next]_vars
  PROVE  AllIdle'
<1>1. ASSUME NEW u \in Tasks,
             \/ \E sig \in Signals : BeginCheck(u, sig)
             \/ CheckStep(u) \/ LeaveStep(u)
      PROVE  AllIdle'
  BY <1>1 DEF BeginCheck, CheckStep, LeaveStep, ReadFlag, Decide, Commit,
              LeaveEarly, AllIdle
<1>2. CASE Restart
  BY <1>2 DEF Restart, NoCall, AllIdle
<1>3. CASE UNCHANGED call
  BY <1>3 DEF AllIdle
<1> QED
  BY <1>1, <1>2, <1>3 DEF Next, vars, riskVars, TradeClosed, NewDay

LEMMA FreeStep ==
  ASSUME TypeOK, NoneFree, FlagRead, [Next]_vars
  PROVE  NoneFree'
<1>1. ASSUME NEW u \in Tasks,
             \/ \E sig \in Signals : BeginCheck(u, sig)
             \/ CheckStep(u) \/ LeaveStep(u),
             NEW t \in Tasks
      PROVE  \/ call'[t].pc \in {"idle", "asking"}
             \/ call'[t].pc = "answered" /\ call'[t].halted
  <2>1. CASE u # t
    <3>1. call'[t] = call[t]
      BY <1>1, <2>1 DEF BeginCheck, CheckStep, LeaveStep, ReadFlag, Decide, Commit,
                        LeaveEarly, TypeOK
    <3> QED
      BY <3>1 DEF NoneFree
  <2>2. CASE u = t
    <3>1. CASE \E sig \in Signals : BeginCheck(t, sig)
      BY <3>1 DEF BeginCheck, NoneFree, TypeOK
    <3>2. CASE ReadFlag(t)
      BY <3>2 DEF ReadFlag, TypeOK
    <3>3. CASE Decide(t)
      BY <3>3 DEF Decide, NoneFree, TypeOK, NoCall
    <3>4. CASE LeaveStep(t)
      BY <3>4 DEF LeaveStep, Commit, LeaveEarly, NoneFree, TypeOK
    <3> QED
      BY <1>1, <2>2, <3>1, <3>2, <3>3, <3>4 DEF CheckStep
  <2> QED
    BY <2>1, <2>2
<1>2. CASE Restart
  BY <1>2 DEF Restart, NoCall, NoneFree
<1>3. CASE UNCHANGED call
  BY <1>3 DEF NoneFree
<1> QED
  BY <1>1, <1>2, <1>3 DEF Next, vars, riskVars, TradeClosed, NewDay, NoneFree

(* While the file or the manual flag stands nobody enters who had not begun, *)
(* and while a Redis that answers holds the flag, nobody whom it has not     *)
(* told otherwise: whoever else moves the switch, whatever the trades.       *)
THEOREM HaltLetsNobodyIn ==
  Spec => [](/\ AllIdle  => ([]LocalHalt => []NoEntry)
             /\ NoneFree => ([]FlagRead => []NoEntry))
<1>1. TypeOK /\ AllIdle /\ LocalHalt /\ [Next]_vars => AllIdle'
  BY IdleStep
<1>2. TypeOK /\ NoneFree /\ FlagRead /\ [Next]_vars => NoneFree'
  BY FreeStep
<1>3. (AllIdle => NoEntry) /\ (NoneFree => NoEntry)
  BY DEF AllIdle, NoneFree, NoEntry
<1> QED
  BY <1>1, <1>2, <1>3, RiskTypeCorrect, PTL DEF Spec
=============================================================================
