----------------------------- MODULE MCRiskEngine -----------------------------
(* Instances of RiskEngine.  Prices, risks and limits are a few rupees: only *)
(* how they compare matters (day < week < month, some prices over the cap).  *)
EXTENDS RiskEngine

CONSTANTS
  t1, t2, orb, swing, c1,
  Scenarios      \* what a run plays: "market", "halt"

VARIABLE scenario

(* A cheap stock that the caps cut and the brake halves, one whose volatility*)
(* cap binds, and one whose price exceeds the single-stock cap.              *)
Cheap  == [strategy |-> orb, price |-> 2, risk |-> 1, qty |-> 5, volCap |-> 0]
Jumpy  == [strategy |-> swing, price |-> 1, risk |-> 1, qty |-> 3,
           volCap |-> 1]
Costly == [strategy |-> swing, price |-> 10, risk |-> 1, qty |-> 2,
           volCap |-> 0]

CheapAndJumpy == {Cheap, Jumpy}
AllSignals    == {Cheap, Jumpy, Costly}
WinOrLoss     == {-2, 2}

(* Either the market moves the book and nobody the switch, or everybody      *)
(* moves the switch, the process restarts, and the only signals are for the  *)
(* cheap stock: closing trades and days matter nothing to a halt.            *)
Market == UNCHANGED <<manual, file, flag, up, toggle, restarts>>
Halt   == /\ UNCHANGED <<closed, day>>
          /\ \A t \in Tasks : call'[t].pc = "asking" => call'[t].sig = Cheap

Played == /\ scenario = "market" => Market
          /\ scenario = "halt" => Halt

ScenarioInit == Init /\ scenario \in Scenarios

ScenarioNext == Next /\ Played /\ UNCHANGED scenario

ScenarioSpec ==
  /\ ScenarioInit /\ [][ScenarioNext]_<<vars, scenario>>
  /\ Fairness
=============================================================================
