------------------------------ MODULE MCSafeMode ------------------------------
(* Instances of SafeMode: a position that is built, more of it if a fill     *)
(* comes again, and reduced, closed, turned around or opened short by        *)
(* another fill.                                                             *)
EXTENDS SafeMode

CONSTANTS x, orb, swing, f1, f2, f3, feed, feed2

VARIABLE scenario

Trade ==
  f1 :> [inst |-> x, qty |-> 2, price |-> 4, fees |-> 1, strategy |-> orb]
  @@ f2 :> [inst |-> x, qty |-> 1, price |-> 1, fees |-> 0, strategy |-> orb]
  @@ f3 :> [inst |-> x, qty |-> -2, price |-> 6, fees |-> 0,
            strategy |-> swing]

(* Either one feed awaits its calls one after the other while everything     *)
(* else happens, or two feeds call at once and nothing fails.                *)
OneFeed  == call'[feed2] = Idle
TwoFeeds == /\ acks' = 0 /\ dbFailures' = 0 /\ restarts' = 0
            /\ \A f \in Fills : delivered'[f] <= 1
            /\ call' = call => book' = book      \* no ticks

Played == /\ scenario = "one feed"  => OneFeed
          /\ scenario = "two feeds" => TwoFeeds

ScenarioInit == Init /\ scenario \in {"one feed", "two feeds"}
ScenarioNext == Next /\ Played /\ UNCHANGED scenario

ScenarioSpec == ScenarioInit /\ [][ScenarioNext]_<<deskVars, scenario>>
=============================================================================
