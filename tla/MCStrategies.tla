----------------------------- MODULE MCStrategies -----------------------------
(* The strategies and the feed's socket in one run.  They share no state, so *)
(* a behaviour follows one of them, chosen at the start.                     *)
EXTENDS MCMarketFeed, MCOptionDesk, SwingBreakout, VwapReversion, TickSocket

VARIABLE part

SwingBars == {[high |-> h, low |-> l, close |-> c, volume |-> v, tf |-> tf] :
                h, l, c \in 3 .. 5, v \in {0, 1, 4}, tf \in {"1d", "5m"}}
Candles   == {b \in SwingBars :
                /\ b.low <= b.close /\ b.close <= b.high
                /\ b.tf = "5m" \/ b.volume = 0 => b.low = 3 /\ b.high = 5}

vars == <<feedVars, deskVars, swingVars, reversionVars, socketVars, part>>

Init ==
  /\ FeedInit /\ DeskInit /\ SwingInit /\ ReversionInit /\ SocketInit
  /\ part \in {"opening range", "options", "swing", "reversion", "socket"}
  /\ part # "opening range" => order = <<"bars", "orb">>
  /\ part # "options" => roster \in Plain

Next ==
  \/ part = "opening range" /\ FeedNext
     /\ UNCHANGED <<deskVars, swingVars, reversionVars, socketVars, part>>
  \/ part = "options" /\ DeskNext
     /\ UNCHANGED <<feedVars, swingVars, reversionVars, socketVars, part>>
  \/ part = "swing" /\ SwingNext
     /\ UNCHANGED <<feedVars, deskVars, reversionVars, socketVars, part>>
  \/ part = "reversion" /\ ReversionNext
     /\ UNCHANGED <<feedVars, deskVars, swingVars, socketVars, part>>
  \/ part = "socket" /\ SocketNext
     /\ UNCHANGED <<feedVars, deskVars, swingVars, reversionVars, part>>

Spec == Init /\ [][Next]_vars

===============================================================================
