------------------------------- MODULE TickSocket -------------------------------
(* The market feed of Dhan (brokers/dhan/websocket.py, DhanMarketFeed) under *)
(* its client's subscribe_ticks and unsubscribe_ticks: one websocket that is *)
(* lost and made again, on which every connection has to be told anew what   *)
(* is wanted.  Waiting between attempts and the ticks themselves are left    *)
(* out (MarketFeed has the ticks).                                           *)
EXTENDS Integers, Sequences

CONSTANTS
  Scrips,                  \* instruments
  MaxCalls, MaxLosses      \* bounds of the model

ASSUME TickSocketAssumption == MaxCalls \in Nat /\ MaxLosses \in Nat

VARIABLES
  line,            \* "none": no feed; "away": _run is to connect; "up"; "lost":
                   \* the connection is gone, and _run has not noticed
  subscriptions,   \* _subscriptions, without its repetitions
  wire,            \* what was sent and not handled by the server yet
  served,          \* the server's subscriptions on this connection
  wanted,          \* history: what callers asked for and did not give up
  revived,         \* history: what they had given up, asked for again by _run
  calls, losses

socketVars == <<line, subscriptions, wire, served, wanted, revived, calls, losses>>

SocketInit ==
  /\ line = "none" /\ subscriptions = {} /\ wire = <<>> /\ served = {}
  /\ wanted = {} /\ revived = {} /\ calls = 0 /\ losses = 0

Called == calls < MaxCalls /\ calls' = calls + 1 /\ UNCHANGED losses

(* A send on a lost connection goes nowhere, or raises in the caller; after  *)
(* a subscribe, _run knows of the tokens by then.                            *)
Sent(code, tokens) ==
  wire' = IF line = "up" THEN Append(wire, [code |-> code, tokens |-> tokens])
          ELSE wire

(* subscribe_ticks starts the feed with the first call.                      *)
SubscribeTold(tokens) ==         \* a tested mistake
  /\ Called
  /\ line' = IF line = "none" THEN "away" ELSE line
  /\ subscriptions' = IF line = "up" THEN subscriptions
                      ELSE subscriptions \cup tokens
  /\ Sent("subscribe", tokens)
  /\ wanted' = wanted \cup tokens
  /\ revived' = revived \ tokens
  /\ UNCHANGED served
Subscribe(tokens) ==
  /\ Called
  /\ line' = IF line = "none" THEN "away" ELSE line
  /\ subscriptions' = subscriptions \cup tokens
  /\ Sent("subscribe", tokens)
  /\ wanted' = wanted \cup tokens
  /\ revived' = revived \ tokens
  /\ UNCHANGED served

(* unsubscribe_ticks tells the connection there is, if there is one, and     *)
(* leaves _subscriptions alone.                                              *)
Unsubscribe(tokens) ==
  /\ Called /\ line # "none"
  /\ Sent("unsubscribe", tokens)
  /\ wanted' = wanted \ tokens
  /\ revived' = IF line = "up" THEN revived \ tokens ELSE revived
  /\ UNCHANGED <<line, subscriptions, served>>

(* ... and when the send raises, the caller has not given them up.           *)
UnsubscribeFails ==
  /\ Called /\ line = "lost"
  /\ UNCHANGED <<line, subscriptions, wire, served, wanted, revived>>

(* _run: a new connection is told everything that was ever asked for.        *)
Connect ==
  /\ line = "away"
  /\ line' = "up"
  /\ wire' = IF subscriptions = {} THEN <<>>
             ELSE <<[code |-> "subscribe", tokens |-> subscriptions]>>
  /\ served' = {}
  /\ revived' = subscriptions \ wanted
  /\ UNCHANGED <<subscriptions, wanted, calls, losses>>

Handle ==
  /\ line = "up" /\ wire # <<>>
  /\ wire' = Tail(wire)
  /\ served' = IF Head(wire).code = "subscribe" THEN served \cup Head(wire).tokens
               ELSE served \ Head(wire).tokens
  /\ UNCHANGED <<line, subscriptions, wanted, revived, calls, losses>>

Lose ==
  /\ line = "up" /\ losses < MaxLosses
  /\ losses' = losses + 1
  /\ line' = "lost" /\ wire' = <<>> /\ served' = {}
  /\ UNCHANGED <<subscriptions, wanted, revived, calls>>

Notice ==
  /\ line = "lost"
  /\ line' = "away"
  /\ UNCHANGED <<subscriptions, wire, served, wanted, revived, calls, losses>>

(* A frame the handler chokes on (a control message that is no object) ends  *)
(* the connection from this side.                                            *)
HandlerRaises ==
  /\ line = "up" /\ losses < MaxLosses
  /\ losses' = losses + 1
  /\ line' = "away" /\ wire' = <<>> /\ served' = {}
  /\ UNCHANGED <<subscriptions, wanted, revived, calls>>

(* close() cancels the task and drops the feed with what it knew.            *)
CloseFeed ==
  /\ Called /\ line # "none"
  /\ line' = "none" /\ subscriptions' = {}
  /\ wire' = <<>> /\ served' = {} /\ wanted' = {} /\ revived' = {}

SocketNext ==
  \/ \E tokens \in SUBSET Scrips \ {{}} : Subscribe(tokens) \/ Unsubscribe(tokens)
  \/ UnsubscribeFails
  \/ Connect
  \/ Handle
  \/ Lose
  \/ Notice
  \/ HandlerRaises
  \/ CloseFeed

SocketSpec == SocketInit /\ [][SocketNext]_socketVars

---------------------------------------------------------------------------
(* A connection that has been told everything serves what callers want, and  *)
(* nothing else but what they gave up before it was made (the reconnect      *)
(* brings that back) and have not given up again: whatever calls, losses and *)
(* reconnects follow one another, no wanted instrument falls silent.         *)
ServesTheWanted ==
  line = "up" /\ wire = <<>> => served = wanted \cup revived
===============================================================================
