--------------------------------- MODULE MCOps ---------------------------------
(* The backtest, the archive it reads, the process and its helpers in one    *)
(* run.  They share no state, so a behaviour follows one of them, chosen at  *)
(* the start.                                                                *)
EXTENDS Backtest, Archive, Lifecycle, Alerts, Watchdog, CapitalRamp

VARIABLE part

Bars ==
  {[stock |-> "x", high |-> c + 1, low |-> c - 1, close |-> c, vwap |-> w,
    volume |-> v] : c \in {5, 8}, w \in {0}, v \in {0, 20}}
  \cup {[stock |-> "unknown", high |-> 2, low |-> 1, close |-> 1, vwap |-> 1,
         volume |-> 9]}

Signals ==
  {[by |-> "orb", side |-> sd, qty |-> q, type |-> "LIMIT", entry |-> 6,
    product |-> "MIS"] : sd \in {"BUY", "SELL"}, q \in {1, 2}}
  \cup {[by |-> "swing", side |-> sd, qty |-> q, type |-> "MARKET",
         entry |-> 0, product |-> "CNC"] : sd \in {"BUY", "SELL"}, q \in {0, 2}}

Rates  == [brokerage |-> 1, stt |-> 1, exchange |-> 0, sebi |-> 0, gst |-> 0,
           stamp |-> 0]

vars == <<backtestVars, archiveVars, lifeVars, alertVars, watchVars, rampVars,
          part>>

Init ==
  /\ BacktestInit /\ ArchiveInit /\ LifecycleInit
  /\ AlertsInit /\ WatchdogInit /\ CapitalRampInit
  /\ part \in {"backtest", "archive", "process", "alerts", "watchdog", "ramp"}
  /\ part # "alerts" => clock = 0

Next ==
  \/ part = "backtest" /\ BacktestNext
     /\ UNCHANGED <<archiveVars, lifeVars, alertVars, watchVars, rampVars, part>>
  \/ part = "archive" /\ ArchiveNext
     /\ UNCHANGED <<backtestVars, lifeVars, alertVars, watchVars, rampVars, part>>
  \/ part = "process" /\ LifecycleNext
     /\ UNCHANGED <<backtestVars, archiveVars, alertVars, watchVars, rampVars,
                    part>>
  \/ part = "alerts" /\ AlertsNext
     /\ UNCHANGED <<backtestVars, archiveVars, lifeVars, watchVars, rampVars,
                    part>>
  \/ part = "watchdog" /\ WatchdogNext
     /\ UNCHANGED <<backtestVars, archiveVars, lifeVars, alertVars, rampVars,
                    part>>
  \/ part = "ramp" /\ CapitalRampNext
     /\ UNCHANGED <<backtestVars, archiveVars, lifeVars, alertVars, watchVars,
                    part>>

(* The process's own steps and the checks it waits for take place in the     *)
(* end: nothing in them blocks.                                              *)
FairSpec ==
  /\ Init /\ [][Next]_vars
  /\ WF_lifeVars(part = "process" /\ Progress /\ UNCHANGED part)
  /\ WF_lifeVars(part = "process" /\ Answering /\ UNCHANGED part)

===============================================================================
