------------------------------ MODULE KillSwitch ------------------------------
(* The kill switch (risk/kill_switch.py) and everybody who moves its three   *)
(* channels: the process itself, POST /api/halt (api/server.py), and the     *)
(* operator's shell (docs/runbooks/kill_switch.md).  The Redis flag is read  *)
(* and written through storage/redis_client.py, which turns every failure    *)
(* into "not set" and every failed write into nothing.                       *)
EXTENDS Naturals

CONSTANTS
  Callers,    \* concurrent requests to POST /api/halt
  Operated    \* somebody moves the switch (FALSE: it stays as it starts)

ASSUME KillSwitchAssumption == Operated \in BOOLEAN

VARIABLES
  manual,     \* KillSwitch._manual
  file,       \* the halt file exists
  flag,       \* Redis holds "1" under trader:halt
  up,         \* Redis answers
  gauge,      \* the metric trader_kill_switch_active
  toggle      \* toggle[c]: where toggle_halt is for caller c

switchVars == <<manual, file, flag, up, gauge, toggle>>

SwitchTypeOK ==
  /\ {manual, file, flag, up} \subseteq BOOLEAN
  /\ gauge \in {0, 1}
  /\ toggle \in [Callers -> {"idle", "setting", "clearing"}]

SwitchInit ==
  /\ manual = FALSE /\ file = FALSE /\ flag = FALSE /\ up = TRUE
  /\ gauge = 0
  /\ toggle = [c \in Callers |-> "idle"]

(* What active() tests before it awaits Redis, and what get_flag returns.    *)
ManualOnly == manual
LocalHalt  == manual \/ file
FlagRead   == up /\ flag

(* activate() and deactivate(): an OSError on the file is swallowed, and     *)
(* neither touches Redis.                                                    *)
Activate ==
  /\ manual' = TRUE /\ gauge' = 1
  /\ file' \in {file, TRUE}
  /\ UNCHANGED <<flag, up, toggle>>

Deactivate ==
  /\ manual' = FALSE /\ gauge' = 0
  /\ file' \in {file, FALSE}
  /\ UNCHANGED <<flag, up, toggle>>

(* toggle_halt moves the file, then awaits set_flag.  Two requests overlap,  *)
(* and their SETs travel on different connections.                           *)
ToggleFile(c) ==
  /\ toggle[c] = "idle"
  /\ file' = ~file
  /\ toggle' = [toggle EXCEPT ![c] = IF file THEN "clearing" ELSE "setting"]
  /\ UNCHANGED <<manual, flag, up, gauge>>

ToggleFlag(c) ==
  /\ toggle[c] # "idle"
  /\ flag' = IF up THEN toggle[c] = "setting" ELSE flag
  /\ toggle' = [toggle EXCEPT ![c] = "idle"]
  /\ UNCHANGED <<manual, file, up, gauge>>

(* touch or rm of the halt file, redis-cli set, and Redis outages.           *)
ShellFile == /\ file' \in BOOLEAN
             /\ UNCHANGED <<manual, flag, up, gauge, toggle>>
ShellFlag == /\ up /\ flag' \in BOOLEAN
             /\ UNCHANGED <<manual, file, up, gauge, toggle>>
Outage    == /\ up' = ~up
             /\ UNCHANGED <<manual, file, flag, gauge, toggle>>

SwitchStep ==
  /\ Operated
  /\ \/ Activate \/ Deactivate
     \/ \E c \in Callers : ToggleFile(c) \/ ToggleFlag(c)
     \/ ShellFile \/ ShellFlag \/ Outage

(* A restart forgets the manual flag and the requests under way.             *)
SwitchRestart ==
  /\ manual' = FALSE /\ gauge' = 0
  /\ toggle' = [c \in Callers |-> "idle"]
  /\ UNCHANGED <<file, flag, up>>
=============================================================================
