------------------------------ MODULE CapitalRamp ------------------------------
(* CapitalRampController (risk/capital_ramp.py): the share of the capital in *)
(* use grows stage by stage.  can_promote is asked first; promote, pause and *)
(* resume test nothing themselves, and what the answer was given for may     *)
(* have changed by the time promote is called.                               *)
EXTENDS Integers

CONSTANTS
  Stages,          \* RAMP_STAGES: their number
  MinDays,         \* min_days_per_stage
  LastDay          \* bound of the model

ASSUME CapitalRampAssumption ==
  Stages \in Nat \ {0} /\ MinDays \in Nat /\ LastDay \in Nat

VARIABLES
  day,
  stage, startedOn,    \* stage_index, stage_started
  paused,
  good,        \* the live statistics pass: trades, win rate, drawdown,
               \* slippage
  answer,      \* what can_promote said to the operator, until used
  promotedOn   \* history: the days of the promotions

rampVars == <<day, stage, startedOn, paused, good, answer, promotedOn>>

CapitalRampTypeOK ==
  /\ day \in Nat /\ startedOn \in Nat
  /\ stage \in 0 .. Stages - 1
  /\ promotedOn \in [1 .. Stages - 1 -> Nat]
  /\ paused \in BOOLEAN /\ good \in BOOLEAN /\ answer \in BOOLEAN

CapitalRampInit ==
  /\ day = 0 /\ stage = 0 /\ startedOn = 0
  /\ paused = FALSE /\ good = FALSE /\ answer = FALSE
  /\ promotedOn = [s \in 1 .. Stages - 1 |-> 0]

DayPasses ==
  /\ day < LastDay
  /\ day' = day + 1
  /\ good' \in BOOLEAN
  /\ UNCHANGED <<stage, startedOn, paused, answer, promotedOn>>

CanPromote ==
  /\ ~paused
  /\ stage < Stages - 1
  /\ day - startedOn >= MinDays
  /\ good

AskRamp ==
  /\ answer' = CanPromote
  /\ UNCHANGED <<day, stage, startedOn, paused, good, promotedOn>>

SameStart == UNCHANGED startedOn      \* a tested mistake
Restarted == startedOn' = day

Promote ==
  /\ answer
  /\ answer' = FALSE
  /\ IF stage < Stages - 1
     THEN /\ stage' = stage + 1 /\ Restarted
          /\ promotedOn' = [promotedOn EXCEPT ![stage + 1] = day]
     ELSE UNCHANGED <<stage, startedOn, promotedOn>>
  /\ UNCHANGED <<day, paused, good>>

Pause(on) ==
  /\ paused' = on
  /\ UNCHANGED <<day, stage, startedOn, good, answer, promotedOn>>

CapitalRampNext ==
  \/ DayPasses
  \/ AskRamp
  \/ Promote
  \/ \E on \in BOOLEAN : Pause(on)

CapitalRampSpec == CapitalRampInit /\ [][CapitalRampNext]_rampVars

---------------------------------------------------------------------------
(* However late an answer is used, every stage lasts min_days_per_stage: the *)
(* ramp reaches 100% no sooner than the stages' days together.               *)
StagesLast ==
  /\ day >= startedOn /\ startedOn >= stage * MinDays
  /\ \A s \in 1 .. stage :
       promotedOn[s] - (IF s = 1 THEN 0 ELSE promotedOn[s - 1]) >= MinDays
===============================================================================
