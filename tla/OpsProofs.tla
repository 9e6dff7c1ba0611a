------------------------------- MODULE OpsProofs -------------------------------
(* Theorems about the parts that run beside trading, for every value of      *)
(* their constants: the alerts, the capital ramp, the process from boot to   *)
(* exit, the watchdog, the bar archive and the backtest.                     *)
EXTENDS Backtest, Archive, Lifecycle, Alerts, Watchdog, CapitalRamp,
        NumberTheorems, SequenceTheorems

-----------------------------------------------------------------------------
(* What the dispatcher holds back is a repetition, for any number of         *)
(* dispatches, channels and titles.                                          *)

(* A stamp of 0 is no entry or one of the host's first instant; any other    *)
(* is the time of the alert's last dispatch.  A CRITICAL alert leaves none.  *)
StampTellsTry(alert) ==
  /\ tried[alert] # Never => tried[alert] <= clock
  /\ alert[1] < Critical => lastSent[alert] = IF tried[alert] = Never THEN 0
                                              ELSE tried[alert]

AlertsInv ==
  /\ AlertsTypeOK
  /\ \A alert \in Keys : StampTellsTry(alert)

(* The severities in order: all but CRITICAL are below it.                   *)
LEMMA KeyFacts ==
  ASSUME NEW alert \in Keys
  PROVE  /\ alert[1] \in Severities
         /\ alert[1] >= Critical <=> alert[1] = Critical
         /\ alert[1] < Critical <=> alert[1] # Critical
BY DEF Keys, Severities, Critical

(* The dispatcher's table, clock and open dispatches keep their types.       *)
THEOREM AlertsTypeCorrect == AlertsSpec => []AlertsTypeOK
<1> USE AlertsAssumption DEF AlertsTypeOK
<1>1. AlertsInit => AlertsTypeOK
  BY DEF AlertsInit
<1>2. AlertsTypeOK /\ [AlertsNext]_alertVars => AlertsTypeOK'
  <2> SUFFICES ASSUME AlertsTypeOK, [AlertsNext]_alertVars
               PROVE  AlertsTypeOK'
    OBVIOUS
  <2>1. CASE ClockTicks
    BY <2>1 DEF ClockTicks
  <2>2. ASSUME NEW d \in Dispatches, NEW alert \in Keys, Dispatch(d, alert)
        PROVE  AlertsTypeOK'
    BY <2>2 DEF Dispatch, Stamped
  <2>3. ASSUME NEW d \in Dispatches, NEW c \in Channels, Send(d, c)
        PROVE  AlertsTypeOK'
    BY <2>3 DEF Send
  <2>4. CASE UNCHANGED alertVars
    BY <2>4 DEF alertVars
  <2> QED BY <2>1, <2>2, <2>3, <2>4 DEF AlertsNext
<1> QED BY <1>1, <1>2, PTL DEF AlertsSpec

LEMMA AlertsInvInit == AlertsInit => AlertsInv
BY AlertsAssumption
  DEF AlertsInit, AlertsInv, AlertsTypeOK, StampTellsTry, Never

(* A dispatch writes the stamp and the time tried together, and only its     *)
(* own.                                                                      *)
LEMMA DispatchStamps ==
  ASSUME AlertsInv, NEW d \in Dispatches, NEW alert \in Keys,
         Dispatch(d, alert)
  PROVE  AlertsInv'
<1>1. /\ clock' = clock /\ clock \in Nat
      /\ tried' = [tried EXCEPT ![alert] = clock]
      /\ lastSent' = Stamped(alert)
  BY DEF Dispatch, AlertsInv, AlertsTypeOK
<1>2. AlertsTypeOK'
  BY DEF Dispatch, Stamped, AlertsInv, AlertsTypeOK
<1>3. ASSUME NEW k \in Keys PROVE StampTellsTry(k)'
  <2> USE <1>1, KeyFacts DEF AlertsInv, AlertsTypeOK, StampTellsTry
  <2>1. CASE k = alert /\ alert[1] >= Critical
    BY <2>1 DEF Stamped, Never
  <2>2. CASE k = alert /\ ~(alert[1] >= Critical)
    BY <2>2 DEF Stamped, Never
  <2>3. CASE k # alert
    <3>1. tried'[k] = tried[k] /\ lastSent'[k] = lastSent[k]
      BY <2>3 DEF Stamped
    <3> QED BY <3>1
  <2> QED BY <2>1, <2>2, <2>3
<1> QED BY <1>2, <1>3 DEF AlertsInv

LEMMA AlertsInvNext == AlertsInv /\ [AlertsNext]_alertVars => AlertsInv'
<1> SUFFICES ASSUME AlertsInv, [AlertsNext]_alertVars PROVE AlertsInv'
  OBVIOUS
<1>1. CASE ClockTicks
  BY <1>1 DEF ClockTicks, AlertsInv, AlertsTypeOK, StampTellsTry, Never
<1>2. CASE \E d \in Dispatches, alert \in Keys : Dispatch(d, alert)
  BY <1>2, DispatchStamps
<1>3. CASE \E d \in Dispatches, c \in Channels : Send(d, c)
  BY <1>3 DEF Send, AlertsInv, AlertsTypeOK, StampTellsTry
<1>4. CASE UNCHANGED alertVars
  BY <1>4 DEF alertVars, AlertsInv, AlertsTypeOK, StampTellsTry
<1> QED BY <1>1, <1>2, <1>3, <1>4 DEF AlertsNext

LEMMA StampsExplainSilence == AlertsInv => HeldForACause
<1> SUFFICES ASSUME AlertsInv, NEW alert \in Keys
             PROVE  /\ ~ShouldSend(alert) =>
                         /\ alert[1] # Critical
                         /\ Recent(alert) \/ clock < Quiet
                    /\ ShouldSend(alert) /\ alert[1] # Critical
                         => (~Recent(alert))
  BY DEF HeldForACause
<1> USE AlertsAssumption, KeyFacts
    DEF AlertsInv, AlertsTypeOK, StampTellsTry, ShouldSend, Recent, Never
<1>1. CASE alert[1] = Critical
  BY <1>1
<1>2. CASE alert[1] # Critical
  BY <1>2
<1> QED BY <1>1, <1>2

(* An alert is held back only for one that went out less than dedup_seconds  *)
(* ago or on a host that young, a CRITICAL one never, and no other goes out  *)
(* twice in that time.                                                       *)
THEOREM AlertsAlwaysHeldForACause == AlertsSpec => []HeldForACause
<1>1. AlertsInit => AlertsInv
  BY AlertsInvInit
<1>2. AlertsInv /\ [AlertsNext]_alertVars => AlertsInv'
  BY AlertsInvNext
<1>3. AlertsInv => HeldForACause
  BY StampsExplainSilence
<1> QED BY <1>1, <1>2, <1>3, PTL DEF AlertsSpec

-----------------------------------------------------------------------------
(* However the operator, the days and the statistics interleave, no stage of *)
(* the capital ramp is shorter than min_days_per_stage.                      *)

(* Where the current stage began.                                            *)
Began == IF stage = 0 THEN 0 ELSE promotedOn[stage]

(* The flags apart from the numbers (no one prover is good at both).         *)
Numbers ==
  /\ day \in Nat /\ startedOn \in Nat
  /\ stage \in 0 .. Stages - 1
  /\ promotedOn \in [1 .. Stages - 1 -> Nat]

Flags == paused \in BOOLEAN /\ good \in BOOLEAN /\ answer \in BOOLEAN

LEMMA TypeInParts == CapitalRampTypeOK <=> Numbers /\ Flags
BY Zenon DEF CapitalRampTypeOK, Numbers, Flags

(* An answer stays true while it waits to be used, for the days only grow    *)
(* and promote(), the one step that starts a stage, uses it up; and the      *)
(* stage began when it was promoted to.                                      *)
RampInv ==
  /\ Numbers
  /\ answer => day - startedOn >= MinDays
  /\ startedOn = Began
  /\ StagesLast

(* One more stage is MinDays more.  (The provers do not multiply.)           *)
LEMMA NextStage ==
  ASSUME NEW s \in Nat, NEW d \in Nat
  PROVE  (s + 1) * d = s * d + d /\ s * d \in Nat
BY SMT

(* The ramp keeps its types: the stage stays within RAMP_STAGES however      *)
(* often promote() is called.                                                *)
THEOREM RampTypeCorrect == CapitalRampSpec => []CapitalRampTypeOK
<1>1. CapitalRampInit => Numbers /\ Flags
  <2>1. CapitalRampInit => Numbers
    BY CapitalRampAssumption DEF CapitalRampInit, Numbers
  <2>2. CapitalRampInit => Flags
    BY DEF CapitalRampInit, Flags
  <2> QED BY <2>1, <2>2
<1>2. Numbers /\ Flags /\ [CapitalRampNext]_rampVars => (Numbers /\ Flags)'
  <2> SUFFICES ASSUME Numbers, Flags, [CapitalRampNext]_rampVars
               PROVE  Numbers' /\ Flags'
    OBVIOUS
  <2>1. CASE DayPasses
    <3>1. Numbers'
      BY <2>1 DEF DayPasses, Numbers
    <3>2. Flags'
      BY <2>1, Zenon DEF DayPasses, Flags
    <3> QED BY <3>1, <3>2
  <2>2. CASE AskRamp
    <3>1. Numbers'
      BY <2>2 DEF AskRamp, Numbers
    <3>2. Flags'
      BY <2>2 DEF AskRamp, CanPromote, Flags
    <3> QED BY <3>1, <3>2
  <2>3. CASE Promote
    <3>1. Numbers'
      BY <2>3, CapitalRampAssumption, SMTT(30) DEF Promote, Restarted, Numbers
    <3>2. Flags'
      BY <2>3 DEF Promote, Flags
    <3> QED BY <3>1, <3>2
  <2>4. CASE \E on \in BOOLEAN : Pause(on)
    <3>1. Numbers'
      BY <2>4 DEF Pause, Numbers
    <3>2. Flags'
      BY <2>4, Zenon DEF Pause, Flags
    <3> QED BY <3>1, <3>2
  <2>5. CASE UNCHANGED rampVars
    BY <2>5 DEF rampVars, Numbers, Flags
  <2> QED BY <2>1, <2>2, <2>3, <2>4, <2>5 DEF CapitalRampNext
<1> QED BY <1>1, <1>2, TypeInParts, PTL DEF CapitalRampSpec

LEMMA RampInvInit == CapitalRampInit => RampInv
BY CapitalRampAssumption
  DEF CapitalRampInit, RampInv, Numbers, StagesLast, Began

(* The step that starts a stage: it is at least MinDays after the last.      *)
LEMMA PromoteKeepsStages ==
  ASSUME RampInv, Promote, stage < Stages - 1
  PROVE  RampInv'
<1> USE CapitalRampAssumption DEF RampInv, Numbers
<1>1. /\ stage' = stage + 1 /\ startedOn' = day /\ day' = day
      /\ promotedOn' = [promotedOn EXCEPT ![stage + 1] = day]
      /\ answer' = FALSE
      /\ day - startedOn >= MinDays
  BY DEF Promote, Restarted
<1>2. Numbers'
  BY <1>1
<1>3. promotedOn'[stage + 1] = day
  BY <1>1
<1>4. \A s \in 1 .. stage : promotedOn'[s] = promotedOn[s]
  BY <1>1
<1>5. startedOn' >= stage' * MinDays
  BY <1>1, NextStage DEF StagesLast
<1>6. \A s \in 1 .. stage' :
        promotedOn'[s] - (IF s = 1 THEN 0 ELSE promotedOn'[s - 1]) >= MinDays
  <2> SUFFICES ASSUME NEW s \in 1 .. stage'
               PROVE  promotedOn'[s]
                        - (IF s = 1 THEN 0 ELSE promotedOn'[s - 1]) >= MinDays
    OBVIOUS
  <2>1. CASE s \in 1 .. stage
    BY <2>1, <1>4 DEF StagesLast
  <2>2. CASE s = stage + 1
    BY <2>2, <1>1, <1>3, <1>4 DEF Began
  <2> QED BY <1>1, <2>1, <2>2
<1> QED BY <1>1, <1>2, <1>3, <1>5, <1>6 DEF StagesLast, Began

LEMMA RampInvNext == RampInv /\ [CapitalRampNext]_rampVars => RampInv'
<1> SUFFICES ASSUME RampInv, [CapitalRampNext]_rampVars PROVE RampInv'
  OBVIOUS
<1> USE CapitalRampAssumption
    DEF RampInv, Numbers, StagesLast, Began
<1>1. CASE DayPasses
  BY <1>1 DEF DayPasses
<1>2. CASE AskRamp
  BY <1>2 DEF AskRamp, CanPromote
<1>3. CASE Promote /\ stage < Stages - 1
  BY <1>3, PromoteKeepsStages
<1>4. CASE Promote /\ ~(stage < Stages - 1)
  BY <1>4 DEF Promote
<1>5. CASE \E on \in BOOLEAN : Pause(on)
  BY <1>5 DEF Pause
<1>6. CASE UNCHANGED rampVars
  BY <1>6 DEF rampVars
<1> QED BY <1>1, <1>2, <1>3, <1>4, <1>5, <1>6 DEF CapitalRampNext

(* Every stage that was left lasted min_days_per_stage, although promote()   *)
(* itself tests nothing and its answer may be days old.                      *)
THEOREM StagesAlwaysLast == CapitalRampSpec => []StagesLast
<1>1. CapitalRampInit => RampInv
  BY RampInvInit
<1>2. RampInv /\ [CapitalRampNext]_rampVars => RampInv'
  BY RampInvNext
<1>3. RampInv => StagesLast
  BY DEF RampInv
<1> QED BY <1>1, <1>2, <1>3, PTL DEF CapitalRampSpec

-----------------------------------------------------------------------------
(* The run log tells how a run went, for any number of brokers, health       *)
(* requests and restarts.                                                    *)

(* What the log holds in each phase, and that the server only ever runs      *)
(* while launch() serves: its end is the end of a run that logged its boot.  *)
LifeInv ==
  /\ phase = "building" => ~built
  /\ phase \in {"building", "connecting"} => runLog = <<>> /\ ~installed
  /\ phase = "serving" => runLog = <<"boot">>
  /\ phase = "closing" => runLog \in {<<>>, <<"boot">>}
                          /\ (installed => runLog = <<"boot">>)
  /\ phase = "down" /\ built /\ ~killed /\ ~refused /\ ~undisposed =>
       /\ installed => runLog = <<"boot", "shutdown">>
       /\ ~cut => runLog \in {<<"shutdown">>, <<"boot", "shutdown">>}
  /\ server # "off" => phase = "serving"

LEMMA LifeInvInit == LifecycleInit => LifeInv
BY DEF LifecycleInit, LifeInv

(* (The provers need the two entries one at a time.)                         *)
LEMMA BootThenShutdown ==
  Append(<<"boot">>, "shutdown") = <<"boot", "shutdown">>
<1> DEFINE log == <<"boot">>
           after == Append(log, "shutdown")
<1>1. log \in Seq({"boot", "shutdown"}) /\ Len(log) = 1 /\ log[1] = "boot"
  OBVIOUS
<1>2. /\ after \in Seq({"boot", "shutdown"}) /\ Len(after) = 2
      /\ after[1] = "boot" /\ after[2] = "shutdown"
  BY <1>1
<1> HIDE DEF log, after
<1>3. after = <<"boot", "shutdown">>
  BY <1>2
<1> QED BY <1>3 DEF after, log

(* stop()'s event is the last, after the boot or alone.                      *)
LEMMA StopLogs == LifeInv /\ Stop => LifeInv'
<1> SUFFICES ASSUME LifeInv, Stop PROVE LifeInv'
  OBVIOUS
<1>1. phase = "closing" /\ phase' = "down" /\ server' = "off"
  BY DEF Stop, LifeInv
<1>2. CASE "db" \in alive
  <2>1. runLog' = Append(runLog, "shutdown")
    BY <1>2 DEF Stop, Record
  <2>2. Append(<<>>, "shutdown") = <<"shutdown">>
    OBVIOUS
  <2>3. Append(<<"boot">>, "shutdown") = <<"boot", "shutdown">>
    BY BootThenShutdown
  <2>4. runLog' \in {<<"shutdown">>, <<"boot", "shutdown">>}
        /\ (installed' => runLog' = <<"boot", "shutdown">>)
    BY <1>1, <2>1, <2>2, <2>3 DEF LifeInv, Stop
  <2> QED BY <1>1, <2>4 DEF LifeInv
<1>3. CASE "db" \notin alive
  <2>1. refused'
    BY <1>3 DEF Stop, Record
  <2> QED BY <1>1, <2>1 DEF LifeInv
<1> QED BY <1>2, <1>3

(* start() serves only once the database has taken the boot.                 *)
LEMMA BootLogs == LifeInv /\ Boot => LifeInv'
<1> SUFFICES ASSUME LifeInv, Boot PROVE LifeInv'
  OBVIOUS
<1>1. phase = "connecting" /\ runLog = <<>> /\ server = "off"
  BY DEF Boot, LifeInv
<1>2. CASE dryRun \/ "db" \notin alive
  <2>1. phase' = "closing" /\ server' = "off"
    BY <1>1, <1>2 DEF Boot, Stopping
  <2>2. runLog' \in {<<>>, <<"boot">>} /\ ~installed'
    BY <1>1, <1>2 DEF Boot, Record, LifeInv
  <2> QED BY <2>1, <2>2 DEF LifeInv
<1>3. CASE ~(dryRun \/ "db" \notin alive)
  <2>1. phase' = "serving" /\ runLog' = <<"boot">>
    BY <1>1, <1>3 DEF Boot, Record
  <2> QED BY <2>1 DEF LifeInv
<1> QED BY <1>2, <1>3

LEMMA LifeInvNext == LifeInv /\ [LifecycleNext]_lifeVars => LifeInv'
<1> SUFFICES ASSUME LifeInv, [LifecycleNext]_lifeVars PROVE LifeInv'
  OBVIOUS
<1> USE DEF LifeInv
<1>1. CASE Launch
  BY <1>1 DEF Launch
<1>2. CASE BuildFails
  BY <1>2 DEF BuildFails, setupVars, worldVars, logVars
<1>3. CASE Interrupt
  <2>1. runLog' \in {<<>>, <<"boot">>}
    BY <1>3 DEF Interrupt, LogsOrNot
  <2> QED
    BY <1>3, <2>1 DEF Interrupt, Stopping, setupVars, worldVars
<1>4. CASE Signal
  BY <1>4 DEF Signal, setupVars, worldVars, logVars
<1>5. CASE ServerDies
  BY <1>5 DEF ServerDies, Stopping, setupVars, worldVars, logVars
<1>6. CASE Kill
  BY <1>6 DEF Kill, setupVars, worldVars
<1>7. CASE \E p \in Probes : Ask(p)
  BY <1>7 DEF Ask, courseVars, setupVars, worldVars, logVars
<1>8. CASE \E c \in Services : Flip(c)
  BY <1>8 DEF Flip, courseVars, setupVars, logVars
<1>9. CASE Progress
  <2>1. CASE Built
    BY <2>1 DEF Built, worldVars
  <2>2. ASSUME NEW b \in Brokers, Connect(b) \/ Close(b) PROVE LifeInv'
    BY <2>2 DEF Connect, Close, setupVars, worldVars, logVars
  <2>3. CASE Boot
    BY <2>3, BootLogs
  <2>4. CASE TellServer
    BY <2>4 DEF TellServer, setupVars, worldVars, logVars
  <2>5. CASE ServerEnds
    BY <2>5 DEF ServerEnds, Stopping, setupVars, worldVars, logVars
  <2>6. CASE Stop
    BY <2>6, StopLogs
  <2> QED BY <1>9, <2>1, <2>2, <2>3, <2>4, <2>5, <2>6 DEF Progress
<1>10. CASE Answering
  <2>1. UNCHANGED <<courseVars, logVars>>
    BY <1>10 DEF Answering, CheckAnswers, Answer
  <2> QED BY <2>1 DEF courseVars, logVars
<1>11. CASE UNCHANGED lifeVars
  BY <1>11 DEF lifeVars, courseVars, setupVars, worldVars, logVars
<1>12. CASE InterruptStop
  BY <1>12 DEF InterruptStop, setupVars, worldVars
<1>13. CASE DisposeFails
  BY <1>13 DEF DisposeFails, setupVars, worldVars
<1> QED BY <1>1, <1>2, <1>3, <1>4, <1>5, <1>6, <1>7, <1>8, <1>9, <1>10, <1>11,
           <1>12, <1>13
  DEF LifecycleNext

(* A process that serves has logged its boot.  One that is gone has logged   *)
(* its shutdown although its start was interrupted or failed, and both       *)
(* events if it served, whatever signals came; unless it was killed, never   *)
(* got past build(), the database refused an event or was not disposed of,   *)
(* or an interrupt hit the stop() of one that never served.                  *)
THEOREM LogAlwaysTellsTheRun == LifecycleSpec => []LogTellsTheRun
<1>1. LifecycleInit => LifeInv
  BY LifeInvInit
<1>2. LifeInv /\ [LifecycleNext]_lifeVars => LifeInv'
  BY LifeInvNext
<1>3. LifeInv => LogTellsTheRun
  BY DEF LifeInv, LogTellsTheRun
<1> QED BY <1>1, <1>2, <1>3, PTL DEF LifecycleSpec

-----------------------------------------------------------------------------
(* The watchdog: the two stamps tell how long the feed has been away, or was *)
(* the last time, and of the latencies it keeps at least one in twenty is    *)
(* above the 95th percentile's place.                                        *)
Clocks ==
  /\ second \in Nat /\ gap \in Nat /\ slow \in Seq(BOOLEAN)
  /\ lostAt \in Nat \cup {Unset} /\ backAt \in Nat \cup {Unset}
  /\ feedUp \in BOOLEAN
StampsTellGap ==
  IF lostAt = Unset THEN feedUp /\ gap = 0
  ELSE IF feedUp THEN backAt # Unset /\ gap = backAt - lostAt
  ELSE backAt = Unset /\ gap = second - lostAt
WatchInv == Clocks /\ StampsTellGap

LEMMA WatchInvInit == WatchdogInit => WatchInv
BY DEF WatchdogInit, WatchInv, Clocks, StampsTellGap

LEMMA WatchInvNext == WatchInv /\ [WatchdogNext]_watchVars => WatchInv'
<1> SUFFICES ASSUME WatchInv, [WatchdogNext]_watchVars PROVE WatchInv'
  OBVIOUS
<1> USE DEF WatchInv, Clocks, StampsTellGap, Unset
<1>1. CASE SecondPasses
  BY <1>1 DEF SecondPasses
<1>2. ASSUME NEW isSlow \in BOOLEAN, RecordLatency(isSlow) PROVE WatchInv'
  <2>1. slow' \in Seq(BOOLEAN)
    <3>1. Len(slow) \in Nat /\ (~(Len(slow) < Kept) => slow # <<>>)
      BY WatchdogAssumption
    <3>2. slow # <<>> => Tail(slow) \in Seq(BOOLEAN)
      BY HeadTailProperties
    <3> QED
      BY <1>2, <3>1, <3>2, AppendProperties DEF RecordLatency
  <2> QED
    BY <1>2, <2>1 DEF RecordLatency
<1>3. CASE RecordDisconnect
  <2>1. second' = second /\ lostAt' = second /\ gap' = 0 /\ feedUp' = FALSE
        /\ slow' = slow /\ backAt' = Unset
    BY <1>3 DEF RecordDisconnect
  <2>2. second - second = 0 /\ second # Unset /\ 0 \in Nat
    OBVIOUS
  <2> QED
    BY <2>1, <2>2
<1>4. CASE RecordReconnect
  BY <1>4 DEF RecordReconnect
<1>5. CASE Drift
  BY <1>5 DEF Drift
<1>6. CASE UNCHANGED watchVars
  BY <1>6 DEF watchVars
<1> QED
  BY <1>1, <1>2, <1>3, <1>4, <1>5, <1>6 DEF WatchdogNext

LEMMA PercentileFits ==
  ASSUME NEW n \in Nat, NEW k \in Nat, P95Slow(n, k)
  PROVE  20 * k > n
BY DEF P95Slow, P95Index

LEMMA VerdictHolds == WatchInv => VerdictIsTrue
<1> SUFFICES ASSUME WatchInv, ~drifts
             PROVE  /\ (Verdict = "gap") <=> gap > GapHalt
                    /\ Verdict = "latency" => 20 * SlowOnes > Len(slow)
  BY DEF VerdictIsTrue
<1>1. GapSeconds = gap
  BY DEF WatchInv, Clocks, StampsTellGap, GapSeconds, Unset
<1>2. Len(slow) \in Nat /\ SlowOnes \in Nat
  <2>1. slow \in Seq(BOOLEAN)
    BY DEF WatchInv, Clocks
  <2>2. Len(slow) \in Nat /\ DOMAIN slow = 1 .. Len(slow)
    BY <2>1
  <2>3. IsFiniteSet(1 .. Len(slow))
    BY <2>2, FS_Interval
  <2>4. IsFiniteSet({i \in DOMAIN slow : slow[i]})
    BY <2>2, <2>3, FS_Subset
  <2> QED
    BY <2>2, <2>4, FS_CardinalityType DEF SlowOnes
<1>3. P95Slow(Len(slow), SlowOnes) => 20 * SlowOnes > Len(slow)
  BY <1>2, PercentileFits
<1>4. Verdict = "gap" <=> gap > GapHalt
  BY <1>1 DEF Verdict
<1>5. Verdict = "latency" => P95Slow(Len(slow), SlowOnes)
  BY <1>1 DEF Verdict
<1> QED
  BY <1>3, <1>4, <1>5

(* The watchdog halts for a gap exactly if the feed's last absence was too   *)
(* long, and for latency only if more than one call in twenty was slow,      *)
(* whatever deque length, thresholds and order of events.                    *)
THEOREM VerdictAlwaysTrue == WatchdogSpec => []VerdictIsTrue
<1>1. WatchInv /\ [WatchdogNext]_watchVars => WatchInv'
  BY WatchInvNext
<1> QED
  BY <1>1, WatchInvInit, VerdictHolds, PTL DEF WatchdogSpec

-----------------------------------------------------------------------------
(* The archive: between emptying a month's file and writing it back, a job   *)
(* holds all the rows ever appended to it, with its own.                     *)
Tables(f) == f = [s \in Symbols |-> [m \in Months |-> f[s][m]]]
Shapes ==
  /\ Tables(file) /\ Tables(given)
  /\ task = [s \in Symbols |-> task[s]]
  /\ batch = [s \in Symbols |-> batch[s]]
  /\ table = [s \in Symbols |-> table[s]]
HoldsAll(s) ==
  LET b == Head(batch[s])
  IN  task[s] = "truncated" /\ b.month \in Months =>
        table[s] = given[s][b.month] (+) b.rows
ArchiveInv == Shapes /\ RowsAreKept /\ \A s \in Symbols : HoldsAll(s)

OneCell(f, g, s, k, v) ==
  /\ Tables(g)
  /\ \A u \in Symbols, m \in Months :
       g[u][m] = IF u = s /\ m = k THEN v ELSE f[u][m]

LEMMA CellChanges ==
  ASSUME NEW f, Tables(f), NEW s \in Symbols, NEW k, NEW v, NEW g,
         g = [f EXCEPT ![s][k] = v]
  PROVE  OneCell(f, g, s, k, v)
<1>1. \A u \in Symbols : g[u] = IF u = s THEN [f[s] EXCEPT ![k] = v] ELSE f[u]
  BY DEF Tables
<1>2. \A u \in Symbols : f[u] = [m \in Months |-> f[u][m]]
  BY DEF Tables
<1>3. \A u \in Symbols, m \in Months :
        g[u][m] = IF u = s /\ m = k THEN v ELSE f[u][m]
  <2>1. g[s] = [f[s] EXCEPT ![k] = v] /\ f[s] = [m \in Months |-> f[s][m]]
    BY <1>1, <1>2
  <2>2. \A m \in Months : g[s][m] = IF m = k THEN v ELSE f[s][m]
    <3> DEFINE r == f[s]
    <3>1. r = [m \in Months |-> r[m]] /\ g[s] = [r EXCEPT ![k] = v]
      BY <2>1
    <3> HIDE DEF r
    <3>2. \A m \in Months : [r EXCEPT ![k] = v][m] = IF m = k THEN v ELSE r[m]
      BY <3>1
    <3> QED
      BY <3>1, <3>2 DEF r
  <2> QED
    BY <1>1, <2>2
<1>4. \A u \in Symbols : g[u] = [m \in Months |-> g[u][m]]
  <2>1. g[s] = [f[s] EXCEPT ![k] = v]
    BY <1>1
  <2>2. f[s] = [m \in Months |-> f[s][m]]
    BY <1>2
  <2> DEFINE h == [f[s] EXCEPT ![k] = v]
  <2>3. h = [m \in Months |-> h[m]]
    BY <2>2
  <2> QED
    BY <1>1, <1>2, <2>1, <2>3
<1>5. g = [u \in Symbols |-> g[u]]
  BY DEF Tables
<1> QED
  BY <1>3, <1>4, <1>5 DEF OneCell, Tables

LEMMA ArchiveInvInit == ArchiveInit => ArchiveInv
<1> SUFFICES ASSUME ArchiveInit PROVE ArchiveInv
  OBVIOUS
<1>1. Shapes
  BY DEF ArchiveInit, Shapes, Tables
<1>2. RowsAreKept
  BY DEF ArchiveInit, RowsAreKept
<1>3. \A s \in Symbols : HoldsAll(s)
  BY DEF ArchiveInit, HoldsAll
<1> QED
  BY <1>1, <1>2, <1>3 DEF ArchiveInv

LEMMA OpenKeeps ==
  ASSUME ArchiveInv, NEW s \in Symbols, OpenMonth(s)
  PROVE  ArchiveInv'
<1> DEFINE b == Head(batch[s])
<1>1. /\ file[s][b.month] # Torn
      /\ task' = [task EXCEPT ![s] = "truncated"]
      /\ table' = [table EXCEPT ![s] = file[s][b.month] (+) b.rows]
      /\ file' = [file EXCEPT ![s][b.month] = Torn]
      /\ batch' = batch /\ given' = given
  BY DEF OpenMonth, Merged
<1>2. Shapes /\ RowsAreKept /\ \A u \in Symbols : HoldsAll(u)
  BY DEF ArchiveInv
<1>a. OneCell(file, file', s, b.month, Torn)
  BY <1>1, <1>2, CellChanges DEF Shapes
<1>3. /\ Tables(file')
      /\ \A u \in Symbols, m \in Months :
           file'[u][m] = IF u = s /\ m = b.month THEN Torn ELSE file[u][m]
  BY <1>a DEF OneCell
<1>4. Shapes'
  BY <1>1, <1>2, <1>3 DEF Shapes
<1>5. RowsAreKept'
  BY <1>1, <1>2, <1>3 DEF RowsAreKept
<1>6. ASSUME NEW u \in Symbols PROVE HoldsAll(u)'
  <2>1. CASE u = s
    <3>1. table'[s] = file[s][b.month] (+) b.rows
      BY <1>1, <1>2 DEF Shapes
    <3>2. b.month \in Months => file[s][b.month] = given[s][b.month]
      BY <1>1, <1>2 DEF RowsAreKept
    <3> QED
      BY <1>1, <2>1, <3>1, <3>2 DEF HoldsAll
  <2>2. CASE u # s
    BY <1>1, <1>2, <2>2 DEF HoldsAll, Shapes
  <2> QED
    BY <2>1, <2>2
<1> QED
  BY <1>4, <1>5, <1>6 DEF ArchiveInv

LEMMA WriteKeeps ==
  ASSUME ArchiveInv, NEW s \in Symbols, WriteMonth(s)
  PROVE  ArchiveInv'
<1> DEFINE b == Head(batch[s])
<1>1. /\ task[s] = "truncated"
      /\ file' = [file EXCEPT ![s][b.month] = table[s]]
      /\ given' = [given EXCEPT ![s][b.month] = given[s][b.month] (+) b.rows]
      /\ batch' = [batch EXCEPT ![s] = Tail(batch[s])]
      /\ table' = [table EXCEPT ![s] = EmptyBag]
      /\ task' = [task EXCEPT ![s] = "writing"]
  BY DEF WriteMonth
<1>2. Shapes /\ RowsAreKept /\ \A u \in Symbols : HoldsAll(u)
  BY DEF ArchiveInv
<1> DEFINE all == given[s][b.month] (+) b.rows
<1>3. b.month \in Months => table[s] = all
  BY <1>1, <1>2 DEF HoldsAll
<1> HIDE DEF all
<1>a. OneCell(file, file', s, b.month, table[s])
  BY <1>1, <1>2, CellChanges DEF Shapes
<1>4. /\ Tables(file')
      /\ \A u \in Symbols, m \in Months :
           file'[u][m] = IF u = s /\ m = b.month THEN table[s] ELSE file[u][m]
  BY <1>a DEF OneCell
<1>5. given' = [given EXCEPT ![s][b.month] = all]
  BY <1>1 DEF all
<1>b. OneCell(given, given', s, b.month, all)
  BY <1>2, <1>5, CellChanges DEF Shapes
<1>6. /\ Tables(given')
      /\ \A u \in Symbols, m \in Months :
           given'[u][m] = IF u = s /\ m = b.month THEN all ELSE given[u][m]
  BY <1>b DEF OneCell
<1>7. Shapes'
  BY <1>1, <1>2, <1>4, <1>6 DEF Shapes
<1>8. RowsAreKept'
  BY <1>2, <1>3, <1>4, <1>6 DEF RowsAreKept
<1>9. ASSUME NEW u \in Symbols PROVE HoldsAll(u)'
  <2>1. CASE u = s
    BY <1>1, <1>2, <2>1 DEF HoldsAll, Shapes
  <2>2. CASE u # s
    <3>1. task'[u] = task[u] /\ table'[u] = table[u] /\ batch'[u] = batch[u]
      BY <1>1, <1>2, <2>2 DEF Shapes
    <3>2. \A m \in Months : given'[u][m] = given[u][m]
      BY <1>6, <2>2
    <3> QED
      BY <1>2, <3>1, <3>2 DEF HoldsAll
  <2> QED
    BY <2>1, <2>2
<1> QED
  BY <1>7, <1>8, <1>9 DEF ArchiveInv

LEMMA ArchiveInvNext ==
  ArchiveInv /\ [ArchiveNext]_archiveVars => ArchiveInv'
<1> SUFFICES ASSUME ArchiveInv, [ArchiveNext]_archiveVars PROVE ArchiveInv'
  OBVIOUS
<1>1. Shapes /\ RowsAreKept /\ \A u \in Symbols : HoldsAll(u)
  BY DEF ArchiveInv
(* A task that turns to something else holds nothing yet.                    *)
<1>2. ASSUME UNCHANGED <<file, given, table>>,
             task' = [u \in Symbols |-> task'[u]],
             batch' = [u \in Symbols |-> batch'[u]],
             \A u \in Symbols :
               task'[u] = "truncated" =>
                 task[u] = "truncated" /\ batch'[u] = batch[u]
      PROVE  ArchiveInv'
  <2>a. Tables(file)' /\ Tables(given)' /\ table' = [u \in Symbols |-> table'[u]]
    BY <1>1, <1>2, Zenon DEF Shapes, Tables
  <2>1. Shapes' /\ RowsAreKept'
    BY <1>1, <1>2, <2>a DEF Shapes, RowsAreKept
  <2>2. \A u \in Symbols : HoldsAll(u)'
    BY <1>1, <1>2 DEF HoldsAll
  <2> QED
    BY <2>1, <2>2 DEF ArchiveInv
<1>3. CASE Advance
  BY <1>1, <1>2, <1>3 DEF Advance, Shapes
<1>4. CASE StartJob
  BY <1>1, <1>2, <1>4 DEF StartJob, Shapes
<1>5. ASSUME NEW s \in Symbols,
             \/ Fetch(s) \/ FetchFails(s) \/ EndSymbol(s)
             \/ \E from \in 0 .. now : \E bad \in {{}, {from}} :
                  Fetched(s, from, bad)
      PROVE  ArchiveInv'
  <2>1. /\ UNCHANGED <<file, given, table>>
        /\ \E w \in {"fetching", "done", "writing"} :
             task' = [task EXCEPT ![s] = w]
        /\ batch' = [u \in Symbols |-> batch'[u]]
        /\ \A u \in Symbols \ {s} : batch'[u] = batch[u]
    <3>1. CASE Fetch(s)
      BY <1>1, <3>1 DEF Fetch, Shapes
    <3>2. CASE FetchFails(s) \/ EndSymbol(s)
      BY <1>1, <3>2 DEF FetchFails, EndSymbol, Shapes
    <3>3. ASSUME NEW from, NEW bad, Fetched(s, from, bad)
          PROVE  /\ UNCHANGED <<file, given, table>>
                 /\ task' = [task EXCEPT ![s] = "writing"]
                 /\ batch' = [u \in Symbols |-> batch'[u]]
                 /\ \A u \in Symbols \ {s} : batch'[u] = batch[u]
      <4> DEFINE months == ByMonth(Parsed(from, bad))
      <4>1. /\ UNCHANGED <<file, given, table>>
            /\ task' = [task EXCEPT ![s] = "writing"]
            /\ batch' = [batch EXCEPT ![s] = months]
        BY <3>3 DEF Fetched
      <4> HIDE DEF months
      <4> QED
        BY <1>1, <4>1 DEF Shapes
    <3> QED
      BY <1>5, <3>1, <3>2, <3>3
  <2>2. PICK w \in {"fetching", "done", "writing"} :
          task' = [task EXCEPT ![s] = w]
    BY <2>1
  <2>3. task' = [u \in Symbols |-> task'[u]]
        /\ \A u \in Symbols : task'[u] = IF u = s THEN w ELSE task[u]
    BY <1>1, <2>2 DEF Shapes
  <2> QED
    BY <1>2, <2>1, <2>2, <2>3
<1>6. CASE JobDies
  <2>1. /\ UNCHANGED <<file, given>>
        /\ task' = [s \in Symbols |-> "done"]
        /\ batch' = [s \in Symbols |-> <<>>]
        /\ table' = [s \in Symbols |-> EmptyBag]
    BY <1>6 DEF JobDies
  <2>a. Tables(file)' /\ Tables(given)'
    BY <1>1, <2>1, Zenon DEF Shapes, Tables
  <2>2. Shapes' /\ RowsAreKept'
    BY <1>1, <2>1, <2>a DEF Shapes, RowsAreKept
  <2>3. \A u \in Symbols : HoldsAll(u)'
    BY <2>1 DEF HoldsAll
  <2> QED
    BY <2>2, <2>3 DEF ArchiveInv
<1>7. CASE UNCHANGED archiveVars
  BY <1>1, <1>2, <1>7 DEF archiveVars, Shapes
<1> QED
  BY <1>3, <1>4, <1>5, <1>6, <1>7, OpenKeeps, WriteKeeps DEF ArchiveNext

(* Whatever jobs run, fail or die, a file that is not torn holds every row   *)
(* ever appended to it, as often as it was appended.                         *)
THEOREM RowsAlwaysKept == ArchiveSpec => []RowsAreKept
<1>1. ArchiveInv => RowsAreKept
  BY DEF ArchiveInv
<1> QED
  BY <1>1, ArchiveInvInit, ArchiveInvNext, PTL DEF ArchiveSpec

(* The rows of two bags together: one by one, from the smallest set of rows  *)
(* for which it would fail.                                                  *)
FiniteBag(b) == IsFiniteSet(DOMAIN b) /\ \A r \in DOMAIN b : b[r] \in Int

LEMMA RowsAddUp ==
  ASSUME NEW A, NEW B, FiniteBag(A), FiniteBag(B)
  PROVE  /\ FiniteBag(A (+) B)
         /\ RowCount(A (+) B) = RowCount(A) + RowCount(B)
<1> DEFINE D == DOMAIN A \cup DOMAIN B
           C == A (+) B
<1>1. /\ DOMAIN C = D
      /\ \A r \in D : C[r] = (IF r \in DOMAIN A THEN A[r] ELSE 0)
                           + (IF r \in DOMAIN B THEN B[r] ELSE 0)
  BY DEF (+)
<1> HIDE DEF C
<1>2. IsFiniteSet(DOMAIN A) /\ IsFiniteSet(DOMAIN B) /\ IsFiniteSet(D)
  BY FS_Union DEF FiniteBag
<1>3. \A r \in D : C[r] \in Int
  BY <1>1 DEF FiniteBag
<1> DEFINE Holds(S) ==
             SumFunctionOnSet(C, S) = SumFunctionOnSet(A, S \cap DOMAIN A)
                                    + SumFunctionOnSet(B, S \cap DOMAIN B)
           F == {S \in SUBSET D : ~Holds(S)}
<1>4. F = {}
  <2>1. SUFFICES ASSUME F # {} PROVE FALSE
    OBVIOUS
  <2>2. Family(F, D)
    BY <1>2, <2>1 DEF Family
  <2>a. HasSmallest(F)
    BY <2>2, SmallestSubset, Zenon
  <2>3. PICK S \in F : \A U \in F : U \subseteq S => U = S
    BY <2>a, Zenon DEF HasSmallest
  <2>4. S # {}
    <3>1. SUFFICES ASSUME S = {} PROVE FALSE
      OBVIOUS
    <3>2. S \cap DOMAIN A = {} /\ S \cap DOMAIN B = {}
      BY <3>1
    <3>3. Holds({})
      BY SumOfNothing, <3>1, <3>2
    <3> QED
      BY <2>3, <3>1, <3>3
  <2>5. PICK y \in S : TRUE
    BY <2>4
  <2> DEFINE R == S \ {y}
  <2>6. R \subseteq D /\ R # S /\ R \subseteq S /\ S = R \cup {y} /\ y \notin R /\ y \in D
    BY <2>3, <2>5
  <2>7. Holds(R)
    BY <2>3, <2>6
  <2>8. IsFiniteSet(R) /\ IsFiniteSet(R \cap DOMAIN A) /\ IsFiniteSet(R \cap DOMAIN B)
    BY <1>2, <2>6, FS_Subset
  <2> HIDE DEF R, D, Holds
  <2>9. SumFunctionOnSet(C, S) = SumFunctionOnSet(C, R) + C[y]
    BY <1>3, <2>6, <2>8, SumAdds
  <2>10. SumFunctionOnSet(A, S \cap DOMAIN A)
           = SumFunctionOnSet(A, R \cap DOMAIN A) + (IF y \in DOMAIN A THEN A[y] ELSE 0)
    <3>0. /\ \A r \in DOMAIN A : A[r] \in Int
          /\ SumFunctionOnSet(A, R \cap DOMAIN A) \in Int
      BY <2>8, SumIsInteger DEF FiniteBag
    <3>1. CASE y \in DOMAIN A
      <4>1. S \cap DOMAIN A = (R \cap DOMAIN A) \cup {y} /\ y \notin R \cap DOMAIN A
        BY <2>6, <3>1
      <4> QED
        BY <2>8, <3>0, <3>1, <4>1, SumAdds
    <3>2. CASE y \notin DOMAIN A
      <4>1. S \cap DOMAIN A = R \cap DOMAIN A
        BY <2>6, <3>2
      <4> QED
        BY <3>0, <3>2, <4>1
    <3> QED
      BY <3>1, <3>2
  <2>11. SumFunctionOnSet(B, S \cap DOMAIN B)
           = SumFunctionOnSet(B, R \cap DOMAIN B) + (IF y \in DOMAIN B THEN B[y] ELSE 0)
    <3>0. /\ \A r \in DOMAIN B : B[r] \in Int
          /\ SumFunctionOnSet(B, R \cap DOMAIN B) \in Int
      BY <2>8, SumIsInteger DEF FiniteBag
    <3>1. CASE y \in DOMAIN B
      <4>1. S \cap DOMAIN B = (R \cap DOMAIN B) \cup {y} /\ y \notin R \cap DOMAIN B
        BY <2>6, <3>1
      <4> QED
        BY <2>8, <3>0, <3>1, <4>1, SumAdds
    <3>2. CASE y \notin DOMAIN B
      <4>1. S \cap DOMAIN B = R \cap DOMAIN B
        BY <2>6, <3>2
      <4> QED
        BY <3>0, <3>2, <4>1
    <3> QED
      BY <3>1, <3>2
  <2>12. /\ SumFunctionOnSet(A, R \cap DOMAIN A) \in Int
         /\ SumFunctionOnSet(B, R \cap DOMAIN B) \in Int
         /\ y \in DOMAIN A => A[y] \in Int
         /\ y \in DOMAIN B => B[y] \in Int
    BY <2>8, SumIsInteger DEF FiniteBag
  <2>13. C[y] = (IF y \in DOMAIN A THEN A[y] ELSE 0)
              + (IF y \in DOMAIN B THEN B[y] ELSE 0)
    BY <1>1, <2>6 DEF D
  <2>14. Holds(S)
    BY <2>7, <2>9, <2>10, <2>11, <2>12, <2>13 DEF Holds
  <2> QED
    BY <2>3, <2>14
<1>5. Holds(D)
  BY <1>4
<1>6. D \cap DOMAIN A = DOMAIN A /\ D \cap DOMAIN B = DOMAIN B
  OBVIOUS
<1>7. RowCount(C) = RowCount(A) + RowCount(B)
  BY <1>1, <1>5, <1>6 DEF RowCount, SumFunction
<1> QED
  BY <1>1, <1>2, <1>3, <1>7 DEF FiniteBag, C


(* What a job has reported of a symbol is what its files gained; while a     *)
(* month is emptied, its old rows and the new ones are still in the table.   *)
(* All the rows of a file are of its month.                                  *)
RowType == [ts : BarTimes, over : BOOLEAN]
BagType == UNION {[D -> Nat \ {0}] : D \in {E \in SUBSET RowType : IsFiniteSet(E)}}
RowsOf(m) == {b \in BagType : \A r \in DOMAIN b : MonthOf(r.ts) = m}
Pieces  == {p \in [month : Months, rows : BagType] : p.rows \in RowsOf(p.month)}

Reported(s) ==
  /\ result[s] \in Int /\ stored[s] \in Int
  /\ batch[s] \in Seq(Pieces) /\ table[s] \in BagType
  /\ \A m \in Months : file[s][m] # Torn => file[s][m] \in RowsOf(m)
  /\ task[s] # "truncated" => stored[s] = result[s]
  /\ task[s] = "truncated" =>
       /\ batch[s] # <<>> /\ table[s] \in RowsOf(Head(batch[s]).month)
       /\ stored[s] + RowCount(table[s]) =
            result[s] + RowCount(Head(batch[s]).rows)
ReportInv ==
  /\ ArchiveInv /\ now \in BarTimes
  /\ result = [s \in Symbols |-> result[s]]
  /\ stored = [s \in Symbols |-> stored[s]]
  /\ \A s \in Symbols : Reported(s)

LEMMA BagIsFinite ==
  ASSUME NEW b \in BagType
  PROVE  FiniteBag(b) /\ RowCount(b) \in Int
<1>1. FiniteBag(b)
  BY DEF BagType, FiniteBag
<1> QED
  BY <1>1, SumIsInteger DEF FiniteBag, RowCount, SumFunction

LEMMA BagsJoin ==
  ASSUME NEW a \in BagType, NEW b \in BagType
  PROVE  /\ a (+) b \in BagType
         /\ RowCount(a (+) b) = RowCount(a) + RowCount(b)
<1>1. FiniteBag(a) /\ FiniteBag(b)
  BY BagIsFinite
<1>2. FiniteBag(a (+) b) /\ RowCount(a (+) b) = RowCount(a) + RowCount(b)
  BY <1>1, RowsAddUp
<1>3. /\ DOMAIN (a (+) b) = DOMAIN a \cup DOMAIN b
      /\ a (+) b = [r \in DOMAIN (a (+) b) |-> (a (+) b)[r]]
  BY DEF (+)
<1>4. DOMAIN a \in SUBSET RowType /\ DOMAIN b \in SUBSET RowType
  BY DEF BagType
<1> DEFINE c == a (+) b
<1>5. /\ c = [r \in DOMAIN c |-> c[r]] /\ DOMAIN c \in SUBSET RowType
      /\ IsFiniteSet(DOMAIN c)
  BY <1>2, <1>3, <1>4 DEF FiniteBag
<1>p. \A r \in DOMAIN c : c[r] \in Nat \ {0}
  <2>1. /\ \A r \in DOMAIN a : a[r] \in Nat \ {0}
        /\ \A r \in DOMAIN b : b[r] \in Nat \ {0}
    BY DEF BagType
  <2>2. \A r \in DOMAIN c : /\ r \in DOMAIN a \/ r \in DOMAIN b
                            /\ c[r] = (IF r \in DOMAIN a THEN a[r] ELSE 0)
                                     + (IF r \in DOMAIN b THEN b[r] ELSE 0)
    BY DEF (+)
  <2> HIDE DEF c
  <2> QED
    BY <2>1, <2>2
<1> HIDE DEF c
<1>6. c \in [DOMAIN c -> Nat \ {0}]
  BY <1>5, <1>p
<1>7. c \in BagType
  BY <1>5, <1>6 DEF BagType
<1> QED
  BY <1>2, <1>7 DEF c

LEMMA RowsJoin ==
  ASSUME NEW m, NEW a \in RowsOf(m), NEW b \in RowsOf(m)
  PROVE  a (+) b \in RowsOf(m)
<1>1. a (+) b \in BagType /\ a \in BagType /\ b \in BagType
  BY BagsJoin DEF RowsOf
<1>2. DOMAIN (a (+) b) = DOMAIN a \cup DOMAIN b
  BY DEF (+)
<1> QED
  BY <1>1, <1>2 DEF RowsOf

LEMMA EmptyIsBag == EmptyBag \in BagType /\ \A m : EmptyBag \in RowsOf(m)
<1>1. /\ EmptyBag \in [{} -> Nat \ {0}] /\ {} \in SUBSET RowType
      /\ IsFiniteSet({}) /\ DOMAIN EmptyBag = {}
  BY FS_EmptySet DEF EmptyBag, SetToBag
<1> QED
  BY <1>1 DEF BagType, RowsOf

(* What is fetched belongs to months of the model, each piece a finite bag.  *)
LEMMA MonthsBetween ==
  ASSUME NEW t \in BarTimes, NEW u \in BarTimes, NEW m \in Int,
         MonthOf(t) <= m, m <= MonthOf(u)
  PROVE  m \in Months
<1>1. /\ MonthLength \in Nat \ {0} /\ MaxNow \in Nat
  BY ArchiveAssumption
<1>2. /\ t \in Nat /\ u \in Nat /\ u <= MaxNow
      /\ MonthLength \in Int /\ MonthLength > 0
  BY <1>1 DEF BarTimes
<1>3. /\ MonthOf(t) \in Int /\ MonthOf(u) \in Int
      /\ t = MonthLength * MonthOf(t) + (t % MonthLength)
      /\ u = MonthLength * MonthOf(u) + (u % MonthLength)
      /\ t % MonthLength \in 0 .. MonthLength - 1
      /\ u % MonthLength \in 0 .. MonthLength - 1
  BY <1>2, Division DEF MonthOf, Positive
<1> DEFINE v == MonthLength * m
<1>4. v \in Int /\ v % MonthLength \in 0 .. MonthLength - 1 /\ v \div MonthLength \in Int
      /\ v = MonthLength * (v \div MonthLength) + (v % MonthLength)
  BY <1>2, Division DEF Positive
<1>5. v \div MonthLength = m
  BY <1>2, <1>4
<1>6. 0 <= MonthOf(t)
  BY <1>2, <1>3
<1>7. v <= u /\ 0 <= v
  BY <1>2, <1>3, <1>6
<1>8. v \in BarTimes
  BY <1>2, <1>7, <1>4, <1>1 DEF BarTimes
<1> QED
  BY <1>5, <1>8 DEF Months, MonthOf

LEMMA PiecesOf ==
  ASSUME NEW T \in SUBSET BarTimes, now \in BarTimes
  PROVE  ByMonth(T) \in Seq(Pieces)
<1> DEFINE rows(m) == SetToBag({Row(t) : t \in {u \in T : MonthOf(u) = m}})
           first   == MonthOf(Min(T))
           count   == IF T = {} THEN 0 ELSE MonthOf(Max(T)) - first + 1
<1>1. ByMonth(T) = [k \in 1 .. count |-> [month |-> first + k - 1,
                                           rows |-> rows(first + k - 1)]]
  BY Zenon DEF ByMonth
<1>2. T \in SUBSET Int /\ IsFiniteSet(T) /\ BarTimes \in SUBSET Int
  <2>1. IsFiniteSet(BarTimes) /\ BarTimes \in SUBSET Int
    BY FS_Interval, ArchiveAssumption DEF BarTimes
  <2> QED
    BY <2>1, FS_Subset
<1>3. \A m : rows(m) \in RowsOf(m)
  <2> SUFFICES ASSUME NEW m PROVE rows(m) \in RowsOf(m)
    OBVIOUS
  <2> DEFINE U == {u \in T : MonthOf(u) = m}
             g == [t \in U |-> Row(t)]
             R == {g[t] : t \in U}
  <2>1. IsFiniteSet(U)
    BY <1>2, FS_Subset
  <2>2. IsFiniteSet(R)
    BY <2>1, ImageFinite
  <2>3. R \in SUBSET RowType
    <3>1. now \in Int
      BY <1>2
    <3>2. \A t \in BarTimes : Row(t) \in RowType
      BY <1>2, <3>1 DEF Row, RowType
    <3> QED
      BY <3>2, Zenon
  <2>r. R = {Row(t) : t \in U}
    OBVIOUS
  <2>4. SetToBag(R) \in [R -> Nat \ {0}] /\ DOMAIN SetToBag(R) = R
    BY DEF SetToBag
  <2>6. \A r \in R : MonthOf(r.ts) = m
    BY DEF Row
  <2> HIDE DEF R
  <2>5. SetToBag(R) \in BagType
    BY <2>2, <2>3, <2>4 DEF BagType
  <2> QED
    BY <2>4, <2>5, <2>6, <2>r DEF RowsOf
<1>4. CASE T = {}
  <2>1. count = 0 /\ 1 .. 0 = {}
    BY <1>4
  <2> QED
    BY <1>1, <2>1
<1>5. CASE T # {}
  <2>1. Min(T) \in BarTimes /\ Max(T) \in BarTimes
    BY <1>2, <1>5, GreatestMember, LeastMember
  <2>2. first \in Int /\ MonthOf(Max(T)) \in Int
    <3>1. Min(T) \in Int /\ Max(T) \in Int /\ MonthLength \in Positive
      BY <1>2, <2>1, ArchiveAssumption DEF Positive
    <3> QED
      BY <3>1, Division DEF MonthOf
  <2>3. count = MonthOf(Max(T)) - first + 1
    BY <1>5
  <2> HIDE DEF first, count, rows
  <2>4. \A k \in 1 .. count : first + k - 1 \in Months
    <3> TAKE k \in 1 .. count
    <3>1. /\ first + k - 1 \in Int
          /\ first <= first + k - 1 /\ first + k - 1 <= MonthOf(Max(T))
      BY <2>2, <2>3
    <3> QED
      BY <2>1, <3>1, MonthsBetween DEF first
  <2>5. ByMonth(T) \in [1 .. count -> Pieces]
    <3>1. ASSUME NEW k \in 1 .. count
          PROVE  [month |-> first + k - 1, rows |-> rows(first + k - 1)] \in Pieces
      <4> DEFINE m == first + k - 1
      <4>1. m \in Months
        BY <2>4, <3>1
      <4>2. rows(m) \in RowsOf(m) /\ rows(m) \in BagType
        BY <1>3 DEF RowsOf
      <4> HIDE DEF m
      <4>3. [month |-> m, rows |-> rows(m)] \in Pieces
        BY <4>1, <4>2 DEF Pieces
      <4> QED
        BY <4>3 DEF m
    <3> QED
      BY <1>1, <3>1
  <2>6. count \in Int
    BY <2>2, <2>3
  <2>7. PICK n \in Nat : 1 .. count = 1 .. n
    <3>1. CASE count \in Nat
      BY <3>1
    <3>2. CASE count \notin Nat
      <4>1. 1 .. count = 1 .. 0
        BY <2>6, <3>2
      <4> QED
        BY <4>1
    <3> QED
      BY <3>1, <3>2
  <2>8. ByMonth(T) \in [1 .. n -> Pieces]
    BY <2>5, <2>7, Zenon
  <2> HIDE DEF rows
  <2> QED
    BY <2>8, SMT
<1> QED
  BY <1>4, <1>5

LEMMA ReportStarts == ArchiveInit => ReportInv
<1> SUFFICES ASSUME ArchiveInit PROVE ReportInv
  OBVIOUS
<1>1. ArchiveInv
  BY ArchiveInvInit
<1>2. now \in BarTimes
  BY ArchiveAssumption DEF ArchiveInit, BarTimes
<1>3. ASSUME NEW s \in Symbols PROVE Reported(s)
  <2>1. /\ task[s] = "done" /\ batch[s] = <<>> /\ table[s] = EmptyBag
        /\ result[s] = 0 /\ stored[s] = 0
        /\ \A m \in Months : file[s][m] = EmptyBag
    BY DEF ArchiveInit
  <2>2. <<>> \in Seq(Pieces)
    OBVIOUS
  <2> QED
    BY <2>1, <2>2, EmptyIsBag DEF Reported
<1>4. /\ result = [s \in Symbols |-> result[s]]
      /\ stored = [s \in Symbols |-> stored[s]]
  BY DEF ArchiveInit
<1> QED
  BY <1>1, <1>2, <1>3, <1>4 DEF ReportInv

(* A step that leaves a symbol's rows alone leaves its report true.          *)
LEMMA ReportStays ==
  ASSUME NEW s \in Symbols, Reported(s),
         result'[s] = result[s], stored'[s] = stored[s],
         table'[s] = table[s], \A m \in Months : file'[s][m] = file[s][m],
         batch'[s] \in Seq(Pieces),
         \/ task'[s] = task[s] /\ batch'[s] = batch[s]
         \/ task[s] # "truncated" /\ task'[s] # "truncated"
  PROVE  Reported(s)'
BY DEF Reported

LEMMA OpenReports ==
  ASSUME ReportInv, NEW s \in Symbols, OpenMonth(s)
  PROVE  Reported(s)'
<1> DEFINE b == Head(batch[s])
           old == file[s][b.month]
<1>1. /\ task[s] = "writing" /\ batch[s] # <<>> /\ old # Torn
      /\ task' = [task EXCEPT ![s] = "truncated"]
      /\ table' = [table EXCEPT ![s] = old (+) b.rows]
      /\ stored' = [stored EXCEPT ![s] = stored[s] - RowCount(old)]
      /\ file' = [file EXCEPT ![s][b.month] = Torn]
      /\ batch' = batch /\ result' = result
  BY DEF OpenMonth, Merged
<1>2. Shapes /\ Reported(s) /\ stored = [u \in Symbols |-> stored[u]]
  BY DEF ReportInv, ArchiveInv
<1>3. b \in Pieces
  BY <1>1, <1>2, HeadTailProperties DEF Reported
<1>4. /\ b.month \in Months /\ b.rows \in BagType
      /\ b.rows \in RowsOf(b.month)
  BY <1>3 DEF Pieces
<1>5. old \in BagType /\ old \in RowsOf(b.month)
  <2>1. old \in RowsOf(b.month)
    BY <1>1, <1>2, <1>4 DEF Reported
  <2> QED
    BY <2>1 DEF RowsOf
<1>6. OneCell(file, file', s, b.month, Torn)
  BY <1>1, <1>2, CellChanges DEF Shapes
<1>7. \A m \in Months : file'[s][m] = IF m = b.month THEN Torn ELSE file[s][m]
  BY <1>6 DEF OneCell
<1>8. /\ task'[s] = "truncated" /\ table'[s] = old (+) b.rows
      /\ stored'[s] = stored[s] - RowCount(old)
      /\ batch'[s] = batch[s] /\ result'[s] = result[s]
  BY <1>1, <1>2 DEF Shapes
<1>9. /\ RowCount(old) \in Int /\ RowCount(b.rows) \in Int
      /\ old (+) b.rows \in BagType /\ old (+) b.rows \in RowsOf(b.month)
      /\ RowCount(old (+) b.rows) = RowCount(old) + RowCount(b.rows)
  BY <1>4, <1>5, BagsJoin, RowsJoin, BagIsFinite
<1>10. stored[s] = result[s] /\ result[s] \in Int /\ batch[s] \in Seq(Pieces)
       /\ \A m \in Months : file[s][m] # Torn => file[s][m] \in RowsOf(m)
  BY <1>1, <1>2 DEF Reported
<1>11. \A m \in Months : file'[s][m] # Torn => file'[s][m] \in RowsOf(m)
  BY <1>7, <1>10
<1> DEFINE now_b == Head(batch'[s])
<1>12. now_b = b
  BY <1>8
<1> HIDE DEF b, old, now_b
<1>13. stored'[s] \in Int /\ table'[s] \in RowsOf(now_b.month)
       /\ stored'[s] + RowCount(table'[s]) = result'[s] + RowCount(now_b.rows)
  BY <1>8, <1>9, <1>10, <1>12
<1> QED
  BY <1>1, <1>8, <1>9, <1>10, <1>11, <1>13 DEF Reported, now_b

LEMMA WriteReports ==
  ASSUME ReportInv, NEW s \in Symbols, WriteMonth(s)
  PROVE  Reported(s)'
<1> DEFINE b == Head(batch[s])
<1>1. /\ task[s] = "truncated"
      /\ file' = [file EXCEPT ![s][b.month] = table[s]]
      /\ stored' = [stored EXCEPT ![s] = stored[s] + RowCount(table[s])]
      /\ result' = [result EXCEPT ![s] = result[s] + RowCount(b.rows)]
      /\ batch' = [batch EXCEPT ![s] = Tail(batch[s])]
      /\ table' = [table EXCEPT ![s] = EmptyBag]
      /\ task' = [task EXCEPT ![s] = "writing"]
  BY DEF WriteMonth, Count
<1>2. /\ Shapes /\ Reported(s) /\ stored = [u \in Symbols |-> stored[u]]
      /\ result = [u \in Symbols |-> result[u]]
  BY DEF ReportInv, ArchiveInv
<1>3. /\ batch[s] # <<>> /\ batch[s] \in Seq(Pieces) /\ table[s] \in BagType
      /\ stored[s] + RowCount(table[s]) = result[s] + RowCount(b.rows)
      /\ stored[s] \in Int /\ result[s] \in Int
      /\ \A m \in Months : file[s][m] # Torn => file[s][m] \in RowsOf(m)
      /\ table[s] \in RowsOf(b.month)
  BY <1>1, <1>2 DEF Reported
<1>4. b \in Pieces /\ Tail(batch[s]) \in Seq(Pieces)
  BY <1>3, HeadTailProperties
<1>5. RowCount(b.rows) \in Int /\ RowCount(table[s]) \in Int
  BY <1>3, <1>4, BagIsFinite DEF Pieces
<1>6. OneCell(file, file', s, b.month, table[s])
  BY <1>1, <1>2, CellChanges DEF Shapes
<1>7. \A m \in Months : file'[s][m] # Torn => file'[s][m] \in RowsOf(m)
  BY <1>3, <1>6 DEF OneCell
<1>8. /\ task'[s] = "writing" /\ table'[s] = EmptyBag
      /\ stored'[s] = stored[s] + RowCount(table[s])
      /\ result'[s] = result[s] + RowCount(b.rows)
      /\ batch'[s] = Tail(batch[s])
  BY <1>1, <1>2 DEF Shapes
<1>9. stored'[s] = result'[s] /\ result'[s] \in Int
  BY <1>3, <1>5, <1>8
<1> QED
  BY <1>4, <1>7, <1>8, <1>9, EmptyIsBag DEF Reported

LEMMA ReportSteps ==
  ReportInv /\ [ArchiveNext]_archiveVars => ReportInv'
<1> SUFFICES ASSUME ReportInv, [ArchiveNext]_archiveVars PROVE ReportInv'
  OBVIOUS
<1>1. /\ now \in BarTimes /\ Shapes
      /\ result = [s \in Symbols |-> result[s]]
      /\ stored = [s \in Symbols |-> stored[s]]
      /\ \A s \in Symbols : Reported(s)
  BY DEF ReportInv, ArchiveInv
<1>t. task = [s \in Symbols |-> task[s]] /\ batch = [s \in Symbols |-> batch[s]]
  BY <1>1 DEF Shapes
<1>b. \A s \in Symbols : batch[s] \in Seq(Pieces)
  BY <1>1, SMTT(30) DEF Reported
<1>2. now' \in BarTimes
  <2>1. now' = now \/ (now < MaxNow /\ now' = now + 1)
    BY DEF ArchiveNext, archiveVars, Advance, StartJob, Fetch, FetchFails,
           Fetched, OpenMonth, WriteMonth, EndSymbol, JobDies
  <2> QED
    BY <1>1, <2>1, ArchiveAssumption, SMTT(30) DEF BarTimes
<1>3. ArchiveInv'
  BY ArchiveInvNext, SMTT(30) DEF ReportInv
<1>4. /\ result' = [s \in Symbols |-> result'[s]]
      /\ stored' = [s \in Symbols |-> stored'[s]]
  <2>1. /\ result' = result \/ result' = [s \in Symbols |-> 0]
           \/ \E s \in Symbols : \E n : result' = [result EXCEPT ![s] = n]
        /\ stored' = stored \/ stored' = [s \in Symbols |-> 0]
           \/ \E s \in Symbols : \E n : stored' = [stored EXCEPT ![s] = n]
    BY ZenonT(60) DEF ArchiveNext, archiveVars, Advance, StartJob, Fetch, FetchFails,
           Fetched, OpenMonth, WriteMonth, EndSymbol, JobDies
  <2> QED
    BY <1>1, <2>1, SMTT(30)
<1>5. ASSUME NEW u \in Symbols PROVE Reported(u)'
  <2>1. CASE UNCHANGED archiveVars \/ Advance
    BY <1>1, <1>b, <2>1, ReportStays DEF archiveVars, Advance
  <2>2. CASE StartJob
    <3>1. /\ task[u] = "done" /\ task'[u] = "queued"
          /\ result'[u] = 0 /\ stored'[u] = 0
          /\ UNCHANGED <<file, batch, table>>
      BY <2>2 DEF StartJob
    <3> QED
      BY <1>1, <3>1 DEF Reported
  <2>3. CASE JobDies
    <3>1. /\ task'[u] = "done" /\ batch'[u] = <<>> /\ table'[u] = EmptyBag
          /\ result'[u] = 0 /\ stored'[u] = 0 /\ file' = file
      BY <2>3 DEF JobDies
    <3>2. <<>> \in Seq(Pieces)
      OBVIOUS
    <3> QED
      BY <1>1, <3>1, <3>2, EmptyIsBag DEF Reported
  <2>4. ASSUME NEW s \in Symbols,
               Fetch(s) \/ FetchFails(s) \/ EndSymbol(s)
        PROVE  Reported(u)'
    <3>1. /\ UNCHANGED <<file, batch, table, result, stored>>
          /\ task[s] # "truncated"
          /\ \E w \in {"fetching", "done"} : task' = [task EXCEPT ![s] = w]
      BY <2>4 DEF Fetch, FetchFails, EndSymbol
    <3>2. task'[u] = task[u] \/ (task[u] # "truncated" /\ task'[u] # "truncated")
      BY <1>t, <3>1
    <3> QED
      BY <1>1, <1>b, <3>1, <3>2, ReportStays
  <2>5. ASSUME NEW s \in Symbols, NEW from \in 0 .. now,
               NEW bad \in {{}, {from}}, Fetched(s, from, bad)
        PROVE  Reported(u)'
    <3> DEFINE T == Parsed(from, bad)
               months == ByMonth(T)
    <3>1. /\ UNCHANGED <<file, table, result, stored>>
          /\ task[s] = "fetching" /\ task' = [task EXCEPT ![s] = "writing"]
          /\ batch' = [batch EXCEPT ![s] = months]
      BY <2>5 DEF Fetched
    <3>2. T \in SUBSET BarTimes
      BY <1>1, ArchiveAssumption DEF Parsed, BarTimes
    <3>3. months \in Seq(Pieces)
      BY <1>1, <3>2, PiecesOf
    <3> HIDE DEF months
    <3>4. IF u = s THEN /\ batch'[u] = months /\ task[u] = "fetching"
                        /\ task'[u] = "writing"
                   ELSE batch'[u] = batch[u] /\ task'[u] = task[u]
      BY <1>t, <3>1
    <3> QED
      BY <1>1, <1>b, <3>1, <3>3, <3>4, ReportStays
  <2>6. ASSUME NEW s \in Symbols, OpenMonth(s) \/ WriteMonth(s)
        PROVE  Reported(u)'
    <3>1. CASE u = s
      BY <2>6, <3>1, OpenReports, WriteReports
    <3>2. CASE u # s
      <4>1. \E k, v : file' = [file EXCEPT ![s][k] = v]
        BY <2>6 DEF OpenMonth, WriteMonth
      <4>2. PICK k, v : OneCell(file, file', s, k, v)
        BY <1>1, <4>1, CellChanges DEF Shapes
      <4>3. \A m \in Months : file'[u][m] = file[u][m]
        BY <3>2, <4>2 DEF OneCell
      <4>4. /\ task'[u] = task[u] /\ batch'[u] = batch[u]
            /\ table'[u] = table[u] /\ result'[u] = result[u]
            /\ stored'[u] = stored[u]
        BY <1>1, <2>6, <3>2 DEF Shapes, OpenMonth, WriteMonth
      <4> QED
        BY <1>1, <1>b, <4>3, <4>4, ReportStays
    <3> QED
      BY <3>1, <3>2
  <2> QED
    BY <2>1, <2>2, <2>3, <2>4, <2>5, <2>6 DEF ArchiveNext
<1> QED
  BY <1>2, <1>3, <1>4, <1>5 DEF ReportInv

(* The bars a backfill job reports, by symbol and in all, are the rows that  *)
(* the files gained by it, however its months and fetches interleave.        *)
THEOREM ReportAlwaysStored == ArchiveSpec => []ReportIsStored
<1>1. ReportInv => ReportIsStored
  <2> SUFFICES ASSUME ReportInv PROVE ReportIsStored
    OBVIOUS
  <2>1. \A s \in Symbols : task[s] = "done" => result[s] = stored[s]
    BY DEF ReportInv, Reported
  <2>2. (\A s \in Symbols : task[s] = "done") => result = stored
    BY <2>1 DEF ReportInv
  <2> QED
    BY <2>1, <2>2 DEF ReportIsStored, Total
<1> QED
  BY <1>1, ReportStarts, ReportSteps, PTL DEF ArchiveSpec

-----------------------------------------------------------------------------
(* A backtest reads the range: lists laid one after the other hold together  *)
(* what each of them holds, and sorting them loses and repeats nothing.      *)

(* g is the fold that Listed(f, T) takes its value from.           *)
IsList(f, T, g) ==
  g = [s \in SUBSET T |->
         IF s = {} THEN <<>> ELSE g[s \ {Pick(s)}] \o f[Pick(s)]]

LEMMA ListIsFold ==
  ASSUME NEW f, NEW T
  PROVE  Listed(f, T) = (CHOOSE g : IsList(f, T, g))[T]
BY DEF Listed, FoldFunctionOnSet, MapThenFoldSet, IsList, Pick

(* Two such folds agree wherever both are defined.                           *)
LEMMA ListUnique ==
  ASSUME NEW f, NEW T, NEW U, IsFiniteSet(T), NEW g, NEW h,
         IsList(f, T, g), IsList(f, U, h)
  PROVE  \A s \in SUBSET (T \cap U) : g[s] = h[s]
<1> DEFINE F == {s \in SUBSET (T \cap U) : g[s] # h[s]}
<1>1. SUFFICES ASSUME F # {} PROVE FALSE
  OBVIOUS
<1>2. Family(F, T)
  BY <1>1 DEF Family
<1>3. PICK s \in F : \A r \in F : r \subseteq s => r = s
  BY <1>2, SmallestSubset DEF HasSmallest
<1>4. s # {}
  BY <1>3 DEF IsList
<1>5. Pick(s) \in s
  BY <1>4 DEF Pick
<1>6. s \ {Pick(s)} \notin F
  BY <1>3, <1>5
<1>7. g[s \ {Pick(s)}] = h[s \ {Pick(s)}]
  BY <1>3, <1>6
<1>8. /\ g[s] = g[s \ {Pick(s)}] \o f[Pick(s)]
      /\ h[s] = h[s \ {Pick(s)}] \o f[Pick(s)]
  BY <1>3, <1>4 DEF IsList
<1> QED
  BY <1>3, <1>7, <1>8

(* A finite set has its fold: it extends those of its proper subsets.        *)
LEMMA ListExists ==
  ASSUME NEW f, NEW T, IsFiniteSet(T)
  PROVE  \E g : IsList(f, T, g)
<1> DEFINE F == {s \in SUBSET T : ~ \E g : IsList(f, s, g)}
<1>1. SUFFICES ASSUME F # {} PROVE FALSE
  OBVIOUS
<1>2. Family(F, T)
  BY <1>1 DEF Family
<1>3. PICK t \in F : \A r \in F : r \subseteq t => r = t
  BY <1>2, SmallestSubset DEF HasSmallest
<1> DEFINE G(s)   == CHOOSE g : IsList(f, s, g)
           val(s) == IF s = {} THEN <<>>
                     ELSE G(s \ {Pick(s)})[s \ {Pick(s)}] \o f[Pick(s)]
           k      == [s \in SUBSET t |-> val(s)]
<1>4. \A s \in SUBSET t : s # t => IsList(f, s, G(s))
  BY <1>3
<1>5. \A s \in SUBSET t : s # t => G(s)[s] = val(s)
  <2>1. SUFFICES ASSUME NEW s \in SUBSET t, s # t PROVE G(s)[s] = val(s)
    OBVIOUS
  <2>2. IsList(f, s, G(s)) /\ IsFiniteSet(s)
    BY <1>3, <1>4, <2>1, FS_Subset, SMTT(30)
  <2>3. CASE s = {}
    BY <2>2, <2>3 DEF IsList
  <2>4. CASE s # {}
    <3> DEFINE r == s \ {Pick(s)}
    <3>1. Pick(s) \in s
      BY <2>4 DEF Pick
    <3>2. r \in SUBSET t /\ r # t /\ r \in SUBSET s
      BY <2>1, <3>1
    <3>3. IsList(f, r, G(r)) /\ r \in SUBSET (s \cap r)
      BY <1>4, <3>2
    <3>4. G(s)[r] = G(r)[r]
      <4> HIDE DEF G, r
      <4> QED
        BY <2>2, <3>3, ListUnique
    <3>5. G(s)[s] = G(s)[r] \o f[Pick(s)]
      <4> HIDE DEF G
      <4> QED
        BY <2>2, <2>4 DEF IsList
    <3>6. val(s) = G(r)[r] \o f[Pick(s)]
      BY <2>4
    <3> QED
      <4> HIDE DEF G, r, val
      <4> QED
        BY <3>4, <3>5, <3>6
  <2> QED
    BY <2>3, <2>4
<1>6. IsList(f, t, k)
  <2>1. ASSUME NEW s \in SUBSET t, s # {}
        PROVE  k[s \ {Pick(s)}] = G(s \ {Pick(s)})[s \ {Pick(s)}]
    <3>1. Pick(s) \in s
      BY <2>1 DEF Pick
    <3>2. s \ {Pick(s)} \in SUBSET t /\ s \ {Pick(s)} # t
      BY <3>1
    <3> HIDE DEF G, val
    <3> QED
      BY <1>5, <3>2
  <2>2. \A s \in SUBSET t :
          val(s) = IF s = {} THEN <<>> ELSE k[s \ {Pick(s)}] \o f[Pick(s)]
    <3> HIDE DEF G, k
    <3> QED
      BY <2>1
  <2> HIDE DEF val
  <2> QED
    BY <2>2 DEF IsList
<1> QED
  BY <1>3, <1>6

LEMMA ListFold ==
  ASSUME NEW f, NEW T, IsFiniteSet(T)
  PROVE  \E g : /\ IsList(f, T, g)
                /\ \A s \in SUBSET T : Listed(f, s) = g[s]
<1> DEFINE G(s) == CHOOSE g : IsList(f, s, g)
<1>1. \A s \in SUBSET T : IsList(f, s, G(s)) /\ IsFiniteSet(s)
  BY ListExists, FS_Subset
<1>2. \A s \in SUBSET T : Listed(f, s) = G(s)[s]
  BY ListIsFold
<1> HIDE DEF G
<1>3. IsList(f, T, G(T))
  BY <1>1
<1>4. \A s \in SUBSET T : G(s)[s] = G(T)[s]
  <2>1. SUFFICES ASSUME NEW s \in SUBSET T PROVE G(s)[s] = G(T)[s]
    OBVIOUS
  <2>2. IsList(f, s, G(s)) /\ IsFiniteSet(s) /\ s \in SUBSET (s \cap T)
    BY <1>1
  <2> QED
    BY <1>3, <2>2, ListUnique
<1> QED
  BY <1>2, <1>3, <1>4

LEMMA SameSize ==
  ASSUME NEW S, NEW T, IsFiniteSet(S), NEW f \in [S -> T],
         \A x, y \in S : f[x] = f[y] => x = y,
         \A y \in T : \E x \in S : f[x] = y
  PROVE  IsFiniteSet(T) /\ Cardinality(T) = Cardinality(S)
<1>1. f \in Injection(S, T)
  BY DEF Injection, IsInjective
<1>2. f \in Surjection(S, T)
  BY DEF Surjection
<1> QED
  BY <1>1, <1>2, FS_Surjection

(* How often a list holds something.                                         *)
Where(q, e)  == {n \in DOMAIN q : q[n] = e}
Occurs(q, e) == Cardinality(Where(q, e))

LEMMA WhereIs ==
  ASSUME NEW E, NEW q \in Seq(E), NEW e
  PROVE  /\ IsFiniteSet(Where(q, e)) /\ Where(q, e) \in SUBSET (1 .. Len(q))
         /\ Occurs(q, e) \in Nat
<1>1. Where(q, e) \in SUBSET (1 .. Len(q)) /\ Len(q) \in Nat
  BY DEF Where
<1>2. IsFiniteSet(1 .. Len(q))
  BY <1>1, FS_Interval
<1>3. IsFiniteSet(Where(q, e))
  BY <1>1, <1>2, FS_Subset
<1> QED
  BY <1>1, <1>3, FS_CardinalityType DEF Occurs

LEMMA OccursInBoth ==
  ASSUME NEW E, NEW p \in Seq(E), NEW q \in Seq(E), NEW e
  PROVE  p \o q \in Seq(E) /\ Occurs(p \o q, e) = Occurs(p, e) + Occurs(q, e)
<1> DEFINE c == p \o q
           A == Where(p, e)
           B == Where(q, e)
           f == [n \in B |-> Len(p) + n]
           C == {n \in Where(c, e) : Len(p) < n}
<1>1. /\ c \in Seq(E) /\ Len(c) = Len(p) + Len(q)
      /\ Len(p) \in Nat /\ Len(q) \in Nat
      /\ \A n \in 1 .. Len(p) : c[n] = p[n]
      /\ \A n \in 1 .. Len(q) : c[Len(p) + n] = q[n]
      /\ DOMAIN c = 1 .. Len(c) /\ DOMAIN p = 1 .. Len(p) /\ DOMAIN q = 1 .. Len(q)
  BY ConcatProperties
<1> HIDE DEF c
<1>2. /\ IsFiniteSet(A) /\ A \in SUBSET (1 .. Len(p))
      /\ IsFiniteSet(B) /\ B \in SUBSET (1 .. Len(q))
      /\ Occurs(p, e) \in Nat /\ Occurs(q, e) \in Nat
  BY WhereIs
<1>3. A = {n \in Where(c, e) : n <= Len(p)}
  BY <1>1 DEF Where
<1>4. Where(c, e) = A \cup C /\ A \cap C = {}
  <2>1. \A n \in Where(c, e) : n \in Nat
    BY <1>1 DEF Where
  <2> QED
    BY <1>1, <1>3, <2>1
<1>5. IsFiniteSet(C) /\ Cardinality(C) = Cardinality(B)
  <2>1. f \in [B -> C]
    <3>1. \A n \in B : n \in 1 .. Len(q) /\ q[n] = e
      BY <1>1 DEF Where
    <3>2. \A n \in B : Len(p) + n \in 1 .. Len(c) /\ Len(p) < Len(p) + n
                       /\ c[Len(p) + n] = e
      BY <1>1, <3>1
    <3> QED
      BY <1>1, <3>2 DEF Where
  <2>2. \A x, y \in B : f[x] = f[y] => x = y
    BY <1>1, <1>2
  <2>3. \A y \in C : \E x \in B : f[x] = y
    <3> TAKE y \in C
    <3>1. y \in 1 .. Len(p) + Len(q) /\ c[y] = e /\ Len(p) < y
      BY <1>1 DEF Where
    <3>2. y - Len(p) \in 1 .. Len(q) /\ Len(p) + (y - Len(p)) = y
      BY <1>1, <3>1
    <3>3. y - Len(p) \in B
      BY <1>1, <3>1, <3>2 DEF Where
    <3> QED
      BY <3>2, <3>3
  <2> HIDE DEF f, B, C
  <2> QED
    BY <1>2, <2>1, <2>2, <2>3, SameSize
<1>6. Cardinality(A \cup C) = Cardinality(A) + Cardinality(C)
  <2>1. /\ Cardinality(A \cup C)
             = Cardinality(A) + Cardinality(C) - Cardinality(A \cap C)
    BY <1>2, <1>5, FS_Union
  <2>2. Cardinality(A \cap C) = 0
    BY <1>4, FS_EmptySet
  <2>3. Cardinality(A) \in Nat /\ Cardinality(C) \in Nat
    BY <1>2, <1>5, FS_CardinalityType
  <2> QED
    BY <2>1, <2>2, <2>3
<1> QED
  BY <1>1, <1>4, <1>5, <1>6 DEF Occurs, c

LEMMA OccursInNothing == ASSUME NEW e PROVE Occurs(<<>>, e) = 0
<1>1. Where(<<>>, e) = {}
  BY DEF Where
<1> QED
  BY <1>1, FS_EmptySet DEF Occurs

LEMMA OccursRepeated ==
  ASSUME NEW E, NEW x \in E, NEW c \in Nat, NEW e
  PROVE  /\ [k \in 1 .. c |-> x] \in Seq(E)
         /\ Occurs([k \in 1 .. c |-> x], e) = IF x = e THEN c ELSE 0
<1> DEFINE q == [k \in 1 .. c |-> x]
<1>1. q \in Seq(E)
  OBVIOUS
<1>2. Where(q, e) = IF x = e THEN 1 .. c ELSE {}
  BY DEF Where
<1>3. Cardinality(1 .. c) = c /\ Cardinality({}) = 0
  <2>1. Cardinality(1 .. c) = IF 1 > c THEN 0 ELSE c - 1 + 1
    BY FS_Interval
  <2> QED
    BY <2>1, FS_EmptySet
<1> HIDE DEF q
<1>4. Occurs(q, e) = IF x = e THEN c ELSE 0
  BY <1>2, <1>3, Zenon DEF Occurs
<1> QED
  BY <1>1, <1>4 DEF q

(* Lists one after the other: what only one of them holds, they hold as often. *)
Lists(f, S, E) == IsFiniteSet(S) /\ \A x \in S : f[x] \in Seq(E)

LEMMA OccursListed ==
  ASSUME NEW E, NEW S, NEW f, Lists(f, S, E), NEW e, NEW x0,
         \A x \in S : x # x0 => Occurs(f[x], e) = 0
  PROVE  /\ Listed(f, S) \in Seq(E)
         /\ Occurs(Listed(f, S), e) = IF x0 \in S THEN Occurs(f[x0], e) ELSE 0
<1>1. IsFiniteSet(S) /\ \A x \in S : f[x] \in Seq(E)
  BY DEF Lists
<1>2. PICK g : IsList(f, S, g) /\ \A s \in SUBSET S : Listed(f, s) = g[s]
  BY <1>1, ListFold
<1> DEFINE Good(s) == /\ g[s] \in Seq(E)
                      /\ Occurs(g[s], e) = IF x0 \in s THEN Occurs(f[x0], e) ELSE 0
           F == {s \in SUBSET S : ~Good(s)}
<1>3. F = {}
  <2>1. SUFFICES ASSUME F # {} PROVE FALSE
    OBVIOUS
  <2>2. Family(F, S)
    BY <1>1, <2>1 DEF Family
  <2>3. HasSmallest(F)
    BY <2>2, SmallestSubset, Zenon
  <2>4. PICK s \in F : \A U \in F : U \subseteq s => U = s
    BY <2>3, Zenon DEF HasSmallest
  <2>5. s \in SUBSET S /\ ~Good(s)
    BY <2>4
  <2>6. s # {}
    <3>1. SUFFICES ASSUME s = {} PROVE FALSE
      OBVIOUS
    <3>2. g[s] = <<>>
      BY <1>2, <2>5, <3>1 DEF IsList
    <3>3. <<>> \in Seq(E)
      OBVIOUS
    <3> QED
      BY <2>5, <3>1, <3>2, <3>3, OccursInNothing
  <2> DEFINE y == Pick(s)
             r == s \ {y}
  <2>7. y \in s /\ y \in S
    BY <2>5, <2>6 DEF Pick
  <2>8. r \in SUBSET S /\ r # s /\ r \subseteq s /\ s = r \cup {y} /\ y \notin r
    BY <2>5, <2>7
  <2>9. Good(r)
    <3> HIDE DEF Good, r
    <3> QED
      BY <2>4, <2>8
  <2>10. g[s] = g[r] \o f[y]
    BY <1>2, <2>5, <2>6 DEF IsList
  <2>11. f[y] \in Seq(E) /\ (y # x0 => Occurs(f[y], e) = 0)
    BY <1>1, <2>7
  <2> HIDE DEF y, r
  <2>12. g[r] \in Seq(E) /\ Occurs(g[r], e) = IF x0 \in r THEN Occurs(f[x0], e) ELSE 0
    BY <2>9
  <2>13. g[s] \in Seq(E) /\ Occurs(g[s], e) = Occurs(g[r], e) + Occurs(f[y], e)
    BY <2>10, <2>11, <2>12, OccursInBoth
  <2>14. Occurs(f[y], e) \in Nat /\ Occurs(g[r], e) \in Nat
    BY <2>11, <2>12, WhereIs
  <2>15. Occurs(g[s], e) = IF x0 \in s THEN Occurs(f[x0], e) ELSE 0
    <3>1. CASE y = x0
      BY <2>8, <2>12, <2>13, <2>14, <3>1
    <3>2. CASE y # x0
      BY <2>8, <2>11, <2>12, <2>13, <2>14, <3>2
    <3> QED
      BY <3>1, <3>2
  <2> QED
    BY <2>5, <2>13, <2>15
<1>4. Good(S)
  BY <1>3
<1> QED
  BY <1>2, <1>4

(* Sorting: a place for every bar, and a bar for every place.                *)
Stored == [of : Symbols, row : RowType]
NotAfter(bars, m, n) ==
  \/ bars[m].row.ts < bars[n].row.ts
  \/ bars[m].row.ts = bars[n].row.ts /\ m <= n

LEMMA StampsAreNumbers ==
  ASSUME NEW bars \in Seq(Stored), NEW n \in 1 .. Len(bars)
  PROVE  bars[n].row.ts \in Nat
<1>1. bars[n] \in Stored
  BY ElementOfSeq
<1> QED
  BY <1>1, ArchiveAssumption DEF Stored, RowType, BarTimes

LEMMA OrderIsTotal ==
  ASSUME NEW bars \in Seq(Stored)
  PROVE  /\ \A n \in 1 .. Len(bars) : NotAfter(bars, n, n)
         /\ \A m, n \in 1 .. Len(bars) :
              /\ m # n => NotAfter(bars, m, n) \/ NotAfter(bars, n, m)
              /\ m # n => ~(NotAfter(bars, m, n) /\ NotAfter(bars, n, m))
              /\ NotAfter(bars, m, n) => bars[m].row.ts <= bars[n].row.ts
         /\ \A l, m, n \in 1 .. Len(bars) :
              NotAfter(bars, l, m) /\ NotAfter(bars, m, n) => NotAfter(bars, l, n)
<1> DEFINE t == [n \in 1 .. Len(bars) |-> bars[n].row.ts]
<1>1. \A n \in 1 .. Len(bars) : t[n] = bars[n].row.ts /\ t[n] \in Nat
  BY StampsAreNumbers
<1>2. \A m, n \in 1 .. Len(bars) :
        NotAfter(bars, m, n) <=> t[m] < t[n] \/ (t[m] = t[n] /\ m <= n)
  BY <1>1 DEF NotAfter
<1>3. Len(bars) \in Nat
  OBVIOUS
<1> HIDE DEF t
<1> DEFINE L == Len(bars)
<1>4. \A m, n \in 1 .. L :
        /\ NotAfter(bars, n, n)
        /\ m # n => NotAfter(bars, m, n) \/ NotAfter(bars, n, m)
        /\ m # n => ~(NotAfter(bars, m, n) /\ NotAfter(bars, n, m))
        /\ NotAfter(bars, m, n) => t[m] <= t[n]
  BY <1>1, <1>2, <1>3
<1>5. \A l, m, n \in 1 .. L :
        NotAfter(bars, l, m) /\ NotAfter(bars, m, n) => NotAfter(bars, l, n)
  BY <1>1, <1>2, <1>3
<1> QED
  BY <1>1, <1>4, <1>5

LEMMA PlacesAre ==
  ASSUME NEW bars \in Seq(Stored)
  PROVE  /\ \A n \in 1 .. Len(bars) : Place(bars, n) \in 1 .. Len(bars)
         /\ \A m, n \in 1 .. Len(bars) :
              m # n /\ NotAfter(bars, m, n) => Place(bars, m) < Place(bars, n)
<1> DEFINE L    == Len(bars)
           H(n) == {m \in 1 .. L : NotAfter(bars, m, n)}
<1>1. L \in Nat /\ DOMAIN bars = 1 .. L /\ IsFiniteSet(1 .. L)
      /\ Cardinality(1 .. L) = L
  <2>1. L \in Nat /\ DOMAIN bars = 1 .. L
    OBVIOUS
  <2>2. IsFiniteSet(1 .. L) /\ Cardinality(1 .. L) = IF 1 > L THEN 0 ELSE L - 1 + 1
    BY <2>1, FS_Interval
  <2> QED
    BY <2>1, <2>2
<1>2. \A n : Place(bars, n) = Cardinality(H(n))
  BY <1>1 DEF Place, NotAfter
<1>3. /\ \A n \in 1 .. L : NotAfter(bars, n, n)
      /\ \A m, n \in 1 .. L :
           m # n => ~(NotAfter(bars, m, n) /\ NotAfter(bars, n, m))
      /\ \A l, m, n \in 1 .. L :
           NotAfter(bars, l, m) /\ NotAfter(bars, m, n) => NotAfter(bars, l, n)
  BY OrderIsTotal
<1>4. ASSUME NEW n \in 1 .. L
      PROVE  /\ IsFiniteSet(H(n)) /\ Cardinality(H(n)) \in Nat
             /\ Cardinality(H(n)) <= L /\ Cardinality(H(n)) # 0
  <2>1. H(n) \in SUBSET (1 .. L) /\ n \in H(n)
    BY <1>3, <1>4
  <2> HIDE DEF H
  <2>2. IsFiniteSet(H(n)) /\ Cardinality(H(n)) <= L
    BY <1>1, <2>1, FS_Subset
  <2>3. Cardinality(H(n)) \in Nat /\ Cardinality(H(n)) # 0
    BY <2>1, <2>2, FS_CardinalityType, FS_EmptySet
  <2> QED
    BY <2>2, <2>3
<1>5. ASSUME NEW m \in 1 .. L, NEW n \in 1 .. L, m # n, NotAfter(bars, m, n)
      PROVE  Cardinality(H(m)) < Cardinality(H(n))
  <2>1. H(m) \in SUBSET H(n)
    BY <1>3, <1>5
  <2>2. n \in H(n) /\ n \notin H(m)
    BY <1>3, <1>5
  <2>3. IsFiniteSet(H(n)) /\ Cardinality(H(n)) \in Nat /\ Cardinality(H(m)) \in Nat
    BY <1>4, <1>5
  <2> HIDE DEF H
  <2>4. Cardinality(H(m)) <= Cardinality(H(n)) /\ Cardinality(H(m)) # Cardinality(H(n))
    BY <2>1, <2>2, <2>3, FS_Subset
  <2> QED
    BY <2>3, <2>4
<1> HIDE DEF H
<1>6. \A n \in 1 .. L : Place(bars, n) \in 1 .. L
  BY <1>1, <1>2, <1>4
<1>7. \A m, n \in 1 .. L :
        m # n /\ NotAfter(bars, m, n) => Place(bars, m) < Place(bars, n)
  BY <1>2, <1>5
<1> QED
  BY <1>6, <1>7

LEMMA SortedByTime ==
  ASSUME NEW bars \in Seq(Stored)
  PROVE  /\ ByTime(bars) \in Seq(Stored) /\ Len(ByTime(bars)) = Len(bars)
         /\ \A k \in 2 .. Len(bars) :
              ByTime(bars)[k - 1].row.ts <= ByTime(bars)[k].row.ts
         /\ \A e : Occurs(ByTime(bars), e) = Occurs(bars, e)
<1> DEFINE L  == Len(bars)
           p  == [n \in 1 .. L |-> Place(bars, n)]
           at == [k \in 1 .. L |-> CHOOSE n \in DOMAIN bars : Place(bars, n) = k]
           z  == ByTime(bars)
<1>1. L \in Nat /\ DOMAIN bars = 1 .. L /\ IsFiniteSet(1 .. L)
  <2>1. L \in Nat /\ DOMAIN bars = 1 .. L
    OBVIOUS
  <2> QED
    BY <2>1, FS_Interval
<1>2. p \in [1 .. L -> 1 .. L]
  BY PlacesAre
<1>3. \A m, n \in 1 .. L : m # n => p[m] # p[n]
  <2>1. \A m, n \in 1 .. L : m # n => NotAfter(bars, m, n) \/ NotAfter(bars, n, m)
    BY OrderIsTotal
  <2>2. \A m, n \in 1 .. L : m # n /\ NotAfter(bars, m, n) => p[m] < p[n]
    BY PlacesAre
  <2>3. \A n \in 1 .. L : p[n] \in Int
    BY <1>1, <1>2
  <2> HIDE DEF p
  <2> QED
    BY <2>1, <2>2, <2>3
<1>4. \A k \in 1 .. L : \E n \in 1 .. L : p[n] = k
  <2> HIDE DEF p, L
  <2>1. p \in Injection(1 .. L, 1 .. L)
    BY <1>2, <1>3 DEF Injection, IsInjective
  <2>2. p \in Surjection(1 .. L, 1 .. L)
    BY <1>1, <2>1, FS_Injection
  <2> QED
    BY <2>2 DEF Surjection
<1>5. z = [k \in 1 .. L |-> bars[at[k]]]
  <2>1. \A k \in 1 .. L :
          bars[CHOOSE n \in DOMAIN bars : Place(bars, n) = k] = bars[at[k]]
    OBVIOUS
  <2> HIDE DEF at
  <2>2. z = [k \in DOMAIN bars |->
               bars[CHOOSE n \in DOMAIN bars : Place(bars, n) = k]]
    BY Zenon DEF ByTime
  <2> QED
    BY <1>1, <2>1, <2>2, Zenon
<1>6. \A k \in 1 .. L : at[k] \in 1 .. L /\ p[at[k]] = k
  <2> TAKE k \in 1 .. L
  <2>1. \E n \in DOMAIN bars : Place(bars, n) = k
    BY <1>1, <1>4
  <2>2. at[k] \in DOMAIN bars /\ Place(bars, at[k]) = k
    BY <2>1
  <2> HIDE DEF at
  <2> QED
    BY <1>1, <2>2
<1>7. \A m, n \in 1 .. L : p[m] < p[n] => bars[m].row.ts <= bars[n].row.ts
  <2>1. \A m, n \in 1 .. L : p[m] < p[n] => NotAfter(bars, m, n)
    <3>1. \A m, n \in 1 .. L : m # n => NotAfter(bars, m, n) \/ NotAfter(bars, n, m)
      BY OrderIsTotal
    <3>2. \A m, n \in 1 .. L : m # n /\ NotAfter(bars, m, n) => p[m] < p[n]
      BY PlacesAre
    <3>3. \A n \in 1 .. L : p[n] \in Int
      BY <1>1, <1>2
    <3> HIDE DEF p
    <3> QED
      BY <3>1, <3>2, <3>3
  <2> HIDE DEF p
  <2> QED
    BY <2>1, OrderIsTotal
<1> HIDE DEF p, at, z
<1>8. \A k \in 1 .. L : bars[at[k]] \in Stored
  BY <1>6, ElementOfSeq
<1>9. z \in Seq(Stored) /\ Len(z) = L /\ DOMAIN z = 1 .. L
  BY <1>1, <1>5, <1>8
<1>10. ASSUME NEW k \in 2 .. L PROVE z[k - 1].row.ts <= z[k].row.ts
  <2>1. k \in 1 .. L /\ k - 1 \in 1 .. L /\ k - 1 < k
    BY <1>1, <1>10
  <2>2. p[at[k - 1]] < p[at[k]] /\ at[k] \in 1 .. L /\ at[k - 1] \in 1 .. L
    BY <1>6, <2>1
  <2>3. z[k] = bars[at[k]] /\ z[k - 1] = bars[at[k - 1]]
    BY <1>5, <2>1
  <2> QED
    BY <1>7, <2>2, <2>3
<1>11. ASSUME NEW e PROVE Occurs(z, e) = Occurs(bars, e)
  <2> DEFINE f == [k \in Where(z, e) |-> at[k]]
  <2>1. \A k \in Where(z, e) : k \in 1 .. L /\ bars[at[k]] = e
    BY <1>5, <1>9 DEF Where
  <2>2. f \in [Where(z, e) -> Where(bars, e)]
    BY <1>1, <1>6, <2>1 DEF Where
  <2>3. \A x, y \in Where(z, e) : f[x] = f[y] => x = y
    BY <1>6, <2>1
  <2>4. \A n \in Where(bars, e) : \E k \in Where(z, e) : f[k] = n
    <3> TAKE n \in Where(bars, e)
    <3>1. n \in 1 .. L /\ bars[n] = e /\ p[n] \in 1 .. L
      BY <1>1, <1>2 DEF Where
    <3>2. at[p[n]] = n
      BY <1>3, <1>6, <3>1
    <3>3. p[n] \in Where(z, e)
      BY <1>5, <1>9, <3>1, <3>2 DEF Where
    <3> QED
      BY <3>2, <3>3
  <2>5. IsFiniteSet(Where(z, e))
    BY <1>9, WhereIs
  <2> HIDE DEF f
  <2> QED
    BY <2>2, <2>3, <2>4, <2>5, SameSize DEF Occurs
<1> QED
  BY <1>9, <1>10, <1>11 DEF z

Entry(s, r) == [of |-> s, row |-> r]

LEMMA EntriesDiffer ==
  \A s, u, r, q : Entry(s, r) = Entry(u, q) <=> s = u /\ r = q
<1> SUFFICES ASSUME NEW s, NEW u, NEW r, NEW q
             PROVE  Entry(s, r) = Entry(u, q) <=> s = u /\ r = q
  OBVIOUS
<1>1. Entry(s, r).of = s /\ Entry(u, q).of = u
      /\ Entry(s, r).row = r /\ Entry(u, q).row = q
  BY DEF Entry
<1> QED
  BY <1>1

Fetches(s, m, from, until, u, r) ==
  s = u /\ r \in InRange(file[s][m], from, until)

LEMMA FileLoaded ==
  ASSUME NEW s \in Symbols, NEW m, file[s][m] \in RowsOf(m),
         NEW from, NEW until, NEW u, NEW r
  PROVE  /\ Loaded(s, m, from, until) \in Seq(Stored)
         /\ Occurs(Loaded(s, m, from, until), Entry(u, r))
            = IF Fetches(s, m, from, until, u, r) THEN file[s][m][r] ELSE 0
<1> DEFINE B == file[s][m]
           S == InRange(B, from, until)
           f == [x \in BagToSet(B) |-> [k \in 1 .. B[x] |-> Entry(s, x)]]
           e == Entry(u, r)
<1>1. Loaded(s, m, from, until) = Listed(f, S)
  BY Zenon DEF Loaded, Entry
<1>2. /\ IsFiniteSet(DOMAIN B) /\ DOMAIN B \in SUBSET RowType
      /\ \A x \in DOMAIN B : B[x] \in Nat
  BY DEF RowsOf, BagType
<1>3. S \in SUBSET DOMAIN B
  BY DEF InRange, BagToSet
<1>4. IsFiniteSet(S)
  BY <1>2, <1>3, FS_Subset
<1>5. ASSUME NEW x \in S
      PROVE  /\ f[x] \in Seq(Stored)
             /\ Occurs(f[x], e) = IF s = u /\ x = r THEN B[x] ELSE 0
  <2>1. x \in DOMAIN B /\ x \in RowType /\ B[x] \in Nat
    BY <1>2, <1>3, <1>5
  <2>2. f[x] = [k \in 1 .. B[x] |-> Entry(s, x)]
    BY <2>1 DEF BagToSet
  <2>3. Entry(s, x) \in Stored
    BY <2>1 DEF Entry, Stored
  <2>4. Entry(s, x) = e <=> s = u /\ x = r
    BY EntriesDiffer
  <2> HIDE DEF f, B, e
  <2>5. /\ f[x] \in Seq(Stored)
        /\ Occurs(f[x], e) = IF Entry(s, x) = e THEN B[x] ELSE 0
    BY <2>1, <2>2, <2>3, OccursRepeated
  <2> QED
    BY <2>4, <2>5, Zenon
<1> HIDE DEF f, e, B, S
<1>6. Lists(f, S, Stored)
  BY <1>4, <1>5 DEF Lists
<1>7. \A x \in S : x # r => Occurs(f[x], e) = 0
  BY <1>5
<1>8. /\ Listed(f, S) \in Seq(Stored)
      /\ Occurs(Listed(f, S), e) = IF r \in S THEN Occurs(f[r], e) ELSE 0
  BY <1>6, <1>7, OccursListed
<1>9. Occurs(Listed(f, S), e) = IF s = u /\ r \in S THEN B[r] ELSE 0
  BY <1>5, <1>8
<1> QED
  BY <1>1, <1>8, <1>9 DEF Fetches, B, S, e

Intact(s) == \A m \in Months : file[s][m] \in RowsOf(m)

LEMMA SymbolLoaded ==
  ASSUME NEW s \in Symbols, Intact(s), NEW from, NEW until, NEW u, NEW r,
         NEW k, k = MonthOf(r.ts)
  PROVE  /\ ReadBars(s, from, until) \in Seq(Stored)
         /\ Occurs(ReadBars(s, from, until), Entry(u, r))
            = IF k \in Opened(from, until) \cap Months
                 /\ Fetches(s, k, from, until, u, r)
              THEN file[s][k][r] ELSE 0
<1> DEFINE S == Opened(from, until) \cap Months
           f == [m \in Months |-> Loaded(s, m, from, until)]
           e == Entry(u, r)
<1>1. ReadBars(s, from, until) = Listed(f, S)
  BY Zenon DEF ReadBars
<1>2. IsFiniteSet(S)
  <2> DEFINE g == [t \in BarTimes |-> MonthOf(t)]
  <2>1. Months = {g[t] : t \in BarTimes}
    BY DEF Months
  <2>2. IsFiniteSet(BarTimes)
    BY ArchiveAssumption, FS_Interval DEF BarTimes
  <2> HIDE DEF g
  <2>3. IsFiniteSet(Months)
    BY <2>1, <2>2, ImageFinite
  <2> QED
    BY <2>3, FS_Intersection
<1>3. ASSUME NEW m \in S
      PROVE  /\ f[m] \in Seq(Stored)
             /\ Occurs(f[m], e) = IF Fetches(s, m, from, until, u, r)
                                  THEN file[s][m][r] ELSE 0
             /\ m # k => Occurs(f[m], e) = 0
  <2>1. m \in Months /\ file[s][m] \in RowsOf(m)
    BY <1>3 DEF Intact
  <2>2. f[m] = Loaded(s, m, from, until)
    BY <2>1
  <2>3. m # k => ~Fetches(s, m, from, until, u, r)
    <3>1. \A x \in DOMAIN file[s][m] : MonthOf(x.ts) = m
      BY <2>1 DEF RowsOf
    <3> QED
      BY <3>1 DEF Fetches, InRange, BagToSet
  <2> HIDE DEF f
  <2> QED
    BY <2>1, <2>2, <2>3, FileLoaded
<1> HIDE DEF f, e, S
<1>4. Lists(f, S, Stored)
  BY <1>2, <1>3 DEF Lists
<1>5. \A m \in S : m # k => Occurs(f[m], e) = 0
  BY <1>3
<1>6. /\ Listed(f, S) \in Seq(Stored)
      /\ Occurs(Listed(f, S), e) = IF k \in S THEN Occurs(f[k], e) ELSE 0
  BY <1>4, <1>5, OccursListed
<1>7. Occurs(Listed(f, S), e)
      = IF k \in S /\ Fetches(s, k, from, until, u, r) THEN file[s][k][r] ELSE 0
  BY <1>3, <1>6
<1> QED
  BY <1>1, <1>6, <1>7 DEF e, S

LEMMA AllLoaded ==
  ASSUME \A s \in Symbols : Intact(s), NEW from, NEW until, NEW u, NEW r,
         NEW k, k = MonthOf(r.ts)
  PROVE  /\ Load(from, until) \in Seq(Stored)
         /\ \A n \in 2 .. Len(Load(from, until)) :
              Load(from, until)[n - 1].row.ts <= Load(from, until)[n].row.ts
         /\ u \in Symbols =>
              Occurs(Load(from, until), Entry(u, r))
              = IF k \in Opened(from, until) \cap Months
                   /\ r \in InRange(file[u][k], from, until)
                THEN file[u][k][r] ELSE 0
<1> DEFINE f == [s \in Symbols |-> ReadBars(s, from, until)]
           e == Entry(u, r)
           L == Listed(f, Symbols)
<1>1. Load(from, until) = ByTime(L)
  BY Zenon DEF Load
<1>2. ASSUME NEW s \in Symbols
      PROVE  /\ f[s] \in Seq(Stored)
             /\ Occurs(f[s], e) = IF k \in Opened(from, until) \cap Months
                                     /\ Fetches(s, k, from, until, u, r)
                                  THEN file[s][k][r] ELSE 0
             /\ s # u => Occurs(f[s], e) = 0
  <2>1. f[s] = ReadBars(s, from, until)
    OBVIOUS
  <2> HIDE DEF f
  <2>2. s # u => ~Fetches(s, k, from, until, u, r)
    BY DEF Fetches
  <2> QED
    BY <2>1, <2>2, SymbolLoaded
<1> HIDE DEF f, e
<1>3. Lists(f, Symbols, Stored)
  BY <1>2, ArchiveAssumption DEF Lists
<1>4. \A s \in Symbols : s # u => Occurs(f[s], e) = 0
  BY <1>2
<1>5. /\ L \in Seq(Stored)
      /\ Occurs(L, e) = IF u \in Symbols THEN Occurs(f[u], e) ELSE 0
  BY <1>3, <1>4, OccursListed
<1> HIDE DEF L
<1>6. /\ ByTime(L) \in Seq(Stored) /\ Len(ByTime(L)) = Len(L)
      /\ \A n \in 2 .. Len(L) : ByTime(L)[n - 1].row.ts <= ByTime(L)[n].row.ts
      /\ Occurs(ByTime(L), e) = Occurs(L, e)
  BY <1>5, SortedByTime
<1>7. Fetches(u, k, from, until, u, r) <=> r \in InRange(file[u][k], from, until)
  BY DEF Fetches
<1> QED
  BY <1>1, <1>2, <1>5, <1>6, <1>7 DEF e

(* A row of the range is in a file that is opened.                           *)
LEMMA MonthIsOpened ==
  ASSUME NEW from \in BarTimes, NEW until \in BarTimes, NEW t \in BarTimes,
         from <= t, t < until
  PROVE  MonthOf(t) \in Opened(from, until) \cap Months
<1>1. /\ MonthLength \in Positive /\ from \in Int /\ until \in Int /\ t \in Int
  BY ArchiveAssumption DEF BarTimes, Positive
<1> DEFINE l == MonthLength
           a == from \div l
           b == t \div l
           c == until \div l
<1>2. /\ a \in Int /\ b \in Int /\ c \in Int
      /\ from % l \in Nat /\ t % l \in Nat /\ until % l \in Nat
      /\ from % l < l /\ t % l < l /\ until % l < l
      /\ from = l * a + (from % l) /\ t = l * b + (t % l)
      /\ until = l * c + (until % l)
  BY <1>1, Division
<1>3. a <= b /\ b <= c
  <2> DEFINE x == from % l
             y == t % l
             z == until % l
  <2>1. /\ x \in Nat /\ y \in Nat /\ z \in Nat /\ x < l /\ y < l /\ z < l
        /\ from = l * a + x /\ t = l * b + y /\ until = l * c + z
        /\ a \in Int /\ b \in Int /\ c \in Int /\ l \in Int /\ l > 0
    BY <1>1, <1>2 DEF Positive
  <2> HIDE DEF x, y, z, a, b, c, l
  <2>2. ASSUME NEW p \in Int, NEW q \in Int, q <= p - 1
        PROVE  l * q + l <= l * p
    BY <2>1, <2>2, Z3
  <2>3. a <= b
    <3>1. SUFFICES ASSUME b <= a - 1 PROVE FALSE
      BY <2>1
    <3>2. l * b + l <= l * a
      BY <2>1, <2>2, <3>1
    <3> QED
      BY <1>1, <2>1, <3>2
  <2>4. b <= c
    <3>1. SUFFICES ASSUME c <= b - 1 PROVE FALSE
      BY <2>1
    <3>2. l * c + l <= l * b
      BY <2>1, <2>2, <3>1
    <3> QED
      BY <1>1, <2>1, <3>2
  <2> QED
    BY <2>3, <2>4
<1>4. MonthOf(t) \in Months
  BY DEF Months
<1> QED
  BY <1>2, <1>3, <1>4 DEF Opened, MonthOf

LEMMA LoadsTheRange ==
  ASSUME ReportInv
  PROVE  LoadIsTheRange
<1>1. SUFFICES ASSUME NEW from \in BarTimes, NEW until \in BarTimes, from < until,
                      \A s \in Symbols, m \in Months : file[s][m] # Torn
               PROVE  LET L == Load(from, until)
                          seen(s, r) == Cardinality({n \in DOMAIN L :
                                          L[n].of = s /\ L[n].row = r})
                      IN  /\ \A n \in 2 .. Len(L) : L[n - 1].row.ts <= L[n].row.ts
                          /\ \A s \in Symbols, r \in [ts : BarTimes, over : BOOLEAN] :
                               seen(s, r) = IF from <= r.ts /\ r.ts < until
                                            THEN Copies(r, file[s][MonthOf(r.ts)])
                                            ELSE 0
  BY Zenon DEF LoadIsTheRange
<1> DEFINE L == Load(from, until)
<1>2. \A s \in Symbols : Intact(s)
  BY <1>1 DEF ReportInv, Reported, Intact
<1>3. ASSUME NEW s \in Symbols, NEW r \in RowType
      PROVE  /\ L \in Seq(Stored)
             /\ \A n \in 2 .. Len(L) : L[n - 1].row.ts <= L[n].row.ts
             /\ Cardinality({n \in DOMAIN L : L[n].of = s /\ L[n].row = r})
                = IF from <= r.ts /\ r.ts < until
                  THEN Copies(r, file[s][MonthOf(r.ts)]) ELSE 0
  <2> DEFINE k == MonthOf(r.ts)
             B == file[s][k]
             W == {n \in DOMAIN L : L[n].of = s /\ L[n].row = r}
  <2>1. /\ L \in Seq(Stored)
        /\ \A n \in 2 .. Len(L) : L[n - 1].row.ts <= L[n].row.ts
        /\ Occurs(L, Entry(s, r))
           = IF k \in Opened(from, until) \cap Months /\ r \in InRange(B, from, until)
             THEN B[r] ELSE 0
    BY <1>2, <1>3, AllLoaded
  <2> HIDE DEF L
  <2>2. W = Where(L, Entry(s, r))
    <3>1. \A n \in DOMAIN L : L[n] \in Stored
      BY <2>1, ElementOfSeq
    <3>2. \A n \in DOMAIN L : L[n] = Entry(s, r) <=> L[n].of = s /\ L[n].row = r
      BY <3>1 DEF Entry, Stored
    <3> QED
      BY <3>2 DEF Where
  <2>3. Cardinality(W) = Occurs(L, Entry(s, r))
    BY <2>2 DEF Occurs
  <2>4. r.ts \in BarTimes
    BY <1>3 DEF RowType
  <2>5. from <= r.ts /\ r.ts < until => k \in Opened(from, until) \cap Months
    BY <1>1, <2>4, MonthIsOpened
  <2>6. r \in InRange(B, from, until)
          <=> r \in DOMAIN B /\ from <= r.ts /\ r.ts < until
    BY DEF InRange, BagToSet
  <2>7. Copies(r, B) = IF r \in DOMAIN B THEN B[r] ELSE 0
    BY Zenon DEF Copies
  <2> HIDE DEF W, B, k
  <2>8. Cardinality(W) = IF from <= r.ts /\ r.ts < until THEN Copies(r, B) ELSE 0
    BY <2>1, <2>3, <2>5, <2>6, <2>7, Zenon
  <2> QED
    BY <2>1, <2>8 DEF W, B, k
<1> HIDE DEF L
<1>4. \A n \in 2 .. Len(L) : L[n - 1].row.ts <= L[n].row.ts
  <2> HIDE DEF L
  <2>1. \A n \in 2 .. Len(Load(from, until)) :
          Load(from, until)[n - 1].row.ts <= Load(from, until)[n].row.ts
    BY <1>2, AllLoaded
  <2> QED
    BY <2>1 DEF L
<1> QED
  BY <1>3, <1>4 DEF RowType, L

(* What a backtest reads: every stored bar of its range and no other, in     *)
(* order of time, whatever the backfills stored and wherever the months cut  *)
(* the range (storage/parquet_store.py read_bars, backtest/runner.py run).   *)
THEOREM LoadAlwaysTheRange == ArchiveSpec => []LoadIsTheRange
<1> QED
  BY ReportStarts, ReportSteps, LoadsTheRange, PTL DEF ArchiveSpec

-----------------------------------------------------------------------------
(* The backtest's curve, and the highest value it had by its i-th point.     *)
Highest(c, i, top) ==
  /\ \E j \in 1 .. i : c[j] = top
  /\ \A j \in 1 .. i : c[j] <= top

AboveZero(c) == c \in Seq(Int) /\ \A i \in 1 .. Len(c) : c[i] > 0

LEMMA RunningMaxIsHighest ==
  ASSUME NEW c, AboveZero(c), NEW i \in 1 .. Len(c)
  PROVE  /\ RunningMax(c, i) \in Positive
         /\ Highest(c, i, RunningMax(c, i))
<1> DEFINE V == {c[j] : j \in 1 .. i}
<1>1. i \in Nat /\ i \in 1 .. i /\ \A j \in 1 .. i : j \in 1 .. Len(c)
  BY DEF AboveZero
<1>2. \A j \in 1 .. i : c[j] \in Positive
  BY <1>1, ElementOfSeq DEF AboveZero, Positive
<1>3. V \in SUBSET Int /\ V # {} /\ IsFiniteSet(V)
  <2>1. IsFiniteSet(V)
    BY <1>1, ValuesFinite
  <2>2. V \subseteq Int
    BY <1>2 DEF Positive
  <2> QED
    BY <1>1, <2>1, <2>2
<1>4. Max(V) \in V /\ \A v \in V : v <= Max(V)
  BY <1>3, GreatestMember
<1>5. \E v \in V : \A j \in 1 .. i : c[j] <= v
  BY <1>4
<1>6. /\ RunningMax(c, i) \in V
      /\ \A j \in 1 .. i : c[j] <= RunningMax(c, i)
  BY <1>5 DEF RunningMax
<1> QED
  BY <1>2, <1>6 DEF Highest

(* What somebody loses who entered at the i-th point and left at the j-th.   *)
Loss(c, i, j) == Frac(c[i] - c[j], c[i])

LEMMA FallIsALoss ==
  ASSUME NEW c, AboveZero(c), NEW j \in 1 .. Len(c)
  PROVE  /\ Fall(c, j) \in Fraction
         /\ \E i \in 1 .. j : Fall(c, j) = Loss(c, i, j)
         /\ \A i \in 1 .. j : ~Greater(Loss(c, i, j), Fall(c, j))
<1> DEFINE m == RunningMax(c, j)
<1>1. m \in Positive /\ Highest(c, j, m)
  BY RunningMaxIsHighest
<1> HIDE DEF m
<1>2. \A i \in 1 .. j : c[i] \in Int /\ c[i] \in Positive
  BY ElementOfSeq DEF AboveZero, Positive
<1>3. c[j] \in Int /\ c[j] \in Positive /\ m \in Int
  BY <1>1, <1>2 DEF AboveZero, Positive
<1>4. Fall(c, j) = Frac(m - c[j], m)
  BY DEF Fall, m
<1>5. Fall(c, j) \in Fraction
  BY <1>1, <1>3, <1>4, FracIsFraction
<1>6. \E i \in 1 .. j : Fall(c, j) = Loss(c, i, j)
  BY <1>1, <1>4 DEF Highest, Loss
<1>7. ASSUME NEW i \in 1 .. j
      PROVE  ~Greater(Loss(c, i, j), Fall(c, j))
  <2>1. c[i] \in Positive /\ c[i] \in Int /\ c[i] <= m
    BY <1>1, <1>2 DEF Highest
  <2>2. (c[i] - c[j]) * m <= (m - c[j]) * c[i]
    <3>1. c[i] * c[j] <= m * c[j]
      BY <1>3, <2>1, OrderScales
    <3>2. /\ (c[i] - c[j]) * m = c[i] * m - c[j] * m
          /\ (m - c[j]) * c[i] = m * c[i] - c[j] * c[i]
      BY <1>3, <2>1, Regroup
    <3>3. /\ c[i] * m \in Int /\ c[i] * m = m * c[i]
          /\ c[j] * m \in Int /\ c[j] * m = m * c[j]
          /\ c[j] * c[i] \in Int /\ c[j] * c[i] = c[i] * c[j]
      BY <1>3, <2>1, Products
    <3> QED
      BY <3>1, <3>2, <3>3
  <2>3. c[i] - c[j] \in Int /\ m - c[j] \in Int
    BY <1>3, <2>1
  <2>4. ~Greater(Frac(c[i] - c[j], c[i]), Frac(m - c[j], m))
    BY <1>1, <2>1, <2>2, <2>3, FracCompares
  <2> QED
    BY <1>4, <2>4 DEF Loss
<1> QED
  BY <1>5, <1>6, <1>7

LEMMA DrawdownIsAFall ==
  ASSUME NEW c, AboveZero(c), c # <<>>
  PROVE  \E k \in 1 .. Len(c) :
           /\ MaxDrawdown(c) = Fall(c, k)
           /\ \A i \in 1 .. Len(c) : ~Greater(Fall(c, i), Fall(c, k))
<1>1. Len(c) \in Positive /\ DOMAIN c = 1 .. Len(c)
  BY EmptySeq DEF AboveZero, Positive
<1> DEFINE f == [i \in 1 .. Len(c) |-> Fall(c, i)]
<1>2. \A i \in 1 .. Len(c) : f[i] = Fall(c, i) /\ f[i] \in Fraction
  BY FallIsALoss
<1> HIDE DEF f
<1>3. PICK k : Tops(f, Len(c), k)
  BY <1>1, <1>2, GreatestFraction
<1>4. /\ k \in 1 .. Len(c)
      /\ \A i \in 1 .. Len(c) : ~Greater(Fall(c, i), Fall(c, k))
  BY <1>2, <1>3 DEF Tops
<1> DEFINE F == {Fall(c, i) : i \in DOMAIN c}
<1>5. \E d \in F : \A i \in DOMAIN c : ~Greater(Fall(c, i), d)
  BY <1>1, <1>4
<1>6. /\ MaxDrawdown(c) \in F
      /\ \A i \in DOMAIN c : ~Greater(Fall(c, i), MaxDrawdown(c))
  BY <1>5 DEF MaxDrawdown
<1>7. PICK l \in 1 .. Len(c) : MaxDrawdown(c) = Fall(c, l)
  BY <1>1, <1>6
<1> QED
  BY <1>1, <1>6, <1>7

LEMMA DrawdownTellsLosses ==
  ASSUME NEW c, AboveZero(c), c # <<>>
  PROVE  /\ \A j \in 1 .. Len(c), i \in 1 .. Len(c) :
              i <= j => ~Greater(Loss(c, i, j), MaxDrawdown(c))
         /\ \E j \in 1 .. Len(c) : \E i \in 1 .. j :
              Loss(c, i, j) = MaxDrawdown(c)
<1>1. PICK k \in 1 .. Len(c) :
        /\ MaxDrawdown(c) = Fall(c, k)
        /\ \A i \in 1 .. Len(c) : ~Greater(Fall(c, i), Fall(c, k))
  BY DrawdownIsAFall
<1>2. PICK i \in 1 .. k : Fall(c, k) = Loss(c, i, k)
  BY FallIsALoss
<1>3. ASSUME NEW j \in 1 .. Len(c), NEW l \in 1 .. Len(c), l <= j
      PROVE  ~Greater(Loss(c, l, j), MaxDrawdown(c))
  <2>1. l \in 1 .. j
    BY <1>3 DEF AboveZero
  <2>2. /\ Fall(c, j) \in Fraction /\ Fall(c, k) \in Fraction
        /\ ~Greater(Loss(c, l, j), Fall(c, j))
    BY <2>1, FallIsALoss
  <2>3. Loss(c, l, j) \in Fraction
    <3>1. c[l] \in Int /\ c[j] \in Int /\ c[l] \in Positive
      BY ElementOfSeq DEF AboveZero, Positive
    <3> QED
      BY <3>1, FracIsFraction DEF Loss
  <2> QED
    BY <1>1, <2>2, <2>3, OrderIsTransitive
<1> QED
  BY <1>1, <1>2, <1>3

-----------------------------------------------------------------------------
(* The backtest's lots: what a queue of them holds and what it cost.         *)
Lot == [qty : Int, price : Int, by : Ideas]

QtyOf(q)  == SumFunction(LotQtys(q))
CostOf(q) == SumFunction(LotCosts(q))

Long(q)  == \A i \in 1 .. Len(q) : q[i].qty > 0
Short(q) == \A i \in 1 .. Len(q) : q[i].qty < 0

LEMMA LotFacts ==
  ASSUME NEW q \in Seq(Lot)
  PROVE  /\ Len(q) \in Nat
         /\ \A i \in 1 .. Len(q) :
              q[i] \in Lot /\ q[i].qty \in Int /\ q[i].price \in Int
                /\ q[i].by \in Ideas
         /\ LotQtys(q) \in Seq(Int) /\ LotCosts(q) \in Seq(Int)
         /\ Len(LotQtys(q)) = Len(q) /\ Len(LotCosts(q)) = Len(q)
         /\ \A i \in 1 .. Len(q) : /\ LotQtys(q)[i] = q[i].qty
                                   /\ LotCosts(q)[i] = q[i].qty * q[i].price
<1>1. Len(q) \in Nat /\ DOMAIN q = 1 .. Len(q)
  OBVIOUS
<1>2. \A x \in Lot : x.qty \in Int /\ x.price \in Int /\ x.by \in Ideas
  BY DEF Lot
<1>3. \A i \in 1 .. Len(q) : q[i] \in Lot
  BY ElementOfSeq
<1>4. \A i \in 1 .. Len(q) : q[i].qty \in Int /\ q[i].qty * q[i].price \in Int
  BY <1>2, <1>3, Products
<1>5. LotQtys(q) \in [1 .. Len(q) -> Int] /\ LotCosts(q) \in [1 .. Len(q) -> Int]
  BY <1>1, <1>4 DEF LotQtys, LotCosts
<1>6. /\ LotQtys(q) \in Seq(Int) /\ LotCosts(q) \in Seq(Int)
      /\ Len(LotQtys(q)) = Len(q) /\ Len(LotCosts(q)) = Len(q)
  BY <1>1, <1>5, SeqDef, LenProperties
<1>7. \A i \in 1 .. Len(q) : /\ LotQtys(q)[i] = q[i].qty
                             /\ LotCosts(q)[i] = q[i].qty * q[i].price
  BY <1>1 DEF LotQtys, LotCosts
<1> QED
  BY <1>1, <1>2, <1>3, <1>6, <1>7

LEMMA LotAppended ==
  ASSUME NEW q \in Seq(Lot), NEW x \in Lot
  PROVE  /\ Append(q, x) \in Seq(Lot)
         /\ QtyOf(Append(q, x)) = QtyOf(q) + x.qty
         /\ CostOf(Append(q, x)) = CostOf(q) + x.qty * x.price
<1> DEFINE r == Append(q, x)
<1>1. /\ r \in Seq(Lot) /\ Len(r) = Len(q) + 1 /\ r[Len(q) + 1] = x
      /\ \A i \in 1 .. Len(q) : r[i] = q[i]
  BY AppendProperties
<1> HIDE DEF r
<1>2. x.qty \in Int /\ x.price \in Int /\ x.qty * x.price \in Int
  BY Products DEF Lot
<1>3. /\ Len(q) \in Nat /\ Len(q) + 1 \in 1 .. Len(r)
      /\ \A i \in 1 .. Len(q) : i \in 1 .. Len(r)
  BY <1>1
<1>a. /\ LotQtys(q) \in Seq(Int) /\ LotCosts(q) \in Seq(Int)
      /\ Len(LotQtys(q)) = Len(q) /\ Len(LotCosts(q)) = Len(q)
      /\ \A i \in 1 .. Len(q) : /\ LotQtys(q)[i] = q[i].qty
                                /\ LotCosts(q)[i] = q[i].qty * q[i].price
  BY LotFacts
<1>b. /\ LotQtys(r) \in Seq(Int) /\ LotCosts(r) \in Seq(Int)
      /\ Len(LotQtys(r)) = Len(r) /\ Len(LotCosts(r)) = Len(r)
      /\ \A i \in 1 .. Len(r) : /\ LotQtys(r)[i] = r[i].qty
                                /\ LotCosts(r)[i] = r[i].qty * r[i].price
  BY <1>1, LotFacts
<1>4. /\ LotQtys(q) \in Seq(Int) /\ LotQtys(r) \in Seq(Int)
      /\ Len(LotQtys(r)) = Len(LotQtys(q)) + 1
      /\ LotQtys(r)[Len(LotQtys(r))] = x.qty
      /\ \A i \in 1 .. Len(LotQtys(q)) : LotQtys(r)[i] = LotQtys(q)[i]
  BY <1>1, <1>3, <1>a, <1>b
<1>5. /\ LotCosts(q) \in Seq(Int) /\ LotCosts(r) \in Seq(Int)
      /\ Len(LotCosts(r)) = Len(LotCosts(q)) + 1
      /\ LotCosts(r)[Len(LotCosts(r))] = x.qty * x.price
      /\ \A i \in 1 .. Len(LotCosts(q)) : LotCosts(r)[i] = LotCosts(q)[i]
  BY <1>1, <1>3, <1>a, <1>b
<1>6. SumFunction(LotQtys(r)) = SumFunction(LotQtys(q)) + x.qty
  BY <1>2, <1>4, SumAppends
<1>7. SumFunction(LotCosts(r)) = SumFunction(LotCosts(q)) + x.qty * x.price
  BY <1>2, <1>5, SumAppends
<1> QED
  BY <1>1, <1>6, <1>7 DEF r, QtyOf, CostOf

LEMMA LotTotals ==
  ASSUME NEW q \in Seq(Lot)
  PROVE  /\ QtyOf(q) \in Int /\ CostOf(q) \in Int
         /\ q = <<>> => QtyOf(q) = 0 /\ CostOf(q) = 0
<1>1. /\ LotQtys(q) \in Seq(Int) /\ Len(LotQtys(q)) = Len(q)
      /\ LotCosts(q) \in Seq(Int) /\ Len(LotCosts(q)) = Len(q)
  BY LotFacts
<1>2. q = <<>> => LotQtys(q) = <<>> /\ LotCosts(q) = <<>>
  BY <1>1, EmptySeq
<1> QED
  BY <1>1, <1>2, SumOfSequence DEF QtyOf, CostOf

(* What the first i lots of a queue hold and cost.                           *)
PartQty(q, i)  == SumFunctionOnSet(LotQtys(q), 1 .. i)
PartCost(q, i) == SumFunctionOnSet(LotCosts(q), 1 .. i)

LEMMA PartGrows ==
  ASSUME NEW q \in Seq(Lot), NEW i \in 1 .. Len(q)
  PROVE  /\ PartQty(q, i - 1) \in Int /\ PartCost(q, i - 1) \in Int
         /\ PartQty(q, i) = PartQty(q, i - 1) + q[i].qty
         /\ PartCost(q, i) = PartCost(q, i - 1) + q[i].qty * q[i].price
<1>1. /\ LotQtys(q) \in Seq(Int) /\ Len(LotQtys(q)) = Len(q)
      /\ LotCosts(q) \in Seq(Int) /\ Len(LotCosts(q)) = Len(q)
      /\ LotQtys(q)[i] = q[i].qty /\ LotCosts(q)[i] = q[i].qty * q[i].price
  BY LotFacts
<1> QED
  BY <1>1, SumOfPrefix DEF PartQty, PartCost

LEMMA PartEnds ==
  ASSUME NEW q \in Seq(Lot)
  PROVE  /\ PartQty(q, 0) = 0 /\ PartCost(q, 0) = 0
         /\ PartQty(q, Len(q)) = QtyOf(q) /\ PartCost(q, Len(q)) = CostOf(q)
<1>1. /\ LotQtys(q) \in Seq(Int) /\ Len(LotQtys(q)) = Len(q)
      /\ LotCosts(q) \in Seq(Int) /\ Len(LotCosts(q)) = Len(q)
  BY LotFacts
<1>2. 1 .. 0 = {}
  OBVIOUS
<1> QED
  BY <1>1, <1>2, SumOfSequence, SumOfNothing
  DEF PartQty, PartCost, QtyOf, CostOf

(* A queue on one side holds as much as a position on that side.             *)
LEMMA LongHolds ==
  ASSUME NEW q \in Seq(Lot)
  PROVE  /\ Long(q) /\ q # <<>> => QtyOf(q) > 0
         /\ Short(q) /\ q # <<>> => QtyOf(q) < 0
<1>1. Len(q) \in Nat /\ (q # <<>> => Len(q) # 0)
  BY EmptySeq
<1>2. \A i \in 1 .. Len(q) :
        /\ q[i].qty \in Int
        /\ PartQty(q, i - 1) \in Int
        /\ PartQty(q, i) = PartQty(q, i - 1) + q[i].qty
  BY LotFacts, PartGrows
<1>3. PartQty(q, 0) = 0 /\ PartQty(q, Len(q)) = QtyOf(q)
  BY PartEnds
<1>4. ASSUME Long(q), q # <<>> PROVE QtyOf(q) > 0
  <2> DEFINE F == {i \in 1 .. Len(q) : ~(PartQty(q, i) > 0)}
  <2>1. SUFFICES ASSUME F # {} PROVE FALSE
    BY <1>1, <1>3, <1>4
  <2>2. F \in SUBSET Nat
    BY <1>1
  <2>3. PICK i \in F : \A j \in F : i <= j
    BY <2>1, <2>2, SmallestNumber
  <2>4. i \in 1 .. Len(q) /\ q[i].qty > 0
    BY <1>4, <2>3 DEF Long
  <2>5. CASE i = 1
    BY <1>2, <1>3, <2>3, <2>4, <2>5
  <2>6. CASE i # 1
    <3>1. i - 1 \in 1 .. Len(q) /\ i - 1 \notin F
      BY <1>1, <2>3, <2>4, <2>6
    <3>2. PartQty(q, i - 1) > 0
      BY <3>1
    <3> QED
      BY <1>2, <2>3, <2>4, <3>2
  <2> QED
    BY <2>5, <2>6
<1>5. ASSUME Short(q), q # <<>> PROVE QtyOf(q) < 0
  <2> DEFINE F == {i \in 1 .. Len(q) : ~(PartQty(q, i) < 0)}
  <2>1. SUFFICES ASSUME F # {} PROVE FALSE
    BY <1>1, <1>3, <1>5
  <2>2. F \in SUBSET Nat
    BY <1>1
  <2>3. PICK i \in F : \A j \in F : i <= j
    BY <2>1, <2>2, SmallestNumber
  <2>4. i \in 1 .. Len(q) /\ q[i].qty < 0
    BY <1>5, <2>3 DEF Short
  <2>5. CASE i = 1
    BY <1>2, <1>3, <2>3, <2>4, <2>5
  <2>6. CASE i # 1
    <3>1. i - 1 \in 1 .. Len(q) /\ i - 1 \notin F
      BY <1>1, <2>3, <2>4, <2>6
    <3>2. PartQty(q, i - 1) < 0
      BY <3>1
    <3> QED
      BY <1>2, <2>3, <2>4, <3>2
  <2> QED
    BY <2>5, <2>6
<1> QED
  BY <1>4, <1>5

(* One lot against what is left of a fill: what the match so far has taken   *)
(* from the first i lots is what the fill has lost, at its price.            *)
Match == [left : Int, made : Int, kept : Seq(Lot)]

Takes(m, q, i, n, price) ==
  /\ m \in Match
  /\ m.left # 0 => m.kept = <<>>
  /\ QtyOf(m.kept) = PartQty(q, i) + n - m.left
  /\ m.made = price * (m.left - n) - PartCost(q, i) + CostOf(m.kept)

LEMMA Expand ==
  ASSUME NEW a \in Int, NEW b \in Int, NEW c \in Int
  PROVE  /\ a * (b + c) = a * b + a * c /\ a * (b - c) = a * b - a * c
         /\ (b + c) * a = b * a + c * a /\ (b - c) * a = b * a - c * a
         /\ a * b \in Int /\ a * c \in Int /\ b * a \in Int /\ c * a \in Int
         /\ a * b = b * a /\ a * c = c * a
OBVIOUS

(* The amounts of a match in which size is taken from a lot.                 *)
Balances(made, keeps, worth, price, left, n, held, before) ==
  keeps = held + n - left /\ made = price * (left - n) - before + worth

LEMMA TakenFromLot ==
  ASSUME NEW price \in Int, NEW left \in Int, NEW n \in Int, NEW size \in Int,
         NEW qty \in Int, NEW cost \in Int, NEW held \in Int,
         NEW before \in Int, NEW keeps \in Int, NEW worth \in Int,
         NEW made \in Int,
         Balances(made, keeps, worth, price, left, n, held, before)
  PROVE  Balances(made + (price - cost) * size, keeps + (qty - size),
                  worth + (qty - size) * cost, price, left + size, n,
                  held + qty, before + qty * cost)
<1> USE DEF Balances
<1>1. /\ price * (left - n) = price * left - price * n
      /\ price * ((left + size) - n) = price * (left + size) - price * n
      /\ price * (left + size) = price * left + price * size
      /\ price * left \in Int /\ price * size \in Int /\ price * n \in Int
  BY Expand
<1>2. /\ (price - cost) * size = price * size - cost * size
      /\ (qty - size) * cost = qty * cost - size * cost
      /\ cost * size = size * cost /\ cost * size \in Int
      /\ qty * cost \in Int
  BY Expand
<1> QED
  BY <1>1, <1>2

LEMMA LongShares ==
  ASSUME NEW left \in Int, left <= 0, NEW qty \in Int, qty > 0
  PROVE  LET size == IF Abs(qty) < Abs(left) THEN Abs(qty) ELSE Abs(left)
         IN  /\ size \in Int /\ qty - size \in Int /\ qty - size >= 0
             /\ left + size \in Int /\ left + size <= 0
             /\ left + size # 0 => qty - size = 0 /\ left # 0
BY DEF Abs

LEMMA ShortShares ==
  ASSUME NEW left \in Int, left >= 0, NEW qty \in Int, qty < 0
  PROVE  LET size == IF Abs(qty) < Abs(left) THEN Abs(qty) ELSE Abs(left)
         IN  /\ size \in Int /\ qty + size \in Int /\ qty + size <= 0
             /\ left - size \in Int /\ left - size >= 0
             /\ left - size # 0 => qty + size = 0 /\ left # 0
BY DEF Abs

LEMMA Turned ==
  ASSUME NEW a \in Int, NEW b \in Int, NEW size \in Int
  PROVE  (b - a) * size = (a - b) * (-size)
BY Expand

LEMMA MatchTakes ==
  ASSUME NEW q \in Seq(Lot), NEW n \in Int, NEW price \in Int,
         NEW i \in 1 .. Len(q), NEW m, Takes(m, q, i - 1, n, price)
  PROVE  /\ m.left <= 0 /\ Long(q) /\ Long(m.kept) =>
              LET k == MatchOne(m, q[i], price)
              IN  Takes(k, q, i, n, price) /\ k.left <= 0 /\ Long(k.kept)
         /\ m.left >= 0 /\ Short(q) /\ Short(m.kept) =>
              LET k == MatchOne(m, q[i], price)
              IN  Takes(k, q, i, n, price) /\ k.left >= 0 /\ Short(k.kept)
<1> DEFINE lot == q[i]
           size == IF Abs(lot.qty) < Abs(m.left) THEN Abs(lot.qty)
                   ELSE Abs(m.left)
<1>1. /\ lot \in Lot /\ lot.qty \in Int /\ lot.price \in Int
      /\ m \in Match /\ m.left \in Int /\ m.made \in Int /\ m.kept \in Seq(Lot)
  BY LotFacts DEF Takes, Match
<1>2. /\ PartQty(q, i - 1) \in Int /\ PartCost(q, i - 1) \in Int
      /\ PartQty(q, i) = PartQty(q, i - 1) + lot.qty
      /\ PartCost(q, i) = PartCost(q, i - 1) + lot.qty * lot.price
      /\ QtyOf(m.kept) \in Int /\ CostOf(m.kept) \in Int
  BY <1>1, PartGrows, LotTotals
<1>3. /\ m.left # 0 => m.kept = <<>>
      /\ QtyOf(m.kept) = PartQty(q, i - 1) + n - m.left
      /\ m.made = price * (m.left - n) - PartCost(q, i - 1) + CostOf(m.kept)
  BY DEF Takes
<1> DEFINE Rest(r) == IF r = 0 THEN m.kept
                      ELSE Append(m.kept, [lot EXCEPT !.qty = r])
<1>4. ASSUME NEW r \in Int
      PROVE  /\ Rest(r) \in Seq(Lot)
             /\ QtyOf(Rest(r)) = QtyOf(m.kept) + r
             /\ CostOf(Rest(r)) = CostOf(m.kept) + r * lot.price
             /\ r >= 0 /\ Long(m.kept) => Long(Rest(r))
             /\ r <= 0 /\ Short(m.kept) => Short(Rest(r))
  <2>1. CASE r = 0
    <3>1. 0 * lot.price = 0
      BY <1>1
    <3> QED
      BY <1>1, <1>2, <2>1, <3>1, SMTT(30)
  <2>2. CASE r # 0
    <3> DEFINE x == [lot EXCEPT !.qty = r]
    <3>1. x \in Lot /\ x.qty = r /\ x.price = lot.price
      BY <1>1 DEF Lot
    <3> HIDE DEF x, lot
    <3>2. Rest(r) = Append(m.kept, x)
      BY <2>2 DEF x
    <3>3. /\ Append(m.kept, x) \in Seq(Lot)
          /\ QtyOf(Append(m.kept, x)) = QtyOf(m.kept) + r
          /\ CostOf(Append(m.kept, x)) = CostOf(m.kept) + r * lot.price
      BY <1>1, <3>1, LotAppended
    <3>4. /\ r >= 0 /\ Long(m.kept) => Long(Append(m.kept, x))
          /\ r <= 0 /\ Short(m.kept) => Short(Append(m.kept, x))
      <4>1. /\ Len(Append(m.kept, x)) = Len(m.kept) + 1 /\ Len(m.kept) \in Nat
            /\ Append(m.kept, x)[Len(m.kept) + 1] = x
            /\ \A j \in 1 .. Len(m.kept) : Append(m.kept, x)[j] = m.kept[j]
        BY <1>1, <3>1, AppendProperties
      <4>2. \A j \in 1 .. Len(m.kept) + 1 :
              j \in 1 .. Len(m.kept) \/ j = Len(m.kept) + 1
        BY <4>1
      <4> HIDE DEF Rest
      <4> QED
        BY <2>2, <3>1, <4>1, <4>2 DEF Long, Short
    <3> QED
      BY <3>2, <3>3, <3>4
  <2> QED
    BY <2>1, <2>2
<1> HIDE DEF Rest
<1>5. ASSUME NEW back \in Int, NEW k,
             k = [left |-> m.left + back,
                  made |-> m.made + (price - lot.price) * back,
                  kept |-> Rest(lot.qty - back)],
             m.left + back # 0 => lot.qty - back = 0 /\ m.left # 0
      PROVE  Takes(k, q, i, n, price)
  <2> DEFINE rest == Rest(lot.qty - back)
             qty == lot.qty
             price1 == lot.price
             left == m.left
             made == m.made
             kept == m.kept
  <2>1. /\ qty \in Int /\ price1 \in Int /\ left \in Int /\ made \in Int
        /\ qty - back \in Int /\ left + back \in Int
    BY <1>1, <1>5, SMTT(30)
  <2>2. /\ rest \in Seq(Lot)
        /\ QtyOf(rest) = QtyOf(kept) + (qty - back)
        /\ CostOf(rest) = CostOf(kept) + (qty - back) * price1
    BY <1>4, <2>1
  <2>3. left + back # 0 => rest = <<>>
    BY <1>3, <1>5 DEF Rest
  <2>4. /\ k.left = left + back /\ k.kept = rest
        /\ k.made = made + (price - price1) * back
        /\ k = [left |-> left + back, made |-> made + (price - price1) * back,
                kept |-> rest]
    BY <1>5
  <2>5. /\ PartQty(q, i - 1) \in Int /\ PartCost(q, i - 1) \in Int
        /\ PartQty(q, i) = PartQty(q, i - 1) + qty
        /\ PartCost(q, i) = PartCost(q, i - 1) + qty * price1
        /\ QtyOf(kept) \in Int /\ CostOf(kept) \in Int
        /\ QtyOf(kept) = PartQty(q, i - 1) + n - left
        /\ made = price * (left - n) - PartCost(q, i - 1) + CostOf(kept)
    BY <1>2, <1>3
  <2> HIDE DEF rest, qty, price1, left, made, kept
  <2>6. Balances(made + (price - price1) * back, QtyOf(kept) + (qty - back),
                 CostOf(kept) + (qty - back) * price1, price, left + back, n,
                 PartQty(q, i - 1) + qty, PartCost(q, i - 1) + qty * price1)
    <3>1. Balances(made, QtyOf(kept), CostOf(kept), price, left, n,
                   PartQty(q, i - 1), PartCost(q, i - 1))
      BY <2>5 DEF Balances
    <3> QED
      BY <1>5, <2>1, <2>5, <3>1, TakenFromLot
  <2>7. (price - price1) * back \in Int
    BY <1>5, <2>1, Products
  <2>8. k \in Match
    BY <2>1, <2>2, <2>4, <2>7 DEF Match
  <2>9. k.left # 0 => k.kept = <<>>
    BY <2>3, <2>4
  <2>10. QtyOf(k.kept) = PartQty(q, i) + n - k.left
    BY <2>2, <2>4, <2>5, <2>6, Zenon DEF Balances
  <2>11. k.made = price * (k.left - n) - PartCost(q, i) + CostOf(k.kept)
    BY <2>2, <2>4, <2>5, <2>6, Zenon DEF Balances
  <2> QED
    BY <2>8, <2>9, <2>10, <2>11 DEF Takes
<1>6. ASSUME m.left <= 0, Long(q), Long(m.kept)
      PROVE  LET k == MatchOne(m, q[i], price)
             IN  Takes(k, q, i, n, price) /\ k.left <= 0 /\ Long(k.kept)
  <2>1. lot.qty > 0
    BY <1>6 DEF Long
  <2>2. MatchOne(m, lot, price) =
          [left |-> m.left + size, made |-> m.made + (price - lot.price) * size,
           kept |-> Rest(lot.qty - size)]
    BY <2>1 DEF MatchOne, Rest
  <2>3. /\ size \in Int /\ lot.qty - size \in Int /\ lot.qty - size >= 0
        /\ m.left + size \in Int /\ m.left + size <= 0
        /\ m.left + size # 0 => lot.qty - size = 0 /\ m.left # 0
    BY <1>1, <1>6, <2>1, LongShares
  <2> DEFINE k == MatchOne(m, lot, price)
  <2> HIDE DEF size, lot
  <2>4. Takes(k, q, i, n, price)
    BY <1>5, <2>2, <2>3
  <2>5. Long(Rest(lot.qty - size))
    BY <1>4, <1>6, <2>3
  <2>6. k.left = m.left + size /\ k.kept = Rest(lot.qty - size)
    BY <2>2
  <2>7. k.left <= 0 /\ Long(k.kept)
    BY <2>3, <2>5, <2>6
  <2> QED
    BY <2>4, <2>7 DEF lot
<1>7. ASSUME m.left >= 0, Short(q), Short(m.kept)
      PROVE  LET k == MatchOne(m, q[i], price)
             IN  Takes(k, q, i, n, price) /\ k.left >= 0 /\ Short(k.kept)
  <2>1. lot.qty < 0
    BY <1>7 DEF Short
  <2>2. MatchOne(m, lot, price) =
          [left |-> m.left - size, made |-> m.made + (lot.price - price) * size,
           kept |-> Rest(lot.qty + size)]
    <3>1. ~(lot.qty > 0)
      BY <1>1, <2>1
    <3> QED
      BY <3>1 DEF MatchOne, Rest
  <2>3. /\ size \in Int /\ lot.qty + size \in Int /\ lot.qty + size <= 0
        /\ m.left - size \in Int /\ m.left - size >= 0
        /\ m.left - size # 0 => lot.qty + size = 0 /\ m.left # 0
    BY <1>1, <1>7, <2>1, ShortShares
  <2> DEFINE k == MatchOne(m, lot, price)
             back == -size
             qty == lot.qty
             left == m.left
  <2> HIDE DEF size, lot
  <2>4. /\ back \in Int /\ qty - back = qty + size /\ left + back = left - size
        /\ (lot.price - price) * size = (price - lot.price) * back
    <3>1. qty \in Int /\ left \in Int
      BY <1>1
    <3>2. (lot.price - price) * size = (price - lot.price) * (-size)
      BY <1>1, <2>3, Turned, ZenonT(60)
    <3> HIDE DEF qty, left
    <3> QED
      BY <2>3, <3>1, <3>2
  <2> HIDE DEF back
  <2>5. /\ k = [left |-> m.left + back,
                made |-> m.made + (price - lot.price) * back,
                kept |-> Rest(lot.qty - back)]
        /\ m.left + back # 0 => lot.qty - back = 0 /\ m.left # 0
    BY <2>2, <2>3, <2>4
  <2> HIDE DEF k
  <2>6. Takes(k, q, i, n, price)
    BY <1>5, <2>4, <2>5
  <2>7. Short(Rest(lot.qty - back))
    BY <1>4, <1>7, <2>3, <2>4
  <2>8. k.left = m.left + back /\ k.kept = Rest(lot.qty - back)
    BY <2>5
  <2>9. k.left >= 0 /\ Short(k.kept)
    BY <2>3, <2>4, <2>7, <2>8
  <2> QED
    BY <2>6, <2>9 DEF lot, k
<1> QED
  BY <1>6, <1>7

(* The match against the first k lots of a queue, step by step.              *)
IsRun(q, k, n, price, g) ==
  g = [i \in 0 .. k |->
         IF i = 0 THEN [left |-> n, made |-> 0, kept |-> <<>>]
         ELSE MatchOne(g[i - 1], q[i], price)]

LEMMA RunExists ==
  ASSUME NEW q, NEW n, NEW price, NEW k \in Nat
  PROVE  \E g : IsRun(q, k, n, price, g)
<1> DEFINE F == {j \in 0 .. k : ~ \E g : IsRun(q, j, n, price, g)}
<1>1. SUFFICES ASSUME F # {} PROVE FALSE
  OBVIOUS
<1>2. PICK j \in F : \A l \in F : j <= l
  <2>1. F \in SUBSET Nat
    OBVIOUS
  <2> QED
    BY <1>1, <2>1, SmallestNumber
<1>3. CASE j = 0
  <2>1. IsRun(q, 0, n, price,
              [i \in 0 .. 0 |-> [left |-> n, made |-> 0, kept |-> <<>>]])
    BY DEF IsRun
  <2> QED
    BY <1>2, <1>3, <2>1
<1>4. CASE j # 0
  <2>1. j \in Nat \ {0} /\ j - 1 \in 0 .. k /\ j - 1 \notin F
    BY <1>2, <1>4
  <2>2. PICK g : IsRun(q, j - 1, n, price, g)
    BY <2>1
  <2> DEFINE h == [i \in 0 .. j |-> IF i = j THEN MatchOne(g[j - 1], q[j], price)
                                    ELSE g[i]]
  <2>3. ASSUME NEW i \in 0 .. j
        PROVE  h[i] = IF i = 0 THEN [left |-> n, made |-> 0, kept |-> <<>>]
                      ELSE MatchOne(h[i - 1], q[i], price)
    <3>1. CASE i = j
      <4>1. h[i] = MatchOne(g[j - 1], q[j], price) /\ h[j - 1] = g[j - 1]
        BY <2>1, <3>1
      <4> QED
        BY <2>1, <3>1, <4>1
    <3>2. CASE i # j
      <4>1. i \in 0 .. j - 1 /\ h[i] = g[i]
        BY <2>1, <3>2
      <4>2. i # 0 => h[i - 1] = g[i - 1]
        BY <2>1, <4>1
      <4> HIDE DEF h
      <4>3. g[i] = IF i = 0 THEN [left |-> n, made |-> 0, kept |-> <<>>]
                   ELSE MatchOne(g[i - 1], q[i], price)
        BY <2>2, <4>1 DEF IsRun
      <4> QED
        BY <4>1, <4>2, <4>3
    <3> QED
      BY <3>1, <3>2
  <2>4. h = [i \in 0 .. j |-> h[i]]
    OBVIOUS
  <2> HIDE DEF h
  <2>5. IsRun(q, j, n, price, h)
    BY <2>3, <2>4 DEF IsRun
  <2> QED
    BY <1>2, <2>5
<1> QED
  BY <1>3, <1>4

LEMMA MatchedIsRun ==
  ASSUME NEW q \in Seq(Lot), NEW n, NEW price
  PROVE  \E g : /\ IsRun(q, Len(q), n, price, g)
                /\ Matched(q, n, price) = g[Len(q)]
<1> DEFINE G == CHOOSE g : IsRun(q, Len(q), n, price, g)
<1>1. Matched(q, n, price) = G[Len(q)]
  BY DEF Matched, IsRun
<1>2. IsRun(q, Len(q), n, price, G)
  BY RunExists
<1> QED
  BY <1>1, <1>2

LEMMA RunStarts ==
  ASSUME NEW q \in Seq(Lot), NEW n \in Int, NEW price \in Int, NEW m,
         m = [left |-> n, made |-> 0, kept |-> <<>>]
  PROVE  Takes(m, q, 0, n, price) /\ m.left = n /\ Long(m.kept) /\ Short(m.kept)
<1>1. m \in Match /\ m.left = n /\ m.made = 0 /\ m.kept = <<>>
  BY EmptySeq DEF Match
<1>2. QtyOf(m.kept) = 0 /\ CostOf(m.kept) = 0
  BY <1>1, EmptySeq, LotTotals
<1>3. PartQty(q, 0) = 0 /\ PartCost(q, 0) = 0
  BY PartEnds
<1>4. price * (n - n) = 0
  OBVIOUS
<1>5. m.made = price * (m.left - n) - PartCost(q, 0) + CostOf(m.kept)
  BY <1>1, <1>2, <1>3, <1>4
<1>6. QtyOf(m.kept) = PartQty(q, 0) + n - m.left
  BY <1>1, <1>2, <1>3
<1>7. Long(m.kept) /\ Short(m.kept)
  BY <1>1 DEF Long, Short
<1> QED
  BY <1>1, <1>5, <1>6, <1>7 DEF Takes

LEMMA MatchedTakes ==
  ASSUME NEW q \in Seq(Lot), NEW n \in Int, NEW price \in Int
  PROVE  LET m == Matched(q, n, price)
         IN  /\ n <= 0 /\ Long(q) =>
                  Takes(m, q, Len(q), n, price) /\ Long(m.kept)
             /\ n >= 0 /\ Short(q) =>
                  Takes(m, q, Len(q), n, price) /\ Short(m.kept)
<1>1. PICK g : /\ IsRun(q, Len(q), n, price, g)
               /\ Matched(q, n, price) = g[Len(q)]
  BY MatchedIsRun
<1>2. Len(q) \in Nat
  OBVIOUS
<1>3. g[0] = [left |-> n, made |-> 0, kept |-> <<>>]
  BY <1>1, <1>2 DEF IsRun
<1>4. \A i \in 1 .. Len(q) : g[i] = MatchOne(g[i - 1], q[i], price)
  BY <1>1, <1>2, SMTT(30) DEF IsRun
<1>5. /\ Takes(g[0], q, 0, n, price) /\ g[0].left = n
      /\ Long(g[0].kept) /\ Short(g[0].kept)
  BY <1>3, RunStarts
<1>6. ASSUME n <= 0, Long(q)
      PROVE  Takes(g[Len(q)], q, Len(q), n, price) /\ Long(g[Len(q)].kept)
  <2> DEFINE Good(i) == /\ Takes(g[i], q, i, n, price) /\ g[i].left <= 0
                        /\ Long(g[i].kept)
             F == {i \in 0 .. Len(q) : ~Good(i)}
  <2>1. SUFFICES ASSUME F # {} PROVE FALSE
    BY <1>2
  <2>2. F \in SUBSET Nat
    OBVIOUS
  <2>3. PICK i \in F : \A j \in F : i <= j
    BY <2>1, <2>2, SmallestNumber
  <2>4. i # 0
    BY <1>5, <1>6, <2>3
  <2>5. i \in 1 .. Len(q) /\ i - 1 \in 0 .. Len(q) /\ i - 1 \notin F
    BY <1>2, <2>3, <2>4
  <2>6. Good(i - 1)
    BY <2>5
  <2> DEFINE m == g[i - 1]
  <2>7. Takes(m, q, i - 1, n, price) /\ m.left <= 0 /\ Long(m.kept)
    BY <2>6
  <2>8. g[i] = MatchOne(m, q[i], price)
    BY <1>4, <2>5
  <2> HIDE DEF m
  <2>9. Good(i)
    BY <1>6, <2>5, <2>7, <2>8, MatchTakes
  <2> QED
    BY <2>3, <2>9
<1>7. ASSUME n >= 0, Short(q)
      PROVE  Takes(g[Len(q)], q, Len(q), n, price) /\ Short(g[Len(q)].kept)
  <2> DEFINE Good(i) == /\ Takes(g[i], q, i, n, price) /\ g[i].left >= 0
                        /\ Short(g[i].kept)
             F == {i \in 0 .. Len(q) : ~Good(i)}
  <2>1. SUFFICES ASSUME F # {} PROVE FALSE
    BY <1>2
  <2>2. F \in SUBSET Nat
    OBVIOUS
  <2>3. PICK i \in F : \A j \in F : i <= j
    BY <2>1, <2>2, SmallestNumber
  <2>4. i # 0
    BY <1>5, <1>7, <2>3
  <2>5. i \in 1 .. Len(q) /\ i - 1 \in 0 .. Len(q) /\ i - 1 \notin F
    BY <1>2, <2>3, <2>4
  <2>6. Good(i - 1)
    BY <2>5
  <2> DEFINE m == g[i - 1]
  <2>7. Takes(m, q, i - 1, n, price) /\ m.left >= 0 /\ Short(m.kept)
    BY <2>6
  <2>8. g[i] = MatchOne(m, q[i], price)
    BY <1>4, <2>5
  <2> HIDE DEF m
  <2>9. Good(i)
    BY <1>7, <2>5, <2>7, <2>8, MatchTakes
  <2> QED
    BY <2>3, <2>9
<1> QED
  BY <1>1, <1>6, <1>7

(* What a fill of n at a price leaves of a queue q, and what it makes.       *)
FillBooks(q, r, n, price, made) ==
  /\ r \in Seq(Lot) /\ made \in Int /\ (Long(r) \/ Short(r))
  /\ QtyOf(r) = QtyOf(q) + n
  /\ CostOf(r) = CostOf(q) + n * price + made

LEMMA SideAppended ==
  ASSUME NEW q \in Seq(Lot), NEW x \in Lot
  PROVE  /\ Long(q) /\ x.qty > 0 => Long(Append(q, x))
         /\ Short(q) /\ x.qty < 0 => Short(Append(q, x))
<1> DEFINE r == Append(q, x)
<1>1. /\ Len(r) = Len(q) + 1 /\ Len(q) \in Nat /\ r[Len(q) + 1] = x
      /\ \A j \in 1 .. Len(q) : r[j] = q[j]
  BY AppendProperties
<1>2. \A j \in 1 .. Len(q) + 1 : j \in 1 .. Len(q) \/ j = Len(q) + 1
  BY <1>1
<1> HIDE DEF r
<1> QED
  BY <1>1, <1>2 DEF Long, Short, r

LEMMA FillAdds ==
  ASSUME NEW q \in Seq(Lot), Long(q) \/ Short(q), NEW n \in Int, n # 0,
         NEW price \in Int, NEW by \in Ideas,
         QtyOf(q) = 0 \/ (QtyOf(q) > 0) = (n > 0)
  PROVE  FillBooks(q, Append(q, [qty |-> n, price |-> price, by |-> by]), n,
                   price, 0)
<1> DEFINE x == [qty |-> n, price |-> price, by |-> by]
<1>1. x \in Lot /\ x.qty = n /\ x.price = price
  BY DEF Lot
<1> HIDE DEF x
<1>2. /\ Append(q, x) \in Seq(Lot)
      /\ QtyOf(Append(q, x)) = QtyOf(q) + n
      /\ CostOf(Append(q, x)) = CostOf(q) + n * price
  BY <1>1, LotAppended
<1>3. QtyOf(q) \in Int /\ CostOf(q) \in Int /\ n * price \in Int
  BY LotTotals, Products
<1>4. CostOf(Append(q, x)) = CostOf(q) + n * price + 0
  BY <1>2, <1>3
<1>5. \/ Long(q) /\ QtyOf(q) > 0
      \/ Short(q) /\ QtyOf(q) < 0
      \/ q = <<>>
  <2>1. CASE Long(q)
    BY <2>1, LongHolds
  <2>2. CASE Short(q)
    BY <2>2, LongHolds
  <2> QED
    BY <2>1, <2>2
<1>6. q = <<>> => Long(q) /\ Short(q)
  BY DEF Long, Short
<1>7. Long(Append(q, x)) \/ Short(Append(q, x))
  <2>1. CASE n > 0
    <3>1. Long(q)
      BY <1>3, <1>5, <1>6, <2>1
    <3> QED
      BY <1>1, <2>1, <3>1, SideAppended
  <2>2. CASE n < 0
    <3>1. Short(q)
      BY <1>3, <1>5, <1>6, <2>2
    <3> QED
      BY <1>1, <2>2, <3>1, SideAppended
  <2> QED
    BY <2>1, <2>2
<1> QED
  BY <1>2, <1>4, <1>7 DEF FillBooks, x

LEMMA FillMatches ==
  ASSUME NEW q \in Seq(Lot), Long(q) \/ Short(q), NEW n \in Int, n # 0,
         NEW price \in Int, NEW by \in Ideas,
         ~(QtyOf(q) = 0 \/ (QtyOf(q) > 0) = (n > 0))
  PROVE  LET m == Matched(q, n, price)
             r == IF m.left = 0 THEN m.kept
                  ELSE Append(m.kept, [qty |-> m.left, price |-> price,
                                       by |-> by])
         IN  q # <<>> /\ FillBooks(q, r, n, price, m.made)
<1> DEFINE m == Matched(q, n, price)
           x == [qty |-> m.left, price |-> price, by |-> by]
           r == IF m.left = 0 THEN m.kept ELSE Append(m.kept, x)
<1>1. q # <<>> /\ QtyOf(q) \in Int /\ CostOf(q) \in Int
  BY LotTotals
<1>2. Takes(m, q, Len(q), n, price) /\ (Long(m.kept) \/ Short(m.kept))
  <2>1. CASE Long(q)
    <3>1. QtyOf(q) > 0
      BY <1>1, <2>1, LongHolds
    <3>2. n <= 0
      BY <1>1, <3>1
    <3> QED
      BY <2>1, <3>2, MatchedTakes
  <2>2. CASE Short(q)
    <3>1. QtyOf(q) < 0
      BY <1>1, <2>2, LongHolds
    <3>2. n >= 0
      BY <1>1, <3>1
    <3> QED
      BY <2>2, <3>2, MatchedTakes
  <2> QED
    BY <2>1, <2>2
<1> HIDE DEF m
<1>3. /\ m.left \in Int /\ m.made \in Int /\ m.kept \in Seq(Lot)
      /\ m.left # 0 => m.kept = <<>>
      /\ QtyOf(m.kept) = QtyOf(q) + n - m.left
      /\ m.made = price * (m.left - n) - CostOf(q) + CostOf(m.kept)
  BY <1>2, PartEnds DEF Takes, Match
<1>4. QtyOf(m.kept) \in Int /\ CostOf(m.kept) \in Int
  BY <1>3, LotTotals
<1> DEFINE left == m.left
           made == m.made
           kept == m.kept
<1>5. /\ price * (left - n) = price * left - price * n
      /\ price * left \in Int /\ price * n \in Int /\ price * n = n * price
      /\ price * left = left * price
  BY <1>3, Expand
<1> HIDE DEF left, made, kept
<1>6. CASE left = 0
  <2>1. r = kept
    BY <1>6 DEF left, kept
  <2>2. price * left = 0
    BY <1>6
  <2>3. QtyOf(kept) = QtyOf(q) + n
    BY <1>1, <1>3, <1>4, <1>6 DEF left, kept
  <2>4. CostOf(kept) = CostOf(q) + n * price + made
    <3>1. /\ made = price * (left - n) - CostOf(q) + CostOf(kept)
          /\ CostOf(kept) \in Int
      BY <1>3, <1>4 DEF left, kept, made
    <3> QED
      BY <1>1, <1>5, <2>2, <3>1
  <2>5. FillBooks(q, r, n, price, made)
    BY <1>2, <1>3, <2>1, <2>3, <2>4 DEF FillBooks, kept, made
  <2> QED
    BY <1>1, <2>5 DEF m, made
<1>7. CASE left # 0
  <2>1. r = Append(kept, x) /\ kept = <<>> /\ kept \in Seq(Lot)
    BY <1>3, <1>7 DEF left, kept
  <2>2. x \in Lot /\ x.qty = left /\ x.price = price /\ left \in Int
    BY <1>3 DEF Lot, left
  <2> HIDE DEF x
  <2>3. /\ r \in Seq(Lot) /\ QtyOf(r) = QtyOf(kept) + left
        /\ CostOf(r) = CostOf(kept) + left * price
    BY <2>1, <2>2, LotAppended
  <2>4. QtyOf(kept) = 0 /\ CostOf(kept) = 0
    BY <2>1, LotTotals
  <2>5. QtyOf(r) = QtyOf(q) + n
    BY <1>1, <1>3, <2>2, <2>3, <2>4 DEF left, kept
  <2>6. CostOf(r) = CostOf(q) + n * price + made
    <3>1. made = price * (left - n) - CostOf(q) + CostOf(kept)
      BY <1>3 DEF left, kept, made
    <3> QED
      BY <1>1, <1>5, <2>3, <2>4, <3>1
  <2>7. Long(kept) /\ Short(kept)
    BY <2>1 DEF Long, Short
  <2>8. Long(r) \/ Short(r)
    <3>1. left > 0 \/ left < 0
      BY <1>7, <2>2
    <3>2. ASSUME left > 0 PROVE Long(r)
      BY <2>1, <2>2, <2>7, <3>2, SideAppended
    <3>3. ASSUME left < 0 PROVE Short(r)
      BY <2>1, <2>2, <2>7, <3>3, SideAppended
    <3> QED
      BY <3>1, <3>2, <3>3
  <2>9. FillBooks(q, r, n, price, made)
    BY <1>3, <2>3, <2>5, <2>6, <2>8 DEF FillBooks, made
  <2> QED
    BY <1>1, <2>9 DEF m, x, made
<1> QED
  BY <1>6, <1>7

---------------------------------------------------------------------------
(* The backtest's state: types, lots that are the position, and the cash     *)
(* and the strategies' P&L explained by them.                                *)
Stake == [qty : Int, avg : Fraction, last : Int]

BacktestTypes ==
  /\ bar = NoBar \/ (bar \in Candidates /\ bar.stock \in Stocks)
  /\ cash \in Int /\ gross \in Int /\ paid \in Int /\ opening \in Int
  /\ booked \in [Ideas -> Int]
  /\ stake \in [Stocks -> Stake]
  /\ lots \in [Stocks -> Seq(Lot)]
  /\ curve \in Seq(Int)

LotsHold ==
  \A s \in Stocks : /\ stake[s].qty = QtyOf(lots[s])
                    /\ Long(lots[s]) \/ Short(lots[s])

BacktestInv == BacktestTypes /\ LotsHold /\ CashIsExplained

(* A fill's fee, price and average are what they should be.                  *)
LEMMA FeeIsTyped ==
  ASSUME NEW side, NEW product
  PROVE  Fee(side, product) \in Int
<1> DEFINE C == Charges(side, product) \cap DOMAIN Levy
           kinds == <<"exchange", "sebi", "gst", "brokerage", "stt", "stamp">>
           All == {kinds[i] : i \in 1 .. 6}
<1>1. C \subseteq All
  <2>1. /\ kinds[1] = "exchange" /\ kinds[2] = "sebi" /\ kinds[3] = "gst"
        /\ kinds[4] = "brokerage" /\ kinds[5] = "stt" /\ kinds[6] = "stamp"
    OBVIOUS
  <2> HIDE DEF kinds
  <2>2. {"exchange", "sebi", "gst", "brokerage", "stt", "stamp"} \subseteq All
    BY <2>1
  <2> HIDE DEF All
  <2> QED
    BY <2>2 DEF Charges
<1>2. IsFiniteSet(All)
  BY ValuesFinite
<1>3. IsFiniteSet(C)
  BY <1>1, <1>2, FS_Subset
<1>4. \A c \in C : Levy[c] \in Int
  BY BacktestAssumption
<1>5. SumFunctionOnSet(Levy, C) \in Int
  BY <1>3, <1>4, SumIsInteger
<1> QED
  BY <1>5 DEF Fee

LEMMA PriceIsTyped ==
  ASSUME NEW w \in Wishes, NEW b \in Candidates
  PROVE  Price(w, b) \in Int /\ Quantity(w, b) \in Int
<1>1. /\ w.qty \in Int /\ w.entry \in Int /\ Slip \in Int
      /\ b.vwap \in Int /\ b.close \in Int /\ b.volume \in Int
      /\ CapDivisor \in Int /\ CapDivisor > 0
  BY BacktestAssumption
<1>2. Reference(b) \in Int
  BY <1>1 DEF Reference
<1>3. b.volume \div CapDivisor \in Int
  BY <1>1
<1> QED
  BY <1>1, <1>2, <1>3 DEF Price, Quantity

LEMMA AverageIsTyped ==
  ASSUME NEW p \in Stake, NEW n \in Int, n # 0, NEW price \in Int
  PROVE  NewAverage(p, n, price) \in Fraction
<1>1. p.qty \in Int /\ p.avg \in Fraction /\ p.qty + n \in Int
  BY DEF Stake
<1>2. price * n \in Int
  BY Products
<1>3. CASE Adds(p, n)
  <2>1. p.qty + n # 0
    BY <1>1, <1>3 DEF Adds
  <2>2. Scaled(p.avg, p.qty) \in Fraction /\ Whole(price * n) \in Fraction
    BY <1>1, <1>2, OperationsTyped
  <2>3. Plus(Scaled(p.avg, p.qty), Whole(price * n)) \in Fraction
    BY <2>2, OperationsTyped
  <2>4. Over(Plus(Scaled(p.avg, p.qty), Whole(price * n)), p.qty + n) \in Fraction
    BY <1>1, <2>1, <2>3, OperationsTyped
  <2> QED
    BY <1>3, <2>4 DEF NewAverage
<1>4. CASE ~Adds(p, n)
  <2>1. Whole(0) \in Fraction
    BY DEF Whole, Fraction, Positive
  <2> QED
    BY <1>1, <1>4, <2>1 DEF NewAverage
<1> QED
  BY <1>3, <1>4

(* What a fill does to the money, at a stock s and for the strategy k of the *)
(* oldest lot, if it closes something.                                       *)
LEMMA FillKeepsMoney ==
  ASSUME IsFiniteSet(Stocks), IsFiniteSet(Ideas), BacktestInv,
         NEW s \in Stocks, NEW n \in Int, NEW price \in Int, NEW fee \in Int,
         NEW made \in Int, NEW r, FillBooks(lots[s], r, n, price, made),
         lots' = [lots EXCEPT ![s] = r],
         cash' = cash - n * price - fee, paid' = paid + fee,
         gross' = gross + made,
         NEW credit \in Int,
         \/ credit = 0 /\ made = 0 /\ booked' = booked /\ opening' = opening + fee
         \/ /\ credit = made - fee /\ opening' = opening
            /\ \E k \in Ideas : booked' = [booked EXCEPT ![k] = @ + credit]
  PROVE  CashIsExplained'
<1>1. /\ cash \in Int /\ gross \in Int /\ paid \in Int /\ opening \in Int
      /\ booked \in [Ideas -> Int] /\ lots \in [Stocks -> Seq(Lot)]
  BY DEF BacktestInv, BacktestTypes
<1>2. r \in Seq(Lot) /\ CostOf(r) = CostOf(lots[s]) + n * price + made
  BY DEF FillBooks
<1> DEFINE f == [t \in Stocks |-> CostOf(lots[t])]
           h == [t \in Stocks |-> CostOf(lots'[t])]
<1>3. \A t \in Stocks : f[t] \in Int /\ h[t] \in Int
  <2>1. \A t \in Stocks : lots[t] \in Seq(Lot) /\ lots'[t] \in Seq(Lot)
    BY <1>1, <1>2
  <2> QED
    BY <2>1, LotTotals
<1>4. /\ \A t \in Stocks \ {s} : h[t] = f[t]
      /\ h[s] = CostOf(r) /\ f[s] = CostOf(lots[s])
  BY <1>1
<1> DEFINE F == SumFunctionOnSet(f, Stocks)
           H == SumFunctionOnSet(h, Stocks)
<1>5. F = SumFunctionOnSet([t \in Stocks |-> OpenCost(t)], Stocks)
  BY DEF OpenCost, CostOf
<1>6. H = SumFunctionOnSet([t \in Stocks |-> OpenCost(t)], Stocks)'
  BY DEF OpenCost, CostOf
<1> HIDE DEF f, h
<1>7. H = F + h[s] - f[s]
  BY <1>3, <1>4, SumChanges
<1>8. F \in Int
  BY <1>3, SumIsInteger
<1> HIDE DEF F, H
<1>9. /\ cash = StartingNav + gross - paid - F
      /\ SumFunctionOnSet(booked, Ideas) = gross - (paid - opening)
  BY <1>5 DEF BacktestInv, CashIsExplained
<1>10. n * price \in Int /\ CostOf(lots[s]) \in Int /\ StartingNav \in Int
  BY <1>3, <1>4, Products, BacktestAssumption
<1>11. H = F + n * price + made
  BY <1>2, <1>4, <1>7, <1>8, <1>10
<1>12. cash' = StartingNav + gross' - paid' - H
  BY <1>1, <1>8, <1>9, <1>10, <1>11
<1>13. SumFunctionOnSet(booked', Ideas) = gross' - (paid' - opening')
  <2>1. CASE credit = 0 /\ made = 0 /\ booked' = booked /\ opening' = opening + fee
    BY <1>1, <1>9, <2>1
  <2>2. ASSUME credit = made - fee, opening' = opening, NEW k \in Ideas,
               booked' = [booked EXCEPT ![k] = @ + credit]
        PROVE  SumFunctionOnSet(booked', Ideas) = gross' - (paid' - opening')
    <3>1. /\ \A i \in Ideas : booked[i] \in Int /\ booked'[i] \in Int
          /\ \A i \in Ideas \ {k} : booked'[i] = booked[i]
          /\ booked'[k] = booked[k] + credit
      BY <1>1, <2>2
    <3> DEFINE b == booked'
               before == SumFunctionOnSet(booked, Ideas)
    <3> HIDE DEF b
    <3>2. SumFunctionOnSet(b, Ideas) =
            SumFunctionOnSet(booked, Ideas) + b[k] - booked[k]
      BY <3>1, SumChanges DEF b
    <3>3. before \in Int /\ booked[k] \in Int /\ b[k] = booked[k] + credit
      BY <3>1, SumIsInteger DEF b
    <3>4. before = gross - (paid - opening)
      BY <1>9
    <3> HIDE DEF before
    <3>5. SumFunctionOnSet(b, Ideas) = before + credit
      BY <3>2, <3>3 DEF before
    <3>6. before + credit = gross' - (paid' - opening')
      BY <1>1, <2>2, <3>3, <3>4
    <3> QED
      BY <3>5, <3>6 DEF b
  <2> QED
    BY <2>1, <2>2
<1> QED
  BY <1>6, <1>12, <1>13 DEF CashIsExplained

LEMMA BookPreserves ==
  ASSUME IsFiniteSet(Stocks), IsFiniteSet(Ideas), BacktestInv,
         NEW s \in Stocks, NEW n \in Int, n # 0, NEW price \in Int,
         NEW fee \in Int, NEW by \in Ideas, Book(s, n, price, fee, by),
         UNCHANGED <<bar, curve>>
  PROVE  BacktestInv'
<1> DEFINE q == lots[s]
           p == stake[s]
           m == Matched(q, n, price)
           mine == [qty |-> n, price |-> price, by |-> by]
<1>1. /\ cash \in Int /\ gross \in Int /\ paid \in Int /\ opening \in Int
      /\ booked \in [Ideas -> Int] /\ lots \in [Stocks -> Seq(Lot)]
      /\ stake \in [Stocks -> Stake]
  BY DEF BacktestInv, BacktestTypes
<1>2. /\ q \in Seq(Lot) /\ (Long(q) \/ Short(q)) /\ p \in Stake
      /\ p.qty = QtyOf(q) /\ p.qty \in Int
  BY <1>1 DEF BacktestInv, LotsHold, Stake
<1>3. /\ cash' = cash - n * price - fee /\ paid' = paid + fee
      /\ stake' = [stake EXCEPT ![s] = [qty |-> p.qty + n,
                                        avg |-> NewAverage(p, n, price),
                                        last |-> price]]
  BY DEF Book
<1>4. n * price \in Int /\ cash' \in Int /\ paid' \in Int
  BY <1>1, <1>3, Products
<1>5. stake' \in [Stocks -> Stake]
  <2>1. [qty |-> p.qty + n, avg |-> NewAverage(p, n, price), last |-> price]
          \in Stake
    BY <1>2, AverageIsTyped DEF Stake
  <2> QED
    BY <1>1, <1>3, <2>1
<1>6. \E r \in Seq(Lot), made \in Int, credit \in Int :
        /\ FillBooks(q, r, n, price, made)
        /\ lots' = [lots EXCEPT ![s] = r]
        /\ gross' = gross + made
        /\ \/ credit = 0 /\ made = 0 /\ booked' = booked
                         /\ opening' = opening + fee
           \/ /\ credit = made - fee /\ opening' = opening
              /\ \E k \in Ideas : booked' = [booked EXCEPT ![k] = @ + credit]
  <2>1. CASE Adds(p, n)
    <3>1. /\ lots' = [lots EXCEPT ![s] = Append(q, mine)]
          /\ opening' = opening + fee /\ booked' = booked /\ gross' = gross
      BY <2>1 DEF Book
    <3>2. FillBooks(q, Append(q, mine), n, price, 0)
      BY <1>2, <2>1, FillAdds DEF Adds
    <3>3. gross' = gross + 0
      BY <1>1, <3>1
    <3>4. Append(q, mine) \in Seq(Lot)
      BY <3>2 DEF FillBooks
    <3> DEFINE r == Append(q, mine)
    <3> HIDE DEF mine, q, r
    <3>5. \E credit \in Int :
            /\ FillBooks(q, r, n, price, 0)
            /\ lots' = [lots EXCEPT ![s] = r]
            /\ gross' = gross + 0
            /\ \/ credit = 0 /\ 0 = 0 /\ booked' = booked
                             /\ opening' = opening + fee
               \/ /\ credit = 0 - fee /\ opening' = opening
                  /\ \E k \in Ideas : booked' = [booked EXCEPT ![k] = @ + credit]
      <4>1. 0 \in Int
        OBVIOUS
      <4> QED
        BY <3>1, <3>2, <3>3, <4>1, Zenon DEF r
    <3>6. r \in Seq(Lot) /\ 0 \in Int
      BY <3>4 DEF r
    <3> QED
      BY <3>5, <3>6, Zenon
  <2>2. CASE ~Adds(p, n)
    <3> DEFINE r == IF m.left = 0 THEN m.kept
                    ELSE Append(m.kept, [mine EXCEPT !.qty = m.left])
               k == Head(q).by
    <3>1. /\ lots' = [lots EXCEPT ![s] = r]
          /\ booked' = [booked EXCEPT ![k] = @ + TradeGains(m, fee)]
          /\ gross' = gross + m.made /\ opening' = opening
      BY <2>2 DEF Book
    <3>2. [mine EXCEPT !.qty = m.left]
            = [qty |-> m.left, price |-> price, by |-> by]
      OBVIOUS
    <3>3. q # <<>> /\ FillBooks(q, r, n, price, m.made)
      BY <1>2, <2>2, <3>2, FillMatches DEF Adds
    <3>4. k \in Ideas
      <4>1. Head(q) \in Lot
        BY <1>2, <3>3, HeadTailProperties
      <4> QED
        BY <4>1 DEF Lot
    <3>5. m.made \in Int /\ TradeGains(m, fee) = m.made - fee
      BY <3>3 DEF FillBooks, TradeGains
    <3>6. TradeGains(m, fee) \in Int /\ r \in Seq(Lot)
      BY <3>3, <3>5 DEF FillBooks
    <3> HIDE DEF mine, q, m, r, k
    <3> QED
      BY <3>1, <3>3, <3>4, <3>5, <3>6
  <2> QED
    BY <2>1, <2>2
<1>7. PICK r \in Seq(Lot), made \in Int, credit \in Int :
        /\ FillBooks(q, r, n, price, made)
        /\ lots' = [lots EXCEPT ![s] = r]
        /\ gross' = gross + made
        /\ \/ credit = 0 /\ made = 0 /\ booked' = booked
                         /\ opening' = opening + fee
           \/ /\ credit = made - fee /\ opening' = opening
              /\ \E k \in Ideas : booked' = [booked EXCEPT ![k] = @ + credit]
  BY <1>6
<1>8. CashIsExplained'
  BY <1>3, <1>7, FillKeepsMoney
<1>9. LotsHold'
  <2>1. /\ r \in Seq(Lot) /\ (Long(r) \/ Short(r)) /\ QtyOf(r) = QtyOf(q) + n
    BY <1>7 DEF FillBooks
  <2>2. /\ lots'[s] = r /\ stake'[s].qty = p.qty + n
        /\ \A t \in Stocks \ {s} : lots'[t] = lots[t] /\ stake'[t] = stake[t]
    BY <1>1, <1>3, <1>7
  <2> SUFFICES ASSUME NEW t \in Stocks
               PROVE  /\ stake'[t].qty = QtyOf(lots'[t])
                      /\ Long(lots'[t]) \/ Short(lots'[t])
    BY DEF LotsHold, QtyOf, Long, Short
  <2>3. CASE t = s
    BY <1>2, <2>1, <2>2, <2>3
  <2>4. CASE t # s
    BY <2>2, <2>4 DEF BacktestInv, LotsHold
  <2> QED
    BY <2>3, <2>4
<1>10. BacktestTypes'
  <2>1. gross' \in Int /\ lots' \in [Stocks -> Seq(Lot)]
    BY <1>1, <1>7 DEF FillBooks
  <2>2. booked' \in [Ideas -> Int] /\ opening' \in Int
    <3>1. CASE credit = 0 /\ made = 0 /\ booked' = booked
               /\ opening' = opening + fee
      BY <1>1, <3>1
    <3>2. ASSUME opening' = opening, NEW k \in Ideas,
                 booked' = [booked EXCEPT ![k] = @ + credit]
          PROVE  booked' \in [Ideas -> Int] /\ opening' \in Int
      <4>1. booked[k] + credit \in Int
        BY <1>1
      <4> QED
        BY <1>1, <3>2, <4>1
    <3> QED
      BY <1>7, <3>1, <3>2
  <2> QED
    BY <1>4, <1>5, <2>1, <2>2 DEF BacktestInv, BacktestTypes
<1> QED
  BY <1>8, <1>9, <1>10 DEF BacktestInv

LEMMA BacktestInvNext ==
  ASSUME IsFiniteSet(Stocks), IsFiniteSet(Ideas)
  PROVE  BacktestInv /\ [BacktestNext]_backtestVars => BacktestInv'
<1> SUFFICES ASSUME BacktestInv, [BacktestNext]_backtestVars
             PROVE  BacktestInv'
  OBVIOUS
<1>a. ASSUME UNCHANGED <<cash, lots, booked, gross, paid, opening>>,
             \A s \in Stocks : stake'[s].qty = stake[s].qty
      PROVE  LotsHold' /\ CashIsExplained'
  <2>1. LotsHold'
    BY <1>a DEF BacktestInv, LotsHold, QtyOf, Long, Short
  <2>2. CashIsExplained'
    BY <1>a DEF BacktestInv, CashIsExplained, OpenCost
  <2> QED
    BY <2>1, <2>2
<1>1. CASE TakeBar
  <2>1. PICK b \in Candidates :
          /\ b.stock \in Stocks /\ bar' = b
          /\ stake' = [stake EXCEPT ![b.stock].last =
                         IF stake[b.stock].qty = 0 THEN @ ELSE b.close]
          /\ UNCHANGED <<cash, lots, booked, curve, gross, paid, opening>>
    BY <1>1 DEF TakeBar
  <2>2. b.close \in Int
    BY BacktestAssumption
  <2>3. stake \in [Stocks -> Stake]
    BY DEF BacktestInv, BacktestTypes
  <2>4. stake' \in [Stocks -> Stake]
        /\ \A s \in Stocks : stake'[s].qty = stake[s].qty
    BY <2>1, <2>2, <2>3 DEF Stake
  <2>5. BacktestTypes'
    BY <2>1, <2>4 DEF BacktestInv, BacktestTypes
  <2> QED
    BY <1>a, <2>1, <2>4, <2>5 DEF BacktestInv
<1>2. ASSUME NEW w \in Wishes, Unfilled(w) PROVE BacktestInv'
  <2>1. UNCHANGED <<bar, cash, stake, lots, booked, curve, gross, paid, opening>>
    BY <1>2 DEF Unfilled, Signalled
  <2>2. BacktestTypes'
    BY <2>1 DEF BacktestInv, BacktestTypes
  <2> QED
    BY <1>a, <2>1, <2>2 DEF BacktestInv
<1>3. ASSUME NEW w \in Wishes, Filled(w) PROVE BacktestInv'
  <2> DEFINE n == IF w.side = "BUY" THEN Quantity(w, bar) ELSE -Quantity(w, bar)
             price == Price(w, bar)
             fee == Fee(w.side, w.product)
  <2>1. /\ bar # NoBar /\ UNCHANGED <<bar, curve>>
        /\ Quantity(w, bar) > 0
        /\ Book(bar.stock, n, price, fee, w.by)
    BY <1>3 DEF Filled, Signalled
  <2>2. bar \in Candidates /\ bar.stock \in Stocks
    BY <2>1 DEF BacktestInv, BacktestTypes
  <2>3. price \in Int /\ Quantity(w, bar) \in Int /\ fee \in Int
    BY <2>2, PriceIsTyped, FeeIsTyped
  <2>4. n \in Int /\ n # 0
    BY <2>1, <2>3
  <2>5. w.by \in Ideas
    BY BacktestAssumption
  <2> HIDE DEF n, price, fee
  <2> QED
    BY <2>1, <2>2, <2>3, <2>4, <2>5, BookPreserves
<1>4. CASE EndBar
  <2>1. /\ curve' = Append(curve, Equity) /\ bar' = NoBar
        /\ UNCHANGED <<cash, stake, lots, booked, gross, paid, opening>>
    BY <1>4 DEF EndBar
  <2>2. Equity \in Int
    <3> DEFINE f == [s \in Stocks |-> stake[s].qty * stake[s].last]
    <3>1. \A s \in Stocks : f[s] \in Int
      <4>1. \A s \in Stocks : stake[s].qty \in Int /\ stake[s].last \in Int
        BY DEF BacktestInv, BacktestTypes, Stake
      <4> QED
        BY <4>1, Products
    <3> HIDE DEF f
    <3>2. SumFunctionOnSet(f, Stocks) \in Int
      BY <3>1, SumIsInteger
    <3> QED
      BY <3>2 DEF Equity, f, BacktestInv, BacktestTypes
  <2>3. curve' \in Seq(Int)
    BY <2>1, <2>2 DEF BacktestInv, BacktestTypes
  <2>4. BacktestTypes'
    BY <2>1, <2>3 DEF BacktestInv, BacktestTypes
  <2> QED
    BY <1>a, <2>1, <2>4 DEF BacktestInv
<1>5. CASE UNCHANGED backtestVars
  <2>1. UNCHANGED <<bar, cash, stake, lots, booked, curve, gross, paid, opening>>
    BY <1>5 DEF backtestVars
  <2>2. BacktestTypes'
    BY <2>1 DEF BacktestInv, BacktestTypes
  <2> QED
    BY <1>a, <2>1, <2>2 DEF BacktestInv
<1> QED
  BY <1>1, <1>2, <1>3, <1>4, <1>5 DEF BacktestNext

LEMMA BacktestInvInit ==
  ASSUME IsFiniteSet(Stocks), IsFiniteSet(Ideas)
  PROVE  BacktestInit => BacktestInv
<1> SUFFICES ASSUME BacktestInit PROVE BacktestInv
  OBVIOUS
<1>1. /\ bar = NoBar /\ cash = StartingNav /\ curve = <<>>
      /\ stake = [s \in Stocks |-> [qty |-> 0, avg |-> Whole(0), last |-> 0]]
      /\ lots = [s \in Stocks |-> <<>>] /\ booked = [k \in Ideas |-> 0]
      /\ gross = 0 /\ paid = 0 /\ opening = 0
  BY DEF BacktestInit
<1>2. Whole(0) \in Fraction /\ StartingNav \in Int
  BY BacktestAssumption DEF Whole, Fraction, Positive
<1>3. BacktestTypes
  <2>1. [qty |-> 0, avg |-> Whole(0), last |-> 0] \in Stake
    BY <1>2 DEF Stake
  <2> QED
    BY <1>1, <1>2, <2>1, EmptySeq DEF BacktestTypes
<1>4. <<>> \in Seq(Lot) /\ QtyOf(<<>>) = 0 /\ CostOf(<<>>) = 0
  BY EmptySeq, LotTotals
<1>5. LotsHold
  BY <1>1, <1>4 DEF LotsHold, Long, Short
<1>6. CashIsExplained
  <2> DEFINE f == [s \in Stocks |-> OpenCost(s)]
  <2>1. \A s \in Stocks : f[s] = 0
    BY <1>1, <1>4 DEF OpenCost, CostOf
  <2> HIDE DEF f
  <2>2. SumFunctionOnSet(f, Stocks) = 0
    BY <2>1, SumOfZeros
  <2>3. \A k \in Ideas : booked[k] = 0
    BY <1>1
  <2>4. SumFunctionOnSet(booked, Ideas) = 0
    BY <2>3, SumOfZeros
  <2> QED
    BY <1>1, <1>2, <2>2, <2>4 DEF CashIsExplained, f
<1> QED
  BY <1>3, <1>5, <1>6 DEF BacktestInv

(* For any bars and signals, of any strategies and in any order: the lots    *)
(* that the tracker matches fills against are the position, on one side.     *)
THEOREM LotsAlwaysThePosition ==
  ASSUME IsFiniteSet(Stocks), IsFiniteSet(Ideas)
  PROVE  BacktestSpec => []LotsAreThePosition
<1>1. BacktestInv => LotsAreThePosition
  <2> SUFFICES ASSUME BacktestInv, NEW s \in Stocks
               PROVE  /\ stake[s].qty = SumFunction(LotQtys(lots[s]))
                      /\ \A i, j \in DOMAIN lots[s] :
                           (lots[s][i].qty > 0) = (lots[s][j].qty > 0)
                      /\ \A i \in DOMAIN lots[s] : lots[s][i].qty # 0
    BY DEF LotsAreThePosition
  <2>1. /\ stake[s].qty = QtyOf(lots[s])
        /\ Long(lots[s]) \/ Short(lots[s])
        /\ lots[s] \in Seq(Lot) /\ DOMAIN lots[s] = 1 .. Len(lots[s])
    BY DEF BacktestInv, LotsHold, BacktestTypes
  <2>2. \A i \in 1 .. Len(lots[s]) : lots[s][i].qty \in Int
    BY <2>1, LotFacts
  <2>3. CASE Long(lots[s])
    <3>1. \A i \in DOMAIN lots[s] : lots[s][i].qty > 0 /\ lots[s][i].qty # 0
      BY <2>1, <2>2, <2>3 DEF Long
    <3> QED
      BY <2>1, <3>1 DEF QtyOf
  <2>4. CASE Short(lots[s])
    <3>1. \A i \in DOMAIN lots[s] : ~(lots[s][i].qty > 0) /\ lots[s][i].qty # 0
      BY <2>1, <2>2, <2>4 DEF Short
    <3> QED
      BY <2>1, <3>1 DEF QtyOf
  <2> QED
    BY <2>1, <2>3, <2>4
<1> QED
  BY <1>1, BacktestInvInit, BacktestInvNext, PTL DEF BacktestSpec

(* ... and the money is explained: by what the trades made, the fees and     *)
(* what the open lots cost, and by the strategies' P&L.                      *)
THEOREM CashAlwaysExplained ==
  ASSUME IsFiniteSet(Stocks), IsFiniteSet(Ideas)
  PROVE  BacktestSpec => []CashIsExplained
<1>1. BacktestInv => CashIsExplained
  BY DEF BacktestInv
<1> QED
  BY <1>1, BacktestInvInit, BacktestInvNext, PTL DEF BacktestSpec

(* Whatever curve a backtest leaves, its drawdown is the greatest loss       *)
(* between two of its points, and one that could be taken.                   *)
THEOREM DrawdownAlwaysWorst ==
  ASSUME IsFiniteSet(Stocks), IsFiniteSet(Ideas)
  PROVE  BacktestSpec => []DrawdownIsWorst
<1>1. BacktestInv => DrawdownIsWorst
  <2>1. SUFFICES ASSUME curve \in Seq(Int), curve # <<>>,
                        \A i \in DOMAIN curve : curve[i] > 0
                 PROVE  DrawdownIsWorst
    BY DEF BacktestInv, BacktestTypes, DrawdownIsWorst
  <2>2. DOMAIN curve = 1 .. Len(curve) /\ Len(curve) \in Nat
    BY <2>1
  <2>3. AboveZero(curve)
    BY <2>1, <2>2 DEF AboveZero
  <2> DEFINE loss(i, j) == Frac(curve[i] - curve[j], curve[i])
             pairs == {p \in (DOMAIN curve) \X (DOMAIN curve) : p[1] <= p[2]}
  <2>4. /\ \A j \in 1 .. Len(curve), i \in 1 .. Len(curve) :
             i <= j => ~Greater(loss(i, j), MaxDrawdown(curve))
        /\ \E j \in 1 .. Len(curve) : \E i \in 1 .. j :
             loss(i, j) = MaxDrawdown(curve)
    BY <2>1, <2>3, DrawdownTellsLosses DEF Loss
  <2>5. \A p \in pairs : ~Greater(loss(p[1], p[2]), MaxDrawdown(curve))
    BY <2>2, <2>4
  <2>6. \E p \in pairs : loss(p[1], p[2]) = MaxDrawdown(curve)
    <3>1. PICK j \in 1 .. Len(curve) :
            \E i \in 1 .. j : loss(i, j) = MaxDrawdown(curve)
      BY <2>4
    <3>2. PICK i \in 1 .. j : loss(i, j) = MaxDrawdown(curve)
      BY <3>1
    <3>3. <<i, j>> \in pairs /\ <<i, j>>[1] = i /\ <<i, j>>[2] = j
      BY <2>2
    <3> QED
      BY <3>2, <3>3
  <2> QED
    BY <2>5, <2>6 DEF DrawdownIsWorst
<1> QED
  BY <1>1, BacktestInvInit, BacktestInvNext, PTL DEF BacktestSpec
=============================================================================
