-------------------------------- MODULE Watchdog --------------------------------
(* WatchdogState and watchdog_check (ops/watchdog.py): how long the          *)
(* WebSocket has been away, the 95th percentile of the broker's latencies,   *)
(* the clock's drift.  Latencies are slow (above the threshold) or not.      *)
(* Nothing in src/ calls the recorders yet: losses and reconnects are taken  *)
(* to alternate, as a socket's do.                                           *)
EXTENDS Integers, Sequences, FiniteSets

CONSTANTS
  GapHalt,         \* ws_gap_halt_seconds
  Kept, Enough,    \* latencies kept (200), and needed for a verdict (20)
  LastSecond, MaxSlow      \* bounds of the model

ASSUME WatchdogAssumption ==
  /\ GapHalt \in Nat /\ Kept \in Nat \ {0} /\ Enough \in 1 .. Kept
  /\ LastSecond \in Nat /\ MaxSlow \in Nat

VARIABLES
  second,          \* time.monotonic()
  slow,            \* broker_latency_ms: TRUE for a slow one
  drifts,          \* clock_drift_ms is above its limit
  lostAt, backAt,  \* last_ws_disconnect_ts, ws_reconnect_ts
  feedUp, gap      \* history: the feed is there, and how long it has been
                   \* away, or was the last time

watchVars == <<second, slow, drifts, lostAt, backAt, feedUp, gap>>
Unset     == -1

WatchdogInit ==
  /\ second = 0 /\ slow = <<>> /\ drifts = FALSE
  /\ lostAt = Unset /\ backAt = Unset
  /\ feedUp = TRUE /\ gap = 0

SecondPasses ==
  /\ second < LastSecond
  /\ second' = second + 1
  /\ gap' = IF feedUp THEN gap ELSE gap + 1
  /\ UNCHANGED <<slow, drifts, lostAt, backAt, feedUp>>

SlowOnes == Cardinality({i \in DOMAIN slow : slow[i]})

(* A deque of bounded length: the oldest latency makes room.                 *)
RecordLatency(isSlow) ==
  /\ isSlow => SlowOnes < MaxSlow
  /\ slow' = IF Len(slow) < Kept THEN Append(slow, isSlow)
             ELSE Append(Tail(slow), isSlow)
  /\ UNCHANGED <<second, drifts, lostAt, backAt, feedUp, gap>>

(* (LoseAgain is a mistake the property is tested against.)                  *)
LoseAgain ==
  /\ feedUp
  /\ lostAt' = second
  /\ feedUp' = FALSE /\ gap' = 0
  /\ UNCHANGED <<second, slow, drifts, backAt>>

RecordDisconnect ==
  /\ feedUp
  /\ lostAt' = second /\ backAt' = Unset
  /\ feedUp' = FALSE /\ gap' = 0
  /\ UNCHANGED <<second, slow, drifts>>

RecordReconnect ==
  /\ ~feedUp
  /\ backAt' = second
  /\ feedUp' = TRUE
  /\ UNCHANGED <<second, slow, drifts, lostAt, gap>>

Drift ==
  /\ drifts' = ~drifts
  /\ UNCHANGED <<second, slow, lostAt, backAt, feedUp, gap>>

GapSeconds ==
  IF lostAt = Unset THEN 0
  ELSE LET end == IF backAt = Unset THEN second ELSE backAt
       IN  IF end > lostAt THEN end - lostAt ELSE 0

(* sorted(lat)[int(0.95 * (n - 1))], of n latencies of which k are slow: the *)
(* slow ones are the last k.                                                 *)
P95Index(n)   == (95 * (n - 1)) \div 100
P95Slow(n, k) == P95Index(n) >= n - k

Verdict ==
  IF drifts THEN "drift"
  ELSE IF GapSeconds > GapHalt THEN "gap"
  ELSE IF Len(slow) >= Enough /\ P95Slow(Len(slow), SlowOnes) THEN "latency"
  ELSE "healthy"

WatchdogNext ==
  \/ SecondPasses
  \/ \E isSlow \in BOOLEAN : RecordLatency(isSlow)
  \/ RecordDisconnect
  \/ RecordReconnect
  \/ Drift

WatchdogSpec == WatchdogInit /\ [][WatchdogNext]_watchVars

---------------------------------------------------------------------------
(* The watchdog speaks of a gap when, and only when, the feed's last absence *)
(* was too long, over or not (a long one that is over alarms until the feed  *)
(* is lost again), and of latency only when more than one call in twenty was *)
(* slow, of those it keeps.                                                  *)
VerdictIsTrue ==
  ~drifts => /\ (Verdict = "gap") <=> gap > GapHalt
             /\ Verdict = "latency" => 20 * SlowOnes > Len(slow)
===============================================================================
