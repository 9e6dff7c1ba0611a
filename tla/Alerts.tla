--------------------------------- MODULE Alerts ---------------------------------
(* NotificationDispatcher (notifications/dispatcher.py): alerts to several   *)
(* channels at once, each tried on its own, and repeated ones held back for  *)
(* dedup_seconds.                                                            *)
EXTENDS Integers

CONSTANTS
  Titles, Channels,
  Quiet,           \* dedup_seconds
  Dispatches,      \* dispatch() calls that may overlap
  MaxClock         \* bound of the model

Severities == {20, 30, 40}      \* INFO, WARNING, CRITICAL
Critical   == 40
Keys       == Severities \X Titles
Never      == -1

ASSUME AlertsAssumption == Quiet \in Nat /\ MaxClock \in Nat

VARIABLES
  clock,       \* time.monotonic(): the host's uptime
  lastSent,    \* _last_sent, 0 where it has no entry
  sending,     \* sending[d]: the channels dispatch d still waits for
  tried        \* history: when an alert last went to the channels

alertVars == <<clock, lastSent, sending, tried>>

AlertsTypeOK ==
  /\ clock \in Nat
  /\ lastSent \in [Keys -> Nat]
  /\ sending \in [Dispatches -> SUBSET Channels]
  /\ tried \in [Keys -> Nat \cup {Never}]

AlertsInit ==
  /\ clock \in {0, Quiet}
  /\ lastSent = [k \in Keys |-> 0]
  /\ sending = [d \in Dispatches |-> {}]
  /\ tried = [k \in Keys |-> Never]

ClockTicks ==
  /\ clock < MaxClock
  /\ clock' = clock + 1
  /\ UNCHANGED <<lastSent, sending, tried>>

(* _should_send: CRITICAL always, another severity and title once in         *)
(* dedup_seconds.  It is stamped before anything is sent.                    *)
ShouldSend(alert) ==
  alert[1] >= Critical \/ clock - lastSent[alert] >= Quiet

StampedTitle(alert) ==      \* a tested mistake
  [k \in Keys |-> IF k[2] = alert[2] THEN clock ELSE lastSent[k]]

Stamped(alert) ==
  IF alert[1] >= Critical THEN lastSent
  ELSE [lastSent EXCEPT ![alert] = clock]

Dispatch(d, alert) ==
  /\ sending[d] = {}
  /\ ShouldSend(alert)
  /\ lastSent' = Stamped(alert)
  /\ tried' = [tried EXCEPT ![alert] = clock]
  /\ sending' = [sending EXCEPT ![d] = Channels]
  /\ UNCHANGED clock

(* _safe_send: each channel answers on its own, whether it took the alert,   *)
(* is not meant for its severity, or failed.                                 *)
Send(d, c) ==
  /\ c \in sending[d]
  /\ sending' = [sending EXCEPT ![d] = @ \ {c}]
  /\ UNCHANGED <<clock, lastSent, tried>>

AlertsNext ==
  \/ ClockTicks
  \/ \E d \in Dispatches, alert \in Keys : Dispatch(d, alert)
  \/ \E d \in Dispatches, c \in Channels : Send(d, c)

AlertsSpec == AlertsInit /\ [][AlertsNext]_alertVars

---------------------------------------------------------------------------
(* What the dispatcher holds back went to the channels less than             *)
(* dedup_seconds ago (or the host is that young), and a CRITICAL alert is    *)
(* never held back; nothing else goes out twice in that time.  Whether a     *)
(* channel took it is another matter: a failed alert is held back too.       *)
Recent(alert) == tried[alert] # Never /\ clock - tried[alert] < Quiet

HeldForACause ==
  \A alert \in Keys :
    /\ ~ShouldSend(alert) => /\ alert[1] # Critical
                             /\ Recent(alert) \/ clock < Quiet
    /\ ShouldSend(alert) /\ alert[1] # Critical => ~Recent(alert)
===============================================================================
