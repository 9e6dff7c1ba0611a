------------------------------ MODULE Lifecycle ------------------------------
(* The process from boot to exit (app.py): Application.build, start, the API *)
(* server (api/server.py) that runs until a signal, stop; and the health     *)
(* checks (observability/health.py) it answers with meanwhile.               *)
EXTENDS Integers, Sequences

CONSTANTS
  Brokers,         \* brokers with credentials in the secrets store
  Probes,          \* GET /health requests that may overlap
  MaxRuns, MaxFlips        \* bounds of the model

ASSUME LifecycleAssumption == MaxRuns \in Nat /\ MaxFlips \in Nat

VARIABLES
  phase,       \* where launch() is
  visiting,    \* brokers start() or stop() has still to visit
  server,      \* uvicorn's task
  asked,       \* a signal has set _shutdown
  installed,   \* wait_for_shutdown has installed the signal handlers
  dryRun, checks, runs,    \* the --dry-run option, HealthMonitor.checks
  probe,       \* probe[p]: the checks that have answered, or Silent
  alive, flips,            \* components outside the process that answer
  runLog,      \* run_log: the last run's events
  built, killed, refused,  \* history of this run: it got past build(), was
                           \* killed, the database refused an event,
  cut, undisposed          \* an interrupt hit stop(), db.dispose raised in it

courseVars == <<phase, visiting, server, asked, installed>>
setupVars  == <<dryRun, checks, runs>>
worldVars  == <<alive, flips>>
logVars    == <<runLog, built, killed, refused, cut, undisposed>>
lifeVars   == <<courseVars, setupVars, probe, worldVars, logVars>>

Services == Brokers \cup {"db", "redis"}
Silent   == [waits |-> {}, bad |-> {}, open |-> FALSE]

LifecycleInit ==
  /\ phase = "down" /\ visiting = {} /\ server = "off"
  /\ asked = FALSE /\ installed = FALSE
  /\ dryRun = FALSE /\ checks = {} /\ runs = 0
  /\ probe = [p \in Probes |-> Silent]
  /\ alive = Services /\ flips = 0
  /\ runLog = <<>> /\ built = FALSE /\ killed = FALSE /\ refused = FALSE
  /\ cut = FALSE /\ undisposed = FALSE

(* The database, Redis and the brokers come and go on their own.             *)
Flip(c) ==
  /\ flips < MaxFlips
  /\ alive' = IF c \in alive THEN alive \ {c} ELSE alive \cup {c}
  /\ flips' = flips + 1
  /\ UNCHANGED <<courseVars, setupVars, probe, logVars>>

Launch ==
  /\ phase = "down" /\ runs < MaxRuns
  /\ phase' = "building" /\ asked' = FALSE /\ installed' = FALSE
  /\ dryRun' \in BOOLEAN /\ checks' = {} /\ runs' = runs + 1
  /\ runLog' = <<>> /\ built' = FALSE /\ killed' = FALSE /\ refused' = FALSE
  /\ cut' = FALSE /\ undisposed' = FALSE
  /\ UNCHANGED <<visiting, server, probe, worldVars>>

(* build() registers a check for the database and for every broker, and for  *)
(* Redis only if it answers now.                                             *)
Built ==
  /\ phase = "building"
  /\ phase' = "connecting" /\ visiting' = Brokers
  /\ checks' = {"db"} \cup Brokers \cup ({"redis"} \cap alive)
  /\ built' = TRUE
  /\ UNCHANGED <<server, asked, installed, dryRun, runs, probe, worldVars,
                 runLog, killed, refused, cut, undisposed>>

(* A bad configuration or passphrase, or an interrupt: nothing has been      *)
(* opened yet.                                                               *)
BuildFails ==
  /\ phase = "building"
  /\ phase' = "down"
  /\ UNCHANGED <<visiting, server, asked, installed, setupVars, probe,
                 worldVars, logVars>>

(* start() goes on without a broker that does not connect; its client stays  *)
(* open and will find the broker when it is back.                            *)
Connect(b) ==
  /\ phase = "connecting" /\ b \in visiting
  /\ visiting' = visiting \ {b}
  /\ UNCHANGED <<phase, server, asked, installed, setupVars, probe, worldVars,
                 logVars>>

(* launch()'s finally: whatever ends the run from here on, stop() follows.   *)
Stopping == phase' = "closing" /\ visiting' = Brokers

Record(event) ==
  /\ runLog' = IF "db" \in alive THEN Append(runLog, event) ELSE runLog
  /\ refused' = (refused \/ "db" \notin alive)
  /\ UNCHANGED <<built, killed, cut, undisposed>>

(* A booted process goes on to wait_for_shutdown without an await.           *)
Boot ==
  /\ phase = "connecting" /\ visiting = {}
  /\ Record("boot")
  /\ IF dryRun \/ "db" \notin alive
     THEN Stopping /\ UNCHANGED <<server, installed>>
     ELSE /\ phase' = "serving" /\ server' = "up" /\ installed' = TRUE
          /\ UNCHANGED visiting
  /\ UNCHANGED <<asked, setupVars, probe, worldVars>>

(* Until the handlers are there, asyncio.run answers SIGINT by cancelling    *)
(* launch() at its await, and CancelledError passes every "except Exception" *)
(* of start() and stop().  The commit of an event that is awaited just then  *)
(* takes place or not.                                                       *)
LogsOrNot(event) ==
  /\ \/ UNCHANGED runLog
     \/ visiting = {} /\ "db" \in alive /\ runLog' = Append(runLog, event)
  /\ UNCHANGED <<built, killed, refused, undisposed>>

(* (InterruptLeaves and LeaveServer are mistakes the properties are tested   *)
(* against; nothing else uses them.)                                         *)
InterruptLeaves ==
  /\ phase = "connecting"
  /\ phase' = "down" /\ visiting' = {}
  /\ LogsOrNot("boot")
  /\ UNCHANGED <<server, asked, installed, setupVars, probe, worldVars, cut>>

Interrupt ==
  /\ phase = "connecting"
  /\ Stopping
  /\ LogsOrNot("boot")
  /\ UNCHANGED <<server, asked, installed, setupVars, probe, worldVars, cut>>

(* In a dry run, after a boot that failed, or after an interrupted start the *)
(* next one ends stop() where it is.                                         *)
InterruptStop ==
  /\ phase = "closing" /\ ~installed
  /\ phase' = "down" /\ visiting' = {} /\ cut' = TRUE
  /\ LogsOrNot("shutdown")
  /\ UNCHANGED <<server, asked, installed, setupVars, probe, worldVars>>

(* With the handlers installed a signal sets _shutdown, which is noticed     *)
(* later; in stop() nobody looks at it any more.                             *)
Signal ==
  /\ phase = "serving" /\ installed /\ ~asked
  /\ asked' = TRUE
  /\ UNCHANGED <<phase, visiting, server, installed, setupVars, probe,
                 worldVars, logVars>>

(* serve_until: the server is told to exit, finishes the requests it has,    *)
(* and is waited for.                                                        *)
LeaveServer ==
  /\ server = "up" /\ asked
  /\ UNCHANGED lifeVars

TellServer ==
  /\ server = "up" /\ asked
  /\ server' = "exiting"
  /\ UNCHANGED <<phase, visiting, asked, installed, setupVars, probe,
                 worldVars, logVars>>

ServerEnds ==
  /\ server = "exiting" /\ \A p \in Probes : ~probe[p].open
  /\ server' = "off" /\ Stopping
  /\ UNCHANGED <<asked, installed, setupVars, probe, worldVars, logVars>>

(* The server gives up by itself, on a port in use: its SystemExit passes    *)
(* through serve_until and through launch's finally.                         *)
ServerDies ==
  /\ server = "up" /\ \A p \in Probes : ~probe[p].open
  /\ server' = "off" /\ Stopping
  /\ UNCHANGED <<asked, installed, setupVars, probe, worldVars, logVars>>

(* stop() closes every broker, connected or not, and swallows what fails;    *)
(* the pool is disposed of, and the last event opens a new one.              *)
Close(b) ==
  /\ phase = "closing" /\ b \in visiting
  /\ visiting' = visiting \ {b}
  /\ UNCHANGED <<phase, server, asked, installed, setupVars, probe, worldVars,
                 logVars>>

Stop ==
  /\ phase = "closing" /\ visiting = {}
  /\ Record("shutdown")
  /\ phase' = "down"
  /\ UNCHANGED <<visiting, server, asked, installed, setupVars, probe,
                 worldVars>>

(* db.dispose is not guarded: if it raises, the last event is not written.   *)
(* (redis.close, before it, swallows its own failures.)                      *)
DisposeFails ==
  /\ phase = "closing" /\ visiting = {}
  /\ phase' = "down" /\ undisposed' = TRUE
  /\ UNCHANGED <<visiting, server, asked, installed, setupVars, probe,
                 worldVars, runLog, built, killed, refused, cut>>

(* SIGKILL, a crash, or SIGTERM before the handlers are there.               *)
Kill ==
  /\ phase # "down"
  /\ phase' = "down" /\ visiting' = {} /\ server' = "off"
  /\ probe' = [p \in Probes |-> Silent]
  /\ killed' = TRUE
  /\ UNCHANGED <<asked, installed, setupVars, worldVars, runLog, built,
                 refused, cut, undisposed>>

(* HealthMonitor.run gathers the checks, which answer one by one; the answer *)
(* summarizes them (only the database takes the whole down).                 *)
Ask(p) ==
  /\ server = "up" /\ ~probe[p].open
  /\ probe' = [probe EXCEPT ![p] = [waits |-> checks, bad |-> {},
                                    open |-> TRUE]]
  /\ UNCHANGED <<courseVars, setupVars, worldVars, logVars>>

CheckAnswers(p, c) ==
  /\ c \in probe[p].waits
  /\ probe' = [probe EXCEPT ![p].waits = @ \ {c},
                            ![p].bad = IF c \in alive THEN @ ELSE @ \cup {c}]
  /\ UNCHANGED <<courseVars, setupVars, worldVars, logVars>>

Summary(bad) == IF "db" \in bad THEN "down"
                ELSE IF bad # {} THEN "degraded" ELSE "ok"

Answer(p) ==
  /\ probe[p].open /\ probe[p].waits = {}
  /\ probe' = [probe EXCEPT ![p] = Silent]
  /\ UNCHANGED <<courseVars, setupVars, worldVars, logVars>>

Progress ==
  \/ Built
  \/ \E b \in Brokers : Connect(b) \/ Close(b)
  \/ Boot
  \/ TellServer
  \/ ServerEnds
  \/ Stop

Answering ==
  \E p \in Probes : (\E c \in Services : CheckAnswers(p, c)) \/ Answer(p)

LifecycleNext ==
  \/ Launch
  \/ BuildFails
  \/ Interrupt \/ InterruptStop
  \/ Signal
  \/ ServerDies
  \/ DisposeFails
  \/ Kill
  \/ \E p \in Probes : Ask(p)
  \/ \E c \in Services : Flip(c)
  \/ Progress
  \/ Answering

LifecycleSpec == LifecycleInit /\ [][LifecycleNext]_lifeVars

---------------------------------------------------------------------------
(* The run log tells how a run went.  A process that serves has logged its   *)
(* boot and nothing else.  One that is gone has logged its shutdown last     *)
(* although its start was interrupted or failed, and after its boot if it    *)
(* served, whatever signals it got in whatever phase; unless it was killed,  *)
(* never got past build(), the database refused an event or raised when it   *)
(* was disposed of, or (of one that never served) an interrupt hit stop().   *)
LogTellsTheRun ==
  /\ phase = "serving" => runLog = <<"boot">>
  /\ phase = "down" /\ built /\ ~killed /\ ~refused /\ ~undisposed =>
       /\ installed => runLog = <<"boot", "shutdown">>
       /\ ~cut => runLog \in {<<"shutdown">>, <<"boot", "shutdown">>}

(* A signal, once handled, ends the process: the server's open requests are  *)
(* answered, every broker is closed, whatever else happens meanwhile.        *)
ShutdownEnds == (asked /\ phase = "serving") ~> (phase = "down")
===============================================================================
