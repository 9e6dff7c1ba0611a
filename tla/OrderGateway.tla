---------------------------- MODULE OrderGateway ----------------------------
(* The order path of execution/gateway.py: submit() and the TWAP task on the *)
(* sending side, on_broker_update() on the receiving side, the journal's     *)
(* order table they both write, and the broker adapters they talk through    *)
(* (brokers/dhan, brokers/groww).  Everything runs on one asyncio loop, so   *)
(* an action is the code between two awaits.  The broker itself and the      *)
(* network are external.                                                     *)
EXTENDS OrderLifecycle, Sequences, FiniteSets

CONSTANTS
  Signals,        \* the signals handed to submit(), each once
  Sliced,         \* those whose quantity _needs_slicing
  NSlices,        \* sub-orders of a sliced order (10 or 11 in the code)
  FNO,            \* signals on derivatives: no failover, and Dhan's adapter
                  \* has no exchange segment for them
  Pollers,        \* callers of on_broker_update besides the order feed
  Qty,            \* the quantity of an order
  Attempts,       \* POSTs the Dhan client makes before it gives up (3)
  MaxCrashes,     \* bound on process crashes
  MaxDbFailures,  \* bound on journal transactions that fail
  Lossy,          \* the network may time out and the feed may lose reports
  BrokerSteps     \* <<from, to>> status changes the broker performs

Orders   == (Signals \X {0}) \cup (Sliced \X (1 .. NSlices))
Whole    == Signals \X {0}
Handlers == {"feed"} \cup Pollers
Rec      == Record(Qty)

ASSUME GatewayAssumption ==
  /\ Sliced \subseteq Signals /\ FNO \subseteq Signals
  /\ {NSlices, Qty, Attempts} \subseteq Nat \ {0}
  /\ {MaxCrashes, MaxDbFailures} \subseteq Nat
  /\ Lossy \in BOOLEAN
  /\ "feed" \notin Pollers
  /\ BrokerSteps \subseteq Active \X (Status \ {"NEW", "PENDING"})

VARIABLES
  phase,      \* phase[s]: where submit() (or its TWAP task) is for s
  slice,      \* slice[s]: the sub-order the TWAP task is at; 0 before it
  via,        \* via[s]: the broker the router chose
  signalRow,  \* signalRow[s]: the journal's signal row, with its verdict
  send,       \* send[o]: where _send is for order o
  image,      \* image[o]: values _send's second upsert wrote, uncommitted
  seen,       \* seen[o]: the row as that transaction read it
  callSeen,   \* callSeen[h]: the same for on_broker_update's transaction
  mem,        \* mem[o]: the Order object the sending side holds
  row,        \* row[o]: the journal's row, as committed
  tracked,    \* keys of _open_orders
  reply,      \* reply[o]: the POST in flight or the answer on its way back
  tries,      \* tries[o]: POSTs made
  late,       \* late[o]: a timed-out POST may still reach the broker
  br,         \* br[o]: the broker's own record
  feed,       \* reports on the order-update socket, oldest first
  hand,       \* hand[h]: where on_broker_update is, called by h
  committed,  \* signals whose exposure RiskEngine.commit has added
  crashes,
  dbFailures, \* journal transactions that failed so far
              \* Orders of which, kept only for the properties,
  unsaved,    \* an upsert of its Order object was rolled back, and no later
              \* one has brought the row up to date
  missed,     \* a report of it was lost, or its handling failed
  contested   \* two copies of its row that could differ were in use at once

submitVars == <<phase, slice, via, signalRow, committed>>
orderVars  == <<mem, row, tracked>>
wireVars   == <<reply, tries, late>>
brokerVars == <<br, feed>>
txVars     == <<image, seen, callSeen>>
history    == <<dbFailures, unsaved, missed, contested>>
vars == <<submitVars, send, txVars, orderVars, wireVars, brokerVars, hand,
          crashes, history>>

Idle == [pc |-> "idle"]
Handling ==
  [pc : {"polled", "lookup", "write", "commit", "writeCopy", "commitCopy"},
   o : Orders, rec : Rec]

Ended == {"done", "refused", "unroutable", "raised", "lost"}
Phase == {"idle", "recording", "refusing", "routing", "failover",
          "inserting", "sending", "slicing", "sleeping"} \cup Ended

SubmitTypeOK ==
  /\ phase \in [Signals -> Phase]
  /\ slice \in [Signals -> 0 .. NSlices]
  /\ via \in [Signals -> {"none", "primary", "failover"}]
  /\ signalRow \in [Signals -> {"none", "approved", "refused"}]
  /\ committed \in SUBSET Signals

OrderTypeOK ==
  /\ send \in [Orders -> {"none", "write", "await", "result", "commit",
                          "sent", "raised", "lost"}]
  /\ image \in [Orders -> Rec \cup {Absent}]
  /\ seen \in [Orders -> Rec \cup {Absent}]
  /\ callSeen \in [Handlers -> Rec \cup {Absent}]
  /\ mem \in [Orders -> Rec \cup {Absent}]
  /\ row \in [Orders -> Rec \cup {Absent}]
  /\ tracked \in SUBSET Whole

WireTypeOK ==
  /\ reply \in [Orders -> {"none", "waiting", "refused"} \cup Status]
  /\ tries \in [Orders -> 0 .. Attempts]
  /\ late \in [Orders -> BOOLEAN]
  /\ br \in [Orders -> Rec \cup {Absent}]
  /\ feed \in Seq([o : Orders, rec : Rec])

HandTypeOK ==
  /\ hand \in [Handlers -> {Idle} \cup Handling]
  /\ crashes \in 0 .. MaxCrashes

HistoryTypeOK ==
  /\ dbFailures \in 0 .. MaxDbFailures
  /\ {unsaved, missed, contested} \subseteq SUBSET Orders

TypeOK == /\ SubmitTypeOK /\ OrderTypeOK /\ WireTypeOK /\ HandTypeOK
          /\ HistoryTypeOK

Init ==
  /\ phase = [s \in Signals |-> "idle"]
  /\ slice = [s \in Signals |-> 0]
  /\ via = [s \in Signals |-> "none"]
  /\ signalRow = [s \in Signals |-> "none"]
  /\ committed = {}
  /\ send = [o \in Orders |-> "none"]
  /\ image = [o \in Orders |-> Absent]
  /\ seen = [o \in Orders |-> Absent]
  /\ callSeen = [h \in Handlers |-> Absent]
  /\ mem = [o \in Orders |-> Absent]
  /\ row = [o \in Orders |-> Absent]
  /\ tracked = {}
  /\ reply = [o \in Orders |-> "none"]
  /\ tries = [o \in Orders |-> 0]
  /\ late = [o \in Orders |-> FALSE]
  /\ br = [o \in Orders |-> Absent]
  /\ feed = <<>>
  /\ hand = [h \in Handlers |-> Idle]
  /\ crashes = 0
  /\ dbFailures = 0
  /\ unsaved = {} /\ missed = {} /\ contested = {}

-----------------------------------------------------------------------------
(* Journal transactions                                                      *)

(* Who has a copy of order o's row that it read or is about to write: _send  *)
(* once its second upsert has taken the values, and a call of                *)
(* on_broker_update, with the Order object's values or a copy of its own.    *)
HasCopy(h, o) == hand[h].pc \in {"commit", "writeCopy", "commitCopy"}
                 /\ hand[h].o = o
Overlap(o, h) == send[o] = "commit"
                 \/ \E other \in Handlers \ {h} : HasCopy(other, o)

(* One more copy of it is in use from now on, which clashes with another or  *)
(* not.                                                                      *)
Contest(o, clash) ==
  /\ contested' = IF clash THEN contested \cup {o} ELSE contested
  /\ UNCHANGED <<dbFailures, unsaved, missed>>

(* A commit brings an unsaved order's row up to date, or does not.           *)
Saved(o) ==
  /\ unsaved' = IF row'[o] = mem[o] THEN unsaved \ {o} ELSE unsaved
  /\ UNCHANGED <<dbFailures, missed, contested>>

(* A statement or the commit raises: the session rolls back and re-raises.   *)
RollBack == /\ dbFailures < MaxDbFailures
            /\ dbFailures' = dbFailures + 1
            /\ UNCHANGED contested

-----------------------------------------------------------------------------
(* submit()                                                                  *)

(* risk.check: its rules are module RiskEngine's; either verdict is possible *)
(* here.                                                                     *)
RiskCheck(s) ==
  /\ phase[s] = "idle"
  /\ \E next \in {"recording", "refusing"} :
       phase' = [phase EXCEPT ![s] = next]
  /\ UNCHANGED <<slice, via, signalRow, committed, send, txVars, orderVars,
                 wireVars, brokerVars, hand, crashes, history>>

(* journal.record_signal, then the early returns: refused, or the instrument *)
(* was never registered with the gateway.                                    *)
RecordSignal(s) ==
  /\ \/ /\ phase[s] = "recording"
        /\ signalRow' = [signalRow EXCEPT ![s] = "approved"]
        /\ \E next \in {"routing", "unroutable"} :
             phase' = [phase EXCEPT ![s] = next]
     \/ /\ phase[s] = "refusing"
        /\ signalRow' = [signalRow EXCEPT ![s] = "refused"]
        /\ phase' = [phase EXCEPT ![s] = "refused"]
  /\ UNCHANGED <<slice, via, committed, send, txVars, orderVars, wireVars,
                 brokerVars, hand, crashes, history>>

(* SmartOrderRouter.choose awaits the primary's health, then (cash equity    *)
(* only) the failover's.  Each answer is whatever the broker says just then. *)
ChoosePrimary(s) ==
  /\ phase[s] = "routing"
  /\ \/ /\ via' = [via EXCEPT ![s] = "primary"]
        /\ phase' = [phase EXCEPT ![s] = "inserting"]
     \/ /\ phase' = [phase EXCEPT ![s] = IF s \in FNO THEN "unroutable"
                                                      ELSE "failover"]
        /\ UNCHANGED via
  /\ UNCHANGED <<slice, signalRow, committed, send, txVars, orderVars,
                 wireVars, brokerVars, hand, crashes, history>>

ChooseFailover(s) ==
  /\ phase[s] = "failover"
  /\ \/ /\ via' = [via EXCEPT ![s] = "failover"]
        /\ phase' = [phase EXCEPT ![s] = "inserting"]
     \/ phase' = [phase EXCEPT ![s] = "unroutable"] /\ UNCHANGED via
  /\ UNCHANGED <<slice, signalRow, committed, send, txVars, orderVars,
                 wireVars, brokerVars, hand, crashes, history>>

(* journal.upsert_order of a row that no other transaction writes: insert or *)
(* update.  (InsertOnly, RejectedUnlessOpen and the like are the mistakes    *)
(* that the properties below are tested against; no action uses them.)       *)
InsertOnly(o, rec) ==
  row' = [row EXCEPT ![o] = IF row[o] = Absent THEN rec ELSE row[o]]
Upsert(o, rec) == row' = [row EXCEPT ![o] = rec]

(* The same when another transaction may have committed since this one read  *)
(* the row as "old": the session's flush writes the columns that the order   *)
(* changes relative to what it read, and leaves the others alone.            *)
UpdateColumns(o, old, rec) ==
  row' = [row EXCEPT ![o] =
            IF row[o] = Absent THEN rec
            ELSE [st     |-> IF rec.st = old.st THEN row[o].st ELSE rec.st,
                  filled |-> IF rec.filled = old.filled THEN row[o].filled
                                                        ELSE rec.filled]]

(* journal.upsert_order of a new order, and _send's first transition, which  *)
(* follows the insert without an await in between.                           *)
StartOrder(o) ==
  /\ Upsert(o, [st |-> "NEW", filled |-> 0])
  /\ mem' = [mem EXCEPT ![o] = [st |-> "PENDING", filled |-> 0]]
  /\ send' = [send EXCEPT ![o] = "write"]

(* The parent of a sliced order keeps the status NEW: create_task starts the *)
(* TWAP task and submit goes on to commit the whole approved quantity.       *)
InsertOrder(s) ==
  /\ phase[s] = "inserting"
  /\ tracked' = tracked \cup {<<s, 0>>}
  /\ \/ /\ s \notin Sliced
        /\ StartOrder(<<s, 0>>)
        /\ phase' = [phase EXCEPT ![s] = "sending"]
        /\ UNCHANGED <<slice, committed>>
     \/ /\ s \in Sliced
        /\ Upsert(<<s, 0>>, [st |-> "NEW", filled |-> 0])
        /\ mem' = [mem EXCEPT ![<<s, 0>>] = [st |-> "NEW", filled |-> 0]]
        /\ phase' = [phase EXCEPT ![s] = "slicing"]
        /\ slice' = [slice EXCEPT ![s] = 1]
        /\ committed' = committed \cup {s}
        /\ UNCHANGED send
  /\ UNCHANGED <<via, signalRow, txVars, wireVars, brokerVars, hand, crashes,
                 history>>

(* One turn of _twap_slice: a sub-order of its own, never in _open_orders.   *)
InsertSlice(s) ==
  /\ phase[s] = "slicing"
  /\ StartOrder(<<s, slice[s]>>)
  /\ phase' = [phase EXCEPT ![s] = "sending"]
  /\ UNCHANGED <<slice, via, signalRow, committed, txVars, tracked, wireVars,
                 brokerVars, hand, crashes, history>>

(* record_signal or the insert of an order fails and raises out of submit or *)
(* the TWAP task: no row, and nothing tracked.                               *)
SubmitRollsBack(s) ==
  /\ phase[s] \in {"recording", "refusing", "inserting", "slicing"}
  /\ RollBack
  /\ phase' = [phase EXCEPT ![s] = "raised"]
  /\ UNCHANGED <<slice, via, signalRow, committed, send, txVars, orderVars,
                 wireVars, brokerVars, hand, crashes, unsaved, missed>>

Wake(s) ==
  /\ phase[s] = "sleeping"
  /\ phase' = [phase EXCEPT ![s] = "slicing"]
  /\ slice' = [slice EXCEPT ![s] = @ + 1]
  /\ UNCHANGED <<via, signalRow, committed, send, txVars, orderVars, wireVars,
                 brokerVars, hand, crashes, history>>

-----------------------------------------------------------------------------
(* _send() and the adapters' place_order()                                   *)

(* What follows _send: submit commits the exposure and returns, the TWAP     *)
(* task sleeps or ends.                                                      *)
Return(o) ==
  /\ send' = [send EXCEPT ![o] = "sent"]
  /\ phase' = [phase EXCEPT ![o[1]] =
                 IF o[2] \in {0, NSlices} THEN "done" ELSE "sleeping"]
  /\ committed' = committed \cup {s \in {o[1]} : o[2] = 0}

(* An exception that _send does not catch ends submit, or the task.          *)
Swallow(o) == /\ send' = [send EXCEPT ![o] = "raised"]
              /\ UNCHANGED <<phase, committed>>
Raise(o) ==
  /\ send' = [send EXCEPT ![o] = "raised"]
  /\ phase' = [phase EXCEPT ![o[1]] = "raised"]
  /\ UNCHANGED committed

(* The upsert of PENDING, then place_order up to its POST.  Nobody else      *)
(* writes the row yet: the broker has not heard of the order.                *)
WritePending(o) ==
  /\ send[o] = "write"
  /\ Upsert(o, mem[o])
  /\ \/ /\ o[1] \notin FNO
        /\ send' = [send EXCEPT ![o] = "await"]
        /\ reply' = [reply EXCEPT ![o] = "waiting"]
        /\ tries' = [tries EXCEPT ![o] = 1]
        /\ UNCHANGED <<phase, committed>>
     \/ o[1] \in FNO /\ Raise(o) /\ UNCHANGED <<reply, tries>>
  /\ UNCHANGED <<slice, via, signalRow, txVars, mem, tracked, late, brokerVars,
                 hand, crashes, history>>

(* The POST arrives.  Brokers reject duplicates of a client_order_id, so     *)
(* only the first one can create the order; the broker may also refuse that. *)
(* Dhan's adapter decodes the status in the answer, of a market order        *)
(* perhaps FILLED; Groww's reports every acceptance as PENDING.              *)
AckStatus(s) ==
  IF via[s] = "primary" THEN {"PENDING", "OPEN", "REJECTED", "FILLED"}
                        ELSE {"PENDING"}
Accepted(st) == [st |-> st, filled |-> IF st = "FILLED" THEN Qty ELSE 0]
Report(o, rec) ==
  feed' = IF via[o[1]] = "primary" THEN Append(feed, [o |-> o, rec |-> rec])
                                   ELSE feed

BrokerAccepts(o) ==
  /\ br[o] = Absent
  /\ \E st \in AckStatus(o[1]) :
       LET rec == Accepted(st) IN
       /\ br' = [br EXCEPT ![o] = rec]
       /\ Report(o, rec)
       /\ \/ reply[o] = "waiting" /\ reply' = [reply EXCEPT ![o] = st]
                                  /\ UNCHANGED late
          \/ late[o] /\ late' = [late EXCEPT ![o] = FALSE]
                     /\ UNCHANGED reply
  /\ UNCHANGED <<submitVars, send, txVars, orderVars, tries, hand, crashes,
                 history>>

BrokerRefuses(o) ==
  /\ reply[o] = "waiting"
  /\ reply' = [reply EXCEPT ![o] = "refused"]
  /\ UNCHANGED <<submitVars, send, txVars, orderVars, tries, late, brokerVars,
                 hand, crashes, history>>

BrokerProgress(o) ==
  /\ br[o] # Absent
  /\ \E st \in Status, filled \in 0 .. Qty :
       LET rec == [st |-> st, filled |-> filled] IN
       /\ <<br[o].st, st>> \in BrokerSteps
       /\ CASE st = "FILLED"           -> filled = Qty
            [] st = "PARTIALLY_FILLED" -> br[o].filled < filled /\ filled < Qty
            [] OTHER                   -> filled = br[o].filled
       /\ br' = [br EXCEPT ![o] = rec]
       /\ Report(o, rec)
  /\ UNCHANGED <<submitVars, send, txVars, orderVars, wireVars, hand, crashes,
                 history>>

(* How place_order ends: the status of the ack, or an OrderRejectedError.    *)
RejectedUnlessOpen(r) == IF r \in {"refused", "PENDING"} THEN "REJECTED" ELSE r
Outcome(r) == IF r = "refused" THEN "REJECTED" ELSE r

(* The answer is back: a legal move goes on to the second upsert, an illegal *)
(* one (a report overtook the answer) raises out of submit.                  *)
Resolve(o, st) ==
  \/ /\ Legal(mem[o].st, st)
     /\ mem' = [mem EXCEPT ![o].st = st]
     /\ send' = [send EXCEPT ![o] = "result"]
     /\ UNCHANGED <<phase, committed>>
  \/ /\ ~Legal(mem[o].st, st)
     /\ Raise(o) /\ UNCHANGED mem

Answered(o) == send[o] = "await" /\ reply[o] # "waiting"

AnswerArrives(o) ==
  /\ Answered(o)
  /\ Resolve(o, Outcome(reply[o]))
  /\ reply' = [reply EXCEPT ![o] = "none"]
  /\ UNCHANGED <<slice, via, signalRow, txVars, row, tracked, tries, late,
                 brokerVars, hand, crashes, history>>

(* ReadTimeout, 5xx or 429.  The POST may have been lost, may still arrive,  *)
(* or may have been served and its answer lost.  Dhan's client tries again,  *)
(* Groww's does not; the last failure becomes an OrderRejectedError.         *)
OneTryMore(o) == Attempts + 1
MaxTries(o) == IF via[o[1]] = "primary" THEN Attempts ELSE 1

CancelledLocally == "CANCELLED"
GivenUp == "REJECTED"

Timeout(o) ==
  /\ Lossy /\ send[o] = "await"
  /\ \/ late' = [late EXCEPT ![o] = @ \/ reply[o] = "waiting"]
     \/ UNCHANGED late
  /\ \/ /\ tries[o] < MaxTries(o)
        /\ tries' = [tries EXCEPT ![o] = @ + 1]
        /\ reply' = [reply EXCEPT ![o] = "waiting"]
        /\ UNCHANGED <<mem, send, phase, committed>>
     \/ /\ tries[o] = MaxTries(o)
        /\ reply' = [reply EXCEPT ![o] = "none"]
        /\ Resolve(o, GivenUp)
        /\ UNCHANGED tries
  /\ UNCHANGED <<slice, via, signalRow, txVars, row, tracked, brokerVars,
                 hand, crashes, history>>

(* A failure that is no BrokerError: another httpx error, an empty 2xx body. *)
OtherFailure(o) ==
  /\ Lossy /\ send[o] = "await"
  /\ Raise(o)
  /\ reply' = [reply EXCEPT ![o] = "none"]
  /\ \/ late' = [late EXCEPT ![o] = @ \/ reply[o] = "waiting"]
     \/ UNCHANGED late
  /\ UNCHANGED <<slice, via, signalRow, txVars, orderVars, tries, brokerVars,
                 hand, crashes, history>>

(* The second upsert: the values are taken from the Order object when the    *)
(* SELECT returns and become visible when the transaction commits.           *)
StageResult(o) ==
  /\ send[o] = "result"
  /\ image' = [image EXCEPT ![o] = mem[o]]
  /\ seen' = [seen EXCEPT ![o] = row[o]]
  /\ UNCHANGED callSeen
  /\ send' = [send EXCEPT ![o] = "commit"]
  /\ Contest(o, \E h \in Handlers : HasCopy(h, o))
  /\ UNCHANGED <<submitVars, orderVars, wireVars, brokerVars, hand, crashes>>

CommitResult(o) ==
  /\ send[o] = "commit"
  /\ UpdateColumns(o, seen[o], image[o])
  /\ image' = [image EXCEPT ![o] = Absent]
  /\ seen' = [seen EXCEPT ![o] = Absent]
  /\ UNCHANGED callSeen
  /\ Return(o)
  /\ Saved(o)
  /\ UNCHANGED <<slice, via, signalRow, mem, tracked, wireVars, brokerVars,
                 hand, crashes>>

(* One of _send's upserts fails (those of its except branches included).     *)
(* This is no BrokerError, so it leaves submit or the TWAP task; the Order   *)
(* object keeps the status it has moved to.                                  *)
SendRollsBack(o) ==
  /\ send[o] \in {"write", "result", "commit"}
  /\ RollBack
  /\ Raise(o)
  /\ image' = [image EXCEPT ![o] = Absent]
  /\ seen' = [seen EXCEPT ![o] = Absent]
  /\ unsaved' = unsaved \cup {o}
  /\ UNCHANGED <<slice, via, signalRow, callSeen, orderVars, wireVars,
                 brokerVars, hand, crashes, missed>>

-----------------------------------------------------------------------------
(* on_broker_update()                                                        *)

(* Order-update socket: DhanOrderUpdateFeed awaits on_message for each       *)
(* report before it reads the next.  Reports sent while it is disconnected,  *)
(* or backs off after a call that raised, are lost: a reconnect replays      *)
(* nothing.                                                                  *)
InFeed == {feed[i].o : i \in DOMAIN feed}

LoseReport ==
  /\ Lossy \/ dbFailures > 0
  /\ feed # <<>>
  /\ feed' = Tail(feed)
  /\ missed' = missed \cup {Head(feed).o}
  /\ UNCHANGED <<submitVars, send, txVars, orderVars, wireVars, br, hand,
                 crashes, dbFailures, unsaved, contested>>

(* A poll of the broker's order book: the answer can be stale on arrival.    *)
Poll(h, o) ==
  /\ h \in Pollers /\ hand[h] = Idle /\ br[o] # Absent
  /\ hand' = [hand EXCEPT ![h] = [pc |-> "polled", o |-> o, rec |-> br[o]]]
  /\ UNCHANGED <<submitVars, send, txVars, orderVars, wireVars, brokerVars,
                 crashes, history>>

(* The call itself, up to its first await: a tracked order takes the update  *)
(* if the transition is legal and drops it otherwise; an untracked one goes  *)
(* to the journal.                                                           *)
Deliver(h, o, rec) ==
  \/ /\ o \in tracked /\ Legal(mem[o].st, rec.st)
     /\ mem' = [mem EXCEPT ![o] = rec]
     /\ hand' = [hand EXCEPT ![h] = [pc |-> "write", o |-> o, rec |-> rec]]
  \/ /\ o \in tracked /\ ~Legal(mem[o].st, rec.st)
     /\ hand' = [hand EXCEPT ![h] = Idle]
     /\ UNCHANGED mem
  \/ /\ o \notin tracked
     /\ hand' = [hand EXCEPT ![h] = [pc |-> "lookup", o |-> o, rec |-> rec]]
     /\ UNCHANGED mem

Receive(h) ==
  /\ \/ /\ h = "feed" /\ hand[h] = Idle /\ feed # <<>>
        /\ Deliver(h, Head(feed).o, Head(feed).rec)
        /\ feed' = Tail(feed)
     \/ /\ hand[h].pc = "polled"
        /\ Deliver(h, hand[h].o, hand[h].rec)
        /\ UNCHANGED feed
  /\ UNCHANGED <<submitVars, send, txVars, row, tracked, wireVars, br,
                 crashes, history>>

(* journal.get_order returned: the rehydrated copy takes the update, unless  *)
(* there is no row or the move is illegal.  The copy is not tracked, and     *)
(* knows nothing of an Order object that is ahead of the row.                *)
Rehydrate(h) ==
  /\ hand[h].pc = "lookup"
  /\ LET o == hand[h].o  rec == hand[h].rec IN
     hand' = [hand EXCEPT ![h] =
                IF row[o] # Absent /\ Legal(row[o].st, rec.st)
                THEN [pc |-> "writeCopy", o |-> o, rec |-> rec] ELSE Idle]
     /\ Contest(o, /\ hand'[h] # Idle
                   /\ \/ Overlap(o, h)
                      \/ mem[o] # Absent /\ mem[o].st # row[o].st)
  /\ UNCHANGED <<submitVars, send, txVars, orderVars, wireVars, brokerVars,
                 crashes>>

StageUpdate(h) ==
  /\ LET o == hand[h].o IN
     \/ /\ hand[h].pc = "write"
        /\ hand' = [hand EXCEPT ![h] =
                      [pc |-> "commit", o |-> o, rec |-> mem[o]]]
        /\ Contest(o, Overlap(o, h))
     \/ /\ hand[h].pc = "writeCopy"
        /\ hand' = [hand EXCEPT ![h].pc = "commitCopy"]
        /\ UNCHANGED history
  /\ callSeen' = [callSeen EXCEPT ![h] = row[hand[h].o]]
  /\ UNCHANGED <<submitVars, send, image, seen, orderVars, wireVars,
                 brokerVars, crashes>>

ForgetAlways(o, st)  == tracked' = tracked \ {o}
Forget(o, st) ==
  tracked' = IF st \in Terminal THEN tracked \ {o} ELSE tracked

(* The commit, then the pop: it tests the object's status of that moment.    *)
CommitUpdate(h) ==
  LET o == hand[h].o IN
  /\ hand[h].pc \in {"commit", "commitCopy"}
  /\ UpdateColumns(o, callSeen[h], hand[h].rec)
  /\ Forget(o, IF hand[h].pc = "commit" THEN mem[o].st ELSE hand[h].rec.st)
  /\ hand' = [hand EXCEPT ![h] = Idle]
  /\ callSeen' = [callSeen EXCEPT ![h] = Absent]
  /\ Saved(o)
  /\ UNCHANGED <<submitVars, send, image, seen, mem, wireVars, brokerVars,
                 crashes>>

(* The lookup or the upsert fails.  The exception leaves on_broker_update;   *)
(* the object, already moved, stays, tracked even when it is terminal.  The  *)
(* feed's loop catches it, drops the connection and whatever it still held,  *)
(* and reconnects after its backoff.                                         *)
HandleRollsBack(h) ==
  LET o == hand[h].o IN
  /\ hand[h].pc \in {"lookup", "write", "commit", "writeCopy", "commitCopy"}
  /\ RollBack
  /\ hand' = [hand EXCEPT ![h] = Idle]
  /\ callSeen' = [callSeen EXCEPT ![h] = Absent]
  /\ unsaved' = IF hand[h].pc \in {"write", "commit"} THEN unsaved \cup {o}
                                                      ELSE unsaved
  /\ \/ /\ h = "feed"
        /\ missed' = missed \cup {o} \cup InFeed
        /\ feed' = <<>>
     \/ /\ h # "feed"
        /\ missed' = missed \cup {o}
        /\ UNCHANGED feed
  /\ UNCHANGED <<submitVars, send, image, seen, orderVars, wireVars, br,
                 crashes>>

-----------------------------------------------------------------------------
(* The process itself                                                        *)

(* A crash and restart: objects, tasks, sockets and transactions are gone;   *)
(* rows, the broker and POSTs in flight are not.                             *)
(* Nothing at start-up reads the open orders back.                           *)
Crash ==
  /\ crashes < MaxCrashes /\ crashes' = crashes + 1
  /\ phase' = [s \in Signals |-> IF phase[s] \in {"idle"} \cup Ended
                                 THEN phase[s] ELSE "lost"]
  /\ send' = [o \in Orders |->
                IF send[o] \in {"write", "await", "result", "commit"}
                THEN "lost" ELSE send[o]]
  /\ image' = [o \in Orders |-> Absent]
  /\ seen' = [o \in Orders |-> Absent]
  /\ callSeen' = [h \in Handlers |-> Absent]
  /\ mem' = [o \in Orders |-> Absent]
  /\ tracked' = {}
  /\ late' = [o \in Orders |-> late[o] \/ reply[o] = "waiting"]
  /\ reply' = [o \in Orders |-> "none"]
  /\ feed' = <<>>
  /\ hand' = [h \in Handlers |-> Idle]
  /\ committed' = {}
  /\ unsaved' = {}
  /\ missed' = missed \cup InFeed
                     \cup {o \in Orders : \E h \in Handlers :
                                            hand[h] # Idle /\ hand[h].o = o}
  /\ UNCHANGED <<slice, via, signalRow, row, tries, br, dbFailures, contested>>

SubmitStep(s) == \/ RiskCheck(s) \/ RecordSignal(s) \/ ChoosePrimary(s)
                 \/ ChooseFailover(s) \/ InsertOrder(s) \/ InsertSlice(s)
                 \/ Wake(s)
SendStep(o)   == \/ WritePending(o) \/ AnswerArrives(o) \/ StageResult(o)
                 \/ CommitResult(o)
HandleStep(h) == \/ Receive(h) \/ Rehydrate(h) \/ StageUpdate(h)
                 \/ CommitUpdate(h)
BrokerStep(o) == BrokerAccepts(o) \/ BrokerRefuses(o) \/ BrokerProgress(o)
NetworkFails(o) == Timeout(o) \/ OtherFailure(o)
JournalFails == \/ \E s \in Signals : SubmitRollsBack(s)
                \/ \E o \in Orders : SendRollsBack(o)
                \/ \E h \in Handlers : HandleRollsBack(h)

Next ==
  \/ \E s \in Signals : SubmitStep(s)
  \/ \E o \in Orders : SendStep(o) \/ BrokerStep(o) \/ NetworkFails(o)
  \/ \E h \in Handlers : HandleStep(h) \/ \E o \in Orders : Poll(h, o)
  \/ LoseReport \/ JournalFails \/ Crash

Spec == Init /\ [][Next]_vars

(* The event loop runs every ready task, and the health, POST and journal    *)
(* calls come to an end (a pooled connection is waited for at most the       *)
(* pool's timeout; that failure is one of JournalFails).  Pollers, crashes,  *)
(* losses and failures are never forced.                                     *)
Fairness ==
  /\ \A s \in Signals : WF_vars(phase[s] # "idle" /\ SubmitStep(s))
  /\ \A o \in Orders : WF_vars(SendStep(o))
                       /\ WF_vars(BrokerAccepts(o) \/ BrokerRefuses(o))
  /\ \A h \in Handlers : WF_vars(HandleStep(h))

FairSpec == Spec /\ Fairness

-----------------------------------------------------------------------------
(* Properties                                                                *)

(* The journal keeps the lifecycle.  The committed status of every submitted *)
(* order only moves forward along chains of ALLOWED transitions, although    *)
(* _send and on_broker_update both write it, each decides on an object that  *)
(* the other may have moved meanwhile, and transactions fail; until two      *)
(* copies of its row that could differ are in use at once.                   *)
Ledger == INSTANCE OrderLedger
            WITH Orders <- Whole, status <- [o \in Whole |-> row[o].st],
                 disputed <- contested \cap Whole
JournalRefinesLedger == Ledger!Spec

(* The journal is never ahead of the broker: no row claims a status or a     *)
(* filled quantity the broker has not reached, and a row that says an order  *)
(* ended (other than REJECTED, which the gateway may decide alone) says how  *)
(* the broker ended it.  Through crashes, losses and overlapping writes.     *)
(* Not that the quantity is the broker's final one: two transactions that    *)
(* overlap can leave FILLED from one beside the filled_qty of the other.     *)
MirrorsBroker ==
  \A o \in Orders :
    row[o].st \notin {"NONE", "NEW", "PENDING", "REJECTED"} =>
      /\ br[o] # Absent
      /\ row[o].filled <= br[o].filled
      /\ row[o].st \in Terminal => row[o].st = br[o].st

(* Write-ahead: whatever POST is on its way to the broker, or order exists   *)
(* there, has a journal row past NEW and an approved signal row, so a        *)
(* restarted process can find it.                                            *)
SentIsJournaled ==
  \A o \in Orders :
    br[o] # Absent \/ late[o] \/ reply[o] = "waiting" =>
      row[o].st \notin {"NONE", "NEW"} /\ signalRow[o[1]] = "approved"

Writing(h, o) == hand[h].pc \in {"write", "commit", "writeCopy", "commitCopy"}
                 /\ hand[h].o = o
Quiet(o) == send[o] \notin {"write", "result", "commit"}
            /\ \A h \in Handlers : ~Writing(h, o)

Undisturbed(o) == o \notin contested \cup unsaved

(* Memory and journal agree about a submitted order whenever no write of it  *)
(* is under way: no update that on_broker_update or _send applied is lost.   *)
(* The exceptions are the two ways in which the code does lose one: an       *)
(* upsert rolled back after the object had moved, and two copies of the row  *)
(* in use at once.                                                           *)
QuietAgreement ==
  \A o \in Whole :
    mem[o] # Absent /\ Quiet(o) /\ Undisturbed(o) =>
      /\ row[o].st = mem[o].st
      /\ o \in tracked => row[o].filled = mem[o].filled

(* Until its row is terminal a submitted order stays in _open_orders, so     *)
(* that every update meets the one shared Order object and not a copy; with  *)
(* the same exceptions.                                                      *)
TrackedUntilSettled ==
  \A o \in Whole :
    /\ mem[o] # Absent /\ Quiet(o) /\ Undisturbed(o)
    /\ row[o].st \in Status \ Terminal
    => o \in tracked

(* REJECTED in the journal means the broker does not have the order or       *)
(* rejected it too.  (Without timeouts.)                                     *)
TrueRejection ==
  \A o \in Orders : row[o].st = "REJECTED" => br[o].st \in {"NONE", "REJECTED"}

(* A committed terminal status is final.  The transition table makes it so   *)
(* in memory; the row is another matter, see run gw_stale_row.               *)
NeverBackFromTerminal ==
  [][\A o \in Orders : row[o].st \in Terminal => row'[o].st = row[o].st]_vars

(* Every submit() and every TWAP task comes to an end.                       *)
SubmitEnds ==
  \A s \in Signals : phase[s] # "idle" ~> phase[s] \in Ended

(* How the primary broker ended a submitted order reaches the journal, row   *)
(* and all, unless a report of it was lost (a failed transaction loses those *)
(* still in the feed too), an upsert of the moved object was rolled back (it *)
(* then drops the report of the status it has), or its row was contested.    *)
Settles ==
  \A o \in Whole :
    via[o[1]] = "primary" /\ br[o].st \in Terminal
      ~> row[o] = br[o] \/ o \in missed \cup unsaved \cup contested
=============================================================================
