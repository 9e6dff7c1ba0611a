------------------------------- MODULE SafeMode -------------------------------
(* The safe-mode gate (ops/safe_mode.py) over the portfolio and the broker's *)
(* positions.  Fills travel from the broker to on_fill.  The gate and the    *)
(* reconciler (portfolio/reconciler.py) are called by nobody in this         *)
(* repository: scheduler/jobs.py has a place for the job's body and no body. *)
(* So who fetches the broker's list, who compares it with the book and who   *)
(* acknowledges is the environment, which may do so at any moment or never.  *)
EXTENDS Portfolio, Sequences

CONSTANT MaxAcks      \* bound of the model

ASSUME SafeModeAssumption == MaxAcks \in Nat

VARIABLES
  broker,      \* broker[i]: the broker's position, and all that was bought
  executed,    \* fills the broker has made, in order
  transit,     \* fills on their way to on_fill
  overtaken,   \* a fill came in before an earlier one of its instrument
  listed,      \* the list of positions as list_positions last returned it
  status,      \* SafeModeGate.status
  acks

brokerVars == <<broker, executed, transit, overtaken>>
gateVars   == <<listed, status, acks>>
deskVars   == <<bookVars, brokerVars, gateVars>>

(* Dhan's row has the net quantity, the average of everything bought and     *)
(* what the open position cost; the adapter takes the former average where   *)
(* there is one.                                                             *)
ListPositions(rows) ==
  [i \in Instruments |->
     [qty |-> rows[i].qty,
      avg |-> IF rows[i].bought > 0 THEN Frac(rows[i].paid, rows[i].bought)
                                    ELSE rows[i].cost]]

Init ==
  /\ BookInit /\ status = "ARMED"
  /\ broker = [i \in Instruments |-> [qty |-> 0, cost |-> Whole(0),
                                     bought |-> 0, paid |-> 0]]
  /\ executed = <<>> /\ transit = {} /\ overtaken = FALSE
  /\ listed = ListPositions(broker)
  /\ acks = 0

(* What the open position cost on the average, as the broker keeps it.       *)
CostPrice(p, n, price) ==
  LET rest == p.qty + n
  IN  CASE rest = 0                          -> Whole(0)
        [] p.qty * rest <= 0 /\ rest # 0     -> Whole(price)
        [] p.qty * rest > 0 /\ p.qty * n < 0 -> p.cost
        [] OTHER -> Over(Plus(Scaled(p.cost, p.qty), Whole(price * n)), rest)

BrokerFills(f) ==
  LET i     == FillOf[f].inst
      n     == FillOf[f].qty
      price == FillOf[f].price
  IN  /\ \A m \in DOMAIN executed : executed[m] # f
      /\ executed' = Append(executed, f)
      /\ transit' = transit \cup {f}
      /\ broker' = [broker EXCEPT ![i] =
                      [qty    |-> @.qty + n,
                       cost   |-> CostPrice(@, n, price),
                       bought |-> IF n > 0 THEN @.bought + n ELSE @.bought,
                       paid   |-> IF n > 0 THEN @.paid + n * price
                                           ELSE @.paid]]
      /\ UNCHANGED <<bookVars, overtaken, gateVars>>

(* The feed calls on_fill, in any order; some fills come again.              *)
Deliver(c, f) ==
  /\ f \in transit /\ OnFill(c, f)
  /\ transit' = IF f \in Redelivered /\ delivered[f] = 0 THEN transit
                ELSE transit \ {f}
  /\ overtaken' =
       (overtaken \/ \E m, n \in DOMAIN executed :
                       /\ m < n /\ executed[n] = f /\ delivered[executed[m]] = 0
                       /\ FillOf[executed[m]].inst = FillOf[f].inst)
  /\ UNCHANGED <<broker, executed, gateVars>>

Journal(c) ==
  /\ JournalStep(c)
  /\ UNCHANGED <<brokerVars, gateVars>>

Tick(i, price) ==
  /\ OnTick(i, price)
  /\ UNCHANGED <<brokerVars, gateVars>>

(* The broker answers list_positions with its positions of that moment; by   *)
(* the time the answer is compared, both sides may have moved on.            *)
BrokerLists ==
  /\ listed # ListPositions(broker)
  /\ listed' = ListPositions(broker)
  /\ UNCHANGED <<bookVars, brokerVars, status, acks>>

(* reconcile_positions: open on one side only, another quantity, or averages *)
(* more than half a rupee apart.                                             *)
Half == Frac(1, 2)
KnownCounts(list) ==
  {i \in Instruments : book[i].known # (list[i].qty # 0)}
Mismatched(list) ==
  {i \in Instruments :
     \/ book[i].qty # list[i].qty
     \/ /\ book[i].qty # 0
        /\ Greater(Distance(book[i].avg, list[i].avg), Half)}

(* observe_reconciliation: a mismatch closes the gate, a match opens nothing.*)
Observe(ok) == status' = IF ok THEN status ELSE "REVIEW"

Reconcile ==
  /\ Observe(Mismatched(listed) = {})
  /\ UNCHANGED <<bookVars, brokerVars, listed, acks>>

(* acknowledge: from any status, whatever was reconciled.                    *)
Acknowledge ==
  /\ acks < MaxAcks
  /\ status' = "CLEARED" /\ acks' = acks + 1
  /\ UNCHANGED <<bookVars, brokerVars, listed>>

AllowsNewEntries == status = "CLEARED"

(* A crash: what was on the socket is lost, the broker keeps its positions.  *)
Restart ==
  /\ BookRestart
  /\ transit' = {}
  /\ listed' = ListPositions(broker)
  /\ status' = "ARMED"
  /\ UNCHANGED <<broker, executed, overtaken, acks>>

Next ==
  \/ \E f \in Fills : BrokerFills(f)
  \/ \E c \in Calls, f \in Fills : Deliverable(f) /\ Deliver(c, f)
  \/ \E c \in Calls : Journal(c)
  \/ \E i \in Instruments, price \in Marks : Tick(i, price)
  \/ BrokerLists
  \/ Reconcile
  \/ Acknowledge
  \/ Restart

Spec == Init /\ [][Next]_deskVars

---------------------------------------------------------------------------
(* Money is neither made nor lost: what a position realised, fees deducted,  *)
(* is what its remaining quantity cost minus what all its fills cost.  Only  *)
(* a fill that crosses zero breaks this, as it keeps the old side's average. *)
BooksBalance ==
  \A i \in Instruments :
    book[i].known /\ i \notin crossed =>
      book[i].pnl = Minus(Scaled(book[i].avg, book[i].qty), Whole(spent[i]))

Quiet == \A c \in Calls : call[c] = Idle

(* No journal write failed, no fill came twice, no two calls overlapped (as  *)
(* those of two brokers' feeds may: the older image of a position can then   *)
(* be written last, and of two first inserts one is refused).                *)
Undisturbed ==
  dbFailures = 0 /\ ~overlapped /\ \A f \in Fills : delivered[f] <= 1

QtyOf(F) == SumFunctionOnSet([f \in Fills |-> FillOf[f].qty], F)

FilledOf(i) == {f \in fillRows : FillOf[f].inst = i}

(* The two tables on_fill writes in two transactions say the same: between   *)
(* calls, the row of a position has the quantity of its fill rows.           *)
RowsAgree ==
  Quiet /\ Undisturbed /\ restarts = 0 =>
    \A i \in Instruments : row[i].qty = QtyOf(FilledOf(i))

Total(f, S) == FoldFunctionOnSet(Plus, Whole(0), f, S)

(* What the strategies earned is what the positions realised: on_fill books  *)
(* the one before and the other after it awaited the journal twice.          *)
PnlAttributed ==
  Quiet /\ Undisturbed =>
    Total(earned, Strategies)
      = Total([i \in Instruments |-> Known(book[i]).pnl], Instruments)

(* No false alarm: the gate goes to REVIEW only if book and broker may       *)
(* differ.  The causes in the code are a list that the broker's next fill    *)
(* has made old, a fill that has not come in, came twice or was overtaken, a *)
(* restart, which reads no position back, a fill that crossed zero, and a    *)
(* Dhan average that is not the open position's: after a sale and another    *)
(* purchase, or of a short position that was bought back in part.            *)
ReviewHasACause ==
  [][status # "REVIEW" /\ status' = "REVIEW" =>
       \/ listed # ListPositions(broker)
       \/ \E n \in DOMAIN executed : delivered[executed[n]] # 1
       \/ overtaken \/ restarts > 0 \/ crossed # {}
       \/ \E i \in Instruments :
            broker[i].qty # 0 /\ listed[i].avg # broker[i].cost]_deskVars
=============================================================================
