------------------------------- MODULE Portfolio -------------------------------
(* PortfolioManager (portfolio/manager.py): positions and P&L in memory, and *)
(* the fills and positions tables they are journalled in.  on_fill changes   *)
(* the position first, then awaits record_fill, then awaits upsert_position, *)
(* and only then books the strategy's P&L; ticks and other calls run in      *)
(* between.                                                                  *)
EXTENDS Fractions, FiniteSets, Functions, TLC

CONSTANTS
  Instruments, Strategies,
  Fills,           \* names of executions (fill_id)
  FillOf,          \* FillOf[f]: [inst, qty (signed), price, fees, strategy]
  Marks,           \* last traded prices a tick can bring
  Calls,           \* on_fill() calls that may be under way at once
  Redelivered,     \* fills the feed may deliver a second time
  MaxDbFailures, MaxRestarts      \* bounds of the model

ASSUME PortfolioAssumption ==
  /\ FillOf \in [Fills -> [inst : Instruments, qty : Int \ {0}, price : Int,
                           fees : Nat, strategy : Strategies]]
  /\ Marks \subseteq Int /\ Redelivered \subseteq Fills
  /\ MaxDbFailures \in Nat /\ MaxRestarts \in Nat

VARIABLES
  book,        \* positions: book[i] = [qty, avg, pnl, unreal], or Absent
  earned,      \* realized_pnl_by_strategy
  fillRows,    \* the fills table
  row,         \* the positions table: row[i], or Absent
  call,        \* call[c]: where on_fill is
  spent,       \* history: spent[i], what the fills applied to i since the
               \* start cost, fees included
  crossed,     \* history: instruments a fill took through zero since then
  delivered,   \* history: how often on_fill was called with f
  overlapped,  \* history: a call of on_fill began during another one
  dbFailures, restarts

history  == <<spent, crossed, delivered, overlapped>>
bookVars == <<book, earned, fillRows, row, call, history, dbFailures,
              restarts>>

Absent == [qty |-> 0, known |-> FALSE]
Flat   == [qty |-> 0, avg |-> Whole(0), pnl |-> Whole(0), unreal |-> Whole(0),
           known |-> TRUE]
Idle   == [pc |-> "idle"]

BookInit ==
  /\ book = [i \in Instruments |-> Absent]
  /\ earned = [s \in Strategies |-> Whole(0)]
  /\ fillRows = {}
  /\ row = [i \in Instruments |-> Absent]
  /\ call = [c \in Calls |-> Idle]
  /\ spent = [i \in Instruments |-> 0] /\ crossed = {}
  /\ delivered = [f \in Fills |-> 0] /\ overlapped = FALSE
  /\ dbFailures = 0 /\ restarts = 0

Size(n) == IF n < 0 THEN -n ELSE n

(* What a fill of n at a price realises on a position, before fees.          *)
Realised(p, n, price) ==
  IF p.qty = 0 \/ (p.qty > 0) = (n > 0) THEN Whole(0)
  ELSE LET closing == IF Size(n) < Size(p.qty) THEN Size(n) ELSE Size(p.qty)
       IN  Scaled(Minus(Whole(price), p.avg), IF p.qty > 0 THEN closing
                                                          ELSE -closing)

(* A fill on the same side moves the average; one on the other side leaves   *)
(* it, even when it crosses zero, unless the position is flat afterwards.    *)
(* (AverageCost, TruthyColumns and CreditLater are mistakes the properties   *)
(* are tested against; nothing else uses them.)                              *)
AverageCost(p, n, price) ==
  IF p.qty + n = 0 THEN Whole(0)
  ELSE Over(Plus(Scaled(p.avg, p.qty), Whole(price * n)), p.qty + n)

Average(p, n, price) ==
  IF p.qty = 0 \/ (p.qty > 0) = (n > 0)
  THEN Over(Plus(Scaled(p.avg, p.qty), Whole(price * n)), p.qty + n)
  ELSE IF p.qty + n = 0 THEN Whole(0) ELSE p.avg

Applied(p, fill) ==
  [p EXCEPT !.qty = @ + fill.qty,
            !.avg = Average(p, fill.qty, fill.price),
            !.pnl = Minus(Plus(@, Realised(p, fill.qty, fill.price)),
                          Whole(fill.fees))]

Known(p) == IF p.known THEN p ELSE Flat

Crosses(p, n) == p.qty # 0 /\ p.qty + n # 0 /\ (p.qty > 0) # (p.qty + n > 0)

(* on_fill up to its first await.                                            *)
OnFill(c, f) ==
  LET fill == FillOf[f]
      p    == Known(book[fill.inst])
  IN  /\ call[c] = Idle
      /\ book' = [book EXCEPT ![fill.inst] = Applied(p, fill)]
      /\ call' = [call EXCEPT ![c] =
                    [pc |-> "record", f |-> f,
                     gain |-> Minus(Realised(p, fill.qty, fill.price),
                                    Whole(fill.fees))]]
      /\ spent' = [spent EXCEPT ![fill.inst] =
                      @ + fill.qty * fill.price + fill.fees]
      /\ crossed' = IF Crosses(p, fill.qty) THEN crossed \cup {fill.inst}
                    ELSE crossed
      /\ delivered' = [delivered EXCEPT ![f] = @ + 1]
      /\ overlapped' = (overlapped \/ \E d \in Calls : call[d] # Idle)
      /\ UNCHANGED <<earned, fillRows, row, dbFailures, restarts>>

(* The insert of the fill comes back; upsert_position is called with the     *)
(* position as it is now.                                                    *)
RecordFill(c) ==
  /\ call[c].pc = "record"
  /\ call[c].f \notin fillRows
  /\ fillRows' = fillRows \cup {call[c].f}
  /\ call' = [call EXCEPT ![c] =
                [pc |-> "read", f |-> @.f, gain |-> @.gain,
                 image |-> book[FillOf[@.f].inst]]]
  /\ UNCHANGED <<book, earned, row, history, dbFailures, restarts>>

(* fill_id is unique: a fill that is delivered again raises here.            *)
RefuseFill(c) ==
  /\ call[c].pc = "record"
  /\ call[c].f \in fillRows
  /\ call' = [call EXCEPT ![c] = Idle]
  /\ UNCHANGED <<book, earned, fillRows, row, history, dbFailures, restarts>>

ReadPosition(c) ==
  /\ call[c].pc = "read"
  /\ call' = [call EXCEPT ![c] =
                [pc |-> "write", f |-> @.f, gain |-> @.gain,
                 image |-> @.image, seen |-> row[FillOf[@.f].inst]]]
  /\ UNCHANGED <<book, earned, fillRows, row, history, dbFailures, restarts>>

TruthyColumns(now, seen, image) ==
  IF ~seen.known THEN image
  ELSE [image EXCEPT !.qty = IF @ = 0 THEN now.qty ELSE @]

(* The flush inserts a row, or updates the columns that differ from those    *)
(* the transaction read, and leaves the others alone.                        *)
Columns(now, seen, image) ==
  IF ~seen.known THEN image
  ELSE [x \in DOMAIN image |-> IF seen[x] = image[x] THEN now[x] ELSE image[x]]

(* ... and the strategy's P&L follows the journal.                           *)
CreditLater(s, gain, seen) ==
  earned' = [earned EXCEPT ![s] = IF seen.known THEN Plus(@, gain) ELSE @]
Credit(s, gain, seen) ==
  earned' = [earned EXCEPT ![s] = Plus(@, gain)]

WritePosition(c) ==
  LET i == FillOf[call[c].f].inst
      s == FillOf[call[c].f].strategy
  IN  /\ call[c].pc = "write"
      /\ call[c].seen.known \/ ~row[i].known
      /\ row' = [row EXCEPT ![i] = Columns(@, call[c].seen, call[c].image)]
      /\ Credit(s, call[c].gain, call[c].seen)
      /\ call' = [call EXCEPT ![c] = Idle]
      /\ UNCHANGED <<book, fillRows, history, dbFailures, restarts>>

(* instrument_id is unique: of two overlapping first inserts one raises.     *)
RefusePosition(c) ==
  /\ call[c].pc = "write"
  /\ ~call[c].seen.known /\ row[FillOf[call[c].f].inst].known
  /\ call' = [call EXCEPT ![c] = Idle]
  /\ UNCHANGED <<book, earned, fillRows, row, history, dbFailures, restarts>>

(* The database fails in any of the three: session() rolls back, on_fill     *)
(* raises.                                                                   *)
DbFails(c) ==
  /\ call[c] # Idle /\ dbFailures < MaxDbFailures
  /\ call' = [call EXCEPT ![c] = Idle]
  /\ dbFailures' = dbFailures + 1
  /\ UNCHANGED <<book, earned, fillRows, row, history, restarts>>

(* on_tick marks an open position.  A closed one keeps its last mark.        *)
OnTick(i, price) ==
  /\ book[i].qty # 0
  /\ book' = [book EXCEPT ![i].unreal =
                Scaled(Minus(Whole(price), book[i].avg), book[i].qty)]
  /\ UNCHANGED <<earned, fillRows, row, call, history, dbFailures, restarts>>

(* A crash and the next start: positions and P&L start empty, nothing reads  *)
(* the tables back.                                                          *)
BookRestart ==
  /\ restarts < MaxRestarts
  /\ book' = [i \in Instruments |-> Absent]
  /\ earned' = [s \in Strategies |-> Whole(0)]
  /\ call' = [c \in Calls |-> Idle]
  /\ spent' = [i \in Instruments |-> 0] /\ crossed' = {}
  /\ restarts' = restarts + 1
  /\ UNCHANGED <<fillRows, row, delivered, overlapped, dbFailures>>

JournalStep(c) ==
  \/ RecordFill(c)
  \/ RefuseFill(c)
  \/ ReadPosition(c)
  \/ WritePosition(c)
  \/ RefusePosition(c)
  \/ DbFails(c)

Deliverable(f) == delivered[f] < IF f \in Redelivered THEN 2 ELSE 1
=============================================================================
