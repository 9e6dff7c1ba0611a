------------------------- MODULE OrderGatewayProofs -------------------------
(* Theorems about OrderGateway, for every value of its constants.            *)
EXTENDS OrderGateway, SequenceTheorems, TLAPS

(* An order _send is working on is the one its task is at.                   *)
SendStage ==
  \A o \in Orders : send[o] \in {"write", "await", "result", "commit"} =>
                      phase[o[1]] = "sending" /\ slice[o[1]] = o[2]

(* An awaited answer is not yet consumed.                                    *)
AwaitStage == \A o \in Orders : send[o] = "await" => reply[o] # "none"

(* The TWAP task counts its slices from 1 and sleeps only between them.      *)
TaskStage ==
  \A s \in Signals :
    /\ phase[s] \in {"slicing", "sleeping"} => s \in Sliced /\ slice[s] # 0
    /\ phase[s] = "sleeping" => slice[s] # NSlices
    /\ phase[s] \in {"idle", "recording", "refusing", "routing", "failover",
                     "inserting"} => slice[s] = 0

(* The Order objects that on_broker_update holds or may find exist.          *)
ObjectStage ==
  /\ \A o \in tracked : mem[o] # Absent
  /\ \A h \in Handlers : hand[h].pc \in {"write", "commit"} =>
       hand[h].o \in Whole /\ mem[hand[h].o] # Absent

(* _send works on an Order object, and writes the values of one.             *)
SenderStage ==
  \A o \in Orders :
    /\ send[o] \in {"write", "await", "result", "commit"} => mem[o] # Absent
    /\ send[o] = "commit" => image[o] # Absent

CoreTypeOK == SubmitTypeOK /\ OrderTypeOK /\ WireTypeOK /\ HandTypeOK

CoreStage == SendStage /\ AwaitStage /\ TaskStage /\ ObjectStage
StageOK   == CoreStage /\ SenderStage

(* What an order's name says.                                                *)
LEMMA OrderParts ==
  ASSUME NEW o \in Orders
  PROVE  /\ o = <<o[1], o[2]>> /\ o[1] \in Signals /\ o[2] \in 0 .. NSlices
         /\ o[2] # 0 => o[1] \in Sliced
         /\ o \in Whole <=> o[2] = 0
BY GatewayAssumption DEF Orders, Whole

(* Every signal has its own order, and a sliced one its sub-orders.          *)
LEMMA OrderNames ==
  /\ \A s \in Signals : <<s, 0>> \in Orders /\ <<s, 0>> \in Whole
  /\ \A s \in Sliced, i \in 1 .. NSlices : <<s, i>> \in Orders
BY GatewayAssumption DEF Orders, Whole

(* A status change leaves an order record an order record.                   *)
LEMMA RecordUpdate ==
  ASSUME NEW r \in Rec \cup {Absent}, NEW st \in Status
  PROVE  /\ [r EXCEPT !.st = st] \in Rec /\ [r EXCEPT !.st = st] # Absent
         /\ [r EXCEPT !.st = st].st = st
BY GatewayAssumption
   DEF Rec, Record, Absent, Status, Active, Terminal

LEMMA RecordFacts ==
  /\ Absent \notin Rec /\ Absent.st = "NONE"
  /\ \A st \in Status : [st |-> st, filled |-> 0] \in Rec
  /\ \A r \in Rec : r # Absent /\ r.st \in Status
  /\ \A r \in Rec \cup {Absent} : r.st \in Status \cup {"NONE"}
  /\ {"NEW", "PENDING", "OPEN", "REJECTED"} \subseteq Status
BY GatewayAssumption
   DEF Rec, Record, Absent, Status, Active, Terminal

(* What the broker makes of an order it accepts.                             *)
LEMMA AcceptFacts ==
  /\ \A s : AckStatus(s) \subseteq {"PENDING", "OPEN", "REJECTED", "FILLED"}
  /\ \A st \in Status : /\ Accepted(st) \in Rec /\ Accepted(st) # Absent
                         /\ Accepted(st).st = st
  /\ {"PENDING", "OPEN", "REJECTED", "FILLED"} \subseteq Status
BY GatewayAssumption
   DEF AckStatus, Accepted, Rec, Record, Absent, Status, Active, Terminal

LEMMA TypeInit == Init => TypeOK /\ StageOK
BY GatewayAssumption, OrderParts
   DEF Init, TypeOK, SubmitTypeOK, OrderTypeOK, WireTypeOK, HandTypeOK,
       HistoryTypeOK, StageOK, CoreStage, SendStage, AwaitStage, TaskStage,
       ObjectStage, SenderStage, Idle, Phase, Ended

LEMMA SameOrder ==
  \A o, p \in Orders : o[1] = p[1] /\ o[2] = p[2] => o = p
BY OrderParts

LEMMA Bounds ==
  /\ NSlices \in Nat /\ NSlices > 0 /\ Qty \in Nat /\ Qty > 0
  /\ Attempts \in Nat /\ 1 \in 0 .. Attempts
  /\ MaxCrashes \in Nat /\ MaxDbFailures \in Nat
BY GatewayAssumption

LEMMA Owner == \A o \in Orders : o[1] \in Signals
BY OrderParts

(* A call under way names an order and a report.                             *)
LEMMA CallUnderWay ==
  ASSUME HandTypeOK, NEW h \in Handlers, hand[h].pc # "idle"
  PROVE  /\ hand[h] \in Handling /\ hand[h].o \in Orders /\ hand[h].rec \in Rec
         /\ hand[h] = [pc |-> hand[h].pc, o |-> hand[h].o, rec |-> hand[h].rec]
BY DEF HandTypeOK, Idle, Handling

LEMMA NewCall ==
  ASSUME NEW o \in Orders, NEW rec \in Rec,
         NEW pc \in {"polled", "lookup", "write", "commit", "writeCopy",
                     "commitCopy"}
  PROVE  /\ [pc |-> pc, o |-> o, rec |-> rec] \in Handling
         /\ [pc |-> pc, o |-> o, rec |-> rec] # Idle
BY DEF Handling, Idle

(* A report that joins the socket, and one that leaves it.                   *)
LEMMA NewReport ==
  ASSUME WireTypeOK, NEW o \in Orders, NEW rec \in Rec
  PROVE  Append(feed, [o |-> o, rec |-> rec]) \in Seq([o : Orders, rec : Rec])
BY AppendProperties DEF WireTypeOK

LEMMA NextReport ==
  ASSUME WireTypeOK, feed # <<>>
  PROVE  /\ Head(feed).o \in Orders /\ Head(feed).rec \in Rec
         /\ Tail(feed) \in Seq([o : Orders, rec : Rec])
<1> DEFINE Reports == [o : Orders, rec : Rec]
<1>1. feed \in Seq(Reports)
  BY DEF WireTypeOK
<1> HIDE DEF Reports
<1>2. Head(feed) \in Reports /\ Tail(feed) \in Seq(Reports)
  BY <1>1, HeadTailProperties
<1> QED
  BY <1>2 DEF Reports

LEMMA ReportNames ==
  ASSUME WireTypeOK
  PROVE  \A i \in 1 .. Len(feed) : feed[i].o \in Orders /\ feed[i].rec \in Rec
<1> DEFINE Reports == [o : Orders, rec : Rec]
<1>1. feed \in Seq(Reports)
  BY DEF WireTypeOK
<1> HIDE DEF Reports
<1>2. \A i \in 1 .. Len(feed) : feed[i] \in Reports
  BY <1>1, ElementOfSeq
<1> QED
  BY <1>2 DEF Reports

(* Orders that have an Order object keep it, but for a crash.                *)
LEMMA StillThere ==
  ASSUME OrderTypeOK, HandTypeOK, ObjectStage,
         \A p \in Orders : mem[p] # Absent => mem'[p] # Absent,
         \A p \in tracked' : p \in tracked \/ mem'[p] # Absent,
         UNCHANGED hand
  PROVE  ObjectStage'
BY DEF OrderTypeOK, ObjectStage, Whole, Orders

(* What a write of changed columns leaves: an order record, and the whole    *)
(* new record if nobody else wrote the row since it was read.                *)
LEMMA ColumnsWritten ==
  ASSUME OrderTypeOK, NEW o \in Orders, NEW old, NEW rec \in Rec,
         UpdateColumns(o, old, rec)
  PROVE  row' \in [Orders -> Rec \cup {Absent}]
<1> DEFINE new == IF row[o] = Absent THEN rec
                  ELSE [st     |-> IF rec.st = old.st THEN row[o].st ELSE rec.st,
                        filled |-> IF rec.filled = old.filled THEN row[o].filled
                                                              ELSE rec.filled]
<1>1. row' = [row EXCEPT ![o] = new]
  BY DEF UpdateColumns
<1>2. new \in Rec
  BY DEF OrderTypeOK, Rec, Record
<1> HIDE DEF new
<1> QED
  BY <1>1, <1>2 DEF OrderTypeOK

LEMMA RowWritten ==
  ASSUME OrderTypeOK, NEW o \in Orders, NEW rec \in Rec,
         UpdateColumns(o, row[o], rec)
  PROVE  row' = [row EXCEPT ![o] = rec]
<1> DEFINE new == IF row[o] = Absent THEN rec
                  ELSE [st     |-> IF rec.st = row[o].st THEN row[o].st
                                                         ELSE rec.st,
                        filled |-> IF rec.filled = row[o].filled
                                   THEN row[o].filled ELSE rec.filled]
<1>1. row' = [row EXCEPT ![o] = new]
  BY DEF UpdateColumns
<1>2. new = rec
  BY DEF Rec, Record
<1> QED
  BY <1>1, <1>2

(* _send keeps its object, but for a crash, which ends it.                   *)
LEMMA SenderStep == TypeOK /\ StageOK /\ [Next]_vars => SenderStage'
<1> SUFFICES ASSUME OrderTypeOK, WireTypeOK, HandTypeOK, AwaitStage, ObjectStage,
                    SenderStage, [Next]_vars
             PROVE  SenderStage'
  BY DEF TypeOK, StageOK, CoreStage
<1> USE DEF submitVars, txVars, orderVars, wireVars, brokerVars
<1>1. CASE UNCHANGED <<send, mem, image>>
  BY <1>1 DEF SenderStage
<1>2. ASSUME NEW s \in Signals, InsertOrder(s) \/ InsertSlice(s)
      PROVE  SenderStage'
  <2>1. \A st \in {"NEW", "PENDING"} : [st |-> st, filled |-> 0] # Absent
    BY RecordFacts
  <2>2. UNCHANGED image
    BY <1>2 DEF InsertOrder, InsertSlice
  <2>3. CASE InsertOrder(s) /\ s \in Sliced
    BY <2>1, <2>2, <2>3 DEF InsertOrder, SenderStage, OrderTypeOK
  <2>4. ASSUME NEW o, StartOrder(o) PROVE SenderStage'
    BY <2>1, <2>2, <2>4 DEF StartOrder, SenderStage, OrderTypeOK
  <2> QED
    BY <1>2, <2>3, <2>4 DEF InsertOrder, InsertSlice
<1>3. ASSUME NEW o \in Orders,
             WritePending(o) \/ OtherFailure(o) \/ SendRollsBack(o)
      PROVE  SenderStage'
  BY <1>3
  DEF WritePending, OtherFailure, SendRollsBack, Raise, SenderStage,
      OrderTypeOK
<1>4. ASSUME NEW o \in Orders, StageResult(o) \/ CommitResult(o)
      PROVE  SenderStage'
  BY <1>4 DEF StageResult, CommitResult, Return, SenderStage, OrderTypeOK
<1>5. ASSUME NEW o \in Orders, NEW st \in Status, Resolve(o, st),
             send[o] = "await", UNCHANGED image
      PROVE  SenderStage'
  BY <1>5, RecordUpdate DEF Resolve, Raise, SenderStage, OrderTypeOK
<1>6. ASSUME NEW o \in Orders, AnswerArrives(o) \/ Timeout(o)
      PROVE  SenderStage'
  <2>1. AnswerArrives(o) => Outcome(reply[o]) \in Status
    BY DEF AnswerArrives, Answered, AwaitStage, Outcome, Status, Terminal,
           WireTypeOK
  <2>2. GivenUp \in Status
    BY RecordFacts DEF GivenUp
  <2>3. UNCHANGED image /\ send[o] = "await"
    BY <1>6 DEF AnswerArrives, Answered, Timeout
  <2>4. \/ UNCHANGED <<send, mem>> \/ Resolve(o, GivenUp)
        \/ AnswerArrives(o) /\ Resolve(o, Outcome(reply[o]))
    BY <1>6 DEF AnswerArrives, Timeout
  <2> QED
    BY <1>1, <1>5, <2>1, <2>2, <2>3, <2>4
<1>7. ASSUME NEW h \in Handlers, Receive(h) PROVE SenderStage'
  <2>1. PICK o \in Orders, rec \in Rec : Deliver(h, o, rec)
    BY <1>7, NextReport, CallUnderWay DEF Receive
  <2> QED
    BY <1>7, <2>1, RecordFacts DEF Receive, Deliver, SenderStage, OrderTypeOK
<1>8. CASE Crash
  BY <1>8 DEF Crash, SenderStage, OrderTypeOK
<1>9. ASSUME NEW s \in Signals, SubmitStep(s) PROVE SenderStage'
  BY <1>1, <1>2, <1>9
  DEF SubmitStep, RiskCheck, RecordSignal, ChoosePrimary, ChooseFailover, Wake
<1>10. ASSUME NEW o \in Orders, SendStep(o) \/ BrokerStep(o) \/ NetworkFails(o)
       PROVE  SenderStage'
  BY <1>1, <1>3, <1>4, <1>6, <1>10
  DEF SendStep, BrokerStep, NetworkFails, BrokerAccepts, BrokerRefuses,
      BrokerProgress
<1>11. ASSUME NEW h \in Handlers, HandleStep(h) \/ \E o \in Orders : Poll(h, o)
       PROVE  SenderStage'
  BY <1>1, <1>7, <1>11
  DEF HandleStep, Rehydrate, StageUpdate, CommitUpdate, Poll
<1>12. CASE LoseReport \/ UNCHANGED vars
  BY <1>1, <1>12 DEF LoseReport, vars
<1>13. CASE JournalFails
  BY <1>1, <1>3, <1>13 DEF JournalFails, SubmitRollsBack, HandleRollsBack
<1> QED
  BY <1>8, <1>9, <1>10, <1>11, <1>12, <1>13 DEF Next

LEMMA CoreStep == TypeOK /\ StageOK /\ [Next]_vars => CoreTypeOK' /\ CoreStage'
<1> SUFFICES ASSUME SubmitTypeOK, OrderTypeOK, WireTypeOK, HandTypeOK, SendStage,
                    AwaitStage, TaskStage, ObjectStage, SenderStage,
                    [Next]_vars
             PROVE  CoreTypeOK' /\ CoreStage'
  BY DEF TypeOK, StageOK, CoreStage
<1> USE DEF submitVars, txVars, orderVars, wireVars, brokerVars
<1>1. ASSUME NEW s \in Signals, RiskCheck(s) PROVE CoreTypeOK' /\ CoreStage'
  <2>1. SubmitTypeOK'
    BY <1>1
    DEF RiskCheck, SubmitTypeOK, Phase
  <2>2. SendStage'
    BY <1>1, Owner
    DEF RiskCheck, SendStage, SubmitTypeOK
  <2>3. TaskStage'
    BY <1>1
    DEF RiskCheck, TaskStage, SubmitTypeOK
  <2>4. OrderTypeOK' /\ WireTypeOK' /\ HandTypeOK' /\ AwaitStage'
        /\ ObjectStage'
    BY <1>1
    DEF RiskCheck, OrderTypeOK, WireTypeOK, HandTypeOK, AwaitStage, ObjectStage
  <2> QED
    BY <2>1, <2>2, <2>3, <2>4 DEF CoreTypeOK, CoreStage
<1>2. ASSUME NEW s \in Signals, RecordSignal(s) PROVE CoreTypeOK' /\ CoreStage'
  <2>1. SubmitTypeOK'
    BY <1>2
    DEF RecordSignal, SubmitTypeOK, Phase, Ended
  <2>2. SendStage'
    BY <1>2, Owner
    DEF RecordSignal, SendStage, SubmitTypeOK
  <2>3. TaskStage'
    BY <1>2
    DEF RecordSignal, TaskStage, SubmitTypeOK
  <2>4. OrderTypeOK' /\ WireTypeOK' /\ HandTypeOK' /\ AwaitStage'
        /\ ObjectStage'
    BY <1>2
    DEF RecordSignal, OrderTypeOK, WireTypeOK, HandTypeOK, AwaitStage,
        ObjectStage
  <2> QED
    BY <2>1, <2>2, <2>3, <2>4 DEF CoreTypeOK, CoreStage
<1>3. ASSUME NEW s \in Signals, ChoosePrimary(s)
      PROVE  CoreTypeOK' /\ CoreStage'
  <2>1. SubmitTypeOK'
    BY <1>3
    DEF ChoosePrimary, SubmitTypeOK, Phase, Ended
  <2>2. SendStage'
    BY <1>3, Owner
    DEF ChoosePrimary, SendStage, SubmitTypeOK
  <2>3. TaskStage'
    BY <1>3
    DEF ChoosePrimary, TaskStage, SubmitTypeOK
  <2>4. OrderTypeOK' /\ WireTypeOK' /\ HandTypeOK' /\ AwaitStage'
        /\ ObjectStage'
    BY <1>3
    DEF ChoosePrimary, OrderTypeOK, WireTypeOK, HandTypeOK, AwaitStage,
        ObjectStage
  <2> QED
    BY <2>1, <2>2, <2>3, <2>4 DEF CoreTypeOK, CoreStage
<1>4. ASSUME NEW s \in Signals, ChooseFailover(s)
      PROVE  CoreTypeOK' /\ CoreStage'
  <2>1. SubmitTypeOK'
    BY <1>4
    DEF ChooseFailover, SubmitTypeOK, Phase, Ended
  <2>2. SendStage'
    BY <1>4, Owner
    DEF ChooseFailover, SendStage, SubmitTypeOK
  <2>3. TaskStage'
    BY <1>4
    DEF ChooseFailover, TaskStage, SubmitTypeOK
  <2>4. OrderTypeOK' /\ WireTypeOK' /\ HandTypeOK' /\ AwaitStage'
        /\ ObjectStage'
    BY <1>4
    DEF ChooseFailover, OrderTypeOK, WireTypeOK, HandTypeOK, AwaitStage,
        ObjectStage
  <2> QED
    BY <2>1, <2>2, <2>3, <2>4 DEF CoreTypeOK, CoreStage
<1>5. ASSUME NEW s \in Signals, InsertOrder(s) PROVE CoreTypeOK' /\ CoreStage'
  <2>1. SubmitTypeOK'
    BY <1>5, Bounds
    DEF InsertOrder, SubmitTypeOK, StartOrder, Phase
  <2>2. <<s, 0>> \in Orders /\ <<s, 0>> \in Whole
    BY <1>5, OrderNames
    DEF InsertOrder
  <2>3. \A st \in {"NEW", "PENDING"} :
         [st |-> st, filled |-> 0] \in Rec \ {Absent}
    BY <1>5, RecordFacts
    DEF InsertOrder
  <2>4. OrderTypeOK'
    <3>1. PICK st \in {"NEW", "PENDING"} :
            /\ row' = [row EXCEPT ![<<s, 0>>] = [st |-> "NEW", filled |-> 0]]
            /\ mem' = [mem EXCEPT ![<<s, 0>>] = [st |-> st, filled |-> 0]]
            /\ send' = send \/ send' = [send EXCEPT ![<<s, 0>>] = "write"]
            /\ tracked' = tracked \cup {<<s, 0>>}
            /\ UNCHANGED <<image, seen, callSeen>>
      <4>1. CASE s \in Sliced
        BY <1>5, <4>1 DEF InsertOrder, Upsert
      <4>2. CASE s \notin Sliced
        BY <1>5, <4>2 DEF InsertOrder, StartOrder, Upsert
      <4> QED
        BY <4>1, <4>2
    <3>2. row' \in [Orders -> Rec \cup {Absent}]
      BY <2>2, <2>3, <3>1 DEF OrderTypeOK
    <3>3. mem' \in [Orders -> Rec \cup {Absent}]
      BY <2>2, <2>3, <3>1 DEF OrderTypeOK
    <3> QED
      BY <2>2, <3>1, <3>2, <3>3 DEF OrderTypeOK
  <2>5. SendStage'
    BY <1>5, Owner, OrderNames
    DEF InsertOrder, SendStage, StartOrder, TaskStage, SubmitTypeOK,
        OrderTypeOK
  <2>6. AwaitStage'
    BY <1>5
    DEF InsertOrder, AwaitStage, StartOrder, OrderTypeOK
  <2>7. TaskStage'
    BY <1>5, GatewayAssumption
    DEF InsertOrder, TaskStage, SubmitTypeOK
  <2>8. \A p \in Orders : mem[p] # Absent => mem'[p] # Absent
    BY <1>5, <2>3
    DEF InsertOrder, StartOrder, OrderTypeOK
  <2>9. ObjectStage'
    <3>1. mem'[<<s, 0>>] # Absent
      BY <1>5, <2>2, <2>3 DEF InsertOrder, StartOrder, OrderTypeOK
    <3> QED
      BY <1>5, <2>8, <3>1, StillThere DEF InsertOrder
  <2>10. WireTypeOK' /\ HandTypeOK'
    BY <1>5 DEF InsertOrder, WireTypeOK, HandTypeOK
  <2> QED
    BY <2>1, <2>2, <2>3, <2>4, <2>5, <2>6, <2>7, <2>8, <2>9, <2>10
    DEF CoreTypeOK, CoreStage
<1>6. ASSUME NEW s \in Signals, InsertSlice(s) PROVE CoreTypeOK' /\ CoreStage'
  <2>1. SubmitTypeOK'
    BY <1>6
    DEF InsertSlice, SubmitTypeOK, Phase
  <2>2. <<s, slice[s]>> \in Orders
    BY <1>6, OrderNames
    DEF InsertSlice, TaskStage, SubmitTypeOK
  <2>3. OrderTypeOK'
    BY <1>6, <2>2, RecordFacts
    DEF InsertSlice, OrderTypeOK, StartOrder, Upsert
  <2>4. SendStage'
    BY <1>6, Owner, <2>2
    DEF InsertSlice, SendStage, StartOrder, SubmitTypeOK, OrderTypeOK
  <2>5. AwaitStage'
    BY <1>6
    DEF InsertSlice, AwaitStage, StartOrder, OrderTypeOK
  <2>6. TaskStage'
    BY <1>6
    DEF InsertSlice, TaskStage, SubmitTypeOK
  <2>7. ObjectStage'
    BY <1>6, RecordFacts
    DEF InsertSlice, ObjectStage, StartOrder, OrderTypeOK
  <2>8. WireTypeOK' /\ HandTypeOK'
    BY <1>6 DEF InsertSlice, WireTypeOK, HandTypeOK
  <2> QED
    BY <2>1, <2>2, <2>3, <2>4, <2>5, <2>6, <2>7, <2>8 DEF CoreTypeOK, CoreStage
<1>7. ASSUME NEW s \in Signals, Wake(s) PROVE CoreTypeOK' /\ CoreStage'
  <2>1. slice[s] + 1 \in 0 .. NSlices
    BY <1>7, GatewayAssumption
    DEF Wake, TaskStage, SubmitTypeOK
  <2>2. SubmitTypeOK'
    BY <1>7, <2>1
    DEF Wake, SubmitTypeOK, Phase
  <2>3. SendStage'
    BY <1>7, Owner
    DEF Wake, SendStage, SubmitTypeOK
  <2>4. TaskStage'
    BY <1>7, <2>1
    DEF Wake, TaskStage, SubmitTypeOK
  <2>5. OrderTypeOK' /\ WireTypeOK' /\ HandTypeOK' /\ AwaitStage'
        /\ ObjectStage'
    BY <1>7
    DEF Wake, OrderTypeOK, WireTypeOK, HandTypeOK, AwaitStage, ObjectStage
  <2> QED
    BY <2>1, <2>2, <2>3, <2>4, <2>5 DEF CoreTypeOK, CoreStage
<1>8. ASSUME NEW o \in Orders, WritePending(o) PROVE CoreTypeOK' /\ CoreStage'
  <2>1. SubmitTypeOK'
    BY <1>8, Owner
    DEF WritePending, SubmitTypeOK, Raise, Phase, Ended
  <2>2. OrderTypeOK'
    BY <1>8
    DEF WritePending, OrderTypeOK, Upsert, Raise
  <2>3. WireTypeOK'
    BY <1>8, Bounds
    DEF WritePending, WireTypeOK
  <2>4. SendStage'
    BY <1>8, Owner, SameOrder
    DEF WritePending, SendStage, Raise, SubmitTypeOK, OrderTypeOK
  <2>5. AwaitStage'
    BY <1>8
    DEF WritePending, AwaitStage, Raise, OrderTypeOK, WireTypeOK
  <2>6. TaskStage'
    BY <1>8, Owner
    DEF WritePending, TaskStage, Raise, SubmitTypeOK
  <2>7. HandTypeOK' /\ ObjectStage'
    BY <1>8 DEF WritePending, HandTypeOK, ObjectStage
  <2> QED
    BY <2>1, <2>2, <2>3, <2>4, <2>5, <2>6, <2>7 DEF CoreTypeOK, CoreStage
<1>9. ASSUME NEW o \in Orders, AnswerArrives(o) PROVE CoreTypeOK' /\ CoreStage'
  <2>1. Outcome(reply[o]) \in Status
    BY <1>9
    DEF AnswerArrives, Answered, AwaitStage, Outcome, Status, Terminal,
        WireTypeOK
  <2>2. SubmitTypeOK'
    BY <1>9, Owner
    DEF AnswerArrives, SubmitTypeOK, Resolve, Raise, Phase, Ended
  <2>3. OrderTypeOK'
    BY <1>9, <2>1, RecordUpdate
    DEF AnswerArrives, OrderTypeOK, Resolve, Raise
  <2>4. WireTypeOK'
    BY <1>9
    DEF AnswerArrives, WireTypeOK
  <2>5. SendStage'
    BY <1>9, Owner, SameOrder
    DEF AnswerArrives, SendStage, Answered, Resolve, Raise, SubmitTypeOK,
        OrderTypeOK
  <2>6. AwaitStage'
    BY <1>9
    DEF AnswerArrives, AwaitStage, Resolve, Raise, OrderTypeOK, WireTypeOK
  <2>7. TaskStage'
    BY <1>9, Owner
    DEF AnswerArrives, TaskStage, Resolve, Raise, SubmitTypeOK
  <2>8. \A p \in Orders : mem[p] # Absent => mem'[p] # Absent
    BY <1>9, <2>1, RecordUpdate
    DEF AnswerArrives, Resolve, OrderTypeOK
  <2>9. ObjectStage'
    BY <1>9, <2>8, StillThere
    DEF AnswerArrives, ObjectStage
  <2>10. HandTypeOK'
    BY <1>9 DEF AnswerArrives, HandTypeOK
  <2> QED
    BY <2>1, <2>2, <2>3, <2>4, <2>5, <2>6, <2>7, <2>8, <2>9, <2>10
    DEF CoreTypeOK, CoreStage
<1>10. ASSUME NEW o \in Orders, StageResult(o) PROVE CoreTypeOK' /\ CoreStage'
  <2>1. OrderTypeOK'
    BY <1>10
    DEF StageResult, OrderTypeOK
  <2>2. SendStage' /\ AwaitStage'
    BY <1>10
    DEF StageResult, SendStage, AwaitStage, OrderTypeOK
  <2>3. SubmitTypeOK' /\ WireTypeOK' /\ HandTypeOK' /\ TaskStage'
        /\ ObjectStage'
    BY <1>10
    DEF StageResult, SubmitTypeOK, WireTypeOK, HandTypeOK, TaskStage,
        ObjectStage
  <2> QED
    BY <2>1, <2>2, <2>3 DEF CoreTypeOK, CoreStage
<1>11. ASSUME NEW o \in Orders, CommitResult(o) PROVE CoreTypeOK' /\ CoreStage'
  <2>1. SubmitTypeOK'
    BY <1>11, Owner
    DEF CommitResult, SubmitTypeOK, Return, Phase, Ended
  <2>2. OrderTypeOK'
    <3>1. image[o] \in Rec
      BY <1>11 DEF CommitResult, SenderStage, OrderTypeOK
    <3>2. row' \in [Orders -> Rec \cup {Absent}]
      BY <1>11, <3>1, ColumnsWritten DEF CommitResult
    <3> QED
      BY <1>11, <3>2 DEF CommitResult, OrderTypeOK, Return
  <2>3. SendStage'
    BY <1>11, Owner, SameOrder
    DEF CommitResult, SendStage, Return, SubmitTypeOK, OrderTypeOK
  <2>4. AwaitStage'
    BY <1>11
    DEF CommitResult, AwaitStage, Return, OrderTypeOK
  <2>5. TaskStage'
    BY <1>11, OrderParts
    DEF CommitResult, TaskStage, Return, SendStage, SubmitTypeOK
  <2>6. WireTypeOK' /\ HandTypeOK' /\ ObjectStage'
    BY <1>11 DEF CommitResult, WireTypeOK, HandTypeOK, ObjectStage
  <2> QED
    BY <2>1, <2>2, <2>3, <2>4, <2>5, <2>6 DEF CoreTypeOK, CoreStage
<1>12. ASSUME NEW o \in Orders, BrokerAccepts(o)
       PROVE  CoreTypeOK' /\ CoreStage'
  <2>1. AckStatus(o[1]) \subseteq Status
    BY AcceptFacts
  <2>2. PICK st \in Status :
          /\ br' = [br EXCEPT ![o] = Accepted(st)]
          /\ Report(o, Accepted(st))
          /\ reply' = reply \/ reply' = [reply EXCEPT ![o] = st]
          /\ late' = late \/ late' = [late EXCEPT ![o] = FALSE]
    BY <1>12, <2>1 DEF BrokerAccepts
  <2>3. WireTypeOK'
    <3>1. PICK rec \in Rec : rec = Accepted(st)
      BY AcceptFacts
    <3>2. Append(feed, [o |-> o, rec |-> rec]) \in Seq([o : Orders, rec : Rec])
      BY NewReport
    <3>3. feed' \in Seq([o : Orders, rec : Rec])
      BY <2>2, <3>1, <3>2 DEF Report, WireTypeOK
    <3> QED
      BY <1>12, <2>2, <3>1, <3>3 DEF BrokerAccepts, WireTypeOK
  <2>4. AwaitStage'
    BY <1>12
    DEF BrokerAccepts, AwaitStage, AckStatus, WireTypeOK
  <2>5. SubmitTypeOK' /\ OrderTypeOK' /\ HandTypeOK' /\ SendStage'
        /\ TaskStage' /\ ObjectStage'
    BY <1>12
    DEF BrokerAccepts, SubmitTypeOK, OrderTypeOK, HandTypeOK, SendStage,
        TaskStage, ObjectStage
  <2> QED
    BY <2>3, <2>4, <2>5 DEF CoreTypeOK, CoreStage
<1>13. ASSUME NEW o \in Orders, BrokerRefuses(o)
       PROVE  CoreTypeOK' /\ CoreStage'
  <2>1. WireTypeOK' /\ AwaitStage'
    BY <1>13
    DEF BrokerRefuses, WireTypeOK, AwaitStage
  <2>2. SubmitTypeOK' /\ OrderTypeOK' /\ HandTypeOK' /\ SendStage'
        /\ TaskStage' /\ ObjectStage'
    BY <1>13
    DEF BrokerRefuses, SubmitTypeOK, OrderTypeOK, HandTypeOK, SendStage,
        TaskStage, ObjectStage
  <2> QED
    BY <2>1, <2>2 DEF CoreTypeOK, CoreStage
<1>14. ASSUME NEW o \in Orders, BrokerProgress(o)
       PROVE  CoreTypeOK' /\ CoreStage'
  <2>1. PICK rec \in Rec : br' = [br EXCEPT ![o] = rec] /\ Report(o, rec)
    BY <1>14, Bounds
    DEF BrokerProgress, Rec, Record
  <2>2. WireTypeOK'
    BY <1>14, <2>1, NewReport
    DEF BrokerProgress, WireTypeOK, Report
  <2>3. SubmitTypeOK' /\ OrderTypeOK' /\ HandTypeOK' /\ SendStage'
        /\ AwaitStage' /\ TaskStage' /\ ObjectStage'
    BY <1>14
    DEF BrokerProgress, SubmitTypeOK, OrderTypeOK, HandTypeOK, SendStage,
        AwaitStage, TaskStage, ObjectStage
  <2> QED
    BY <2>1, <2>2, <2>3 DEF CoreTypeOK, CoreStage
<1>15. ASSUME NEW o \in Orders, Timeout(o) PROVE CoreTypeOK' /\ CoreStage'
  <2>1. SubmitTypeOK'
    BY <1>15, Owner
    DEF Timeout, SubmitTypeOK, Resolve, Raise, Phase, Ended
  <2>2. OrderTypeOK'
    BY <1>15, RecordUpdate, RecordFacts
    DEF Timeout, OrderTypeOK, Resolve, Raise, GivenUp
  <2>3. tries[o] < MaxTries(o) => tries[o] + 1 \in 0 .. Attempts
    BY <1>15, Bounds
    DEF Timeout, MaxTries, WireTypeOK
  <2>4. WireTypeOK'
    BY <1>15, <2>3
    DEF Timeout, WireTypeOK
  <2>5. SendStage'
    BY <1>15, Owner, SameOrder
    DEF Timeout, SendStage, Resolve, Raise, SubmitTypeOK, OrderTypeOK
  <2>6. AwaitStage'
    BY <1>15
    DEF Timeout, AwaitStage, Resolve, Raise, OrderTypeOK, WireTypeOK
  <2>7. TaskStage'
    BY <1>15, Owner
    DEF Timeout, TaskStage, Resolve, Raise, SubmitTypeOK
  <2>8. \A p \in Orders : mem[p] # Absent => mem'[p] # Absent
    BY <1>15, RecordUpdate, RecordFacts
    DEF Timeout, Resolve, GivenUp, OrderTypeOK
  <2>9. ObjectStage'
    BY <1>15, <2>8, StillThere
    DEF Timeout, ObjectStage
  <2>10. HandTypeOK'
    BY <1>15 DEF Timeout, HandTypeOK
  <2> QED
    BY <2>1, <2>2, <2>3, <2>4, <2>5, <2>6, <2>7, <2>8, <2>9, <2>10
    DEF CoreTypeOK, CoreStage
<1>16. ASSUME NEW o \in Orders, OtherFailure(o) PROVE CoreTypeOK' /\ CoreStage'
  <2>1. SubmitTypeOK'
    BY <1>16, Owner
    DEF OtherFailure, SubmitTypeOK, Raise, Phase, Ended
  <2>2. OrderTypeOK'
    BY <1>16
    DEF OtherFailure, OrderTypeOK, Raise
  <2>3. WireTypeOK'
    BY <1>16
    DEF OtherFailure, WireTypeOK
  <2>4. SendStage'
    BY <1>16, Owner, SameOrder
    DEF OtherFailure, SendStage, Raise, SubmitTypeOK, OrderTypeOK
  <2>5. AwaitStage'
    BY <1>16
    DEF OtherFailure, AwaitStage, Raise, OrderTypeOK, WireTypeOK
  <2>6. TaskStage'
    BY <1>16, Owner
    DEF OtherFailure, TaskStage, Raise, SubmitTypeOK
  <2>7. HandTypeOK' /\ ObjectStage'
    BY <1>16 DEF OtherFailure, HandTypeOK, ObjectStage
  <2> QED
    BY <2>1, <2>2, <2>3, <2>4, <2>5, <2>6, <2>7 DEF CoreTypeOK, CoreStage
<1>17. ASSUME NEW h \in Handlers, Receive(h) PROVE CoreTypeOK' /\ CoreStage'
  <2>1. PICK o \in Orders, rec \in Rec : Deliver(h, o, rec)
    BY <1>17, NextReport, CallUnderWay
    DEF Receive
  <2>2. OrderTypeOK'
    BY <1>17, <2>1
    DEF Receive, OrderTypeOK, Deliver
  <2>3. WireTypeOK'
    BY <1>17, NextReport
    DEF Receive, WireTypeOK
  <2>4. HandTypeOK'
    <3>1. \/ hand' = [hand EXCEPT ![h] = [pc |-> "write", o |-> o, rec |-> rec]]
          \/ hand' = [hand EXCEPT ![h] = Idle]
          \/ hand' = [hand EXCEPT ![h] = [pc |-> "lookup", o |-> o, rec |-> rec]]
      BY <2>1 DEF Deliver
    <3>2. /\ [pc |-> "write", o |-> o, rec |-> rec] \in Handling
          /\ [pc |-> "lookup", o |-> o, rec |-> rec] \in Handling
      BY NewCall
    <3>3. crashes' = crashes
      BY <1>17 DEF Receive
    <3> QED
      BY <3>1, <3>2, <3>3 DEF HandTypeOK
  <2>5. \A p \in Orders : mem[p] # Absent => mem'[p] # Absent
    BY <1>17, <2>1, RecordFacts
    DEF Receive, Deliver, OrderTypeOK
  <2>6. ObjectStage'
    <3>1. hand'[h].pc = "write" => hand'[h].o \in Whole /\ mem'[hand'[h].o] # Absent
      BY <2>1, RecordFacts DEF Deliver, Idle, OrderTypeOK, HandTypeOK
    <3>2. hand'[h].pc # "commit"
      BY <2>1 DEF Deliver, Idle, HandTypeOK
    <3>3. \A g \in Handlers \ {h} : hand'[g] = hand[g]
      BY <2>1 DEF Deliver, HandTypeOK
    <3> QED
      BY <1>17, <2>5, <3>1, <3>2, <3>3
      DEF Receive, ObjectStage, OrderTypeOK, Whole, Orders
  <2>7. SubmitTypeOK' /\ SendStage' /\ AwaitStage' /\ TaskStage'
    BY <1>17 DEF Receive, SubmitTypeOK, SendStage, AwaitStage, TaskStage
  <2> QED
    BY <2>1, <2>2, <2>3, <2>4, <2>5, <2>6, <2>7 DEF CoreTypeOK, CoreStage
<1>18. ASSUME NEW h \in Handlers, Rehydrate(h) PROVE CoreTypeOK' /\ CoreStage'
  <2>1. HandTypeOK'
    BY <1>18, CallUnderWay, NewCall
    DEF Rehydrate, HandTypeOK
  <2>2. ObjectStage'
    BY <1>18
    DEF Rehydrate, ObjectStage, HandTypeOK, Idle
  <2>3. SubmitTypeOK' /\ OrderTypeOK' /\ WireTypeOK' /\ SendStage'
        /\ AwaitStage' /\ TaskStage'
    BY <1>18
    DEF Rehydrate, SubmitTypeOK, OrderTypeOK, WireTypeOK, SendStage,
        AwaitStage, TaskStage
  <2> QED
    BY <2>1, <2>2, <2>3 DEF CoreTypeOK, CoreStage
<1>19. ASSUME NEW h \in Handlers, StageUpdate(h)
       PROVE  CoreTypeOK' /\ CoreStage'
  <2>1. hand[h].pc = "write" => mem[hand[h].o] \in Rec
    <3>1. ASSUME hand[h].pc = "write" PROVE mem[hand[h].o] \in Rec
      <4>1. hand[h].o \in Orders
        BY <3>1, CallUnderWay
      <4>2. mem[hand[h].o] # Absent
        BY <3>1 DEF ObjectStage
      <4> QED
        BY <4>1, <4>2 DEF OrderTypeOK
    <3> QED
      BY <3>1
  <2>2. HandTypeOK'
    <3>1. hand' = [hand EXCEPT ![h] = hand'[h]] /\ hand'[h] \in Handling
      <4>1. CASE hand[h].pc = "write"
        <5> DEFINE next == [pc |-> "commit", o |-> hand[h].o,
                            rec |-> mem[hand[h].o]]
        <5>1. hand' = [hand EXCEPT ![h] = next]
          BY <1>19, <4>1 DEF StageUpdate
        <5>2. hand[h].o \in Orders /\ mem[hand[h].o] \in Rec
          BY <2>1, <4>1, CallUnderWay
        <5>3. next \in Handling
          BY <5>2, NewCall
        <5> HIDE DEF next
        <5> QED
          BY <5>1, <5>3 DEF HandTypeOK
      <4>2. CASE hand[h].pc = "writeCopy"
        BY <1>19, <4>2, CallUnderWay DEF StageUpdate, HandTypeOK, Handling
      <4> QED
        BY <1>19, <4>1, <4>2 DEF StageUpdate
    <3> QED
      BY <1>19, <3>1 DEF StageUpdate, HandTypeOK
  <2>3. ObjectStage'
    <3>1. UNCHANGED <<mem, tracked>>
      BY <1>19 DEF StageUpdate
    <3>2. \A g \in Handlers \ {h} : hand'[g] = hand[g]
      BY <1>19 DEF StageUpdate, HandTypeOK
    <3>3. hand'[h].pc = "commit" =>
            hand[h].pc = "write" /\ hand'[h].o = hand[h].o
      BY <1>19, CallUnderWay DEF StageUpdate, HandTypeOK
    <3>4. hand'[h].pc # "write"
      BY <1>19, CallUnderWay DEF StageUpdate, HandTypeOK
    <3> QED
      BY <3>1, <3>2, <3>3, <3>4 DEF ObjectStage
  <2>4. SubmitTypeOK' /\ OrderTypeOK' /\ WireTypeOK' /\ SendStage'
        /\ AwaitStage' /\ TaskStage'
    BY <1>19, CallUnderWay
    DEF StageUpdate, SubmitTypeOK, OrderTypeOK, WireTypeOK, SendStage,
        AwaitStage, TaskStage
  <2> QED
    BY <2>1, <2>2, <2>3, <2>4 DEF CoreTypeOK, CoreStage
<1>20. ASSUME NEW h \in Handlers, CommitUpdate(h)
       PROVE  CoreTypeOK' /\ CoreStage'
  <2>1. OrderTypeOK'
    <3>1. hand[h].o \in Orders /\ hand[h].rec \in Rec
      BY <1>20, CallUnderWay DEF CommitUpdate
    <3>2. row' \in [Orders -> Rec \cup {Absent}]
      BY <1>20, <3>1, ColumnsWritten DEF CommitUpdate
    <3> QED
      BY <1>20, <3>2 DEF CommitUpdate, OrderTypeOK, Forget
  <2>2. HandTypeOK'
    BY <1>20
    DEF CommitUpdate, HandTypeOK
  <2>3. ObjectStage'
    BY <1>20
    DEF CommitUpdate, ObjectStage, Forget, Idle, HandTypeOK
  <2>4. SubmitTypeOK' /\ WireTypeOK' /\ SendStage' /\ AwaitStage' /\ TaskStage'
    BY <1>20
    DEF CommitUpdate, SubmitTypeOK, WireTypeOK, SendStage, AwaitStage,
        TaskStage
  <2> QED
    BY <2>1, <2>2, <2>3, <2>4 DEF CoreTypeOK, CoreStage
<1>21. ASSUME NEW h \in Handlers, NEW o \in Orders, Poll(h, o)
     PROVE  CoreTypeOK' /\ CoreStage'
  <2>1. HandTypeOK'
    BY <1>21, NewCall
    DEF Poll, HandTypeOK, WireTypeOK
  <2>2. ObjectStage'
    BY <1>21
    DEF Poll, ObjectStage, HandTypeOK, Idle
  <2>3. SubmitTypeOK' /\ OrderTypeOK' /\ WireTypeOK' /\ SendStage'
        /\ AwaitStage' /\ TaskStage'
    BY <1>21
    DEF Poll, SubmitTypeOK, OrderTypeOK, WireTypeOK, SendStage, AwaitStage,
        TaskStage
  <2> QED
    BY <2>1, <2>2, <2>3 DEF CoreTypeOK, CoreStage
<1>22. CASE LoseReport
  <2>1. SubmitTypeOK' /\ OrderTypeOK' /\ WireTypeOK' /\ HandTypeOK'
        /\ SendStage' /\ AwaitStage' /\ TaskStage' /\ ObjectStage'
    BY <1>22
    DEF LoseReport, SubmitTypeOK, OrderTypeOK, WireTypeOK, HandTypeOK,
        SendStage, AwaitStage, TaskStage, ObjectStage
  <2> QED
    BY <2>1 DEF CoreTypeOK, CoreStage
<1>23. CASE Crash
  <2>1. SubmitTypeOK'
    BY <1>23
    DEF Crash, SubmitTypeOK, Phase, Ended
  <2>2. HandTypeOK'
    BY <1>23, Bounds
    DEF Crash, HandTypeOK
  <2>3. SendStage' /\ AwaitStage'
    BY <1>23
    DEF Crash, SendStage, AwaitStage, OrderTypeOK
  <2>4. ObjectStage'
    BY <1>23
    DEF Crash, ObjectStage, Idle
  <2>5. OrderTypeOK' /\ WireTypeOK' /\ TaskStage'
    BY <1>23 DEF Crash, OrderTypeOK, WireTypeOK, TaskStage
  <2> QED
    BY <2>1, <2>2, <2>3, <2>4, <2>5 DEF CoreTypeOK, CoreStage
<1>24. CASE UNCHANGED vars
  <2>1. SubmitTypeOK' /\ OrderTypeOK' /\ WireTypeOK' /\ HandTypeOK'
        /\ SendStage' /\ AwaitStage' /\ TaskStage' /\ ObjectStage'
    BY <1>24
    DEF vars, SubmitTypeOK, OrderTypeOK, WireTypeOK, HandTypeOK, SendStage,
        AwaitStage, TaskStage, ObjectStage
  <2> QED
    BY <2>1 DEF CoreTypeOK, CoreStage
<1>25. ASSUME NEW s \in Signals, SubmitRollsBack(s)
       PROVE  CoreTypeOK' /\ CoreStage'
  <2>1. SubmitTypeOK'
    BY <1>25 DEF SubmitRollsBack, SubmitTypeOK, Phase, Ended
  <2>2. SendStage' /\ TaskStage'
    BY <1>25, Owner DEF SubmitRollsBack, SendStage, TaskStage, SubmitTypeOK
  <2>3. OrderTypeOK' /\ WireTypeOK' /\ HandTypeOK' /\ AwaitStage'
        /\ ObjectStage'
    BY <1>25
    DEF SubmitRollsBack, OrderTypeOK, WireTypeOK, HandTypeOK, AwaitStage,
        ObjectStage
  <2> QED
    BY <2>1, <2>2, <2>3 DEF CoreTypeOK, CoreStage
<1>26. ASSUME NEW o \in Orders, SendRollsBack(o)
       PROVE  CoreTypeOK' /\ CoreStage'
  <2>1. SubmitTypeOK'
    BY <1>26, Owner DEF SendRollsBack, SubmitTypeOK, Raise, Phase, Ended
  <2>2. OrderTypeOK'
    BY <1>26 DEF SendRollsBack, OrderTypeOK, Raise
  <2>3. SendStage'
    BY <1>26, Owner, SameOrder
    DEF SendRollsBack, SendStage, Raise, SubmitTypeOK, OrderTypeOK
  <2>4. AwaitStage'
    BY <1>26 DEF SendRollsBack, AwaitStage, Raise, OrderTypeOK
  <2>5. TaskStage'
    BY <1>26, Owner DEF SendRollsBack, TaskStage, Raise, SubmitTypeOK
  <2>6. WireTypeOK' /\ HandTypeOK' /\ ObjectStage'
    BY <1>26 DEF SendRollsBack, WireTypeOK, HandTypeOK, ObjectStage
  <2> QED
    BY <2>1, <2>2, <2>3, <2>4, <2>5, <2>6 DEF CoreTypeOK, CoreStage
<1>27. ASSUME NEW h \in Handlers, HandleRollsBack(h)
       PROVE  CoreTypeOK' /\ CoreStage'
  <2>1. WireTypeOK'
    BY <1>27, EmptySeq DEF HandleRollsBack, WireTypeOK
  <2>2. OrderTypeOK' /\ HandTypeOK'
    BY <1>27 DEF HandleRollsBack, OrderTypeOK, HandTypeOK
  <2>3. ObjectStage'
    BY <1>27 DEF HandleRollsBack, ObjectStage, Idle, HandTypeOK
  <2>4. SubmitTypeOK' /\ SendStage' /\ AwaitStage' /\ TaskStage'
    BY <1>27 DEF HandleRollsBack, SubmitTypeOK, SendStage, AwaitStage, TaskStage
  <2> QED
    BY <2>1, <2>2, <2>3, <2>4 DEF CoreTypeOK, CoreStage
<1> QED
  BY <1>1, <1>2, <1>3, <1>4, <1>5, <1>6, <1>7, <1>8, <1>9, <1>10, <1>11, <1>12,
     <1>13, <1>14, <1>15, <1>16, <1>17, <1>18, <1>19, <1>20, <1>21, <1>22,
     <1>23, <1>24, <1>25, <1>26, <1>27
  DEF Next, SubmitStep, SendStep, BrokerStep, NetworkFails, HandleStep,
      JournalFails

(* What happened to the orders is told of orders only.                       *)
LEMMA HistoryStep ==
  TypeOK /\ StageOK /\ [Next]_vars => HistoryTypeOK'
<1> SUFFICES ASSUME SubmitTypeOK, OrderTypeOK, WireTypeOK, HandTypeOK,
                    TaskStage, HistoryTypeOK, [Next]_vars
             PROVE  HistoryTypeOK'
  BY DEF TypeOK, StageOK, CoreStage
<1>1. CASE UNCHANGED history
  BY <1>1 DEF history, HistoryTypeOK
<1>2. ASSUME NEW o \in Orders, NEW clash, Contest(o, clash) \/ Saved(o)
      PROVE  HistoryTypeOK'
  BY <1>2 DEF Contest, Saved, HistoryTypeOK
<1>3. ASSUME RollBack, missed' \subseteq Orders, unsaved' \subseteq Orders
      PROVE  HistoryTypeOK'
  BY <1>3, Bounds DEF RollBack, HistoryTypeOK
<1>4. InFeed \subseteq Orders
  BY ReportNames, LenProperties DEF InFeed, WireTypeOK
<1>5. \A h \in Handlers : hand[h].pc # "idle" => hand[h].o \in Orders
  BY CallUnderWay
<1>6. ASSUME NEW o \in Orders, SendStep(o) PROVE HistoryTypeOK'
  BY <1>1, <1>2, <1>6
  DEF SendStep, WritePending, AnswerArrives, StageResult, CommitResult
<1>7. ASSUME NEW h \in Handlers, HandleStep(h) PROVE HistoryTypeOK'
  <2>1. CASE Receive(h)
    BY <1>1, <2>1 DEF Receive
  <2>2. CASE Rehydrate(h)
    <3>1. \E clash : Contest(hand[h].o, clash)
      BY <2>2 DEF Rehydrate
    <3> QED
      BY <1>2, <1>5, <2>2, <3>1 DEF Rehydrate
  <2>3. CASE StageUpdate(h)
    <3>1. UNCHANGED history \/ \E clash : Contest(hand[h].o, clash)
      BY <2>3 DEF StageUpdate
    <3> QED
      BY <1>1, <1>2, <1>5, <2>3, <3>1 DEF StageUpdate
  <2>4. CASE CommitUpdate(h)
    BY <1>2, <1>5, <2>4 DEF CommitUpdate
  <2> QED
    BY <1>7, <2>1, <2>2, <2>3, <2>4 DEF HandleStep
<1>8. CASE LoseReport
  <2>1. Head(feed).o \in Orders
    BY <1>8, NextReport DEF LoseReport
  <2> QED
    BY <1>8, <2>1 DEF LoseReport, HistoryTypeOK
<1>9. CASE JournalFails
  <2>1. ASSUME NEW s \in Signals, SubmitRollsBack(s) PROVE HistoryTypeOK'
    BY <1>3, <2>1 DEF SubmitRollsBack, HistoryTypeOK
  <2>2. ASSUME NEW o \in Orders, SendRollsBack(o) PROVE HistoryTypeOK'
    BY <1>3, <2>2 DEF SendRollsBack, HistoryTypeOK
  <2>3. ASSUME NEW h \in Handlers, HandleRollsBack(h) PROVE HistoryTypeOK'
    <3>1. hand[h].o \in Orders
      BY <1>5, <2>3 DEF HandleRollsBack
    <3> QED
      BY <1>3, <1>4, <2>3, <3>1 DEF HandleRollsBack, HistoryTypeOK
  <2> QED
    BY <1>9, <2>1, <2>2, <2>3 DEF JournalFails
<1>10. CASE Crash
  BY <1>4, <1>10 DEF Crash, HistoryTypeOK
<1>11. ASSUME NEW s \in Signals, SubmitStep(s) PROVE HistoryTypeOK'
  BY <1>1, <1>11
  DEF SubmitStep, RiskCheck, RecordSignal, ChoosePrimary, ChooseFailover,
      InsertOrder, InsertSlice, Wake
<1>12. ASSUME NEW o \in Orders, BrokerStep(o) \/ NetworkFails(o)
       PROVE  HistoryTypeOK'
  BY <1>1, <1>12
  DEF BrokerStep, BrokerAccepts, BrokerRefuses, BrokerProgress, NetworkFails,
      Timeout, OtherFailure
<1>13. ASSUME NEW h \in Handlers, NEW o \in Orders, Poll(h, o)
       PROVE  HistoryTypeOK'
  BY <1>1, <1>13 DEF Poll
<1>14. CASE UNCHANGED vars
  BY <1>1, <1>14 DEF vars
<1> QED
  BY <1>6, <1>7, <1>8, <1>9, <1>10, <1>11, <1>12, <1>13, <1>14 DEF Next

LEMMA TypeStep == TypeOK /\ StageOK /\ [Next]_vars => TypeOK' /\ StageOK'
BY CoreStep, SenderStep, HistoryStep DEF TypeOK, CoreTypeOK, StageOK

(* Every variable keeps its type: no handler reads an object, a report or a  *)
(* slice that does not exist, whatever the interleaving.                     *)
THEOREM TypeCorrect == Spec => []TypeOK
<1>1. Init => TypeOK /\ StageOK
  BY TypeInit
<1>2. TypeOK /\ StageOK /\ [Next]_vars => TypeOK' /\ StageOK'
  BY TypeStep
<1> QED
  BY <1>1, <1>2, PTL DEF Spec
=============================================================================
