-------------------------- MODULE OrderJournalProofs --------------------------
(* Theorems about what the journal's order table says of the broker's        *)
(* orders and what the gateway holds of them, for every value of             *)
(* OrderGateway's constants: with any number of pollers, overlapping and     *)
(* failing transactions, crashes, timeouts and lost reports, unless a        *)
(* theorem says otherwise.                                                   *)
EXTENDS OrderGatewayProofs

Early  == {"idle", "recording", "refusing"}
Routed == {"routing", "failover", "inserting", "sending", "slicing",
           "sleeping"}

(* An order is worked on only after its signal row was written as approved.  *)
SignalStage ==
  /\ \A s \in Signals : phase[s] \in Routed => signalRow[s] = "approved"
  /\ \A o \in Orders : send[o] # "none" =>
       phase[o[1]] \notin Early /\ signalRow[o[1]] = "approved"

(* An order that submit(), or the TWAP task, has yet to insert is unknown to *)
(* _send.                                                                    *)
FutureStage ==
  \A o \in Orders :
    /\ phase[o[1]] \in Early \cup {"routing", "failover", "inserting"}
         => send[o] = "none"
    /\ phase[o[1]] = "slicing" /\ o[2] >= slice[o[1]] => send[o] = "none"
    /\ phase[o[1]] \in {"sending", "sleeping"} /\ o[2] > slice[o[1]]
         => send[o] = "none"

(* A POST is made after the upsert of PENDING, and is answered only once.    *)
PostStage ==
  \A o \in Orders :
    /\ reply[o] # "none" => send[o] = "await"
    /\ reply[o] \in Status => br[o] # Absent
    /\ reply[o] \in Terminal => br[o].st = reply[o]
    /\ reply[o] # "none" \/ late[o] \/ br[o] # Absent =>
         send[o] \notin {"none", "write"} /\ row[o].st \notin {"NONE", "NEW"}

(* Order objects, and the rows and images taken from them, by stage.         *)
RecordStage ==
  \A o \in Orders :
    /\ mem[o].st = "NEW" => send[o] = "none"
    /\ send[o] = "write" => mem[o].st = "PENDING" /\ row[o].st = "NEW"
    /\ image[o].st # "NEW" /\ br[o].st # "NEW"

(* How a broker's record b may become c: it gains quantity, it never         *)
(* disappears, and a terminal one is final.                                  *)
Extends(b, c) ==
  /\ b.filled <= c.filled
  /\ b # Absent => c # Absent
  /\ b.st \in Terminal => c = b

(* What a record r of an order may claim when the broker's is b: no more     *)
(* than the broker has done.                                                 *)
Mirrored(b, r) ==
  /\ r.filled <= b.filled
  /\ r.st \notin {"NONE", "NEW", "PENDING", "REJECTED"} => b # Absent
  /\ r.st \in Terminal \ {"REJECTED"} => r.st = b.st

MirrorStage ==
  \A o \in Orders : /\ Mirrored(br[o], row[o]) /\ Mirrored(br[o], mem[o])
                    /\ Mirrored(br[o], image[o])

(* What a report says: a terminal one is the broker's last.                  *)
Said(b, r) == b # Absent /\ r.st # "NEW" /\ Mirrored(b, r)
Told(b, r) == Said(b, r) /\ (r.st \in Terminal => r = b)

(* Every report under way was said by the broker; a call that has staged its *)
(* update holds the values of the Order object instead.                      *)
ReportStage ==
  /\ \A i \in 1 .. Len(feed) : Told(br[feed[i].o], feed[i].rec)
  /\ \A h \in Handlers : hand[h].pc # "idle" =>
       /\ Said(br[hand[h].o], hand[h].rec)
       /\ hand[h].pc # "commit" => Told(br[hand[h].o], hand[h].rec)

JournalInv == /\ SignalStage /\ FutureStage /\ PostStage
              /\ RecordStage /\ MirrorStage /\ ReportStage

LEMMA Words ==
  /\ {"none", "waiting", "refused", "NONE"} \cap Status = {}
  /\ Terminal \subseteq Status /\ Active \subseteq Status
  /\ Active \cap (Terminal \cup {"NEW"}) = {}
  /\ {"NONE", "NEW", "PENDING", "OPEN"} \cap Terminal = {}
  /\ {"FILLED", "REJECTED"} \subseteq Terminal
BY DEF Status, Active, Terminal

LEMMA FirstRecords ==
  ASSUME NEW b \in Rec \cup {Absent}, NEW st \in {"NEW", "PENDING"}
  PROVE  Mirrored(b, Absent) /\ Mirrored(b, [st |-> st, filled |-> 0])
BY GatewayAssumption, Words DEF Mirrored, Rec, Record, Absent

LEMMA MirrorExtends ==
  ASSUME NEW b \in Rec \cup {Absent}, NEW c \in Rec, NEW r \in Rec \cup {Absent},
         Extends(b, c)
  PROVE  /\ Mirrored(b, r) => Mirrored(c, r)
         /\ Said(b, r) => Said(c, r)
         /\ Told(b, r) => Told(c, r)
<1>1. {b.filled, c.filled, r.filled} \subseteq Nat
  BY GatewayAssumption DEF Rec, Record, Absent
<1>2. b = Absent => r.st \notin Terminal \ {"REJECTED"} \/ ~Mirrored(b, r)
  BY Words DEF Mirrored, Absent
<1>3. Mirrored(b, r) => Mirrored(c, r)
  BY <1>1, <1>2, Words DEF Mirrored, Extends, Absent
<1> QED
  BY <1>3, Words DEF Said, Told, Extends

(* The broker's two steps, as one.                                           *)
LEMMA BrokerMoves ==
  ASSUME WireTypeOK, NEW o \in Orders, BrokerAccepts(o) \/ BrokerProgress(o)
  PROVE  \E rec \in Rec :
           /\ br' = [br EXCEPT ![o] = rec] /\ Report(o, rec)
           /\ Extends(br[o], rec) /\ rec.st # "NEW" /\ rec # Absent
<1>1. CASE BrokerAccepts(o)
  <2>1. PICK st \in {"PENDING", "OPEN", "REJECTED", "FILLED"} :
               br' = [br EXCEPT ![o] = Accepted(st)] /\ Report(o, Accepted(st))
    BY <1>1, AcceptFacts DEF BrokerAccepts
  <2>2. Accepted(st) \in Rec /\ Accepted(st) # Absent /\ Accepted(st).st = st
    BY <2>1, AcceptFacts
  <2>3. Extends(Absent, Accepted(st))
    BY <2>2, GatewayAssumption, Words
    DEF Extends, Absent, Rec, Record
  <2> QED
    BY <1>1, <2>1, <2>2, <2>3 DEF BrokerAccepts
<1>2. CASE BrokerProgress(o)
  <2>1. PICK st \in Status, filled \in 0 .. Qty :
          /\ <<br[o].st, st>> \in BrokerSteps
          /\ CASE st = "FILLED"           -> filled = Qty
               [] st = "PARTIALLY_FILLED" -> br[o].filled < filled /\ filled < Qty
               [] OTHER                   -> filled = br[o].filled
          /\ br' = [br EXCEPT ![o] = [st |-> st, filled |-> filled]]
          /\ Report(o, [st |-> st, filled |-> filled])
    BY <1>2 DEF BrokerProgress
  <2> DEFINE rec == [st |-> st, filled |-> filled]
  <2>2. br[o].st \in Active /\ st \in Status \ {"NEW", "PENDING"}
    BY <2>1, GatewayAssumption
  <2>3. br[o].filled \in 0 .. Qty /\ br[o].filled <= filled
    BY <1>2, <2>1, GatewayAssumption DEF WireTypeOK, BrokerProgress, Rec, Record
  <2>4. rec \in Rec /\ rec # Absent
    BY <2>1, Words DEF Rec, Record, Absent
  <2>5. Extends(br[o], rec)
    BY <2>2, <2>3, <2>4, Words DEF Extends
  <2> QED
    BY <2>1, <2>2, <2>4, <2>5
<1> QED
  BY <1>1, <1>2

(* A write of the changed columns takes each from one of the two records.    *)
LEMMA ColumnsMixed ==
  ASSUME OrderTypeOK, NEW o \in Orders, NEW old, NEW rec \in Rec,
         UpdateColumns(o, old, rec)
  PROVE  /\ row' = [row EXCEPT ![o] = row'[o]] /\ row'[o] \in Rec
         /\ row[o] = Absent => row'[o] = rec
         /\ row'[o].st \in {row[o].st, rec.st}
         /\ row'[o].filled \in {row[o].filled, rec.filled}
         /\ row[o].st # "NONE" \/ row'[o] = rec
<1> DEFINE new == IF row[o] = Absent THEN rec
                  ELSE [st     |-> IF rec.st = old.st THEN row[o].st ELSE rec.st,
                        filled |-> IF rec.filled = old.filled THEN row[o].filled
                                                              ELSE rec.filled]
<1>1. row' = [row EXCEPT ![o] = new] /\ row'[o] = new
  BY DEF UpdateColumns, OrderTypeOK
<1>2. new \in Rec /\ new.st \in {row[o].st, rec.st}
      /\ new.filled \in {row[o].filled, rec.filled}
  BY DEF OrderTypeOK, Rec, Record
<1>3. row[o].st = "NONE" => row[o] = Absent
  BY RecordFacts, Words DEF OrderTypeOK
<1> HIDE DEF new
<1> QED
  BY <1>1, <1>2, <1>3 DEF new

-----------------------------------------------------------------------------
LEMMA SignalStep ==
  TypeOK /\ StageOK /\ SignalStage /\ [Next]_vars => SignalStage'
<1> SUFFICES ASSUME SubmitTypeOK, OrderTypeOK, SendStage, SignalStage,
                    [Next]_vars
             PROVE  SignalStage'
  BY DEF TypeOK, StageOK, CoreStage
<1> USE DEF submitVars, txVars, orderVars, wireVars, brokerVars
<1>1. CASE UNCHANGED <<phase, signalRow, send>>
  BY <1>1 DEF SignalStage
<1>2. ASSUME NEW s \in Signals,
             \/ RiskCheck(s) \/ RecordSignal(s) \/ ChoosePrimary(s)
             \/ ChooseFailover(s) \/ Wake(s)
      PROVE  SignalStage'
  BY <1>2, Owner
  DEF RiskCheck, RecordSignal, ChoosePrimary, ChooseFailover, Wake,
      SignalStage, Early, Routed, SubmitTypeOK
<1>3. ASSUME NEW s \in Signals, InsertOrder(s) \/ InsertSlice(s)
      PROVE  SignalStage'
  BY <1>3, Owner, OrderNames
  DEF InsertOrder, InsertSlice, StartOrder, SignalStage, Early, Routed,
      SubmitTypeOK, OrderTypeOK
<1>4. ASSUME NEW o \in Orders, WritePending(o) \/ AnswerArrives(o)
      PROVE  SignalStage'
  BY <1>4, Owner
  DEF WritePending, AnswerArrives, Answered, Resolve, Raise, SignalStage,
      Early, Routed, SubmitTypeOK, OrderTypeOK
<1>5. ASSUME NEW o \in Orders, NetworkFails(o) PROVE SignalStage'
  BY <1>5, Owner
  DEF NetworkFails, Timeout, OtherFailure, Resolve, Raise, SignalStage,
      Early, Routed, SubmitTypeOK, OrderTypeOK
<1>6. ASSUME NEW o \in Orders, StageResult(o) \/ CommitResult(o)
      PROVE  SignalStage'
  BY <1>6, Owner
  DEF StageResult, CommitResult, Return, SignalStage, Early, Routed,
      SubmitTypeOK, OrderTypeOK
<1>7. CASE Crash
  BY <1>7, Owner
  DEF Crash, SignalStage, Early, Routed, Ended, SubmitTypeOK, OrderTypeOK
<1>8. ASSUME NEW o \in Orders, BrokerStep(o) PROVE SignalStage'
  BY <1>1, <1>8
  DEF BrokerStep, BrokerAccepts, BrokerRefuses, BrokerProgress
<1>9. ASSUME NEW h \in Handlers, HandleStep(h) \/ \E o \in Orders : Poll(h, o)
      PROVE  SignalStage'
  BY <1>1, <1>9
  DEF HandleStep, Receive, Rehydrate, StageUpdate, CommitUpdate, Poll
<1>10. CASE LoseReport \/ UNCHANGED vars
  BY <1>1, <1>10 DEF LoseReport, vars
<1>11. CASE JournalFails
  BY <1>1, <1>11, Owner
  DEF JournalFails, SubmitRollsBack, SendRollsBack, HandleRollsBack, Raise,
      SignalStage, Early, Routed, SubmitTypeOK, OrderTypeOK
<1> QED
  BY <1>2, <1>3, <1>4, <1>5, <1>6, <1>7, <1>8, <1>9, <1>10, <1>11
  DEF Next, SubmitStep, SendStep

LEMMA FutureStep ==
  TypeOK /\ StageOK /\ FutureStage /\ [Next]_vars => FutureStage'
<1> SUFFICES ASSUME SubmitTypeOK, OrderTypeOK, SendStage, TaskStage,
                    FutureStage, [Next]_vars
             PROVE  FutureStage'
  BY DEF TypeOK, StageOK, CoreStage
<1> USE DEF submitVars, txVars, orderVars, wireVars, brokerVars
<1>1. CASE UNCHANGED <<phase, slice, send>>
  BY <1>1 DEF FutureStage
<1>2. ASSUME NEW s \in Signals,
             \/ RiskCheck(s) \/ RecordSignal(s) \/ ChoosePrimary(s)
             \/ ChooseFailover(s) \/ Wake(s)
      PROVE  FutureStage'
  BY <1>2, OrderParts, Bounds
  DEF RiskCheck, RecordSignal, ChoosePrimary, ChooseFailover, Wake,
      FutureStage, Early, SubmitTypeOK
<1>3. ASSUME NEW s \in Signals, InsertOrder(s) PROVE FutureStage'
  BY <1>3, OrderParts, OrderNames, Bounds
  DEF InsertOrder, StartOrder, FutureStage, Early, TaskStage, SubmitTypeOK,
      OrderTypeOK
<1>4. ASSUME NEW s \in Signals, InsertSlice(s) PROVE FutureStage'
  BY <1>4, OrderParts, OrderNames, Bounds
  DEF InsertSlice, StartOrder, FutureStage, Early, TaskStage, SubmitTypeOK,
      OrderTypeOK
<1>5. ASSUME NEW o \in Orders, WritePending(o) \/ AnswerArrives(o)
      PROVE  FutureStage'
  BY <1>5, OrderParts
  DEF WritePending, AnswerArrives, Answered, Resolve, Raise, FutureStage,
      Early, SendStage, SubmitTypeOK, OrderTypeOK
<1>6. ASSUME NEW o \in Orders, NetworkFails(o) PROVE FutureStage'
  BY <1>6, OrderParts
  DEF NetworkFails, Timeout, OtherFailure, Resolve, Raise, FutureStage,
      Early, SendStage, SubmitTypeOK, OrderTypeOK
<1>7. ASSUME NEW o \in Orders, StageResult(o) PROVE FutureStage'
  BY <1>7, OrderParts
  DEF StageResult, FutureStage, Early, SendStage, SubmitTypeOK, OrderTypeOK
<1>8. ASSUME NEW o \in Orders, CommitResult(o) PROVE FutureStage'
  <2>1. /\ phase[o[1]] = "sending" /\ slice[o[1]] = o[2]
        /\ send' = [send EXCEPT ![o] = "sent"]
        /\ \E st \in {"done", "sleeping"} : phase' = [phase EXCEPT ![o[1]] = st]
        /\ slice' = slice
    BY <1>8 DEF CommitResult, Return, SendStage
  <2> QED
    BY <2>1, OrderParts DEF FutureStage, Early, SubmitTypeOK, OrderTypeOK
<1>9. CASE Crash
  BY <1>9, Owner
  DEF Crash, FutureStage, Early, Ended, SubmitTypeOK, OrderTypeOK
<1>10. ASSUME NEW o \in Orders, BrokerStep(o) PROVE FutureStage'
  BY <1>1, <1>10
  DEF BrokerStep, BrokerAccepts, BrokerRefuses, BrokerProgress
<1>11. ASSUME NEW h \in Handlers, HandleStep(h) \/ \E o \in Orders : Poll(h, o)
       PROVE  FutureStage'
  BY <1>1, <1>11
  DEF HandleStep, Receive, Rehydrate, StageUpdate, CommitUpdate, Poll
<1>12. CASE LoseReport \/ UNCHANGED vars
  BY <1>1, <1>12 DEF LoseReport, vars
<1>13. ASSUME NEW s \in Signals, SubmitRollsBack(s) PROVE FutureStage'
  BY <1>13, Owner
  DEF SubmitRollsBack, FutureStage, Early, SubmitTypeOK
<1>14. ASSUME NEW o \in Orders, SendRollsBack(o) PROVE FutureStage'
  BY <1>14, OrderParts
  DEF SendRollsBack, Raise, FutureStage, Early, SubmitTypeOK, OrderTypeOK
<1>15. CASE JournalFails
  BY <1>1, <1>13, <1>14, <1>15 DEF JournalFails, HandleRollsBack
<1> QED
  BY <1>2, <1>3, <1>4, <1>5, <1>6, <1>7, <1>8, <1>9, <1>10, <1>11, <1>12,
     <1>15
  DEF Next, SubmitStep, SendStep

(* How place_order ends: with a legal status, and what it claims is so.      *)
LEMMA Outcomes ==
  ASSUME WireTypeOK, PostStage, NEW o \in Orders,
         reply[o] \notin {"none", "waiting"}
  PROVE  /\ Outcome(reply[o]) \in Status
         /\ Outcome(reply[o]) \notin {"NEW", "PENDING", "REJECTED"}
              => br[o] # Absent
         /\ Outcome(reply[o]) \in Terminal \ {"REJECTED"}
              => br[o].st = Outcome(reply[o])
         /\ Outcome(reply[o]) = "REJECTED"
              => reply[o] = "refused" \/ br[o].st = "REJECTED"
BY RecordFacts, Words DEF WireTypeOK, PostStage, Outcome

LEMMA PostStep ==
  TypeOK /\ StageOK /\ JournalInv /\ [Next]_vars => PostStage'
<1> SUFFICES ASSUME SubmitTypeOK, OrderTypeOK, WireTypeOK, HandTypeOK, SendStage,
                    AwaitStage, TaskStage, SenderStage, FutureStage, PostStage,
                    RecordStage, ReportStage, [Next]_vars
             PROVE  PostStage'
  BY DEF TypeOK, StageOK, CoreStage, JournalInv
<1> USE DEF submitVars, txVars, orderVars, wireVars, brokerVars
<1>1. CASE UNCHANGED <<reply, send, br, late, row>>
  BY <1>1 DEF PostStage
<1>2. ASSUME NEW o \in Orders, send[o] = "none",
             row' = [row EXCEPT ![o] = [st |-> "NEW", filled |-> 0]],
             send' = send \/ send' = [send EXCEPT ![o] = "write"],
             UNCHANGED <<reply, br, late>>
      PROVE  PostStage'
  BY <1>2 DEF PostStage, OrderTypeOK
<1>3. ASSUME NEW s \in Signals, InsertOrder(s) PROVE PostStage'
  <2>1. <<s, 0>> \in Orders /\ send[<<s, 0>>] = "none"
    BY <1>3, OrderNames DEF InsertOrder, FutureStage
  <2> QED
    BY <1>2, <1>3, <2>1 DEF InsertOrder, StartOrder, Upsert
<1>4. ASSUME NEW s \in Signals, InsertSlice(s) PROVE PostStage'
  <2>1. <<s, slice[s]>> \in Orders
    BY <1>4, OrderNames DEF InsertSlice, TaskStage, SubmitTypeOK
  <2>2. send[<<s, slice[s]>>] = "none"
    BY <1>4, <2>1, Bounds DEF InsertSlice, FutureStage, SubmitTypeOK
  <2> QED
    BY <1>2, <1>4, <2>1, <2>2 DEF InsertSlice, StartOrder, Upsert
<1>5. ASSUME NEW o \in Orders, WritePending(o) PROVE PostStage'
  <2>1. /\ row' = [row EXCEPT ![o] = mem[o]] /\ mem[o].st = "PENDING"
        /\ \/ /\ send' = [send EXCEPT ![o] = "await"]
              /\ reply' = [reply EXCEPT ![o] = "waiting"]
           \/ send' = [send EXCEPT ![o] = "raised"] /\ UNCHANGED reply
        /\ send[o] = "write" /\ UNCHANGED <<br, late>>
    BY <1>5 DEF WritePending, Upsert, Raise, RecordStage
  <2> QED
    BY <2>1, Words DEF PostStage, OrderTypeOK, WireTypeOK
<1>6. ASSUME NEW o \in Orders,
             AnswerArrives(o) \/ Timeout(o) \/ OtherFailure(o)
      PROVE  PostStage'
  <2>1. /\ send[o] = "await" /\ reply[o] # "none" /\ UNCHANGED <<br, row>>
        /\ \/ /\ reply' = [reply EXCEPT ![o] = "none"]
              /\ \E pc \in {"result", "raised"} :
                   send' = [send EXCEPT ![o] = pc]
           \/ reply' = [reply EXCEPT ![o] = "waiting"] /\ UNCHANGED send
        /\ late' = late \/ late' = [late EXCEPT ![o] = @ \/ reply[o] = "waiting"]
    BY <1>6
    DEF AnswerArrives, Answered, Timeout, OtherFailure, Resolve, Raise,
        AwaitStage
  <2> QED
    BY <2>1, Words DEF PostStage, OrderTypeOK, WireTypeOK
<1>7. ASSUME NEW o \in Orders, StageResult(o) PROVE PostStage'
  BY <1>7 DEF StageResult, PostStage, OrderTypeOK
<1>8. ASSUME NEW o \in Orders, CommitResult(o) PROVE PostStage'
  <2>1. /\ image[o] \in Rec /\ image[o].st \notin {"NEW", "NONE"}
        /\ send' = [send EXCEPT ![o] = "sent"] /\ send[o] = "commit"
        /\ UNCHANGED <<reply, br, late>>
    BY <1>8, RecordFacts, Words
    DEF CommitResult, Return, SenderStage, RecordStage, OrderTypeOK
  <2>2. UpdateColumns(o, seen[o], image[o])
    BY <1>8 DEF CommitResult
  <2>3. /\ row' = [row EXCEPT ![o] = row'[o]]
        /\ row'[o].st \in {row[o].st, image[o].st}
    BY <2>1, <2>2, ColumnsMixed
  <2> QED
    BY <2>1, <2>3 DEF PostStage, OrderTypeOK
<1>9. ASSUME NEW o \in Orders, BrokerAccepts(o) PROVE PostStage'
  <2>1. PICK rec \in Rec : br' = [br EXCEPT ![o] = rec] /\ rec # Absent
    BY <1>9, BrokerMoves
  <2>2. \/ /\ reply[o] = "waiting" /\ reply' = [reply EXCEPT ![o] = rec.st]
           /\ UNCHANGED late
        \/ late[o] /\ late' = [late EXCEPT ![o] = FALSE] /\ UNCHANGED reply
    <3>1. PICK st \in AckStatus(o[1]) :
            /\ br' = [br EXCEPT ![o] = Accepted(st)]
            /\ \/ /\ reply[o] = "waiting"
                  /\ reply' = [reply EXCEPT ![o] = st] /\ UNCHANGED late
               \/ /\ late[o] /\ late' = [late EXCEPT ![o] = FALSE]
                  /\ UNCHANGED reply
      BY <1>9 DEF BrokerAccepts
    <3>2. Accepted(st) = rec
      BY <2>1, <3>1 DEF WireTypeOK
    <3>3. Accepted(st).st = st
      BY AcceptFacts
    <3> QED
      BY <3>1, <3>2, <3>3
  <2>3. br[o] = Absent /\ UNCHANGED <<send, row>> /\ rec.st \in Status
    BY <1>9, <2>1, RecordFacts DEF BrokerAccepts
  <2>4. reply[o] \notin Terminal
    BY <2>3, RecordFacts, Words DEF PostStage
  <2> QED
    BY <2>1, <2>2, <2>3, <2>4, Words DEF PostStage, WireTypeOK
<1>10. ASSUME NEW o \in Orders, BrokerProgress(o) PROVE PostStage'
  <2>1. PICK rec \in Rec : /\ br' = [br EXCEPT ![o] = rec] /\ rec # Absent
                           /\ Extends(br[o], rec)
    BY <1>10, BrokerMoves
  <2>2. br[o] # Absent /\ UNCHANGED <<reply, send, late, row>>
    BY <1>10 DEF BrokerProgress
  <2> QED
    BY <2>1, <2>2 DEF PostStage, Extends, WireTypeOK
<1>11. ASSUME NEW o \in Orders, BrokerRefuses(o) PROVE PostStage'
  BY <1>11, Words DEF BrokerRefuses, PostStage, WireTypeOK
<1>12. ASSUME NEW h \in Handlers, CommitUpdate(h) PROVE PostStage'
  <2> DEFINE o == hand[h].o
             rec == hand[h].rec
  <2>1. o \in Orders /\ rec \in Rec /\ UpdateColumns(o, callSeen[h], rec)
        /\ hand[h].pc # "idle"
    BY <1>12, CallUnderWay DEF CommitUpdate
  <2>2. rec.st \notin {"NEW", "NONE"}
    BY <2>1, RecordFacts, Words DEF ReportStage, Said
  <2> HIDE DEF o, rec
  <2>3. /\ row' = [row EXCEPT ![o] = row'[o]]
        /\ row'[o].st \in {row[o].st, rec.st}
    BY <2>1, ColumnsMixed
  <2>4. UNCHANGED <<reply, send, br, late>>
    BY <1>12 DEF CommitUpdate
  <2> QED
    BY <2>1, <2>2, <2>3, <2>4 DEF PostStage, OrderTypeOK
<1>13. CASE Crash
  BY <1>13, Words DEF Crash, PostStage, OrderTypeOK, WireTypeOK
<1>14. ASSUME NEW s \in Signals, SubmitStep(s) PROVE PostStage'
  BY <1>1, <1>3, <1>4, <1>14
  DEF SubmitStep, RiskCheck, RecordSignal, ChoosePrimary, ChooseFailover, Wake
<1>15. ASSUME NEW h \in Handlers, HandleStep(h) \/ \E o \in Orders : Poll(h, o)
       PROVE  PostStage'
  BY <1>1, <1>12, <1>15
  DEF HandleStep, Receive, Rehydrate, StageUpdate, Poll
<1>16. CASE LoseReport \/ UNCHANGED vars
  BY <1>1, <1>16 DEF LoseReport, vars
<1>17. ASSUME NEW o \in Orders, SendRollsBack(o) PROVE PostStage'
  BY <1>17 DEF SendRollsBack, Raise, PostStage, OrderTypeOK
<1>18. CASE JournalFails
  BY <1>1, <1>17, <1>18 DEF JournalFails, SubmitRollsBack, HandleRollsBack
<1> QED
  BY <1>5, <1>6, <1>7, <1>8, <1>9, <1>10, <1>11, <1>13, <1>14, <1>15, <1>16,
     <1>18
  DEF Next, SendStep, BrokerStep, NetworkFails

(* A call of on_broker_update begins with what the broker said.              *)
Source(h, o, rec) ==
  \/ /\ hand[h] = Idle /\ 1 \in 1 .. Len(feed)
     /\ o = feed[1].o /\ rec = feed[1].rec
  \/ hand[h].pc = "polled" /\ o = hand[h].o /\ rec = hand[h].rec

LEMMA Received ==
  ASSUME WireTypeOK, HandTypeOK, ReportStage, NEW h \in Handlers, Receive(h)
  PROVE  \E o \in Orders, rec \in Rec :
           Deliver(h, o, rec) /\ Told(br[o], rec) /\ Source(h, o, rec)
<1>1. CASE hand[h].pc = "polled" /\ Deliver(h, hand[h].o, hand[h].rec)
  BY <1>1, CallUnderWay DEF ReportStage, Source
<1>2. CASE /\ hand[h] = Idle /\ feed # <<>>
           /\ Deliver(h, Head(feed).o, Head(feed).rec)
  <2>1. 1 \in 1 .. Len(feed) /\ Head(feed) = feed[1]
    BY <1>2, EmptySeq, HeadTailProperties DEF WireTypeOK
  <2>2. Head(feed).o \in Orders /\ Head(feed).rec \in Rec
    BY <1>2, NextReport
  <2> QED
    BY <1>2, <2>1, <2>2 DEF ReportStage, Source
<1> QED
  BY <1>1, <1>2 DEF Receive

LEMMA RecordStep ==
  TypeOK /\ StageOK /\ JournalInv /\ [Next]_vars => RecordStage'
<1> SUFFICES ASSUME SubmitTypeOK, OrderTypeOK, WireTypeOK, HandTypeOK, SendStage,
                    AwaitStage, TaskStage, SenderStage, FutureStage, PostStage,
                    RecordStage, ReportStage, [Next]_vars
             PROVE  RecordStage'
  BY DEF TypeOK, StageOK, CoreStage, JournalInv
<1> USE DEF submitVars, txVars, orderVars, wireVars, brokerVars
<1>1. CASE UNCHANGED <<send, mem, row, image, br>>
  BY <1>1 DEF RecordStage
<1>2. ASSUME NEW o \in Orders, StartOrder(o), UNCHANGED <<image, br>>
      PROVE  RecordStage'
  BY <1>2 DEF StartOrder, Upsert, RecordStage, OrderTypeOK
<1>3. ASSUME NEW s \in Signals, InsertOrder(s) PROVE RecordStage'
  <2>1. <<s, 0>> \in Orders /\ send[<<s, 0>>] = "none"
    BY <1>3, OrderNames DEF InsertOrder, FutureStage
  <2>2. CASE s \in Sliced
    BY <1>3, <2>1, <2>2 DEF InsertOrder, Upsert, RecordStage, OrderTypeOK
  <2>3. CASE s \notin Sliced
    BY <1>2, <1>3, <2>1, <2>3 DEF InsertOrder
  <2> QED
    BY <2>2, <2>3
<1>4. ASSUME NEW s \in Signals, InsertSlice(s) PROVE RecordStage'
  <2>1. <<s, slice[s]>> \in Orders
    BY <1>4, OrderNames DEF InsertSlice, TaskStage, SubmitTypeOK
  <2> QED
    BY <1>2, <1>4, <2>1 DEF InsertSlice
<1>5. ASSUME NEW o \in Orders, WritePending(o) PROVE RecordStage'
  BY <1>5 DEF WritePending, Upsert, Raise, RecordStage, OrderTypeOK
<1>6. ASSUME NEW o \in Orders,
             AnswerArrives(o) \/ Timeout(o) \/ OtherFailure(o)
      PROVE  RecordStage'
  <2>1. /\ send[o] = "await" /\ UNCHANGED <<row, image, br>>
        /\ \/ UNCHANGED <<send, mem>>
           \/ send' = [send EXCEPT ![o] = "raised"] /\ UNCHANGED mem
           \/ \E st : /\ send' = [send EXCEPT ![o] = "result"]
                      /\ mem' = [mem EXCEPT ![o].st = st]
                      /\ Legal(mem[o].st, st) /\ st \in Status
    <3>1. AnswerArrives(o) => Outcome(reply[o]) \in Status
      BY Outcomes DEF AnswerArrives, Answered, AwaitStage
    <3>2. GivenUp \in Status
      BY RecordFacts DEF GivenUp
    <3> QED
      BY <1>6, <3>1, <3>2
      DEF AnswerArrives, Answered, Timeout, OtherFailure, Resolve, Raise
  <2>2. mem[o] \in Rec /\ mem[o].st # "NEW"
    BY <2>1 DEF SenderStage, RecordStage, OrderTypeOK
  <2>3. \A st \in Status : Legal(mem[o].st, st) => st # "NEW"
    BY <2>2, RecordFacts DEF Legal, ALLOWED, Status, Active, Terminal
  <2>4. \A st \in Status : mem' = [mem EXCEPT ![o].st = st] => mem'[o].st = st
    BY <2>2, RecordUpdate DEF OrderTypeOK
  <2> QED
    BY <2>1, <2>3, <2>4 DEF RecordStage, OrderTypeOK
<1>7. ASSUME NEW o \in Orders, StageResult(o) PROVE RecordStage'
  BY <1>7 DEF StageResult, RecordStage, OrderTypeOK
<1>8. ASSUME NEW o \in Orders, CommitResult(o) PROVE RecordStage'
  <2>1. /\ send[o] = "commit" /\ send' = [send EXCEPT ![o] = "sent"]
        /\ image' = [image EXCEPT ![o] = Absent] /\ image[o] \in Rec
        /\ UNCHANGED <<mem, br>>
    BY <1>8, RecordFacts
    DEF CommitResult, Return, SenderStage, OrderTypeOK
  <2>2. UpdateColumns(o, seen[o], image[o])
    BY <1>8 DEF CommitResult
  <2>3. row' = [row EXCEPT ![o] = row'[o]]
    BY <2>1, <2>2, ColumnsMixed
  <2> QED
    BY <2>1, <2>3, RecordFacts DEF RecordStage, OrderTypeOK
<1>9. ASSUME NEW o \in Orders, BrokerAccepts(o) \/ BrokerProgress(o)
      PROVE  RecordStage'
  <2>1. PICK rec \in Rec : br' = [br EXCEPT ![o] = rec] /\ rec.st # "NEW"
    BY <1>9, BrokerMoves
  <2>2. UNCHANGED <<send, mem, row, image>>
    BY <1>9 DEF BrokerAccepts, BrokerProgress
  <2> QED
    BY <2>1, <2>2 DEF RecordStage, WireTypeOK
<1>10. ASSUME NEW h \in Handlers, Receive(h) PROVE RecordStage'
  <2>1. PICK o \in Orders, rec \in Rec :
          Deliver(h, o, rec) /\ rec.st # "NEW" /\ br[o] # Absent
    BY <1>10, Received DEF Told, Said
  <2>2. send[o] \notin {"none", "write"}
    BY <2>1 DEF PostStage
  <2>3. mem' = mem \/ mem' = [mem EXCEPT ![o] = rec]
    BY <2>1 DEF Deliver
  <2>4. UNCHANGED <<send, row, image, br>>
    BY <1>10 DEF Receive
  <2> QED
    BY <2>1, <2>2, <2>3, <2>4 DEF RecordStage, OrderTypeOK
<1>11. ASSUME NEW h \in Handlers, CommitUpdate(h) PROVE RecordStage'
  <2> DEFINE o == hand[h].o
             rec == hand[h].rec
  <2>1. o \in Orders /\ rec \in Rec /\ UpdateColumns(o, callSeen[h], rec)
        /\ hand[h].pc # "idle"
    BY <1>11, CallUnderWay DEF CommitUpdate
  <2>2. send[o] \notin {"none", "write"}
    BY <2>1 DEF ReportStage, Said, PostStage
  <2> HIDE DEF o, rec
  <2>3. row' = [row EXCEPT ![o] = row'[o]]
    BY <2>1, ColumnsMixed
  <2>4. UNCHANGED <<send, mem, image, br>>
    BY <1>11 DEF CommitUpdate
  <2> QED
    BY <2>1, <2>2, <2>3, <2>4 DEF RecordStage, OrderTypeOK
<1>12. CASE Crash
  BY <1>12, RecordFacts DEF Crash, RecordStage, OrderTypeOK
<1>13. ASSUME NEW s \in Signals, SubmitStep(s) PROVE RecordStage'
  BY <1>1, <1>3, <1>4, <1>13
  DEF SubmitStep, RiskCheck, RecordSignal, ChoosePrimary, ChooseFailover, Wake
<1>14. ASSUME NEW h \in Handlers, HandleStep(h) \/ \E o \in Orders : Poll(h, o)
       PROVE  RecordStage'
  BY <1>1, <1>10, <1>11, <1>14 DEF HandleStep, Rehydrate, StageUpdate, Poll
<1>15. ASSUME NEW o \in Orders, BrokerRefuses(o) PROVE RecordStage'
  BY <1>1, <1>15 DEF BrokerRefuses
<1>16. CASE LoseReport \/ UNCHANGED vars
  BY <1>1, <1>16 DEF LoseReport, vars
<1>17. ASSUME NEW o \in Orders, SendRollsBack(o) PROVE RecordStage'
  BY <1>17, RecordFacts DEF SendRollsBack, Raise, RecordStage, OrderTypeOK
<1>18. CASE JournalFails
  BY <1>1, <1>17, <1>18 DEF JournalFails, SubmitRollsBack, HandleRollsBack
<1> QED
  BY <1>5, <1>6, <1>7, <1>8, <1>9, <1>12, <1>13, <1>14, <1>15, <1>16, <1>18
  DEF Next, SendStep, BrokerStep, NetworkFails

LEMMA MirrorStep ==
  TypeOK /\ StageOK /\ JournalInv /\ [Next]_vars => MirrorStage'
<1> SUFFICES ASSUME SubmitTypeOK, OrderTypeOK, WireTypeOK, HandTypeOK,
                    AwaitStage, TaskStage, SenderStage, PostStage,
                    MirrorStage, ReportStage, [Next]_vars
             PROVE  MirrorStage'
  BY DEF TypeOK, StageOK, CoreStage, JournalInv
<1> USE DEF submitVars, txVars, orderVars, wireVars, brokerVars
<1>1. CASE UNCHANGED <<row, mem, image, br>>
  BY <1>1 DEF MirrorStage
<1>2. ASSUME NEW o \in Orders, NEW st \in {"NEW", "PENDING"},
             row' = [row EXCEPT ![o] = [st |-> "NEW", filled |-> 0]],
             mem' = [mem EXCEPT ![o] = [st |-> st, filled |-> 0]],
             UNCHANGED <<image, br>>
      PROVE  MirrorStage'
  BY <1>2, FirstRecords DEF MirrorStage, OrderTypeOK, WireTypeOK
<1>3. ASSUME NEW s \in Signals, InsertOrder(s) PROVE MirrorStage'
  BY <1>2, <1>3, OrderNames DEF InsertOrder, StartOrder, Upsert
<1>4. ASSUME NEW s \in Signals, InsertSlice(s) PROVE MirrorStage'
  <2>1. <<s, slice[s]>> \in Orders
    BY <1>4, OrderNames DEF InsertSlice, TaskStage, SubmitTypeOK
  <2> QED
    BY <1>2, <1>4, <2>1 DEF InsertSlice, StartOrder, Upsert
<1>5. ASSUME NEW o \in Orders, WritePending(o) PROVE MirrorStage'
  BY <1>5 DEF WritePending, Upsert, MirrorStage, OrderTypeOK
<1>6. ASSUME NEW o \in Orders, NEW st \in Status, Resolve(o, st),
             st \notin {"NEW", "PENDING", "REJECTED"} => br[o] # Absent,
             st \in Terminal \ {"REJECTED"} => br[o].st = st,
             UNCHANGED <<row, image, br>>
      PROVE  MirrorStage'
  <2>1. ASSUME mem' = [mem EXCEPT ![o].st = st] PROVE Mirrored(br[o], mem'[o])
    BY <1>6, <2>1 DEF OrderTypeOK, MirrorStage, Mirrored, Rec, Record, Absent
  <2> QED
    BY <1>6, <2>1 DEF Resolve, MirrorStage, OrderTypeOK
<1>7. ASSUME NEW o \in Orders, AnswerArrives(o) PROVE MirrorStage'
  <2>1. reply[o] \notin {"none", "waiting"}
    BY <1>7 DEF AnswerArrives, Answered, AwaitStage
  <2> QED
    BY <1>6, <1>7, <2>1, Outcomes DEF AnswerArrives
<1>8. ASSUME NEW o \in Orders, Timeout(o) PROVE MirrorStage'
  <2>1. Resolve(o, GivenUp) \/ UNCHANGED mem
    BY <1>8 DEF Timeout
  <2>2. UNCHANGED <<row, image, br>>
    BY <1>8 DEF Timeout
  <2> QED
    BY <1>1, <1>6, <2>1, <2>2, RecordFacts DEF GivenUp
<1>9. ASSUME NEW o \in Orders, StageResult(o) PROVE MirrorStage'
  BY <1>9 DEF StageResult, MirrorStage, OrderTypeOK
<1>10. ASSUME NEW o \in Orders, NEW old, NEW rec \in Rec,
              UpdateColumns(o, old, rec), Mirrored(br[o], rec),
              \A p \in Orders : image'[p] \in {image[p], Absent},
              UNCHANGED <<mem, br>>
       PROVE  MirrorStage'
  <2>1. row' = [row EXCEPT ![o] = row'[o]]
        /\ row'[o].st \in {row[o].st, rec.st}
        /\ row'[o].filled \in {row[o].filled, rec.filled}
    BY <1>10, ColumnsMixed
  <2>2. Mirrored(br[o], row'[o])
    BY <1>10, <2>1 DEF MirrorStage, Mirrored
  <2>3. \A p \in Orders : Mirrored(br[p], Absent)
    BY FirstRecords DEF WireTypeOK
  <2> QED
    BY <1>10, <2>1, <2>2, <2>3 DEF MirrorStage, OrderTypeOK
<1>11. ASSUME NEW o \in Orders, CommitResult(o) PROVE MirrorStage'
  <2>1. image[o] \in Rec /\ Mirrored(br[o], image[o])
        /\ \A p \in Orders : image'[p] \in {image[p], Absent}
    BY <1>11 DEF CommitResult, SenderStage, OrderTypeOK, MirrorStage
  <2> QED
    BY <1>10, <1>11, <2>1 DEF CommitResult
<1>12. ASSUME NEW h \in Handlers, CommitUpdate(h) PROVE MirrorStage'
  <2> DEFINE o == hand[h].o
             rec == hand[h].rec
  <2>1. o \in Orders /\ rec \in Rec /\ UpdateColumns(o, callSeen[h], rec)
        /\ Mirrored(br[o], rec)
    BY <1>12, CallUnderWay DEF CommitUpdate, ReportStage, Said
  <2>2. UNCHANGED <<mem, image, br>>
    BY <1>12 DEF CommitUpdate
  <2> HIDE DEF o, rec
  <2> QED
    BY <1>10, <2>1, <2>2
<1>13. ASSUME NEW o \in Orders, BrokerAccepts(o) \/ BrokerProgress(o)
       PROVE  MirrorStage'
  <2>1. PICK rec \in Rec : br' = [br EXCEPT ![o] = rec] /\ Extends(br[o], rec)
    BY <1>13, BrokerMoves
  <2>2. UNCHANGED <<row, mem, image>>
    BY <1>13 DEF BrokerAccepts, BrokerProgress
  <2>3. \A r \in Rec \cup {Absent} : Mirrored(br[o], r) => Mirrored(rec, r)
    BY <2>1, MirrorExtends DEF WireTypeOK
  <2> QED
    BY <2>1, <2>2, <2>3 DEF MirrorStage, WireTypeOK, OrderTypeOK
<1>14. ASSUME NEW h \in Handlers, Receive(h) PROVE MirrorStage'
  <2>1. PICK o \in Orders, rec \in Rec :
          Deliver(h, o, rec) /\ Told(br[o], rec)
    BY <1>14, Received
  <2> QED
    BY <1>14, <2>1
    DEF Receive, Deliver, MirrorStage, Told, Said, OrderTypeOK
<1>15. CASE Crash
  <2>1. \A p \in Orders : Mirrored(br[p], Absent)
    BY FirstRecords DEF WireTypeOK
  <2> QED
    BY <1>15, <2>1 DEF Crash, MirrorStage
<1>16. ASSUME NEW s \in Signals, SubmitStep(s) PROVE MirrorStage'
  BY <1>1, <1>3, <1>4, <1>16
  DEF SubmitStep, RiskCheck, RecordSignal, ChoosePrimary, ChooseFailover, Wake
<1>17. ASSUME NEW h \in Handlers, HandleStep(h) \/ \E o \in Orders : Poll(h, o)
       PROVE  MirrorStage'
  BY <1>1, <1>12, <1>14, <1>17 DEF HandleStep, Rehydrate, StageUpdate, Poll
<1>18. ASSUME NEW o \in Orders, BrokerRefuses(o) \/ OtherFailure(o)
       PROVE  MirrorStage'
  BY <1>1, <1>18 DEF BrokerRefuses, OtherFailure
<1>19. CASE LoseReport \/ UNCHANGED vars
  BY <1>1, <1>19 DEF LoseReport, vars
<1>20. ASSUME NEW o \in Orders, SendRollsBack(o) PROVE MirrorStage'
  <2>1. Mirrored(br[o], Absent)
    BY FirstRecords DEF WireTypeOK
  <2> QED
    BY <1>20, <2>1 DEF SendRollsBack, MirrorStage, OrderTypeOK
<1>21. CASE JournalFails
  BY <1>1, <1>20, <1>21 DEF JournalFails, SubmitRollsBack, HandleRollsBack
<1> QED
  BY <1>5, <1>7, <1>8, <1>9, <1>11, <1>13, <1>15, <1>16, <1>17, <1>18, <1>19,
     <1>21
  DEF Next, SendStep, BrokerStep, NetworkFails

(* The reports under way, when the broker's record of one order moves on and *)
(* a report of it may join the others.                                       *)
LEMMA FeedExtends ==
  ASSUME WireTypeOK, ReportStage, NEW o \in Orders, NEW rec \in Rec,
         br' = [br EXCEPT ![o] = rec], Report(o, rec), Extends(br[o], rec),
         rec # Absent, rec.st # "NEW"
  PROVE  \A i \in 1 .. Len(feed') : Told(br'[feed'[i].o], feed'[i].rec)
<1>1. \A p \in Orders, r \in Rec : Told(br[p], r) => Told(br'[p], r)
  BY MirrorExtends DEF WireTypeOK
<1>2. \A i \in 1 .. Len(feed) : Told(br'[feed[i].o], feed[i].rec)
  BY <1>1, ReportNames DEF ReportStage
<1>3. Told(br'[o], rec)
  <2>1. br'[o] = rec /\ rec.filled \in Nat
    BY GatewayAssumption DEF WireTypeOK, Rec, Record
  <2> QED
    BY <2>1, Words DEF Told, Said, Mirrored
<1>4. CASE feed' = feed
  BY <1>2, <1>4
<1>5. CASE feed' = Append(feed, [o |-> o, rec |-> rec])
  <2>1. /\ Len(feed') = Len(feed) + 1
        /\ \A i \in 1 .. Len(feed) : feed'[i] = feed[i]
        /\ feed'[Len(feed) + 1] = [o |-> o, rec |-> rec]
    BY <1>5 DEF WireTypeOK
  <2>2. Len(feed) \in Nat
    BY LenProperties DEF WireTypeOK
  <2> QED
    BY <1>2, <1>3, <2>1, <2>2
<1> QED
  BY <1>4, <1>5 DEF Report

LEMMA ReportStep ==
  TypeOK /\ StageOK /\ JournalInv /\ [Next]_vars => ReportStage'
<1> SUFFICES ASSUME OrderTypeOK, WireTypeOK, HandTypeOK, ObjectStage, PostStage,
                    RecordStage, MirrorStage, ReportStage, [Next]_vars
             PROVE  ReportStage'
  BY DEF TypeOK, StageOK, CoreStage, JournalInv
<1> USE DEF submitVars, txVars, orderVars, wireVars, brokerVars
<1>a. Idle.pc = "idle"
  BY DEF Idle
<1>1. CASE UNCHANGED <<feed, hand, br>>
  BY <1>1 DEF ReportStage
<1>2. ASSUME feed # <<>>, feed' = Tail(feed)
      PROVE  \A i \in 1 .. Len(feed') : feed'[i] = feed[i + 1]
                                        /\ i + 1 \in 1 .. Len(feed)
  BY <1>2, HeadTailProperties, LenProperties DEF WireTypeOK
<1>3. CASE LoseReport
  BY <1>2, <1>3 DEF LoseReport, ReportStage
<1>4. ASSUME NEW o \in Orders, BrokerAccepts(o) \/ BrokerProgress(o)
      PROVE  ReportStage'
  <2>1. PICK rec \in Rec : /\ br' = [br EXCEPT ![o] = rec] /\ Report(o, rec)
                           /\ Extends(br[o], rec)
                           /\ rec.st # "NEW" /\ rec # Absent
    BY <1>4, BrokerMoves
  <2>2. UNCHANGED hand
    BY <1>4 DEF BrokerAccepts, BrokerProgress
  <2>3. \A p \in Orders, r \in Rec : /\ Told(br[p], r) => Told(br'[p], r)
                                     /\ Said(br[p], r) => Said(br'[p], r)
    BY <2>1, MirrorExtends DEF WireTypeOK
  <2>4. \A i \in 1 .. Len(feed') : Told(br'[feed'[i].o], feed'[i].rec)
    BY <2>1, FeedExtends
  <2>5. \A h \in Handlers : hand[h].pc # "idle" =>
          hand[h].o \in Orders /\ hand[h].rec \in Rec
    BY CallUnderWay
  <2> QED
    BY <2>2, <2>3, <2>4, <2>5 DEF ReportStage
<1>5. ASSUME NEW h \in Handlers,
             \A i \in 1 .. Len(feed') : Told(br[feed'[i].o], feed'[i].rec),
             UNCHANGED br,
             \A g \in Handlers \ {h} : hand'[g] = hand[g],
             \/ hand'[h] = Idle
             \/ /\ Said(br[hand'[h].o], hand'[h].rec)
                /\ hand'[h].pc # "commit" => Told(br[hand'[h].o], hand'[h].rec)
      PROVE  ReportStage'
  BY <1>a, <1>5 DEF ReportStage
<1>6. ASSUME NEW h \in Handlers, NEW o \in Orders, Poll(h, o)
      PROVE  ReportStage'
  <2>1. hand' = [hand EXCEPT ![h] = [pc |-> "polled", o |-> o, rec |-> br[o]]]
        /\ br[o] \in Rec /\ br[o] # Absent /\ UNCHANGED <<feed, br>>
    BY <1>6 DEF Poll, WireTypeOK
  <2>2. Told(br[o], br[o])
    BY <2>1, GatewayAssumption
    DEF Told, Said, Mirrored, RecordStage, Rec, Record
  <2>3. hand'[h].o = o /\ hand'[h].rec = br[o]
        /\ \A g \in Handlers \ {h} : hand'[g] = hand[g]
    BY <2>1 DEF HandTypeOK
  <2>4. \A i \in 1 .. Len(feed') : Told(br[feed'[i].o], feed'[i].rec)
    BY <2>1 DEF ReportStage
  <2> QED
    BY <1>5, <2>1, <2>2, <2>3, <2>4 DEF Told
<1>7. ASSUME NEW h \in Handlers, Receive(h) PROVE ReportStage'
  <2>1. PICK o \in Orders, rec \in Rec :
          Deliver(h, o, rec) /\ Told(br[o], rec)
    BY <1>7, Received
  <2>2. \A i \in 1 .. Len(feed') : Told(br[feed'[i].o], feed'[i].rec)
    BY <1>2, <1>7 DEF Receive, ReportStage
  <2>3. \/ hand' = [hand EXCEPT ![h] = Idle]
        \/ \E pc \in {"write", "lookup"} :
             hand' = [hand EXCEPT ![h] = [pc |-> pc, o |-> o, rec |-> rec]]
    BY <2>1 DEF Deliver
  <2>4. UNCHANGED br
    BY <1>7 DEF Receive
  <2> QED
    BY <1>5, <2>1, <2>2, <2>3, <2>4 DEF Told, HandTypeOK
<1>8. ASSUME NEW h \in Handlers, Rehydrate(h) PROVE ReportStage'
  <2> DEFINE o == hand[h].o
             rec == hand[h].rec
  <2>1. Told(br[o], rec)
    BY <1>8 DEF Rehydrate, ReportStage
  <2>2. \/ hand' = [hand EXCEPT ![h] = Idle]
        \/ hand' = [hand EXCEPT ![h] = [pc |-> "writeCopy", o |-> o,
                                        rec |-> rec]]
    BY <1>8 DEF Rehydrate
  <2>3. UNCHANGED <<feed, br>>
    BY <1>8 DEF Rehydrate
  <2> HIDE DEF o, rec
  <2> QED
    BY <1>5, <2>1, <2>2, <2>3 DEF Told, HandTypeOK, ReportStage
<1>9. ASSUME NEW h \in Handlers, StageUpdate(h) PROVE ReportStage'
  <2> DEFINE o == hand[h].o
             rec == hand[h].rec
  <2>1. o \in Orders /\ Told(br[o], rec)
        /\ hand[h] = [pc |-> hand[h].pc, o |-> o, rec |-> rec]
    BY <1>9, CallUnderWay DEF StageUpdate, ReportStage
  <2>2. UNCHANGED <<feed, br>>
    BY <1>9 DEF StageUpdate
  <2>3. \/ /\ hand[h].pc = "write"
           /\ hand' = [hand EXCEPT ![h] = [pc |-> "commit", o |-> o,
                                           rec |-> mem[o]]]
        \/ hand' = [hand EXCEPT ![h].pc = "commitCopy"]
    BY <1>9 DEF StageUpdate
  <2>4. Said(br[o], mem[o])
    BY <2>1 DEF Told, Said, MirrorStage, RecordStage, PostStage
  <2>5. CASE hand' = [hand EXCEPT ![h].pc = "commitCopy"]
    <3>1. hand'[h].o = o /\ hand'[h].rec = rec
      BY <2>1, <2>5 DEF HandTypeOK
    <3> QED
      BY <1>5, <2>1, <2>2, <2>5, <3>1 DEF Told, ReportStage, HandTypeOK
  <2>6. CASE hand' = [hand EXCEPT ![h] = [pc |-> "commit", o |-> o,
                                          rec |-> mem[o]]]
    <3> HIDE DEF o, rec
    <3> QED
      BY <1>5, <2>2, <2>4, <2>6 DEF ReportStage, HandTypeOK
  <2> QED
    BY <2>3, <2>5, <2>6
<1>10. ASSUME NEW h \in Handlers, CommitUpdate(h) PROVE ReportStage'
  BY <1>5, <1>10 DEF CommitUpdate, ReportStage, HandTypeOK
<1>11. CASE Crash
  BY <1>a, <1>11 DEF Crash, ReportStage
<1>12. ASSUME NEW s \in Signals, SubmitStep(s) PROVE ReportStage'
  BY <1>1, <1>12
  DEF SubmitStep, RiskCheck, RecordSignal, ChoosePrimary, ChooseFailover,
      InsertOrder, InsertSlice, Wake
<1>13. ASSUME NEW o \in Orders,
              SendStep(o) \/ BrokerRefuses(o) \/ NetworkFails(o)
       PROVE  ReportStage'
  BY <1>1, <1>13
  DEF SendStep, WritePending, AnswerArrives, StageResult, CommitResult,
      BrokerRefuses, NetworkFails, Timeout, OtherFailure
<1>14. CASE UNCHANGED vars
  BY <1>1, <1>14 DEF vars
<1>15. ASSUME NEW h \in Handlers, HandleRollsBack(h) PROVE ReportStage'
  <2>1. \A i \in 1 .. Len(feed') : Told(br[feed'[i].o], feed'[i].rec)
    BY <1>15 DEF HandleRollsBack, ReportStage
  <2>2. hand' = [hand EXCEPT ![h] = Idle] /\ UNCHANGED br
    BY <1>15 DEF HandleRollsBack
  <2> QED
    BY <1>5, <2>1, <2>2 DEF HandTypeOK
<1>16. CASE JournalFails
  BY <1>1, <1>15, <1>16 DEF JournalFails, SubmitRollsBack, SendRollsBack
<1> QED
  BY <1>3, <1>4, <1>6, <1>7, <1>8, <1>9, <1>10, <1>11, <1>12, <1>13, <1>14,
     <1>16
  DEF Next, HandleStep, BrokerStep

LEMMA JournalStart == Init => JournalInv
<1> SUFFICES ASSUME Init PROVE JournalInv
  OBVIOUS
<1>1. SignalStage /\ FutureStage
  BY Owner DEF Init, SignalStage, FutureStage, Early, Routed
<1>2. PostStage /\ RecordStage
  BY Words, RecordFacts DEF Init, PostStage, RecordStage, Absent
<1>3. MirrorStage
  BY FirstRecords DEF Init, MirrorStage
<1>4. ReportStage
  BY DEF Init, ReportStage, Idle
<1> QED
  BY <1>1, <1>2, <1>3, <1>4 DEF JournalInv

LEMMA JournalStep ==
  TypeOK /\ StageOK /\ JournalInv /\ [Next]_vars => JournalInv'
BY SignalStep, FutureStep, PostStep, RecordStep, MirrorStep, ReportStep
   DEF JournalInv

(* Write-ahead: in every history of crashes, timeouts and retries a POST on  *)
(* its way, or an order the broker has, stands in the journal past NEW,      *)
(* under an approved signal.                                                 *)
THEOREM WriteAhead == Spec => []SentIsJournaled
<1>1. Init => TypeOK /\ StageOK /\ JournalInv
  BY TypeInit, JournalStart
<1>2. TypeOK /\ StageOK /\ JournalInv /\ [Next]_vars
        => TypeOK' /\ StageOK' /\ JournalInv'
  BY TypeStep, JournalStep
<1>3. JournalInv => SentIsJournaled
  BY DEF JournalInv, PostStage, SignalStage, SentIsJournaled
<1> QED
  BY <1>1, <1>2, <1>3, PTL DEF Spec

(* The journal is never ahead of the broker, however its two writers, the    *)
(* pollers and the crashes interleave: no row, Order object or staged image  *)
(* claims more than the broker has done.                                     *)
THEOREM NeverAheadOfBroker == Spec => []MirrorsBroker
<1>1. Init => TypeOK /\ StageOK /\ JournalInv
  BY TypeInit, JournalStart
<1>2. TypeOK /\ StageOK /\ JournalInv /\ [Next]_vars
        => TypeOK' /\ StageOK' /\ JournalInv'
  BY TypeStep, JournalStep
<1>3. JournalInv => MirrorsBroker
  BY Words DEF JournalInv, MirrorStage, Mirrored, MirrorsBroker
<1> QED
  BY <1>1, <1>2, <1>3, PTL DEF Spec

-----------------------------------------------------------------------------
(* Without timeouts and lost answers, what REJECTED may mean wherever the    *)
(* gateway holds it: the broker rejected the order, or will never have it.   *)
Refusal(o, st) ==
  st = "REJECTED" =>
    \/ br[o].st = "REJECTED"
    \/ br[o] = Absent /\ ~late[o] /\ reply[o] # "waiting"

RejectStage ==
  /\ \A o \in Orders :
       /\ Refusal(o, row[o].st) /\ Refusal(o, mem[o].st)
       /\ send[o] = "commit" => Refusal(o, image[o].st)
       /\ reply[o] \in {"waiting", "refused"} => br[o] = Absent
       /\ late[o] => send[o] = "lost"
  /\ \A h \in Handlers :
       hand[h].pc = "commit" => Refusal(hand[h].o, hand[h].rec.st)

LEMMA RejectStart == Init => RejectStage
BY DEF Init, RejectStage, Refusal, Absent, Idle

LEMMA RejectStep ==
  ASSUME ~Lossy
  PROVE  TypeOK /\ StageOK /\ JournalInv /\ RejectStage /\ [Next]_vars
           => RejectStage'
<1> SUFFICES ASSUME SubmitTypeOK, OrderTypeOK, WireTypeOK, HandTypeOK,
                    AwaitStage, TaskStage, SenderStage, FutureStage, PostStage,
                    RecordStage, ReportStage, RejectStage, [Next]_vars
             PROVE  RejectStage'
  BY DEF TypeOK, StageOK, CoreStage, JournalInv
<1> USE DEF submitVars, txVars, orderVars, wireVars, brokerVars
<1>1. CASE UNCHANGED <<row, mem, send, image, br, late, reply, hand>>
  BY <1>1 DEF RejectStage, Refusal
<1>2. ASSUME NEW o \in Orders, NEW st \in {"NEW", "PENDING"},
             send[o] = "none",
             row' = [row EXCEPT ![o] = [st |-> "NEW", filled |-> 0]],
             mem' = [mem EXCEPT ![o] = [st |-> st, filled |-> 0]],
             send' = send \/ send' = [send EXCEPT ![o] = "write"],
             UNCHANGED <<image, br, late, reply, hand>>
      PROVE  RejectStage'
  BY <1>2 DEF RejectStage, Refusal, OrderTypeOK
<1>3. ASSUME NEW s \in Signals, InsertOrder(s) PROVE RejectStage'
  <2>1. <<s, 0>> \in Orders /\ send[<<s, 0>>] = "none"
    BY <1>3, OrderNames DEF InsertOrder, FutureStage
  <2> QED
    BY <1>2, <1>3, <2>1 DEF InsertOrder, StartOrder, Upsert
<1>4. ASSUME NEW s \in Signals, InsertSlice(s) PROVE RejectStage'
  <2>1. <<s, slice[s]>> \in Orders
    BY <1>4, OrderNames DEF InsertSlice, TaskStage, SubmitTypeOK
  <2>2. send[<<s, slice[s]>>] = "none"
    BY <1>4, <2>1, Bounds DEF InsertSlice, FutureStage, SubmitTypeOK
  <2> QED
    BY <1>2, <1>4, <2>1, <2>2 DEF InsertSlice, StartOrder, Upsert
<1>5. ASSUME NEW o \in Orders, WritePending(o) PROVE RejectStage'
  <2>1. /\ row' = [row EXCEPT ![o] = mem[o]] /\ mem[o].st = "PENDING"
        /\ \/ /\ send' = [send EXCEPT ![o] = "await"]
              /\ reply' = [reply EXCEPT ![o] = "waiting"]
           \/ send' = [send EXCEPT ![o] = "raised"] /\ UNCHANGED reply
        /\ send[o] = "write" /\ UNCHANGED <<mem, image, br, late, hand>>
    BY <1>5 DEF WritePending, Upsert, Raise, RecordStage
  <2>2. br[o] = Absent /\ ~late[o]
    BY <2>1 DEF PostStage
  <2>3. \A h \in Handlers : hand[h].pc = "commit" =>
          hand[h].o \in Orders /\ br[hand[h].o] # Absent
    BY CallUnderWay DEF ReportStage, Said
  <2> QED
    BY <2>1, <2>2, <2>3 DEF RejectStage, Refusal, OrderTypeOK, WireTypeOK
<1>6. ASSUME NEW o \in Orders, AnswerArrives(o) PROVE RejectStage'
  <2> DEFINE st == Outcome(reply[o])
  <2>1. /\ send[o] = "await" /\ reply[o] \notin {"none", "waiting"}
        /\ reply' = [reply EXCEPT ![o] = "none"]
        /\ \/ /\ mem' = [mem EXCEPT ![o].st = st]
              /\ send' = [send EXCEPT ![o] = "result"]
           \/ send' = [send EXCEPT ![o] = "raised"] /\ UNCHANGED mem
        /\ UNCHANGED <<row, image, br, late, hand>>
    BY <1>6
    DEF AnswerArrives, Answered, AwaitStage, Resolve, Raise
  <2>2. st \in Status /\ (st = "REJECTED" =>
                            reply[o] = "refused" \/ br[o].st = "REJECTED")
    BY <2>1, Outcomes
  <2>3. ~late[o] /\ (reply[o] = "refused" => br[o] = Absent)
    BY <2>1 DEF RejectStage
  <2> HIDE DEF st
  <2>4. mem' = [mem EXCEPT ![o].st = st] => mem'[o].st = st
    BY <2>2, RecordUpdate DEF OrderTypeOK
  <2> QED
    BY <2>1, <2>2, <2>3, <2>4 DEF RejectStage, Refusal, OrderTypeOK, WireTypeOK
<1>7. ASSUME NEW o \in Orders, StageResult(o) PROVE RejectStage'
  BY <1>7 DEF StageResult, RejectStage, Refusal, OrderTypeOK
<1>8. ASSUME NEW o \in Orders, NEW old, NEW rec \in Rec,
             UpdateColumns(o, old, rec), Refusal(o, rec.st),
             UNCHANGED <<mem, br, late, reply>>
      PROVE  \A p \in Orders : Refusal(p, row[p].st)'
  <2>1. row' = [row EXCEPT ![o] = row'[o]]
        /\ row'[o].st \in {row[o].st, rec.st}
    BY <1>8, ColumnsMixed
  <2>2. \A p \in Orders : Refusal(p, row'[p].st)
    BY <1>8, <2>1 DEF RejectStage, OrderTypeOK
  <2> QED
    BY <1>8, <2>2 DEF Refusal
<1>9. ASSUME NEW o \in Orders, CommitResult(o) PROVE RejectStage'
  <2>1. /\ image[o] \in Rec /\ Refusal(o, image[o].st)
        /\ send[o] = "commit" /\ send' = [send EXCEPT ![o] = "sent"]
        /\ image' = [image EXCEPT ![o] = Absent]
        /\ UNCHANGED <<mem, br, late, reply, hand>>
    BY <1>9 DEF CommitResult, Return, SenderStage, OrderTypeOK, RejectStage
  <2>2. \A p \in Orders : Refusal(p, row[p].st)'
    BY <1>8, <1>9, <2>1 DEF CommitResult
  <2> QED
    BY <2>1, <2>2 DEF RejectStage, Refusal, OrderTypeOK
<1>10. ASSUME NEW h \in Handlers, CommitUpdate(h) PROVE RejectStage'
  <2> DEFINE o == hand[h].o
             rec == hand[h].rec
  <2>1. o \in Orders /\ rec \in Rec /\ UpdateColumns(o, callSeen[h], rec)
        /\ hand[h].pc \in {"commit", "commitCopy"}
    BY <1>10, CallUnderWay DEF CommitUpdate
  <2>2. Refusal(o, rec.st)
    BY <2>1, Words DEF RejectStage, ReportStage, Told, Refusal
  <2>3. /\ hand' = [hand EXCEPT ![h] = Idle]
        /\ UNCHANGED <<mem, send, image, br, late, reply>>
    BY <1>10 DEF CommitUpdate
  <2> HIDE DEF o, rec
  <2>4. \A p \in Orders : Refusal(p, row[p].st)'
    BY <1>8, <2>1, <2>2, <2>3
  <2> QED
    BY <2>3, <2>4 DEF RejectStage, Refusal, HandTypeOK, Idle
<1>11. ASSUME NEW o \in Orders, BrokerAccepts(o) PROVE RejectStage'
  <2>1. PICK rec \in Rec : br' = [br EXCEPT ![o] = rec]
    BY <1>11, BrokerMoves
  <2>2. /\ br[o] = Absent
        /\ \/ /\ reply[o] = "waiting" /\ UNCHANGED late
              /\ \E st \in AckStatus(o[1]) : reply' = [reply EXCEPT ![o] = st]
           \/ late[o] /\ late' = [late EXCEPT ![o] = FALSE] /\ UNCHANGED reply
        /\ UNCHANGED <<row, mem, send, image, hand>>
    BY <1>11 DEF BrokerAccepts
  <2>3. \A st : Refusal(o, st) => st # "REJECTED"
    BY <2>2, RecordFacts DEF Refusal
  <2>4. \A h \in Handlers : hand[h].pc = "commit" =>
          hand[h].o \in Orders /\ hand[h].o # o
    BY <2>2, CallUnderWay DEF ReportStage, Said
  <2>5. \A s : "waiting" \notin AckStatus(s) /\ "refused" \notin AckStatus(s)
    BY DEF AckStatus
  <2>6. ~(late[o] /\ reply[o] \in {"waiting", "refused"})
    BY <2>2 DEF RejectStage, PostStage
  <2> QED
    BY <2>1, <2>2, <2>3, <2>4, <2>5, <2>6
    DEF RejectStage, Refusal, WireTypeOK
<1>12. ASSUME NEW o \in Orders, BrokerProgress(o) PROVE RejectStage'
  <2>1. PICK rec \in Rec : br' = [br EXCEPT ![o] = rec] /\ Extends(br[o], rec)
    BY <1>12, BrokerMoves
  <2>2. br[o] # Absent /\ UNCHANGED <<row, mem, send, image, late, reply, hand>>
    BY <1>12 DEF BrokerProgress
  <2>3. br[o].st = "REJECTED" => br' = br
    BY <2>1, Words DEF Extends, WireTypeOK
  <2> QED
    BY <2>1, <2>2, <2>3 DEF RejectStage, Refusal, WireTypeOK
<1>13. ASSUME NEW o \in Orders, BrokerRefuses(o) PROVE RejectStage'
  BY <1>13 DEF BrokerRefuses, RejectStage, Refusal, WireTypeOK
<1>14. ASSUME NEW h \in Handlers, Receive(h) PROVE RejectStage'
  <2>1. PICK o \in Orders, rec \in Rec :
          Deliver(h, o, rec) /\ Told(br[o], rec)
    BY <1>14, Received
  <2>2. Refusal(o, rec.st)
    BY <2>1, Words DEF Told, Refusal
  <2>3. /\ mem' = mem \/ mem' = [mem EXCEPT ![o] = rec]
        /\ \/ hand' = [hand EXCEPT ![h] = Idle]
           \/ \E pc \in {"write", "lookup"} :
                hand' = [hand EXCEPT ![h] = [pc |-> pc, o |-> o, rec |-> rec]]
        /\ UNCHANGED <<row, send, image, br, late, reply>>
    BY <1>14, <2>1 DEF Receive, Deliver
  <2>4. \A g \in Handlers :
          hand'[g].pc = "commit" => hand'[g] = hand[g]
    BY <2>3 DEF HandTypeOK, Idle
  <2> QED
    BY <2>2, <2>3, <2>4 DEF RejectStage, Refusal, OrderTypeOK
<1>15. ASSUME NEW h \in Handlers, StageUpdate(h) PROVE RejectStage'
  <2> DEFINE o == hand[h].o
  <2>1. o \in Orders
    BY <1>15, CallUnderWay DEF StageUpdate
  <2>2. \/ hand' = [hand EXCEPT ![h] = [pc |-> "commit", o |-> o,
                                        rec |-> mem[o]]]
        \/ hand' = [hand EXCEPT ![h].pc = "commitCopy"]
           /\ hand[h].pc = "writeCopy"
    BY <1>15 DEF StageUpdate
  <2>3. UNCHANGED <<row, mem, send, image, br, late, reply>>
    BY <1>15 DEF StageUpdate
  <2>4. CASE hand' = [hand EXCEPT ![h].pc = "commitCopy"]
             /\ hand[h].pc = "writeCopy"
    <3>1. hand'[h].pc = "commitCopy"
      BY <2>4, CallUnderWay DEF HandTypeOK
    <3> QED
      BY <2>3, <2>4, <3>1 DEF RejectStage, Refusal, HandTypeOK
  <2>5. CASE hand' = [hand EXCEPT ![h] = [pc |-> "commit", o |-> o,
                                          rec |-> mem[o]]]
    <3> HIDE DEF o
    <3> QED
      BY <2>1, <2>3, <2>5 DEF RejectStage, Refusal, HandTypeOK
  <2> QED
    BY <2>2, <2>4, <2>5
<1>16. ASSUME NEW h \in Handlers, Rehydrate(h) PROVE RejectStage'
  <2>1. hand'[h].pc # "commit"
        /\ \A g \in Handlers \ {h} : hand'[g] = hand[g]
    BY <1>16 DEF Rehydrate, HandTypeOK, Idle
  <2>2. UNCHANGED <<row, mem, send, image, br, late, reply>>
    BY <1>16 DEF Rehydrate
  <2> QED
    BY <2>1, <2>2 DEF RejectStage, Refusal
<1>17. ASSUME NEW h \in Handlers, NEW o \in Orders, Poll(h, o)
       PROVE  RejectStage'
  BY <1>17 DEF Poll, RejectStage, Refusal, HandTypeOK
<1>18. CASE Crash
  BY <1>18, RecordFacts
  DEF Crash, RejectStage, Refusal, PostStage, OrderTypeOK, WireTypeOK, Idle
<1>19. ASSUME NEW s \in Signals, SubmitStep(s) PROVE RejectStage'
  BY <1>1, <1>3, <1>4, <1>19
  DEF SubmitStep, RiskCheck, RecordSignal, ChoosePrimary, ChooseFailover, Wake
<1>20. CASE UNCHANGED vars
  BY <1>1, <1>20 DEF vars
<1>21. \A o \in Orders : ~NetworkFails(o)
  BY DEF NetworkFails, Timeout, OtherFailure
<1>22. ASSUME NEW o \in Orders, SendRollsBack(o) PROVE RejectStage'
  BY <1>22, Words
  DEF SendRollsBack, Raise, RejectStage, Refusal, OrderTypeOK
<1>23. ASSUME NEW h \in Handlers, HandleRollsBack(h) PROVE RejectStage'
  BY <1>23 DEF HandleRollsBack, RejectStage, Refusal, HandTypeOK, Idle
<1>24. CASE LoseReport \/ JournalFails
  BY <1>1, <1>22, <1>23, <1>24
  DEF LoseReport, JournalFails, SubmitRollsBack
<1> QED
  BY <1>5, <1>6, <1>7, <1>9, <1>10, <1>11, <1>12, <1>13, <1>14, <1>15, <1>16,
     <1>17, <1>18, <1>19, <1>20, <1>21, <1>24
  DEF Next, SendStep, BrokerStep, HandleStep

(* Where no answer is lost, REJECTED in the journal is the broker's last     *)
(* word: no order that the gateway wrote off is alive at the broker, through *)
(* crashes and with any number of pollers.  (With timeouts TLC finds one     *)
(* that is: run gw_false_reject.)                                            *)
THEOREM RejectionsAreTrue == ASSUME ~Lossy PROVE Spec => []TrueRejection
<1>1. Init => TypeOK /\ StageOK /\ JournalInv /\ RejectStage
  BY TypeInit, JournalStart, RejectStart
<1>2. TypeOK /\ StageOK /\ JournalInv /\ RejectStage /\ [Next]_vars
        => TypeOK' /\ StageOK' /\ JournalInv' /\ RejectStage'
  BY TypeStep, JournalStep, RejectStep
<1>3. RejectStage => TrueRejection
  BY RecordFacts DEF RejectStage, Refusal, TrueRejection
<1> QED
  BY <1>1, <1>2, <1>3, PTL DEF Spec

-----------------------------------------------------------------------------
(* Who writes an order's row, and from what.  The copies of the row of an    *)
(* order that is not contested are one at most, ...                          *)
OneCopy(o) ==
  /\ send[o] = "commit" => \A h \in Handlers : ~HasCopy(h, o)
  /\ \A g, h \in Handlers : HasCopy(g, o) /\ HasCopy(h, o) => g = h

(* ... written over the row that it was read from, ...                       *)
FreshCopy(o) ==
  /\ send[o] = "commit" => seen[o] = row[o]
  /\ \A h \in Handlers : HasCopy(h, o) /\ hand[h].pc # "writeCopy"
                           => callSeen[h] = row[o]

(* ... ahead of it and not ahead of the Order object, ...                    *)
Onward(o) ==
  /\ mem[o] # Absent => mem[o].st \in Reach(row[o].st)
  /\ send[o] = "commit" => /\ image[o].st \in Reach(row[o].st)
                           /\ mem[o].st \in Reach(image[o].st)
  /\ \A h \in Handlers : HasCopy(h, o) =>
       /\ hand[h].rec.st \in Reach(row[o].st)
       /\ hand[h].pc = "commit" => mem[o].st \in Reach(hand[h].rec.st)

(* ... and if it is a rehydrated one, no news to the object.                 *)
LateCopy(o) ==
  \A h \in Handlers :
    HasCopy(h, o) /\ hand[h].pc # "commit" /\ mem[o] # Absent
      => mem[o].st = hand[h].rec.st

(* When no write of the object is still to be staged, the last one staged,   *)
(* or else the row, is the object.                                           *)
Same(o, rec) == /\ rec.st = mem[o].st
                /\ o \in tracked => rec.filled = mem[o].filled
Moving(o) == \/ send[o] \in {"write", "result"}
             \/ \E h \in Handlers : hand[h].pc = "write" /\ hand[h].o = o
Staged(h, o) == hand[h].pc = "commit" /\ hand[h].o = o

Agree(o) ==
  o \notin unsaved /\ mem[o] # Absent /\ ~Moving(o) =>
    /\ send[o] = "commit" => Same(o, image[o])
    /\ \A h \in Handlers : Staged(h, o) => Same(o, hand[h].rec)
    /\ send[o] # "commit" /\ (\A h \in Handlers : ~Staged(h, o))
         => Same(o, row[o])

CopyOK(o) == OneCopy(o) /\ FreshCopy(o) /\ Onward(o) /\ LateCopy(o) /\ Agree(o)
CopyStage == \A o \in Whole \ contested : CopyOK(o)

(* Only objects with a terminal status are forgotten, and only of forgotten  *)
(* orders a copy of the row is made.  This holds of contested ones too.      *)
Forgotten ==
  /\ \A o \in Whole \ tracked : mem[o] # Absent => mem[o].st \in Terminal
  /\ \A h \in Handlers : hand[h].pc \in {"lookup", "writeCopy", "commitCopy"}
                           => hand[h].o \notin tracked

(* A submitted order has no row before its insert, and a contested one has.  *)
BirthStage ==
  /\ \A s \in Signals : phase[s] \in Early \cup {"routing", "failover",
                                                 "inserting"}
                          => row[<<s, 0>>] = Absent
  /\ \A o \in contested : row[o] # Absent

(* Chains of legal transitions compose, and end at a terminal status.        *)
LEMMA ReachFacts ==
  /\ \A x \in Status : x \in Reach(x) /\ Reach(x) \subseteq Status
  /\ \A x, y \in Status : Legal(x, y) => y \in Reach(x)
  /\ \A x, y, z \in Status \cup {"NONE"} :
       y \in Reach(x) /\ z \in Reach(y) => z \in Reach(x)
  /\ Reach("NONE") = {"NONE"}
  /\ \A x \in Terminal : Reach(x) = {x}
  /\ \A x \in Terminal, y \in Status : Legal(x, y) => y = x
  /\ Terminal \subseteq Status /\ "NONE" \notin Status
  /\ "PENDING" \in Reach("NEW")
BY DEF Reach, Legal, ALLOWED, Status, Active, Terminal

(* The row of an order under way in on_broker_update, or with the broker.    *)
LEMMA KnownRow ==
  ASSUME HandTypeOK, OrderTypeOK, PostStage, FutureStage, ReportStage
  PROVE  /\ \A o \in Orders : br[o] # Absent =>
              /\ send[o] \notin {"none", "write"}
              /\ row[o] # Absent /\ row[o].st \in Status
              /\ phase[o[1]] \notin Early \cup {"routing", "failover",
                                                "inserting"}
         /\ \A h \in Handlers : hand[h].pc # "idle" =>
              hand[h].o \in Orders /\ hand[h].rec \in Rec
              /\ br[hand[h].o] # Absent
<1>1. ASSUME NEW o \in Orders, br[o] # Absent
      PROVE  /\ send[o] \notin {"none", "write"}
             /\ row[o].st \notin {"NONE", "NEW"}
  BY <1>1 DEF PostStage
<1>2. ASSUME NEW o \in Orders, br[o] # Absent
      PROVE  row[o] # Absent /\ row[o].st \in Status
  BY <1>1, <1>2, RecordFacts DEF OrderTypeOK
<1>3. ASSUME NEW o \in Orders, br[o] # Absent
      PROVE  phase[o[1]] \notin Early \cup {"routing", "failover", "inserting"}
  BY <1>1, <1>3 DEF FutureStage
<1>4. ASSUME NEW h \in Handlers, hand[h].pc # "idle"
      PROVE  /\ hand[h].o \in Orders /\ hand[h].rec \in Rec
             /\ br[hand[h].o] # Absent
  BY <1>4, CallUnderWay DEF ReportStage, Said
<1> QED
  BY <1>1, <1>2, <1>3, <1>4

LEMMA BirthStep ==
  TypeOK /\ StageOK /\ JournalInv /\ BirthStage /\ [Next]_vars => BirthStage'
<1> SUFFICES ASSUME SubmitTypeOK, OrderTypeOK, WireTypeOK, HandTypeOK,
                    HistoryTypeOK, SendStage, TaskStage, SenderStage,
                    FutureStage, PostStage, ReportStage, BirthStage,
                    [Next]_vars
             PROVE  BirthStage'
  BY DEF TypeOK, StageOK, CoreStage, JournalInv
<1> USE DEF submitVars, txVars, orderVars, wireVars, brokerVars
<1> DEFINE Before == Early \cup {"routing", "failover", "inserting"}
<1>a. \A h \in Handlers : hand[h].pc # "idle" =>
        /\ hand[h].o \in Orders /\ hand[h].rec \in Rec
        /\ row[hand[h].o] # Absent
        /\ phase[hand[h].o[1]] \notin Before
  BY KnownRow
<1>1. ASSUME UNCHANGED <<phase, row, contested>> PROVE BirthStage'
  BY <1>1 DEF BirthStage
<1>2. ASSUME NEW s \in Signals, NEW next,
             phase' = [phase EXCEPT ![s] = next],
             next \in Before => phase[s] \in Before,
             UNCHANGED <<row, contested>>
      PROVE  BirthStage'
  BY <1>2 DEF BirthStage, SubmitTypeOK
<1>3. ASSUME NEW o \in Orders, NEW rec \in Rec,
             row' = [row EXCEPT ![o] = rec],
             o \notin Whole \/ phase'[o[1]] \notin Before,
             \A s \in Signals :
               phase'[s] = phase[s] \/ phase'[s] \notin Before,
             UNCHANGED contested
      PROVE  BirthStage'
  BY <1>3, OrderNames, OrderParts, RecordFacts
  DEF BirthStage, OrderTypeOK, HistoryTypeOK
<1>4. ASSUME NEW o \in Orders, row[o] # Absent,
             contested' \subseteq contested \cup {o},
             UNCHANGED <<phase, row>>
      PROVE  BirthStage'
  BY <1>4 DEF BirthStage
<1>5. ASSUME NEW s \in Signals, SubmitStep(s) PROVE BirthStage'
  <2>1. CASE RiskCheck(s) \/ RecordSignal(s) \/ ChoosePrimary(s)
             \/ ChooseFailover(s) \/ Wake(s)
    <3>1. PICK next : phase' = [phase EXCEPT ![s] = next]
                      /\ (next \in Before => phase[s] \in Before)
      BY <2>1
      DEF RiskCheck, RecordSignal, ChoosePrimary, ChooseFailover, Wake, Early
    <3>2. UNCHANGED <<row, contested>>
      BY <2>1
      DEF RiskCheck, RecordSignal, ChoosePrimary, ChooseFailover, Wake, history
    <3> HIDE DEF Before
    <3> QED
      BY <1>2, <3>1, <3>2
  <2>2. CASE InsertOrder(s)
    <3>1. row' = [row EXCEPT ![<<s, 0>>] = [st |-> "NEW", filled |-> 0]]
      BY <2>2 DEF InsertOrder, StartOrder, Upsert
    <3>2. \E next \in {"sending", "slicing"} :
            phase' = [phase EXCEPT ![s] = next]
      BY <2>2 DEF InsertOrder
    <3>3. UNCHANGED contested
      BY <2>2 DEF InsertOrder, history
    <3>4. phase'[s] \notin Before
          /\ \A t \in Signals : phase'[t] = phase[t] \/ phase'[t] \notin Before
      BY <3>2 DEF SubmitTypeOK, Early
    <3> HIDE DEF Before
    <3> QED
      BY <1>3, <3>1, <3>3, <3>4, OrderNames, RecordFacts
  <2>3. CASE InsertSlice(s)
    <3>1. row' = [row EXCEPT ![<<s, slice[s]>>] = [st |-> "NEW", filled |-> 0]]
          /\ <<s, slice[s]>> \in Orders \ Whole
      BY <2>3, OrderNames
      DEF InsertSlice, StartOrder, Upsert, TaskStage, SubmitTypeOK, Whole
    <3>2. \A t \in Signals : phase'[t] = phase[t] \/ phase'[t] \notin Before
      BY <2>3 DEF InsertSlice, SubmitTypeOK, Early
    <3>3. UNCHANGED contested
      BY <2>3 DEF InsertSlice, history
    <3> HIDE DEF Before
    <3> QED
      BY <1>3, <3>1, <3>2, <3>3, RecordFacts
  <2> QED
    BY <1>5, <2>1, <2>2, <2>3 DEF SubmitStep
<1>6. ASSUME NEW o \in Orders, WritePending(o) PROVE BirthStage'
  <2>1. mem[o] \in Rec /\ phase[o[1]] = "sending"
    BY <1>6 DEF WritePending, SenderStage, SendStage, OrderTypeOK
  <2>2. row' = [row EXCEPT ![o] = mem[o]] /\ UNCHANGED contested
        /\ (phase' = phase \/ phase' = [phase EXCEPT ![o[1]] = "raised"])
    BY <1>6 DEF WritePending, Upsert, Raise, history
  <2>3. phase'[o[1]] \notin Before
        /\ \A s \in Signals : phase'[s] = phase[s] \/ phase'[s] \notin Before
    BY <2>1, <2>2, Owner DEF SubmitTypeOK, Early
  <2> HIDE DEF Before
  <2> QED
    BY <1>3, <2>1, <2>2, <2>3
<1>7. ASSUME NEW o \in Orders, CommitResult(o) PROVE BirthStage'
  <2>1. image[o] \in Rec /\ phase[o[1]] = "sending"
    BY <1>7 DEF CommitResult, SenderStage, SendStage, OrderTypeOK
  <2>2. row' = [row EXCEPT ![o] = row'[o]] /\ row'[o] \in Rec
    BY <1>7, <2>1, ColumnsMixed DEF CommitResult
  <2>3. UNCHANGED contested
        /\ \E next \in {"done", "sleeping"} :
             phase' = [phase EXCEPT ![o[1]] = next]
    BY <1>7 DEF CommitResult, Return, Saved
  <2>4. phase'[o[1]] \notin Before
        /\ \A s \in Signals : phase'[s] = phase[s] \/ phase'[s] \notin Before
    BY <2>3, Owner DEF SubmitTypeOK, Early
  <2> DEFINE new == row'[o]
  <2>5. row' = [row EXCEPT ![o] = new] /\ new \in Rec
    BY <2>2
  <2> HIDE DEF Before, new
  <2> QED
    BY <1>3, <2>3, <2>4, <2>5
<1>8. ASSUME NEW h \in Handlers, CommitUpdate(h) PROVE BirthStage'
  <2> DEFINE o == hand[h].o
             new == row'[o]
  <2>1. o \in Orders /\ phase[o[1]] \notin Before /\ hand[h].rec \in Rec
    BY <1>8, <1>a DEF CommitUpdate
  <2>2. row' = [row EXCEPT ![o] = new] /\ new \in Rec
    BY <1>8, <2>1, ColumnsMixed DEF CommitUpdate
  <2>3. UNCHANGED <<phase, contested>>
    BY <1>8 DEF CommitUpdate, Saved
  <2> HIDE DEF Before, o, new
  <2> QED
    BY <1>3, <2>1, <2>2, <2>3
<1>9. ASSUME NEW o \in Orders, StageResult(o) PROVE BirthStage'
  <2>1. CASE \E h \in Handlers : HasCopy(h, o)
    <3>1. row[o] # Absent
      BY <1>a, <2>1 DEF HasCopy
    <3> QED
      BY <1>4, <1>9, <3>1 DEF StageResult, Contest
  <2>2. CASE ~\E h \in Handlers : HasCopy(h, o)
    BY <1>1, <1>9, <2>2 DEF StageResult, Contest
  <2> QED
    BY <2>1, <2>2
<1>10. ASSUME NEW h \in Handlers, Rehydrate(h) \/ StageUpdate(h)
       PROVE  BirthStage'
  <2> DEFINE o == hand[h].o
  <2>1. o \in Orders /\ row[o] # Absent
    BY <1>10, <1>a DEF Rehydrate, StageUpdate
  <2>2. contested' \subseteq contested \cup {o} /\ UNCHANGED <<phase, row>>
    BY <1>10 DEF Rehydrate, StageUpdate, Contest, history
  <2> HIDE DEF o
  <2> QED
    BY <1>4, <2>1, <2>2
<1>11. ASSUME NEW o \in Orders, AnswerArrives(o) \/ NetworkFails(o)
                                \/ SendRollsBack(o)
       PROVE  BirthStage'
  <2>1. UNCHANGED <<row, contested>>
        /\ (phase' = phase \/ phase' = [phase EXCEPT ![o[1]] = "raised"])
    BY <1>11
    DEF AnswerArrives, NetworkFails, Timeout, OtherFailure, SendRollsBack,
        RollBack, Resolve, Raise, history
  <2>2. "raised" \notin Before
    BY DEF Early
  <2> HIDE DEF Before
  <2> QED
    BY <1>1, <1>2, <2>1, <2>2, Owner
<1>12. ASSUME NEW s \in Signals, SubmitRollsBack(s) PROVE BirthStage'
  <2>1. UNCHANGED <<row, contested>>
        /\ phase' = [phase EXCEPT ![s] = "raised"] /\ "raised" \notin Before
    BY <1>12 DEF SubmitRollsBack, RollBack, Early
  <2> HIDE DEF Before
  <2> QED
    BY <1>2, <2>1
<1>13. CASE Crash
  <2>1. UNCHANGED <<row, contested>>
        /\ \A s \in Signals : phase'[s] \in Before => phase[s] = phase'[s]
    BY <1>13 DEF Crash, Early, Ended
  <2> QED
    BY <2>1 DEF BirthStage
<1>14. CASE \E o \in Orders : BrokerStep(o)
  BY <1>1, <1>14
  DEF BrokerStep, BrokerAccepts, BrokerRefuses, BrokerProgress, history
<1>15. ASSUME NEW h \in Handlers,
              Receive(h) \/ HandleRollsBack(h) \/ \E o \in Orders : Poll(h, o)
       PROVE  BirthStage'
  BY <1>1, <1>15 DEF Receive, HandleRollsBack, RollBack, Poll, history
<1>16. CASE LoseReport \/ UNCHANGED vars
  BY <1>1, <1>16 DEF LoseReport, vars, history
<1> QED
  BY <1>5, <1>6, <1>7, <1>8, <1>9, <1>10, <1>11, <1>12, <1>13, <1>14, <1>15,
     <1>16
  DEF Next, SendStep, HandleStep, JournalFails

(* What an answer does to the Order object: a legal move, or none.           *)
LEMMA ObjectMoves ==
  ASSUME TypeOK, AwaitStage, SenderStage, PostStage, NEW o \in Orders,
         AnswerArrives(o) \/ NetworkFails(o)
  PROVE  /\ send[o] = "await" /\ mem[o] \in Rec
         /\ \/ UNCHANGED mem /\ send'[o] \in {"await", "raised"}
            \/ \E st \in Status : /\ Legal(mem[o].st, st)
                                  /\ mem' = [mem EXCEPT ![o].st = st]
                                  /\ send'[o] = "result"
         /\ \A p \in Orders \ {o} : send'[p] = send[p]
<1> USE DEF submitVars, txVars, orderVars, wireVars, brokerVars
<1>1. send[o] = "await"
  BY DEF AnswerArrives, Answered, NetworkFails, Timeout, OtherFailure
<1>2. mem[o] \in Rec
  BY <1>1 DEF SenderStage, TypeOK, OrderTypeOK
<1>3. ASSUME NEW st \in Status, Resolve(o, st)
      PROVE  /\ \/ UNCHANGED mem /\ send'[o] = "raised"
                \/ /\ Legal(mem[o].st, st)
                   /\ mem' = [mem EXCEPT ![o].st = st]
                   /\ send'[o] = "result"
             /\ \A p \in Orders \ {o} : send'[p] = send[p]
  BY <1>3 DEF Resolve, Raise, TypeOK, OrderTypeOK
<1>4. CASE AnswerArrives(o)
  <2>1. Outcome(reply[o]) \in Status /\ Resolve(o, Outcome(reply[o]))
    BY <1>1, <1>4, Outcomes DEF AnswerArrives, Answered, AwaitStage, TypeOK
  <2> QED
    BY <1>1, <1>2, <1>3, <2>1
<1>5. CASE Timeout(o)
  <2>1. CASE UNCHANGED <<mem, send>>
    BY <1>1, <1>2, <2>1
  <2>2. CASE Resolve(o, GivenUp)
    BY <1>1, <1>2, <1>3, <2>2, RecordFacts DEF GivenUp
  <2> QED
    BY <1>5, <2>1, <2>2 DEF Timeout
<1>6. CASE OtherFailure(o)
  BY <1>1, <1>2, <1>6 DEF OtherFailure, Raise, TypeOK, OrderTypeOK
<1> QED
  BY <1>4, <1>5, <1>6 DEF NetworkFails

(* An order that is being inserted is in no call and in no transaction.      *)
LEMMA Unknown ==
  ASSUME HandTypeOK, OrderTypeOK, PostStage, FutureStage, ReportStage,
         NEW s \in Signals, phase[s] = "inserting"
  PROVE  /\ send[<<s, 0>>] = "none"
         /\ \A h \in Handlers : hand[h].pc # "idle" => hand[h].o # <<s, 0>>
BY KnownRow, OrderNames DEF FutureStage

LEMMA ForgottenStep ==
  TypeOK /\ StageOK /\ JournalInv /\ Forgotten /\ [Next]_vars => Forgotten'
<1> SUFFICES ASSUME TypeOK, SubmitTypeOK, OrderTypeOK, WireTypeOK, HandTypeOK,
                    AwaitStage, TaskStage, ObjectStage, SenderStage,
                    FutureStage, PostStage, ReportStage, Forgotten,
                    [Next]_vars
             PROVE  Forgotten'
  BY DEF TypeOK, StageOK, CoreStage, JournalInv
<1> USE DEF submitVars, txVars, orderVars, wireVars, brokerVars
<1>1. ASSUME UNCHANGED <<mem, tracked, hand>> PROVE Forgotten'
  BY <1>1 DEF Forgotten
<1>2. ASSUME NEW s \in Signals, InsertOrder(s) PROVE Forgotten'
  <2>1. /\ tracked' = tracked \cup {<<s, 0>>} /\ UNCHANGED hand
        /\ \A o \in Whole \ {<<s, 0>>} : mem'[o] = mem[o]
    BY <1>2 DEF InsertOrder, StartOrder, OrderTypeOK, Whole, Orders
  <2>2. \A h \in Handlers : hand[h].pc # "idle" => hand[h].o # <<s, 0>>
    BY <1>2, Unknown DEF InsertOrder
  <2> QED
    BY <2>1, <2>2 DEF Forgotten
<1>3. ASSUME NEW s \in Signals, InsertSlice(s) PROVE Forgotten'
  <2>1. UNCHANGED <<tracked, hand>> /\ \A o \in Whole : mem'[o] = mem[o]
    BY <1>3 DEF InsertSlice, StartOrder, TaskStage, OrderTypeOK, Whole, Orders
  <2> QED
    BY <2>1 DEF Forgotten
<1>4. ASSUME NEW o \in Orders, AnswerArrives(o) \/ NetworkFails(o)
      PROVE  Forgotten'
  <2>1. UNCHANGED <<tracked, hand>>
    BY <1>4 DEF AnswerArrives, NetworkFails, Timeout, OtherFailure
  <2>2. CASE UNCHANGED mem
    BY <1>1, <2>1, <2>2
  <2>3. ASSUME NEW st \in Status, Legal(mem[o].st, st), mem[o] \in Rec,
               mem' = [mem EXCEPT ![o].st = st]
        PROVE  Forgotten'
    <3>1. \A p \in Orders \ {o} : mem'[p] = mem[p]
      BY <2>3 DEF OrderTypeOK
    <3>2. mem[o].st \in Terminal => mem'[o].st = mem[o].st
      BY <2>3, ReachFacts, RecordUpdate DEF OrderTypeOK
    <3>3. mem[o] # Absent
      BY <2>3, RecordFacts
    <3> QED
      BY <2>1, <3>1, <3>2, <3>3 DEF Forgotten, Whole, Orders
  <2> QED
    BY <1>4, <2>2, <2>3, ObjectMoves
<1>5. ASSUME NEW h \in Handlers, Receive(h) PROVE Forgotten'
  <2>1. PICK o \in Orders, rec \in Rec : Deliver(h, o, rec)
    BY <1>5, Received
  <2>2. UNCHANGED tracked /\ \A p \in Whole \ tracked : mem'[p] = mem[p]
    BY <1>5, <2>1 DEF Receive, Deliver, OrderTypeOK, Whole, Orders
  <2>3. /\ \A g \in Handlers \ {h} : hand'[g] = hand[g]
        /\ hand'[h].pc = "lookup" => hand'[h].o \notin tracked
        /\ hand'[h].pc \notin {"writeCopy", "commitCopy"}
    BY <2>1 DEF Deliver, HandTypeOK, Idle
  <2> QED
    BY <2>2, <2>3 DEF Forgotten
<1>6. ASSUME NEW h \in Handlers, Rehydrate(h) \/ StageUpdate(h)
      PROVE  Forgotten'
  <2>1. UNCHANGED <<mem, tracked>>
        /\ \A g \in Handlers \ {h} : hand'[g] = hand[g]
    BY <1>6 DEF Rehydrate, StageUpdate, HandTypeOK
  <2>2. CASE hand[h].pc = "lookup" /\ Rehydrate(h)
    <3>1. hand'[h].pc \in {"idle", "writeCopy"}
          /\ (hand'[h].pc # "idle" => hand'[h].o = hand[h].o)
      BY <2>2 DEF Rehydrate, HandTypeOK, Idle
    <3> QED
      BY <2>1, <2>2, <3>1 DEF Forgotten
  <2>3. CASE hand[h].pc = "write" /\ StageUpdate(h)
    <3>1. hand'[h].pc = "commit"
      BY <2>3 DEF StageUpdate, HandTypeOK
    <3> QED
      BY <2>1, <3>1 DEF Forgotten
  <2>4. CASE hand[h].pc = "writeCopy" /\ StageUpdate(h)
    <3>1. hand' = [hand EXCEPT ![h].pc = "commitCopy"]
      BY <2>4 DEF StageUpdate
    <3>2. hand'[h].o = hand[h].o
      BY <2>4, <3>1, CallUnderWay DEF HandTypeOK
    <3> QED
      BY <2>1, <2>4, <3>2 DEF Forgotten
  <2> QED
    BY <1>6, <2>2, <2>3, <2>4 DEF Rehydrate, StageUpdate
<1>7. ASSUME NEW h \in Handlers, CommitUpdate(h) PROVE Forgotten'
  <2> DEFINE o == hand[h].o
  <2>1. /\ UNCHANGED mem /\ tracked' \subseteq tracked
        /\ \A g \in Handlers : hand'[g] = hand[g] \/ hand'[g].pc = "idle"
    BY <1>7 DEF CommitUpdate, Forget, HandTypeOK, Idle
  <2>2. CASE hand[h].pc = "commit"
    <3>1. \A p \in tracked \ tracked' : mem[p].st \in Terminal
      BY <1>7, <2>2 DEF CommitUpdate, Forget
    <3> QED
      BY <2>1, <3>1 DEF Forgotten
  <2>3. CASE hand[h].pc = "commitCopy"
    <3>1. tracked' = tracked
      BY <1>7, <2>3 DEF CommitUpdate, Forget, Forgotten
    <3> QED
      BY <2>1, <3>1 DEF Forgotten
  <2> QED
    BY <1>7, <2>2, <2>3 DEF CommitUpdate
<1>8. ASSUME NEW h \in Handlers,
             HandleRollsBack(h) \/ \E o \in Orders : Poll(h, o)
      PROVE  Forgotten'
  <2>1. /\ UNCHANGED <<mem, tracked>>
        /\ \A g \in Handlers : hand'[g] = hand[g]
                               \/ hand'[g].pc \in {"idle", "polled"}
    BY <1>8 DEF HandleRollsBack, Poll, HandTypeOK, Idle
  <2> QED
    BY <2>1 DEF Forgotten
<1>9. CASE Crash
  BY <1>9 DEF Crash, Forgotten, Idle, Whole, Orders
<1>10. ASSUME NEW s \in Signals,
              \/ RiskCheck(s) \/ RecordSignal(s) \/ ChoosePrimary(s)
              \/ ChooseFailover(s) \/ Wake(s) \/ SubmitRollsBack(s)
       PROVE  Forgotten'
  BY <1>1, <1>10
  DEF RiskCheck, RecordSignal, ChoosePrimary, ChooseFailover, Wake,
      SubmitRollsBack
<1>11. ASSUME NEW o \in Orders,
              \/ WritePending(o) \/ StageResult(o) \/ CommitResult(o)
              \/ SendRollsBack(o) \/ BrokerStep(o)
       PROVE  Forgotten'
  BY <1>1, <1>11
  DEF WritePending, StageResult, CommitResult, SendRollsBack, BrokerStep,
      BrokerAccepts, BrokerRefuses, BrokerProgress
<1>12. CASE LoseReport \/ UNCHANGED vars
  BY <1>1, <1>12 DEF LoseReport, vars
<1> QED
  BY <1>2, <1>3, <1>4, <1>5, <1>6, <1>7, <1>8, <1>9, <1>10, <1>11, <1>12
  DEF Next, SubmitStep, SendStep, HandleStep, JournalFails

(* A step that leaves an order, and every call that writes it, alone.        *)
Untouched(o) ==
  /\ send'[o] = send[o] /\ mem'[o] = mem[o] /\ row'[o] = row[o]
  /\ image'[o] = image[o] /\ seen'[o] = seen[o]
  /\ o \in tracked' <=> o \in tracked
  /\ o \in unsaved => o \in unsaved'
  /\ \A h \in Handlers : Writing(h, o) \/ Writing(h, o)' =>
       hand'[h] = hand[h] /\ callSeen'[h] = callSeen[h]

LEMMA UntouchedCopy ==
  ASSUME NEW o, CopyOK(o), Untouched(o)
  PROVE  CopyOK(o)'
<1>1. \A h \in Handlers :
        /\ HasCopy(h, o)' => HasCopy(h, o)
        /\ HasCopy(h, o)' \/ (hand'[h].pc = "write" /\ hand'[h].o = o) =>
             hand'[h] = hand[h] /\ callSeen'[h] = callSeen[h]
        /\ Staged(h, o)' <=> Staged(h, o)
        /\ hand'[h].pc = "write" /\ hand'[h].o = o
             <=> hand[h].pc = "write" /\ hand[h].o = o
  BY DEF Untouched, Writing, HasCopy, Staged
<1>2. OneCopy(o)'
  BY <1>1 DEF OneCopy, CopyOK, Untouched
<1>3. FreshCopy(o)'
  BY <1>1 DEF FreshCopy, CopyOK, Untouched
<1>4. Onward(o)'
  BY <1>1 DEF Onward, CopyOK, Untouched
<1>5. LateCopy(o)'
  BY <1>1 DEF LateCopy, CopyOK, Untouched
<1>6. Agree(o)'
  <2>1. Moving(o)' <=> Moving(o)
    BY <1>1 DEF Moving, Untouched
  <2>2. \A rec : Same(o, rec) =>
          /\ rec.st = mem'[o].st
          /\ o \in tracked' => rec.filled = mem'[o].filled
    BY DEF Same, Untouched
  <2>3. \A h \in Handlers : Staged(h, o)' => hand'[h] = hand[h]
    BY <1>1 DEF Staged, HasCopy
  <2> QED
    BY <1>1, <2>1, <2>2, <2>3 DEF Agree, CopyOK, Untouched, Same
<1> QED
  BY <1>2, <1>3, <1>4, <1>5, <1>6 DEF CopyOK

(* An order that nobody has a copy of after a step: its row and its object   *)
(* are what counts.                                                          *)
LEMMA NoCopy ==
  ASSUME NEW o, send'[o] # "commit", \A h \in Handlers : ~HasCopy(h, o)',
         mem'[o] # Absent => mem'[o].st \in Reach(row'[o].st),
         o \notin unsaved' /\ mem'[o] # Absent /\ ~Moving(o)'
           => Same(o, row[o])'
  PROVE  CopyOK(o)'
BY DEF CopyOK, OneCopy, FreshCopy, Onward, LateCopy, Agree, Staged, HasCopy

(* submit()'s part in an order, and _send's.                                 *)
LEMMA CopyInserted ==
  ASSUME TypeOK, StageOK, JournalInv, NEW o \in Whole, CopyOK(o),
         NEW s \in Signals, SubmitStep(s)
  PROVE  CopyOK(o)'
<1> USE DEF submitVars, txVars, orderVars, wireVars, brokerVars, history
<1>1. CASE UNCHANGED <<send, mem, row, image, seen, callSeen, tracked, unsaved,
                       hand>>
  BY <1>1, UntouchedCopy DEF Untouched
<1>2. CASE InsertSlice(s)
  <2>1. <<s, slice[s]>> # o /\ o \in Orders
    BY <1>2 DEF InsertSlice, StageOK, CoreStage, TaskStage, Whole, Orders
  <2>2. Untouched(o)
    BY <1>2, <2>1
    DEF InsertSlice, StartOrder, Upsert, Untouched, TypeOK, OrderTypeOK
  <2> QED
    BY <2>2, UntouchedCopy
<1>3. CASE InsertOrder(s)
  <2>1. /\ tracked' = tracked \cup {<<s, 0>>}
        /\ row' = [row EXCEPT ![<<s, 0>>] = [st |-> "NEW", filled |-> 0]]
        /\ UNCHANGED <<image, seen, callSeen, hand, unsaved>>
        /\ \/ /\ mem' = [mem EXCEPT ![<<s, 0>>] =
                               [st |-> "PENDING", filled |-> 0]]
              /\ send' = [send EXCEPT ![<<s, 0>>] = "write"]
           \/ /\ mem' = [mem EXCEPT ![<<s, 0>>] = [st |-> "NEW", filled |-> 0]]
              /\ send' = send
    BY <1>3 DEF InsertOrder, StartOrder, Upsert
  <2>2. CASE o # <<s, 0>>
    <3>1. Untouched(o)
      BY <2>1, <2>2 DEF Untouched, TypeOK, OrderTypeOK, Whole, Orders
    <3> QED
      BY <3>1, UntouchedCopy
  <2>3. CASE o = <<s, 0>>
    <3>1. send[o] = "none" /\ \A h \in Handlers : ~HasCopy(h, o)'
      BY <1>3, <2>1, <2>3, Unknown
      DEF InsertOrder, HasCopy, TypeOK, JournalInv
    <3>2. o \in Orders
      BY DEF Whole, Orders
    <3>3. row'[o] = [st |-> "NEW", filled |-> 0]
      BY <2>1, <2>3, <3>2 DEF TypeOK, OrderTypeOK
    <3>4. \/ mem'[o] = [st |-> "PENDING", filled |-> 0] /\ send'[o] = "write"
          \/ mem'[o] = [st |-> "NEW", filled |-> 0] /\ send'[o] = "none"
      BY <2>1, <2>3, <3>1, <3>2 DEF TypeOK, OrderTypeOK
    <3>5. mem'[o].st \in Reach(row'[o].st)
      BY <3>3, <3>4, ReachFacts, RecordFacts
    <3>6. ~Moving(o)' => Same(o, row[o])'
      BY <3>3, <3>4 DEF Moving, Same
    <3> QED
      BY <3>1, <3>4, <3>5, <3>6, NoCopy
  <2> QED
    BY <2>2, <2>3
<1> QED
  BY <1>1, <1>2, <1>3
  DEF SubmitStep, RiskCheck, RecordSignal, ChoosePrimary, ChooseFailover, Wake

(* The upsert of PENDING finds no one else at the order.                     *)
LEMMA CopyPending ==
  ASSUME TypeOK, StageOK, JournalInv, NEW o \in Whole, CopyOK(o),
         NEW p \in Orders, WritePending(p)
  PROVE  CopyOK(o)'
<1> USE DEF submitVars, txVars, orderVars, wireVars, brokerVars, history
<1>1. /\ row' = [row EXCEPT ![p] = mem[p]] /\ send[p] = "write"
      /\ \E st \in {"await", "raised"} : send' = [send EXCEPT ![p] = st]
      /\ UNCHANGED <<mem, image, seen, callSeen, tracked, unsaved, hand>>
  BY DEF WritePending, Upsert, Raise
<1>2. CASE o # p
  <2>1. Untouched(o)
    BY <1>1, <1>2 DEF Untouched, TypeOK, OrderTypeOK, Whole, Orders
  <2> QED
    BY <2>1, UntouchedCopy
<1>3. CASE o = p
  <2>1. mem[o] \in Rec
    BY <1>1, <1>3 DEF StageOK, SenderStage, TypeOK, OrderTypeOK
  <2>2. /\ row'[o] = mem[o] /\ mem'[o] = mem[o]
        /\ send'[o] \in {"await", "raised"}
    BY <1>1, <1>3 DEF TypeOK, OrderTypeOK
  <2>3. \A h \in Handlers : ~HasCopy(h, o)'
    BY <1>1, <1>3, KnownRow DEF HasCopy, TypeOK, JournalInv
  <2>4. mem'[o].st \in Reach(row'[o].st) /\ Same(o, row[o])'
    BY <2>1, <2>2, ReachFacts, RecordFacts DEF Same
  <2> QED
    BY <2>2, <2>3, <2>4, NoCopy
<1> QED
  BY <1>2, <1>3

(* An answer moves the object; a copy made of a forgotten order cannot be    *)
(* overtaken by it, for that object is terminal.                             *)
LEMMA CopyAnswered ==
  ASSUME TypeOK, StageOK, JournalInv, Forgotten, NEW o \in Whole, CopyOK(o),
         NEW p \in Orders, AnswerArrives(p) \/ NetworkFails(p)
  PROVE  CopyOK(o)'
<1> USE DEF submitVars, txVars, orderVars, wireVars, brokerVars, history
<1>1. UNCHANGED <<row, image, seen, callSeen, tracked, unsaved, hand>>
  BY DEF AnswerArrives, NetworkFails, Timeout, OtherFailure
<1>2. /\ send[p] = "await" /\ mem[p] \in Rec
      /\ \/ UNCHANGED mem /\ send'[p] \in {"await", "raised"}
         \/ \E st \in Status : /\ Legal(mem[p].st, st)
                               /\ mem' = [mem EXCEPT ![p].st = st]
                               /\ send'[p] = "result"
      /\ \A q \in Orders \ {p} : send'[q] = send[q]
  BY ObjectMoves DEF StageOK, CoreStage, JournalInv
<1>3. CASE o # p
  <2>1. Untouched(o)
    BY <1>1, <1>2, <1>3 DEF Untouched, TypeOK, OrderTypeOK, Whole, Orders
  <2> QED
    BY <2>1, UntouchedCopy
<1>4. CASE o = p /\ UNCHANGED mem /\ send'[p] \in {"await", "raised"}
  BY <1>1, <1>2, <1>4
  DEF CopyOK, OneCopy, FreshCopy, Onward, LateCopy, Agree, Moving, Same,
      Staged, HasCopy
<1>5. ASSUME NEW st \in Status, Legal(mem[o].st, st), o = p,
             mem' = [mem EXCEPT ![o].st = st], send'[o] = "result"
      PROVE  CopyOK(o)'
  <2>1. mem[o] # Absent /\ mem[o].st \in Status
        /\ mem'[o].st = st /\ st \in Reach(mem[o].st)
    BY <1>2, <1>5, RecordFacts, RecordUpdate, ReachFacts
    DEF TypeOK, OrderTypeOK
  <2>2. OneCopy(o)' /\ FreshCopy(o)' /\ Agree(o)'
    BY <1>1, <1>2, <1>5
    DEF CopyOK, OneCopy, FreshCopy, Agree, Moving, HasCopy
  <2>3. \A x \in Status \cup {"NONE"} :
          mem[o].st \in Reach(x) => mem'[o].st \in Reach(x)
    BY <2>1, ReachFacts
  <2>4. row[o].st \in Status \cup {"NONE"}
        /\ \A h \in Handlers : HasCopy(h, o) => hand[h].rec.st \in Status
    BY RecordFacts, CallUnderWay
    DEF TypeOK, OrderTypeOK, Whole, Orders, HasCopy
  <2>5. Onward(o)'
    BY <1>1, <1>5, <2>1, <2>3, <2>4 DEF CopyOK, Onward, HasCopy
  <2>6. \A h \in Handlers : HasCopy(h, o) /\ hand[h].pc # "commit"
                             => mem[o].st \in Terminal
    BY <2>1 DEF HasCopy, Forgotten
  <2>7. mem[o].st \in Terminal => st = mem[o].st
    BY <1>5, ReachFacts
  <2>8. LateCopy(o)'
    BY <1>1, <2>1, <2>6, <2>7 DEF CopyOK, LateCopy, HasCopy
  <2> QED
    BY <2>2, <2>5, <2>8 DEF CopyOK
<1> QED
  BY <1>2, <1>3, <1>4, <1>5

LEMMA CopySent ==
  ASSUME TypeOK, StageOK, JournalInv, NEW o \in Whole, o \notin contested',
         CopyOK(o), NEW p \in Orders,
         StageResult(p) \/ CommitResult(p) \/ SendRollsBack(p)
  PROVE  CopyOK(o)'
<1> USE DEF submitVars, txVars, orderVars, wireVars, brokerVars, history
<1>1. CASE o # p
  <2>1. \A q \in {o} : row'[q] = row[q]
    BY <1>1
    DEF StageResult, CommitResult, SendRollsBack, UpdateColumns, TypeOK,
        OrderTypeOK, Whole, Orders
  <2>2. o \in unsaved => o \in unsaved'
    BY <1>1 DEF StageResult, CommitResult, SendRollsBack, Saved, Contest
  <2>3. Untouched(o)
    BY <1>1, <2>1, <2>2
    DEF StageResult, CommitResult, SendRollsBack, Return, Raise, Untouched,
        TypeOK, OrderTypeOK, Whole, Orders
  <2> QED
    BY <2>3, UntouchedCopy
<1>2. CASE o = p /\ StageResult(o)
  <2>1. /\ send[o] = "result" /\ send'[o] = "commit"
        /\ image'[o] = mem[o] /\ seen'[o] = row[o] /\ mem[o] # Absent
        /\ UNCHANGED <<mem, row, callSeen, hand, tracked, unsaved>>
    BY <1>2
    DEF StageResult, Contest, StageOK, SenderStage, TypeOK, OrderTypeOK
  <2>2. \A h \in Handlers : ~HasCopy(h, o)'
    BY <1>2, <2>1 DEF StageResult, Contest, HasCopy
  <2>3. mem[o] \in Rec
    BY <2>1 DEF TypeOK, OrderTypeOK, Whole, Orders
  <2>4. mem[o].st \in Reach(mem[o].st)
    BY <2>3, RecordFacts, ReachFacts
  <2> QED
    BY <2>1, <2>2, <2>4
    DEF CopyOK, OneCopy, FreshCopy, Onward, LateCopy, Agree, Same, Staged,
        HasCopy
<1>3. CASE o = p /\ CommitResult(o)
  <2>1. /\ send[o] = "commit" /\ send'[o] = "sent"
        /\ UpdateColumns(o, seen[o], image[o])
        /\ UNCHANGED <<mem, callSeen, hand, tracked>>
    BY <1>3 DEF CommitResult, Return, TypeOK, OrderTypeOK
  <2>2. image[o] \in Rec /\ mem[o] # Absent
    BY <2>1 DEF StageOK, SenderStage, TypeOK, OrderTypeOK, Whole, Orders
  <2>3. /\ \A h \in Handlers : ~HasCopy(h, o)
        /\ seen[o] = row[o] /\ mem[o].st \in Reach(image[o].st)
        /\ o \notin unsaved /\ ~Moving(o) => Same(o, image[o])
    BY <2>1, <2>2 DEF CopyOK, OneCopy, FreshCopy, Onward, Agree
  <2>4. row'[o] = image[o]
    <3>1. UpdateColumns(o, row[o], image[o]) /\ o \in Orders
      BY <1>3, <2>1, <2>3
    <3>2. row' = [row EXCEPT ![o] = image[o]]
      BY <2>2, <3>1, RowWritten DEF TypeOK
    <3> QED
      BY <3>1, <3>2 DEF TypeOK, OrderTypeOK
  <2>5. o \in unsaved \ unsaved' => row'[o] = mem[o]
    BY <1>3 DEF CommitResult, Saved
  <2>6. Moving(o) => Moving(o)'
    BY <2>1 DEF Moving
  <2>7. o \notin unsaved' /\ ~Moving(o)' => Same(o, row[o])'
    BY <2>1, <2>3, <2>4, <2>5, <2>6 DEF Same
  <2>8. \A h \in Handlers : ~HasCopy(h, o)'
    BY <2>1, <2>3 DEF HasCopy
  <2> QED
    BY <2>1, <2>3, <2>4, <2>7, <2>8, NoCopy
<1>4. CASE o = p /\ SendRollsBack(o)
  <2>1. o \in unsaved' /\ send'[o] = "raised"
        /\ UNCHANGED <<mem, row, callSeen, hand, tracked>>
    BY <1>4 DEF SendRollsBack, Raise, TypeOK, OrderTypeOK
  <2> QED
    BY <2>1
    DEF CopyOK, OneCopy, FreshCopy, Onward, LateCopy, Agree, HasCopy
<1> QED
  BY <1>1, <1>2, <1>3, <1>4

(* A call of on_broker_update that has no copy of the order, before or       *)
(* after a step of its own, leaves the order alone.                          *)
LEMMA CopyReceived ==
  ASSUME TypeOK, StageOK, JournalInv, Forgotten, NEW o \in Whole, CopyOK(o),
         NEW h \in Handlers, Receive(h)
  PROVE  CopyOK(o)'
<1> USE DEF submitVars, txVars, orderVars, wireVars, brokerVars, history
<1>1. PICK p \in Orders, rec \in Rec : Deliver(h, p, rec)
  BY Received DEF TypeOK, JournalInv
<1>2. /\ UNCHANGED <<send, row, image, seen, callSeen, tracked, unsaved>>
      /\ \A g \in Handlers \ {h} : hand'[g] = hand[g]
      /\ hand[h].pc \in {"idle", "polled"}
  BY <1>1 DEF Receive, Deliver, TypeOK, HandTypeOK, Idle
<1>3. CASE p # o \/ (UNCHANGED mem /\ hand'[h].pc \in {"idle", "lookup"})
  <2>1. mem'[o] = mem[o]
    BY <1>1, <1>3 DEF Deliver, TypeOK, OrderTypeOK, Whole, Orders
  <2>2. hand'[h].pc = "write" => hand'[h].o = p
    BY <1>1 DEF Deliver, TypeOK, HandTypeOK, Idle
  <2>3. hand'[h].pc \in {"idle", "lookup", "write"}
    BY <1>1 DEF Deliver, TypeOK, HandTypeOK, Idle
  <2>4. ~Writing(h, o) /\ ~Writing(h, o)'
    BY <1>2, <1>3, <2>2, <2>3 DEF Writing
  <2>5. Untouched(o)
    BY <1>2, <2>1, <2>4 DEF Untouched, Writing
  <2> QED
    BY <2>5, UntouchedCopy
<1>4. CASE /\ p = o /\ o \in tracked /\ Legal(mem[o].st, rec.st)
           /\ mem' = [mem EXCEPT ![o] = rec]
           /\ hand' = [hand EXCEPT ![h] =
                         [pc |-> "write", o |-> o, rec |-> rec]]
  <2>1. mem'[o] = rec /\ hand'[h] = [pc |-> "write", o |-> o, rec |-> rec]
    BY <1>4 DEF TypeOK, OrderTypeOK, HandTypeOK
  <2>2. mem[o] \in Rec /\ mem[o] # Absent
    BY <1>4
    DEF StageOK, CoreStage, ObjectStage, TypeOK, OrderTypeOK, Whole, Orders
  <2>3. rec.st \in Reach(mem[o].st)
    BY <1>4, <2>2, ReachFacts, RecordFacts
  <2>4. \A g \in Handlers : HasCopy(g, o)' => g # h /\ HasCopy(g, o)
    BY <1>2, <2>1 DEF HasCopy
  <2>5. OneCopy(o)' /\ FreshCopy(o)' /\ Agree(o)'
    BY <1>2, <2>1, <2>4 DEF CopyOK, OneCopy, FreshCopy, Agree, Moving
  <2>6. \A g \in Handlers : HasCopy(g, o)' => hand[g].pc = "commit"
    BY <1>4, <2>4 DEF HasCopy, Forgotten
  <2>7. LateCopy(o)'
    BY <1>2, <2>4, <2>6 DEF LateCopy
  <2>8. row[o].st \in Status \cup {"NONE"}
        /\ \A g \in Handlers : HasCopy(g, o) => hand[g].rec.st \in Status
    BY RecordFacts, CallUnderWay
    DEF TypeOK, OrderTypeOK, Whole, Orders, HasCopy
  <2>9. send[o] = "commit" => image[o].st \in Status
    BY RecordFacts
    DEF StageOK, SenderStage, TypeOK, OrderTypeOK, Whole, Orders
  <2>10. \A x \in Status \cup {"NONE"} :
           mem[o].st \in Reach(x) => rec.st \in Reach(x)
    BY <2>2, <2>3, ReachFacts, RecordFacts
  <2>11. Onward(o)'
    BY <1>2, <2>1, <2>2, <2>4, <2>8, <2>9, <2>10 DEF CopyOK, Onward
  <2> QED
    BY <2>5, <2>7, <2>11 DEF CopyOK
<1>5. \/ UNCHANGED mem /\ hand'[h].pc \in {"idle", "lookup"}
      \/ /\ p \in tracked /\ Legal(mem[p].st, rec.st)
         /\ mem' = [mem EXCEPT ![p] = rec]
         /\ hand' = [hand EXCEPT ![h] = [pc |-> "write", o |-> p, rec |-> rec]]
  BY <1>1 DEF Deliver, TypeOK, HandTypeOK, Idle
<1> QED
  BY <1>3, <1>4, <1>5

LEMMA CopyRehydrated ==
  ASSUME TypeOK, StageOK, JournalInv, Forgotten, NEW o \in Whole,
         o \notin contested', CopyOK(o), NEW h \in Handlers, Rehydrate(h)
  PROVE  CopyOK(o)'
<1> USE DEF submitVars, txVars, orderVars, wireVars, brokerVars, history
<1>1. /\ UNCHANGED <<send, mem, row, image, seen, callSeen, tracked, unsaved>>
      /\ \A g \in Handlers \ {h} : hand'[g] = hand[g]
      /\ hand[h].pc = "lookup"
  BY DEF Rehydrate, Contest, TypeOK, HandTypeOK
<1>2. CASE hand[h].o # o \/ hand'[h] = Idle
  <2>1. ~Writing(h, o) /\ ~Writing(h, o)'
    BY <1>1, <1>2 DEF Rehydrate, Writing, TypeOK, HandTypeOK, Idle
  <2>2. Untouched(o)
    BY <1>1, <2>1 DEF Untouched, Writing
  <2> QED
    BY <2>2, UntouchedCopy
<1>3. CASE hand[h].o = o /\ hand'[h] # Idle
  <2>1. /\ row[o] # Absent /\ Legal(row[o].st, hand[h].rec.st)
        /\ hand'[h] = [pc |-> "writeCopy", o |-> o, rec |-> hand[h].rec]
        /\ ~Overlap(o, h) /\ (mem[o] # Absent => mem[o].st = row[o].st)
    BY <1>3 DEF Rehydrate, Contest, TypeOK, HandTypeOK
  <2>2. row[o].st \in Status /\ hand[h].rec.st \in Status
    BY <1>1, <2>1, RecordFacts, CallUnderWay
    DEF TypeOK, OrderTypeOK, Whole, Orders
  <2>3. hand[h].rec.st \in Reach(row[o].st)
        /\ (row[o].st \in Terminal => hand[h].rec.st = row[o].st)
    BY <2>1, <2>2, ReachFacts
  <2>4. mem[o] # Absent => mem[o].st \in Terminal
    BY <1>1, <1>3 DEF Forgotten
  <2>5. send[o] # "commit" /\ \A g \in Handlers : HasCopy(g, o)' => g = h
    BY <1>1, <2>1 DEF Overlap, HasCopy
  <2>6. OneCopy(o)' /\ FreshCopy(o)'
    BY <1>1, <2>1, <2>5 DEF OneCopy, FreshCopy
  <2>7. Onward(o)' /\ LateCopy(o)'
    BY <1>1, <2>1, <2>3, <2>4, <2>5 DEF CopyOK, Onward, LateCopy
  <2>8. \A g \in Handlers : /\ Staged(g, o)' <=> Staged(g, o)
                            /\ hand'[g].pc = "write" <=> hand[g].pc = "write"
                            /\ hand[g].pc # "lookup" => hand'[g] = hand[g]
    BY <1>1, <2>1 DEF Staged
  <2>9. Moving(o)' <=> Moving(o)
    BY <1>1, <2>8 DEF Moving
  <2>10. Agree(o)'
    BY <1>1, <2>8, <2>9 DEF CopyOK, Agree, Same, Staged
  <2> QED
    BY <2>6, <2>7, <2>10 DEF CopyOK
<1> QED
  BY <1>2, <1>3

LEMMA CopyStaged ==
  ASSUME TypeOK, StageOK, NEW o \in Whole, o \notin contested', CopyOK(o),
         NEW h \in Handlers, StageUpdate(h)
  PROVE  CopyOK(o)'
<1> USE DEF submitVars, txVars, orderVars, wireVars, brokerVars, history
<1>1. /\ UNCHANGED <<send, mem, row, image, seen, tracked, unsaved>>
      /\ \A g \in Handlers \ {h} : hand'[g] = hand[g]
                                   /\ callSeen'[g] = callSeen[g]
      /\ callSeen'[h] = row[hand[h].o]
      /\ hand[h].pc \in {"write", "writeCopy"} /\ hand'[h].o = hand[h].o
  <2>1. CASE hand[h].pc = "write"
    BY <2>1 DEF StageUpdate, Contest, TypeOK, OrderTypeOK, HandTypeOK
  <2>2. CASE hand[h].pc = "writeCopy"
    <3>1. hand' = [hand EXCEPT ![h].pc = "commitCopy"] /\ UNCHANGED history
      BY <2>2 DEF StageUpdate
    <3>2. hand'[h].o = hand[h].o
      BY <2>2, <3>1, CallUnderWay DEF TypeOK, HandTypeOK
    <3> QED
      BY <2>2, <3>1, <3>2
      DEF StageUpdate, TypeOK, OrderTypeOK, HandTypeOK
  <2> QED
    BY <2>1, <2>2 DEF StageUpdate
<1>2. CASE hand[h].o # o
  <2>1. Untouched(o)
    BY <1>1, <1>2 DEF Untouched, Writing
  <2> QED
    BY <2>1, UntouchedCopy
<1>3. CASE hand[h].o = o /\ hand[h].pc = "write"
  <2>1. /\ hand'[h] = [pc |-> "commit", o |-> o, rec |-> mem[o]]
        /\ ~Overlap(o, h) /\ mem[o] # Absent
    BY <1>3
    DEF StageUpdate, Contest, StageOK, CoreStage, ObjectStage, TypeOK,
        HandTypeOK
  <2>2. mem[o].st \in Reach(mem[o].st)
    BY <2>1, RecordFacts, ReachFacts DEF TypeOK, OrderTypeOK, Whole, Orders
  <2>3. send[o] # "commit" /\ \A g \in Handlers : HasCopy(g, o)' => g = h
    BY <1>1, <2>1 DEF Overlap, HasCopy
  <2>4. OneCopy(o)' /\ FreshCopy(o)' /\ LateCopy(o)'
    BY <1>1, <1>3, <2>1, <2>3 DEF OneCopy, FreshCopy, LateCopy
  <2>5. Onward(o)'
    BY <1>1, <2>1, <2>2, <2>3 DEF CopyOK, Onward
  <2>6. Agree(o)'
    BY <1>1, <2>1, <2>3 DEF Agree, Same, Staged, HasCopy
  <2> QED
    BY <2>4, <2>5, <2>6 DEF CopyOK
<1>4. CASE hand[h].o = o /\ hand[h].pc = "writeCopy"
  <2>1. hand' = [hand EXCEPT ![h].pc = "commitCopy"]
    BY <1>4 DEF StageUpdate
  <2>2. hand'[h] = [pc |-> "commitCopy", o |-> o, rec |-> hand[h].rec]
    BY <1>4, <2>1, CallUnderWay DEF TypeOK, HandTypeOK
  <2>3. \A g \in Handlers : /\ HasCopy(g, o)' <=> HasCopy(g, o)
                            /\ Staged(g, o)' <=> Staged(g, o)
                            /\ hand'[g].rec = hand[g].rec
                            /\ hand'[g].pc = "commit" <=> hand[g].pc = "commit"
                            /\ hand'[g].pc = "write" <=> hand[g].pc = "write"
                            /\ hand'[g].o = hand[g].o
    BY <1>1, <1>4, <2>2 DEF HasCopy, Staged
  <2>4. OneCopy(o)' /\ LateCopy(o)' /\ Onward(o)'
    BY <1>1, <2>3 DEF CopyOK, OneCopy, LateCopy, Onward
  <2>5. FreshCopy(o)'
    BY <1>1, <1>4, <2>3 DEF CopyOK, FreshCopy, HasCopy
  <2>6. Moving(o)' <=> Moving(o)
    BY <1>1, <2>3 DEF Moving
  <2>7. Agree(o)'
    BY <1>1, <2>3, <2>6 DEF CopyOK, Agree, Same
  <2> QED
    BY <2>4, <2>5, <2>7 DEF CopyOK
<1> QED
  BY <1>1, <1>2, <1>3, <1>4

(* The commit of an update writes the one copy over the row it was read      *)
(* from, so that the row becomes that copy.                                  *)
LEMMA WholeWritten ==
  ASSUME TypeOK, NEW h \in Handlers, CommitUpdate(h),
         hand[h].o \in Whole, CopyOK(hand[h].o)
  PROVE  /\ row' = [row EXCEPT ![hand[h].o] = hand[h].rec]
         /\ row'[hand[h].o] = hand[h].rec
<1>1. /\ HasCopy(h, hand[h].o) /\ hand[h].pc # "writeCopy"
      /\ hand[h].pc # "idle"
  BY DEF CommitUpdate, HasCopy
<1>2. callSeen[h] = row[hand[h].o]
  BY <1>1 DEF CopyOK, FreshCopy
<1>3. hand[h].o \in Orders /\ hand[h].rec \in Rec
  BY <1>1, CallUnderWay DEF TypeOK
<1>4. UpdateColumns(hand[h].o, row[hand[h].o], hand[h].rec)
  BY <1>2 DEF CommitUpdate
<1>5. row' = [row EXCEPT ![hand[h].o] = hand[h].rec]
  BY <1>3, <1>4, RowWritten DEF TypeOK
<1> QED
  BY <1>3, <1>5 DEF TypeOK, OrderTypeOK

LEMMA CopyCommitted ==
  ASSUME TypeOK, StageOK, Forgotten, NEW o \in Whole, CopyOK(o),
         NEW h \in Handlers, CommitUpdate(h)
  PROVE  CopyOK(o)'
<1> USE DEF submitVars, txVars, orderVars, wireVars, brokerVars, history
<1>1. /\ UNCHANGED <<send, mem, image, seen>>
      /\ \A g \in Handlers \ {h} : hand'[g] = hand[g]
                                   /\ callSeen'[g] = callSeen[g]
      /\ hand'[h].pc = "idle" /\ hand[h].pc \in {"commit", "commitCopy"}
      /\ tracked' \subseteq tracked /\ tracked \ {hand[h].o} \subseteq tracked'
      /\ unsaved' \subseteq unsaved /\ unsaved \ {hand[h].o} \subseteq unsaved'
      /\ hand[h].o \in unsaved \ unsaved' => row'[hand[h].o] = mem[hand[h].o]
  BY DEF CommitUpdate, Forget, Saved, TypeOK, OrderTypeOK, HandTypeOK, Idle
<1>2. CASE hand[h].o # o
  <2>1. row'[o] = row[o]
    BY <1>2
    DEF CommitUpdate, UpdateColumns, TypeOK, OrderTypeOK, Whole, Orders
  <2>2. Untouched(o)
    BY <1>1, <1>2, <2>1 DEF Untouched, Writing
  <2> QED
    BY <2>2, UntouchedCopy
<1>3. CASE hand[h].o = o
  <2> DEFINE rec == hand[h].rec
  <2>1. HasCopy(h, o) /\ row'[o] = rec
    BY <1>1, <1>3, WholeWritten DEF HasCopy
  <2>2. send[o] # "commit" /\ \A g \in Handlers : ~HasCopy(g, o)'
    BY <1>1, <2>1 DEF CopyOK, OneCopy, HasCopy
  <2>3. mem[o] # Absent => mem[o].st \in Reach(rec.st)
    <3>1. CASE hand[h].pc = "commit"
      BY <2>1, <3>1 DEF CopyOK, Onward
    <3>2. CASE hand[h].pc = "commitCopy" /\ mem[o] # Absent
      <4>1. mem[o].st = rec.st
        BY <2>1, <3>2 DEF CopyOK, LateCopy
      <4>2. rec.st \in Status
        BY <1>1, RecordFacts, CallUnderWay DEF TypeOK
      <4> QED
        BY <4>1, <4>2, ReachFacts
    <3> QED
      BY <1>1, <3>1, <3>2
  <2>4. ASSUME o \notin unsaved', mem[o] # Absent, ~Moving(o)'
        PROVE  Same(o, row[o])'
    <3>1. ~Moving(o)
      BY <1>1, <2>4 DEF Moving
    <3>2. CASE o \in unsaved
      BY <1>1, <1>3, <2>4, <3>2 DEF Same
    <3>3. CASE o \notin unsaved /\ hand[h].pc = "commit"
      <4>1. Same(o, rec)
        BY <1>3, <2>4, <3>1, <3>3 DEF CopyOK, Agree, Staged
      <4> QED
        BY <1>1, <2>1, <4>1 DEF Same
    <3>4. CASE hand[h].pc = "commitCopy"
      <4>1. o \notin tracked /\ mem[o].st = rec.st
        BY <1>3, <2>1, <2>4, <3>4 DEF Forgotten, CopyOK, LateCopy
      <4> QED
        BY <1>1, <2>1, <4>1 DEF Same
    <3> QED
      BY <1>1, <3>2, <3>3, <3>4
  <2> QED
    BY <1>1, <2>1, <2>2, <2>3, <2>4, NoCopy
<1> QED
  BY <1>2, <1>3

LEMMA CopyDropped ==
  ASSUME TypeOK, NEW o \in Whole, CopyOK(o),
         \/ Crash
         \/ \E h \in Handlers : \/ HandleRollsBack(h)
                               \/ \E p \in Orders : Poll(h, p)
  PROVE  CopyOK(o)'
<1> USE DEF submitVars, txVars, orderVars, wireVars, brokerVars, history
<1>1. ASSUME NEW h \in Handlers, HandleRollsBack(h) PROVE CopyOK(o)'
  <2>1. /\ UNCHANGED <<send, mem, row, image, seen, tracked>>
        /\ \A g \in Handlers \ {h} : hand'[g] = hand[g]
                                     /\ callSeen'[g] = callSeen[g]
        /\ hand'[h].pc = "idle" /\ unsaved \subseteq unsaved'
        /\ hand[h].pc \in {"write", "commit"} => hand[h].o \in unsaved'
    BY <1>1 DEF HandleRollsBack, TypeOK, OrderTypeOK, HandTypeOK, Idle
  <2>2. OneCopy(o)' /\ FreshCopy(o)' /\ Onward(o)' /\ LateCopy(o)'
    BY <2>1 DEF CopyOK, OneCopy, FreshCopy, Onward, LateCopy, HasCopy
  <2>3. ASSUME o \notin unsaved'
        PROVE  /\ Moving(o)' <=> Moving(o)
               /\ \A g \in Handlers : /\ Staged(g, o)' <=> Staged(g, o)
                                      /\ Staged(g, o) => hand'[g] = hand[g]
    BY <2>1, <2>3 DEF Moving, Staged
  <2>4. Agree(o)'
    BY <2>1, <2>3 DEF CopyOK, Agree, Same
  <2> QED
    BY <2>2, <2>4 DEF CopyOK
<1>2. ASSUME NEW h \in Handlers, NEW p \in Orders, Poll(h, p)
      PROVE  CopyOK(o)'
  <2>1. /\ \A g \in Handlers \ {h} : hand'[g] = hand[g]
        /\ hand[h].pc = "idle" /\ hand'[h].pc = "polled"
    BY <1>2 DEF Poll, TypeOK, HandTypeOK, Idle
  <2>2. Untouched(o)
    BY <1>2, <2>1 DEF Poll, Untouched, Writing
  <2> QED
    BY <2>2, UntouchedCopy
<1>3. CASE Crash
  <2>1. /\ send'[o] # "commit" /\ mem'[o] = Absent
        /\ \A h \in Handlers : hand'[h].pc = "idle"
    BY <1>3 DEF Crash, TypeOK, OrderTypeOK, Whole, Orders, Idle
  <2> QED
    BY <2>1, NoCopy DEF HasCopy
<1> QED
  BY <1>1, <1>2, <1>3

LEMMA CopyStep ==
  /\ TypeOK /\ StageOK /\ JournalInv /\ Forgotten /\ CopyStage
  /\ [Next]_vars
  => CopyStage'
<1> SUFFICES ASSUME TypeOK, StageOK, JournalInv, Forgotten, CopyStage,
                    [Next]_vars, NEW o \in Whole, o \notin contested'
             PROVE  CopyOK(o)'
  BY DEF CopyStage
<1> USE DEF submitVars, txVars, orderVars, wireVars, brokerVars, history
<1>1. CopyOK(o)
  <2>1. contested \subseteq contested'
    BY DEF Next, SubmitStep, RiskCheck, RecordSignal, ChoosePrimary,
           ChooseFailover, InsertOrder, InsertSlice, Wake, SendStep,
           WritePending, AnswerArrives, StageResult, CommitResult,
           BrokerStep, BrokerAccepts, BrokerRefuses, BrokerProgress,
           NetworkFails, Timeout, OtherFailure, HandleStep, Receive,
           Rehydrate, StageUpdate, CommitUpdate, Poll, LoseReport,
           JournalFails, SubmitRollsBack, SendRollsBack, HandleRollsBack,
           RollBack, Contest, Saved, Crash, vars
  <2> QED
    BY <2>1 DEF CopyStage
<1>2. ASSUME NEW h \in Handlers, HandleStep(h) PROVE CopyOK(o)'
  BY <1>1, <1>2, CopyReceived, CopyRehydrated, CopyStaged, CopyCommitted
  DEF HandleStep
<1>3. ASSUME NEW p \in Orders,
             SendStep(p) \/ NetworkFails(p) \/ SendRollsBack(p)
      PROVE  CopyOK(o)'
  BY <1>1, <1>3, CopyPending, CopyAnswered, CopySent DEF SendStep
<1>4. ASSUME NEW s \in Signals, SubmitStep(s) PROVE CopyOK(o)'
  BY <1>1, <1>4, CopyInserted
<1>5. CASE UNCHANGED <<send, mem, row, image, seen, callSeen, tracked, unsaved,
                       hand>>
  BY <1>1, <1>5, UntouchedCopy DEF Untouched
<1>6. CASE \/ \E s \in Signals : SubmitRollsBack(s)
           \/ \E p \in Orders : BrokerStep(p)
           \/ LoseReport \/ UNCHANGED vars
  BY <1>5, <1>6
  DEF SubmitRollsBack, BrokerStep, BrokerAccepts, BrokerRefuses,
      BrokerProgress, LoseReport, vars
<1> QED
  BY <1>1, <1>2, <1>3, <1>4, <1>6, CopyDropped DEF Next, JournalFails

LifeInv == Forgotten /\ BirthStage /\ CopyStage

LEMMA LifeInit == Init => LifeInv
<1> SUFFICES ASSUME Init PROVE LifeInv
  OBVIOUS
<1>1. Forgotten /\ BirthStage
  BY OrderNames DEF Init, Forgotten, BirthStage, Idle, Whole, Orders
<1>2. ASSUME NEW o \in Whole PROVE CopyOK(o)
  BY <1>2
  DEF Init, CopyOK, OneCopy, FreshCopy, Onward, LateCopy, Agree, HasCopy,
      Staged, Idle, Whole, Orders
<1> QED
  BY <1>1, <1>2 DEF LifeInv, CopyStage

LEMMA LifeStep ==
  TypeOK /\ StageOK /\ JournalInv /\ LifeInv /\ [Next]_vars => LifeInv'
BY ForgottenStep, BirthStep, CopyStep DEF LifeInv

-----------------------------------------------------------------------------
(* The order table as the ledger sees it, and its moves.                     *)
LedgerStatus == [o \in Whole |-> row[o].st]
LedgerState  == <<LedgerStatus, contested \cap Whole>>

LEMMA SameReach == \A x : Ledger!Reach(x) = Reach(x)
BY DEF Ledger!Reach, Reach, Ledger!Status, Status, Ledger!Active, Active,
       Ledger!Terminal, Terminal

(* A write of one row is a move of the ledger if it creates the row, or      *)
(* takes the status forward, or if the order is disputed already.            *)
LEMMA RowMove ==
  ASSUME OrderTypeOK, NEW o \in Orders, NEW rec \in Rec,
         row' = [row EXCEPT ![o] = rec], UNCHANGED contested,
         o \in Whole => \/ row[o] = Absent /\ rec.st = "NEW"
                        \/ row[o] # Absent /\ o \in contested
                        \/ rec.st \in Reach(row[o].st)
  PROVE  [Ledger!Next]_LedgerState
<1>1. LedgerStatus' = [p \in Whole |-> IF p = o THEN rec.st ELSE row[p].st]
      /\ (contested \cap Whole)' = contested \cap Whole
  BY DEF LedgerStatus, OrderTypeOK, Whole, Orders
<1>2. CASE o \notin Whole
  BY <1>1, <1>2 DEF LedgerStatus, LedgerState
<1>3. CASE o \in Whole
  <2>1. LedgerStatus' = [LedgerStatus EXCEPT ![o] = rec.st]
    BY <1>1, <1>3 DEF LedgerStatus
  <2>2. /\ LedgerStatus[o] = row[o].st /\ rec.st \in Status
        /\ row[o] # Absent => row[o].st # "NONE"
    BY <1>3, RecordFacts, ReachFacts DEF LedgerStatus, OrderTypeOK
  <2>3. CASE row[o] = Absent /\ rec.st = "NEW"
    BY <1>1, <1>3, <2>1, <2>2, <2>3, RecordFacts
    DEF Ledger!Next, Ledger!Create, LedgerStatus
  <2>4. CASE rec.st \in Reach(row[o].st)
    <3>1. row[o].st # "NONE"
      BY <2>2, <2>4, ReachFacts
    <3>2. Ledger!Advance(o)
      BY <1>1, <2>1, <2>2, <2>4, <3>1, SameReach
      DEF Ledger!Advance, LedgerStatus
    <3> QED
      BY <1>3, <3>2 DEF Ledger!Next
  <2>5. CASE row[o] # Absent /\ o \in contested
    <3>1. rec.st \in Ledger!Status
      BY <2>2
      DEF Status, Active, Terminal, Ledger!Status, Ledger!Active,
          Ledger!Terminal
    <3>2. Ledger!Dispute(o)
      BY <1>1, <1>3, <2>1, <2>2, <2>5, <3>1 DEF Ledger!Dispute, LedgerStatus
    <3> QED
      BY <1>3, <3>2 DEF Ledger!Next
  <2> QED
    BY <1>3, <2>3, <2>4, <2>5
<1> QED
  BY <1>2, <1>3

(* And so is an order's becoming contested.                                  *)
LEMMA DisputeMove ==
  ASSUME OrderTypeOK, NEW o \in Orders, row[o] # Absent, UNCHANGED row,
         contested' \in {contested, contested \cup {o}}
  PROVE  [Ledger!Next]_LedgerState
<1>1. CASE o \notin Whole \/ contested' = contested
  BY <1>1 DEF LedgerState, LedgerStatus
<1>2. CASE o \in Whole /\ contested' = contested \cup {o}
  <2>1. /\ LedgerStatus[o] = row[o].st /\ row[o].st \in Status
        /\ row[o].st # "NONE" /\ LedgerStatus' = LedgerStatus
    BY <1>2, RecordFacts, ReachFacts DEF LedgerStatus, OrderTypeOK
  <2>2. LedgerStatus' = [LedgerStatus EXCEPT ![o] = row[o].st]
    BY <2>1 DEF LedgerStatus
  <2>3. row[o].st \in Ledger!Status
    BY <2>1
    DEF Status, Active, Terminal, Ledger!Status, Ledger!Active,
        Ledger!Terminal
  <2>4. (contested \cap Whole)' = (contested \cap Whole) \cup {o}
    BY <1>2
  <2>5. Ledger!Dispute(o)
    BY <2>1, <2>2, <2>3, <2>4 DEF Ledger!Dispute, LedgerStatus
  <2> QED
    BY <1>2, <2>5 DEF Ledger!Next
<1> QED
  BY <1>1, <1>2

(* No row changes but by an insert, the upsert of PENDING, or a commit.      *)
LEMMA LedgerStep ==
  ASSUME TypeOK, StageOK, JournalInv, LifeInv, LifeInv', [Next]_vars
  PROVE  [Ledger!Next]_LedgerState
<1> USE DEF submitVars, txVars, orderVars, wireVars, brokerVars
<1>a. OrderTypeOK
  BY DEF TypeOK
<1>1. CASE UNCHANGED <<row, contested>>
  BY <1>1 DEF LedgerState, LedgerStatus
<1>2. ASSUME NEW s \in Signals, InsertOrder(s)
      PROVE  [Ledger!Next]_LedgerState
  <2>1. row' = [row EXCEPT ![<<s, 0>>] = [st |-> "NEW", filled |-> 0]]
        /\ UNCHANGED contested
    BY <1>2 DEF InsertOrder, StartOrder, Upsert, history
  <2>2. row[<<s, 0>>] = Absent
    BY <1>2 DEF InsertOrder, LifeInv, BirthStage
  <2> QED
    BY <1>a, <2>1, <2>2, OrderNames, RecordFacts, RowMove
<1>3. ASSUME NEW s \in Signals, InsertSlice(s)
      PROVE  [Ledger!Next]_LedgerState
  <2>1. row' = [row EXCEPT ![<<s, slice[s]>>] = [st |-> "NEW", filled |-> 0]]
        /\ UNCHANGED contested
    BY <1>3 DEF InsertSlice, StartOrder, Upsert, history
  <2>2. <<s, slice[s]>> \in Orders /\ <<s, slice[s]>> \notin Whole
    BY <1>3, OrderNames
    DEF InsertSlice, TypeOK, SubmitTypeOK, StageOK, CoreStage, TaskStage, Whole
  <2> QED
    BY <1>a, <2>1, <2>2, RecordFacts, RowMove
<1>4. ASSUME NEW o \in Orders, WritePending(o)
      PROVE  [Ledger!Next]_LedgerState
  <2>1. row' = [row EXCEPT ![o] = mem[o]] /\ UNCHANGED contested
    BY <1>4 DEF WritePending, Upsert, history
  <2>2. mem[o] \in Rec /\ mem[o] # Absent
    BY <1>4, <1>a DEF WritePending, StageOK, SenderStage, OrderTypeOK
  <2>3. row[o].st = "NEW" /\ mem[o].st = "PENDING"
    BY <1>4 DEF WritePending, JournalInv, RecordStage
  <2> QED
    BY <1>a, <2>1, <2>2, <2>3, ReachFacts, RowMove
<1>5. ASSUME NEW o \in Orders, CommitResult(o)
      PROVE  [Ledger!Next]_LedgerState
  <2>1. /\ send[o] = "commit" /\ UpdateColumns(o, seen[o], image[o])
        /\ UNCHANGED contested /\ image[o] \in Rec
    BY <1>5, <1>a
    DEF CommitResult, Saved, StageOK, SenderStage, OrderTypeOK
  <2> DEFINE new == row'[o]
  <2>2. row' = [row EXCEPT ![o] = new] /\ new \in Rec
        /\ (row[o] = Absent => new = image[o])
    BY <1>a, <2>1, ColumnsMixed
  <2>3. CASE o \notin Whole \/ (row[o] # Absent /\ o \in contested)
    <3> HIDE DEF new
    <3> QED
      BY <1>a, <2>1, <2>2, <2>3, RowMove
  <2>4. CASE o \in Whole \ contested
    <3>1. seen[o] = row[o] /\ image[o].st \in Reach(row[o].st)
      BY <2>1, <2>4 DEF LifeInv, CopyStage, CopyOK, FreshCopy, Onward
    <3>2. UpdateColumns(o, row[o], image[o])
      BY <2>1, <3>1
    <3>3. row' = [row EXCEPT ![o] = image[o]]
      BY <1>a, <2>1, <3>2, RowWritten
    <3> QED
      BY <1>a, <2>1, <3>1, <3>3, RowMove
  <2> QED
    BY <2>3, <2>4 DEF LifeInv, BirthStage
<1>6. ASSUME NEW h \in Handlers, CommitUpdate(h)
      PROVE  [Ledger!Next]_LedgerState
  <2> DEFINE o == hand[h].o
             rec == hand[h].rec
             new == row'[o]
  <2>1. /\ o \in Orders /\ rec \in Rec /\ UpdateColumns(o, callSeen[h], rec)
        /\ UNCHANGED contested /\ HasCopy(h, o)
    BY <1>6, CallUnderWay DEF CommitUpdate, Saved, TypeOK, HasCopy
  <2>2. row' = [row EXCEPT ![o] = new] /\ new \in Rec
    BY <1>a, <2>1, ColumnsMixed
  <2>3. CASE o \notin Whole \/ (row[o] # Absent /\ o \in contested)
    <3> HIDE DEF new, o
    <3> QED
      BY <1>a, <2>1, <2>2, <2>3, RowMove
  <2>4. CASE o \in Whole \ contested
    <3>1. CopyOK(o)
      BY <2>4 DEF LifeInv, CopyStage
    <3>2. row' = [row EXCEPT ![o] = rec]
      BY <1>6, <2>4, <3>1, WholeWritten
    <3>3. rec.st \in Reach(row[o].st)
      BY <2>1, <3>1 DEF CopyOK, Onward
    <3> HIDE DEF o, rec
    <3> QED
      BY <1>a, <2>1, <3>2, <3>3, RowMove
  <2> QED
    BY <2>3, <2>4 DEF LifeInv, BirthStage
<1>7. ASSUME NEW o \in Orders, contested' \in {contested, contested \cup {o}},
             UNCHANGED row
      PROVE  [Ledger!Next]_LedgerState
  <2>1. CASE contested' = contested
    BY <1>1, <1>7, <2>1
  <2>2. CASE contested' = contested \cup {o}
    <3>1. row[o] # Absent
      BY <1>7, <2>2 DEF LifeInv, BirthStage
    <3> QED
      BY <1>a, <1>7, <3>1, DisputeMove
  <2> QED
    BY <1>7, <2>1, <2>2
<1>8. ASSUME NEW o \in Orders, StageResult(o)
      PROVE  [Ledger!Next]_LedgerState
  <2>1. contested' \in {contested, contested \cup {o}} /\ UNCHANGED row
    BY <1>8 DEF StageResult, Contest
  <2> QED
    BY <1>7, <2>1
<1>9. ASSUME NEW h \in Handlers, Rehydrate(h) \/ StageUpdate(h)
      PROVE  [Ledger!Next]_LedgerState
  <2> DEFINE o == hand[h].o
  <2>1. o \in Orders
    BY <1>9, CallUnderWay DEF Rehydrate, StageUpdate, TypeOK
  <2>2. contested' \in {contested, contested \cup {o}} /\ UNCHANGED row
    BY <1>9 DEF Rehydrate, StageUpdate, Contest, history
  <2> HIDE DEF o
  <2> QED
    BY <1>7, <2>1, <2>2
<1>10. CASE \E s \in Signals : SubmitStep(s) \/ SubmitRollsBack(s)
  BY <1>1, <1>2, <1>3, <1>10
  DEF SubmitStep, RiskCheck, RecordSignal, ChoosePrimary, ChooseFailover,
      Wake, SubmitRollsBack, RollBack, history
<1>11. CASE \E o \in Orders : SendStep(o) \/ BrokerStep(o) \/ NetworkFails(o)
                              \/ SendRollsBack(o)
  <2>1. PICK o \in Orders : SendStep(o) \/ BrokerStep(o) \/ NetworkFails(o)
                            \/ SendRollsBack(o)
    BY <1>11
  <2>2. \/ UNCHANGED <<row, contested>> \/ WritePending(o)
        \/ StageResult(o) \/ CommitResult(o)
    BY <2>1
    DEF SendStep, BrokerStep, NetworkFails, AnswerArrives, Timeout,
        OtherFailure, BrokerAccepts, BrokerRefuses, BrokerProgress,
        SendRollsBack, RollBack, history
  <2> QED
    BY <1>1, <1>4, <1>5, <1>8, <2>2
<1>12. CASE \E h \in Handlers : \/ HandleStep(h) \/ HandleRollsBack(h)
                                \/ \E o \in Orders : Poll(h, o)
  <2>1. PICK h \in Handlers : \/ HandleStep(h) \/ HandleRollsBack(h)
                              \/ \E o \in Orders : Poll(h, o)
    BY <1>12
  <2>2. \/ UNCHANGED <<row, contested>> \/ Rehydrate(h)
        \/ StageUpdate(h) \/ CommitUpdate(h)
    BY <2>1
    DEF HandleStep, Receive, HandleRollsBack, RollBack, Poll, history
  <2> QED
    BY <1>1, <1>6, <1>9, <2>2
<1>13. CASE LoseReport \/ Crash \/ UNCHANGED vars
  BY <1>1, <1>13 DEF LoseReport, Crash, vars, history
<1> QED
  BY <1>10, <1>11, <1>12, <1>13 DEF Next, JournalFails

(* For every number of connections, pollers, failing transactions, lost      *)
(* answers and crashes the order table implements the ledger: the status of  *)
(* a submitted order moves along chains of legal transitions, except that    *)
(* nothing is said of it once two copies of its row were in use at once.     *)
THEOREM LifecycleKept == Spec => JournalRefinesLedger
<1> DEFINE Inv == TypeOK /\ StageOK /\ JournalInv /\ LifeInv
<1>1. Init => Inv
  BY TypeInit, JournalStart, LifeInit
<1>2. Inv /\ [Next]_vars => Inv'
  BY TypeStep, JournalStep, LifeStep
<1>3. Init => Ledger!Init
  BY RecordFacts DEF Init, Ledger!Init, Whole, Orders
<1>4. Inv /\ [Next]_vars => [Ledger!Next]_LedgerState
  BY <1>2, LedgerStep
<1> HIDE DEF Inv
<1> QED
  BY <1>1, <1>2, <1>3, <1>4, PTL
  DEF Spec, JournalRefinesLedger, Ledger!Spec, LedgerState, LedgerStatus

(* In the same histories the row of an order that submit() created never     *)
(* leaves a terminal status until it is contested: overlapping copies are    *)
(* the only way to what run gw_stale_row shows (NeverBackFromTerminal).      *)
THEOREM TerminalRowsStay ==
  Spec => [][\A o \in Whole : o \notin contested' /\ row[o].st \in Terminal
                                => row'[o].st = row[o].st]_vars
<1> DEFINE Inv == TypeOK /\ StageOK /\ JournalInv /\ LifeInv
<1>1. Init => Inv
  BY TypeInit, JournalStart, LifeInit
<1>2. Inv /\ [Next]_vars => Inv'
  BY TypeStep, JournalStep, LifeStep
<1>3. ASSUME Inv, [Next]_vars, NEW o \in Whole, o \notin contested',
             row[o].st \in Terminal
      PROVE  row'[o].st = row[o].st
  <2> DEFINE status == [p \in Whole |-> row[p].st]
  <2>1. [Ledger!Next]_LedgerState
    BY <1>2, <1>3, LedgerStep
  <2>2. status[o] = row[o].st /\ (status')[o] = row'[o].st
    BY <1>3
  <2>3. CASE UNCHANGED LedgerState
    BY <2>2, <2>3 DEF LedgerState, LedgerStatus
  <2>4. ASSUME NEW p \in Whole, Ledger!Create(p) PROVE status'[o] = status[o]
    BY <1>3, <2>2, <2>4 DEF Ledger!Create, Terminal
  <2>5. ASSUME NEW p \in Whole, Ledger!Advance(p) PROVE status'[o] = status[o]
    BY <1>3, <2>2, <2>5 DEF Ledger!Advance, Ledger!Reach, Terminal
  <2>6. ASSUME NEW p \in Whole, Ledger!Dispute(p) PROVE status'[o] = status[o]
    BY <1>3, <2>2, <2>6 DEF Ledger!Dispute
  <2> QED
    BY <2>1, <2>2, <2>3, <2>4, <2>5, <2>6 DEF Ledger!Next
<1>4. Inv /\ [Next]_vars
        => \A o \in Whole : o \notin contested' /\ row[o].st \in Terminal
                               => row'[o].st = row[o].st
  BY <1>3
<1> HIDE DEF Inv
<1> QED
  BY <1>1, <1>2, <1>4, PTL DEF Spec

(* In the same histories an order stays in _open_orders until its row is     *)
(* terminal, so _send and on_broker_update share one Order object; unless an *)
(* upsert of it was rolled back or its row contested.                        *)
THEOREM TrackedKept == Spec => []TrackedUntilSettled
<1> DEFINE Inv == TypeOK /\ StageOK /\ JournalInv /\ LifeInv
<1>1. Init => Inv
  BY TypeInit, JournalStart, LifeInit
<1>2. Inv /\ [Next]_vars => Inv'
  BY TypeStep, JournalStep, LifeStep
<1>3. ASSUME Inv, NEW o \in Whole, mem[o] # Absent, Quiet(o), Undisturbed(o),
             row[o].st \notin Terminal
      PROVE  o \in tracked
  <2>1. row[o].st = mem[o].st
    BY <1>3
    DEF LifeInv, CopyStage, CopyOK, Agree, Same, Moving, Staged, Quiet,
        Writing, Undisturbed
  <2> QED
    BY <1>3, <2>1 DEF LifeInv, Forgotten
<1>4. Inv => TrackedUntilSettled
  BY <1>3 DEF TrackedUntilSettled
<1> HIDE DEF Inv
<1> QED
  BY <1>1, <1>2, <1>4, PTL DEF Spec

(* In the same histories no update is lost between memory and journal: when  *)
(* no write of an order is under way its row is its Order object; with the   *)
(* same two exceptions.                                                      *)
THEOREM NoUpdateIsLost == Spec => []QuietAgreement
<1> DEFINE Inv == TypeOK /\ StageOK /\ JournalInv /\ LifeInv
<1>1. Init => Inv
  BY TypeInit, JournalStart, LifeInit
<1>2. Inv /\ [Next]_vars => Inv'
  BY TypeStep, JournalStep, LifeStep
<1>3. ASSUME Inv, NEW o \in Whole, mem[o] # Absent, Quiet(o), Undisturbed(o)
      PROVE  Same(o, row[o])
  BY <1>3
  DEF LifeInv, CopyStage, CopyOK, Agree, Moving, Staged, Quiet, Writing,
      Undisturbed
<1>4. Inv => QuietAgreement
  BY <1>3 DEF QuietAgreement, Same
<1> HIDE DEF Inv
<1> QED
  BY <1>1, <1>2, <1>4, PTL DEF Spec
=============================================================================
