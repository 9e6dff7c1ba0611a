--------------------------- MODULE OrderLifecycle ---------------------------
(* The broker-agnostic order statuses (core/enums.py) and the transition     *)
(* table of OrderStateMachine (execution/state_machine.py), as constant      *)
(* operators that every module about orders shares.                          *)
EXTENDS Naturals

Terminal == {"FILLED", "CANCELLED", "REJECTED", "EXPIRED"}      \* is_terminal
Active   == {"PENDING", "OPEN", "PARTIALLY_FILLED"}             \* is_active
Status   == {"NEW"} \cup Active \cup Terminal

FillOnlyFromOpen ==
  [NEW              |-> {"PENDING", "REJECTED", "CANCELLED"},
   PENDING          |-> {"OPEN", "REJECTED", "CANCELLED"},
   OPEN             |-> {"PARTIALLY_FILLED", "FILLED", "CANCELLED", "EXPIRED"},
   PARTIALLY_FILLED |-> {"FILLED", "CANCELLED", "EXPIRED"},
   FILLED           |-> {},
   CANCELLED        |-> {},
   REJECTED         |-> {},
   EXPIRED          |-> {}]

ALLOWED ==
  [NEW              |-> {"PENDING", "REJECTED", "CANCELLED"},
   PENDING          |-> {"OPEN", "PARTIALLY_FILLED", "FILLED",
                         "REJECTED", "CANCELLED"},
   OPEN             |-> {"PARTIALLY_FILLED", "FILLED", "CANCELLED", "EXPIRED"},
   PARTIALLY_FILLED |-> {"FILLED", "CANCELLED", "EXPIRED"},
   FILLED           |-> {},
   CANCELLED        |-> {},
   REJECTED         |-> {},
   EXPIRED          |-> {}]

(* OrderStateMachine.transition raises unless the target is allowed or is    *)
(* the status the order already has.                                         *)
AnyMove(from, to) == TRUE
Legal(from, to) == to \in ALLOWED[from] \cup {from}

(* What a chain of legal transitions can reach: the reflexive transitive     *)
(* closure of ALLOWED.  A journal row that skips intermediate writes moves   *)
(* along this relation.                                                      *)
Reach(from) ==
  CASE from = "NEW"              -> Status
    [] from = "PENDING"          -> (Active \cup Terminal)
    [] from = "OPEN"             -> Status \ {"NEW", "PENDING", "REJECTED"}
    [] from = "PARTIALLY_FILLED" -> {"PARTIALLY_FILLED", "FILLED",
                                     "CANCELLED", "EXPIRED"}
    [] OTHER                     -> {from}

(* An order record as the gateway, the journal and the broker's reports hold *)
(* it: its status and filled_qty.  "NONE" is the status of an order that     *)
(* does not exist there.                                                     *)
Absent == [st |-> "NONE", filled |-> 0]
Record(qty) == [st : Status, filled : 0 .. qty]
=============================================================================
