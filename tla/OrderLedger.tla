----------------------------- MODULE OrderLedger -----------------------------
(* Abstract specification of the order table of the trade journal: what      *)
(* "the append-only source of truth" promises of each order's row.  A row is *)
(* created NEW and from then on only moves forward through the lifecycle; a  *)
(* terminal status is final.  An order whose row two writers hold at once is *)
(* disputed: of its status nothing more is promised.                         *)
EXTENDS OrderLifecycle

CONSTANT Orders

VARIABLES
  status,     \* status[o]: the status column of o's row, or "NONE"
  disputed    \* the disputed orders

LedgerTypeOK == /\ status \in [Orders -> Status \cup {"NONE"}]
                /\ disputed \in SUBSET Orders

Init == status = [o \in Orders |-> "NONE"] /\ disputed = {}

Create(o) ==
  /\ status[o] = "NONE"
  /\ status' = [status EXCEPT ![o] = "NEW"]
  /\ UNCHANGED disputed

Advance(o) ==
  /\ status[o] # "NONE"
  /\ \E to \in Reach(status[o]) : status' = [status EXCEPT ![o] = to]
  /\ UNCHANGED disputed

Dispute(o) ==
  /\ status[o] # "NONE"
  /\ \E to \in Status : status' = [status EXCEPT ![o] = to]
  /\ disputed' = disputed \cup {o}

Next == \E o \in Orders : Create(o) \/ Advance(o) \/ Dispute(o)

Spec == Init /\ [][Next]_<<status, disputed>>
=============================================================================
