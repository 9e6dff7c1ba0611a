--------------------------- MODULE MCOrderGateway ---------------------------
(* TLC instances of OrderGateway.                                            *)
EXTENDS OrderGateway

CONSTANTS a, b      \* signals

(* A broker whose reports follow the transition table.                       *)
Conformant ==
  {<<"PENDING", "OPEN">>, <<"PENDING", "REJECTED">>, <<"OPEN", "FILLED">>,
   <<"OPEN", "PARTIALLY_FILLED">>, <<"PARTIALLY_FILLED", "FILLED">>,
   <<"PARTIALLY_FILLED", "CANCELLED">>, <<"OPEN", "CANCELLED">>,
   <<"OPEN", "EXPIRED">>, <<"PENDING", "FILLED">>}

(* The shortest life, for the instance with three orders and retries.        *)
Short == {<<"OPEN", "FILLED">>}
=============================================================================
