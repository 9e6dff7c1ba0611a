----------------------------- MODULE MCOptionDesk -----------------------------
(* Instances of OptionDesk: an even chain, one with gaps, and one whose calls *)
(* end below the condor's targets.                                           *)
EXTENDS OptionDesk

Call(k, ltp, oi) == [type |-> "CE", strike |-> k, ltp |-> ltp, oi |-> oi,
                     delta |-> IF k <= 100 THEN 2 ELSE 1]
Put(k, ltp, oi)  == [type |-> "PE", strike |-> k, ltp |-> ltp, oi |-> oi,
                     delta |-> IF k >= 100 THEN -2 ELSE -1]

Even == {Call(80, 22, 1), Call(90, 13, 1), Call(100, 7, 2), Call(110, 3, 2),
         Call(120, 1, 1), Put(80, 1, 1), Put(90, 3, 2), Put(100, 7, 1),
         Put(110, 13, 1)}
Gaps == {Call(80, 22, 1), Call(100, 7, 3), Call(115, 4, 1), Call(130, 1, 1),
         Put(60, 1, 1), Put(85, 3, 1), Put(100, 6, 3)}
Short == {Call(90, 18, 1), Call(100, 7, 2), Call(125, 2, 1), Put(60, 1, 1),
          Put(80, 2, 1), Put(100, 7, 2)}

Snap(quotes, iv, move, at) == [spot |-> 100, iv |-> iv, move |-> move,
                               at |-> at, expiry |-> "week", quotes |-> quotes]

Snapshots == {Snap(Even, 10, 8, 2), Snap(Gaps, 30, 10, 2),
              Snap(Short, 20, 15, 2), Snap(Even, 0, 0, 1),
              Snap(Short, None, 0, 1)}

Plain   == {<<"condor", "spread", "butterfly">>}
Doubled == Plain \cup {<<"observe", "condor", "spread", "butterfly">>}
===============================================================================
