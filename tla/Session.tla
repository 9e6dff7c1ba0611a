-------------------------------- MODULE Session --------------------------------
(* SessionVWAP and SessionOR (features/session.py): features that belong to  *)
(* one trading day and clear themselves when they are updated with a time of *)
(* another one.  A moment is day * DayLength + time of day.                  *)
EXTENDS Integers, FiniteSetsExt

CONSTANTS DayLength, RangeStart, RangeEnd      \* in slots of the feed

ASSUME SessionAssumption ==
  /\ DayLength \in Nat \ {0}
  /\ RangeStart \in 0 .. DayLength /\ RangeEnd \in RangeStart .. DayLength

Day(ts)       == ts \div DayLength
TimeOfDay(ts) == ts % DayLength

EndExcluded(ts) == TimeOfDay(ts) \in RangeStart .. RangeEnd - 1

InRange(ts) == TimeOfDay(ts) \in RangeStart .. RangeEnd

FreshVwap == [day |-> -1, num |-> 0, den |-> 0]

VwapUpdate(v, ts, price, qty) ==
  LET today == IF v.day = Day(ts) THEN v ELSE [FreshVwap EXCEPT !.day = Day(ts)]
  IN  [today EXCEPT !.num = @ + price * qty, !.den = @ + qty]

Above(price, v) == v.den = 0 \/ price * v.den > v.num
Below(price, v) == v.den = 0 \/ price * v.den < v.num

NoPrice == -1        \* NaN

FreshRange == [day |-> -1, hi |-> NoPrice, lo |-> NoPrice, frozen |-> FALSE]

FreezeOnce(r, ts, price) ==
  LET today == IF r.day = Day(ts) THEN r
               ELSE [FreshRange EXCEPT !.day = Day(ts)]
  IN  IF today.frozen THEN today
      ELSE [hi |-> Max({today.hi, price}), day |-> today.day,
            lo |-> IF today.lo = NoPrice THEN price ELSE Min({today.lo, price}),
            frozen |-> ~InRange(ts)]

(* SessionOR.update: inside the window the range widens; the first update    *)
(* outside freezes it, unless it is still empty.                             *)
RangeUpdate(r, ts, price) ==
  LET today == IF r.day = Day(ts) THEN r
               ELSE [FreshRange EXCEPT !.day = Day(ts)]
  IN  IF today.frozen THEN today
      ELSE IF InRange(ts)
      THEN [today EXCEPT !.hi = IF @ = NoPrice THEN price ELSE Max({@, price}),
                         !.lo = IF @ = NoPrice THEN price ELSE Min({@, price})]
      ELSE [today EXCEPT !.frozen = today.hi # NoPrice]

RangeReady(r) == r.frozen \/ r.hi # NoPrice
================================================================================
