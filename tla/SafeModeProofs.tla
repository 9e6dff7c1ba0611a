----------------------------- MODULE SafeModeProofs -----------------------------
(* Theorems about the portfolio and its journal under the safe-mode gate,    *)
(* for any instruments, strategies and fills, any number of feeds calling    *)
(* on_fill at once, and any failures of the database and the process.        *)
EXTENDS SafeMode, NumberTheorems

-----------------------------------------------------------------------------
(* The arithmetic of averages, over one denominator: x is a / b.             *)
Is(x, a, b) == x \in Fraction /\ a \in Int /\ b \in Positive
               /\ x[1] * b = a * x[2]

LEMMA Parts ==
  ASSUME NEW x \in Fraction
  PROVE  x[1] \in Int /\ x[2] \in Positive /\ x[2] \in Int /\ Is(x, x[1], x[2])
BY DEF Fraction, Is, Positive

LEMMA FracIs ==
  ASSUME NEW a \in Int, NEW b \in Positive, NEW m \in Int, NEW e \in Positive,
         m * b = a * e
  PROVE  Frac(m, e) = Frac(a, b) /\ Is(Frac(m, e), a, b)
<1>1. Frac(m, e) = Frac(a, b)
  BY FracOfRatio
<1>2. Is(Frac(a, b), a, b)
  BY FracIsFraction DEF Is
<1> QED
  BY <1>1, <1>2

LEMMA WholeIs ==
  ASSUME NEW n \in Int, NEW b \in Positive
  PROVE  Is(Whole(n), n * b, b)
<1>1. Whole(n) \in Fraction /\ Whole(n)[1] = n /\ Whole(n)[2] = 1
  BY DEF Whole, Fraction, Positive
<1>2. n * b \in Int /\ n * b = (n * b) * 1
  BY DEF Positive
<1> QED
  BY <1>1, <1>2 DEF Is

LEMMA ZeroIs ==
  ASSUME NEW b \in Positive
  PROVE  Is(Whole(0), 0, b)
<1>1. 0 * b = 0
  BY DEF Positive
<1> QED
  BY <1>1, WholeIs

(* x1 / x2 = a / b and y1 / y2 = c / b.                                      *)
LEMMA SumOfRatios ==
  ASSUME NEW x1 \in Int, NEW x2 \in Int, NEW y1 \in Int, NEW y2 \in Int,
         NEW a \in Int, NEW b \in Int, NEW c \in Int,
         x1 * b = a * x2, y1 * b = c * y2
  PROVE  /\ (x1 * y2 + y1 * x2) * b = (a + c) * (x2 * y2)
         /\ (x1 * y2 - y1 * x2) * b = (a - c) * (x2 * y2)
<1>1. /\ (x1 * y2) * b = (x1 * b) * y2 /\ (y1 * x2) * b = (y1 * b) * x2
      /\ x1 * y2 \in Int /\ y1 * x2 \in Int /\ x2 * y2 \in Int
  BY Regroup, Products
<1>2. (a * x2) * y2 = a * (x2 * y2) /\ (c * y2) * x2 = c * (y2 * x2)
  BY Regroup
<1>3. y2 * x2 = x2 * y2
  OBVIOUS
<1>4. (x1 * y2) * b = a * (x2 * y2) /\ (y1 * x2) * b = c * (x2 * y2)
  BY <1>1, <1>2, <1>3
<1>5. /\ (x1 * y2 + y1 * x2) * b = (x1 * y2) * b + (y1 * x2) * b
      /\ (x1 * y2 - y1 * x2) * b = (x1 * y2) * b - (y1 * x2) * b
  BY <1>1, Regroup
<1>6. /\ (a + c) * (x2 * y2) = a * (x2 * y2) + c * (x2 * y2)
      /\ (a - c) * (x2 * y2) = a * (x2 * y2) - c * (x2 * y2)
  BY <1>1, Regroup
<1> QED
  BY <1>4, <1>5, <1>6

LEMMA PlusIs ==
  ASSUME NEW x, NEW y, NEW a, NEW c, NEW b, Is(x, a, b), Is(y, c, b)
  PROVE  /\ Plus(x, y) = Frac(a + c, b) /\ Is(Plus(x, y), a + c, b)
         /\ Minus(x, y) = Frac(a - c, b) /\ Is(Minus(x, y), a - c, b)
<1>1. /\ a \in Int /\ c \in Int /\ b \in Positive /\ b \in Int
      /\ x \in Fraction /\ y \in Fraction
      /\ x[1] * b = a * x[2] /\ y[1] * b = c * y[2]
  BY DEF Is, Positive
<1>2. /\ x[1] \in Int /\ x[2] \in Positive /\ x[2] \in Int
      /\ y[1] \in Int /\ y[2] \in Positive /\ y[2] \in Int
  BY <1>1, Parts
<1> DEFINE x1 == x[1]
           x2 == x[2]
           y1 == y[1]
           y2 == y[2]
           m == x1 * y2 + y1 * x2
           k == x1 * y2 - y1 * x2
           e == x2 * y2
<1>3. /\ x1 \in Int /\ x2 \in Int /\ y1 \in Int /\ y2 \in Int
      /\ x2 \in Positive /\ y2 \in Positive
      /\ x1 * b = a * x2 /\ y1 * b = c * y2
  BY <1>1, <1>2
<1>4. Plus(x, y) = Frac(m, e) /\ Minus(x, y) = Frac(k, e)
  BY DEF Plus, Minus
<1> HIDE DEF x1, x2, y1, y2
<1>5. m * b = (a + c) * e /\ k * b = (a - c) * e
  BY <1>1, <1>3, SumOfRatios
<1>6. x1 * y2 \in Int /\ y1 * x2 \in Int
  BY <1>3, Products
<1>7. e \in Positive
  BY <1>3, PositiveProduct
<1>8. m \in Int /\ k \in Int /\ a + c \in Int /\ a - c \in Int
  BY <1>1, <1>6
<1> HIDE DEF m, k, e
<1> QED
  BY <1>1, <1>4, <1>5, <1>7, <1>8, FracIs

LEMMA TimesIs ==
  ASSUME NEW x, NEW a, NEW b, Is(x, a, b), NEW n \in Int
  PROVE  Is(Scaled(x, n), a * n, b)
<1>1. /\ a \in Int /\ b \in Positive /\ b \in Int /\ x \in Fraction
      /\ x[1] * b = a * x[2]
  BY DEF Is, Positive
<1>2. x[1] \in Int /\ x[2] \in Positive /\ x[2] \in Int
  BY <1>1, Parts
<1>3. x[1] * n \in Int /\ a * n \in Int
  BY <1>1, <1>2, Products
<1>4. (x[1] * n) * b = (a * n) * x[2]
  <2>1. (x[1] * n) * b = (x[1] * b) * n
    BY <1>1, <1>2, Regroup
  <2>2. (a * x[2]) * n = (a * n) * x[2]
    BY <1>1, <1>2, Regroup
  <2> QED
    BY <1>1, <2>1, <2>2
<1> QED
  BY <1>1, <1>2, <1>3, <1>4, FracIs DEF Scaled

(* Dividing by what is multiplied by afterwards.                             *)
LEMMA OverTimesIs ==
  ASSUME NEW x, NEW a, NEW b, Is(x, a, b), NEW n \in Int, n # 0
  PROVE  Is(Scaled(Over(x, n), n), a, b)
<1>1. /\ a \in Int /\ b \in Positive /\ b \in Int /\ x \in Fraction
      /\ x[1] * b = a * x[2]
  BY DEF Is, Positive
<1>2. x[1] \in Int /\ x[2] \in Positive /\ x[2] \in Int
  BY <1>1, Parts
<1> DEFINE z == Over(x, n)
           w == x[2] * n
<1>3. z \in Fraction /\ w \in Int /\ w # 0 /\ z[1] * w = x[1] * z[2]
  <2>1. w \in Int /\ w # 0
    BY <1>2 DEF Positive
  <2>2. z = Frac(x[1], w)
    BY DEF Over
  <2> HIDE DEF z, w
  <2>3. CASE w > 0
    <3>1. w \in Positive
      BY <2>1, <2>3 DEF Positive
    <3> QED
      BY <1>2, <2>1, <2>2, <3>1, FracIsFraction
  <2>4. CASE w < 0
    <3>1. z = Frac(-x[1], -w) /\ -w \in Positive /\ -x[1] \in Int
      BY <1>2, <2>1, <2>2, <2>4, FracTurned
    <3>2. /\ z \in Fraction /\ z[1] \in Int /\ z[2] \in Positive
          /\ z[1] * (-w) = (-x[1]) * z[2]
      BY <3>1, FracIsFraction
    <3>3. z[2] \in Int
      BY <3>2 DEF Positive
    <3>4. z[1] * (-w) = -(z[1] * w) /\ (-x[1]) * z[2] = -(x[1] * z[2])
      BY <1>2, <2>1, <3>2, <3>3
    <3>5. z[1] * w \in Int /\ x[1] * z[2] \in Int
      BY <1>2, <2>1, <3>2, <3>3, Products
    <3> QED
      BY <2>1, <3>2, <3>4, <3>5
  <2> QED
    BY <2>1, <2>3, <2>4
<1>4. z[1] \in Int /\ z[2] \in Positive /\ z[2] \in Int
  BY <1>3, Parts
<1> HIDE DEF z
<1>5. (z[1] * n) * b = a * z[2]
  <2>1. ((z[1] * n) * b) * x[2] = (a * z[2]) * x[2]
    <3>1. z[1] * w = (z[1] * n) * x[2]
      BY <1>2, <1>4
    <3>2. (z[1] * n) * x[2] = x[1] * z[2]
      BY <1>3, <3>1
    <3>3. z[1] * n \in Int
      BY <1>4, Products
    <3>4. ((z[1] * n) * b) * x[2] = ((z[1] * n) * x[2]) * b
      BY <1>1, <1>2, <3>3, Regroup
    <3>5. (x[1] * z[2]) * b = (x[1] * b) * z[2]
      BY <1>1, <1>2, <1>4, Regroup
    <3>6. (a * x[2]) * z[2] = (a * z[2]) * x[2]
      BY <1>1, <1>2, <1>4, Regroup
    <3> QED
      BY <1>1, <3>2, <3>4, <3>5, <3>6
  <2>2. (z[1] * n) * b \in Int /\ a * z[2] \in Int
    <3>1. z[1] * n \in Int
      BY <1>4, Products
    <3> QED
      BY <1>1, <1>4, <3>1, Products
  <2> QED
    BY <1>2, <2>1, <2>2, Cancel
<1>6. z[1] * n \in Int
  BY <1>4, Products
<1>7. Scaled(z, n) = Frac(z[1] * n, z[2])
  BY DEF Scaled
<1>8. Is(Frac(z[1] * n, z[2]), a, b)
  BY <1>1, <1>4, <1>5, <1>6, FracIs
<1> QED
  BY <1>7, <1>8 DEF z

-----------------------------------------------------------------------------
(* Positions and what a fill makes of them.                                  *)
Position ==
  [qty : Int, avg : Fraction, pnl : Fraction, unreal : Fraction, known : {TRUE}]
Held == Position \cup {Absent}

(* A fill that applies to an instrument.                                     *)
IsFill(x) == /\ x.inst \in Instruments /\ x.qty \in Int /\ x.qty # 0
             /\ x.price \in Int /\ x.fees \in Int /\ x.strategy \in Strategies

LEMMA FillFacts == ASSUME NEW f \in Fills PROVE IsFill(FillOf[f])
BY PortfolioAssumption DEF IsFill

LEMMA HeldFacts ==
  ASSUME NEW p \in Held
  PROVE  /\ Known(p) \in Position /\ p.qty \in Int /\ p.known \in BOOLEAN
         /\ Known(p).qty = p.qty
         /\ p.qty # 0 => p \in Position
         /\ ~p.known => Known(p) = Flat
         /\ p.known => p \in Position /\ Known(p) = p
<1>1. Whole(0) \in Fraction
  BY DEF Whole, Fraction, Positive
<1>2. Flat \in Position /\ Flat.qty = 0
  BY <1>1 DEF Flat, Position
<1>3. Absent.qty = 0 /\ ~Absent.known /\ Absent.known \in BOOLEAN
  BY DEF Absent
<1>4. CASE p = Absent
  <2>1. p.qty = 0 /\ ~p.known /\ p.known \in BOOLEAN
    BY <1>3, <1>4
  <2>2. Known(p) = Flat
    BY <2>1 DEF Known
  <2>3. p.qty \in Int
    BY <2>1
  <2> QED
    BY <1>2, <2>1, <2>2, <2>3, Zenon
<1>5. CASE p \in Position
  BY <1>5 DEF Known, Position
<1> QED
  BY <1>4, <1>5 DEF Held

(* Whether a fill is on the other side of what is open.                      *)
Opposite(p, n) == p.qty # 0 /\ ~((p.qty > 0) = (n > 0))

LEMMA RealisedIsTyped ==
  ASSUME NEW p \in Position, NEW n \in Int, NEW price \in Int
  PROVE  Realised(p, n, price) \in Fraction
<1>1. p.qty \in Int /\ p.avg \in Fraction
  BY DEF Position
<1> DEFINE closing == IF Size(n) < Size(p.qty) THEN Size(n) ELSE Size(p.qty)
           k == IF p.qty > 0 THEN closing ELSE -closing
<1>2. k \in Int
  BY <1>1 DEF Size
<1>3. Whole(0) \in Fraction /\ Whole(price) \in Fraction
  BY DEF Whole, Fraction, Positive
<1>4. Minus(Whole(price), p.avg) \in Fraction
  BY <1>1, <1>3, OperationsTyped
<1> HIDE DEF k
<1>5. Scaled(Minus(Whole(price), p.avg), k) \in Fraction
  BY <1>2, <1>3, <1>4, OperationsTyped
<1> QED
  BY <1>3, <1>5 DEF Realised, k

LEMMA AverageIsFraction ==
  ASSUME NEW p \in Position, NEW n \in Int, n # 0, NEW price \in Int
  PROVE  Average(p, n, price) \in Fraction
<1>1. p.qty \in Int /\ p.avg \in Fraction
  BY DEF Position
<1>2. Whole(0) \in Fraction /\ price * n \in Int
  BY Products DEF Whole, Fraction, Positive
<1>3. Whole(price * n) \in Fraction
  BY <1>2 DEF Whole, Fraction, Positive
<1>4. Scaled(p.avg, p.qty) \in Fraction
  BY <1>1, OperationsTyped
<1> DEFINE x == Plus(Scaled(p.avg, p.qty), Whole(price * n))
<1>5. x \in Fraction
  BY <1>3, <1>4, OperationsTyped
<1> HIDE DEF x
<1>6. p.qty + n \in Int
  BY <1>1
<1>7. p.qty + n # 0 => Over(x, p.qty + n) \in Fraction
  BY <1>5, <1>6, OperationsTyped
<1>8. p.qty = 0 \/ (p.qty > 0) = (n > 0) => p.qty + n # 0
  BY <1>1
<1> QED
  BY <1>1, <1>2, <1>7, <1>8 DEF Average, x

LEMMA AppliedIsPosition ==
  ASSUME NEW p \in Position, NEW x, IsFill(x)
  PROVE  /\ Applied(p, x) \in Position /\ Applied(p, x).known
         /\ Applied(p, x).qty = p.qty + x.qty
         /\ Applied(p, x).avg = Average(p, x.qty, x.price)
         /\ Applied(p, x).pnl = Minus(Plus(p.pnl, Realised(p, x.qty, x.price)),
                                      Whole(x.fees))
<1>1. x.qty \in Int /\ x.qty # 0 /\ x.price \in Int /\ x.fees \in Int
  BY DEF IsFill
<1>2. p.qty \in Int /\ p.pnl \in Fraction
  BY DEF Position
<1>3. Average(p, x.qty, x.price) \in Fraction
  BY <1>1, AverageIsFraction
<1>4. Realised(p, x.qty, x.price) \in Fraction /\ Whole(x.fees) \in Fraction
  BY <1>1, RealisedIsTyped DEF Whole, Fraction, Positive
<1>5. Plus(p.pnl, Realised(p, x.qty, x.price)) \in Fraction
  BY <1>2, <1>4, OperationsTyped
<1>6. Minus(Plus(p.pnl, Realised(p, x.qty, x.price)), Whole(x.fees)) \in Fraction
  BY <1>4, <1>5, OperationsTyped
<1>7. p.qty + x.qty \in Int
  BY <1>1, <1>2
<1> QED
  BY <1>3, <1>6, <1>7, Zenon DEF Applied, Position

-----------------------------------------------------------------------------
(* What a position realised is what it holds at cost minus what it paid.     *)
Accounted(p, paid) == p.pnl = Minus(Scaled(p.avg, p.qty), Whole(paid))

(* r / b is realised, t / b is the cost of what is open afterwards: what was *)
(* open (c / b), the fill and what it realised.                              *)
Moves(p, n, price, c, b, r, t) ==
  /\ Is(Realised(p, n, price), r, b)
  /\ Is(Scaled(Average(p, n, price), p.qty + n), t, b)
  /\ t = c + r + (n * price) * b

LEMMA AddedAtCost ==
  ASSUME NEW p \in Position, NEW n \in Int, n # 0, NEW price \in Int,
         ~Opposite(p, n), NEW c, NEW b, Is(Scaled(p.avg, p.qty), c, b)
  PROVE  Moves(p, n, price, c, b, 0, c + (n * price) * b)
<1>1. p.qty \in Int /\ p.avg \in Fraction /\ c \in Int /\ b \in Positive
  BY DEF Position, Is
<1>2. p.qty = 0 \/ (p.qty > 0) = (n > 0)
  BY DEF Opposite
<1>3. p.qty + n \in Int /\ p.qty + n # 0
  BY <1>1, <1>2
<1>4. Realised(p, n, price) = Whole(0)
  BY <1>2 DEF Realised
<1> DEFINE x == Plus(Scaled(p.avg, p.qty), Whole(price * n))
<1>5. Average(p, n, price) = Over(x, p.qty + n)
  BY <1>2 DEF Average
<1>6. price * n \in Int /\ price * n = n * price
  BY Products
<1>7. Is(Whole(n * price), (n * price) * b, b)
  BY <1>1, <1>6, WholeIs
<1>8. Is(x, c + (n * price) * b, b)
  BY <1>6, <1>7, PlusIs
<1> HIDE DEF x
<1>9. Is(Scaled(Over(x, p.qty + n), p.qty + n), c + (n * price) * b, b)
  BY <1>3, <1>8, OverTimesIs
<1>10. Is(Realised(p, n, price), 0, b)
  BY <1>1, <1>4, ZeroIs
<1>11. c + (n * price) * b = c + 0 + (n * price) * b
  BY <1>1
<1> QED
  BY <1>5, <1>9, <1>10, <1>11 DEF Moves

(* The quantity that closes part of a position, with the position's sign.    *)
LEMMA ClosingPart ==
  ASSUME NEW p \in Position, NEW n \in Int, Opposite(p, n), ~Crosses(p, n),
         NEW price \in Int
  PROVE  Realised(p, n, price) = Scaled(Minus(Whole(price), p.avg), -n)
<1>1. p.qty \in Int /\ p.qty # 0 /\ ~((p.qty > 0) = (n > 0))
  BY DEF Position, Opposite
<1>2. p.qty + n = 0 \/ (p.qty > 0) = (p.qty + n > 0)
  BY <1>1 DEF Crosses
<1> DEFINE closing == IF Size(n) < Size(p.qty) THEN Size(n) ELSE Size(p.qty)
<1>3. (IF p.qty > 0 THEN closing ELSE -closing) = -n
  BY <1>1, <1>2 DEF Size
<1> HIDE DEF closing
<1>4. Realised(p, n, price)
        = Scaled(Minus(Whole(price), p.avg), IF p.qty > 0 THEN closing ELSE -closing)
  BY <1>1 DEF Realised, closing
<1> QED
  BY <1>3, <1>4

LEMMA ReducedAtCost ==
  ASSUME NEW p \in Position, NEW n \in Int, n # 0, NEW price \in Int,
         Opposite(p, n), ~Crosses(p, n), NEW c, NEW b,
         Is(Scaled(p.avg, p.qty), c, b), NEW a, Is(p.avg, a, b), c = a * p.qty
  PROVE  Moves(p, n, price, c, b, (price * b - a) * (-n), a * (p.qty + n))
<1>1. p.qty \in Int /\ c \in Int /\ b \in Positive /\ b \in Int /\ a \in Int
  BY DEF Position, Is, Positive
<1>2. Is(Realised(p, n, price), (price * b - a) * (-n), b)
  <2>1. Is(Whole(price), price * b, b)
    BY <1>1, WholeIs
  <2>2. Is(Minus(Whole(price), p.avg), price * b - a, b)
    BY <2>1, PlusIs
  <2>3. -n \in Int
    OBVIOUS
  <2>4. Is(Scaled(Minus(Whole(price), p.avg), -n), (price * b - a) * (-n), b)
    BY <2>2, <2>3, TimesIs
  <2> QED
    BY <2>4, ClosingPart
<1>3. Is(Scaled(Average(p, n, price), p.qty + n), a * (p.qty + n), b)
  <2>1. ~(p.qty = 0 \/ (p.qty > 0) = (n > 0))
    BY DEF Opposite
  <2>2. p.qty + n \in Int
    BY <1>1
  <2>3. CASE p.qty + n = 0
    <3>1. Average(p, n, price) = Whole(0) /\ a * (p.qty + n) = 0 * (p.qty + n)
      BY <1>1, <2>1, <2>3 DEF Average
    <3>2. Is(Whole(0), 0, b)
      BY <1>1, ZeroIs
    <3>3. Is(Scaled(Whole(0), p.qty + n), 0 * (p.qty + n), b)
      BY <2>2, <3>2, TimesIs
    <3> QED
      BY <3>1, <3>3
  <2>4. CASE p.qty + n # 0
    <3>1. Average(p, n, price) = p.avg
      BY <2>1, <2>4 DEF Average
    <3> QED
      BY <2>2, <3>1, TimesIs
  <2> QED
    BY <2>3, <2>4
<1>4. a * (p.qty + n) = a * p.qty + (price * b - a) * (-n) + (n * price) * b
  <2> DEFINE q == p.qty
             w == (n * price) * b
  <2>1. q \in Int
    BY <1>1
  <2> HIDE DEF q
  <2>2. a * (q + n) = a * q + a * n /\ a * q \in Int /\ a * n \in Int
    BY <1>1, <2>1
  <2>3. (price * b - a) * (-n) = (price * b) * (-n) - a * (-n)
    BY <1>1, Products, Regroup
  <2>4. (price * b) * (-n) = -w /\ a * (-n) = -(a * n) /\ w \in Int
    BY <1>1
  <2> HIDE DEF w
  <2>5. a * (q + n) = a * q + (price * b - a) * (-n) + w
    BY <2>2, <2>3, <2>4
  <2> QED
    BY <2>5 DEF q, w
<1> QED
  BY <1>2, <1>3, <1>4 DEF Moves

LEMMA MinusFrac ==
  ASSUME NEW x, NEW y, NEW a, NEW c, NEW b, Is(x, a, b), Is(y, c, b)
  PROVE  Minus(x, y) = Frac(a - c, b)
<1>1. /\ Plus(x, y) = Frac(a + c, b) /\ Is(Plus(x, y), a + c, b)
      /\ Minus(x, y) = Frac(a - c, b) /\ Is(Minus(x, y), a - c, b)
  BY PlusIs, Zenon
<1> QED
  BY <1>1

LEMMA SameDifference ==
  ASSUME NEW x, NEW y, NEW u, NEW v, NEW b, Is(x, u, b), Is(y, v, b),
         NEW z, NEW o, NEW t, NEW w, Is(z, t, b), Is(o, w, b), u - v = t - w
  PROVE  Minus(x, y) = Minus(z, o)
<1>1. Minus(x, y) = Frac(u - v, b)
  BY MinusFrac
<1>2. Minus(z, o) = Frac(t - w, b)
  BY MinusFrac
<1> QED
  BY <1>1, <1>2

LEMMA FillAccounted ==
  ASSUME NEW p \in Position, NEW x, IsFill(x), NEW paid \in Int,
         Accounted(p, paid), ~Crosses(p, x.qty)
  PROVE  Accounted(Applied(p, x), paid + x.qty * x.price + x.fees)
<1> DEFINE q == p.qty
           n == x.qty
           price == x.price
           fees == x.fees
           a == p.avg[1]
           b == p.avg[2]
           c == a * q
           g == Realised(p, n, price)
           h == Scaled(Average(p, n, price), q + n)
<1>1. /\ q \in Int /\ n \in Int /\ n # 0 /\ price \in Int /\ fees \in Int
      /\ p.avg \in Fraction
  BY DEF Position, IsFill
<1>2. a \in Int /\ b \in Positive /\ b \in Int /\ Is(p.avg, a, b)
  BY <1>1, Parts
<1>3. Is(Scaled(p.avg, q), c, b)
  BY <1>1, <1>2, TimesIs
<1>4. \E r, t \in Int : Moves(p, n, price, c, b, r, t)
  <2>1. CASE Opposite(p, n)
    <3> DEFINE r == (price * b - a) * (-n)
               t == a * (q + n)
    <3>1. price * b - a \in Int /\ -n \in Int /\ q + n \in Int
      BY <1>1, <1>2, Products
    <3>2. r \in Int /\ t \in Int
      BY <1>2, <3>1, Products
    <3>3. Moves(p, n, price, c, b, r, t)
      BY <1>1, <1>2, <1>3, <2>1, ReducedAtCost
    <3> QED
      BY <3>2, <3>3
  <2>2. CASE ~Opposite(p, n)
    <3> DEFINE t == c + (n * price) * b
    <3>1. c \in Int /\ n * price \in Int
      BY <1>1, <1>2, Products
    <3>2. (n * price) * b \in Int
      BY <1>2, <3>1, Products
    <3>3. 0 \in Int /\ t \in Int
      BY <3>1, <3>2
    <3>4. Moves(p, n, price, c, b, 0, t)
      BY <1>1, <1>3, <2>2, AddedAtCost
    <3> QED
      BY <3>3, <3>4
  <2> QED
    BY <2>1, <2>2
<1>5. PICK r \in Int, t \in Int : Moves(p, n, price, c, b, r, t)
  BY <1>4
<1>6. Is(g, r, b) /\ Is(h, t, b) /\ t = c + r + (n * price) * b
  BY <1>5 DEF Moves
<1> DEFINE cost == paid + n * price + fees
<1>7. c \in Int /\ n * price \in Int /\ cost \in Int
  BY <1>1, <1>2, Products
<1>8. /\ Is(Whole(paid), paid * b, b) /\ Is(Whole(fees), fees * b, b)
      /\ Is(Whole(cost), cost * b, b)
  BY <1>1, <1>2, <1>7, WholeIs
<1>9. p.pnl = Minus(Scaled(p.avg, q), Whole(paid))
  BY DEF Accounted
<1> HIDE DEF cost, g, h, a, b, c, n, price, fees, q
<1>10. Is(p.pnl, c - paid * b, b)
  BY <1>3, <1>8, <1>9, PlusIs
<1>11. Is(Plus(p.pnl, g), (c - paid * b) + r, b)
  BY <1>6, <1>10, PlusIs
<1> DEFINE u == (c - paid * b) + r
           v == fees * b
           w == cost * b
<1> HIDE DEF u, v, w
<1>a. Is(Plus(p.pnl, g), u, b) /\ Is(Whole(fees), v, b) /\ Is(Whole(cost), w, b)
  BY <1>8, <1>11 DEF u, v, w
<1>b. u \in Int /\ v \in Int /\ w \in Int /\ t \in Int
  BY <1>a DEF Is
<1>14. u - v = t - w
  <2>1. cost * b = (paid + n * price) * b + fees * b
    BY <1>1, <1>2, <1>7, Regroup DEF cost
  <2>2. (paid + n * price) * b = paid * b + (n * price) * b
    BY <1>2, <1>7, Regroup
  <2>3. /\ paid * b \in Int /\ fees * b \in Int /\ (n * price) * b \in Int
    BY <1>1, <1>2, <1>7, Products
  <2> QED
    BY <1>6, <1>7, <2>1, <2>2, <2>3 DEF u, v, w
<1>15. Minus(Plus(p.pnl, g), Whole(fees)) = Minus(h, Whole(cost))
  BY <1>6, <1>a, <1>14, SameDifference
<1>16. /\ Applied(p, x).pnl = Minus(Plus(p.pnl, g), Whole(fees))
       /\ Scaled(Applied(p, x).avg, Applied(p, x).qty) = h
  BY AppliedIsPosition DEF g, h, n, price, fees, q
<1> QED
  BY <1>15, <1>16 DEF Accounted, cost, n, price, fees

LEMMA FlatAccounted == Accounted(Flat, 0)
<1>1. 1 \in Positive
  BY DEF Positive
<1>2. Is(Whole(0), 0, 1)
  BY <1>1, ZeroIs
<1>3. Is(Scaled(Whole(0), 0), 0 * 0, 1)
  BY <1>2, TimesIs
<1>4. Minus(Scaled(Whole(0), 0), Whole(0)) = Frac(0, 1)
  BY <1>2, <1>3, PlusIs
<1>5. Frac(0, 1) = Whole(0)
  <2>1. Gcd(0, 1) = 1
    BY <1>1, GcdDivides
  <2> QED
    BY <2>1 DEF Frac, Whole
<1> QED
  BY <1>4, <1>5 DEF Accounted, Flat

-----------------------------------------------------------------------------
(* What a step of the whole system is to the portfolio.                      *)
BookStep ==
  \/ \E c \in Calls, f \in Fills : OnFill(c, f)
  \/ \E c \in Calls : JournalStep(c)
  \/ \E i \in Instruments, price \in Marks : OnTick(i, price)
  \/ BookRestart
  \/ UNCHANGED bookVars

LEMMA StepsOfTheBook == [Next]_deskVars => BookStep
<1> SUFFICES ASSUME [Next]_deskVars PROVE BookStep
  OBVIOUS
<1>1. CASE \E f \in Fills : BrokerFills(f)
  BY <1>1 DEF BrokerFills, BookStep
<1>2. CASE \E c \in Calls, f \in Fills : Deliverable(f) /\ Deliver(c, f)
  BY <1>2 DEF Deliver, BookStep
<1>3. CASE \E c \in Calls : Journal(c)
  BY <1>3 DEF Journal, BookStep
<1>4. CASE \E i \in Instruments, price \in Marks : Tick(i, price)
  BY <1>4 DEF Tick, BookStep
<1>5. CASE BrokerLists \/ Reconcile
  BY <1>5 DEF BrokerLists, Reconcile, BookStep
<1>6. CASE Acknowledge
  BY <1>6 DEF Acknowledge, BookStep
<1>7. CASE Restart
  BY <1>7 DEF Restart, BookStep
<1>8. CASE UNCHANGED deskVars
  BY <1>8 DEF deskVars, BookStep
<1> QED
  BY <1>1, <1>2, <1>3, <1>4, <1>5, <1>6, <1>7, <1>8 DEF Next

BookTypes ==
  /\ book \in [Instruments -> Held]
  /\ spent \in [Instruments -> Int]
  /\ crossed \in SUBSET Instruments

(* An instrument without a position is accounted for as a flat one is.       *)
BooksInv ==
  /\ BookTypes
  /\ \A i \in Instruments :
       i \notin crossed => Accounted(Known(book[i]), spent[i])

LEMMA AbsentIsFlat == Absent \in Held /\ Known(Absent) = Flat
BY DEF Absent, Held, Known

LEMMA BooksInvInit == BookInit => BooksInv
<1> SUFFICES ASSUME BookInit PROVE BooksInv
  OBVIOUS
<1>1. /\ book = [i \in Instruments |-> Absent]
      /\ spent = [i \in Instruments |-> 0] /\ crossed = {}
  BY DEF BookInit
<1>2. BookTypes
  BY <1>1, AbsentIsFlat DEF BookTypes
<1>3. \A i \in Instruments : Accounted(Known(book[i]), spent[i])
  BY <1>1, AbsentIsFlat, FlatAccounted
<1> QED
  BY <1>2, <1>3 DEF BooksInv

(* The position a fill leaves.                                               *)
LEMMA OnFillBooks ==
  ASSUME book \in [Instruments -> Held], NEW c \in Calls, NEW f \in Fills,
         OnFill(c, f)
  PROVE  /\ IsFill(FillOf[f]) /\ FillOf[f].inst \in Instruments
         /\ Known(book[FillOf[f].inst]) \in Position
         /\ book' = [book EXCEPT ![FillOf[f].inst] =
                       Applied(Known(book[FillOf[f].inst]), FillOf[f])]
         /\ book' \in [Instruments -> Held]
         /\ Known(book'[FillOf[f].inst])
              = Applied(Known(book[FillOf[f].inst]), FillOf[f])
         /\ book'[FillOf[f].inst].qty
              = book[FillOf[f].inst].qty + FillOf[f].qty
         /\ \A j \in Instruments \ {FillOf[f].inst} : book'[j] = book[j]
<1> DEFINE x == FillOf[f]
           i == x.inst
           p == Known(book[i])
<1>1. IsFill(x) /\ i \in Instruments
  BY FillFacts DEF IsFill
<1>2. book' = [book EXCEPT ![i] = Applied(p, x)]
  BY DEF OnFill
<1>a. book[i] \in Held
  BY <1>1
<1>3. p \in Position /\ p.qty = book[i].qty
  BY <1>a, HeldFacts
<1> HIDE DEF x, p
<1>4. /\ Applied(p, x) \in Position /\ Applied(p, x).known
      /\ Applied(p, x).qty = p.qty + x.qty
  BY <1>1, <1>3, AppliedIsPosition
<1>5. book'[i] = Applied(p, x) /\ \A j \in Instruments \ {i} : book'[j] = book[j]
  BY <1>1, <1>2
<1>6. book' \in [Instruments -> Held]
  BY <1>1, <1>2, <1>4 DEF Held
<1>7. Known(book'[i]) = Applied(p, x)
  BY <1>4, <1>5 DEF Known
<1> QED
  BY <1>1, <1>2, <1>3, <1>4, <1>5, <1>6, <1>7 DEF x, p

(* A tick leaves all but the open profit alone.                              *)
LEMMA OnTickBooks ==
  ASSUME book \in [Instruments -> Held], NEW i \in Instruments,
         NEW price \in Marks, OnTick(i, price)
  PROVE  /\ book' \in [Instruments -> Held]
         /\ \A j \in Instruments :
              /\ book'[j].qty = book[j].qty /\ book'[j].known = book[j].known
              /\ Known(book'[j]).qty = Known(book[j]).qty
              /\ Known(book'[j]).avg = Known(book[j]).avg
              /\ Known(book'[j]).pnl = Known(book[j]).pnl
<1> DEFINE u == Scaled(Minus(Whole(price), book[i].avg), book[i].qty)
<1>1. book' = [book EXCEPT ![i].unreal = u] /\ book[i].qty # 0
  BY DEF OnTick
<1>2. book[i] \in Held
  OBVIOUS
<1>3. book[i] \in Position
  BY <1>1, <1>2, HeldFacts
<1>4. price \in Int /\ book[i].avg \in Fraction /\ book[i].qty \in Int
  BY <1>3, PortfolioAssumption DEF Position
<1>5. u \in Fraction
  <2>1. Whole(price) \in Fraction
    BY <1>4 DEF Whole, Fraction, Positive
  <2>2. Minus(Whole(price), book[i].avg) \in Fraction
    BY <1>4, <2>1, OperationsTyped
  <2> QED
    BY <1>4, <2>1, <2>2, OperationsTyped
<1> HIDE DEF u
<1> DEFINE r == [book[i] EXCEPT !.unreal = u]
<1>6. /\ r \in Position /\ r.qty = book[i].qty /\ r.avg = book[i].avg
      /\ r.pnl = book[i].pnl /\ r.known = book[i].known /\ r.known
      /\ book[i].known
  BY <1>3, <1>5 DEF Position
<1>7. book' = [book EXCEPT ![i] = r]
  BY <1>1
<1> HIDE DEF r
<1>8. book'[i] = r /\ \A j \in Instruments \ {i} : book'[j] = book[j]
  BY <1>7
<1>9. Known(book'[i]) = r /\ Known(book[i]) = book[i]
  BY <1>6, <1>8 DEF Known
<1>10. book' \in [Instruments -> Held]
  BY <1>6, <1>7 DEF Held
<1>11. ASSUME NEW j \in Instruments
       PROVE  /\ book'[j].qty = book[j].qty /\ book'[j].known = book[j].known
              /\ Known(book'[j]).qty = Known(book[j]).qty
              /\ Known(book'[j]).avg = Known(book[j]).avg
              /\ Known(book'[j]).pnl = Known(book[j]).pnl
  BY <1>6, <1>8, <1>9
<1> QED
  BY <1>10, <1>11

LEMMA BooksInvNext == BooksInv /\ BookStep => BooksInv'
<1> SUFFICES ASSUME BooksInv, BookStep PROVE BooksInv'
  OBVIOUS
<1>0. /\ book \in [Instruments -> Held] /\ spent \in [Instruments -> Int]
      /\ crossed \in SUBSET Instruments
  BY DEF BooksInv, BookTypes
<1>1. ASSUME NEW c \in Calls, NEW f \in Fills, OnFill(c, f) PROVE BooksInv'
  <2> DEFINE x == FillOf[f]
             i == x.inst
             p == Known(book[i])
             paid == spent[i] + x.qty * x.price + x.fees
  <2>1. /\ IsFill(x) /\ i \in Instruments /\ p \in Position
        /\ book' \in [Instruments -> Held] /\ Known(book'[i]) = Applied(p, x)
        /\ \A j \in Instruments \ {i} : book'[j] = book[j]
    BY <1>0, <1>1, OnFillBooks
  <2>2. /\ spent' = [spent EXCEPT ![i] = paid]
        /\ crossed' = IF Crosses(p, x.qty) THEN crossed \cup {i} ELSE crossed
    <3>1. spent' = [spent EXCEPT ![i] = @ + x.qty * x.price + x.fees]
      BY <1>1 DEF OnFill
    <3>2. crossed' = IF Crosses(p, x.qty) THEN crossed \cup {i} ELSE crossed
      BY <1>1 DEF OnFill
    <3> HIDE DEF x
    <3> QED
      BY <3>1, <3>2, <1>0
  <2>3. paid \in Int /\ spent[i] \in Int
    <3>1. x.qty \in Int /\ x.price \in Int /\ x.fees \in Int
      BY <2>1 DEF IsFill
    <3>2. x.qty * x.price \in Int
      BY <3>1, Products
    <3> QED
      BY <1>0, <2>1, <3>1, <3>2
  <2> HIDE DEF x, p, paid
  <2>4. BookTypes'
    BY <1>0, <2>1, <2>2, <2>3 DEF BookTypes
  <2>5. ASSUME NEW j \in Instruments, j \notin crossed'
        PROVE  Accounted(Known(book'[j]), spent'[j])
    <3>1. CASE j = i
      <4>1. ~Crosses(p, x.qty) /\ i \notin crossed
        BY <2>2, <2>5, <3>1
      <4>2. Accounted(p, spent[i])
        BY <2>1, <4>1 DEF BooksInv, p
      <4>3. Accounted(Applied(p, x), spent[i] + x.qty * x.price + x.fees)
        BY <2>1, <2>3, <4>1, <4>2, FillAccounted
      <4>4. spent'[j] = paid
        BY <1>0, <2>1, <2>2, <3>1
      <4> QED
        BY <2>1, <3>1, <4>3, <4>4 DEF paid
    <3>2. CASE j # i
      <4>1. j \notin crossed
        BY <2>2, <2>5
      <4>2. book'[j] = book[j] /\ spent'[j] = spent[j]
        BY <1>0, <2>1, <2>2, <3>2
      <4> QED
        BY <4>1, <4>2 DEF BooksInv
    <3> QED
      BY <3>1, <3>2
  <2> QED
    BY <2>4, <2>5 DEF BooksInv
<1>2. ASSUME NEW c \in Calls, JournalStep(c) PROVE BooksInv'
  <2>1. UNCHANGED <<book, spent, crossed>>
    BY <1>2 DEF JournalStep, RecordFill, RefuseFill, ReadPosition,
                WritePosition, RefusePosition, DbFails, history
  <2> QED
    BY <2>1 DEF BooksInv, BookTypes
<1>3. ASSUME NEW i \in Instruments, NEW price \in Marks, OnTick(i, price)
      PROVE  BooksInv'
  <2>1. UNCHANGED <<spent, crossed>>
    BY <1>3 DEF OnTick, history
  <2>2. /\ book' \in [Instruments -> Held]
        /\ \A j \in Instruments :
             /\ Known(book'[j]).qty = Known(book[j]).qty
             /\ Known(book'[j]).avg = Known(book[j]).avg
             /\ Known(book'[j]).pnl = Known(book[j]).pnl
    BY <1>0, <1>3, OnTickBooks
  <2>3. BookTypes'
    BY <1>0, <2>1, <2>2 DEF BookTypes
  <2> QED
    BY <2>1, <2>2, <2>3 DEF BooksInv, Accounted
<1>4. CASE BookRestart
  <2>1. /\ book' = [i \in Instruments |-> Absent]
        /\ spent' = [i \in Instruments |-> 0] /\ crossed' = {}
    BY <1>4 DEF BookRestart
  <2>2. BookTypes'
    BY <2>1, AbsentIsFlat DEF BookTypes
  <2>3. \A i \in Instruments : Accounted(Known(book'[i]), spent'[i])
    BY <2>1, AbsentIsFlat, FlatAccounted
  <2> QED
    BY <2>2, <2>3 DEF BooksInv
<1>5. CASE UNCHANGED bookVars
  <2>1. UNCHANGED <<book, spent, crossed>>
    BY <1>5 DEF bookVars, history
  <2> QED
    BY <2>1 DEF BooksInv, BookTypes
<1> QED
  BY <1>1, <1>2, <1>3, <1>4, <1>5 DEF BookStep

(* Whatever fills come, in any order, repeated or lost: what a position      *)
(* realised is the cost of what it holds minus what its fills cost, as long  *)
(* as none of them took it through zero.                                     *)
THEOREM BooksAlwaysBalance == Spec => []BooksBalance
<1>1. Init => BooksInv
  BY BooksInvInit DEF Init
<1>2. BooksInv /\ [Next]_deskVars => BooksInv'
  BY BooksInvNext, StepsOfTheBook
<1>3. BooksInv => BooksBalance
  <2> SUFFICES ASSUME BooksInv, NEW i \in Instruments, book[i].known,
                      i \notin crossed
               PROVE  Accounted(book[i], spent[i])
    BY DEF BooksBalance, Accounted
  <2>1. book[i] \in Held /\ Known(book[i]) = book[i]
    BY DEF BooksInv, BookTypes, Known
  <2> QED
    BY <2>1 DEF BooksInv
<1> QED
  BY <1>1, <1>2, <1>3, PTL DEF Spec

-----------------------------------------------------------------------------
(* The stages of on_fill.                                                    *)
Recording == [pc : {"record"}, f : Fills, gain : Fraction]
Reading   == [pc : {"read"}, f : Fills, gain : Fraction, image : Position]
Writing   == [pc : {"write"}, f : Fills, gain : Fraction, image : Position,
              seen : Held]
Stages    == {Idle} \cup Recording \cup Reading \cup Writing

Inst(x) == FillOf[x.f].inst

DeskTypes ==
  /\ book \in [Instruments -> Held] /\ row \in [Instruments -> Held]
  /\ call \in [Calls -> Stages] /\ earned \in [Strategies -> Fraction]
  /\ fillRows \in SUBSET Fills /\ IsFiniteSet(fillRows)
  /\ delivered \in [Fills -> Nat] /\ overlapped \in BOOLEAN
  /\ dbFailures \in Nat /\ restarts \in Nat

(* A position that is being journalled is known, and so is its row once one  *)
(* was seen: nothing deletes either while a call is under way.               *)
KnownEnough ==
  \A c \in Calls :
    /\ call[c].pc = "record" => book[Inst(call[c])].known
    /\ call[c].pc = "write" /\ call[c].seen.known => row[Inst(call[c])].known

LEMMA StageFacts ==
  ASSUME NEW x \in Stages
  PROVE  /\ x # Idle <=> x.pc \in {"record", "read", "write"}
         /\ x.pc = "record" => x \in Recording
         /\ x.pc = "read" => x \in Reading
         /\ x.pc = "write" => x \in Writing
         /\ x # Idle => /\ x.f \in Fills /\ x.gain \in Fraction
                        /\ Inst(x) \in Instruments
<1>1. CASE x = Idle
  BY <1>1 DEF Idle
<1>2. CASE x \in Recording
  BY <1>2, FillFacts DEF Recording, Idle, Inst, IsFill
<1>3. CASE x \in Reading
  BY <1>3, FillFacts DEF Reading, Idle, Inst, IsFill
<1>4. CASE x \in Writing
  BY <1>4, FillFacts DEF Writing, Idle, Inst, IsFill
<1> QED
  BY <1>1, <1>2, <1>3, <1>4 DEF Stages

LEMMA StageMembers ==
  /\ Idle \in Stages /\ Recording \subseteq Stages /\ Reading \subseteq Stages
  /\ Writing \subseteq Stages
BY DEF Stages

(* The row that the flush leaves.                                            *)
LEMMA ColumnsAreHeld ==
  ASSUME NEW now \in Held, NEW seen \in Held, NEW image \in Position,
         seen.known => now.known
  PROVE  /\ Columns(now, seen, image) \in Held
         /\ Columns(now, seen, image).known
         /\ now = seen => Columns(now, seen, image).qty = image.qty
<1>1. CASE ~seen.known
  BY <1>1 DEF Columns, Held, Position
<1>2. CASE seen.known
  <2> DEFINE r == [x \in DOMAIN image |-> IF seen[x] = image[x] THEN now[x]
                                          ELSE image[x]]
  <2>1. Columns(now, seen, image) = r
    BY <1>2 DEF Columns
  <2>2. now \in Position /\ seen \in Position
    BY <1>2, HeldFacts
  <2>3. DOMAIN image = {"qty", "avg", "pnl", "unreal", "known"}
    BY DEF Position
  <2>4. /\ r.qty \in Int /\ r.avg \in Fraction /\ r.pnl \in Fraction
        /\ r.unreal \in Fraction /\ r.known = TRUE
    BY <2>2, <2>3 DEF Position
  <2>5. r = [qty |-> r.qty, avg |-> r.avg, pnl |-> r.pnl,
             unreal |-> r.unreal, known |-> r.known]
    BY <2>3
  <2>6. now = seen => r.qty = image.qty
    BY <2>3
  <2> HIDE DEF r
  <2>7. r \in Position
    BY <2>4, <2>5 DEF Position
  <2> QED
    BY <2>1, <2>4, <2>6, <2>7 DEF Held
<1> QED
  BY <1>1, <1>2

(* What the steps do to a call.                                              *)
LEMMA Recorded ==
  ASSUME DeskTypes, KnownEnough, NEW c \in Calls, RecordFill(c)
  PROVE  \E y \in Reading :
           /\ call[c] \in Recording /\ call' = [call EXCEPT ![c] = y]
           /\ y.f = call[c].f /\ y.gain = call[c].gain
           /\ y.image = book[Inst(call[c])]
<1> DEFINE x == call[c]
           y == [pc |-> "read", f |-> x.f, gain |-> x.gain,
                 image |-> book[Inst(x)]]
<1>1. x \in Stages /\ x.pc = "record"
  BY DEF DeskTypes, RecordFill
<1>2. x \in Recording /\ Inst(x) \in Instruments
  BY <1>1, StageFacts
<1>3. book[Inst(x)] \in Held /\ book[Inst(x)].known
  BY <1>1, <1>2 DEF DeskTypes, KnownEnough
<1>4. book[Inst(x)] \in Position
  BY <1>3, HeldFacts
<1>5. y \in Reading
  BY <1>2, <1>4 DEF Recording, Reading
<1>6. call' = [call EXCEPT ![c] = y]
  BY DEF RecordFill, Inst
<1> QED
  BY <1>2, <1>5, <1>6

LEMMA WasRead ==
  ASSUME DeskTypes, NEW c \in Calls, ReadPosition(c)
  PROVE  \E y \in Writing :
           /\ call[c] \in Reading /\ call' = [call EXCEPT ![c] = y]
           /\ y.f = call[c].f /\ y.gain = call[c].gain
           /\ y.image = call[c].image /\ y.seen = row[Inst(call[c])]
<1> DEFINE x == call[c]
           y == [pc |-> "write", f |-> x.f, gain |-> x.gain,
                 image |-> x.image, seen |-> row[Inst(x)]]
<1>1. x \in Stages /\ x.pc = "read"
  BY DEF DeskTypes, ReadPosition
<1>2. x \in Reading /\ Inst(x) \in Instruments
  BY <1>1, StageFacts
<1>3. row[Inst(x)] \in Held
  BY <1>2 DEF DeskTypes
<1>5. y \in Writing
  BY <1>2, <1>3 DEF Reading, Writing
<1>6. call' = [call EXCEPT ![c] = y]
  BY DEF ReadPosition, Inst
<1> QED
  BY <1>2, <1>5, <1>6

LEMMA Written ==
  ASSUME DeskTypes, KnownEnough, NEW c \in Calls, WritePosition(c)
  PROVE  /\ call[c] \in Writing /\ call' = [call EXCEPT ![c] = Idle]
         /\ Inst(call[c]) \in Instruments
         /\ row' = [row EXCEPT ![Inst(call[c])] =
                      Columns(row[Inst(call[c])], call[c].seen, call[c].image)]
         /\ row' \in [Instruments -> Held] /\ row'[Inst(call[c])].known
         /\ call[c].seen = row[Inst(call[c])] =>
              row'[Inst(call[c])].qty = call[c].image.qty
         /\ \A j \in Instruments \ {Inst(call[c])} : row'[j] = row[j]
<1> DEFINE x == call[c]
           r == Columns(row[Inst(x)], x.seen, x.image)
<1>1. x \in Stages /\ x.pc = "write"
  BY DEF DeskTypes, WritePosition
<1>2. x \in Writing /\ Inst(x) \in Instruments
  BY <1>1, StageFacts
<1>3. /\ x.seen \in Held /\ x.image \in Position /\ row[Inst(x)] \in Held
      /\ x.seen.known => row[Inst(x)].known
  BY <1>1, <1>2 DEF DeskTypes, KnownEnough, Writing
<1>4. /\ row' = [row EXCEPT ![Inst(x)] = r]
      /\ call' = [call EXCEPT ![c] = Idle]
  BY DEF WritePosition, Inst
<1>5. row \in [Instruments -> Held]
  BY DEF DeskTypes
<1> DEFINE s == x.seen
           m == x.image
           n == row[Inst(x)]
<1>6. n \in Held /\ s \in Held /\ m \in Position /\ (s.known => n.known)
  BY <1>3
<1> HIDE DEF s, m, n
<1>7. /\ Columns(n, s, m) \in Held /\ Columns(n, s, m).known
      /\ n = s => Columns(n, s, m).qty = m.qty
  BY <1>6, ColumnsAreHeld
<1>8. /\ r \in Held /\ r.known
      /\ x.seen = row[Inst(x)] => r.qty = x.image.qty
  BY <1>7, Zenon DEF n, s, m
<1> HIDE DEF x, r
<1> DEFINE i == Inst(x)
<1> HIDE DEF i
<1>9. /\ row'[i] = r /\ row' \in [Instruments -> Held]
      /\ \A j \in Instruments \ {i} : row'[j] = row[j]
  BY <1>2, <1>4, <1>5, <1>8 DEF i
<1> QED
  BY <1>2, <1>4, <1>8, <1>9, Zenon DEF x, r, i

(* Positions and rows stay known; then a call that is not moved keeps what   *)
(* it needs.                                                                 *)
LEMMA KnownKept ==
  ASSUME DeskTypes, KnownEnough, NEW c \in Calls, NEW y \in Stages,
         call' = [call EXCEPT ![c] = y],
         \A i \in Instruments : /\ book[i].known => book'[i].known
                                /\ row[i].known => row'[i].known,
         y.pc = "record" => book'[Inst(y)].known,
         y.pc = "write" /\ y.seen.known => row'[Inst(y)].known
  PROVE  call' \in [Calls -> Stages] /\ KnownEnough'
<1>1. call \in [Calls -> Stages]
  BY DEF DeskTypes
<1>2. call' \in [Calls -> Stages]
  BY <1>1
<1>3. ASSUME NEW d \in Calls
      PROVE  /\ call'[d].pc = "record" => book'[Inst(call'[d])].known
             /\ call'[d].pc = "write" /\ call'[d].seen.known
                  => row'[Inst(call'[d])].known
  <2>1. CASE d = c
    BY <1>1, <2>1
  <2>2. CASE d # c
    <3>1. call'[d] = call[d] /\ call[d] \in Stages
      BY <1>1, <2>2
    <3>2. call[d] # Idle => Inst(call[d]) \in Instruments
      BY <3>1, StageFacts
    <3>3. call[d].pc \in {"record", "write"} => call[d] # Idle
      BY <3>1, StageFacts
    <3> QED
      BY <3>1, <3>2, <3>3 DEF KnownEnough
  <2> QED
    BY <2>1, <2>2
<1>4. KnownEnough'
  BY <1>3, Zenon DEF KnownEnough, Inst
<1> QED
  BY <1>2, <1>4

DeskSound == DeskTypes /\ KnownEnough

LEMMA IdleFacts == Idle.pc = "idle" /\ Idle \in Stages
BY StageMembers DEF Idle

LEMMA DeskSoundInit == BookInit => DeskSound
<1> SUFFICES ASSUME BookInit PROVE DeskSound
  OBVIOUS
<1>1. Whole(0) \in Fraction /\ IsFiniteSet({})
  BY FS_EmptySet DEF Whole, Fraction, Positive
<1>2. DeskTypes
  BY <1>1, AbsentIsFlat, IdleFacts DEF BookInit, DeskTypes
<1>3. KnownEnough
  BY IdleFacts DEF BookInit, KnownEnough
<1> QED
  BY <1>2, <1>3 DEF DeskSound

(* A call that begins.                                                       *)
LEMMA Begun ==
  ASSUME DeskTypes, NEW c \in Calls, NEW f \in Fills, OnFill(c, f)
  PROVE  \E y \in Recording :
           /\ call[c] = Idle /\ call' = [call EXCEPT ![c] = y] /\ y.f = f
           /\ y.gain = Minus(Realised(Known(book[FillOf[f].inst]), FillOf[f].qty,
                                      FillOf[f].price), Whole(FillOf[f].fees))
<1> DEFINE x == FillOf[f]
           p == Known(book[x.inst])
           g == Minus(Realised(p, x.qty, x.price), Whole(x.fees))
           y == [pc |-> "record", f |-> f, gain |-> g]
<1>1. IsFill(x) /\ p \in Position
  BY OnFillBooks DEF DeskTypes
<1>2. x.qty \in Int /\ x.price \in Int /\ x.fees \in Int
  BY <1>1 DEF IsFill
<1>3. g \in Fraction
  <2> HIDE DEF x, p
  <2>1. Realised(p, x.qty, x.price) \in Fraction /\ Whole(x.fees) \in Fraction
    BY <1>1, <1>2, RealisedIsTyped DEF Whole, Fraction, Positive
  <2> QED
    BY <2>1, OperationsTyped, <1>2
<1>4. call[c] = Idle /\ call' = [call EXCEPT ![c] = y]
  BY DEF OnFill
<1> HIDE DEF x, p, g
<1>5. y \in Recording
  BY <1>3 DEF Recording
<1> QED
  BY <1>4, <1>5 DEF g, p, x

LEMMA DeskSoundNext == DeskSound /\ BookStep => DeskSound'
<1> SUFFICES ASSUME DeskSound, BookStep PROVE DeskSound'
  OBVIOUS
<1>0. /\ book \in [Instruments -> Held] /\ row \in [Instruments -> Held]
      /\ call \in [Calls -> Stages] /\ earned \in [Strategies -> Fraction]
      /\ fillRows \in SUBSET Fills /\ IsFiniteSet(fillRows)
      /\ delivered \in [Fills -> Nat] /\ overlapped \in BOOLEAN
      /\ dbFailures \in Nat /\ restarts \in Nat
      /\ DeskTypes /\ KnownEnough
  BY DEF DeskSound, DeskTypes
<1>1. ASSUME NEW c \in Calls, NEW f \in Fills, OnFill(c, f) PROVE DeskSound'
  <2> DEFINE i == FillOf[f].inst
  <2>1. PICK y \in Recording : /\ call' = [call EXCEPT ![c] = y] /\ y.f = f
    BY <1>0, <1>1, Begun
  <2>2. /\ i \in Instruments /\ Known(book[i]) \in Position /\ IsFill(FillOf[f])
        /\ book' = [book EXCEPT ![i] = Applied(Known(book[i]), FillOf[f])]
        /\ book' \in [Instruments -> Held]
    BY <1>0, <1>1, OnFillBooks
  <2>3. Applied(Known(book[i]), FillOf[f]).known
    BY <2>2, AppliedIsPosition
  <2>4. /\ row' = row /\ earned' = earned /\ fillRows' = fillRows
        /\ dbFailures' = dbFailures /\ restarts' = restarts
        /\ delivered' \in [Fills -> Nat] /\ overlapped' \in BOOLEAN
    <3>1. /\ delivered' = [delivered EXCEPT ![f] = @ + 1]
          /\ overlapped' = (overlapped \/ \E d \in Calls : call[d] # Idle)
          /\ UNCHANGED <<earned, fillRows, row, dbFailures, restarts>>
      BY <1>1 DEF OnFill
    <3> QED
      BY <1>0, <3>1
  <2>5. y \in Stages /\ y.pc = "record" /\ Inst(y) = i
    BY <2>1, StageMembers DEF Recording, Inst
  <2>6. /\ book'[i].known
        /\ \A j \in Instruments : book[j].known => book'[j].known
    BY <1>0, <2>2, <2>3
  <2>7. call' \in [Calls -> Stages] /\ KnownEnough'
    BY <1>0, <2>1, <2>4, <2>5, <2>6, KnownKept
  <2> QED
    BY <1>0, <2>2, <2>4, <2>7 DEF DeskSound, DeskTypes
<1>2. ASSUME NEW c \in Calls, RecordFill(c) PROVE DeskSound'
  <2>1. PICK y \in Reading :
          /\ call[c] \in Recording /\ call' = [call EXCEPT ![c] = y]
    BY <1>0, <1>2, Recorded
  <2>2. /\ fillRows' = fillRows \cup {call[c].f}
        /\ UNCHANGED <<book, earned, row, delivered, overlapped, dbFailures,
                       restarts>>
    BY <1>2 DEF RecordFill, history
  <2>3. call[c].f \in Fills
    BY <2>1 DEF Recording
  <2>4. fillRows' \in SUBSET Fills /\ IsFiniteSet(fillRows')
    BY <1>0, <2>2, <2>3, FS_AddElement
  <2>5. y \in Stages /\ y.pc = "read"
    BY <2>1, StageMembers DEF Reading
  <2>6. call' \in [Calls -> Stages] /\ KnownEnough'
    BY <1>0, <2>1, <2>2, <2>5, KnownKept
  <2> QED
    BY <1>0, <2>2, <2>4, <2>6 DEF DeskSound, DeskTypes
<1>3. ASSUME NEW c \in Calls, ReadPosition(c) PROVE DeskSound'
  <2>1. PICK y \in Writing :
          /\ call[c] \in Reading /\ call' = [call EXCEPT ![c] = y]
          /\ y.f = call[c].f /\ y.seen = row[Inst(call[c])]
    BY <1>0, <1>3, WasRead
  <2>2. UNCHANGED <<book, earned, fillRows, row, delivered, overlapped,
                    dbFailures, restarts>>
    BY <1>3 DEF ReadPosition, history
  <2>3. y \in Stages /\ y.pc = "write" /\ Inst(y) = Inst(call[c])
    BY <2>1, StageMembers DEF Writing, Inst
  <2>4. y.seen.known => row'[Inst(y)].known
    BY <2>1, <2>2, <2>3
  <2>5. call' \in [Calls -> Stages] /\ KnownEnough'
    BY <1>0, <2>1, <2>2, <2>3, <2>4, KnownKept
  <2> QED
    BY <1>0, <2>2, <2>5 DEF DeskSound, DeskTypes
<1>4. ASSUME NEW c \in Calls, WritePosition(c) PROVE DeskSound'
  <2>1. /\ call[c] \in Writing /\ call' = [call EXCEPT ![c] = Idle]
        /\ Inst(call[c]) \in Instruments
        /\ row' \in [Instruments -> Held] /\ row'[Inst(call[c])].known
        /\ \A j \in Instruments \ {Inst(call[c])} : row'[j] = row[j]
    BY <1>0, <1>4, Written
  <2>2. UNCHANGED <<book, fillRows, delivered, overlapped, dbFailures, restarts>>
    BY <1>4 DEF WritePosition, history
  <2>3. earned' \in [Strategies -> Fraction]
    <3> DEFINE s == FillOf[call[c].f].strategy
    <3>1. earned' = [earned EXCEPT ![s] = Plus(@, call[c].gain)]
      BY <1>4 DEF WritePosition, Credit
    <3>2. call[c].gain \in Fraction /\ s \in Strategies
      BY <2>1, FillFacts DEF Writing, IsFill
    <3>3. Plus(earned[s], call[c].gain) \in Fraction
      <4>1. earned[s] \in Fraction /\ 0 \in Int
        BY <1>0, <3>2
      <4> HIDE DEF s
      <4> QED
        BY <3>2, <4>1, OperationsTyped
    <3> HIDE DEF s
    <3> QED
      BY <1>0, <3>1, <3>2, <3>3
  <2>4. \A i \in Instruments : row[i].known => row'[i].known
    BY <2>1
  <2>5. call' \in [Calls -> Stages] /\ KnownEnough'
    BY <1>0, <2>1, <2>2, <2>4, IdleFacts, KnownKept
  <2> QED
    BY <1>0, <2>1, <2>2, <2>3, <2>5 DEF DeskSound, DeskTypes
<1>5. ASSUME NEW c \in Calls, RefuseFill(c) \/ RefusePosition(c) \/ DbFails(c)
      PROVE  DeskSound'
  <2>1. /\ call' = [call EXCEPT ![c] = Idle]
        /\ UNCHANGED <<book, earned, fillRows, row, delivered, overlapped,
                       restarts>>
        /\ dbFailures' = dbFailures \/ dbFailures' = dbFailures + 1
    BY <1>5 DEF RefuseFill, RefusePosition, DbFails, history
  <2>2. call' \in [Calls -> Stages] /\ KnownEnough'
    BY <1>0, <2>1, IdleFacts, KnownKept
  <2> QED
    BY <1>0, <2>1, <2>2 DEF DeskSound, DeskTypes
<1>6. ASSUME NEW i \in Instruments, NEW price \in Marks, OnTick(i, price)
      PROVE  DeskSound'
  <2>1. UNCHANGED <<earned, fillRows, row, call, delivered, overlapped,
                    dbFailures, restarts>>
    BY <1>6 DEF OnTick, history
  <2>2. /\ book' \in [Instruments -> Held]
        /\ \A j \in Instruments : book'[j].known = book[j].known
    BY <1>0, <1>6, OnTickBooks
  <2>3. \A d \in Calls : call[d].pc = "record" => Inst(call[d]) \in Instruments
    BY <1>0, StageFacts
  <2>4. KnownEnough'
    BY <1>0, <2>1, <2>2, <2>3 DEF KnownEnough, Inst
  <2> QED
    BY <1>0, <2>1, <2>2, <2>4 DEF DeskSound, DeskTypes
<1>7. CASE BookRestart
  <2>1. /\ book' = [i \in Instruments |-> Absent]
        /\ earned' = [s \in Strategies |-> Whole(0)]
        /\ call' = [c \in Calls |-> Idle] /\ restarts' = restarts + 1
        /\ UNCHANGED <<fillRows, row, delivered, overlapped, dbFailures>>
    BY <1>7 DEF BookRestart
  <2>2. Whole(0) \in Fraction
    BY DEF Whole, Fraction, Positive
  <2>3. KnownEnough'
    BY <2>1, IdleFacts DEF KnownEnough
  <2> QED
    BY <1>0, <2>1, <2>2, <2>3, AbsentIsFlat, IdleFacts DEF DeskSound, DeskTypes
<1>8. CASE UNCHANGED bookVars
  <2>1. UNCHANGED <<book, earned, fillRows, row, call, delivered, overlapped,
                    dbFailures, restarts>>
    BY <1>8 DEF bookVars, history
  <2> QED
    BY <1>0, <2>1 DEF DeskSound, DeskTypes, KnownEnough, Inst
<1> QED
  BY <1>1, <1>2, <1>3, <1>4, <1>5, <1>6, <1>7, <1>8 DEF BookStep, JournalStep

-----------------------------------------------------------------------------
(* What the fill rows of F say of an instrument.                             *)
QtyIn(F, i) == QtyOf({f \in F : FillOf[f].inst = i})

LEMMA FillQtys ==
  ASSUME NEW F \in SUBSET Fills, IsFiniteSet(F)
  PROVE  QtyOf(F) \in Int
<1> DEFINE w == [f \in Fills |-> FillOf[f].qty]
<1>1. \A f \in F : w[f] \in Int
  BY FillFacts DEF IsFill
<1> HIDE DEF w
<1>2. SumFunctionOnSet(w, F) \in Int
  BY <1>1, SumIsInteger
<1> QED
  BY <1>2 DEF QtyOf, w

LEMMA RowsCount ==
  ASSUME NEW F \in SUBSET Fills, IsFiniteSet(F), NEW i \in Instruments
  PROVE  QtyIn(F, i) \in Int
<1> DEFINE G == {f \in F : FillOf[f].inst = i}
<1>1. G \in SUBSET Fills /\ IsFiniteSet(G)
  BY FS_Subset
<1> QED
  BY <1>1, FillQtys DEF QtyIn

LEMMA NoRows == ASSUME NEW i \in Instruments PROVE QtyIn({}, i) = 0
<1>1. {f \in {} : FillOf[f].inst = i} = {}
  OBVIOUS
<1> QED
  BY <1>1, SumOfNothing DEF QtyIn, QtyOf

LEMMA RowAdds ==
  ASSUME NEW F \in SUBSET Fills, IsFiniteSet(F), NEW f \in Fills, f \notin F,
         NEW i \in Instruments
  PROVE  QtyIn(F \cup {f}, i) = IF FillOf[f].inst = i
                                THEN QtyIn(F, i) + FillOf[f].qty
                                ELSE QtyIn(F, i)
<1> DEFINE G == {e \in F : FillOf[e].inst = i}
           H == {e \in F \cup {f} : FillOf[e].inst = i}
           w == [e \in Fills |-> FillOf[e].qty]
<1>1. IsFiniteSet(G) /\ G \in SUBSET Fills /\ f \notin G
  BY FS_Subset
<1>2. CASE FillOf[f].inst = i
  <2>1. H = G \cup {f}
    BY <1>2
  <2>2. \A e \in G \cup {f} : w[e] \in Int
    BY <1>1, FillFacts DEF IsFill
  <2>3. w[f] = FillOf[f].qty
    OBVIOUS
  <2> HIDE DEF G, H, w
  <2>4. SumFunctionOnSet(w, G \cup {f}) = SumFunctionOnSet(w, G) + w[f]
    BY <1>1, <2>2, SumAdds
  <2> QED
    BY <1>2, <2>1, <2>3, <2>4 DEF QtyIn, QtyOf, G, H, w
<1>3. CASE FillOf[f].inst # i
  <2>1. H = G
    BY <1>3
  <2> QED
    BY <1>3, <2>1 DEF QtyIn
<1> QED
  BY <1>2, <1>3

-----------------------------------------------------------------------------
(* While nothing is disturbed one call at most is under way.  The book has   *)
(* the fill it records, the image it writes has it in the rows as well, and  *)
(* only the row of its position may still lack it.                           *)
OneAtATime ==
  \A c, d \in Calls : call[c] # Idle /\ call[d] # Idle => c = d

Current(y) == IF y = Idle THEN Quiet ELSE \E c \in Calls : call[c] = y

InOrder(y) ==
  /\ y.pc = "record" => y.f \notin fillRows /\ delivered[y.f] >= 1
  /\ y.pc = "write" => y.seen = row[Inst(y)]

RecordsOn(y, i) == y.pc = "record" /\ Inst(y) = i
WritesOn(y, i)  == y.pc \in {"read", "write"} /\ Inst(y) = i

TablesFollow(y) ==
  \A i \in Instruments :
    /\ book[i].qty = IF RecordsOn(y, i) THEN QtyIn(fillRows, i) + FillOf[y.f].qty
                     ELSE QtyIn(fillRows, i)
    /\ (IF WritesOn(y, i) THEN y.image ELSE row[i]).qty = QtyIn(fillRows, i)

Orderly ==
  /\ OneAtATime
  /\ \A f \in fillRows : delivered[f] >= 1
  /\ \A y \in Stages : Current(y) =>
                         InOrder(y) /\ (restarts = 0 => TablesFollow(y))

RowsInv == DeskSound /\ (Undisturbed => Orderly)

LEMMA UndisturbedBefore ==
  ASSUME DeskSound, BookStep, Undisturbed'
  PROVE  Undisturbed
<1>0. /\ delivered \in [Fills -> Nat] /\ overlapped \in BOOLEAN
      /\ dbFailures \in Nat
  BY DEF DeskSound, DeskTypes
<1>1. ASSUME NEW c \in Calls, NEW f \in Fills, OnFill(c, f) PROVE Undisturbed
  <2>1. /\ delivered' = [delivered EXCEPT ![f] = @ + 1]
        /\ overlapped' = (overlapped \/ \E d \in Calls : call[d] # Idle)
        /\ dbFailures' = dbFailures
    BY <1>1 DEF OnFill
  <2>2. \A g \in Fills : delivered'[g] >= delivered[g] /\ delivered'[g] \in Nat
    BY <1>0, <2>1
  <2> QED
    BY <1>0, <2>1, <2>2 DEF Undisturbed
<1>2. ASSUME NEW c \in Calls, JournalStep(c) PROVE Undisturbed
  <2>1. /\ UNCHANGED <<delivered, overlapped>>
        /\ dbFailures' = dbFailures \/ dbFailures' = dbFailures + 1
    BY <1>2 DEF JournalStep, RecordFill, RefuseFill, ReadPosition,
                WritePosition, RefusePosition, DbFails, history
  <2> QED
    BY <1>0, <2>1 DEF Undisturbed
<1>3. ASSUME NEW i \in Instruments, NEW price \in Marks, OnTick(i, price)
      PROVE  Undisturbed
  BY <1>3 DEF OnTick, history, Undisturbed
<1>4. CASE BookRestart
  BY <1>4 DEF BookRestart, Undisturbed
<1>5. CASE UNCHANGED bookVars
  BY <1>5 DEF bookVars, history, Undisturbed
<1> QED
  BY <1>1, <1>2, <1>3, <1>4, <1>5 DEF BookStep

(* When the only call moves, it is the current one afterwards.               *)
LEMMA CurrentMoves ==
  ASSUME call \in [Calls -> Stages], NEW c \in Calls, NEW y \in Stages,
         call' = [call EXCEPT ![c] = y],
         \A d \in Calls \ {c} : call[d] = Idle
  PROVE  /\ OneAtATime' /\ Current(y)'
         /\ \A z \in Stages : Current(z)' => z = y
<1>1. call'[c] = y /\ \A d \in Calls \ {c} : call'[d] = Idle
  OBVIOUS
<1>2. OneAtATime'
  BY <1>1 DEF OneAtATime
<1>3. ASSUME NEW z \in Stages, Current(z)' PROVE z = y
  BY <1>1, <1>3 DEF Current, Quiet
<1>4. Current(y)'
  BY <1>1 DEF Current, Quiet
<1> QED
  BY <1>2, <1>3, <1>4

LEMMA OthersAreIdle ==
  ASSUME OneAtATime, NEW c \in Calls, call[c] # Idle
  PROVE  Current(call[c]) /\ \A d \in Calls \ {c} : call[d] = Idle
BY DEF OneAtATime, Current

(* So what is left to show of a step is that its call stays in order.        *)
LEMMA OrderlyAfter ==
  ASSUME call \in [Calls -> Stages], NEW c \in Calls, NEW y \in Stages,
         call' = [call EXCEPT ![c] = y],
         \A d \in Calls \ {c} : call[d] = Idle,
         \A f \in fillRows' : delivered'[f] >= 1,
         InOrder(y)', restarts' = 0 => TablesFollow(y)'
  PROVE  Orderly'
<1>1. OneAtATime' /\ \A z \in Stages : Current(z)' => z = y
  BY CurrentMoves
<1> QED
  BY <1>1 DEF Orderly

LEMMA OrderlyBegins ==
  ASSUME RowsInv, NEW c \in Calls, NEW f \in Fills, OnFill(c, f), Undisturbed',
         Undisturbed
  PROVE  Orderly'
<1> DEFINE i == FillOf[f].inst
<1>0. /\ DeskTypes /\ call \in [Calls -> Stages] /\ delivered \in [Fills -> Nat]
      /\ overlapped \in BOOLEAN /\ fillRows \in SUBSET Fills /\ Orderly
  BY DEF RowsInv, DeskSound, DeskTypes
<1>1. PICK y \in Recording :
        call[c] = Idle /\ call' = [call EXCEPT ![c] = y] /\ y.f = f
  BY <1>0, Begun
<1>2. /\ delivered' = [delivered EXCEPT ![f] = @ + 1]
      /\ overlapped' = (overlapped \/ \E d \in Calls : call[d] # Idle)
      /\ UNCHANGED <<fillRows, row, restarts>>
  BY DEF OnFill
<1>3. \A d \in Calls : call[d] = Idle
  BY <1>0, <1>2 DEF Undisturbed
<1>4. delivered[f] = 0 /\ delivered'[f] = 1
      /\ \A g \in Fills \ {f} : delivered'[g] = delivered[g]
  BY <1>0, <1>2 DEF Undisturbed
<1>5. f \notin fillRows /\ \A g \in fillRows : delivered'[g] >= 1
  BY <1>0, <1>4 DEF Orderly
<1>6. y \in Stages /\ y.pc = "record" /\ Inst(y) = i
  BY <1>1, StageMembers DEF Recording, Inst
<1>7. InOrder(y)'
  BY <1>1, <1>2, <1>4, <1>5, <1>6 DEF InOrder
<1>8. ASSUME restarts' = 0 PROVE TablesFollow(y)'
  <2>1. TablesFollow(Idle)
    BY <1>0, <1>2, <1>3, <1>8, IdleFacts DEF Orderly, Current, Quiet
  <2>2. \A j \in Instruments : /\ book[j].qty = QtyIn(fillRows, j)
                               /\ row[j].qty = QtyIn(fillRows, j)
    BY <2>1, IdleFacts DEF TablesFollow, RecordsOn, WritesOn
  <2>3. /\ i \in Instruments /\ book'[i].qty = book[i].qty + FillOf[f].qty
        /\ \A j \in Instruments \ {i} : book'[j] = book[j]
    BY <1>0, OnFillBooks DEF DeskTypes
  <2>4. ASSUME NEW j \in Instruments
        PROVE  /\ book'[j].qty = IF RecordsOn(y, j)
                                 THEN QtyIn(fillRows', j) + FillOf[y.f].qty
                                 ELSE QtyIn(fillRows', j)
               /\ (IF WritesOn(y, j) THEN y.image ELSE row'[j]).qty
                    = QtyIn(fillRows', j)
    <3>1. RecordsOn(y, j) = (i = j) /\ ~WritesOn(y, j)
      BY <1>6 DEF RecordsOn, WritesOn
    <3>2. row'[j].qty = QtyIn(fillRows', j) /\ fillRows' = fillRows
      BY <1>2, <2>2
    <3>3. CASE j = i
      BY <1>1, <2>2, <2>3, <3>1, <3>2, <3>3
    <3>4. CASE j # i
      BY <2>2, <2>3, <3>1, <3>2, <3>4
    <3> QED
      BY <3>3, <3>4
  <2> QED
    BY <2>4 DEF TablesFollow, RecordsOn, WritesOn, Inst, QtyIn, QtyOf
<1>9. \A d \in Calls \ {c} : call[d] = Idle
  BY <1>3
<1>10. \A g \in fillRows' : delivered'[g] >= 1
  BY <1>2, <1>5
<1> QED
  BY <1>0, <1>1, <1>6, <1>7, <1>8, <1>9, <1>10, OrderlyAfter

LEMMA OrderlyRecords ==
  ASSUME RowsInv, NEW c \in Calls, RecordFill(c), Undisturbed
  PROVE  Orderly'
<1> DEFINE x == call[c]
           f == x.f
           i == Inst(x)
<1>0. /\ DeskTypes /\ KnownEnough /\ call \in [Calls -> Stages]
      /\ fillRows \in SUBSET Fills /\ IsFiniteSet(fillRows) /\ Orderly
  BY DEF RowsInv, DeskSound, DeskTypes
<1>1. PICK y \in Reading :
        /\ x \in Recording /\ call' = [call EXCEPT ![c] = y]
        /\ y.f = f /\ y.image = book[i]
  BY <1>0, Recorded
<1>2. /\ f \notin fillRows /\ fillRows' = fillRows \cup {f}
      /\ UNCHANGED <<book, row, delivered, restarts>>
  BY DEF RecordFill, history
<1>3. x \in Stages /\ x.pc = "record" /\ x # Idle /\ f \in Fills
      /\ i \in Instruments
  <2>1. x \in Stages /\ x.pc = "record"
    BY <1>0, <1>1 DEF Recording
  <2> HIDE DEF x
  <2> QED
    BY <2>1, StageFacts
<1>4. Current(x) /\ \A d \in Calls \ {c} : call[d] = Idle
  BY <1>0, <1>3, OthersAreIdle DEF Orderly
<1>5. InOrder(x) /\ (restarts = 0 => TablesFollow(x))
  BY <1>0, <1>3, <1>4 DEF Orderly
<1>6. y \in Stages /\ y.pc = "read" /\ Inst(y) = i
  BY <1>1, StageMembers DEF Reading, Inst
<1>7. InOrder(y)'
  BY <1>6 DEF InOrder
<1>8. \A g \in fillRows' : delivered'[g] >= 1
  BY <1>0, <1>2, <1>3, <1>5 DEF Orderly, InOrder
<1>9. ASSUME restarts' = 0 PROVE TablesFollow(y)'
  <2>1. TablesFollow(x)
    BY <1>2, <1>5, <1>9
  <2>2. ASSUME NEW j \in Instruments
        PROVE  /\ book'[j].qty = IF RecordsOn(y, j)
                                 THEN QtyIn(fillRows', j) + FillOf[y.f].qty
                                 ELSE QtyIn(fillRows', j)
               /\ (IF WritesOn(y, j) THEN y.image ELSE row'[j]).qty
                    = QtyIn(fillRows', j)
    <3>1. ~RecordsOn(y, j) /\ WritesOn(y, j) = (i = j)
      BY <1>6 DEF RecordsOn, WritesOn
    <3>2. RecordsOn(x, j) = (i = j) /\ ~WritesOn(x, j)
      BY <1>3 DEF RecordsOn, WritesOn
    <3>3. /\ book[j].qty = IF i = j THEN QtyIn(fillRows, j) + FillOf[f].qty
                           ELSE QtyIn(fillRows, j)
          /\ row[j].qty = QtyIn(fillRows, j)
      BY <2>1, <3>2 DEF TablesFollow
    <3>4. QtyIn(fillRows', j) = IF FillOf[f].inst = j
                                THEN QtyIn(fillRows, j) + FillOf[f].qty
                                ELSE QtyIn(fillRows, j)
      BY <1>0, <1>2, <1>3, RowAdds
    <3>5. i = FillOf[f].inst
      BY DEF Inst
    <3> QED
      BY <1>1, <1>2, <3>1, <3>3, <3>4, <3>5
  <2> QED
    BY <2>2 DEF TablesFollow, RecordsOn, WritesOn, Inst, QtyIn, QtyOf
<1> QED
  BY <1>0, <1>1, <1>4, <1>6, <1>7, <1>8, <1>9, OrderlyAfter

LEMMA OrderlyReads ==
  ASSUME RowsInv, NEW c \in Calls, ReadPosition(c), Undisturbed
  PROVE  Orderly'
<1> DEFINE x == call[c]
           i == Inst(x)
<1>0. DeskTypes /\ call \in [Calls -> Stages] /\ Orderly
  BY DEF RowsInv, DeskSound, DeskTypes
<1>1. PICK y \in Writing :
        /\ x \in Reading /\ call' = [call EXCEPT ![c] = y]
        /\ y.f = x.f /\ y.image = x.image /\ y.seen = row[i]
  BY <1>0, WasRead
<1>2. UNCHANGED <<book, fillRows, row, delivered, restarts>>
  BY DEF ReadPosition, history
<1>3. x \in Stages /\ x.pc = "read" /\ x # Idle
  <2>1. x \in Stages /\ x.pc = "read"
    BY <1>0, <1>1 DEF Reading
  <2> HIDE DEF x
  <2> QED
    BY <2>1, StageFacts
<1>4. Current(x) /\ \A d \in Calls \ {c} : call[d] = Idle
  BY <1>0, <1>3, OthersAreIdle DEF Orderly
<1>5. InOrder(x) /\ (restarts = 0 => TablesFollow(x))
  BY <1>0, <1>3, <1>4 DEF Orderly
<1>6. y \in Stages /\ y.pc = "write" /\ Inst(y) = i
  BY <1>1, StageMembers DEF Writing, Inst
<1>7. InOrder(y)'
  BY <1>1, <1>2, <1>6 DEF InOrder, Inst
<1>8. \A g \in fillRows' : delivered'[g] >= 1
  BY <1>0, <1>2 DEF Orderly
<1>9. ASSUME restarts' = 0 PROVE TablesFollow(y)'
  <2>1. TablesFollow(x)
    BY <1>2, <1>5, <1>9
  <2>2. ASSUME NEW j \in Instruments
        PROVE  /\ book'[j].qty = IF RecordsOn(y, j)
                                 THEN QtyIn(fillRows', j) + FillOf[y.f].qty
                                 ELSE QtyIn(fillRows', j)
               /\ (IF WritesOn(y, j) THEN y.image ELSE row'[j]).qty
                    = QtyIn(fillRows', j)
    <3>1. /\ ~RecordsOn(y, j) /\ WritesOn(y, j) = (i = j)
          /\ ~RecordsOn(x, j) /\ WritesOn(x, j) = (i = j)
      BY <1>3, <1>6 DEF RecordsOn, WritesOn
    <3> QED
      BY <1>1, <1>2, <2>1, <3>1 DEF TablesFollow
  <2> QED
    BY <2>2 DEF TablesFollow, RecordsOn, WritesOn, Inst, QtyIn, QtyOf
<1> QED
  BY <1>0, <1>1, <1>4, <1>6, <1>7, <1>8, <1>9, OrderlyAfter

LEMMA OrderlyWrites ==
  ASSUME RowsInv, NEW c \in Calls, WritePosition(c), Undisturbed
  PROVE  Orderly'
<1> DEFINE x == call[c]
           i == Inst(x)
<1>0. DeskTypes /\ KnownEnough /\ call \in [Calls -> Stages] /\ Orderly
  BY DEF RowsInv, DeskSound, DeskTypes
<1>1. /\ x \in Writing /\ call' = [call EXCEPT ![c] = Idle]
      /\ x.seen = row[i] => row'[i].qty = x.image.qty
      /\ \A j \in Instruments \ {i} : row'[j] = row[j]
  BY <1>0, Written
<1>2. UNCHANGED <<book, fillRows, delivered, restarts>>
  BY DEF WritePosition, history
<1>3. x \in Stages /\ x.pc = "write" /\ x # Idle
  <2>1. x \in Stages /\ x.pc = "write"
    BY <1>0, <1>1 DEF Writing
  <2> HIDE DEF x
  <2> QED
    BY <2>1, StageFacts
<1>4. Current(x) /\ \A d \in Calls \ {c} : call[d] = Idle
  BY <1>0, <1>3, OthersAreIdle DEF Orderly
<1>5. InOrder(x) /\ (restarts = 0 => TablesFollow(x))
  BY <1>0, <1>3, <1>4 DEF Orderly
<1>6. row'[i].qty = x.image.qty
  BY <1>1, <1>3, <1>5 DEF InOrder
<1>7. InOrder(Idle)'
  BY IdleFacts DEF InOrder
<1>8. \A g \in fillRows' : delivered'[g] >= 1
  BY <1>0, <1>2 DEF Orderly
<1>9. ASSUME restarts' = 0 PROVE TablesFollow(Idle)'
  <2>1. TablesFollow(x)
    BY <1>2, <1>5, <1>9
  <2>2. ASSUME NEW j \in Instruments
        PROVE  /\ book'[j].qty = QtyIn(fillRows', j)
               /\ row'[j].qty = QtyIn(fillRows', j)
    <3>1. ~RecordsOn(x, j) /\ WritesOn(x, j) = (i = j)
      BY <1>3 DEF RecordsOn, WritesOn
    <3> QED
      BY <1>1, <1>2, <1>6, <2>1, <3>1 DEF TablesFollow
  <2> QED
    BY <2>2, IdleFacts DEF TablesFollow, RecordsOn, WritesOn, QtyIn, QtyOf
<1> QED
  BY <1>0, <1>1, <1>4, <1>7, <1>8, <1>9, IdleFacts, OrderlyAfter

(* Neither table refuses anything then.                                      *)
LEMMA NothingRefused ==
  ASSUME RowsInv, NEW c \in Calls, Undisturbed
  PROVE  ~RefuseFill(c) /\ ~RefusePosition(c)
<1> DEFINE x == call[c]
<1>0. call \in [Calls -> Stages] /\ Orderly
  BY DEF RowsInv, DeskSound, DeskTypes
<1>1. x \in Stages
  BY <1>0
<1>2. x.pc \in {"record", "write"} => x # Idle
  <2> HIDE DEF x
  <2> QED
    BY <1>1, StageFacts
<1>3. x # Idle => InOrder(x)
  BY <1>0, <1>1, OthersAreIdle DEF Orderly
<1> QED
  BY <1>2, <1>3 DEF InOrder, Inst, RefuseFill, RefusePosition

LEMMA RowsInvNext == RowsInv /\ BookStep => RowsInv'
<1> SUFFICES ASSUME RowsInv, BookStep PROVE RowsInv'
  OBVIOUS
<1>1. DeskSound'
  BY DeskSoundNext DEF RowsInv
<1>2. ASSUME Undisturbed' PROVE Orderly'
  <2>0. Undisturbed /\ Orderly /\ DeskTypes
    BY <1>2, UndisturbedBefore DEF RowsInv, DeskSound
  <2>1. ASSUME NEW c \in Calls, NEW f \in Fills, OnFill(c, f) PROVE Orderly'
    BY <1>2, <2>0, <2>1, OrderlyBegins
  <2>2. ASSUME NEW c \in Calls, JournalStep(c) PROVE Orderly'
    <3>1. ~DbFails(c)
      BY <1>2, <2>0 DEF DbFails, Undisturbed, DeskTypes
    <3> QED
      BY <2>0, <2>2, <3>1, OrderlyRecords, OrderlyReads, OrderlyWrites,
         NothingRefused DEF JournalStep
  <2>3. ASSUME NEW i \in Instruments, NEW price \in Marks, OnTick(i, price)
        PROVE  Orderly'
    <3>1. UNCHANGED <<fillRows, row, call, delivered, restarts>>
      BY <2>3 DEF OnTick, history
    <3>2. \A j \in Instruments : book'[j].qty = book[j].qty
      BY <2>0, <2>3, OnTickBooks DEF DeskTypes
    <3>3. \A y \in Stages : /\ Current(y)' => Current(y)
                            /\ InOrder(y) => InOrder(y)'
                            /\ TablesFollow(y) => TablesFollow(y)'
      BY <3>1, <3>2 DEF Current, Quiet, InOrder, TablesFollow, RecordsOn,
                        WritesOn, Inst, QtyIn, QtyOf
    <3> QED
      BY <2>0, <3>1, <3>3 DEF Orderly, OneAtATime
  <2>4. CASE BookRestart
    <3>1. /\ call' = [c \in Calls |-> Idle] /\ restarts' = restarts + 1
          /\ UNCHANGED <<fillRows, delivered>>
      BY <2>4 DEF BookRestart
    <3>2. restarts' # 0
      BY <2>0, <3>1 DEF DeskTypes
    <3>3. \A y \in Stages : Current(y)' => InOrder(y)'
      BY <3>1, IdleFacts DEF Current, Quiet, InOrder
    <3> QED
      BY <2>0, <3>1, <3>2, <3>3 DEF Orderly, OneAtATime
  <2>5. CASE UNCHANGED bookVars
    <3>1. UNCHANGED <<book, fillRows, row, call, delivered, restarts>>
      BY <2>5 DEF bookVars, history
    <3>2. \A y \in Stages : /\ Current(y)' => Current(y)
                            /\ InOrder(y) => InOrder(y)'
                            /\ TablesFollow(y) => TablesFollow(y)'
      BY <3>1 DEF Current, Quiet, InOrder, TablesFollow, RecordsOn,
                  WritesOn, Inst, QtyIn, QtyOf
    <3> QED
      BY <2>0, <3>1, <3>2 DEF Orderly, OneAtATime
  <2> QED
    BY <2>1, <2>2, <2>3, <2>4, <2>5 DEF BookStep
<1> QED
  BY <1>1, <1>2 DEF RowsInv

LEMMA RowsInvInit == BookInit => RowsInv
<1> SUFFICES ASSUME BookInit PROVE RowsInv
  OBVIOUS
<1>1. /\ book = [i \in Instruments |-> Absent] /\ fillRows = {}
      /\ row = [i \in Instruments |-> Absent]
      /\ call = [c \in Calls |-> Idle]
  BY DEF BookInit
<1>2. \A y \in Stages : Current(y) => y = Idle
  BY <1>1 DEF Current
<1>3. Absent.qty = 0
  BY DEF Absent
<1>4. InOrder(Idle) /\ TablesFollow(Idle)
  BY <1>1, <1>3, NoRows, IdleFacts
  DEF InOrder, TablesFollow, RecordsOn, WritesOn
<1>5. Orderly
  BY <1>1, <1>2, <1>4 DEF Orderly, OneAtATime
<1> QED
  BY <1>5, DeskSoundInit DEF RowsInv

(* Between calls the two tables agree, whatever comes between the two        *)
(* transactions of a call: as long as no write failed, no fill came twice    *)
(* and no two calls overlapped, and the process did not restart.             *)
THEOREM RowsAlwaysAgree == Spec => []RowsAgree
<1>1. Init => RowsInv
  BY RowsInvInit DEF Init
<1>2. RowsInv /\ [Next]_deskVars => RowsInv'
  BY RowsInvNext, StepsOfTheBook
<1>3. RowsInv => RowsAgree
  <2> SUFFICES ASSUME RowsInv, Quiet, Undisturbed, restarts = 0,
                      NEW i \in Instruments
               PROVE  row[i].qty = QtyOf(FilledOf(i))
    BY DEF RowsAgree
  <2>1. TablesFollow(Idle)
    BY IdleFacts DEF RowsInv, Orderly, Current
  <2>2. row[i].qty = QtyIn(fillRows, i)
    BY <2>1, IdleFacts DEF TablesFollow, WritesOn
  <2> QED
    BY <2>2 DEF QtyIn, FilledOf
<1> QED
  BY <1>1, <1>2, <1>3, PTL DEF Spec

-----------------------------------------------------------------------------
(* Totals of fractions.  Three fractions have a common denominator.          *)
Alike(x, y, z, a, c, e, b) == Is(x, a, b) /\ Is(y, c, b) /\ Is(z, e, b)

LEMMA Widened ==
  ASSUME NEW x \in Fraction, NEW k \in Positive
  PROVE  Is(x, x[1] * k, x[2] * k)
<1>1. x[1] \in Int /\ x[2] \in Positive /\ x[2] \in Int
  BY Parts
<1>2. k \in Int
  BY DEF Positive
<1>3. x[1] * k \in Int /\ x[2] * k \in Positive
  BY <1>1, <1>2, Products, PositiveProduct
<1>4. x[1] * (x[2] * k) = (x[1] * k) * x[2]
  BY <1>1, <1>2
<1> QED
  BY <1>3, <1>4 DEF Is

LEMMA CommonDenominator ==
  ASSUME NEW x \in Fraction, NEW y \in Fraction, NEW z \in Fraction
  PROVE  \E a \in Int, c \in Int, e \in Int, b \in Positive :
           Alike(x, y, z, a, c, e, b)
<1> DEFINE p == x[2]
           q == y[2]
           r == z[2]
           b == p * (q * r)
<1>1. p \in Positive /\ q \in Positive /\ r \in Positive
  BY Parts
<1>2. q * r \in Positive /\ p * r \in Positive /\ p * q \in Positive
  BY <1>1, PositiveProduct
<1>3. b \in Positive
  BY <1>1, <1>2, PositiveProduct
<1>4. q * (p * r) = b /\ r * (p * q) = b
  <2> HIDE DEF p, q, r
  <2>1. p \in Int /\ q \in Int /\ r \in Int
    BY <1>1 DEF Positive
  <2> QED
    BY <2>1
<1>5. /\ Is(x, x[1] * (q * r), b) /\ Is(y, y[1] * (p * r), b)
      /\ Is(z, z[1] * (p * q), b)
  <2>1. /\ Is(x, x[1] * (q * r), p * (q * r))
        /\ Is(y, y[1] * (p * r), q * (p * r))
        /\ Is(z, z[1] * (p * q), r * (p * q))
    BY <1>2, Widened
  <2> QED
    BY <1>4, <2>1
<1>6. /\ x[1] * (q * r) \in Int /\ y[1] * (p * r) \in Int
      /\ z[1] * (p * q) \in Int
  BY <1>5 DEF Is
<1> QED
  BY <1>3, <1>5, <1>6, Zenon DEF Alike

LEMMA PlusFrac ==
  ASSUME NEW x, NEW y, NEW a, NEW c, NEW b, Is(x, a, b), Is(y, c, b)
  PROVE  Plus(x, y) = Frac(a + c, b)
<1>1. /\ Plus(x, y) = Frac(a + c, b) /\ Is(Plus(x, y), a + c, b)
      /\ Minus(x, y) = Frac(a - c, b) /\ Is(Minus(x, y), a - c, b)
  BY PlusIs, Zenon
<1> QED
  BY <1>1

LEMMA PlusNumerator ==
  ASSUME NEW x, NEW y, NEW a, NEW c, NEW b, Is(x, a, b), Is(y, c, b)
  PROVE  Is(Plus(x, y), a + c, b) /\ Is(Minus(x, y), a - c, b)
BY PlusIs

(* Plus may be taken in any order, and with a Minus.                         *)
LEMMA PlusReorders ==
  ASSUME NEW x \in Fraction, NEW y \in Fraction, NEW z \in Fraction
  PROVE  /\ Plus(x, Plus(y, z)) = Plus(y, Plus(x, z))
         /\ Plus(Plus(x, y), z) = Plus(Plus(x, z), y)
         /\ Minus(Plus(x, y), z) = Plus(x, Minus(y, z))
<1>1. PICK a \in Int, c \in Int, e \in Int, b \in Positive :
        Alike(x, y, z, a, c, e, b)
  BY CommonDenominator
<1>2. Is(x, a, b) /\ Is(y, c, b) /\ Is(z, e, b)
  BY <1>1 DEF Alike
<1>3. /\ Is(Plus(y, z), c + e, b) /\ Is(Plus(x, z), a + e, b)
      /\ Is(Plus(x, y), a + c, b) /\ Is(Minus(y, z), c - e, b)
  BY <1>2, PlusNumerator
<1> DEFINE xy == Plus(x, y)
           yz == Plus(y, z)
           xz == Plus(x, z)
           dz == Minus(y, z)
<1> HIDE DEF xy, yz, xz, dz
<1>4. /\ Is(yz, c + e, b) /\ Is(xz, a + e, b)
      /\ Is(xy, a + c, b) /\ Is(dz, c - e, b)
  BY <1>3 DEF xy, yz, xz, dz
<1>5. /\ Plus(x, yz) = Frac(a + (c + e), b) /\ Plus(y, xz) = Frac(c + (a + e), b)
      /\ Plus(xy, z) = Frac((a + c) + e, b) /\ Plus(xz, y) = Frac((a + e) + c, b)
      /\ Plus(x, dz) = Frac(a + (c - e), b)
  BY <1>2, <1>4, PlusFrac
<1>6. Minus(xy, z) = Frac((a + c) - e, b)
  BY <1>2, <1>4, MinusFrac
<1>7. /\ a + (c + e) = c + (a + e) /\ (a + c) + e = (a + e) + c
      /\ (a + c) - e = a + (c - e)
  OBVIOUS
<1> QED
  BY <1>5, <1>6, <1>7 DEF xy, yz, xz, dz

(* g is the fold that Total(f, T) takes its value from.                      *)
IsTotal(f, T, g) ==
  g = [s \in SUBSET T |->
         IF s = {} THEN Whole(0) ELSE Plus(f[Pick(s)], g[s \ {Pick(s)}])]

LEMMA TotalIsFold ==
  ASSUME NEW f, NEW T
  PROVE  Total(f, T) = (CHOOSE g : IsTotal(f, T, g))[T]
BY DEF Total, FoldFunctionOnSet, MapThenFoldSet, IsTotal, Pick

(* Two such folds agree wherever both are defined.                           *)
LEMMA TotalUnique ==
  ASSUME NEW f, NEW T, NEW U, IsFiniteSet(T), NEW g, NEW h,
         IsTotal(f, T, g), IsTotal(f, U, h)
  PROVE  \A s \in SUBSET (T \cap U) : g[s] = h[s]
<1> DEFINE F == {s \in SUBSET (T \cap U) : g[s] # h[s]}
<1>1. SUFFICES ASSUME F # {} PROVE FALSE
  OBVIOUS
<1>2. Family(F, T)
  BY <1>1 DEF Family
<1>3. PICK s \in F : \A r \in F : r \subseteq s => r = s
  BY <1>2, SmallestSubset DEF HasSmallest
<1>4. s # {}
  BY <1>3 DEF IsTotal
<1>5. Pick(s) \in s
  BY <1>4 DEF Pick
<1>6. s \ {Pick(s)} \notin F
  BY <1>3, <1>5
<1>7. g[s \ {Pick(s)}] = h[s \ {Pick(s)}]
  BY <1>3, <1>6
<1>8. /\ g[s] = Plus(f[Pick(s)], g[s \ {Pick(s)}])
      /\ h[s] = Plus(f[Pick(s)], h[s \ {Pick(s)}])
  BY <1>3, <1>4 DEF IsTotal
<1> QED
  BY <1>3, <1>7, <1>8

(* A finite set has its fold: it extends those of its proper subsets.        *)
LEMMA TotalExists ==
  ASSUME NEW f, NEW T, IsFiniteSet(T)
  PROVE  \E g : IsTotal(f, T, g)
<1> DEFINE F == {s \in SUBSET T : ~ \E g : IsTotal(f, s, g)}
<1>1. SUFFICES ASSUME F # {} PROVE FALSE
  OBVIOUS
<1>2. Family(F, T)
  BY <1>1 DEF Family
<1>a. HasSmallest(F)
  BY <1>2, SmallestSubset
<1>3. PICK t \in F : \A r \in F : r \subseteq t => r = t
  BY <1>a DEF HasSmallest
<1> DEFINE G(s)   == CHOOSE g : IsTotal(f, s, g)
           val(s) == IF s = {} THEN Whole(0)
                     ELSE Plus(f[Pick(s)], G(s \ {Pick(s)})[s \ {Pick(s)}])
           k      == [s \in SUBSET t |-> val(s)]
<1>4. \A s \in SUBSET t : s # t => IsTotal(f, s, G(s))
  BY <1>3
<1>5. \A s \in SUBSET t : s # t => G(s)[s] = val(s)
  <2>1. SUFFICES ASSUME NEW s \in SUBSET t, s # t PROVE G(s)[s] = val(s)
    OBVIOUS
  <2>2. IsTotal(f, s, G(s)) /\ IsFiniteSet(s)
    BY <1>3, <1>4, <2>1, FS_Subset
  <2>3. CASE s = {}
    BY <2>2, <2>3 DEF IsTotal
  <2>4. CASE s # {}
    <3> DEFINE r == s \ {Pick(s)}
    <3>1. Pick(s) \in s
      BY <2>4 DEF Pick
    <3>2. r \in SUBSET t /\ r # t /\ r \in SUBSET s
      BY <2>1, <3>1
    <3>3. IsTotal(f, r, G(r)) /\ r \in SUBSET (s \cap r)
      BY <1>4, <3>2
    <3>4. G(s)[r] = G(r)[r]
      <4> HIDE DEF G, r
      <4> QED
        BY <2>2, <3>3, TotalUnique
    <3>5. G(s)[s] = Plus(f[Pick(s)], G(s)[r])
      <4> HIDE DEF G
      <4> QED
        BY <2>2, <2>4 DEF IsTotal
    <3> QED
      BY <2>4, <3>4, <3>5
  <2> QED
    BY <2>3, <2>4
<1>6. IsTotal(f, t, k)
  <2>1. ASSUME NEW s \in SUBSET t, s # {}
        PROVE  k[s \ {Pick(s)}] = G(s \ {Pick(s)})[s \ {Pick(s)}]
    <3>1. Pick(s) \in s
      BY <2>1 DEF Pick
    <3>2. s \ {Pick(s)} \in SUBSET t /\ s \ {Pick(s)} # t
      BY <3>1
    <3> HIDE DEF G, val
    <3> QED
      BY <1>5, <3>2
  <2>2. \A s \in SUBSET t :
          val(s) = IF s = {} THEN Whole(0)
                    ELSE Plus(f[Pick(s)], k[s \ {Pick(s)}])
    <3> HIDE DEF G, k
    <3> QED
      BY <2>1
  <2> HIDE DEF val
  <2> QED
    BY <2>2 DEF IsTotal
<1> QED
  BY <1>3, <1>6

LEMMA TotalFold ==
  ASSUME NEW f, NEW T, IsFiniteSet(T)
  PROVE  \E g : /\ IsTotal(f, T, g)
                /\ \A s \in SUBSET T : Total(f, s) = g[s]
<1> DEFINE G(s) == CHOOSE g : IsTotal(f, s, g)
<1>1. \A s \in SUBSET T : IsTotal(f, s, G(s)) /\ IsFiniteSet(s)
  BY TotalExists, FS_Subset
<1>2. \A s \in SUBSET T : Total(f, s) = G(s)[s]
  BY TotalIsFold
<1> HIDE DEF G
<1>3. IsTotal(f, T, G(T))
  BY <1>1
<1>4. \A s \in SUBSET T : G(s)[s] = G(T)[s]
  <2>1. SUFFICES ASSUME NEW s \in SUBSET T PROVE G(s)[s] = G(T)[s]
    OBVIOUS
  <2>2. IsTotal(f, s, G(s)) /\ IsFiniteSet(s) /\ s \in SUBSET (s \cap T)
    BY <1>1
  <2> QED
    BY <1>3, <2>2, TotalUnique
<1> QED
  BY <1>2, <1>3, <1>4

LEMMA TotalOfNothing == ASSUME NEW f PROVE Total(f, {}) = Whole(0)
<1>1. IsFiniteSet({}) /\ {} \in SUBSET {}
  BY FS_EmptySet
<1>2. PICK g : IsTotal(f, {}, g) /\ Total(f, {}) = g[{}]
  BY <1>1, TotalFold
<1> QED
  BY <1>2 DEF IsTotal

LEMMA TotalIsFraction ==
  ASSUME NEW T, IsFiniteSet(T), NEW f, \A x \in T : f[x] \in Fraction
  PROVE  Total(f, T) \in Fraction
<1>1. PICK g : /\ IsTotal(f, T, g)
               /\ \A s \in SUBSET T : Total(f, s) = g[s]
  BY TotalFold
<1> DEFINE F == {s \in SUBSET T : g[s] \notin Fraction}
<1>2. SUFFICES ASSUME F # {} PROVE FALSE
  BY <1>1
<1>3. Family(F, T)
  BY <1>2 DEF Family
<1>a. HasSmallest(F)
  BY <1>3, SmallestSubset
<1>4. PICK s \in F : \A r \in F : r \subseteq s => r = s
  BY <1>a DEF HasSmallest
<1>5. s # {}
  <2>1. Whole(0) \in Fraction
    BY DEF Whole, Fraction, Positive
  <2>2. g[{}] = Whole(0)
    BY <1>1 DEF IsTotal
  <2> QED
    BY <1>4, <2>1, <2>2
<1>6. Pick(s) \in s
  BY <1>5 DEF Pick
<1>7. g[s \ {Pick(s)}] \in Fraction /\ f[Pick(s)] \in Fraction /\ 0 \in Int
  BY <1>4, <1>6
<1>8. g[s] = Plus(f[Pick(s)], g[s \ {Pick(s)}])
  BY <1>1, <1>4, <1>5 DEF IsTotal
<1>9. g[s] \in Fraction
  BY <1>7, <1>8, OperationsTyped
<1> QED
  BY <1>4, <1>9

(* Whichever element is taken out first, the total is that of the others    *)
(* plus its own value.                                                       *)
LEMMA TotalTakesAny ==
  ASSUME NEW T, IsFiniteSet(T), NEW f, \A x \in T : f[x] \in Fraction, NEW y \in T
  PROVE  Total(f, T) = Plus(f[y], Total(f, T \ {y}))
<1>1. PICK g : /\ IsTotal(f, T, g)
               /\ \A s \in SUBSET T : Total(f, s) = g[s]
  BY TotalFold
<1>2. \A s \in SUBSET T : g[s] \in Fraction
  <2>1. SUFFICES ASSUME NEW s \in SUBSET T
                 PROVE  Total(f, s) \in Fraction
    BY <1>1
  <2>2. IsFiniteSet(s) /\ \A x \in s : f[x] \in Fraction
    BY FS_Subset
  <2> QED
    BY <2>2, TotalIsFraction
<1> DEFINE F == {s \in SUBSET T : \E x \in s :
                                    g[s] # Plus(f[x], g[s \ {x}])}
<1>3. SUFFICES ASSUME F # {} PROVE FALSE
  <2>1. /\ Total(f, T) = g[T]
        /\ Total(f, T \ {y}) = g[T \ {y}]
    BY <1>1
  <2>2. T \notin F => g[T] = Plus(f[y], g[T \ {y}])
    OBVIOUS
  <2> HIDE DEF F
  <2> QED
    BY <2>1, <2>2
<1>4. Family(F, T)
  BY <1>3 DEF Family
<1>a. HasSmallest(F)
  BY <1>4, SmallestSubset
<1>5. PICK s \in F : \A r \in F : r \subseteq s => r = s
  BY <1>a DEF HasSmallest
<1>6. PICK x \in s : g[s] # Plus(f[x], g[s \ {x}])
  BY <1>5
<1> DEFINE p == Pick(s)
<1>7. p \in s /\ s \in SUBSET T
  BY <1>5, <1>6 DEF Pick
<1>8. g[s] = Plus(f[p], g[s \ {p}])
  BY <1>1, <1>6, <1>7 DEF IsTotal
<1> HIDE DEF p
<1>9. x # p
  BY <1>6, <1>8
<1>10. s \ {p} \notin F /\ s \ {x} \notin F
  BY <1>5, <1>6, <1>7
<1>11. /\ g[s \ {p}] = Plus(f[x], g[(s \ {p}) \ {x}])
       /\ g[s \ {x}] = Plus(f[p], g[(s \ {x}) \ {p}])
  BY <1>6, <1>7, <1>9, <1>10
<1>12. (s \ {p}) \ {x} = (s \ {x}) \ {p}
  OBVIOUS
<1> DEFINE rest == g[(s \ {x}) \ {p}]
<1>13. f[x] \in Fraction /\ f[p] \in Fraction /\ rest \in Fraction
  BY <1>2, <1>6, <1>7
<1>14. g[s] = Plus(f[p], Plus(f[x], rest)) /\ g[s \ {x}] = Plus(f[p], rest)
  BY <1>8, <1>11, <1>12
<1> HIDE DEF rest
<1>15. g[s] = Plus(f[x], g[s \ {x}])
  BY <1>13, <1>14, PlusReorders
<1> QED
  BY <1>6, <1>15

(* The total depends on the values alone.                                    *)
LEMMA TotalCongruent ==
  ASSUME NEW T, IsFiniteSet(T), NEW f, NEW h,
         \A x \in T : f[x] \in Fraction /\ h[x] = f[x]
  PROVE  Total(f, T) = Total(h, T)
<1> DEFINE F == {s \in SUBSET T :
                   Total(f, s) # Total(h, s)}
<1>1. SUFFICES ASSUME F # {} PROVE FALSE
  OBVIOUS
<1>2. Family(F, T)
  BY <1>1 DEF Family
<1>a. HasSmallest(F)
  BY <1>2, SmallestSubset
<1>3. PICK s \in F : \A r \in F : r \subseteq s => r = s
  BY <1>a DEF HasSmallest
<1>4. s # {}
  BY <1>3, TotalOfNothing
<1>5. PICK y \in s : TRUE
  BY <1>4
<1>6. s \ {y} \notin F /\ IsFiniteSet(s)
  BY <1>3, <1>5, FS_Subset
<1>7. /\ \A x \in s : f[x] \in Fraction /\ h[x] \in Fraction
      /\ h[y] = f[y]
  BY <1>3, <1>5
<1>8. /\ Total(f, s) = Plus(f[y], Total(f, s \ {y}))
      /\ Total(h, s) = Plus(h[y], Total(h, s \ {y}))
  BY <1>5, <1>6, <1>7, TotalTakesAny
<1> QED
  BY <1>3, <1>6, <1>7, <1>8

(* A gain on one is a gain on the total.                                     *)
LEMMA TotalGains ==
  ASSUME NEW T, IsFiniteSet(T), NEW y \in T, NEW f, NEW h, NEW g \in Fraction,
         \A x \in T : f[x] \in Fraction /\ h[x] \in Fraction,
         \A x \in T \ {y} : h[x] = f[x], h[y] = Plus(f[y], g)
  PROVE  Total(h, T) = Plus(Total(f, T), g)
<1> DEFINE rest == Total(f, T \ {y})
<1>1. IsFiniteSet(T \ {y})
  BY FS_RemoveElement
<1>2. rest = Total(h, T \ {y})
  BY <1>1, TotalCongruent
<1>3. rest \in Fraction
  BY <1>1, TotalIsFraction
<1>4. Total(f, T) = Plus(f[y], rest)
  BY TotalTakesAny
<1>5. Total(h, T) = Plus(h[y], Total(h, T \ {y}))
  BY TotalTakesAny
<1> HIDE DEF rest
<1>6. Total(h, T) = Plus(Plus(f[y], g), rest)
  BY <1>2, <1>5
<1>7. Plus(Plus(f[y], g), rest) = Plus(Plus(f[y], rest), g)
  BY <1>3, PlusReorders
<1> QED
  BY <1>4, <1>6, <1>7

LEMMA NothingTwice == Plus(Whole(0), Whole(0)) = Whole(0)
<1>1. 1 \in Positive
  BY DEF Positive
<1>2. Is(Whole(0), 0, 1)
  BY <1>1, ZeroIs
<1>3. Plus(Whole(0), Whole(0)) = Frac(0 + 0, 1)
  BY <1>2, PlusFrac
<1>4. Gcd(0, 1) = 1
  BY <1>1, GcdDivides
<1>5. Frac(0, 1) = Whole(0)
  BY <1>4 DEF Frac, Whole
<1> QED
  BY <1>3, <1>5

LEMMA TotalOfZeros ==
  ASSUME NEW T, IsFiniteSet(T), NEW f, \A x \in T : f[x] = Whole(0)
  PROVE  Total(f, T) = Whole(0)
<1> DEFINE F == {s \in SUBSET T : Total(f, s) # Whole(0)}
<1>1. SUFFICES ASSUME F # {} PROVE FALSE
  OBVIOUS
<1>2. Family(F, T)
  BY <1>1 DEF Family
<1>a. HasSmallest(F)
  BY <1>2, SmallestSubset
<1>3. PICK s \in F : \A r \in F : r \subseteq s => r = s
  BY <1>a DEF HasSmallest
<1>4. s # {}
  BY <1>3, TotalOfNothing
<1>5. PICK y \in s : TRUE
  BY <1>4
<1>b. Whole(0) \in Fraction
  BY DEF Whole, Fraction, Positive
<1>6. s \ {y} \notin F /\ IsFiniteSet(s) /\ \A x \in s : f[x] \in Fraction
  BY <1>3, <1>5, <1>b, FS_Subset
<1>7. Total(f, s) = Plus(f[y], Total(f, s \ {y}))
  BY <1>5, <1>6, TotalTakesAny
<1>8. f[y] = Whole(0) /\ Total(f, s \ {y}) = Whole(0)
  BY <1>3, <1>5, <1>6
<1> QED
  BY <1>3, <1>7, <1>8, NothingTwice

-----------------------------------------------------------------------------
(* What the strategies earned lacks only the gain of the call under way.     *)
Pnls == [i \in Instruments |-> Known(book[i]).pnl]

MoneyFollows(y) ==
  IF y = Idle THEN Total(earned, Strategies) = Total(Pnls, Instruments)
  ELSE Total(Pnls, Instruments) = Plus(Total(earned, Strategies), y.gain)

MoneyInv ==
  /\ RowsInv
  /\ Undisturbed => \A y \in Stages : Current(y) => MoneyFollows(y)

LEMMA PnlsTyped ==
  ASSUME book \in [Instruments -> Held], NEW i \in Instruments
  PROVE  Pnls[i] \in Fraction /\ Pnls[i] = Known(book[i]).pnl
<1>1. book[i] \in Held
  OBVIOUS
<1>2. Known(book[i]) \in Position
  BY <1>1, HeldFacts
<1> QED
  BY <1>2 DEF Pnls, Position

LEMMA FillEarns ==
  ASSUME IsFiniteSet(Instruments), DeskTypes, NEW c \in Calls, NEW f \in Fills,
         OnFill(c, f), NEW g \in Fraction,
         g = Minus(Realised(Known(book[FillOf[f].inst]), FillOf[f].qty,
                            FillOf[f].price), Whole(FillOf[f].fees))
  PROVE  Total(Pnls', Instruments) = Plus(Total(Pnls, Instruments), g)
<1> DEFINE x == FillOf[f]
           i == x.inst
           p == Known(book[i])
           R == Realised(p, x.qty, x.price)
           W == Whole(x.fees)
<1>1. /\ book \in [Instruments -> Held] /\ book' \in [Instruments -> Held]
      /\ IsFill(x) /\ i \in Instruments /\ p \in Position
      /\ Known(book'[i]) = Applied(p, x)
      /\ \A j \in Instruments \ {i} : book'[j] = book[j]
  BY OnFillBooks DEF DeskTypes
<1>2. R \in Fraction /\ W \in Fraction /\ p.pnl \in Fraction
  <2>1. x.qty \in Int /\ x.price \in Int /\ x.fees \in Int
    BY <1>1 DEF IsFill
  <2> HIDE DEF x, p
  <2>2. Realised(p, x.qty, x.price) \in Fraction
    BY <1>1, <2>1, RealisedIsTyped
  <2>3. Whole(x.fees) \in Fraction /\ p.pnl \in Fraction
    BY <1>1, <2>1 DEF Whole, Fraction, Positive, Position
  <2> QED
    BY <2>2, <2>3
<1>3. Applied(p, x).pnl = Minus(Plus(p.pnl, R), W)
  <2> HIDE DEF x, p
  <2> QED
    BY <1>1, AppliedIsPosition
<1>4. g = Minus(R, W)
  OBVIOUS
<1> HIDE DEF x, p, R, W
<1>5. Minus(Plus(p.pnl, R), W) = Plus(p.pnl, g)
  BY <1>2, <1>4, PlusReorders
<1>6. /\ \A j \in Instruments : Pnls[j] \in Fraction /\ Pnls'[j] \in Fraction
      /\ \A j \in Instruments \ {i} : Pnls'[j] = Pnls[j]
      /\ Pnls'[i] = Plus(Pnls[i], g)
  <2>1. \A j \in Instruments : /\ Pnls[j] \in Fraction
                               /\ Pnls[j] = Known(book[j]).pnl
    BY <1>1, PnlsTyped
  <2>2. ASSUME NEW j \in Instruments
        PROVE  Pnls'[j] \in Fraction /\ Pnls'[j] = Known(book'[j]).pnl
    <3>1. Pnls'[j] = Known(book'[j]).pnl
      BY DEF Pnls
    <3>2. book'[j] \in Held
      BY <1>1
    <3>3. Known(book'[j]) \in Position
      BY <3>2, HeldFacts
    <3> QED
      BY <3>1, <3>3 DEF Position
  <2>3. Pnls'[i] = Plus(Pnls[i], g)
    BY <1>1, <1>3, <1>5, <2>1, <2>2 DEF p
  <2>4. \A j \in Instruments \ {i} : Pnls'[j] = Pnls[j]
    BY <1>1, <2>1, <2>2
  <2> QED
    BY <2>1, <2>2, <2>3, <2>4
<1> DEFINE now == Pnls
           then == Pnls'
<1> HIDE DEF now, then
<1>7. Total(then, Instruments) = Plus(Total(now, Instruments), g)
  BY <1>1, <1>6, TotalGains DEF now, then
<1> QED
  BY <1>7 DEF now, then

LEMMA MoneyAfter ==
  ASSUME call \in [Calls -> Stages], NEW c \in Calls, NEW y \in Stages,
         call' = [call EXCEPT ![c] = y],
         \A d \in Calls \ {c} : call[d] = Idle, MoneyFollows(y)'
  PROVE  \A z \in Stages : Current(z)' => MoneyFollows(z)'
BY CurrentMoves

LEMMA MoneyBegins ==
  ASSUME IsFiniteSet(Instruments), MoneyInv, NEW c \in Calls, NEW f \in Fills,
         OnFill(c, f), Undisturbed', Undisturbed
  PROVE  \A z \in Stages : Current(z)' => MoneyFollows(z)'
<1>0. DeskTypes /\ call \in [Calls -> Stages] /\ overlapped \in BOOLEAN
  BY DEF MoneyInv, RowsInv, DeskSound, DeskTypes
<1>1. PICK y \in Recording :
        /\ call' = [call EXCEPT ![c] = y]
        /\ y.gain = Minus(Realised(Known(book[FillOf[f].inst]), FillOf[f].qty,
                                   FillOf[f].price), Whole(FillOf[f].fees))
  BY <1>0, Begun
<1>2. /\ overlapped' = (overlapped \/ \E d \in Calls : call[d] # Idle)
      /\ earned' = earned
  BY DEF OnFill
<1>3. \A d \in Calls : call[d] = Idle
  BY <1>0, <1>2 DEF Undisturbed
<1>4. Total(earned, Strategies) = Total(Pnls, Instruments)
  BY <1>3, IdleFacts DEF MoneyInv, Current, Quiet, MoneyFollows
<1>5. y \in Stages /\ y # Idle /\ y.gain \in Fraction
  BY <1>1, StageMembers DEF Recording, Idle
<1>6. Total(Pnls', Instruments) = Plus(Total(Pnls, Instruments), y.gain)
  BY <1>0, <1>1, <1>5, FillEarns
<1>7. MoneyFollows(y)'
  <2>1. Total(Pnls', Instruments) = Plus(Total(earned', Strategies), y.gain)
    BY <1>2, <1>4, <1>6
  <2> QED
    BY <1>5, <2>1 DEF MoneyFollows, Total
<1> QED
  BY <1>0, <1>1, <1>3, <1>5, <1>7, MoneyAfter

(* The middle of a call moves no money.                                      *)
LEMMA MoneyWaits ==
  ASSUME MoneyInv, NEW c \in Calls, RecordFill(c) \/ ReadPosition(c), Undisturbed
  PROVE  \A z \in Stages : Current(z)' => MoneyFollows(z)'
<1>0. /\ DeskTypes /\ KnownEnough /\ call \in [Calls -> Stages] /\ Orderly
      /\ call[c] \in Stages
  BY DEF MoneyInv, RowsInv, DeskSound, DeskTypes
<1>1. \E y \in Stages : /\ call' = [call EXCEPT ![c] = y] /\ y # Idle
                        /\ y.gain = call[c].gain /\ call[c] # Idle
  <2>1. CASE RecordFill(c)
    <3>1. PICK y \in Reading : /\ call[c] \in Recording
                               /\ call' = [call EXCEPT ![c] = y]
                               /\ y.gain = call[c].gain
      BY <1>0, <2>1, Recorded
    <3>2. y \in Stages /\ y # Idle /\ call[c] # Idle
      BY <3>1, StageMembers DEF Reading, Recording, Idle
    <3> QED
      BY <3>1, <3>2
  <2>2. CASE ReadPosition(c)
    <3>1. PICK y \in Writing : /\ call[c] \in Reading
                               /\ call' = [call EXCEPT ![c] = y]
                               /\ y.gain = call[c].gain
      BY <1>0, <2>2, WasRead
    <3>2. y \in Stages /\ y # Idle /\ call[c] # Idle
      BY <3>1, StageMembers DEF Reading, Writing, Idle
    <3> QED
      BY <3>1, <3>2
  <2> QED
    BY <2>1, <2>2
<1>2. PICK y \in Stages : /\ call' = [call EXCEPT ![c] = y] /\ y # Idle
                          /\ y.gain = call[c].gain /\ call[c] # Idle
  BY <1>1
<1>3. Current(call[c]) /\ \A d \in Calls \ {c} : call[d] = Idle
  BY <1>0, <1>2, OthersAreIdle DEF Orderly
<1>4. MoneyFollows(call[c])
  BY <1>0, <1>3 DEF MoneyInv
<1>5. book' = book /\ earned' = earned
  BY DEF RecordFill, ReadPosition
<1>6. MoneyFollows(y)'
  BY <1>2, <1>4, <1>5 DEF MoneyFollows, Pnls, Total
<1> QED
  BY <1>0, <1>2, <1>3, <1>6, MoneyAfter

LEMMA MoneyCredits ==
  ASSUME IsFiniteSet(Strategies), MoneyInv, NEW c \in Calls, WritePosition(c),
         Undisturbed
  PROVE  \A z \in Stages : Current(z)' => MoneyFollows(z)'
<1> DEFINE x == call[c]
           s == FillOf[x.f].strategy
<1>0. /\ DeskTypes /\ KnownEnough /\ call \in [Calls -> Stages] /\ Orderly
      /\ earned \in [Strategies -> Fraction] /\ x \in Stages
  BY DEF MoneyInv, RowsInv, DeskSound, DeskTypes
<1>1. x \in Writing /\ call' = [call EXCEPT ![c] = Idle]
  BY <1>0, Written
<1>2. x # Idle /\ x.gain \in Fraction /\ x.f \in Fills
  BY <1>1 DEF Writing, Idle
<1>3. Current(x) /\ \A d \in Calls \ {c} : call[d] = Idle
  BY <1>0, <1>2, OthersAreIdle DEF Orderly
<1>4. Total(Pnls, Instruments) = Plus(Total(earned, Strategies), x.gain)
  BY <1>0, <1>2, <1>3 DEF MoneyInv, MoneyFollows
<1>5. book' = book /\ earned' = [earned EXCEPT ![s] = Plus(@, x.gain)]
  BY DEF WritePosition, Credit
<1>6. s \in Strategies
  BY <1>2, FillFacts DEF IsFill
<1> DEFINE g == x.gain
<1> HIDE DEF x, s, g
<1>7. g \in Fraction
  BY <1>2 DEF g
<1>8. /\ earned'[s] = Plus(earned[s], g)
      /\ \A t \in Strategies \ {s} : earned'[t] = earned[t]
  BY <1>0, <1>5, <1>6 DEF g
<1>9. \A t \in Strategies : earned[t] \in Fraction /\ earned'[t] \in Fraction
  <2>1. earned[s] \in Fraction /\ 0 \in Int
    BY <1>0, <1>6
  <2>2. Plus(earned[s], g) \in Fraction
    BY <1>7, <2>1, OperationsTyped
  <2> QED
    BY <1>0, <1>8, <2>2
<1>10. Total(earned', Strategies) = Plus(Total(earned, Strategies), g)
  <2> DEFINE now == earned
             then == earned'
  <2>1. /\ \A t \in Strategies : now[t] \in Fraction /\ then[t] \in Fraction
        /\ \A t \in Strategies \ {s} : then[t] = now[t]
        /\ then[s] = Plus(now[s], g)
    BY <1>8, <1>9
  <2> HIDE DEF now, then
  <2>2. Total(then, Strategies) = Plus(Total(now, Strategies), g)
    BY <1>6, <1>7, <2>1, TotalGains
  <2> QED
    BY <2>2 DEF now, then
<1>11. MoneyFollows(Idle)'
  <2>1. Pnls' = Pnls
    BY <1>5 DEF Pnls
  <2>2. Total(earned', Strategies) = Total(Pnls', Instruments)
    BY <1>4, <1>10, <2>1 DEF g
  <2> QED
    BY <2>2 DEF MoneyFollows, Total
<1> QED
  BY <1>0, <1>1, <1>3, <1>11, IdleFacts, MoneyAfter

LEMMA NothingYet ==
  ASSUME IsFiniteSet(Instruments), IsFiniteSet(Strategies),
         book = [i \in Instruments |-> Absent],
         earned = [s \in Strategies |-> Whole(0)]
  PROVE  Total(earned, Strategies) = Total(Pnls, Instruments)
<1>1. Flat.pnl = Whole(0)
  BY DEF Flat
<1>2. \A i \in Instruments : Pnls[i] = Whole(0)
  BY <1>1, AbsentIsFlat DEF Pnls
<1>3. \A s \in Strategies : earned[s] = Whole(0)
  OBVIOUS
<1> QED
  BY <1>2, <1>3, TotalOfZeros

LEMMA MoneyInvNext ==
  ASSUME IsFiniteSet(Instruments), IsFiniteSet(Strategies)
  PROVE  MoneyInv /\ BookStep => MoneyInv'
<1> SUFFICES ASSUME MoneyInv, BookStep PROVE MoneyInv'
  OBVIOUS
<1>1. RowsInv'
  BY RowsInvNext DEF MoneyInv
<1>2. ASSUME Undisturbed'
      PROVE  \A z \in Stages : Current(z)' => MoneyFollows(z)'
  <2>0. Undisturbed /\ DeskTypes /\ RowsInv
    BY <1>2, UndisturbedBefore DEF MoneyInv, RowsInv, DeskSound
  <2>1. ASSUME NEW c \in Calls, NEW f \in Fills, OnFill(c, f)
        PROVE  \A z \in Stages : Current(z)' => MoneyFollows(z)'
    BY <1>2, <2>0, <2>1, MoneyBegins
  <2>2. ASSUME NEW c \in Calls, JournalStep(c)
        PROVE  \A z \in Stages : Current(z)' => MoneyFollows(z)'
    <3>1. ~DbFails(c)
      BY <1>2, <2>0 DEF DbFails, Undisturbed, DeskTypes
    <3>2. ~RefuseFill(c) /\ ~RefusePosition(c)
      BY <2>0, NothingRefused
    <3>3. RecordFill(c) \/ ReadPosition(c) \/ WritePosition(c)
      BY <2>2, <3>1, <3>2 DEF JournalStep
    <3>4. CASE RecordFill(c) \/ ReadPosition(c)
      BY <2>0, <3>4, MoneyWaits
    <3>5. CASE WritePosition(c)
      BY <2>0, <3>5, MoneyCredits
    <3> QED
      BY <3>3, <3>4, <3>5
  <2>3. ASSUME NEW i \in Instruments, NEW price \in Marks, OnTick(i, price)
        PROVE  \A z \in Stages : Current(z)' => MoneyFollows(z)'
    <3>1. call' = call /\ earned' = earned
      BY <2>3 DEF OnTick
    <3>2. \A j \in Instruments : Known(book'[j]).pnl = Known(book[j]).pnl
      BY <2>0, <2>3, OnTickBooks DEF DeskTypes
    <3>3. Pnls' = Pnls
      BY <3>2 DEF Pnls
    <3> QED
      BY <2>0, <3>1, <3>3 DEF MoneyInv, Current, Quiet, MoneyFollows, Total
  <2>4. CASE BookRestart
    <3>1. /\ book' = [i \in Instruments |-> Absent]
          /\ earned' = [s \in Strategies |-> Whole(0)]
          /\ call' = [c \in Calls |-> Idle]
      BY <2>4 DEF BookRestart
    <3>2. \A z \in Stages : Current(z)' => z = Idle
      BY <3>1 DEF Current
    <3>3. Total(earned', Strategies) = Total(Pnls', Instruments)
      <4>1. \A i \in Instruments : Pnls'[i] = Whole(0)
        BY <3>1, AbsentIsFlat DEF Pnls, Flat
      <4>2. \A s \in Strategies : earned'[s] = Whole(0)
        BY <3>1
      <4> DEFINE then == Pnls'
      <4> HIDE DEF then
      <4>3. Total(then, Instruments) = Whole(0)
        BY <4>1, TotalOfZeros DEF then
      <4>4. Total(earned', Strategies) = Whole(0)
        BY <4>2, TotalOfZeros
      <4> QED
        BY <4>3, <4>4 DEF then
    <3>4. MoneyFollows(Idle)'
      BY <3>3 DEF MoneyFollows, Total
    <3> QED
      BY <3>2, <3>4
  <2>5. CASE UNCHANGED bookVars
    <3>1. call' = call /\ earned' = earned /\ book' = book
      BY <2>5 DEF bookVars
    <3> QED
      BY <2>0, <3>1 DEF MoneyInv, Current, Quiet, MoneyFollows, Pnls, Total
  <2> QED
    BY <2>1, <2>2, <2>3, <2>4, <2>5 DEF BookStep
<1> QED
  BY <1>1, <1>2 DEF MoneyInv

(* Between calls the strategies have earned what the positions realised,     *)
(* although on_fill books one before and the other after it awaited two      *)
(* transactions, and a restart forgets both.                                 *)
THEOREM PnlAlwaysAttributed ==
  ASSUME IsFiniteSet(Instruments), IsFiniteSet(Strategies)
  PROVE  Spec => []PnlAttributed
<1>1. Init => MoneyInv
  <2> SUFFICES ASSUME Init PROVE MoneyInv
    OBVIOUS
  <2>1. /\ book = [i \in Instruments |-> Absent]
        /\ earned = [s \in Strategies |-> Whole(0)]
        /\ call = [c \in Calls |-> Idle] /\ RowsInv
    BY RowsInvInit DEF Init, BookInit
  <2>2. MoneyFollows(Idle)
    BY <2>1, NothingYet DEF MoneyFollows
  <2> QED
    BY <2>1, <2>2 DEF MoneyInv, Current
<1>2. MoneyInv /\ [Next]_deskVars => MoneyInv'
  BY MoneyInvNext, StepsOfTheBook
<1>3. MoneyInv => PnlAttributed
  <2> SUFFICES ASSUME MoneyInv, Quiet, Undisturbed
               PROVE  Total(earned, Strategies) = Total(Pnls, Instruments)
    BY DEF PnlAttributed, Pnls
  <2> QED
    BY IdleFacts DEF MoneyInv, Current, MoneyFollows
<1> QED
  BY <1>1, <1>2, <1>3, PTL DEF Spec
=============================================================================
