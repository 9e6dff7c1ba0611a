------------------------------- MODULE Fractions -------------------------------
(* Exact prices: an average price is a quotient of integers, where the code  *)
(* uses floats.  A fraction is <<numerator, positive denominator>> in lowest *)
(* terms.                                                                    *)
EXTENDS Integers, FiniteSetsExt

Gcd(a, b) == Max({g \in 1 .. b : a % g = 0 /\ b % g = 0})

Frac(n, d) ==
  LET m == IF d < 0 THEN -n ELSE n
      e == IF d < 0 THEN -d ELSE d
      g == Gcd(m, e)
  IN  <<m \div g, e \div g>>

Whole(n)      == <<n, 1>>
Plus(x, y)    == Frac(x[1] * y[2] + y[1] * x[2], x[2] * y[2])
Minus(x, y)   == Frac(x[1] * y[2] - y[1] * x[2], x[2] * y[2])
Scaled(x, n)   == Frac(x[1] * n, x[2])
Over(x, n)    == Frac(x[1], x[2] * n)
Greater(x, y) == x[1] * y[2] > y[1] * x[2]
Distance(x, y) == IF Greater(x, y) THEN Minus(x, y) ELSE Minus(y, x)
=============================================================================
