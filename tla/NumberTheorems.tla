---------------------------- MODULE NumberTheorems ----------------------------
(* What the sums and maxima of the community modules are, proved from their  *)
(* definitions, and what the exact prices of Fractions are.  A fact about    *)
(* all finite sets, or about all numbers, is proved by a smallest            *)
(* counterexample.                                                           *)
EXTENDS Fractions, Sequences, Functions, FiniteSetsExt, FiniteSetTheorems, TLAPS

(* Division with a rest.                                                     *)
Positive == Nat \ {0}

LEMMA DivMod ==
  ASSUME NEW a \in Int, NEW b \in Int, b > 0
  PROVE  a = b * (a \div b) + (a % b)
BY Z3

LEMMA Division ==
  ASSUME NEW a \in Int, NEW b \in Positive
  PROVE  /\ a \div b \in Int /\ a % b \in Nat /\ a % b < b
         /\ a = b * (a \div b) + (a % b)
<1>1. b \in Int /\ b > 0
  BY DEF Positive
<1>2. a = b * (a \div b) + (a % b)
  BY <1>1, DivMod
<1>3. a \div b \in Int /\ a % b \in Nat /\ a % b < b
  BY <1>1, SMT
<1> QED
  BY <1>2, <1>3

(* A non-empty family of subsets of a finite set has a smallest member.      *)
Family(F, S)   == F \subseteq SUBSET S /\ F # {} /\ IsFiniteSet(S)
HasSmallest(F) == \E T \in F : \A U \in F : U \subseteq T => U = T

LEMMA SmallestSubset == \A S, F : Family(F, S) => HasSmallest(F)
<1>1. SUFFICES ASSUME NEW S, NEW F, Family(F, S) PROVE HasSmallest(F)
  OBVIOUS
<1>2. IsWellFoundedOn(StrictSubsetOrdering(S), SUBSET S)
  BY <1>1, FS_StrictSubsetOrderingWellFounded, FS_FiniteSubsetsOfFinite
  DEF Family
<1>3. PICK T \in F : \A U \in F : ~(<<U, T>> \in StrictSubsetOrdering(S))
  BY <1>1, <1>2, WFMin DEF Family
<1> QED
  BY <1>1, <1>3 DEF StrictSubsetOrdering, Family, HasSmallest

(* A non-empty set of numbers has a least one, and if bounded a greatest.    *)
LEMMA SmallestNumber ==
  ASSUME NEW F \in SUBSET Nat, F # {}
  PROVE  \E n \in F : \A m \in F : n <= m
<1>1. PICK k \in F : TRUE
  OBVIOUS
<1> DEFINE H == {T \in SUBSET (0 .. k) : \E n \in F : T = 0 .. n}
<1>2. IsFiniteSet(0 .. k)
  BY FS_Interval
<1>3. 0 .. k \in H
  BY <1>1
<1>a. Family(H, 0 .. k)
  BY <1>2, <1>3 DEF Family
<1>b. HasSmallest(H)
  BY <1>a, SmallestSubset
<1>4. PICK T \in H : \A U \in H : U \subseteq T => U = T
  BY <1>b DEF HasSmallest
<1>5. PICK n \in F : T = 0 .. n
  BY <1>4
<1>6. ASSUME NEW m \in F, m < n PROVE FALSE
  <2>1. m \in Nat /\ n \in Nat /\ k \in Nat
    OBVIOUS
  <2>2. 0 .. m \subseteq 0 .. n /\ n \in 0 .. n /\ n \notin 0 .. m
    BY <1>6, <2>1
  <2>3. 0 .. m \in H
    BY <1>4, <1>5, <1>6, <2>2
  <2> QED
    BY <1>4, <1>5, <2>2, <2>3
<1> QED
  BY <1>6

LEMMA GreatestNumber ==
  ASSUME NEW F \in SUBSET Int, F # {}, NEW b \in Int, \A n \in F : n <= b
  PROVE  \E n \in F : \A m \in F : m <= n
<1> DEFINE G == {k \in Nat : b - k \in F}
<1>1. PICK n \in F : TRUE
  OBVIOUS
<1>2. b - n \in G
  BY <1>1
<1>3. PICK k \in G : \A j \in G : k <= j
  BY <1>2, SmallestNumber
<1>4. ASSUME NEW m \in F PROVE m <= b - k
  <2>1. b - m \in G /\ k \in Int /\ m \in Int
    BY <1>4
  <2>2. k <= b - m
    BY <1>3, <2>1
  <2> HIDE DEF G
  <2> QED
    BY <2>1, <2>2
<1> QED
  BY <1>3, <1>4

LEMMA GreatestMember ==
  ASSUME NEW S \in SUBSET Int, IsFiniteSet(S), S # {}
  PROVE  /\ Max(S) \in S /\ \A x \in S : x <= Max(S)
<1> DEFINE F == {T \in SUBSET S : T # {} /\ ~ \E n \in T : \A m \in T : m <= n}
<1>1. F = {}
  <2>1. SUFFICES ASSUME F # {} PROVE FALSE
    OBVIOUS
  <2>a. Family(F, S)
    BY <2>1 DEF Family
  <2>b. HasSmallest(F)
    BY <2>a, SmallestSubset
  <2>2. PICK T \in F : \A U \in F : U \subseteq T => U = T
    BY <2>b DEF HasSmallest
  <2>3. PICK x \in T : TRUE
    BY <2>2
  <2>4. T \ {x} \notin F
    BY <2>2, <2>3
  <2>5. CASE T \ {x} = {}
    BY <2>2, <2>3, <2>5
  <2>6. CASE T \ {x} # {}
    <3>1. PICK n \in T \ {x} : \A m \in T \ {x} : m <= n
      BY <2>2, <2>4, <2>6
    <3>2. x \in Int /\ n \in Int
      BY <2>2, <2>3, <3>1
    <3>3. CASE x <= n
      BY <2>2, <2>3, <3>1, <3>3
    <3>4. CASE n < x
      <4>1. \A m \in T : m <= x
        BY <2>2, <3>1, <3>2, <3>4
      <4> QED
        BY <2>2, <2>3, <4>1
    <3> QED
      BY <3>2, <3>3, <3>4
  <2> QED
    BY <2>5, <2>6
<1>2. \E n \in S : \A m \in S : n >= m
  BY <1>1
<1> QED
  BY <1>2 DEF Max

(* Finitely many arguments have finitely many values.                        *)
LEMMA ImageFinite ==
  ASSUME NEW S, IsFiniteSet(S), NEW f
  PROVE  IsFiniteSet({f[x] : x \in S})
<1> DEFINE V == {f[x] : x \in S}
           g == [x \in S |-> f[x]]
<1>1. g \in Surjection(S, V)
  BY DEF Surjection
<1> QED
  BY <1>1, FS_Surjection

LEMMA ValuesFinite ==
  ASSUME NEW n \in Nat, NEW f
  PROVE  IsFiniteSet({f[i] : i \in 1 .. n})
<1>1. IsFiniteSet(1 .. n)
  BY FS_Interval
<1> QED
  BY <1>1, ImageFinite

LEMMA LeastMember ==
  ASSUME NEW S \in SUBSET Int, IsFiniteSet(S), S # {}
  PROVE  /\ Min(S) \in S /\ \A x \in S : Min(S) <= x
<1> DEFINE g == [x \in S |-> -x]
           N == {g[x] : x \in S}
<1>1. IsFiniteSet(N) /\ N \in SUBSET Int /\ N # {}
  <2>1. N \in SUBSET Int /\ N # {}
    <3>1. \A x \in S : g[x] \in Int
      OBVIOUS
    <3> HIDE DEF g
    <3> QED
      BY <3>1
  <2> HIDE DEF g
  <2>2. IsFiniteSet(N)
    BY ImageFinite
  <2> QED
    BY <2>1, <2>2
<1>2. Max(N) \in N /\ \A y \in N : y <= Max(N)
  BY <1>1, GreatestMember
<1>3. PICK x \in S : Max(N) = g[x]
  BY <1>2
<1>4. \A y \in S : g[y] <= g[x]
  BY <1>2, <1>3
<1>5. \A y \in S : x <= y
  BY <1>4
<1> QED
  BY <1>5 DEF Min

(* A member no other exceeds is the greatest, and so for the least.          *)
LEMMA OneGreatest ==
  ASSUME NEW S \in SUBSET Int, NEW m \in S, \A x \in S : x <= m
  PROVE  Max(S) = m
<1>1. Max(S) \in S /\ \A y \in S : Max(S) >= y
  <2>1. \E x \in S : \A y \in S : x >= y
    OBVIOUS
  <2> QED
    BY <2>1 DEF Max
<1> DEFINE x == Max(S)
<1>2. x \in Int /\ m \in Int /\ x >= m /\ x <= m
  BY <1>1
<1> HIDE DEF x
<1>3. x = m
  BY <1>2
<1> QED
  BY <1>3 DEF x

LEMMA OneLeast ==
  ASSUME NEW S \in SUBSET Int, NEW m \in S, \A x \in S : m <= x
  PROVE  Min(S) = m
<1>1. Min(S) \in S /\ \A y \in S : Min(S) <= y
  <2>1. \E x \in S : \A y \in S : x <= y
    OBVIOUS
  <2> QED
    BY <2>1 DEF Min
<1> DEFINE x == Min(S)
<1>2. x \in Int /\ m \in Int /\ x >= m /\ x <= m
  BY <1>1
<1> HIDE DEF x
<1>3. x = m
  BY <1>2
<1> QED
  BY <1>3 DEF x

LEMMA GreaterOfTwo ==
  ASSUME NEW x \in Int, NEW y \in Int
  PROVE  /\ Max({x, y}) \in Int /\ x <= Max({x, y}) /\ y <= Max({x, y})
         /\ Max({x, y}) \in {x, y}
<1>1. IsFiniteSet({x})
  BY FS_Singleton
<1>2. IsFiniteSet({x} \cup {y})
  BY <1>1, FS_AddElement
<1>3. {x} \cup {y} = {x, y}
  OBVIOUS
<1>4. IsFiniteSet({x, y}) /\ {x, y} \in SUBSET Int /\ {x, y} # {}
  BY <1>2, <1>3
<1>5. Max({x, y}) \in {x, y} /\ \A z \in {x, y} : z <= Max({x, y})
  BY <1>4, GreatestMember
<1> QED
  BY <1>5

-----------------------------------------------------------------------------
Pick(s) == CHOOSE x \in s : TRUE

(* g is the fold that SumFunctionOnSet(f, T) takes its value from.           *)
IsSum(f, T, g) ==
  g = [s \in SUBSET T |->
         IF s = {} THEN 0 ELSE f[Pick(s)] + g[s \ {Pick(s)}]]

LEMMA SumIsFold ==
  ASSUME NEW f, NEW T
  PROVE  SumFunctionOnSet(f, T) = (CHOOSE g : IsSum(f, T, g))[T]
BY DEF SumFunctionOnSet, FoldFunctionOnSet, MapThenFoldSet, IsSum, Pick

(* Two such folds agree wherever both are defined.                           *)
LEMMA SumUnique ==
  ASSUME NEW f, NEW T, NEW U, IsFiniteSet(T), NEW g, NEW h,
         IsSum(f, T, g), IsSum(f, U, h)
  PROVE  \A s \in SUBSET (T \cap U) : g[s] = h[s]
<1> DEFINE F == {s \in SUBSET (T \cap U) : g[s] # h[s]}
<1>1. SUFFICES ASSUME F # {} PROVE FALSE
  OBVIOUS
<1>2. Family(F, T)
  BY <1>1 DEF Family
<1>3. PICK s \in F : \A r \in F : r \subseteq s => r = s
  BY <1>2, SmallestSubset DEF HasSmallest
<1>4. s # {}
  BY <1>3 DEF IsSum
<1>5. Pick(s) \in s
  BY <1>4 DEF Pick
<1>6. s \ {Pick(s)} \notin F
  BY <1>3, <1>5
<1>7. g[s \ {Pick(s)}] = h[s \ {Pick(s)}]
  BY <1>3, <1>6
<1>8. /\ g[s] = f[Pick(s)] + g[s \ {Pick(s)}]
      /\ h[s] = f[Pick(s)] + h[s \ {Pick(s)}]
  BY <1>3, <1>4 DEF IsSum
<1> QED
  BY <1>3, <1>7, <1>8

(* A finite set has its fold: it extends those of its proper subsets.        *)
LEMMA SumExists ==
  ASSUME NEW f, NEW T, IsFiniteSet(T)
  PROVE  \E g : IsSum(f, T, g)
<1> DEFINE F == {s \in SUBSET T : ~ \E g : IsSum(f, s, g)}
<1>1. SUFFICES ASSUME F # {} PROVE FALSE
  OBVIOUS
<1>2. Family(F, T)
  BY <1>1 DEF Family
<1>3. PICK t \in F : \A r \in F : r \subseteq t => r = t
  BY <1>2, SmallestSubset DEF HasSmallest
<1> DEFINE G(s)   == CHOOSE g : IsSum(f, s, g)
           val(s) == IF s = {} THEN 0
                     ELSE f[Pick(s)] + G(s \ {Pick(s)})[s \ {Pick(s)}]
           k      == [s \in SUBSET t |-> val(s)]
<1>4. \A s \in SUBSET t : s # t => IsSum(f, s, G(s))
  BY <1>3
<1>5. \A s \in SUBSET t : s # t => G(s)[s] = val(s)
  <2>1. SUFFICES ASSUME NEW s \in SUBSET t, s # t PROVE G(s)[s] = val(s)
    OBVIOUS
  <2>2. IsSum(f, s, G(s)) /\ IsFiniteSet(s)
    BY <1>3, <1>4, <2>1, FS_Subset
  <2>3. CASE s = {}
    BY <2>2, <2>3 DEF IsSum
  <2>4. CASE s # {}
    <3> DEFINE r == s \ {Pick(s)}
    <3>1. Pick(s) \in s
      BY <2>4 DEF Pick
    <3>2. r \in SUBSET t /\ r # t /\ r \in SUBSET s
      BY <2>1, <3>1
    <3>3. IsSum(f, r, G(r)) /\ r \in SUBSET (s \cap r)
      BY <1>4, <3>2
    <3>4. G(s)[r] = G(r)[r]
      <4> HIDE DEF G, r
      <4> QED
        BY <2>2, <3>3, SumUnique
    <3>5. G(s)[s] = f[Pick(s)] + G(s)[r]
      <4> HIDE DEF G
      <4> QED
        BY <2>2, <2>4 DEF IsSum
    <3> QED
      BY <2>4, <3>4, <3>5
  <2> QED
    BY <2>3, <2>4
<1>6. IsSum(f, t, k)
  <2>1. ASSUME NEW s \in SUBSET t, s # {}
        PROVE  k[s \ {Pick(s)}] = G(s \ {Pick(s)})[s \ {Pick(s)}]
    <3>1. Pick(s) \in s
      BY <2>1 DEF Pick
    <3>2. s \ {Pick(s)} \in SUBSET t /\ s \ {Pick(s)} # t
      BY <3>1
    <3> HIDE DEF G, val
    <3> QED
      BY <1>5, <3>2
  <2>2. \A s \in SUBSET t :
          val(s) = IF s = {} THEN 0 ELSE f[Pick(s)] + k[s \ {Pick(s)}]
    <3> HIDE DEF G, k
    <3> QED
      BY <2>1
  <2> HIDE DEF val
  <2> QED
    BY <2>2 DEF IsSum
<1> QED
  BY <1>3, <1>6

LEMMA SumFold ==
  ASSUME NEW f, NEW T, IsFiniteSet(T)
  PROVE  \E g : /\ IsSum(f, T, g)
                /\ \A s \in SUBSET T : SumFunctionOnSet(f, s) = g[s]
<1> DEFINE G(s) == CHOOSE g : IsSum(f, s, g)
<1>1. \A s \in SUBSET T : IsSum(f, s, G(s)) /\ IsFiniteSet(s)
  BY SumExists, FS_Subset
<1>2. \A s \in SUBSET T : SumFunctionOnSet(f, s) = G(s)[s]
  BY SumIsFold
<1> HIDE DEF G
<1>3. IsSum(f, T, G(T))
  BY <1>1
<1>4. \A s \in SUBSET T : G(s)[s] = G(T)[s]
  <2>1. SUFFICES ASSUME NEW s \in SUBSET T PROVE G(s)[s] = G(T)[s]
    OBVIOUS
  <2>2. IsSum(f, s, G(s)) /\ IsFiniteSet(s) /\ s \in SUBSET (s \cap T)
    BY <1>1
  <2> QED
    BY <1>3, <2>2, SumUnique
<1> QED
  BY <1>2, <1>3, <1>4

LEMMA SumOfNothing == ASSUME NEW f PROVE SumFunctionOnSet(f, {}) = 0
<1>1. IsFiniteSet({}) /\ {} \in SUBSET {}
  BY FS_EmptySet
<1>2. PICK g : IsSum(f, {}, g) /\ SumFunctionOnSet(f, {}) = g[{}]
  BY <1>1, SumFold
<1> QED
  BY <1>2 DEF IsSum

LEMMA SumIsInteger ==
  ASSUME NEW T, IsFiniteSet(T), NEW f, \A x \in T : f[x] \in Int
  PROVE  SumFunctionOnSet(f, T) \in Int
<1>1. PICK g : /\ IsSum(f, T, g)
               /\ \A s \in SUBSET T : SumFunctionOnSet(f, s) = g[s]
  BY SumFold
<1> DEFINE F == {s \in SUBSET T : g[s] \notin Int}
<1>2. SUFFICES ASSUME F # {} PROVE FALSE
  BY <1>1
<1>3. Family(F, T)
  BY <1>2 DEF Family
<1>a. HasSmallest(F)
  BY <1>3, SmallestSubset
<1>4. PICK s \in F : \A r \in F : r \subseteq s => r = s
  BY <1>a DEF HasSmallest
<1>5. s # {}
  BY <1>1, <1>4 DEF IsSum
<1>6. Pick(s) \in s
  BY <1>5 DEF Pick
<1>7. g[s \ {Pick(s)}] \in Int
  BY <1>4, <1>6
<1>8. g[s] = f[Pick(s)] + g[s \ {Pick(s)}]
  BY <1>1, <1>4, <1>5 DEF IsSum
<1> QED
  BY <1>4, <1>6, <1>7, <1>8

(* Whichever element is taken out first, the sum is that of the others plus  *)
(* its own value.                                                            *)
LEMMA SumTakesAny ==
  ASSUME NEW T, IsFiniteSet(T), NEW f, \A x \in T : f[x] \in Int, NEW y \in T
  PROVE  SumFunctionOnSet(f, T) = f[y] + SumFunctionOnSet(f, T \ {y})
<1>1. PICK g : /\ IsSum(f, T, g)
               /\ \A s \in SUBSET T : SumFunctionOnSet(f, s) = g[s]
  BY SumFold
<1>2. \A s \in SUBSET T : g[s] \in Int
  <2>1. SUFFICES ASSUME NEW s \in SUBSET T
                 PROVE  SumFunctionOnSet(f, s) \in Int
    BY <1>1
  <2>2. IsFiniteSet(s) /\ \A x \in s : f[x] \in Int
    BY FS_Subset
  <2> QED
    BY <2>2, SumIsInteger
<1> DEFINE F == {s \in SUBSET T : \E x \in s : g[s] # f[x] + g[s \ {x}]}
<1>3. SUFFICES ASSUME F # {} PROVE FALSE
  <2>1. /\ SumFunctionOnSet(f, T) = g[T]
        /\ SumFunctionOnSet(f, T \ {y}) = g[T \ {y}]
    BY <1>1
  <2>2. T \notin F => g[T] = f[y] + g[T \ {y}]
    OBVIOUS
  <2> HIDE DEF F
  <2> QED
    BY <2>1, <2>2
<1>4. Family(F, T)
  BY <1>3 DEF Family
<1>a. HasSmallest(F)
  BY <1>4, SmallestSubset
<1>5. PICK s \in F : \A r \in F : r \subseteq s => r = s
  BY <1>a DEF HasSmallest
<1>6. PICK x \in s : g[s] # f[x] + g[s \ {x}]
  BY <1>5
<1> DEFINE p == Pick(s)
<1>7. p \in s /\ s \in SUBSET T
  BY <1>5, <1>6 DEF Pick
<1>8. g[s] = f[p] + g[s \ {p}]
  BY <1>1, <1>6, <1>7 DEF IsSum
<1> HIDE DEF p
<1>9. x # p
  BY <1>6, <1>8
<1>10. s \ {p} \notin F /\ s \ {x} \notin F
  BY <1>5, <1>6, <1>7
<1>11. /\ g[s \ {p}] = f[x] + g[(s \ {p}) \ {x}]
       /\ g[s \ {x}] = f[p] + g[(s \ {x}) \ {p}]
  BY <1>6, <1>7, <1>9, <1>10
<1>12. (s \ {p}) \ {x} = (s \ {x}) \ {p}
  OBVIOUS
<1> DEFINE rest == g[(s \ {x}) \ {p}]
<1>13. f[x] \in Int /\ f[p] \in Int /\ rest \in Int
  BY <1>2, <1>6, <1>7
<1>14. g[s] = f[p] + (f[x] + rest) /\ g[s \ {x}] = f[p] + rest
  BY <1>8, <1>11, <1>12
<1> HIDE DEF rest
<1>15. g[s] = f[x] + g[s \ {x}]
  BY <1>13, <1>14
<1> QED
  BY <1>6, <1>15

LEMMA SumAdds ==
  ASSUME NEW T, IsFiniteSet(T), NEW y, y \notin T, NEW f,
         \A x \in T \cup {y} : f[x] \in Int
  PROVE  SumFunctionOnSet(f, T \cup {y}) = SumFunctionOnSet(f, T) + f[y]
<1>1. IsFiniteSet(T \cup {y}) /\ (T \cup {y}) \ {y} = T
  BY FS_AddElement
<1>2. SumFunctionOnSet(f, T) \in Int
  BY SumIsInteger
<1>3. SumFunctionOnSet(f, T \cup {y}) = f[y] + SumFunctionOnSet(f, T)
  BY <1>1, SumTakesAny
<1> QED
  BY <1>2, <1>3

(* The sum depends on the values alone.                                      *)
LEMMA SumCongruent ==
  ASSUME NEW T, IsFiniteSet(T), NEW f, NEW h,
         \A x \in T : f[x] \in Int /\ h[x] = f[x]
  PROVE  SumFunctionOnSet(f, T) = SumFunctionOnSet(h, T)
<1> DEFINE F == {s \in SUBSET T :
                   SumFunctionOnSet(f, s) # SumFunctionOnSet(h, s)}
<1>1. SUFFICES ASSUME F # {} PROVE FALSE
  OBVIOUS
<1>2. Family(F, T)
  BY <1>1 DEF Family
<1>a. HasSmallest(F)
  BY <1>2, SmallestSubset
<1>3. PICK s \in F : \A r \in F : r \subseteq s => r = s
  BY <1>a DEF HasSmallest
<1>4. s # {}
  BY <1>3, SumOfNothing
<1>5. PICK y \in s : TRUE
  BY <1>4
<1>6. s \ {y} \notin F /\ IsFiniteSet(s)
  BY <1>3, <1>5, FS_Subset
<1>7. /\ \A x \in s : f[x] \in Int /\ h[x] \in Int
      /\ h[y] = f[y]
  BY <1>3, <1>5
<1>8. /\ SumFunctionOnSet(f, s) = f[y] + SumFunctionOnSet(f, s \ {y})
      /\ SumFunctionOnSet(h, s) = h[y] + SumFunctionOnSet(h, s \ {y})
  BY <1>5, <1>6, <1>7, SumTakesAny
<1> QED
  BY <1>3, <1>6, <1>7, <1>8

(* Changing one value changes the sum by as much.                            *)
LEMMA SumChanges ==
  ASSUME NEW T, IsFiniteSet(T), NEW y \in T, NEW f, NEW h,
         \A x \in T : f[x] \in Int /\ h[x] \in Int,
         \A x \in T \ {y} : h[x] = f[x]
  PROVE  SumFunctionOnSet(h, T) = SumFunctionOnSet(f, T) + h[y] - f[y]
<1>1. IsFiniteSet(T \ {y})
  BY FS_RemoveElement
<1>2. SumFunctionOnSet(f, T \ {y}) = SumFunctionOnSet(h, T \ {y})
  BY <1>1, SumCongruent
<1>3. SumFunctionOnSet(f, T \ {y}) \in Int
  BY <1>1, SumIsInteger
<1>4. /\ SumFunctionOnSet(f, T) = f[y] + SumFunctionOnSet(f, T \ {y})
      /\ SumFunctionOnSet(h, T) = h[y] + SumFunctionOnSet(h, T \ {y})
  BY SumTakesAny
<1> QED
  BY <1>2, <1>3, <1>4

LEMMA OneMoreTimes ==
  ASSUME NEW n \in Int, NEW b \in Int
  PROVE  (n - 1) * b + b = n * b /\ (n - 1) * b \in Int /\ n * b \in Int
OBVIOUS

(* A sum of values of at most b each.                                        *)
LEMMA SumBounded ==
  ASSUME NEW T, IsFiniteSet(T), NEW b \in Nat, NEW f,
         \A x \in T : f[x] \in Int /\ f[x] <= b
  PROVE  SumFunctionOnSet(f, T) <= Cardinality(T) * b
<1> DEFINE F == {s \in SUBSET T :
                   ~(SumFunctionOnSet(f, s) <= Cardinality(s) * b)}
<1>1. SUFFICES ASSUME F # {} PROVE FALSE
  OBVIOUS
<1>2. Family(F, T)
  BY <1>1 DEF Family
<1>a. HasSmallest(F)
  BY <1>2, SmallestSubset
<1>3. PICK s \in F : \A r \in F : r \subseteq s => r = s
  BY <1>a DEF HasSmallest
<1>4. s # {}
  <2>1. SumFunctionOnSet(f, {}) <= Cardinality({}) * b
    BY SumOfNothing, FS_EmptySet
  <2> QED
    BY <1>3, <2>1
<1>5. PICK y \in s : TRUE
  BY <1>4
<1>6. s \ {y} \notin F /\ IsFiniteSet(s) /\ IsFiniteSet(s \ {y})
  BY <1>3, <1>5, FS_Subset, FS_RemoveElement
<1>7. Cardinality(s) \in Nat /\ Cardinality(s \ {y}) = Cardinality(s) - 1
  BY <1>5, <1>6, FS_RemoveElement, FS_CardinalityType
<1>8. SumFunctionOnSet(f, s) = f[y] + SumFunctionOnSet(f, s \ {y})
      /\ SumFunctionOnSet(f, s \ {y}) \in Int
  BY <1>3, <1>5, <1>6, SumTakesAny, SumIsInteger
<1>9. SumFunctionOnSet(f, s \ {y}) <= (Cardinality(s) - 1) * b
  BY <1>3, <1>6, <1>7
<1>10. f[y] \in Int /\ f[y] <= b
  BY <1>3, <1>5
<1>11. /\ (Cardinality(s) - 1) * b + b = Cardinality(s) * b
       /\ (Cardinality(s) - 1) * b \in Int
  <2> DEFINE n == Cardinality(s)
  <2>1. n \in Int /\ b \in Int
    BY <1>7
  <2> HIDE DEF n
  <2>2. (n - 1) * b + b = n * b /\ (n - 1) * b \in Int
    BY <2>1, OneMoreTimes
  <2> QED
    BY <2>2 DEF n
<1>12. SumFunctionOnSet(f, s) <= Cardinality(s) * b
  BY <1>8, <1>9, <1>10, <1>11
<1> QED
  BY <1>3, <1>12

(* The sum of a sequence's values grows by the value that is appended.       *)
LEMMA SumAppends ==
  ASSUME NEW w \in Seq(Int), NEW x \in Int, NEW v, v \in Seq(Int),
         Len(v) = Len(w) + 1, v[Len(v)] = x,
         \A i \in 1 .. Len(w) : v[i] = w[i]
  PROVE  SumFunction(v) = SumFunction(w) + x
<1> DEFINE D == 1 .. Len(w)
           last == Len(w) + 1
<1>1. /\ Len(w) \in Nat /\ DOMAIN w = D /\ DOMAIN v = D \cup {last}
      /\ last \notin D
  <2>1. Len(w) \in Nat /\ DOMAIN w = D /\ DOMAIN v = 1 .. Len(v)
    OBVIOUS
  <2>2. 1 .. last = D \cup {last} /\ last \notin D
    BY <2>1
  <2> QED
    BY <2>1, <2>2
<1>2. IsFiniteSet(D)
  BY <1>1, FS_Interval
<1>3. \A i \in D \cup {last} : v[i] \in Int
  BY <1>1
<1>4. \A i \in D : w[i] \in Int /\ v[i] = w[i]
  BY <1>1
<1> HIDE DEF D, last
<1>5. SumFunctionOnSet(v, D \cup {last}) = SumFunctionOnSet(v, D) + v[last]
  BY <1>1, <1>2, <1>3, SumAdds
<1>6. SumFunctionOnSet(w, D) = SumFunctionOnSet(v, D)
  BY <1>2, <1>4, SumCongruent
<1> QED
  BY <1>1, <1>5, <1>6 DEF SumFunction, last

LEMMA SumOfSequence ==
  ASSUME NEW w \in Seq(Int)
  PROVE  /\ SumFunction(w) \in Int
         /\ SumFunction(w) = SumFunctionOnSet(w, 1 .. Len(w))
         /\ w = <<>> => SumFunction(w) = 0
<1>1. Len(w) \in Nat /\ DOMAIN w = 1 .. Len(w)
  OBVIOUS
<1>2. IsFiniteSet(1 .. Len(w)) /\ \A i \in 1 .. Len(w) : w[i] \in Int
  BY <1>1, FS_Interval
<1>3. SumFunctionOnSet(w, 1 .. Len(w)) \in Int
  BY <1>2, SumIsInteger
<1>4. ASSUME w = <<>> PROVE SumFunctionOnSet(w, 1 .. Len(w)) = 0
  <2>1. 1 .. Len(w) = {}
    BY <1>4
  <2> QED
    BY <2>1, SumOfNothing
<1> QED
  BY <1>1, <1>3, <1>4 DEF SumFunction

LEMMA SumOfPrefix ==
  ASSUME NEW w \in Seq(Int), NEW i \in 1 .. Len(w)
  PROVE  /\ SumFunctionOnSet(w, 1 .. i - 1) \in Int
         /\ SumFunctionOnSet(w, 1 .. i) =
              SumFunctionOnSet(w, 1 .. i - 1) + w[i]
<1>1. /\ i \in Nat \ {0} /\ 1 .. i = (1 .. i - 1) \cup {i}
      /\ i \notin 1 .. i - 1 /\ i - 1 \in Nat /\ \A k \in 1 .. i : w[k] \in Int
  OBVIOUS
<1>2. IsFiniteSet(1 .. i - 1)
  BY <1>1, FS_Interval
<1>3. \A k \in (1 .. i - 1) \cup {i} : w[k] \in Int
  BY <1>1
<1>4. SumFunctionOnSet(w, 1 .. i - 1) \in Int
  BY <1>2, <1>3, SumIsInteger
<1>5. SumFunctionOnSet(w, (1 .. i - 1) \cup {i}) =
        SumFunctionOnSet(w, 1 .. i - 1) + w[i]
  BY <1>1, <1>2, <1>3, SumAdds
<1> QED
  BY <1>1, <1>4, <1>5

(* Nothing but zeros comes to zero.                                          *)
LEMMA SumOfZeros ==
  ASSUME NEW T, IsFiniteSet(T), NEW f, \A x \in T : f[x] = 0
  PROVE  SumFunctionOnSet(f, T) = 0
<1> DEFINE F == {s \in SUBSET T : SumFunctionOnSet(f, s) # 0}
<1>1. SUFFICES ASSUME F # {} PROVE FALSE
  OBVIOUS
<1>2. Family(F, T)
  BY <1>1 DEF Family
<1>a. HasSmallest(F)
  BY <1>2, SmallestSubset
<1>3. PICK s \in F : \A r \in F : r \subseteq s => r = s
  BY <1>a DEF HasSmallest
<1>4. s # {}
  BY <1>3, SumOfNothing
<1>5. PICK y \in s : TRUE
  BY <1>4
<1>6. s \ {y} \notin F /\ IsFiniteSet(s) /\ \A x \in s : f[x] \in Int
  BY <1>3, <1>5, FS_Subset
<1>7. SumFunctionOnSet(f, s) = f[y] + SumFunctionOnSet(f, s \ {y})
  BY <1>5, <1>6, SumTakesAny
<1>8. f[y] = 0 /\ SumFunctionOnSet(f, s \ {y}) = 0
  BY <1>3, <1>5, <1>6
<1> QED
  BY <1>3, <1>7, <1>8

-----------------------------------------------------------------------------
(* A fraction in lowest terms depends on the ratio alone: of the integers b  *)
(* for which n * b is a multiple of d, the denominator is the least positive *)
(* one.                                                                      *)
Fraction == Int \X Positive

LEMMA Cancel ==
  ASSUME NEW x \in Int, NEW y \in Int, NEW d \in Positive, x * d = y * d
  PROVE  x = y
<1>1. (x - y) * d = 0 /\ d # 0
  BY SMT DEF Positive
<1> QED
  BY <1>1, SMT DEF Positive

LEMMA Products ==
  ASSUME NEW x \in Int, NEW y \in Int
  PROVE  x * y \in Int /\ x * y = y * x
OBVIOUS

LEMMA Regroup ==
  ASSUME NEW x \in Int, NEW y \in Int, NEW z \in Int
  PROVE  /\ (x * y) * z = x * (y * z) /\ (x * y) * z = (x * z) * y
         /\ (x + y) * z = x * z + y * z /\ (x - y) * z = x * z - y * z
OBVIOUS

LEMMA ExactDivision ==
  ASSUME NEW c \in Int, NEW g \in Positive
  PROVE  (g * c) % g = 0 /\ (g * c) \div g = c
<1> DEFINE q == (g * c) \div g
           r == (g * c) % g
<1>1. q \in Int /\ r \in Nat /\ r < g /\ g * c = g * q + r /\ g * c \in Int
  BY Division, Products DEF Positive
<1> HIDE DEF q, r
<1>2. g * (c - q) = r
  BY <1>1, SMT DEF Positive
<1>3. c - q = 0
  <2>1. CASE c - q >= 1
    <3>1. g * (c - q) >= g
      BY <1>1, <2>1, SMT DEF Positive
    <3> QED
      BY <1>1, <1>2, <3>1, SMT DEF Positive
  <2>2. CASE c - q <= -1
    <3>1. g * (c - q) <= -g
      BY <1>1, <2>2, SMT DEF Positive
    <3> QED
      BY <1>1, <1>2, <3>1, SMT DEF Positive
  <2> QED
    BY <1>1, <2>1, <2>2, SMT DEF Positive
<1> QED
  BY <1>1, <1>2, <1>3, SMT DEF q, r, Positive

(* The multiples of n / d that are integers.                                 *)
Clears(n, d, a, b) == a * d = n * b
Denominators(n, d) == {b \in Positive : \E a \in Int : Clears(n, d, a, b)}
IsLeast(b, S) == b \in S /\ \A c \in S : b <= c

LEMMA LeastExists ==
  ASSUME NEW S \in SUBSET Nat, S # {}
  PROVE  \E b \in S : IsLeast(b, S)
BY SmallestNumber DEF IsLeast

LEMMA LeastDivides ==
  ASSUME NEW n \in Int, NEW d \in Positive, NEW b \in Positive,
         IsLeast(b, Denominators(n, d))
  PROVE  \E a \in Int, k \in Positive :
           Clears(n, d, a, b) /\ d = k * b /\ n = k * a
<1>1. PICK a \in Int : Clears(n, d, a, b)
  BY DEF IsLeast, Denominators
<1> DEFINE k == d \div b
           r == d % b
<1>2. /\ k \in Int /\ r \in Nat /\ r < b /\ d = b * k + r
      /\ b \in Int /\ d \in Int /\ b > 0 /\ d > 0
  BY Division DEF Positive
<1> HIDE DEF k, r
<1>3. (n - a * k) * d = n * r
  <2>1. a * d = n * b /\ n * d = n * (b * k) + n * r
    BY <1>1, <1>2, SMT DEF Clears
  <2>2. (a * k) * d = (a * d) * k
    BY <1>2, Regroup
  <2>3. (n * b) * k = n * (b * k)
    BY <1>2, Regroup
  <2> DEFINE ak == a * k
             nd == n * d
             akd == ak * d
  <2>4. ak \in Int /\ (n - ak) * d = n * d - ak * d
    BY <1>2, Products, Regroup
  <2>5. n * d \in Int /\ n * r \in Int /\ n * (b * k) \in Int
    BY <1>2, Products
  <2> QED
    BY <2>1, <2>2, <2>3, <2>4, <2>5
<1>4. r = 0
  <2>1. SUFFICES ASSUME r # 0 PROVE FALSE
    OBVIOUS
  <2>2. r \in Denominators(n, d)
    <3>1. r \in Positive /\ n - a * k \in Int
      BY <1>2, <2>1 DEF Positive
    <3> QED
      BY <1>3, <3>1 DEF Denominators, Clears
  <2>3. b <= r
    BY <2>2 DEF IsLeast
  <2> QED
    BY <1>2, <2>3
<1>5. d = k * b /\ k \in Positive
  <2>1. d = b * k
    BY <1>2, <1>4
  <2>2. k > 0
    BY <1>2, <2>1, SMT
  <2> QED
    BY <1>2, <2>1, <2>2, Products DEF Positive
<1>6. n = k * a
  <2>1. (n - a * k) * d = 0 * d
    BY <1>2, <1>3, <1>4
  <2>2. n - a * k = 0
    BY <1>2, <2>1, Cancel
  <2> QED
    BY <1>2, <2>2, Products
<1> QED
  BY <1>1, <1>5, <1>6

LEMMA GcdDivides ==
  ASSUME NEW n \in Int, NEW d \in Positive
  PROVE  /\ Gcd(n, d) \in 1 .. d /\ n % Gcd(n, d) = 0 /\ d % Gcd(n, d) = 0
         /\ \A g \in 1 .. d : n % g = 0 /\ d % g = 0 => g <= Gcd(n, d)
<1> DEFINE G == {g \in 1 .. d : n % g = 0 /\ d % g = 0}
<1>1. IsFiniteSet(G) /\ G \in SUBSET Int
  <2>1. IsFiniteSet(1 .. d)
    BY FS_Interval DEF Positive
  <2>2. G \subseteq 1 .. d
    OBVIOUS
  <2> QED
    <3>1. IsFiniteSet(G)
      BY <2>1, <2>2, FS_Subset
    <3>2. 1 .. d \subseteq Int
      BY DEF Positive
    <3> QED
      BY <2>2, <3>1, <3>2
<1>2. 1 \in G
  BY SMT DEF Positive
<1>3. Max(G) \in G /\ \A x \in G : x <= Max(G)
  BY <1>1, <1>2, GreatestMember
<1> QED
  BY <1>3 DEF Gcd

IsLowest(x, n, d) ==
  /\ x \in Fraction /\ Clears(n, d, x[1], x[2])
  /\ IsLeast(x[2], Denominators(n, d))

LEMMA FracIsLowest ==
  ASSUME NEW n \in Int, NEW d \in Positive
  PROVE  IsLowest(Frac(n, d), n, d)
<1> DEFINE g == Gcd(n, d)
           a == n \div g
           b == d \div g
<1>1. /\ g \in Positive /\ g <= d /\ n % g = 0 /\ d % g = 0
      /\ \A h \in 1 .. d : n % h = 0 /\ d % h = 0 => h <= g
  <2>1. /\ g \in 1 .. d /\ n % g = 0 /\ d % g = 0
        /\ \A h \in 1 .. d : n % h = 0 /\ d % h = 0 => h <= g
    BY GcdDivides
  <2> HIDE DEF g
  <2> QED
    BY <2>1 DEF Positive
<1> HIDE DEF g
<1>2. Frac(n, d) = <<a, b>>
  BY SMT DEF Frac, g, Positive
<1>3. a \in Int /\ b \in Int /\ n = g * a /\ d = g * b
  BY <1>1, Division DEF Positive
<1> HIDE DEF a, b
<1>4. b \in Positive
  BY <1>1, <1>3, SMT DEF Positive
<1>5. Clears(n, d, a, b)
  <2>1. a * (g * b) = (a * g) * b /\ a * g = g * a
    BY <1>1, <1>3, Regroup, Products DEF Positive
  <2> QED
    BY <1>3, <2>1 DEF Clears
<1>6. b \in Denominators(n, d)
  BY <1>3, <1>4, <1>5 DEF Denominators
<1>7. PICK c \in Denominators(n, d) : IsLeast(c, Denominators(n, d))
  <2>1. Denominators(n, d) \in SUBSET Nat
    BY DEF Denominators, Positive
  <2> QED
    BY <1>6, <2>1, LeastExists
<1>8. c \in Positive /\ c <= b
  BY <1>6, <1>7 DEF IsLeast, Denominators
<1>9. PICK e \in Int, k \in Positive :
        Clears(n, d, e, c) /\ d = k * c /\ n = k * e
  BY <1>7, <1>8, LeastDivides
<1>10. k <= g
  <2>1. n % k = 0 /\ d % k = 0
    BY <1>8, <1>9, ExactDivision DEF Positive
  <2>2. k \in 1 .. d
    BY <1>8, <1>9, SMT DEF Positive
  <2> QED
    BY <1>1, <2>1, <2>2
<1>11. b <= c
  <2>1. SUFFICES ASSUME c < b PROVE FALSE
    BY <1>4, <1>8 DEF Positive
  <2>2. k * c <= g * c /\ g * c < g * b
    BY <1>1, <1>4, <1>8, <1>9, <1>10, <2>1, SMT DEF Positive
  <2> QED
    BY <1>1, <1>3, <1>4, <1>8, <1>9, <2>2, SMT DEF Positive
<1>12. b = c
  BY <1>4, <1>8, <1>11 DEF Positive
<1> QED
  BY <1>2, <1>3, <1>4, <1>5, <1>7, <1>12 DEF IsLowest, Fraction

(* Equal ratios have equal fractions.                                        *)
LEMMA SameDenominators ==
  ASSUME NEW n \in Int, NEW d \in Positive, NEW m \in Int, NEW e \in Positive,
         n * e = m * d
  PROVE  Denominators(n, d) \subseteq Denominators(m, e)
<1>1. SUFFICES ASSUME NEW b \in Positive, NEW a \in Int, a * d = n * b
               PROVE  a * e = m * b
  BY DEF Denominators, Clears
<1>2. (a * e) * d = (m * b) * d
  <2>1. (a * e) * d = (a * d) * e
    BY Regroup DEF Positive
  <2>2. (n * b) * e = (n * e) * b
    BY Regroup DEF Positive
  <2>3. (m * d) * b = (m * b) * d
    BY Regroup DEF Positive
  <2> QED
    BY <1>1, <2>1, <2>2, <2>3
<1> QED
  BY <1>2, Cancel, Products DEF Positive

LEMMA FracOfRatio ==
  ASSUME NEW n \in Int, NEW d \in Positive, NEW m \in Int, NEW e \in Positive,
         n * e = m * d
  PROVE  Frac(n, d) = Frac(m, e)
<1>1. Denominators(n, d) = Denominators(m, e)
  BY SameDenominators
<1>2. IsLowest(Frac(n, d), n, d) /\ IsLowest(Frac(m, e), m, e)
  BY FracIsLowest
<1> DEFINE x == Frac(n, d)
           y == Frac(m, e)
<1> HIDE DEF x, y
<1>3. /\ x \in Fraction /\ y \in Fraction /\ Clears(n, d, x[1], x[2])
      /\ Clears(m, e, y[1], y[2])
      /\ IsLeast(x[2], Denominators(n, d))
      /\ IsLeast(y[2], Denominators(m, e))
  BY <1>2 DEF IsLowest, x, y
<1>4. /\ x[1] \in Int /\ x[2] \in Positive /\ y[1] \in Int /\ y[2] \in Positive
      /\ x = <<x[1], x[2]>> /\ y = <<y[1], y[2]>>
  BY <1>3 DEF Fraction
<1>5. x[2] = y[2]
  <2>1. x[2] <= y[2] /\ y[2] <= x[2]
    BY <1>1, <1>3, Zenon DEF IsLeast
  <2>2. x[2] \in Int /\ y[2] \in Int
    BY <1>4 DEF Positive
  <2> QED
    BY <2>1, <2>2
<1>6. x[1] * d = n * x[2] /\ y[1] * e = m * x[2]
  BY <1>3, <1>5 DEF Clears
<1>7. x[1] = y[1]
  <2>1. (x[1] * e) * d = (y[1] * e) * d
    <3>1. (x[1] * e) * d = (x[1] * d) * e
      BY <1>4, Regroup DEF Positive
    <3>2. (n * x[2]) * e = (n * e) * x[2]
      BY <1>4, Regroup DEF Positive
    <3>3. (m * d) * x[2] = (m * x[2]) * d
      BY <1>4, Regroup DEF Positive
    <3> QED
      BY <1>6, <3>1, <3>2, <3>3
  <2>2. x[1] * e \in Int /\ y[1] * e \in Int
    BY <1>4, Products DEF Positive
  <2>3. x[1] * e = y[1] * e
    BY <2>1, <2>2, Cancel
  <2> QED
    BY <1>4, <2>3, Cancel
<1> QED
  BY <1>4, <1>5, <1>7 DEF x, y

---------------------------------------------------------------------------
(* Fractions are ordered as their ratios are.                                *)
LEMMA FracIsFraction ==
  ASSUME NEW n \in Int, NEW d \in Positive
  PROVE  /\ Frac(n, d) \in Fraction /\ Frac(n, d)[1] \in Int
         /\ Frac(n, d)[2] \in Positive
         /\ Frac(n, d)[1] * d = n * Frac(n, d)[2]
<1>1. IsLowest(Frac(n, d), n, d)
  BY FracIsLowest
<1> DEFINE x == Frac(n, d)
<1> HIDE DEF x
<1>2. x \in Fraction /\ Clears(n, d, x[1], x[2])
  BY <1>1 DEF IsLowest, x
<1>3. x[1] \in Int /\ x[2] \in Positive
  BY <1>2 DEF Fraction
<1> QED
  BY <1>2, <1>3 DEF x, Clears

LEMMA OrderScales ==
  ASSUME NEW a \in Int, NEW b \in Int, NEW d \in Positive
  PROVE  a <= b <=> a * d <= b * d
<1>1. d \in Int /\ d > 0
  BY DEF Positive
<1>2. ASSUME a <= b PROVE a * d <= b * d
  <2>1. (b - a) * d >= 0
    BY <1>1, <1>2, SMT
  <2> QED
    BY <1>1, <2>1, SMT
<1>3. ASSUME a > b PROVE a * d > b * d
  <2>1. (a - b) * d > 0
    BY <1>1, <1>3, SMT
  <2> QED
    BY <1>1, <2>1, SMT
<1>4. a * d \in Int /\ b * d \in Int
  BY <1>1, Products
<1> QED
  BY <1>2, <1>3, <1>4

LEMMA PositiveProduct ==
  ASSUME NEW a \in Positive, NEW b \in Positive
  PROVE  a * b \in Positive
BY SMT DEF Positive

LEMMA FourProduct ==
  ASSUME NEW a \in Int, NEW b \in Int, NEW c \in Int, NEW d \in Int
  PROVE  (a * b) * (c * d) = (a * c) * (b * d)
BY SMT

LEMMA FracCompares ==
  ASSUME NEW n \in Int, NEW d \in Positive, NEW m \in Int, NEW e \in Positive
  PROVE  ~Greater(Frac(n, d), Frac(m, e)) <=> n * e <= m * d
<1> DEFINE x == Frac(n, d)
           y == Frac(m, e)
<1>1. /\ x[1] \in Int /\ x[2] \in Positive /\ x[1] * d = n * x[2]
      /\ y[1] \in Int /\ y[2] \in Positive /\ y[1] * e = m * y[2]
  BY FracIsFraction
<1> HIDE DEF x, y
<1>2. /\ d * e \in Positive /\ x[2] * y[2] \in Positive
      /\ x[1] \in Int /\ x[2] \in Int /\ y[1] \in Int /\ y[2] \in Int
      /\ d \in Int /\ e \in Int
  BY <1>1, PositiveProduct DEF Positive
<1>3. /\ x[1] * y[2] \in Int /\ y[1] * x[2] \in Int
      /\ n * e \in Int /\ m * d \in Int
  BY <1>2, Products
<1>4. /\ (x[1] * y[2]) * (d * e) = (x[1] * d) * (y[2] * e)
      /\ (y[1] * x[2]) * (e * d) = (y[1] * e) * (x[2] * d)
      /\ (n * x[2]) * (e * y[2]) = (n * e) * (x[2] * y[2])
      /\ (m * y[2]) * (d * x[2]) = (m * d) * (y[2] * x[2])
  BY <1>2, FourProduct
<1>5. /\ e * d = d * e /\ y[2] * e = e * y[2] /\ x[2] * d = d * x[2]
      /\ y[2] * x[2] = x[2] * y[2]
  BY <1>2, Products
<1>6. /\ (x[1] * y[2]) * (d * e) = (n * e) * (x[2] * y[2])
      /\ (y[1] * x[2]) * (d * e) = (m * d) * (x[2] * y[2])
  BY <1>1, <1>4, <1>5
<1>7. x[1] * y[2] <= y[1] * x[2] <=> n * e <= m * d
  <2>1. x[1] * y[2] <= y[1] * x[2]
          <=> (x[1] * y[2]) * (d * e) <= (y[1] * x[2]) * (d * e)
    BY <1>2, <1>3, OrderScales
  <2>2. n * e <= m * d
          <=> (n * e) * (x[2] * y[2]) <= (m * d) * (x[2] * y[2])
    BY <1>2, <1>3, OrderScales
  <2> QED
    BY <1>6, <2>1, <2>2
<1>8. ~Greater(x, y) <=> x[1] * y[2] <= y[1] * x[2]
  BY <1>3 DEF Greater
<1> QED
  BY <1>7, <1>8 DEF x, y

LEMMA RatioTransitive ==
  ASSUME NEW a \in Int, NEW p \in Positive, NEW b \in Int, NEW q \in Positive,
         NEW c \in Int, NEW r \in Positive,
         a * q <= b * p, b * r <= c * q
  PROVE  a * r <= c * p
<1>1. p \in Int /\ q \in Int /\ r \in Int
  BY DEF Positive
<1>2. /\ a * q \in Int /\ b * p \in Int /\ b * r \in Int /\ c * q \in Int
      /\ a * r \in Int /\ c * p \in Int
  BY <1>1, Products
<1>3. (a * q) * r <= (b * p) * r /\ (b * r) * p <= (c * q) * p
  BY <1>2, OrderScales
<1>4. /\ (a * q) * r = (a * r) * q /\ (b * p) * r = (b * r) * p
      /\ (c * q) * p = (c * p) * q
  BY <1>1, Regroup
<1>5. /\ (a * r) * q \in Int /\ (b * r) * p \in Int /\ (c * p) * q \in Int
  BY <1>1, <1>2, Products
<1>6. (a * r) * q <= (c * p) * q
  BY <1>3, <1>4, <1>5
<1> QED
  BY <1>2, <1>6, OrderScales

LEMMA OrderIsTransitive ==
  ASSUME NEW x \in Fraction, NEW y \in Fraction, NEW z \in Fraction,
         ~Greater(x, y), ~Greater(y, z)
  PROVE  ~Greater(x, z)
<1>1. /\ x[1] \in Int /\ x[2] \in Positive /\ y[1] \in Int /\ y[2] \in Positive
      /\ z[1] \in Int /\ z[2] \in Positive
  BY DEF Fraction
<1>2. /\ x[2] \in Int /\ y[2] \in Int /\ z[2] \in Int
  BY <1>1 DEF Positive
<1>3. /\ x[1] * y[2] \in Int /\ y[1] * x[2] \in Int /\ y[1] * z[2] \in Int
      /\ z[1] * y[2] \in Int /\ x[1] * z[2] \in Int /\ z[1] * x[2] \in Int
  BY <1>1, <1>2, Products
<1>4. x[1] * y[2] <= y[1] * x[2] /\ y[1] * z[2] <= z[1] * y[2]
  BY <1>3 DEF Greater
<1>5. x[1] * z[2] <= z[1] * x[2]
  BY <1>1, <1>4, RatioTransitive
<1> QED
  BY <1>3, <1>5 DEF Greater

(* Of the first n of some fractions one is the greatest.                     *)
Tops(f, n, k) ==
  /\ k \in 1 .. n /\ \A i \in 1 .. n : ~Greater(f[i], f[k])

LEMMA GreatestFraction ==
  ASSUME NEW n \in Positive, NEW f, \A i \in 1 .. n : f[i] \in Fraction
  PROVE  \E k : Tops(f, n, k)
<1> DEFINE F == {m \in 1 .. n : ~ \E k : Tops(f, m, k)}
<1>1. SUFFICES ASSUME F # {} PROVE FALSE
  BY DEF Positive
<1>2. F \in SUBSET Nat
  BY DEF Positive
<1>3. PICK m \in F : \A l \in F : m <= l
  BY <1>1, <1>2, SmallestNumber
<1>4. m \in 1 .. n /\ m \in Nat \ {0} /\ n \in Int
  BY <1>3 DEF Positive
<1>5. \A i \in 1 .. m : f[i] \in Fraction /\ ~Greater(f[i], f[i])
  <2>1. SUFFICES ASSUME NEW i \in 1 .. m
                 PROVE  f[i] \in Fraction /\ ~Greater(f[i], f[i])
    OBVIOUS
  <2>2. f[i] \in Fraction
    BY <1>4
  <2>3. f[i][1] \in Int /\ f[i][2] \in Int
    BY <2>2 DEF Fraction, Positive
  <2>4. f[i][1] * f[i][2] \in Int
    BY <2>3, Products
  <2> QED
    BY <2>2, <2>4 DEF Greater
<1>6. CASE m = 1
  <2>1. Tops(f, m, 1)
    BY <1>5, <1>6 DEF Tops
  <2> QED
    BY <1>3, <2>1
<1>7. CASE m # 1
  <2>1. m - 1 \in 1 .. n /\ m - 1 \notin F
    BY <1>3, <1>4, <1>7
  <2>2. PICK k : Tops(f, m - 1, k)
    BY <2>1
  <2>3. /\ k \in 1 .. m /\ m \in 1 .. m
        /\ \A i \in 1 .. m : i \in 1 .. m - 1 \/ i = m
    BY <1>4, <2>2 DEF Tops
  <2>4. CASE Greater(f[m], f[k])
    <3>1. ~Greater(f[k], f[m])
      <4>1. f[k] \in Fraction /\ f[m] \in Fraction
        BY <1>5, <2>3
      <4>2. /\ f[k][1] \in Int /\ f[k][2] \in Int
            /\ f[m][1] \in Int /\ f[m][2] \in Int
        BY <4>1 DEF Fraction, Positive
      <4>3. f[m][1] * f[k][2] \in Int /\ f[k][1] * f[m][2] \in Int
        BY <4>2, Products
      <4> QED
        BY <2>4, <4>3 DEF Greater
    <3>2. \A i \in 1 .. m - 1 : ~Greater(f[i], f[m])
      <4>1. \A i \in 1 .. m - 1 : i \in 1 .. m /\ ~Greater(f[i], f[k])
        BY <1>4, <2>2 DEF Tops
      <4> QED
        BY <1>5, <2>3, <3>1, <4>1, OrderIsTransitive
    <3>3. Tops(f, m, m)
      BY <1>5, <2>3, <3>2 DEF Tops
    <3> QED
      BY <1>3, <3>3
  <2>5. CASE ~Greater(f[m], f[k])
    <3>1. Tops(f, m, k)
      BY <2>2, <2>3, <2>5 DEF Tops
    <3> QED
      BY <1>3, <3>1
  <2> QED
    BY <2>4, <2>5
<1> QED
  BY <1>6, <1>7

---------------------------------------------------------------------------
(* A fraction with a negative denominator is turned around.                  *)
LEMMA FracTurned ==
  ASSUME NEW n \in Int, NEW d \in Int, d < 0
  PROVE  Frac(n, d) = Frac(-n, -d) /\ -d \in Positive /\ -n \in Int
<1>1. -d \in Int /\ -n \in Int /\ ~(-d < 0) /\ -d \in Positive
  BY DEF Positive
<1> QED
  BY <1>1 DEF Frac

LEMMA FracIsTyped ==
  ASSUME NEW n \in Int, NEW d \in Int, d # 0
  PROVE  Frac(n, d) \in Fraction
<1>1. CASE d > 0
  <2>1. d \in Positive
    BY <1>1 DEF Positive
  <2> QED
    BY <2>1, FracIsFraction
<1>2. CASE d < 0
  BY <1>2, FracTurned, FracIsFraction
<1> QED
  BY <1>1, <1>2

LEMMA OperationsTyped ==
  ASSUME NEW x \in Fraction, NEW y \in Fraction, NEW n \in Int
  PROVE  /\ Plus(x, y) \in Fraction /\ Minus(x, y) \in Fraction
         /\ Scaled(x, n) \in Fraction /\ Whole(n) \in Fraction
         /\ n # 0 => Over(x, n) \in Fraction
<1>1. /\ x[1] \in Int /\ x[2] \in Int /\ x[2] > 0
      /\ y[1] \in Int /\ y[2] \in Int /\ y[2] > 0
      /\ x[2] \in Positive /\ y[2] \in Positive
  BY DEF Fraction, Positive
<1>2. /\ x[2] * y[2] \in Positive
      /\ x[1] * y[2] \in Int /\ y[1] * x[2] \in Int /\ x[1] * n \in Int
      /\ x[2] * n \in Int
  BY <1>1, PositiveProduct, Products
<1>3. Plus(x, y) \in Fraction /\ Minus(x, y) \in Fraction
  BY <1>2, FracIsFraction DEF Plus, Minus
<1>4. Scaled(x, n) \in Fraction
  BY <1>1, <1>2, FracIsFraction DEF Scaled
<1>5. Whole(n) \in Fraction
  BY DEF Whole, Fraction, Positive
<1>6. ASSUME n # 0 PROVE Over(x, n) \in Fraction
  <2>1. x[2] * n # 0
    BY <1>1, <1>6, SMT
  <2> QED
    BY <1>1, <1>2, <2>1, FracIsTyped DEF Over
<1> QED
  BY <1>3, <1>4, <1>5, <1>6
=============================================================================
