-------------------------- MODULE BenchFiguresProofs --------------------------
(***************************************************************************)
(* Theorems about the figures of the bench, for any weights, limits,       *)
(* recipes, instruments and reference materials: first the laws of the     *)
(* fractions they are computed in, then what a batch remembers, then what  *)
(* its grades and dossiers say.                                            *)
(***************************************************************************)
EXTENDS BenchFigures, Extrema

(***************************************************************************)
(* The greatest common divisor, said with the multipliers that show it.    *)
(***************************************************************************)
IsGcd(g, a, b) ==
    /\ g \in Nat
    /\ \E u \in Nat : a = g * u
    /\ \E v \in Nat : b = g * v
    /\ \E x, y \in Int : g = a * x + b * y

\* One step of Euclid's algorithm keeps it.
LEMMA EuclidStep ==
    ASSUME NEW a \in Nat, NEW b \in Nat \ {0}, NEW g, IsGcd(g, b, a % b)
    PROVE  IsGcd(g, a, b)
<1> DEFINE q == a \div b
           r == a % b
<1>1. q \in Nat /\ r \in Nat /\ a = b * q + r
  OBVIOUS
<1> HIDE DEF q, r
<1>2. PICK u \in Nat : b = g * u
  BY DEF IsGcd
<1>3. PICK v \in Nat : r = g * v
  BY DEF IsGcd, r
<1>4. PICK x, y \in Int : g = b * x + r * y
  BY DEF IsGcd, r
<1>5. g \in Nat
  BY DEF IsGcd
<1>6. a = g * (u * q + v) /\ u * q + v \in Nat
  <2>1. a = (g * u) * q + g * v
    BY <1>1, <1>2, <1>3
  <2>2. u * q \in Nat
    BY <1>1
  <2> QED BY <1>1, <1>5, <2>1, <2>2
<1>7. g = a * y + b * (x - q * y) /\ x - q * y \in Int
  <2>1. r = a - b * q
    BY <1>1
  <2>2. g = b * x + (a - b * q) * y
    BY <1>4, <2>1
  <2> QED BY <1>1, <2>2
<1> QED BY <1>2, <1>5, <1>6, <1>7 DEF IsGcd

\* Where the algorithm stops.
LEMMA GcdWithZero == ASSUME NEW a \in Nat PROVE IsGcd(a, a, 0)
<1>1. a = a * 1 /\ 0 = a * 0 /\ a = a * 1 + 0 * 0 /\ 1 \in Int /\ 0 \in Int
  OBVIOUS
<1>2. \E x, y \in Int : a = a * x + 0 * y
  <2> WITNESS 1 \in Int, 0 \in Int
  <2> QED BY <1>1
<1>3. (\E u \in Nat : a = a * u) /\ (\E v \in Nat : 0 = a * v)
  BY <1>1
<1> QED BY <1>2, <1>3 DEF IsGcd

\* There is one for every pair, ...
LEMMA GcdExists == \A b \in Nat : \A a \in Nat : \E g : IsGcd(g, a, b)
<1> DEFINE Bad == {b \in Nat : \E a \in Nat : \A g : ~IsGcd(g, a, b)}
<1> SUFFICES ASSUME Bad # {} PROVE FALSE
  OBVIOUS
<1>1. PICK b \in Bad : \A j \in Bad : b <= j
  <2>1. Bad \in SUBSET Nat
    OBVIOUS
  <2> HIDE DEF Bad
  <2> QED BY <2>1, LeastExists
<1>2. PICK a \in Nat : \A g : ~IsGcd(g, a, b)
  OBVIOUS
<1>3. CASE b = 0
  <2>2. IsGcd(a, a, 0)
    BY GcdWithZero
  <2> QED BY <1>2, <1>3, <2>2
<1>4. CASE b # 0
  <2>1. b \in Nat \ {0} /\ a % b \in Nat /\ ~(b <= a % b)
    BY <1>4
  <2>2. a % b \notin Bad
    BY <1>1, <2>1
  <2>3. PICK g : IsGcd(g, b, a % b)
    BY <2>1, <2>2
  <2> QED BY <1>2, <2>1, <2>3, EuclidStep
<1> QED BY <1>3, <1>4

\* ... and no other.
LEMMA DivideEachOther ==
    ASSUME NEW g \in Nat, NEW h \in Nat, NEW k \in Int, NEW l \in Int,
           g = h * k, h = g * l
    PROVE  g = h
<1>1. CASE h = 0
  BY <1>1
<1>2. CASE h # 0
  <2>1. g # 0 /\ g > 0 /\ h > 0
    BY <1>2
  <2>2. k > 0
    <3>1. CASE k <= 0
      <4>1. h * k <= 0
        BY <2>1, <3>1
      <4> QED BY <2>1, <4>1
    <3> QED BY <3>1
  <2>3. l > 0
    <3>1. CASE l <= 0
      <4>1. g * l <= 0
        BY <2>1, <3>1
      <4> QED BY <2>1, <4>1
    <3> QED BY <3>1
  <2>4. h * k >= h /\ g * l >= g
    BY <2>1, <2>2, <2>3
  <2> QED BY <2>4
<1> QED BY <1>1, <1>2

\* There is one greatest common divisor.
LEMMA GcdUnique ==
    ASSUME NEW a \in Nat, NEW b \in Nat, NEW g, NEW h, IsGcd(g, a, b), IsGcd(h, a, b)
    PROVE  g = h
<1>1. ASSUME NEW c, NEW e, IsGcd(c, a, b), IsGcd(e, a, b)
      PROVE  \E k \in Int : c = e * k
  <2>1. PICK u \in Nat : a = e * u
    BY <1>1 DEF IsGcd
  <2>2. PICK v \in Nat : b = e * v
    BY <1>1 DEF IsGcd
  <2>3. PICK x, y \in Int : c = a * x + b * y
    BY <1>1 DEF IsGcd
  <2>4. e \in Nat
    BY <1>1 DEF IsGcd
  <2>5. c = e * (u * x + v * y) /\ u * x + v * y \in Int
    <3>1. c = (e * u) * x + (e * v) * y
      BY <2>1, <2>2, <2>3
    <3> QED BY <2>4, <3>1
  <2> QED BY <2>5
<1>2. g \in Nat /\ h \in Nat
  BY DEF IsGcd
<1>3. PICK k \in Int : g = h * k
  BY <1>1
<1>4. PICK l \in Int : h = g * l
  BY <1>1
<1> QED BY <1>2, <1>3, <1>4, DivideEachOther

(***************************************************************************)
(* The recursive function is well defined and computes it: the greatest    *)
(* common divisor satisfies its equation, so there is a function that      *)
(* does, and every function that does is that one.                         *)
(***************************************************************************)
LEMMA GcdEquation ==
    Gcd = [p \in Nat \X Nat |-> IF p[2] = 0 THEN p[1] ELSE Gcd[<<p[2], p[1] % p[2]>>]]
<1> DEFINE G(a, b) == CHOOSE g : IsGcd(g, a, b)
           F == [p \in Nat \X Nat |-> G(p[1], p[2])]
<1>1. \A a, b \in Nat : IsGcd(G(a, b), a, b)
  BY GcdExists
<1> HIDE DEF G
<1>2. \A a \in Nat : G(a, 0) = a
  <2> SUFFICES ASSUME NEW a \in Nat PROVE G(a, 0) = a
    OBVIOUS
  <2>2. IsGcd(a, a, 0)
    BY GcdWithZero
  <2> QED BY <1>1, <2>2, GcdUnique
<1>3. \A a \in Nat, b \in Nat \ {0} : a % b \in Nat /\ G(a, b) = G(b, a % b)
  <2> SUFFICES ASSUME NEW a \in Nat, NEW b \in Nat \ {0}
               PROVE  a % b \in Nat /\ G(a, b) = G(b, a % b)
    OBVIOUS
  <2>1. a % b \in Nat
    OBVIOUS
  <2>2. IsGcd(G(b, a % b), a, b)
    BY <1>1, <2>1, EuclidStep
  <2> QED BY <1>1, <2>1, <2>2, GcdUnique
<1>4. \A a, b \in Nat : F[<<a, b>>] = G(a, b)
  OBVIOUS
<1>5. \A p \in Nat \X Nat :
         G(p[1], p[2]) = IF p[2] = 0 THEN p[1] ELSE F[<<p[2], p[1] % p[2]>>]
  <2> HIDE DEF F
  <2> QED BY <1>2, <1>3, <1>4
<1>6. F = [p \in Nat \X Nat |-> IF p[2] = 0 THEN p[1] ELSE F[<<p[2], p[1] % p[2]>>]]
  BY <1>5
<1> HIDE DEF F
<1> QED BY <1>6, Zenon DEF Gcd

(***************************************************************************)
(* Euclid's algorithm computes the greatest common divisor: no least pair  *)
(* of numbers can be the first it is wrong about.                          *)
(***************************************************************************)
THEOREM GcdIsGcd == \A b \in Nat : \A a \in Nat : IsGcd(Gcd[<<a, b>>], a, b)
<1> DEFINE Bad == {b \in Nat : \E a \in Nat : ~IsGcd(Gcd[<<a, b>>], a, b)}
<1> SUFFICES ASSUME Bad # {} PROVE FALSE
  OBVIOUS
<1>1. PICK b \in Bad : \A j \in Bad : b <= j
  <2>1. Bad \in SUBSET Nat
    OBVIOUS
  <2> HIDE DEF Bad
  <2> QED BY <2>1, LeastExists
<1>2. PICK a \in Nat : ~IsGcd(Gcd[<<a, b>>], a, b)
  OBVIOUS
<1>e. Gcd[<<a, b>>] = IF b = 0 THEN a ELSE Gcd[<<b, a % b>>]
  BY GcdEquation
<1>3. CASE b = 0
  <2>2. IsGcd(a, a, 0)
    BY GcdWithZero
  <2> QED BY <1>2, <1>3, <1>e, <2>2
<1>4. CASE b # 0
  <2>1. b \in Nat \ {0} /\ a % b \in Nat /\ ~(b <= a % b)
    BY <1>4
  <2>2. a % b \notin Bad
    BY <1>1, <2>1
  <2>3. IsGcd(Gcd[<<b, a % b>>], b, a % b)
    BY <2>1, <2>2
  <2> QED BY <1>2, <1>4, <1>e, <2>1, <2>3, EuclidStep
<1> QED BY <1>3, <1>4

-----------------------------------------------------------------------------
(***************************************************************************)
(* Lowest terms.                                                           *)
(***************************************************************************)
LEMMA CancelFactor ==
    ASSUME NEW g \in Nat \ {0}, NEW i \in Int, NEW j \in Int, g * i = g * j
    PROVE  i = j
<1>1. g * (i - j) = 0
  OBVIOUS
<1> QED BY <1>1

\* A positive factor keeps the order, both ways.
LEMMA KeepOrder ==
    ASSUME NEW i \in Int, NEW j \in Int, NEW k \in Nat \ {0}
    PROVE  (i < j <=> k * i < k * j) /\ (i <= j <=> k * i <= k * j)
<1>1. ASSUME NEW x \in Int, NEW y \in Int, x < y PROVE k * x < k * y
  <2>1. k * (y - x) > 0
    BY <1>1
  <2> QED BY <2>1
<1>2. i < j => k * i < k * j
  BY <1>1
<1>3. j < i => k * j < k * i
  BY <1>1
<1>4. k * i \in Int /\ k * j \in Int /\ (i = j => k * i = k * j)
  OBVIOUS
<1> QED BY <1>2, <1>3, <1>4

\* Division by a factor is exact.
LEMMA DivideExactly ==
    ASSUME NEW g \in Nat \ {0}, NEW u \in Int
    PROVE  (g * u) \div g = u
<1> DEFINE q == (g * u) \div g
           r == (g * u) % g
<1>1. q \in Int /\ r \in 0 .. g - 1 /\ g * u = g * q + r
  OBVIOUS
<1> HIDE DEF q, r
<1>2. g * (u - q) = r
  BY <1>1
<1>3. CASE u > q
  <2>1. g * (u - q) >= g
    BY <1>1, <1>3
  <2> QED BY <1>1, <1>2, <2>1
<1>4. CASE u < q
  <2>1. g * (u - q) < 0
    BY <1>1, <1>4
  <2> QED BY <1>1, <1>2, <2>1
<1> QED BY <1>1, <1>3, <1>4 DEF q

\* In lowest terms, said with the multipliers that show it.
Lowest(q) ==
    /\ q = [n |-> q.n, d |-> q.d]
    /\ q.n \in Int /\ q.d \in Nat \ {0}
    /\ \E x, y \in Int : q.n * x + q.d * y = 1

(***************************************************************************)
(* The quotient of two numbers, as the model represents it, is in lowest   *)
(* terms and is that quotient.                                             *)
(***************************************************************************)
THEOREM RatioIsLowest ==
    ASSUME NEW n \in Int, NEW d \in Nat \ {0}
    PROVE  /\ Lowest(Ratio(n, d))
           /\ \E g \in Nat \ {0} : n = g * Ratio(n, d).n /\ d = g * Ratio(n, d).d
<1> DEFINE size == IF n < 0 THEN -n ELSE n
           g == Gcd[<<size, d>>]
<1>1. size \in Nat /\ (n = size \/ n = -size)
  OBVIOUS
<1>2. Ratio(n, d) = [n |-> n \div g, d |-> d \div g]
  BY DEF Ratio
<1>3. IsGcd(g, size, d)
  BY <1>1, GcdIsGcd
<1> HIDE DEF size, g
<1>4. g \in Nat
  BY <1>3 DEF IsGcd
<1>5. PICK u \in Nat : size = g * u
  BY <1>3 DEF IsGcd
<1>6. PICK v \in Nat : d = g * v
  BY <1>3 DEF IsGcd
<1>7. PICK x, y \in Int : g = size * x + d * y
  BY <1>3 DEF IsGcd
<1>8. g \in Nat \ {0} /\ v \in Nat \ {0}
  BY <1>4, <1>6
<1>9. PICK w \in Int : n = g * w /\ (w = u \/ w = -u)
  <2>1. CASE n = size
    BY <1>5, <2>1
  <2>2. CASE n = -size
    <3>1. n = g * (-u) /\ -u \in Int
      BY <1>4, <1>5, <2>2
    <3> QED BY <3>1
  <2> QED BY <1>1, <2>1, <2>2
<1>10. n \div g = w /\ d \div g = v
  BY <1>6, <1>8, <1>9, DivideExactly
<1>11. Ratio(n, d) = [n |-> w, d |-> v]
  BY <1>2, <1>10
<1>12. \E a, b \in Int : w * a + v * b = 1
  <2>1. g * (u * x + v * y) = g * 1
    <3>1. g = (g * u) * x + (g * v) * y
      BY <1>5, <1>6, <1>7
    <3> QED BY <1>4, <3>1
  <2>2. u * x + v * y = 1
    BY <1>8, <2>1, CancelFactor
  <2>3. CASE w = u
    BY <2>2, <2>3
  <2>4. CASE w = -u
    <3>1. w * (-x) + v * y = 1 /\ -x \in Int
      BY <2>2, <2>4
    <3> QED BY <3>1
  <2> QED BY <1>9, <2>3, <2>4
<1> QED BY <1>6, <1>8, <1>9, <1>11, <1>12 DEF Lowest

\* One number has one fraction in lowest terms.
LEMMA LowestUnique ==
    ASSUME NEW q, NEW r, Lowest(q), Lowest(r), q.n * r.d = r.n * q.d
    PROVE  q = r
<1>1. ASSUME NEW a, NEW b, Lowest(a), Lowest(b), a.n * b.d = b.n * a.d
      PROVE  \E k \in Int : b.d = a.d * k
  <2>1. PICK x, y \in Int : a.n * x + a.d * y = 1
    BY <1>1 DEF Lowest
  <2>2. a.n \in Int /\ a.d \in Int /\ b.n \in Int /\ b.d \in Int
    BY <1>1 DEF Lowest
  <2>3. b.d = b.d * (a.n * x + a.d * y)
    BY <2>1, <2>2
  <2>4. b.d = (a.n * b.d) * x + (b.d * a.d) * y
    BY <2>2, <2>3
  <2>5. b.d = (b.n * a.d) * x + (b.d * a.d) * y
    BY <1>1, <2>4
  <2>6. b.d = a.d * (b.n * x + b.d * y) /\ b.n * x + b.d * y \in Int
    BY <2>2, <2>5
  <2> QED BY <2>6
<1>2. PICK k \in Int : r.d = q.d * k
  BY <1>1
<1>3. PICK l \in Int : q.d = r.d * l
  BY <1>1
<1>4. q.d \in Nat \ {0} /\ r.d \in Nat \ {0} /\ q.n \in Int /\ r.n \in Int
  BY DEF Lowest
<1>5. q.d = r.d
  BY <1>2, <1>3, <1>4, DivideEachOther
<1>6. q.d * q.n = q.d * r.n
  BY <1>4, <1>5
<1>7. q.n = r.n
  BY <1>4, <1>6, CancelFactor
<1> QED BY <1>5, <1>7 DEF Lowest

\* A fraction is a ratio in lowest terms, and a ratio is a fraction.
LEMMA FractionIsLowest ==
    ASSUME NEW q \in Fraction
    PROVE  Lowest(q) /\ q.n \in Int /\ q.d \in Nat \ {0}
<1>1. q.n \in Int /\ q.d \in Nat \ {0} /\ q = Ratio(q.n, q.d)
  BY DEF Fraction
<1> QED BY <1>1, RatioIsLowest

\* The fractions are exactly the pairs in lowest terms.
LEMMA LowestIsFraction == ASSUME NEW q, Lowest(q) PROVE q \in Fraction
<1>1. q.n \in Int /\ q.d \in Nat \ {0} /\ q = [n |-> q.n, d |-> q.d]
  BY DEF Lowest
<1> DEFINE r == Ratio(q.n, q.d)
<1>2. Lowest(r)
  BY <1>1, RatioIsLowest
<1>3. PICK g \in Nat \ {0} : q.n = g * r.n /\ q.d = g * r.d
  BY <1>1, RatioIsLowest
<1>4. r.n \in Int /\ r.d \in Int
  BY <1>2 DEF Lowest
<1> HIDE DEF r
<1>5. q.n * r.d = r.n * q.d
  <2>1. q.n * r.d = (g * r.n) * r.d /\ r.n * q.d = r.n * (g * r.d)
    BY <1>3
  <2> QED BY <1>4, <2>1
<1>6. q = r
  BY <1>2, <1>5, LowestUnique
<1> QED BY <1>1, <1>6 DEF Fraction, r

(***************************************************************************)
(* q is the number n/d.                                                    *)
(***************************************************************************)
Is(q, n, d) ==
    /\ q \in Fraction /\ n \in Int /\ d \in Nat \ {0}
    /\ q.n * d = n * q.d

\* A quotient stands for its two numbers.
LEMMA RatioIs ==
    ASSUME NEW n \in Int, NEW d \in Nat \ {0}
    PROVE  Is(Ratio(n, d), n, d)
<1> DEFINE q == Ratio(n, d)
<1>1. Lowest(q) /\ q \in Fraction
  BY RatioIsLowest, LowestIsFraction
<1>2. PICK g \in Nat \ {0} : n = g * q.n /\ d = g * q.d
  BY RatioIsLowest
<1>3. q.n \in Int /\ q.d \in Int
  BY <1>1 DEF Lowest
<1> HIDE DEF q
<1>4. q.n * d = n * q.d
  <2>1. q.n * d = q.n * (g * q.d) /\ n * q.d = (g * q.n) * q.d
    BY <1>2
  <2> QED BY <1>3, <2>1
<1> QED BY <1>1, <1>4 DEF Is, q

\* A fraction stands for its two numbers.
LEMMA FractionIs ==
    ASSUME NEW q \in Fraction
    PROVE  Is(q, q.n, q.d)
<1>1. q.n \in Int /\ q.d \in Nat \ {0}
  BY FractionIsLowest
<1> QED BY <1>1 DEF Is

\* Equal numbers are one fraction.
LEMMA SameNumber ==
    ASSUME NEW q, NEW r, NEW n, NEW d, NEW m, NEW e,
           Is(q, n, d), Is(r, m, e), n * e = m * d
    PROVE  q = r
<1>1. /\ q.n \in Int /\ q.d \in Nat \ {0} /\ r.n \in Int /\ r.d \in Nat \ {0}
      /\ Lowest(q) /\ Lowest(r)
  BY FractionIsLowest DEF Is
<1>2. n \in Int /\ m \in Int /\ d \in Nat \ {0} /\ e \in Nat \ {0}
  BY DEF Is
<1>3. q.n * d = n * q.d /\ r.n * e = m * r.d
  BY DEF Is
<1>4. d * e \in Nat \ {0}
  BY <1>2
<1>5. (d * e) * (q.n * r.d) = (d * e) * (r.n * q.d)
  <2>1. (d * e) * (q.n * r.d) = (q.n * d) * (r.d * e)
    BY <1>1, <1>2
  <2>2. (q.n * d) * (r.d * e) = (n * q.d) * (r.d * e)
    BY <1>3
  <2>3. (n * q.d) * (r.d * e) = (n * e) * (q.d * r.d)
    BY <1>1, <1>2
  <2>4. (n * e) * (q.d * r.d) = (m * d) * (q.d * r.d)
    OBVIOUS
  <2>5. (m * d) * (q.d * r.d) = (m * r.d) * (q.d * d)
    BY <1>1, <1>2
  <2>6. (m * r.d) * (q.d * d) = (r.n * e) * (q.d * d)
    BY <1>3
  <2>7. (r.n * e) * (q.d * d) = (d * e) * (r.n * q.d)
    BY <1>1, <1>2
  <2> QED BY <2>1, <2>2, <2>3, <2>4, <2>5, <2>6, <2>7
<1>6. q.n * r.d = r.n * q.d
  <2>1. q.n * r.d \in Int /\ r.n * q.d \in Int
    BY <1>1
  <2> QED BY <1>4, <1>5, <2>1, CancelFactor
<1> QED BY <1>1, <1>6, LowestUnique

\* A fraction stands for every pair in its proportion.
LEMMA IsAlso ==
    ASSUME NEW q, NEW n, NEW d, Is(q, n, d),
           NEW m \in Int, NEW e \in Nat \ {0}, n * e = m * d
    PROVE  Is(q, m, e)
<1>1. q.n \in Int /\ q.d \in Nat \ {0}
  BY FractionIsLowest DEF Is
<1>2. n \in Int /\ d \in Nat \ {0} /\ q.n * d = n * q.d
  BY DEF Is
<1>3. d * (q.n * e) = d * (m * q.d)
  <2>1. d * (q.n * e) = (q.n * d) * e
    BY <1>1, <1>2
  <2>2. (q.n * d) * e = (n * q.d) * e
    BY <1>2
  <2>3. (n * q.d) * e = (n * e) * q.d
    BY <1>1, <1>2
  <2>4. (n * e) * q.d = (m * d) * q.d
    OBVIOUS
  <2>5. (m * d) * q.d = d * (m * q.d)
    BY <1>1, <1>2
  <2> QED BY <2>1, <2>2, <2>3, <2>4, <2>5
<1>4. q.n * e = m * q.d
  <2>1. q.n * e \in Int /\ m * q.d \in Int
    BY <1>1
  <2> QED BY <1>2, <1>3, <2>1, CancelFactor
<1> QED BY <1>4 DEF Is

-----------------------------------------------------------------------------
(***************************************************************************)
(* The operators compute what they are named for.                          *)
(***************************************************************************)
LEMMA Parts ==
    ASSUME NEW q, NEW n, NEW d, Is(q, n, d)
    PROVE  /\ q.n \in Int /\ q.d \in Nat \ {0} /\ n \in Int /\ d \in Nat \ {0}
           /\ q.n * d = n * q.d
BY FractionIsLowest DEF Is

\* Products of fractions, on the pairs they stand for.
LEMMA IsTimes ==
    ASSUME NEW a, NEW n, NEW d, NEW b, NEW m, NEW e, Is(a, n, d), Is(b, m, e)
    PROVE  Is(a \otimes b, n * m, d * e)
<1>1. /\ a.n \in Int /\ a.d \in Nat \ {0} /\ n \in Int /\ d \in Nat \ {0}
      /\ b.n \in Int /\ b.d \in Nat \ {0} /\ m \in Int /\ e \in Nat \ {0}
  BY Parts
<1>2. a.n * d = n * a.d /\ b.n * e = m * b.d
  BY Parts
<1>3. Is(a \otimes b, a.n * b.n, a.d * b.d)
  <2>1. a.n * b.n \in Int /\ a.d * b.d \in Nat \ {0}
    BY <1>1
  <2> QED BY <2>1, RatioIs DEF \otimes
<1>4. (a.n * b.n) * (d * e) = (n * m) * (a.d * b.d)
  <2>1. (a.n * b.n) * (d * e) = (a.n * d) * (b.n * e)
    BY <1>1
  <2>2. (a.n * d) * (b.n * e) = (n * a.d) * (m * b.d)
    BY <1>2
  <2>3. (n * a.d) * (m * b.d) = (n * m) * (a.d * b.d)
    BY <1>1
  <2> QED BY <2>1, <2>2, <2>3
<1>5. n * m \in Int /\ d * e \in Nat \ {0}
  BY <1>1
<1> QED BY <1>3, <1>4, <1>5, IsAlso

\* Quotients of fractions, on the pairs they stand for.
LEMMA IsOver ==
    ASSUME NEW a, NEW n, NEW d, NEW b, NEW m, NEW e, Is(a, n, d), Is(b, m, e), m > 0
    PROVE  Is(a \oslash b, n * e, d * m)
<1>1. /\ a.n \in Int /\ a.d \in Nat \ {0} /\ n \in Int /\ d \in Nat \ {0}
      /\ b.n \in Int /\ b.d \in Nat \ {0} /\ m \in Nat \ {0} /\ e \in Nat \ {0}
  BY Parts
<1>2. a.n * d = n * a.d /\ b.n * e = m * b.d
  BY Parts
<1>3. b.n \in Nat \ {0}
  <2>1. m * b.d > 0
    BY <1>1
  <2>2. CASE b.n <= 0
    <3>1. e * b.n <= e * 0 /\ e * 0 = 0 /\ e * b.n = b.n * e
      BY <1>1, <2>2, KeepOrder
    <3>2. m * b.d \in Int /\ b.n * e = m * b.d
      BY <1>1, <1>2
    <3> QED BY <2>1, <3>1, <3>2
  <2> QED BY <1>1, <2>2
<1>4. Is(a \oslash b, a.n * b.d, a.d * b.n)
  <2>1. a.n * b.d \in Int /\ a.d * b.n \in Nat \ {0}
    BY <1>1, <1>3
  <2> QED BY <2>1, RatioIs DEF \oslash
<1>5. (a.n * b.d) * (d * m) = (n * e) * (a.d * b.n)
  <2>1. (a.n * b.d) * (d * m) = (a.n * d) * (m * b.d)
    BY <1>1
  <2>2. (a.n * d) * (m * b.d) = (n * a.d) * (b.n * e)
    BY <1>2
  <2>3. (n * a.d) * (b.n * e) = (n * e) * (a.d * b.n)
    BY <1>1
  <2> QED BY <2>1, <2>2, <2>3
<1>6. n * e \in Int /\ d * m \in Nat \ {0}
  BY <1>1
<1> QED BY <1>4, <1>5, <1>6, IsAlso

\* Sums and differences of fractions, on the pairs they stand for.
LEMMA IsPlus ==
    ASSUME NEW a, NEW n, NEW d, NEW b, NEW m, NEW e, Is(a, n, d), Is(b, m, e)
    PROVE  /\ Is(a \oplus b, n * e + m * d, d * e)
           /\ Is(a \ominus b, n * e - m * d, d * e)
<1>1. /\ a.n \in Int /\ a.d \in Nat \ {0} /\ n \in Int /\ d \in Nat \ {0}
      /\ b.n \in Int /\ b.d \in Nat \ {0} /\ m \in Int /\ e \in Nat \ {0}
  BY Parts
<1>2. a.n * d = n * a.d /\ b.n * e = m * b.d
  BY Parts
<1>3. /\ Is(a \oplus b, a.n * b.d + b.n * a.d, a.d * b.d)
      /\ Is(a \ominus b, a.n * b.d - b.n * a.d, a.d * b.d)
  <2>1. /\ a.n * b.d + b.n * a.d \in Int /\ a.n * b.d - b.n * a.d \in Int
        /\ a.d * b.d \in Nat \ {0}
    BY <1>1
  <2> QED BY <2>1, RatioIs DEF \oplus, \ominus
<1>4. /\ (a.n * b.d) * (d * e) = (n * e) * (a.d * b.d)
      /\ (b.n * a.d) * (d * e) = (m * d) * (a.d * b.d)
  <2>1. /\ (a.n * b.d) * (d * e) = (a.n * d) * (b.d * e)
        /\ (b.n * a.d) * (d * e) = (b.n * e) * (a.d * d)
    BY <1>1
  <2>2. /\ (a.n * d) * (b.d * e) = (n * a.d) * (b.d * e)
        /\ (b.n * e) * (a.d * d) = (m * b.d) * (a.d * d)
    BY <1>2
  <2>3. /\ (n * a.d) * (b.d * e) = (n * e) * (a.d * b.d)
        /\ (m * b.d) * (a.d * d) = (m * d) * (a.d * b.d)
    BY <1>1
  <2> QED BY <2>1, <2>2, <2>3
<1>5. /\ (a.n * b.d + b.n * a.d) * (d * e) = (n * e + m * d) * (a.d * b.d)
      /\ (a.n * b.d - b.n * a.d) * (d * e) = (n * e - m * d) * (a.d * b.d)
  BY <1>1, <1>4
<1>6. n * e + m * d \in Int /\ n * e - m * d \in Int /\ d * e \in Nat \ {0}
  BY <1>1
<1> QED BY <1>3, <1>5, <1>6, IsAlso

\* The order of fractions, on the pairs they stand for.
LEMMA IsLess ==
    ASSUME NEW a, NEW n, NEW d, NEW b, NEW m, NEW e, Is(a, n, d), Is(b, m, e)
    PROVE  /\ a \prec b <=> n * e < m * d
           /\ a \preceq b <=> n * e <= m * d
<1>1. /\ a.n \in Int /\ a.d \in Nat \ {0} /\ n \in Int /\ d \in Nat \ {0}
      /\ b.n \in Int /\ b.d \in Nat \ {0} /\ m \in Int /\ e \in Nat \ {0}
  BY Parts
<1>2. a.n * d = n * a.d /\ b.n * e = m * b.d
  BY Parts
<1>3. (d * e) * (a.n * b.d) = (a.d * b.d) * (n * e)
  <2>1. (d * e) * (a.n * b.d) = (a.n * d) * (b.d * e)
    BY <1>1
  <2>2. (a.n * d) * (b.d * e) = (n * a.d) * (b.d * e)
    BY <1>2
  <2>3. (n * a.d) * (b.d * e) = (a.d * b.d) * (n * e)
    BY <1>1
  <2> QED BY <2>1, <2>2, <2>3
<1>4. (d * e) * (b.n * a.d) = (a.d * b.d) * (m * d)
  <2>1. (d * e) * (b.n * a.d) = (b.n * e) * (a.d * d)
    BY <1>1
  <2>2. (b.n * e) * (a.d * d) = (m * b.d) * (a.d * d)
    BY <1>2
  <2>3. (m * b.d) * (a.d * d) = (a.d * b.d) * (m * d)
    BY <1>1
  <2> QED BY <2>1, <2>2, <2>3
<1>5. /\ d * e \in Nat \ {0} /\ a.d * b.d \in Nat \ {0}
      /\ a.n * b.d \in Int /\ b.n * a.d \in Int /\ n * e \in Int /\ m * d \in Int
  BY <1>1
<1> DEFINE i == a.n * b.d  j == b.n * a.d  k == d * e
           x == n * e  y == m * d  z == a.d * b.d
<1>6. k \in Nat \ {0} /\ z \in Nat \ {0} /\ i \in Int /\ j \in Int /\ x \in Int /\ y \in Int
  BY <1>5
<1>7. k * i = z * x /\ k * j = z * y
  BY <1>3, <1>4
<1> HIDE DEF i, j, k, x, y, z
<1>8. (i < j <=> k * i < k * j) /\ (i <= j <=> k * i <= k * j)
  BY <1>6, KeepOrder
<1>9. (x < y <=> z * x < z * y) /\ (x <= y <=> z * x <= z * y)
  BY <1>6, KeepOrder
<1>10. (i < j <=> x < y) /\ (i <= j <=> x <= y)
  BY <1>7, <1>8, <1>9
<1> QED BY <1>10 DEF i, j, x, y, \prec, \preceq

\* The sign of a fraction, on the pair it stands for.
LEMMA IsSigned ==
    ASSUME NEW q, NEW n, NEW d, Is(q, n, d)
    PROVE  (q.n > 0 <=> n > 0) /\ (q.n >= 0 <=> n >= 0) /\ (q.n = 0 <=> n = 0)
<1>1. /\ q.n \in Int /\ q.d \in Nat \ {0} /\ n \in Int /\ d \in Nat \ {0}
      /\ q.n * d = n * q.d
  BY Parts
<1>2. (0 < q.n <=> d * 0 < d * q.n) /\ (0 <= q.n <=> d * 0 <= d * q.n)
  BY <1>1, KeepOrder
<1>3. (0 < n <=> q.d * 0 < q.d * n) /\ (0 <= n <=> q.d * 0 <= q.d * n)
  BY <1>1, KeepOrder
<1>4. d * 0 = 0 /\ q.d * 0 = 0 /\ d * q.n = q.d * n
  BY <1>1
<1> QED BY <1>1, <1>2, <1>3, <1>4

-----------------------------------------------------------------------------
(***************************************************************************)
(* Arithmetic of fractions.                                                *)
(***************************************************************************)
LEMMA Sound ==
    ASSUME NEW a \in Fraction
    PROVE  Is(a, a.n, a.d) /\ a.n \in Int /\ a.d \in Nat \ {0}
BY FractionIs, FractionIsLowest

\* Whole numbers are fractions.
LEMMA WholeIs == ASSUME NEW k \in Int PROVE Is(Whole(k), k, 1) /\ Whole(k) \in Fraction
<1>1. Is(Whole(k), k, 1)
  BY RatioIs DEF Whole
<1> QED BY <1>1 DEF Is

\* Counting numbers are positive fractions.
LEMMA WholePositive == ASSUME NEW k \in Nat \ {0} PROVE Whole(k) \in Fraction /\ Positive(Whole(k))
BY WholeIs, IsSigned DEF Positive

\* The operations stay among the fractions.
LEMMA Closed ==
    ASSUME NEW a \in Fraction, NEW b \in Fraction
    PROVE  /\ a \oplus b \in Fraction /\ a \ominus b \in Fraction /\ a \otimes b \in Fraction
           /\ Positive(b) => a \oslash b \in Fraction
<1>1. Is(a, a.n, a.d) /\ Is(b, b.n, b.d) /\ b.n \in Int
  BY Sound
<1>2. a \oplus b \in Fraction /\ a \ominus b \in Fraction
  BY <1>1, IsPlus DEF Is
<1>3. a \otimes b \in Fraction
  BY <1>1, IsTimes DEF Is
<1>4. ASSUME Positive(b) PROVE a \oslash b \in Fraction
  <2>1. Is(a \oslash b, a.n * b.d, a.d * b.n)
    BY <1>1, <1>4, IsOver DEF Positive
  <2> QED BY <2>1 DEF Is
<1> QED BY <1>2, <1>3, <1>4

\* Multiplication commutes.
LEMMA TimesCommutes ==
    ASSUME NEW a \in Fraction, NEW b \in Fraction
    PROVE  a \otimes b = b \otimes a
<1>1. /\ Is(a, a.n, a.d) /\ a.n \in Int /\ a.d \in Nat \ {0}
      /\ Is(b, b.n, b.d) /\ b.n \in Int /\ b.d \in Nat \ {0}
  BY Sound
<1>2. Is(a \otimes b, a.n * b.n, a.d * b.d) /\ Is(b \otimes a, b.n * a.n, b.d * a.d)
  BY <1>1, IsTimes
<1>3. (a.n * b.n) * (b.d * a.d) = (b.n * a.n) * (a.d * b.d)
  BY <1>1
<1> QED BY <1>2, <1>3, SameNumber

\* Multiplication associates.
LEMMA TimesAssociates ==
    ASSUME NEW a \in Fraction, NEW b \in Fraction, NEW c \in Fraction
    PROVE  (a \otimes b) \otimes c = a \otimes (b \otimes c)
<1>1. /\ Is(a, a.n, a.d) /\ a.n \in Int /\ a.d \in Nat \ {0}
      /\ Is(b, b.n, b.d) /\ b.n \in Int /\ b.d \in Nat \ {0}
      /\ Is(c, c.n, c.d) /\ c.n \in Int /\ c.d \in Nat \ {0}
  BY Sound
<1>2. Is(a \otimes b, a.n * b.n, a.d * b.d) /\ Is(b \otimes c, b.n * c.n, b.d * c.d)
  BY <1>1, IsTimes
<1>3. /\ Is((a \otimes b) \otimes c, (a.n * b.n) * c.n, (a.d * b.d) * c.d)
      /\ Is(a \otimes (b \otimes c), a.n * (b.n * c.n), a.d * (b.d * c.d))
  BY <1>1, <1>2, IsTimes
<1>4. ((a.n * b.n) * c.n) * (a.d * (b.d * c.d)) = (a.n * (b.n * c.n)) * ((a.d * b.d) * c.d)
  BY <1>1
<1> QED BY <1>3, <1>4, SameNumber

\* Division and multiplication undo each other.
LEMMA OverTimes ==
    ASSUME NEW a \in Fraction, NEW b \in Fraction, Positive(b)
    PROVE  (a \oslash b) \otimes b = a /\ (a \otimes b) \oslash b = a
<1>1. /\ Is(a, a.n, a.d) /\ a.n \in Int /\ a.d \in Nat \ {0}
      /\ Is(b, b.n, b.d) /\ b.n \in Nat \ {0} /\ b.d \in Nat \ {0}
  BY Sound DEF Positive
<1>2. Is(a \oslash b, a.n * b.d, a.d * b.n) /\ Is(a \otimes b, a.n * b.n, a.d * b.d)
  BY <1>1, IsOver, IsTimes
<1>3. /\ Is((a \oslash b) \otimes b, (a.n * b.d) * b.n, (a.d * b.n) * b.d)
      /\ Is((a \otimes b) \oslash b, (a.n * b.n) * b.d, (a.d * b.d) * b.n)
  BY <1>1, <1>2, IsOver, IsTimes
<1>4. /\ ((a.n * b.d) * b.n) * a.d = a.n * ((a.d * b.n) * b.d)
      /\ ((a.n * b.n) * b.d) * a.d = a.n * ((a.d * b.d) * b.n)
  BY <1>1
<1> QED BY <1>1, <1>3, <1>4, SameNumber

\* A quotient may be formed before or after a product.
LEMMA OverOfTimes ==
    ASSUME NEW a \in Fraction, NEW b \in Fraction, NEW c \in Fraction, Positive(c)
    PROVE  (a \otimes b) \oslash c = a \otimes (b \oslash c)
<1>1. a \otimes b \in Fraction /\ b \oslash c \in Fraction
  BY Closed
<1>2. (a \otimes (b \oslash c)) \otimes c = a \otimes b
  BY <1>1, TimesAssociates, OverTimes
<1>3. a \otimes (b \oslash c) \in Fraction
  BY <1>1, Closed
<1> QED BY <1>2, <1>3, OverTimes

\* Subtraction undoes addition.
LEMMA PlusMinus ==
    ASSUME NEW a \in Fraction, NEW b \in Fraction
    PROVE  /\ a \oplus b = b \oplus a
           /\ (a \oplus b) \ominus a = b
           /\ (a \ominus b) \oplus b = a
<1>1. /\ Is(a, a.n, a.d) /\ a.n \in Int /\ a.d \in Nat \ {0}
      /\ Is(b, b.n, b.d) /\ b.n \in Int /\ b.d \in Nat \ {0}
  BY Sound
<1>2. /\ Is(a \oplus b, a.n * b.d + b.n * a.d, a.d * b.d)
      /\ Is(b \oplus a, b.n * a.d + a.n * b.d, b.d * a.d)
      /\ Is(a \ominus b, a.n * b.d - b.n * a.d, a.d * b.d)
  BY <1>1, IsPlus
<1>3. /\ Is((a \oplus b) \ominus a,
            (a.n * b.d + b.n * a.d) * a.d - a.n * (a.d * b.d), (a.d * b.d) * a.d)
      /\ Is((a \ominus b) \oplus b,
            (a.n * b.d - b.n * a.d) * b.d + b.n * (a.d * b.d), (a.d * b.d) * b.d)
  BY <1>1, <1>2, IsPlus
<1>4. a \oplus b = b \oplus a
  <2>1. (a.n * b.d + b.n * a.d) * (b.d * a.d) = (b.n * a.d + a.n * b.d) * (a.d * b.d)
    BY <1>1
  <2> QED BY <1>2, <2>1, SameNumber
<1>5. (a \oplus b) \ominus a = b
  <2>1. ((a.n * b.d + b.n * a.d) * a.d - a.n * (a.d * b.d)) * b.d = b.n * ((a.d * b.d) * a.d)
    BY <1>1
  <2> QED BY <1>1, <1>3, <2>1, SameNumber
<1>6. (a \ominus b) \oplus b = a
  <2>1. ((a.n * b.d - b.n * a.d) * b.d + b.n * (a.d * b.d)) * a.d = a.n * ((a.d * b.d) * b.d)
    BY <1>1
  <2> QED BY <1>1, <1>3, <2>1, SameNumber
<1> QED BY <1>4, <1>5, <1>6

\* Multiplication distributes over a sum.
LEMMA TimesOfPlus ==
    ASSUME NEW a \in Fraction, NEW b \in Fraction, NEW c \in Fraction
    PROVE  (a \oplus b) \otimes c = (a \otimes c) \oplus (b \otimes c)
<1>1. /\ Is(a, a.n, a.d) /\ a.n \in Int /\ a.d \in Nat \ {0}
      /\ Is(b, b.n, b.d) /\ b.n \in Int /\ b.d \in Nat \ {0}
      /\ Is(c, c.n, c.d) /\ c.n \in Int /\ c.d \in Nat \ {0}
  BY Sound
<1>2. /\ Is(a \oplus b, a.n * b.d + b.n * a.d, a.d * b.d)
      /\ Is(a \otimes c, a.n * c.n, a.d * c.d) /\ Is(b \otimes c, b.n * c.n, b.d * c.d)
  BY <1>1, IsPlus, IsTimes
<1>3. /\ Is((a \oplus b) \otimes c, (a.n * b.d + b.n * a.d) * c.n, (a.d * b.d) * c.d)
      /\ Is((a \otimes c) \oplus (b \otimes c),
            (a.n * c.n) * (b.d * c.d) + (b.n * c.n) * (a.d * c.d), (a.d * c.d) * (b.d * c.d))
  BY <1>1, <1>2, IsPlus, IsTimes
<1>4. ((a.n * b.d + b.n * a.d) * c.n) * ((a.d * c.d) * (b.d * c.d))
        = ((a.n * c.n) * (b.d * c.d) + (b.n * c.n) * (a.d * c.d)) * ((a.d * b.d) * c.d)
  BY <1>1
<1> QED BY <1>3, <1>4, SameNumber

\* Division distributes over a sum.
LEMMA OverOfPlus ==
    ASSUME NEW a \in Fraction, NEW b \in Fraction, NEW c \in Fraction, Positive(c)
    PROVE  (a \oplus b) \oslash c = (a \oslash c) \oplus (b \oslash c)
<1>1. a \oslash c \in Fraction /\ b \oslash c \in Fraction
  BY Closed
<1>2. ((a \oslash c) \oplus (b \oslash c)) \otimes c = a \oplus b
  BY <1>1, TimesOfPlus, OverTimes
<1>3. (a \oslash c) \oplus (b \oslash c) \in Fraction
  BY <1>1, Closed
<1> QED BY <1>2, <1>3, OverTimes

-----------------------------------------------------------------------------
(***************************************************************************)
(* Order and sign.                                                         *)
(***************************************************************************)
LEMMA Ordered ==
    ASSUME NEW a \in Fraction, NEW b \in Fraction
    PROVE  /\ a \prec b <=> ~(b \preceq a)
           /\ a \preceq b \/ b \preceq a
           /\ (a \preceq b /\ b \preceq a) => a = b
           /\ a \preceq a
<1>1. /\ a.n \in Int /\ a.d \in Nat \ {0} /\ b.n \in Int /\ b.d \in Nat \ {0}
      /\ Is(a, a.n, a.d) /\ Is(b, b.n, b.d)
  BY Sound
<1>2. a.n * b.d \in Int /\ b.n * a.d \in Int
  BY <1>1
<1>3. (a \preceq b /\ b \preceq a) => a = b
  BY <1>1, <1>2, SameNumber DEF \preceq
<1> QED BY <1>1, <1>2, <1>3 DEF \prec, \preceq

\* The order is transitive.
LEMMA Transitive ==
    ASSUME NEW a \in Fraction, NEW b \in Fraction, NEW c \in Fraction,
           a \preceq b, b \preceq c
    PROVE  a \preceq c
<1>1. /\ a.n \in Int /\ a.d \in Nat \ {0} /\ b.n \in Int /\ b.d \in Nat \ {0}
      /\ c.n \in Int /\ c.d \in Nat \ {0}
  BY Sound
<1>2. a.n * b.d \in Int /\ b.n * a.d \in Int /\ b.n * c.d \in Int /\ c.n * b.d \in Int
      /\ a.n * c.d \in Int /\ c.n * a.d \in Int
  BY <1>1
<1>3. c.d * (a.n * b.d) <= c.d * (b.n * a.d)
  BY <1>1, <1>2, KeepOrder DEF \preceq
<1>4. a.d * (b.n * c.d) <= a.d * (c.n * b.d)
  BY <1>1, <1>2, KeepOrder DEF \preceq
<1>5. /\ c.d * (a.n * b.d) = b.d * (a.n * c.d)
      /\ c.d * (b.n * a.d) = a.d * (b.n * c.d)
      /\ a.d * (c.n * b.d) = b.d * (c.n * a.d)
  BY <1>1
<1>6. b.d * (a.n * c.d) <= b.d * (c.n * a.d)
  <2>1. b.d * (a.n * c.d) \in Int /\ a.d * (b.n * c.d) \in Int /\ b.d * (c.n * a.d) \in Int
    BY <1>1
  <2> QED BY <1>3, <1>4, <1>5, <2>1
<1>7. a.n * c.d <= c.n * a.d
  BY <1>1, <1>2, <1>6, KeepOrder
<1> QED BY <1>7 DEF \preceq

\* Multiplying by a positive number keeps the order.
LEMMA TimesKeepsOrder ==
    ASSUME NEW a \in Fraction, NEW b \in Fraction, NEW c \in Fraction, Positive(c)
    PROVE  /\ a \prec b <=> (a \otimes c) \prec (b \otimes c)
           /\ a \preceq b <=> (a \otimes c) \preceq (b \otimes c)
<1>1. /\ Is(a, a.n, a.d) /\ a.n \in Int /\ a.d \in Nat \ {0}
      /\ Is(b, b.n, b.d) /\ b.n \in Int /\ b.d \in Nat \ {0}
      /\ Is(c, c.n, c.d) /\ c.n \in Nat \ {0} /\ c.d \in Nat \ {0}
  BY Sound DEF Positive
<1>2. Is(a \otimes c, a.n * c.n, a.d * c.d) /\ Is(b \otimes c, b.n * c.n, b.d * c.d)
  BY <1>1, IsTimes
<1>3. /\ (a \otimes c) \prec (b \otimes c)
           <=> (a.n * c.n) * (b.d * c.d) < (b.n * c.n) * (a.d * c.d)
      /\ (a \otimes c) \preceq (b \otimes c)
           <=> (a.n * c.n) * (b.d * c.d) <= (b.n * c.n) * (a.d * c.d)
  BY <1>2, IsLess
<1>4. /\ (a.n * c.n) * (b.d * c.d) = (c.n * c.d) * (a.n * b.d)
      /\ (b.n * c.n) * (a.d * c.d) = (c.n * c.d) * (b.n * a.d)
      /\ c.n * c.d \in Nat \ {0} /\ a.n * b.d \in Int /\ b.n * a.d \in Int
  BY <1>1
<1>5. /\ a.n * b.d < b.n * a.d <=> (c.n * c.d) * (a.n * b.d) < (c.n * c.d) * (b.n * a.d)
      /\ a.n * b.d <= b.n * a.d <=> (c.n * c.d) * (a.n * b.d) <= (c.n * c.d) * (b.n * a.d)
  BY <1>4, KeepOrder
<1> QED BY <1>3, <1>4, <1>5 DEF \prec, \preceq

\* Dividing by a positive number keeps the order.
LEMMA OverKeepsOrder ==
    ASSUME NEW a \in Fraction, NEW b \in Fraction, NEW c \in Fraction, Positive(c)
    PROVE  /\ a \prec b <=> (a \oslash c) \prec (b \oslash c)
           /\ a \preceq b <=> (a \oslash c) \preceq (b \oslash c)
<1>1. a \oslash c \in Fraction /\ b \oslash c \in Fraction
  BY Closed
<1>2. (a \oslash c) \otimes c = a /\ (b \oslash c) \otimes c = b
  BY OverTimes
<1> QED BY <1>1, <1>2, TimesKeepsOrder

\* A sign is an order to zero.
SameSign(a, b) == (Positive(a) <=> Positive(b)) /\ (a.n >= 0 <=> b.n >= 0) /\ (a.n = 0 <=> b.n = 0)

\* Multiplying by a positive number keeps the sign.
LEMMA TimesKeepsSign ==
    ASSUME NEW a \in Fraction, NEW c \in Fraction, Positive(c)
    PROVE  SameSign(a \otimes c, a)
<1>1. /\ Is(a, a.n, a.d) /\ a.n \in Int /\ a.d \in Nat \ {0}
      /\ Is(c, c.n, c.d) /\ c.n \in Nat \ {0} /\ c.d \in Nat \ {0}
  BY Sound DEF Positive
<1>2. Is(a \otimes c, a.n * c.n, a.d * c.d)
  BY <1>1, IsTimes
<1>3. (0 < a.n <=> c.n * 0 < c.n * a.n) /\ (0 <= a.n <=> c.n * 0 <= c.n * a.n)
  BY <1>1, KeepOrder
<1>4. c.n * 0 = 0 /\ c.n * a.n = a.n * c.n /\ a.n * c.n \in Int
  BY <1>1
<1>5. (a.n > 0 <=> a.n * c.n > 0) /\ (a.n >= 0 <=> a.n * c.n >= 0) /\ (a.n = 0 <=> a.n * c.n = 0)
  BY <1>1, <1>3, <1>4
<1> QED BY <1>2, <1>5, IsSigned DEF SameSign, Positive

\* Dividing by a positive number keeps the sign.
LEMMA OverKeepsSign ==
    ASSUME NEW a \in Fraction, NEW c \in Fraction, Positive(c)
    PROVE  SameSign(a \oslash c, a)
<1>1. a \oslash c \in Fraction /\ (a \oslash c) \otimes c = a
  BY Closed, OverTimes
<1>2. SameSign((a \oslash c) \otimes c, a \oslash c)
  BY <1>1, TimesKeepsSign
<1> QED BY <1>1, <1>2 DEF SameSign

-----------------------------------------------------------------------------
(***************************************************************************)
(* Units.                                                                  *)
(***************************************************************************)
\* Every factor is a positive number.
LEMMA FactorIsPositive ==
    ASSUME NEW u \in MassFraction \cup MassConcentration \cup Mass
    PROVE  Factor[u] \in Fraction /\ Positive(Factor[u])
<1>1. \A k \in Nat \ {0} : Whole(k) \in Fraction /\ Positive(Whole(k))
  BY WholePositive
<1>2. \A k, d \in Nat \ {0} : Ratio(k, d) \in Fraction /\ Positive(Ratio(k, d))
  <2> SUFFICES ASSUME NEW k \in Nat \ {0}, NEW d \in Nat \ {0}
               PROVE  Ratio(k, d) \in Fraction /\ Positive(Ratio(k, d))
    OBVIOUS
  <2>1. Is(Ratio(k, d), k, d)
    BY RatioIs
  <2>2. Ratio(k, d).n > 0
    BY <2>1, IsSigned
  <2> QED BY <2>1, <2>2 DEF Is, Positive
<1>3. Factor[u] \in {Whole(1), Whole(1000), Whole(10000),
                    Ratio(1, 1000), Ratio(1, 1000000), Ratio(240, 7)}
  <2>1. CASE u = "ppm"
    BY <2>1 DEF Factor
  <2>2. CASE u = "g_per_tonne"
    BY <2>2 DEF Factor
  <2>3. CASE u = "ppb"
    BY <2>3 DEF Factor
  <2>4. CASE u = "percent"
    BY <2>4 DEF Factor
  <2>5. CASE u = "oz_per_ton"
    BY <2>5 DEF Factor
  <2>6. CASE u = "mg_per_l"
    BY <2>6 DEF Factor
  <2>7. CASE u = "ug_per_l"
    BY <2>7 DEF Factor
  <2>8. CASE u = "gram"
    BY <2>8 DEF Factor
  <2>9. CASE u = "milligram"
    BY <2>9 DEF Factor
  <2>10. CASE u = "kilogram"
    BY <2>10 DEF Factor
  <2>11. CASE u = "microgram"
    BY <2>11 DEF Factor
  <2> QED BY <2>1, <2>2, <2>3, <2>4, <2>5, <2>6, <2>7, <2>8, <2>9, <2>10, <2>11
          DEF MassFraction, MassConcentration, Mass
<1> QED BY <1>1, <1>2, <1>3

(***************************************************************************)
(* Conversion between two units of one dimension (domain/units.py): there  *)
(* and back is the same number, exactly, and no conversion changes a sign  *)
(* or the order of two readings.                                           *)
(***************************************************************************)
THEOREM ConversionIsExact ==
    ASSUME NEW u, NEW v, SameDimension(u, v), NEW q \in Fraction
    PROVE  /\ Convert(q, u, v) \in Fraction
           /\ Convert(Convert(q, u, v), v, u) = q
           /\ SameSign(Convert(q, u, v), q)
           /\ \A r \in Fraction :
                 /\ q \prec r <=> Convert(q, u, v) \prec Convert(r, u, v)
                 /\ q \preceq r <=> Convert(q, u, v) \preceq Convert(r, u, v)
<1>1. CASE u = v
  BY <1>1 DEF Convert, SameSign
<1>2. CASE u # v
  <2> DEFINE f == Factor[u]
             g == Factor[v]
  <2>1. f \in Fraction /\ Positive(f) /\ g \in Fraction /\ Positive(g)
    <3>1. {u, v} \subseteq MassFraction \cup MassConcentration \cup Mass
      BY DEF SameDimension
    <3> QED BY <3>1, FactorIsPositive
  <2>2. SameDimension(u, v) /\ SameDimension(v, u)
    <3>1. {u, v} = {v, u}
      OBVIOUS
    <3> QED BY <3>1 DEF SameDimension
  <2>3. /\ \A r : Convert(r, u, v) = (r \otimes f) \oslash g
        /\ \A r : Convert(r, v, u) = (r \otimes g) \oslash f
    BY <1>2, <2>2 DEF Convert
  <2> HIDE DEF f, g
  <2>4. \A r \in Fraction : r \otimes f \in Fraction /\ (r \otimes f) \oslash g \in Fraction
    BY <2>1, Closed
  <2>5. ((q \otimes f) \oslash g) \otimes g = q \otimes f
    BY <2>1, <2>4, OverTimes
  <2>6. (((q \otimes f) \oslash g) \otimes g) \oslash f = q
    BY <2>1, <2>5, OverTimes
  <2>7. SameSign((q \otimes f) \oslash g, q)
    <3>1. SameSign((q \otimes f) \oslash g, q \otimes f)
      BY <2>1, <2>4, OverKeepsSign
    <3>2. SameSign(q \otimes f, q)
      BY <2>1, TimesKeepsSign
    <3> QED BY <3>1, <3>2 DEF SameSign
  <2>8. ASSUME NEW r \in Fraction
        PROVE  /\ q \prec r <=> ((q \otimes f) \oslash g) \prec ((r \otimes f) \oslash g)
               /\ q \preceq r <=> ((q \otimes f) \oslash g) \preceq ((r \otimes f) \oslash g)
    <3>1. /\ q \prec r <=> (q \otimes f) \prec (r \otimes f)
          /\ q \preceq r <=> (q \otimes f) \preceq (r \otimes f)
      BY <2>1, TimesKeepsOrder
    <3>2. /\ (q \otimes f) \prec (r \otimes f)
               <=> ((q \otimes f) \oslash g) \prec ((r \otimes f) \oslash g)
          /\ (q \otimes f) \preceq (r \otimes f)
               <=> ((q \otimes f) \oslash g) \preceq ((r \otimes f) \oslash g)
      BY <2>1, <2>4, OverKeepsOrder
    <3> QED BY <3>1, <3>2
  <2> QED BY <2>3, <2>4, <2>6, <2>7, <2>8
<1> QED BY <1>1, <1>2

\* The same, of the two dimensions a result is in.
LEMMA ConvertLaws ==
    ASSUME NEW u, NEW v,
           {u, v} \subseteq MassFraction \/ {u, v} \subseteq MassConcentration,
           NEW q \in Fraction
    PROVE  /\ Convert(q, u, v) \in Fraction
           /\ Convert(Convert(q, u, v), v, u) = q
           /\ SameSign(Convert(q, u, v), q)
           /\ \A r \in Fraction :
                 /\ q \prec r <=> Convert(q, u, v) \prec Convert(r, u, v)
                 /\ q \preceq r <=> Convert(q, u, v) \preceq Convert(r, u, v)
<1>1. SameDimension(u, v)
  BY DEF SameDimension
<1> QED BY <1>1, ConversionIsExact

\* A gram in a tonne is a part in a million.
LEMMA PpmIsGramPerTonne ==
    ASSUME NEW q \in Fraction
    PROVE  Convert(q, "g_per_tonne", "ppm") = q /\ Convert(q, "ppm", "g_per_tonne") = q
<1>1. Whole(1) \in Fraction /\ Positive(Whole(1))
  BY WholePositive
<1>2. Factor["ppm"] = Whole(1) /\ Factor["g_per_tonne"] = Whole(1)
  BY DEF Factor
<1>3. SameDimension("g_per_tonne", "ppm") /\ SameDimension("ppm", "g_per_tonne")
  BY DEF SameDimension, MassFraction
<1>4. (q \otimes Whole(1)) \oslash Whole(1) = q
  BY <1>1, OverTimes
<1> QED BY <1>2, <1>3, <1>4 DEF Convert

-----------------------------------------------------------------------------
(***************************************************************************)
(* Beads and flasks.                                                       *)
(***************************************************************************)
Weighs(w) == w \in Fraction /\ Positive(w)

\* The grade of a bead is a number that has its sign, keeps its order, and adds up.
LEMMA BeadGradeLaws ==
    ASSUME NEW g \in Fraction, NEW w, Weighs(w)
    PROVE  /\ BeadGrade(g, w) \in Fraction
           /\ SameSign(BeadGrade(g, w), g)
           /\ \A h \in Fraction :
                 /\ g \prec h <=> BeadGrade(g, w) \prec BeadGrade(h, w)
                 /\ g \preceq h <=> BeadGrade(g, w) \preceq BeadGrade(h, w)
                 /\ BeadGrade(g \oplus h, w) = (BeadGrade(g, w) \oplus BeadGrade(h, w))
<1> DEFINE k == Whole(1000)
<1>1. k \in Fraction /\ Positive(k) /\ w \in Fraction /\ Positive(w)
  BY WholePositive DEF Weighs
<1>2. \A h : BeadGrade(h, w) = (h \otimes k) \oslash w
  BY DEF BeadGrade
<1> HIDE DEF k
<1>3. \A h \in Fraction : h \otimes k \in Fraction /\ (h \otimes k) \oslash w \in Fraction
  BY <1>1, Closed
<1>4. SameSign((g \otimes k) \oslash w, g)
  <2>1. SameSign((g \otimes k) \oslash w, g \otimes k)
    BY <1>1, <1>3, OverKeepsSign
  <2>2. SameSign(g \otimes k, g)
    BY <1>1, TimesKeepsSign
  <2> QED BY <2>1, <2>2 DEF SameSign
<1>5. ASSUME NEW h \in Fraction
      PROVE  /\ g \prec h <=> ((g \otimes k) \oslash w) \prec ((h \otimes k) \oslash w)
             /\ g \preceq h <=> ((g \otimes k) \oslash w) \preceq ((h \otimes k) \oslash w)
             /\ ((g \oplus h) \otimes k) \oslash w
                  = (((g \otimes k) \oslash w) \oplus ((h \otimes k) \oslash w))
  <2>1. /\ g \prec h <=> (g \otimes k) \prec (h \otimes k)
        /\ g \preceq h <=> (g \otimes k) \preceq (h \otimes k)
    BY <1>1, TimesKeepsOrder
  <2>2. /\ (g \otimes k) \prec (h \otimes k)
             <=> ((g \otimes k) \oslash w) \prec ((h \otimes k) \oslash w)
        /\ (g \otimes k) \preceq (h \otimes k)
             <=> ((g \otimes k) \oslash w) \preceq ((h \otimes k) \oslash w)
    BY <1>1, <1>3, OverKeepsOrder
  <2>3. (g \oplus h) \otimes k = ((g \otimes k) \oplus (h \otimes k))
    BY <1>1, TimesOfPlus
  <2>4. ((g \otimes k) \oplus (h \otimes k)) \oslash w
           = (((g \otimes k) \oslash w) \oplus ((h \otimes k) \oslash w))
    BY <1>1, <1>3, OverOfPlus
  <2> QED BY <2>1, <2>2, <2>3, <2>4
<1> QED BY <1>2, <1>3, <1>4, <1>5

(***************************************************************************)
(* The forecast of a bead from a grade (domain/assay.py) gives back the    *)
(* bead whose grade it was, for every bead and every portion.              *)
(***************************************************************************)
THEOREM ForecastInverts ==
    ASSUME NEW g \in Fraction, NEW w, Weighs(w), g.n >= 0
    PROVE  BeadWeightForGrade(BeadGrade(g, w), w) = g
<1> DEFINE k == Whole(1000)
<1>1. k \in Fraction /\ Positive(k) /\ w \in Fraction /\ Positive(w)
  BY WholePositive DEF Weighs
<1>2. BeadGrade(g, w).n >= 0
  BY BeadGradeLaws DEF SameSign
<1>3. BeadWeightForGrade(BeadGrade(g, w), w) = (((g \otimes k) \oslash w) \otimes w) \oslash k
  BY <1>1, <1>2 DEF BeadWeightForGrade, BeadGrade
<1> HIDE DEF k
<1>4. g \otimes k \in Fraction
  BY <1>1, Closed
<1>5. ((g \otimes k) \oslash w) \otimes w = g \otimes k
  BY <1>1, <1>4, OverTimes
<1>6. (g \otimes k) \oslash k = g
  BY <1>1, OverTimes
<1> QED BY <1>3, <1>5, <1>6

\* The grade of a solution has the sign of the concentration and keeps its order.
LEMMA FlaskGradeLaws ==
    ASSUME NEW c \in Fraction, NEW unit \in MassConcentration,
           NEW volume, Weighs(volume), NEW w, Weighs(w)
    PROVE  /\ FlaskGrade(c, unit, volume, w) \in Fraction
           /\ SameSign(FlaskGrade(c, unit, volume, w), c)
           /\ \A e \in Fraction :
                 c \preceq e <=> FlaskGrade(c, unit, volume, w) \preceq FlaskGrade(e, unit, volume, w)
           /\ \A e \in Fraction :
                 c \prec e <=> FlaskGrade(c, unit, volume, w) \prec FlaskGrade(e, unit, volume, w)
<1> DEFINE m(e) == Convert(e, unit, "mg_per_l")
<1>1. volume \in Fraction /\ Positive(volume) /\ w \in Fraction /\ Positive(w)
  BY DEF Weighs
<1>2. \A e : FlaskGrade(e, unit, volume, w) = (m(e) \otimes volume) \oslash w
  BY DEF FlaskGrade
<1>3. "mg_per_l" \in MassConcentration
  BY DEF MassConcentration
<1>4. \A e \in Fraction : m(e) \in Fraction
  BY <1>3, ConvertLaws
<1>5. SameSign(m(c), c)
  BY <1>3, ConvertLaws
<1>6. \A e \in Fraction : (c \prec e <=> m(c) \prec m(e)) /\ (c \preceq e <=> m(c) \preceq m(e))
  BY <1>3, ConvertLaws
<1> HIDE DEF m
<1>7. \A e \in Fraction : m(e) \otimes volume \in Fraction /\ (m(e) \otimes volume) \oslash w \in Fraction
  BY <1>1, <1>4, Closed
<1>8. SameSign((m(c) \otimes volume) \oslash w, c)
  <2>1. SameSign((m(c) \otimes volume) \oslash w, m(c) \otimes volume)
    BY <1>1, <1>7, OverKeepsSign
  <2>2. SameSign(m(c) \otimes volume, m(c))
    BY <1>1, <1>4, TimesKeepsSign
  <2> QED BY <1>5, <2>1, <2>2 DEF SameSign
<1>9. ASSUME NEW e \in Fraction
      PROVE  /\ c \prec e <=> ((m(c) \otimes volume) \oslash w) \prec ((m(e) \otimes volume) \oslash w)
             /\ c \preceq e <=> ((m(c) \otimes volume) \oslash w) \preceq ((m(e) \otimes volume) \oslash w)
  <2>1. /\ m(c) \prec m(e) <=> (m(c) \otimes volume) \prec (m(e) \otimes volume)
        /\ m(c) \preceq m(e) <=> (m(c) \otimes volume) \preceq (m(e) \otimes volume)
    BY <1>1, <1>4, TimesKeepsOrder
  <2>2. /\ (m(c) \otimes volume) \prec (m(e) \otimes volume)
             <=> ((m(c) \otimes volume) \oslash w) \prec ((m(e) \otimes volume) \oslash w)
        /\ (m(c) \otimes volume) \preceq (m(e) \otimes volume)
             <=> ((m(c) \otimes volume) \oslash w) \preceq ((m(e) \otimes volume) \oslash w)
    BY <1>1, <1>7, OverKeepsOrder
  <2> QED BY <1>6, <2>1, <2>2
<1> QED BY <1>2, <1>7, <1>8, <1>9

-----------------------------------------------------------------------------
(***************************************************************************)
(* The inductive invariant: what a slot, and a result, remember.           *)
(***************************************************************************)
\* A bead is the gold of its portion.
BeadsAreTheGold == \A p \in Charged : gold[p] \in Gold /\ tray[p].bead \in {Nothing, gold[p]}

\* The flux of a slot is what its recipe gives for its portion.
FluxIsScaled == \A p \in Charged :
    tray[p].flux = ScaleFluxCharge(tray[p].recipe.amounts, tray[p].recipe.portion, tray[p].portion)

\* One slot holds the sample.
OnePrimary == \A p, q \in Holding({"primary"}) : p = q

\* A row of the balance, and of an instrument, against the slot it was made from.
Weighed(p, row) ==
    /\ tray[p].bead # Nothing
    /\ row.bead = tray[p].bead /\ row.portion = tray[p].portion /\ row.unit = Nothing
    /\ PositiveOrNone(row.limit)
    /\ row.au = GravimetricGrade(row.bead, row.portion, row.limit)
    /\ row.silver # Nothing => \E s \in Silver :
          row.silver = SilverByDifference(row.bead \oplus s, row.bead, row.portion)

\* A row of an instrument, against the slot it was made from.
ReadOff(p, row) ==
    /\ row.bead = Nothing /\ row.portion = tray[p].portion /\ row.silver = Nothing
    /\ row.unit \in MassConcentration /\ row.concentration = Concentration(gold[p], row.unit)
    /\ PositiveOrNone(row.limit)
    /\ row.au = SolutionFinishGrade(row.concentration, row.unit, Volume, row.portion, row.limit,
                                    Nothing)

\* The result came from the slot that holds the sample, by one finish or the other.
ResultIsOfThePrimary ==
    result # Nothing => \E p \in Holding({"primary"}) : Weighed(p, result) \/ ReadOff(p, result)

\* All of it.
FiguresInv == /\ FiguresTypeOK /\ BeadsAreTheGold /\ FluxIsScaled /\ OnePrimary
              /\ ResultIsOfThePrimary

-----------------------------------------------------------------------------
(***************************************************************************)
(* Types of the figures.                                                   *)
(***************************************************************************)
Quantity == Fraction \cup {Nothing}

\* None is not a value of any column.
LEMMA NothingIsNoValue ==
    /\ \A q \in Fraction : q # Nothing
    /\ \A m \in MeasuredValue : m # Nothing
    /\ \A u \in MassConcentration : u # Nothing
    /\ \A c \in Charge : c # Nothing
    /\ \A r \in Row : r # Nothing
BY NothingAssumption, RowAssumption

\* Units the service names.
LEMMA Units ==
    /\ "g_per_tonne" \in MassFraction /\ "ppm" \in MassFraction
    /\ "mg_per_l" \in MassConcentration
    /\ MassFraction \subseteq DOMAIN Factor /\ MassConcentration \subseteq DOMAIN Factor
BY DEF MassFraction, MassConcentration, Factor

\* Measured values are well formed.
LEMMA MeasuredTypes ==
    ASSUME NEW q \in Fraction, NEW limit \in Quantity, NEW u \in DOMAIN Factor
    PROVE  /\ Detected(q, u, limit) \in MeasuredValue
           /\ NonDetect(q, u) \in MeasuredValue
           /\ Detected(q, u, limit) # Nothing /\ NonDetect(q, u) # Nothing
<1>1. Detected(q, u, limit) \in MeasuredValue /\ NonDetect(q, u) \in MeasuredValue
  BY DEF Detected, NonDetect, MeasuredValue, Quantity
<1> QED BY <1>1, NothingIsNoValue

(***************************************************************************)
(* Reported, case by case: refused, below the limit, or detected.          *)
(***************************************************************************)
LEMMA ReportedCases ==
    ASSUME NEW reading \in Fraction, NEW limit \in Quantity,
           NEW grade \in Fraction, NEW ofLimit, limit # Nothing => ofLimit \in Fraction,
           NEW u \in DOMAIN Factor
    PROVE  LET m == Reported(reading, limit, grade, ofLimit, u) IN
           /\ (limit = Nothing /\ reading.n = 0) => m = Nothing
           /\ (limit = Nothing /\ reading.n # 0) => m = Detected(grade, u, Nothing)
           /\ (limit # Nothing /\ reading \preceq limit) => m = NonDetect(ofLimit, u)
           /\ (limit # Nothing /\ ~(reading \preceq limit)) => m = Detected(grade, u, ofLimit)
           /\ m # Nothing => m \in MeasuredValue
           /\ m = Nothing => (limit = Nothing /\ reading.n = 0)
<1> DEFINE m == Reported(reading, limit, grade, ofLimit, u)
<1>1. /\ (limit = Nothing /\ reading.n = 0) => m = Nothing
      /\ (limit = Nothing /\ reading.n # 0) => m = Detected(grade, u, Nothing)
      /\ (limit # Nothing /\ reading \preceq limit) => m = NonDetect(ofLimit, u)
      /\ (limit # Nothing /\ ~(reading \preceq limit)) => m = Detected(grade, u, ofLimit)
  BY DEF Reported, Unlimited
<1>2. /\ Detected(grade, u, Nothing) \in MeasuredValue /\ Detected(grade, u, Nothing) # Nothing
      /\ limit # Nothing => /\ NonDetect(ofLimit, u) \in MeasuredValue
                            /\ NonDetect(ofLimit, u) # Nothing
                            /\ Detected(grade, u, ofLimit) \in MeasuredValue
                            /\ Detected(grade, u, ofLimit) # Nothing
  BY MeasuredTypes DEF Quantity
<1> HIDE DEF m
<1>3. m # Nothing => m \in MeasuredValue
  BY <1>1, <1>2
<1>4. m = Nothing => (limit = Nothing /\ reading.n = 0)
  BY <1>1, <1>2
<1> QED BY <1>1, <1>3, <1>4 DEF m

\* What the constants are assumed to be, in the words of the proofs.
LEMMA Assumed ==
    /\ \A g \in Gold : g \in Fraction /\ g.n >= 0
    /\ \A w \in Weight : Weighs(w)
    /\ \A l \in Limit : l \in Fraction /\ Positive(l)
    /\ Weighs(Volume) /\ Weighs(Threshold) /\ Weighs(MaxRpd)
BY FiguresAssumption DEF Weighs

\* A gravimetric grade is a measured value.
LEMMA GravimetricType ==
    ASSUME NEW g \in Fraction, NEW w, Weighs(w), NEW limit \in Quantity,
           GravimetricGrade(g, w, limit) # Nothing
    PROVE  GravimetricGrade(g, w, limit) \in MeasuredValue
<1>1. GravimetricGrade(g, w, limit)
        = Reported(g, limit, BeadGrade(g, w), BeadGrade(limit, w), "g_per_tonne")
  BY DEF GravimetricGrade
<1>2. BeadGrade(g, w) \in Fraction /\ (limit # Nothing => BeadGrade(limit, w) \in Fraction)
  BY BeadGradeLaws DEF Quantity
<1> QED BY <1>1, <1>2, Units, ReportedCases

\* The grade of a solution is a measured value.
LEMMA SolutionType ==
    ASSUME NEW c \in Fraction, NEW unit \in MassConcentration, NEW w, Weighs(w),
           NEW limit \in Quantity, NEW upper,
           SolutionFinishGrade(c, unit, Volume, w, limit, upper) # Nothing
    PROVE  SolutionFinishGrade(c, unit, Volume, w, limit, upper) \in MeasuredValue
<1>1. SolutionFinishGrade(c, unit, Volume, w, limit, upper)
        = Reported(c, limit, FlaskGrade(c, unit, Volume, w), FlaskGrade(limit, unit, Volume, w),
                   "g_per_tonne")
  BY DEF SolutionFinishGrade
<1>2. /\ FlaskGrade(c, unit, Volume, w) \in Fraction
      /\ limit # Nothing => FlaskGrade(limit, unit, Volume, w) \in Fraction
  BY Assumed, FlaskGradeLaws DEF Quantity
<1> QED BY <1>1, <1>2, Units, ReportedCases

\* Silver by difference is a measured value.
LEMMA SilverType ==
    ASSUME NEW dore \in Fraction, NEW g \in Fraction, NEW w, Weighs(w)
    PROVE  SilverByDifference(dore, g, w) \in MeasuredValue \cup {Nothing}
<1>1. BeadGrade(dore \ominus g, w) \in Fraction
  BY Closed, BeadGradeLaws
<1> QED BY <1>1, Units, MeasuredTypes DEF SilverByDifference, Quantity

(***************************************************************************)
(* A reading is so much gold over so much solution.                        *)
(***************************************************************************)
LEMMA ConcentrationLaws ==
    ASSUME NEW g \in Fraction, NEW unit \in MassConcentration
    PROVE  /\ Concentration(g, unit) \in Fraction
           /\ SameSign(Concentration(g, unit), g)
           /\ \A h \in Fraction :
                 g \preceq h <=> Concentration(g, unit) \preceq Concentration(h, unit)
           /\ \A w : Weighs(w) =>
                 FlaskGrade(Concentration(g, unit), unit, Volume, w) = BeadGrade(g, w)
<1> DEFINE k == Whole(1000)
           m(h) == (h \otimes k) \oslash Volume
<1>1. k \in Fraction /\ Positive(k) /\ Volume \in Fraction /\ Positive(Volume)
  BY Assumed, WholePositive DEF Weighs
<1>2. \A h \in Fraction : Concentration(h, unit) = Convert(m(h), "mg_per_l", unit)
  BY NothingIsNoValue DEF Concentration
<1>3. \A h \in Fraction : h \otimes k \in Fraction /\ m(h) \in Fraction
  <2> HIDE DEF k
  <2> QED BY <1>1, Closed
<1>4. SameSign(m(g), g)
  <2> HIDE DEF k
  <2>1. SameSign(m(g), g \otimes k)
    BY <1>1, <1>3, OverKeepsSign
  <2>2. SameSign(g \otimes k, g)
    BY <1>1, TimesKeepsSign
  <2> QED BY <2>1, <2>2 DEF SameSign
<1>5. \A h \in Fraction : g \preceq h <=> m(g) \preceq m(h)
  <2> SUFFICES ASSUME NEW h \in Fraction PROVE g \preceq h <=> m(g) \preceq m(h)
    OBVIOUS
  <2> HIDE DEF k
  <2>1. g \preceq h <=> (g \otimes k) \preceq (h \otimes k)
    BY <1>1, TimesKeepsOrder
  <2>2. (g \otimes k) \preceq (h \otimes k) <=> m(g) \preceq m(h)
    BY <1>1, <1>3, OverKeepsOrder
  <2> QED BY <2>1, <2>2
<1>6. \A w : BeadGrade(g, w) = (g \otimes k) \oslash w
  BY DEF BeadGrade
<1>7. m(g) \otimes Volume = g \otimes k
  <2> HIDE DEF k
  <2> QED BY <1>1, <1>3, OverTimes
<1> HIDE DEF k, m
<1>8. /\ Convert(m(g), "mg_per_l", unit) \in Fraction
      /\ Convert(Convert(m(g), "mg_per_l", unit), unit, "mg_per_l") = m(g)
      /\ SameSign(Convert(m(g), "mg_per_l", unit), m(g))
      /\ \A h \in Fraction : m(g) \preceq m(h)
            <=> Convert(m(g), "mg_per_l", unit) \preceq Convert(m(h), "mg_per_l", unit)
  <2>1. {"mg_per_l", unit} \subseteq MassConcentration /\ m(g) \in Fraction
    BY <1>3, Units
  <2> QED BY <1>3, <2>1, ConvertLaws
<1>9. \A w : FlaskGrade(Concentration(g, unit), unit, Volume, w) = BeadGrade(g, w)
  BY <1>2, <1>6, <1>7, <1>8 DEF FlaskGrade
<1>10. SameSign(Concentration(g, unit), g)
  BY <1>2, <1>4, <1>8 DEF SameSign
<1> QED BY <1>2, <1>5, <1>8, <1>9, <1>10

\* The concentration of a limit is a limit.
LEMMA ConcentrationOfLimit ==
    ASSUME NEW l \in Limit \cup {Nothing}, NEW unit \in MassConcentration
    PROVE  /\ Concentration(l, unit) \in Quantity /\ PositiveOrNone(Concentration(l, unit))
           /\ Concentration(l, unit) = Nothing <=> l = Nothing
<1>1. CASE l = Nothing
  BY <1>1 DEF Concentration, Quantity, PositiveOrNone
<1>2. CASE l # Nothing
  <2>1. l \in Fraction /\ Positive(l)
    BY <1>2, Assumed
  <2>2. Concentration(l, unit) \in Fraction /\ SameSign(Concentration(l, unit), l)
    BY <2>1, ConcentrationLaws
  <2> QED BY <1>2, <2>1, <2>2, NothingIsNoValue DEF SameSign, Quantity, PositiveOrNone
<1> QED BY <1>1, <1>2

-----------------------------------------------------------------------------
(***************************************************************************)
(* Every step keeps the invariant.                                         *)
(***************************************************************************)
LEMMA FluxType ==
    ASSUME NEW r \in Recipes, NEW w \in Weight
    PROVE  ScaleFluxCharge(r.amounts, r.portion, w) \in [Reagents -> Fraction]
<1>1. r.portion \in Fraction /\ Positive(r.portion) /\ r.amounts \in [Reagents -> Fraction]
  BY FiguresAssumption
<1>2. w \in Fraction /\ Positive(w)
  BY Assumed DEF Weighs
<1>3. w \oslash r.portion \in Fraction
  BY <1>1, <1>2, Closed
<1>4. \A x \in Reagents : r.amounts[x] \otimes (w \oslash r.portion) \in Fraction
  BY <1>1, <1>3, Closed
<1>5. ScaleFluxCharge(r.amounts, r.portion, w)
        = [x \in Reagents |-> r.amounts[x] \otimes (w \oslash r.portion)]
  BY <1>1, <1>2 DEF ScaleFluxCharge
<1> QED BY <1>4, <1>5

\* An empty batch satisfies the invariant.
LEMMA FiguresInitInv == FiguresInit => FiguresInv
<1> SUFFICES ASSUME FiguresInit PROVE FiguresInv
  OBVIOUS
<1>1. FiguresTypeOK
  BY DEF FiguresInit, FiguresTypeOK
<1>2. Charged = {} /\ Holding({"primary"}) = {} /\ result = Nothing
  BY DEF FiguresInit, Charged, Holding
<1> QED BY <1>1, <1>2 DEF FiguresInv, BeadsAreTheGold, FluxIsScaled, OnePrimary,
                          ResultIsOfThePrimary

\* Charging fills an empty slot, and leaves one primary.
LEMMA ChargeKeepsInv ==
    ASSUME FiguresInv, NEW p \in Position, NEW kind \in Kinds, NEW w \in Weight, NEW g \in Gold,
           ChargeCrucible(p, kind, w, g)
    PROVE  FiguresInv'
<1> DEFINE c == [kind |-> kind, portion |-> w, recipe |-> recipe, bead |-> Nothing,
                 flux |-> ScaleFluxCharge(recipe.amounts, recipe.portion, w)]
<1>1. /\ tray \in [Position -> Charge \cup {Nothing}] /\ recipe \in Recipes
      /\ gold \in [Position -> Gold \cup {Whole(0)}]
  BY DEF FiguresInv, FiguresTypeOK
<1>2. c \in Charge /\ c # Nothing
  <2>1. c \in Charge
    BY <1>1, FluxType DEF Charge
  <2> QED BY <2>1, NothingIsNoValue
<1>3. /\ tray[p] = Nothing /\ (kind = "primary" => Holding({"primary"}) = {})
      /\ tray' = [tray EXCEPT ![p] = c] /\ gold' = [gold EXCEPT ![p] = g]
      /\ UNCHANGED <<phase, result, recipe, instrument, certified>>
  BY DEF ChargeCrucible, registers
<1>c. c.kind = kind /\ c.portion = w /\ c.recipe = recipe /\ c.bead = Nothing
      /\ c.flux = ScaleFluxCharge(recipe.amounts, recipe.portion, w)
  OBVIOUS
<1> HIDE DEF c
<1>4. FiguresTypeOK'
  BY <1>1, <1>2, <1>3 DEF FiguresInv, FiguresTypeOK
<1>5. /\ Charged' = Charged \cup {p} /\ p \notin Charged
      /\ tray'[p] = c /\ gold'[p] = g
      /\ \A q \in Charged : tray'[q] = tray[q] /\ gold'[q] = gold[q]
  BY <1>1, <1>2, <1>3 DEF Charged
<1>6. BeadsAreTheGold'
  BY <1>5, <1>c DEF FiguresInv, BeadsAreTheGold
<1>7. FluxIsScaled'
  BY <1>5, <1>c DEF FiguresInv, FluxIsScaled
<1>8. Holding({"primary"})' = IF kind = "primary" THEN {p} ELSE Holding({"primary"})
  BY <1>3, <1>5, <1>c DEF Holding
<1>9. OnePrimary'
  BY <1>3, <1>8 DEF FiguresInv, OnePrimary
<1>10. ResultIsOfThePrimary'
  <2> SUFFICES ASSUME result # Nothing
               PROVE  \E q \in Holding({"primary"})' : Weighed(q, result)' \/ ReadOff(q, result)'
    BY <1>3 DEF ResultIsOfThePrimary
  <2>1. PICK q \in Holding({"primary"}) : Weighed(q, result) \/ ReadOff(q, result)
    BY DEF FiguresInv, ResultIsOfThePrimary
  <2>2. q \in Charged /\ q \in Holding({"primary"})'
    BY <1>3, <1>8, <2>1 DEF Holding
  <2>3. tray'[q] = tray[q] /\ gold'[q] = gold[q] /\ result' = result
    BY <1>3, <1>5, <2>2
  <2>4. Weighed(q, result) => Weighed(q, result)'
    BY <2>3 DEF Weighed
  <2>5. ReadOff(q, result) => ReadOff(q, result)'
    BY <2>3 DEF ReadOff
  <2> QED BY <2>1, <2>2, <2>4, <2>5
<1> QED BY <1>4, <1>6, <1>7, <1>9, <1>10 DEF FiguresInv

\* A weighing records the gold of its slot, which no gravimetric result can have
\* read before.
LEMMA WeighingKeepsInv ==
    ASSUME FiguresInv, NEW p \in Position, RecordWeighing(p)
    PROVE  FiguresInv'
<1>1. /\ tray \in [Position -> Charge \cup {Nothing}]
      /\ gold \in [Position -> Gold \cup {Whole(0)}]
  BY DEF FiguresInv, FiguresTypeOK
<1>2. /\ p \in Charged /\ tray[p].bead = Nothing /\ tray' = [tray EXCEPT ![p].bead = gold[p]]
      /\ UNCHANGED <<phase, gold, result, recipe, instrument, certified>>
  BY DEF RecordWeighing, registers
<1>3. tray[p] \in Charge /\ gold[p] \in Gold
  BY <1>1, <1>2 DEF Charged, FiguresInv, BeadsAreTheGold
<1>4. PICK c : c = [tray[p] EXCEPT !.bead = gold[p]]
  OBVIOUS
<1>5. /\ c \in Charge /\ c.bead = gold[p] /\ c.kind = tray[p].kind /\ c.portion = tray[p].portion
      /\ c.recipe = tray[p].recipe /\ c.flux = tray[p].flux
  BY <1>3, <1>4 DEF Charge
<1>6. tray' = [tray EXCEPT ![p] = c]
  BY <1>1, <1>2, <1>4
<1>7. FiguresTypeOK'
  BY <1>1, <1>2, <1>5, <1>6 DEF FiguresInv, FiguresTypeOK
<1>8. /\ Charged' = Charged /\ tray'[p] = c
      /\ \A q \in Charged : q # p => tray'[q] = tray[q]
  BY <1>1, <1>2, <1>5, <1>6, NothingIsNoValue DEF Charged
<1>9. BeadsAreTheGold'
  BY <1>2, <1>5, <1>8 DEF FiguresInv, BeadsAreTheGold
<1>10. FluxIsScaled'
  BY <1>2, <1>5, <1>8 DEF FiguresInv, FluxIsScaled
<1>11. Holding({"primary"})' = Holding({"primary"})
  BY <1>5, <1>8 DEF Holding
<1>12. OnePrimary'
  BY <1>11 DEF FiguresInv, OnePrimary
<1>13. ResultIsOfThePrimary'
  <2> SUFFICES ASSUME result # Nothing
               PROVE  \E q \in Holding({"primary"})' : Weighed(q, result)' \/ ReadOff(q, result)'
    BY <1>2 DEF ResultIsOfThePrimary
  <2>1. PICK q \in Holding({"primary"}) : Weighed(q, result) \/ ReadOff(q, result)
    BY DEF FiguresInv, ResultIsOfThePrimary
  <2>2. q \in Charged
    BY <2>1 DEF Holding
  <2>3. /\ tray'[q].portion = tray[q].portion /\ gold'[q] = gold[q] /\ result' = result
        /\ tray[q].bead # Nothing => tray'[q].bead = tray[q].bead
    <3>1. CASE q = p
      BY <1>2, <1>5, <1>8, <3>1
    <3>2. CASE q # p
      BY <1>2, <1>8, <2>2, <3>2
    <3> QED BY <3>1, <3>2
  <2>4. Weighed(q, result) => Weighed(q, result)'
    BY <2>3 DEF Weighed
  <2>5. ReadOff(q, result) => ReadOff(q, result)'
    BY <2>3 DEF ReadOff
  <2> QED BY <1>11, <2>1, <2>4, <2>5
<1> QED BY <1>7, <1>9, <1>10, <1>12, <1>13 DEF FiguresInv

\* A step that leaves the tray and the result alone.
LEMMA RegistersKeepInv ==
    ASSUME FiguresInv, FiguresTypeOK', UNCHANGED <<tray, gold, result>>
    PROVE  FiguresInv'
<1>1. Charged' = Charged /\ Holding({"primary"})' = Holding({"primary"})
  BY DEF Charged, Holding
<1>2. BeadsAreTheGold' /\ FluxIsScaled' /\ OnePrimary'
  BY <1>1 DEF FiguresInv, BeadsAreTheGold, FluxIsScaled, OnePrimary
<1>3. \A q : (Weighed(q, result) => Weighed(q, result)') /\ (ReadOff(q, result) => ReadOff(q, result)')
  BY DEF Weighed, ReadOff
<1>4. ResultIsOfThePrimary'
  BY <1>1, <1>3 DEF FiguresInv, ResultIsOfThePrimary
<1> QED BY <1>2, <1>4 DEF FiguresInv

\* A new result leaves the tray alone.
LEMMA ResultKeepsInv ==
    ASSUME FiguresInv, UNCHANGED <<phase, tray, gold, recipe, instrument, certified>>,
           result' \in Row, NEW p \in Holding({"primary"}),
           Weighed(p, result)' \/ ReadOff(p, result)'
    PROVE  FiguresInv'
<1>1. Charged' = Charged /\ Holding({"primary"})' = Holding({"primary"})
  BY DEF Charged, Holding
<1>2. BeadsAreTheGold' /\ FluxIsScaled' /\ OnePrimary'
  BY <1>1 DEF FiguresInv, BeadsAreTheGold, FluxIsScaled, OnePrimary
<1>3. ResultIsOfThePrimary'
  BY <1>1 DEF ResultIsOfThePrimary
<1>4. FiguresTypeOK'
  BY DEF FiguresInv, FiguresTypeOK
<1> QED BY <1>2, <1>3, <1>4 DEF FiguresInv

\* What a charged slot holds.
LEMMA SlotTypes ==
    ASSUME FiguresInv, NEW p \in Charged
    PROVE  /\ p \in Position /\ tray[p] \in Charge /\ Weighs(tray[p].portion)
           /\ tray[p].portion \in Weight
           /\ gold[p] \in Gold /\ gold[p] \in Fraction /\ gold[p].n >= 0
           /\ tray[p].bead \in {Nothing, gold[p]}
<1>1. p \in Position /\ tray[p] \in Charge
  BY DEF FiguresInv, FiguresTypeOK, Charged
<1>2. gold[p] \in Gold /\ tray[p].bead \in {Nothing, gold[p]}
  BY DEF FiguresInv, BeadsAreTheGold
<1>3. tray[p].portion \in Weight
  BY <1>1 DEF Charge
<1> QED BY <1>1, <1>2, <1>3, Assumed

\* A gravimetric row is made from the bead of the primary slot.
LEMMA GravimetricKeepsInv ==
    ASSUME FiguresInv, NEW p \in Position, NEW typed \in Limit \cup {Nothing},
           NEW silver \in Silver \cup {Nothing}, EnterGravimetric(p, typed, silver)
    PROVE  FiguresInv'
<1> DEFINE portion == tray[p].portion
           bead    == tray[p].bead
           limit   == LimitUsed(typed, instrument)
           au      == GravimetricGrade(bead, portion, limit)
           parted  == IF silver = Nothing THEN Nothing
                      ELSE SilverByDifference(bead \oplus silver, bead, portion)
           row     == RowOf(portion, bead, limit, Nothing, Nothing, au, parted)
<1>1. /\ p \in Holding({"primary"}) /\ bead # Nothing /\ au # Nothing
      /\ result' = row
      /\ UNCHANGED <<phase, tray, gold, recipe, instrument, certified>>
  BY DEF EnterGravimetric, registers
<1>2. p \in Charged
  BY <1>1 DEF Holding
<1>3. /\ Weighs(portion) /\ portion \in Weight /\ bead \in Gold /\ bead \in Fraction
  BY <1>1, <1>2, SlotTypes
<1>4. limit \in Limit \cup {Nothing}
  BY DEF LimitUsed, FiguresInv, FiguresTypeOK
<1>5. limit \in Quantity /\ PositiveOrNone(limit)
  BY <1>4, Assumed DEF Quantity, PositiveOrNone
<1>6. au \in MeasuredValue
  BY <1>1, <1>3, <1>5, GravimetricType
<1>7. /\ parted \in MeasuredValue \cup {Nothing}
      /\ parted # Nothing =>
            \E s \in Silver : parted = SilverByDifference(bead \oplus s, bead, portion)
  <2>1. CASE silver = Nothing
    BY <2>1
  <2>2. CASE silver # Nothing
    <3>1. silver \in Silver /\ silver \in Fraction
      BY <2>2, FiguresAssumption
    <3>2. bead \oplus silver \in Fraction
      BY <1>3, <3>1, Closed
    <3>3. SilverByDifference(bead \oplus silver, bead, portion) \in MeasuredValue \cup {Nothing}
      BY <1>3, <3>2, SilverType
    <3>4. parted = SilverByDifference(bead \oplus silver, bead, portion)
      BY <2>2
    <3> QED BY <3>1, <3>3, <3>4
  <2> QED BY <2>1, <2>2
<1>8. portion = tray[p].portion /\ bead = tray[p].bead /\ au = GravimetricGrade(bead, portion, limit)
  OBVIOUS
<1> HIDE DEF portion, bead, limit, au, parted
<1>9. /\ row.portion = portion /\ row.bead = bead /\ row.limit = limit /\ row.concentration = Nothing
      /\ row.unit = Nothing /\ row.au = au /\ row.silver = parted
  BY DEF RowOf
<1>10. row \in Row
  BY <1>3, <1>5, <1>6, <1>7 DEF Row, RowOf, Quantity
<1> HIDE DEF row
<1>11. Weighed(p, result)'
  BY <1>1, <1>5, <1>7, <1>8, <1>9 DEF Weighed
<1> QED BY <1>1, <1>10, <1>11, ResultKeepsInv

\* A solution finish is read off the gold of the primary slot.
LEMMA SolutionKeepsInv ==
    ASSUME FiguresInv, NEW p \in Position, NEW typed \in Limit \cup {Nothing},
           NEW unit \in MassConcentration, NEW upper \in Gold \cup {Nothing},
           EnterSolutionFinish(p, unit, typed, upper)
    PROVE  FiguresInv'
<1> DEFINE portion == tray[p].portion
           limit   == LimitUsed(Concentration(typed, unit), Concentration(instrument, "mg_per_l"))
           reading == Concentration(gold[p], unit)
           high    == Concentration(upper, unit)
           au      == SolutionFinishGrade(reading, unit, Volume, portion, limit, high)
           row     == RowOf(portion, Nothing, limit, reading, unit, au, Nothing)
<1>1. /\ p \in Holding({"primary"}) /\ au # Nothing
      /\ result' = row
      /\ UNCHANGED <<phase, tray, gold, recipe, instrument, certified>>
  BY DEF EnterSolutionFinish, registers
<1>2. p \in Charged
  BY <1>1 DEF Holding
<1>3. Weighs(portion) /\ portion \in Weight /\ gold[p] \in Fraction
  BY <1>2, SlotTypes
<1>4. limit \in Quantity /\ PositiveOrNone(limit)
  <2>1. instrument \in Limit \cup {Nothing}
    BY DEF FiguresInv, FiguresTypeOK
  <2>2. /\ Concentration(typed, unit) \in Quantity /\ PositiveOrNone(Concentration(typed, unit))
        /\ Concentration(instrument, "mg_per_l") \in Quantity
        /\ PositiveOrNone(Concentration(instrument, "mg_per_l"))
    BY <2>1, Units, ConcentrationOfLimit
  <2> QED BY <2>2 DEF LimitUsed
<1>5. reading \in Fraction
  BY <1>3, ConcentrationLaws
<1>6. au \in MeasuredValue
  <2> HIDE DEF portion, limit, reading, high
  <2> QED BY <1>1, <1>3, <1>4, <1>5, SolutionType
<1>7. /\ portion = tray[p].portion /\ reading = Concentration(gold[p], unit)
      /\ au = SolutionFinishGrade(reading, unit, Volume, portion, limit, high)
  OBVIOUS
<1> HIDE DEF portion, limit, reading, high, au
<1>8. au = SolutionFinishGrade(reading, unit, Volume, portion, limit, Nothing)
  BY <1>1, <1>7 DEF SolutionFinishGrade, PositiveOrNone
<1>9. /\ row.portion = portion /\ row.bead = Nothing /\ row.limit = limit
      /\ row.concentration = reading /\ row.unit = unit /\ row.au = au /\ row.silver = Nothing
  BY DEF RowOf
<1>10. row \in Row
  BY <1>3, <1>4, <1>5, <1>6 DEF Row, RowOf, Quantity
<1> HIDE DEF row
<1>11. ReadOff(p, result)'
  BY <1>1, <1>4, <1>7, <1>8, <1>9 DEF ReadOff
<1> QED BY <1>1, <1>10, <1>11, ResultKeepsInv

\* Every step keeps the invariant.
LEMMA FiguresStepInv == FiguresInv /\ [FiguresNext]_vars => FiguresInv'
<1> SUFFICES ASSUME FiguresInv, [FiguresNext]_vars PROVE FiguresInv'
  OBVIOUS
<1>1. ASSUME NEW p \in Position, NEW kind \in Kinds, NEW w \in Weight, NEW g \in Gold,
             ChargeCrucible(p, kind, w, g)
      PROVE  FiguresInv'
  BY <1>1, ChargeKeepsInv
<1>2. CASE AdvanceBatch
  <2>1. FiguresTypeOK'
    BY <1>2 DEF AdvanceBatch, registers, FiguresInv, FiguresTypeOK
  <2> QED BY <1>2, <2>1, RegistersKeepInv DEF AdvanceBatch
<1>3. ASSUME NEW p \in Position, RecordWeighing(p) PROVE FiguresInv'
  BY <1>3, WeighingKeepsInv
<1>4. ASSUME NEW p \in Position, NEW typed \in Limit \cup {Nothing},
             NEW silver \in Silver \cup {Nothing}, EnterGravimetric(p, typed, silver)
      PROVE  FiguresInv'
  BY <1>4, GravimetricKeepsInv
<1>5. ASSUME NEW p \in Position, NEW typed \in Limit \cup {Nothing},
             NEW unit \in MassConcentration, NEW upper \in Gold \cup {Nothing},
             EnterSolutionFinish(p, unit, typed, upper)
      PROVE  FiguresInv'
  BY <1>5, SolutionKeepsInv
<1>6. CASE EditRecipe \/ EditInstrument \/ EditMaterial
  <2>1. FiguresTypeOK'
    BY <1>6 DEF EditRecipe, EditInstrument, EditMaterial, FiguresInv, FiguresTypeOK
  <2> QED BY <1>6, <2>1, RegistersKeepInv DEF EditRecipe, EditInstrument, EditMaterial
<1>7. CASE UNCHANGED vars
  <2>1. FiguresTypeOK'
    BY <1>7 DEF vars, registers, FiguresInv, FiguresTypeOK
  <2> QED BY <1>7, <2>1, RegistersKeepInv DEF vars
<1> QED BY <1>1, <1>2, <1>3, <1>4, <1>5, <1>6, <1>7 DEF FiguresNext

(***************************************************************************)
(* The invariant of the bench: a bead is the gold of its portion, a flux   *)
(* is what its recipe gives, and the result was computed from the slot     *)
(* that holds the sample.                                                  *)
(***************************************************************************)
THEOREM FiguresInvHolds == FiguresSpec => []FiguresInv
BY FiguresInitInv, FiguresStepInv, PTL DEF FiguresSpec

-----------------------------------------------------------------------------
(***************************************************************************)
(* What a row tells of the gold.                                           *)
(***************************************************************************)
\* How a report m of a reading against a limit stands to the true grade: the
\* limit, as a grade, compares with the truth as the limit with the reading.
Reports(m, truth, ofLimit, u) ==
    \/ /\ ofLimit # Nothing /\ truth \preceq ofLimit
       /\ m = NonDetect(ofLimit, u)
    \/ /\ Positive(truth) /\ (ofLimit # Nothing => ofLimit \prec truth)
       /\ m = Detected(truth, u, ofLimit)

\* A report, or the refusal of a zero reading without a limit.
Tells(m, truth, ofLimit, u) ==
    /\ truth \in Fraction /\ truth.n >= 0
    /\ ofLimit \in Quantity /\ PositiveOrNone(ofLimit)
    /\ m # Nothing => Reports(m, truth, ofLimit, u)
    /\ m = Nothing <=> (ofLimit = Nothing /\ truth.n = 0)

\* The gold a limit stands for, as a grade.
OfLimit(g, w) == IF g = Nothing THEN Nothing ELSE BeadGrade(g, w)

\* Reported tells the truth when the grade keeps the sign and the order of the
\* reading.
LEMMA ReportedTells ==
    ASSUME NEW reading \in Fraction, reading.n >= 0, NEW limit \in Quantity, PositiveOrNone(limit),
           NEW truth \in Fraction, SameSign(truth, reading),
           NEW given, NEW ofLimit \in Quantity,
           limit = Nothing <=> ofLimit = Nothing,
           limit # Nothing => /\ given = ofLimit /\ SameSign(ofLimit, limit)
                              /\ reading \preceq limit <=> truth \preceq ofLimit,
           NEW u \in DOMAIN Factor
    PROVE  Tells(Reported(reading, limit, truth, given, u), truth, ofLimit, u)
<1> DEFINE m == Reported(reading, limit, truth, given, u)
<1>1. /\ (limit = Nothing /\ reading.n = 0) => m = Nothing
      /\ (limit = Nothing /\ reading.n # 0) => m = Detected(truth, u, Nothing)
      /\ (limit # Nothing /\ reading \preceq limit) => m = NonDetect(ofLimit, u)
      /\ (limit # Nothing /\ ~(reading \preceq limit)) => m = Detected(truth, u, ofLimit)
      /\ m = Nothing => (limit = Nothing /\ reading.n = 0)
  <2>1. limit # Nothing => given \in Fraction
    BY DEF Quantity
  <2>2. /\ (limit = Nothing /\ reading.n = 0) => m = Nothing
        /\ (limit = Nothing /\ reading.n # 0) => m = Detected(truth, u, Nothing)
        /\ (limit # Nothing /\ reading \preceq limit) => m = NonDetect(given, u)
        /\ (limit # Nothing /\ ~(reading \preceq limit)) => m = Detected(truth, u, given)
        /\ m = Nothing => (limit = Nothing /\ reading.n = 0)
    <3>1. /\ (limit = Nothing /\ reading.n = 0) => m = Nothing
          /\ (limit = Nothing /\ reading.n # 0) => m = Detected(truth, u, Nothing)
          /\ (limit # Nothing /\ reading \preceq limit) => m = NonDetect(given, u)
          /\ (limit # Nothing /\ ~(reading \preceq limit)) => m = Detected(truth, u, given)
      BY DEF Reported, Unlimited
    <3>2. m = Nothing => (limit = Nothing /\ reading.n = 0)
      <4>1. /\ Detected(truth, u, Nothing) # Nothing
            /\ limit # Nothing => NonDetect(given, u) # Nothing /\ Detected(truth, u, given) # Nothing
        BY <2>1, MeasuredTypes DEF Quantity
      <4> HIDE DEF m
      <4> QED BY <3>1, <4>1
    <3> HIDE DEF m
    <3> QED BY <3>1, <3>2
  <2> HIDE DEF m
  <2> QED BY <2>2
<1> HIDE DEF m
<1>2. truth.n >= 0 /\ reading.n \in Int
  BY Sound DEF SameSign
<1>3. PositiveOrNone(ofLimit)
  BY DEF SameSign, PositiveOrNone
<1>4. CASE limit = Nothing
  <2>1. reading.n # 0 => Positive(truth)
    BY <1>2 DEF SameSign, Positive
  <2> QED BY <1>1, <1>2, <1>3, <1>4, <2>1 DEF Tells, Reports, SameSign, m
<1>5. CASE limit # Nothing
  <2>1. ofLimit \in Fraction /\ limit \in Fraction /\ Positive(ofLimit)
    BY <1>3, <1>5 DEF Quantity, PositiveOrNone
  <2>2. CASE reading \preceq limit
    <3>1. m = NonDetect(ofLimit, u) /\ truth \preceq ofLimit
      BY <1>1, <1>5, <2>2
    <3> QED BY <1>1, <1>2, <1>3, <1>5, <2>1, <3>1 DEF Tells, Reports, m
  <2>3. CASE ~(reading \preceq limit)
    <3>1. m = Detected(truth, u, ofLimit) /\ ofLimit \prec truth
      BY <1>1, <1>5, <2>1, <2>3, Ordered
    <3>2. Positive(truth)
      <4>1. ~(reading.n <= 0)
        <5> SUFFICES ASSUME reading.n <= 0 PROVE FALSE
          OBVIOUS
        <5>1. limit.n \in Nat \ {0} /\ limit.d \in Nat \ {0} /\ reading.d \in Nat \ {0}
              /\ reading.n = 0
          BY <1>2, <1>5, <2>1, Sound DEF PositiveOrNone, Positive
        <5>2. reading.n * limit.d = 0 /\ limit.n * reading.d > 0 /\ limit.n * reading.d \in Int
          BY <5>1
        <5> QED BY <2>3, <5>2 DEF \preceq
      <4> QED BY <1>2, <4>1 DEF SameSign, Positive
    <3> QED BY <1>1, <1>2, <1>3, <1>5, <2>1, <3>1, <3>2 DEF Tells, Reports, m
  <2> QED BY <2>2, <2>3
<1> QED BY <1>4, <1>5

\* The balance does.
LEMMA GravimetricTells ==
    ASSUME NEW g \in Fraction, g.n >= 0, NEW w, Weighs(w), NEW limit \in Quantity,
           PositiveOrNone(limit)
    PROVE  Tells(GravimetricGrade(g, w, limit), BeadGrade(g, w), OfLimit(limit, w), "g_per_tonne")
<1>1. GravimetricGrade(g, w, limit)
        = Reported(g, limit, BeadGrade(g, w), BeadGrade(limit, w), "g_per_tonne")
  BY DEF GravimetricGrade, Weighs
<1>2. BeadGrade(g, w) \in Fraction /\ SameSign(BeadGrade(g, w), g)
  BY BeadGradeLaws
<1>3. /\ OfLimit(limit, w) \in Quantity /\ (limit = Nothing <=> OfLimit(limit, w) = Nothing)
      /\ limit # Nothing =>
            /\ BeadGrade(limit, w) = OfLimit(limit, w) /\ SameSign(OfLimit(limit, w), limit)
            /\ g \preceq limit <=> BeadGrade(g, w) \preceq OfLimit(limit, w)
  <2>1. CASE limit = Nothing
    BY <2>1 DEF OfLimit, Quantity
  <2>2. CASE limit # Nothing
    <3>1. limit \in Fraction
      BY <2>2 DEF Quantity
    <3>2. BeadGrade(limit, w) \in Fraction /\ SameSign(BeadGrade(limit, w), limit)
          /\ (g \preceq limit <=> BeadGrade(g, w) \preceq BeadGrade(limit, w))
      BY <3>1, BeadGradeLaws
    <3> QED BY <2>2, <3>1, <3>2, NothingIsNoValue DEF OfLimit, Quantity
  <2> QED BY <2>1, <2>2
<1> DEFINE t == BeadGrade(g, w)  l == OfLimit(limit, w)  b == BeadGrade(limit, w)
<1> HIDE DEF t, l, b
<1>4. Tells(Reported(g, limit, t, b, "g_per_tonne"), t, l, "g_per_tonne")
  <2>1. t \in Fraction /\ SameSign(t, g) /\ l \in Quantity /\ (limit = Nothing <=> l = Nothing)
        /\ (limit # Nothing => (b = l /\ SameSign(l, limit) /\ (g \preceq limit <=> t \preceq l)))
    BY <1>2, <1>3 DEF t, l, b
  <2>2. "g_per_tonne" \in DOMAIN Factor
    BY Units
  <2> QED BY <2>1, <2>2, ReportedTells
<1> QED BY <1>1, <1>4 DEF t, l, b

\* A solution finish of so much gold, against a limit in its own unit.
FlaskOfLimit(limit, unit, w) ==
    IF limit = Nothing THEN Nothing ELSE FlaskGrade(limit, unit, Volume, w)

\* A solution does.
LEMMA SolutionTells ==
    ASSUME NEW g \in Fraction, g.n >= 0, NEW w, Weighs(w), NEW unit \in MassConcentration,
           NEW limit \in Quantity, PositiveOrNone(limit)
    PROVE  Tells(SolutionFinishGrade(Concentration(g, unit), unit, Volume, w, limit, Nothing),
                 BeadGrade(g, w), FlaskOfLimit(limit, unit, w), "g_per_tonne")
<1> DEFINE c == Concentration(g, unit)
           t == BeadGrade(g, w)
           l == FlaskOfLimit(limit, unit, w)
           b == FlaskGrade(limit, unit, Volume, w)
<1>1. c \in Fraction /\ SameSign(c, g) /\ FlaskGrade(c, unit, Volume, w) = t /\ c.n >= 0
  BY ConcentrationLaws DEF SameSign
<1>2. SolutionFinishGrade(c, unit, Volume, w, limit, Nothing)
        = Reported(c, limit, t, b, "g_per_tonne")
  BY <1>1, Assumed DEF SolutionFinishGrade, Readable, Weighs, PositiveOrNone
<1>3. t \in Fraction /\ SameSign(t, c)
  <2>1. t \in Fraction /\ SameSign(t, g)
    BY BeadGradeLaws
  <2> QED BY <1>1, <2>1 DEF SameSign
<1>4. /\ l \in Quantity /\ (limit = Nothing <=> l = Nothing)
      /\ limit # Nothing => (b = l /\ SameSign(l, limit) /\ (c \preceq limit <=> t \preceq l))
  <2>1. CASE limit = Nothing
    BY <2>1 DEF FlaskOfLimit, Quantity
  <2>2. CASE limit # Nothing
    <3>1. limit \in Fraction /\ b = l
      BY <2>2 DEF Quantity, FlaskOfLimit
    <3>2. b \in Fraction /\ SameSign(b, limit)
      BY <3>1, Assumed, FlaskGradeLaws
    <3>3. c \preceq limit <=> FlaskGrade(c, unit, Volume, w) \preceq b
      BY <1>1, <3>1, Assumed, FlaskGradeLaws
    <3>4. c \preceq limit <=> t \preceq b
      BY <1>1, <3>3
    <3> HIDE DEF b, l, c, t
    <3> QED BY <2>2, <3>1, <3>2, <3>4, NothingIsNoValue DEF Quantity
  <2> QED BY <2>1, <2>2
<1> HIDE DEF c, t, l, b
<1>5. Tells(Reported(c, limit, t, b, "g_per_tonne"), t, l, "g_per_tonne")
  <2>1. "g_per_tonne" \in DOMAIN Factor
    BY Units
  <2> QED BY <1>1, <1>3, <1>4, <2>1, ReportedTells
<1> QED BY <1>2, <1>5 DEF c, t, l, b

\* The result, whichever finish it came from.
LEMMA ResultTells ==
    ASSUME FiguresInv, result # Nothing, NEW p \in Holding({"primary"})
    PROVE  \E ofLimit \in Quantity :
              /\ Tells(result.au, Truth(p), ofLimit, "g_per_tonne")
              /\ result.au # Nothing
              /\ Reports(result.au, Truth(p), ofLimit, "g_per_tonne")
<1>1. PICK q \in Holding({"primary"}) : Weighed(q, result) \/ ReadOff(q, result)
  BY DEF FiguresInv, ResultIsOfThePrimary
<1>2. p = q
  BY <1>1 DEF FiguresInv, OnePrimary
<1>3. p \in Charged
  BY DEF Holding
<1>4. /\ Weighs(tray[p].portion) /\ gold[p] \in Fraction /\ gold[p].n >= 0
      /\ tray[p].bead \in {Nothing, gold[p]}
  BY <1>3, SlotTypes
<1>5. result \in Row
  BY DEF FiguresInv, FiguresTypeOK
<1>6. result.limit \in Quantity /\ result.au \in MeasuredValue /\ result.au # Nothing
  BY <1>5, NothingIsNoValue DEF Row, Quantity
<1>7. CASE Weighed(p, result)
  <2>1. result.bead = gold[p] /\ result.portion = tray[p].portion
        /\ PositiveOrNone(result.limit)
        /\ result.au = GravimetricGrade(result.bead, result.portion, result.limit)
    BY <1>4, <1>7 DEF Weighed
  <2>2. Tells(result.au, Truth(p), OfLimit(result.limit, result.portion), "g_per_tonne")
    BY <1>4, <1>6, <2>1, GravimetricTells DEF Truth
  <2> QED BY <1>6, <2>2 DEF Tells
<1>8. CASE ReadOff(p, result)
  <2>1. /\ result.portion = tray[p].portion /\ result.unit \in MassConcentration
        /\ PositiveOrNone(result.limit)
        /\ result.au = SolutionFinishGrade(Concentration(gold[p], result.unit), result.unit, Volume,
                                           tray[p].portion, result.limit, Nothing)
    BY <1>8 DEF ReadOff
  <2>2. Tells(result.au, Truth(p), FlaskOfLimit(result.limit, result.unit, tray[p].portion),
              "g_per_tonne")
    BY <1>4, <1>6, <2>1, SolutionTells DEF Truth
  <2> QED BY <1>6, <2>2 DEF Tells
<1> QED BY <1>1, <1>2, <1>7, <1>8

\* A grade shown in another unit is the same grade.
LEMMA ShownInPpm ==
    ASSUME NEW q \in Fraction, NEW u \in MassFraction
    PROVE  Convert(Convert(q, "g_per_tonne", u), u, "ppm") = q
<1>1. {"g_per_tonne", u} \subseteq MassFraction
  BY Units
<1>2. /\ Convert(q, "g_per_tonne", u) \in Fraction
      /\ Convert(Convert(q, "g_per_tonne", u), u, "g_per_tonne") = q
  BY <1>1, ConvertLaws
<1>3. CASE u = "ppm"
  BY <1>2, <1>3, PpmIsGramPerTonne DEF Convert
<1>4. CASE u = "g_per_tonne"
  BY <1>2, <1>4, PpmIsGramPerTonne DEF Convert
<1>5. CASE u # "ppm" /\ u # "g_per_tonne"
  <2>1. Factor["ppm"] = Factor["g_per_tonne"]
    BY DEF Factor
  <2>2. SameDimension(u, "ppm") /\ SameDimension(u, "g_per_tonne")
    BY Units DEF SameDimension
  <2>3. \A r : Convert(r, u, "ppm") = Convert(r, u, "g_per_tonne")
    BY <1>5, <2>1, <2>2 DEF Convert
  <2> QED BY <1>2, <2>3
<1> QED BY <1>3, <1>4, <1>5

\* What a report says of the truth it says in every unit.
LEMMA GradeTellsTheTruthInv == FiguresInv => GradeTellsTheTruth
<1> SUFFICES ASSUME FiguresInv, result # Nothing, NEW p \in Holding({"primary"}),
                    NEW u \in MassFraction
             PROVE  LET shown == ConvertedTo(result.au, u)
                    IN  IF shown.censored
                        THEN Truth(p) \preceq Convert(shown.limit, u, "ppm")
                        ELSE /\ Truth(p) = Convert(shown.value, u, "ppm")
                             /\ Positive(shown.value)
                             /\ shown.limit # Nothing => shown.limit \prec shown.value
  BY DEF GradeTellsTheTruth
<1>1. PICK ofLimit \in Quantity :
              /\ Tells(result.au, Truth(p), ofLimit, "g_per_tonne")
              /\ Reports(result.au, Truth(p), ofLimit, "g_per_tonne")
  BY ResultTells
<1> DEFINE t == Truth(p)
           m == result.au
           shown == ConvertedTo(m, u)
           to(q) == Convert(q, "g_per_tonne", u)
<1>2. t \in Fraction /\ Tells(m, t, ofLimit, "g_per_tonne") /\ Reports(m, t, ofLimit, "g_per_tonne")
  BY <1>1 DEF Tells
<1>3. \A q \in Fraction : to(q) \in Fraction /\ Convert(to(q), u, "ppm") = q
  <2>1. {"g_per_tonne", u} \subseteq MassFraction
    BY Units
  <2> QED BY <2>1, ConvertLaws, ShownInPpm
<1>4. /\ SameSign(to(t), t)
      /\ ofLimit # Nothing => ofLimit \in Fraction /\ (ofLimit \prec t <=> to(ofLimit) \prec to(t))
  <2>1. {"g_per_tonne", u} \subseteq MassFraction
    BY Units
  <2> QED BY <1>2, <2>1, ConvertLaws DEF Quantity
<1>5. u = "g_per_tonne" => \A q : to(q) = q
  BY DEF Convert
<1> HIDE DEF to, t, m
<1>6. CASE ofLimit # Nothing /\ t \preceq ofLimit /\ m = NonDetect(ofLimit, "g_per_tonne")
  <2>1. shown = NonDetect(to(ofLimit), u)
    BY <1>5, <1>6 DEF ConvertedTo, NonDetect, to
  <2>2. shown.censored = TRUE /\ shown.limit = to(ofLimit)
    BY <2>1 DEF NonDetect
  <2>3. t \preceq Convert(shown.limit, u, "ppm")
    BY <1>3, <1>4, <1>6, <2>2
  <2> QED BY <2>2, <2>3 DEF t, m
<1>7. CASE /\ Positive(t) /\ (ofLimit # Nothing => ofLimit \prec t)
           /\ m = Detected(t, "g_per_tonne", ofLimit)
  <2> DEFINE l == IF ofLimit = Nothing THEN Nothing ELSE to(ofLimit)
  <2>1. shown = Detected(to(t), u, l)
    BY <1>5, <1>7 DEF ConvertedTo, Detected, to
  <2>2. shown.censored = FALSE /\ shown.limit = l /\ shown.value = to(t)
    BY <2>1 DEF Detected
  <2>3. Positive(shown.value) /\ t = Convert(shown.value, u, "ppm")
    BY <1>2, <1>3, <1>4, <1>7, <2>2 DEF SameSign
  <2>4. shown.limit # Nothing => shown.limit \prec shown.value
    BY <1>4, <1>7, <2>2
  <2> QED BY <2>2, <2>3, <2>4 DEF t, m
<1> QED BY <1>2, <1>6, <1>7 DEF Reports

-----------------------------------------------------------------------------
(***************************************************************************)
(* The flux, the substitution and the columns of the row.                  *)
(***************************************************************************)
LEMMA FluxFollowsPortionInv == FiguresInv => FluxFollowsPortion
<1> SUFFICES ASSUME FiguresInv, NEW p \in Charged, NEW q \in Charged,
                    tray[p].recipe = tray[q].recipe, NEW r \in Reagents
             PROVE  (tray[p].flux[r] \otimes tray[q].portion)
                      = (tray[q].flux[r] \otimes tray[p].portion)
  BY DEF FluxFollowsPortion
<1> DEFINE a == tray[p].recipe.amounts[r]
           n == tray[p].recipe.portion
           w == tray[p].portion
           v == tray[q].portion
<1>1. tray[p].recipe \in Recipes /\ Weighs(w) /\ Weighs(v)
  BY SlotTypes DEF Charge
<1>2. n \in Fraction /\ Positive(n) /\ tray[p].recipe.amounts \in [Reagents -> Fraction]
  BY <1>1, FiguresAssumption
<1>3. a \in Fraction
  BY <1>2
<1>4. w \in Fraction /\ v \in Fraction /\ Positive(w) /\ Positive(v)
  BY <1>1 DEF Weighs
<1>5. tray[p].flux[r] = a \otimes (w \oslash n) /\ tray[q].flux[r] = a \otimes (v \oslash n)
  BY <1>2, <1>4 DEF FiguresInv, FluxIsScaled, ScaleFluxCharge
<1> HIDE DEF a, n, w, v
<1>6. w \oslash n \in Fraction /\ v \oslash n \in Fraction
  BY <1>2, <1>4, Closed
<1>7. (w \oslash n) \otimes v = (v \oslash n) \otimes w
  <2>1. (v \otimes w) \oslash n = v \otimes (w \oslash n) /\ (w \otimes v) \oslash n = w \otimes (v \oslash n)
    BY <1>2, <1>4, OverOfTimes
  <2>2. v \otimes w = w \otimes v
    BY <1>4, TimesCommutes
  <2>3. v \otimes (w \oslash n) = (w \oslash n) \otimes v /\ w \otimes (v \oslash n) = (v \oslash n) \otimes w
    BY <1>4, <1>6, TimesCommutes
  <2> QED BY <2>1, <2>2, <2>3
<1>8. (a \otimes (w \oslash n)) \otimes v = (a \otimes (v \oslash n)) \otimes w
  BY <1>3, <1>4, <1>6, <1>7, TimesAssociates
<1> QED BY <1>5, <1>8 DEF w, v

\* What stands in for a non-detect is a number no greater than its limit.
LEMMA SubstitutedIsBelow ==
    ASSUME NEW l \in Fraction, Positive(l), NEW u, NEW strategy \in Strategies
    PROVE  /\ Substituted(NonDetect(l, u), strategy) \in Fraction
           /\ Substituted(NonDetect(l, u), strategy) \preceq l
<1> DEFINE s == Substituted(NonDetect(l, u), strategy)
<1>1. s = CASE strategy = "zero" -> Whole(0)
            [] strategy = "half_dl" -> l \oslash Whole(2)
            [] strategy = "dl" -> l
  BY DEF Substituted, NonDetect
<1>2. Is(l, l.n, l.d) /\ l.n \in Nat \ {0} /\ l.d \in Nat \ {0}
  BY Sound DEF Positive
<1>3. CASE strategy = "zero"
  <2>1. Is(Whole(0), 0, 1) /\ Whole(0) \in Fraction
    BY WholeIs
  <2>2. Whole(0) \preceq l <=> 0 * l.d <= l.n * 1
    BY <1>2, <2>1, IsLess
  <2> QED BY <1>1, <1>2, <1>3, <2>1, <2>2
<1>4. CASE strategy = "half_dl"
  <2>1. Whole(2) \in Fraction /\ Positive(Whole(2)) /\ Is(Whole(2), 2, 1)
    BY WholePositive, WholeIs
  <2>2. l \oslash Whole(2) \in Fraction
    BY <2>1, Closed
  <2>3. Is(l \oslash Whole(2), l.n * 1, l.d * 2)
    BY <1>2, <2>1, IsOver
  <2>4. l \oslash Whole(2) \preceq l <=> (l.n * 1) * l.d <= l.n * (l.d * 2)
    BY <1>2, <2>3, IsLess
  <2>5. (l.n * 1) * l.d <= l.n * (l.d * 2)
    <3> DEFINE x == l.n * l.d
    <3>1. x \in Nat /\ (l.n * 1) * l.d = x /\ l.n * (l.d * 2) = 2 * x
      BY <1>2
    <3> HIDE DEF x
    <3> QED BY <3>1
  <2>6. s = l \oslash Whole(2)
    BY <1>1, <1>4
  <2> QED BY <2>2, <2>4, <2>5, <2>6
<1>5. CASE strategy = "dl"
  <2>1. s = l
    BY <1>1, <1>5
  <2> QED BY <2>1, Ordered
<1> QED BY <1>3, <1>4, <1>5 DEF Strategies

\* Two reports against one limit are ordered as the truth is.
LEMMA ReportsAreOrdered ==
    ASSUME NEW s \in Fraction, NEW t \in Fraction, s \preceq t,
           NEW l \in Quantity, PositiveOrNone(l), NEW u, NEW strategy \in Strategies,
           NEW m, Reports(m, s, l, u), NEW k, Reports(k, t, l, u)
    PROVE  Substituted(m, strategy) \preceq Substituted(k, strategy)
<1>1. /\ \A q, x : Substituted(Detected(q, u, x), strategy) = q
  BY DEF Substituted, Detected
<1>2. CASE l # Nothing /\ t \preceq l /\ k = NonDetect(l, u)
  <2>1. l \in Fraction /\ Positive(l)
    BY <1>2 DEF Quantity, PositiveOrNone
  <2>2. s \preceq l
    BY <1>2, <2>1, Transitive
  <2>3. ~(l \prec s)
    BY <2>1, <2>2, Ordered
  <2>4. m = NonDetect(l, u)
    BY <1>2, <2>3 DEF Reports
  <2>5. Substituted(NonDetect(l, u), strategy) \in Fraction
    BY <2>1, SubstitutedIsBelow
  <2> QED BY <1>2, <2>4, <2>5, Ordered
<1>3. CASE (l # Nothing => l \prec t) /\ k = Detected(t, u, l)
  <2>1. CASE m = Detected(s, u, l)
    BY <1>1, <1>3, <2>1
  <2>2. CASE l # Nothing /\ m = NonDetect(l, u)
    <3>1. l \in Fraction /\ Positive(l)
      BY <2>2 DEF Quantity, PositiveOrNone
    <3>2. /\ Substituted(NonDetect(l, u), strategy) \in Fraction
          /\ Substituted(NonDetect(l, u), strategy) \preceq l
      BY <3>1, SubstitutedIsBelow
    <3>3. l \preceq t
      BY <1>3, <2>2, <3>1, Ordered
    <3>4. Substituted(NonDetect(l, u), strategy) \preceq t
      BY <3>1, <3>2, <3>3, Transitive
    <3> QED BY <1>1, <1>3, <2>2, <3>4
  <2> QED BY <2>1, <2>2 DEF Reports
<1> QED BY <1>2, <1>3 DEF Reports

\* The slot a result came from, and which finish it was.
LEMMA SlotOfResult ==
    ASSUME FiguresInv, result # Nothing
    PROVE  \E p \in Holding({"primary"}) :
              /\ p \in Charged /\ result \in Row
              /\ \/ /\ Weighed(p, result) /\ result.unit = Nothing /\ result.bead # Nothing
                    /\ result.bead = gold[p] /\ result.portion = tray[p].portion
                 \/ /\ ReadOff(p, result) /\ result.unit # Nothing /\ result.bead = Nothing
<1>1. PICK p \in Holding({"primary"}) : Weighed(p, result) \/ ReadOff(p, result)
  BY DEF FiguresInv, ResultIsOfThePrimary
<1>2. p \in Charged /\ result \in Row
  BY DEF Holding, FiguresInv, FiguresTypeOK
<1>3. CASE Weighed(p, result)
  BY <1>2, <1>3, SlotTypes DEF Weighed
<1>4. CASE ReadOff(p, result)
  BY <1>2, <1>4, NothingIsNoValue DEF ReadOff
<1> QED BY <1>1, <1>2, <1>3, <1>4

\* The result and the lighter bead were reported against one limit.
LEMMA MoreGoldNeverReadsLowerInv == FiguresInv => MoreGoldNeverReadsLower
<1> SUFFICES ASSUME FiguresInv, result # Nothing, result.bead # Nothing, NEW g \in Gold,
                    NEW strategy \in Strategies, g \preceq result.bead,
                    GravimetricGrade(g, result.portion, result.limit) # Nothing
             PROVE  Substituted(GravimetricGrade(g, result.portion, result.limit), strategy)
                      \preceq Substituted(result.au, strategy)
  BY DEF MoreGoldNeverReadsLower
<1>1. PICK p \in Charged : /\ Weighed(p, result) /\ result \in Row
                           /\ result.bead = gold[p] /\ result.portion = tray[p].portion
  BY SlotOfResult
<1> DEFINE b == result.bead  w == result.portion  limit == result.limit
           less == GravimetricGrade(g, w, limit)
<1>2. /\ b \in Fraction /\ b.n >= 0 /\ g \in Fraction /\ g.n >= 0 /\ Weighs(w)
      /\ limit \in Quantity /\ PositiveOrNone(limit) /\ result.au # Nothing
      /\ result.au = GravimetricGrade(b, w, limit)
  BY <1>1, SlotTypes, Assumed, NothingIsNoValue DEF Weighed, Row, Quantity
<1>3. g \preceq b /\ less # Nothing
  OBVIOUS
<1> DEFINE au == result.au  u == "g_per_tonne"  l == OfLimit(limit, w)
           s == BeadGrade(g, w)  t == BeadGrade(b, w)
<1> HIDE DEF b, w, limit, less
<1>4. Tells(less, s, l, u) /\ Tells(au, t, l, u)
  BY <1>2, GravimetricTells DEF less
<1>5. s \preceq t
  BY <1>2, <1>3, BeadGradeLaws
<1> HIDE DEF au, s, t, l, u
<1>6. /\ Reports(less, s, l, u) /\ Reports(au, t, l, u)
      /\ s \in Fraction /\ t \in Fraction /\ l \in Quantity /\ PositiveOrNone(l)
  BY <1>2, <1>3, <1>4 DEF Tells, au
<1>7. Substituted(less, strategy) \preceq Substituted(au, strategy)
  BY <1>5, <1>6, ReportsAreOrdered
<1> QED BY <1>7 DEF less, au, w, limit

\* Silver by difference and gold are the whole bead.
LEMMA SilverIsTheRest ==
    ASSUME NEW b \in Fraction, NEW s \in Fraction, NEW w, Weighs(w),
           SilverByDifference(b \oplus s, b, w) # Nothing
    PROVE  BeadGrade(b \oplus s, w)
             = (SilverByDifference(b \oplus s, b, w).value \oplus BeadGrade(b, w))
<1>1. SilverByDifference(b \oplus s, b, w).value = BeadGrade((b \oplus s) \ominus b, w)
  BY DEF SilverByDifference, Detected
<1>2. (b \oplus s) \ominus b = s
  BY PlusMinus
<1>3. BeadGrade(b \oplus s, w) = (BeadGrade(b, w) \oplus BeadGrade(s, w))
      /\ BeadGrade(b, w) \in Fraction /\ BeadGrade(s, w) \in Fraction
  BY BeadGradeLaws
<1>4. (BeadGrade(b, w) \oplus BeadGrade(s, w)) = (BeadGrade(s, w) \oplus BeadGrade(b, w))
  BY <1>3, PlusMinus
<1> QED BY <1>1, <1>2, <1>3, <1>4

\* A row was computed from its own columns.
LEMMA RowGivesItsGradeAgainInv == FiguresInv => RowGivesItsGradeAgain
<1> SUFFICES ASSUME FiguresInv, result # Nothing
             PROVE  /\ result.au = IF result.unit = Nothing
                          THEN GravimetricGrade(result.bead, result.portion, result.limit)
                          ELSE SolutionFinishGrade(result.concentration, result.unit, Volume,
                                                   result.portion, result.limit, Nothing)
                    /\ result.silver # Nothing => \E s \in Silver :
                          BeadGrade(result.bead \oplus s, result.portion)
                            = (result.silver.value \oplus BeadGrade(result.bead, result.portion))
  BY DEF RowGivesItsGradeAgain
<1>1. PICK p \in Charged :
              \/ /\ Weighed(p, result) /\ result.unit = Nothing /\ result.bead # Nothing
                 /\ result.bead = gold[p] /\ result.portion = tray[p].portion
              \/ /\ ReadOff(p, result) /\ result.unit # Nothing /\ result.bead = Nothing
  BY SlotOfResult
<1>2. CASE ReadOff(p, result) /\ result.unit # Nothing
  BY <1>2 DEF ReadOff
<1>3. CASE /\ Weighed(p, result) /\ result.unit = Nothing
           /\ result.bead = gold[p] /\ result.portion = tray[p].portion
  <2>1. result.au = GravimetricGrade(result.bead, result.portion, result.limit)
    BY <1>3 DEF Weighed
  <2>2. ASSUME result.silver # Nothing
        PROVE  \E s \in Silver : BeadGrade(result.bead \oplus s, result.portion)
                 = (result.silver.value \oplus BeadGrade(result.bead, result.portion))
    <3>1. PICK s \in Silver :
             result.silver = SilverByDifference(result.bead \oplus s, result.bead, result.portion)
      BY <1>3, <2>2 DEF Weighed
    <3>2. s \in Fraction /\ result.bead \in Fraction /\ Weighs(result.portion)
      BY <1>3, SlotTypes, FiguresAssumption
    <3> QED BY <2>2, <3>1, <3>2, SilverIsTheRest
  <2> QED BY <1>3, <2>1, <2>2
<1> QED BY <1>1, <1>2, <1>3

-----------------------------------------------------------------------------
(***************************************************************************)
(* The finishes.                                                           *)
(***************************************************************************)
\* A report is determined by what it reports.
LEMMA TellsIsOne ==
    ASSUME NEW m, NEW k, NEW t, NEW l, NEW u, Tells(m, t, l, u), Tells(k, t, l, u)
    PROVE  m = k
<1>1. m = Nothing <=> k = Nothing
  BY DEF Tells
<1>2. CASE m = Nothing
  BY <1>1, <1>2
<1>3. CASE m # Nothing
  <2>1. Reports(m, t, l, u) /\ Reports(k, t, l, u) /\ t \in Fraction /\ l \in Quantity
    BY <1>1, <1>3 DEF Tells
  <2>2. l # Nothing => (t \preceq l <=> ~(l \prec t))
    BY <2>1, Ordered DEF Quantity
  <2> QED BY <2>1, <2>2 DEF Reports
<1> QED BY <1>2, <1>3

\* A grade in ppm, shown in another mass fraction and back in grams per tonne.
LEMMA BackInGrams ==
    ASSUME NEW q \in Fraction, NEW out \in MassFraction
    PROVE  Convert(Convert(q, "ppm", out), out, "g_per_tonne") = q
<1>1. {"ppm", out} \subseteq MassFraction
  BY Units
<1>2. Convert(q, "ppm", out) \in Fraction /\ Convert(Convert(q, "ppm", out), out, "ppm") = q
  BY <1>1, ConvertLaws
<1>3. CASE out = "ppm"
  BY <1>2, <1>3, PpmIsGramPerTonne DEF Convert
<1>4. CASE out = "g_per_tonne"
  BY <1>2, <1>4, PpmIsGramPerTonne DEF Convert
<1>5. CASE out # "ppm" /\ out # "g_per_tonne"
  <2>1. Factor["ppm"] = Factor["g_per_tonne"]
    BY DEF Factor
  <2>2. SameDimension(out, "ppm") /\ SameDimension(out, "g_per_tonne")
    BY Units DEF SameDimension
  <2>3. \A r : Convert(r, out, "ppm") = Convert(r, out, "g_per_tonne")
    BY <1>5, <2>1, <2>2 DEF Convert
  <2> QED BY <1>2, <2>3
<1> QED BY <1>3, <1>4, <1>5

\* The limit of a solution, set at so much gold.
LEMMA LimitOfFlask ==
    ASSUME NEW l \in Limit \cup {Nothing}, NEW unit \in MassConcentration, NEW w, Weighs(w)
    PROVE  FlaskOfLimit(Concentration(l, unit), unit, w) = OfLimit(l, w)
<1>1. Concentration(l, unit) = Nothing <=> l = Nothing
  BY ConcentrationOfLimit
<1>2. CASE l = Nothing
  BY <1>1, <1>2 DEF FlaskOfLimit, OfLimit
<1>3. CASE l # Nothing
  <2>1. l \in Fraction
    BY <1>3, Assumed
  <2>2. FlaskGrade(Concentration(l, unit), unit, Volume, w) = BeadGrade(l, w)
    BY <2>1, ConcentrationLaws
  <2> QED BY <1>1, <1>3, <2>2 DEF FlaskOfLimit, OfLimit
<1> QED BY <1>2, <1>3

\* The limit of an ICP reading, in the unit it is reported in.
OutOf(l, out) == IF l = Nothing THEN Nothing ELSE Convert(l, "ppm", out)

\* An ICP reading does, in every unit it can be put out in.
LEMMA ElementTells ==
    ASSUME NEW g \in Fraction, g.n >= 0, NEW w, Weighs(w), NEW unit \in MassConcentration,
           NEW limit \in Limit \cup {Nothing}, NEW out \in MassFraction
    PROVE  Tells(ElementGrade(Concentration(g, unit), unit, Volume, w, out,
                              Concentration(limit, unit)),
                 Convert(BeadGrade(g, w), "ppm", out), OutOf(OfLimit(limit, w), out), out)
<1> DEFINE c == Concentration(g, unit)
           k == Concentration(limit, unit)
           t == BeadGrade(g, w)
           l == OfLimit(limit, w)
           b == FlaskGrade(k, unit, Volume, w)
           to(q) == Convert(q, "ppm", out)
<1>1. c \in Fraction /\ SameSign(c, g) /\ FlaskGrade(c, unit, Volume, w) = t /\ c.n >= 0
  BY ConcentrationLaws DEF SameSign
<1>2. k \in Quantity /\ PositiveOrNone(k) /\ (k = Nothing <=> limit = Nothing)
  BY ConcentrationOfLimit
<1>3. ElementGrade(c, unit, Volume, w, out, k) = Reported(c, k, to(t), to(b), out)
  BY <1>1, <1>2, Assumed DEF ElementGrade, Readable, Weighs
<1>4. t \in Fraction /\ SameSign(t, g)
  BY BeadGradeLaws
<1>5. /\ {"ppm", out} \subseteq MassFraction /\ out \in DOMAIN Factor
  BY Units
<1>6. to(t) \in Fraction /\ SameSign(to(t), t)
  BY <1>4, <1>5, ConvertLaws
<1>7. SameSign(to(t), c)
  BY <1>1, <1>4, <1>6 DEF SameSign
<1>8. /\ OutOf(l, out) \in Quantity /\ (k = Nothing <=> OutOf(l, out) = Nothing)
      /\ k # Nothing => (/\ to(b) = OutOf(l, out) /\ SameSign(OutOf(l, out), k)
                         /\ c \preceq k <=> to(t) \preceq OutOf(l, out))
  <2>1. CASE limit = Nothing
    BY <1>2, <2>1 DEF OfLimit, OutOf, Quantity
  <2>2. CASE limit # Nothing
    <3>1. /\ limit \in Fraction /\ l = BeadGrade(limit, w) /\ l \in Fraction /\ l # Nothing
          /\ SameSign(l, limit)
      <4>1. limit \in Fraction
        BY <2>2, Assumed
      <4>2. BeadGrade(limit, w) \in Fraction /\ SameSign(BeadGrade(limit, w), limit)
        BY <4>1, BeadGradeLaws
      <4> QED BY <2>2, <4>1, <4>2, NothingIsNoValue DEF OfLimit
    <3>2. b = l /\ SameSign(k, limit) /\ (g \preceq limit <=> c \preceq k)
      BY <3>1, ConcentrationLaws
    <3>3. to(l) \in Fraction /\ SameSign(to(l), l) /\ (t \preceq l <=> to(t) \preceq to(l))
      BY <1>4, <1>5, <3>1, ConvertLaws
    <3>4. g \preceq limit <=> t \preceq l
      BY <3>1, BeadGradeLaws
    <3>5. to(b) = to(l) /\ OutOf(l, out) = to(l) /\ to(l) # Nothing
      BY <3>1, <3>2, <3>3, NothingIsNoValue DEF OutOf
    <3> HIDE DEF c, k, t, l, b, to
    <3>6. SameSign(to(l), k)
      BY <3>1, <3>2, <3>3 DEF SameSign
    <3> QED BY <1>2, <2>2, <3>2, <3>3, <3>4, <3>5, <3>6 DEF Quantity
  <2> QED BY <2>1, <2>2
<1> DEFINE x == to(t)  y == to(b)  z == OutOf(l, out)
<1>9. x \in Fraction /\ SameSign(x, c) /\ z \in Quantity /\ (k = Nothing <=> z = Nothing)
      /\ (k # Nothing => (y = z /\ SameSign(z, k) /\ (c \preceq k <=> x \preceq z)))
  BY <1>6, <1>7, <1>8
<1>10. ElementGrade(c, unit, Volume, w, out, k) = Reported(c, k, x, y, out)
  BY <1>3
<1> HIDE DEF x, y, z, c, k
<1>11. Tells(Reported(c, k, x, y, out), x, z, out)
  BY <1>1, <1>2, <1>5, <1>9, ReportedTells
<1> QED BY <1>10, <1>11 DEF x, z, c, k

\* An ICP reading shown in grams per tonne tells what the other finishes tell.
LEMMA IcpInGrams ==
    ASSUME NEW t \in Fraction, t.n >= 0, NEW l \in Quantity, PositiveOrNone(l),
           NEW out \in MassFraction, NEW m,
           Tells(m, Convert(t, "ppm", out), OutOf(l, out), out), m # Nothing
    PROVE  Tells(ConvertedTo(m, "g_per_tonne"), t, l, "g_per_tonne")
<1> DEFINE to(q) == Convert(q, "ppm", out)
           back(q) == Convert(q, out, "g_per_tonne")
           shown == ConvertedTo(m, "g_per_tonne")
<1>1. \A q \in Fraction : to(q) \in Fraction /\ back(to(q)) = q /\ SameSign(to(q), q)
  <2>1. {"ppm", out} \subseteq MassFraction
    BY Units
  <2> QED BY <2>1, BackInGrams, ConvertLaws
<1>2. l # Nothing => /\ l \in Fraction /\ OutOf(l, out) = to(l) /\ OutOf(l, out) # Nothing
                     /\ (l \prec t <=> to(l) \prec to(t))
                     /\ (t \preceq l <=> to(t) \preceq to(l))
  <2>1. {"ppm", out} \subseteq MassFraction
    BY Units
  <2> SUFFICES ASSUME l # Nothing
               PROVE  /\ l \in Fraction /\ OutOf(l, out) = to(l) /\ OutOf(l, out) # Nothing
                      /\ (l \prec t <=> to(l) \prec to(t))
                      /\ (t \preceq l <=> to(t) \preceq to(l))
    OBVIOUS
  <2>2. l \in Fraction
    BY DEF Quantity
  <2>3. to(l) \in Fraction /\ to(l) # Nothing
    BY <1>1, <2>2, NothingIsNoValue
  <2> QED BY <2>1, <2>2, <2>3, ConvertLaws DEF OutOf
<1>3. l = Nothing => OutOf(l, out) = Nothing
  BY DEF OutOf
<1>4. out = "g_per_tonne" => \A q : back(q) = q
  BY DEF Convert
<1>5. Reports(m, to(t), OutOf(l, out), out)
  BY DEF Tells
<1> HIDE DEF to, back
<1>6. CASE l # Nothing /\ t \preceq l /\ m = NonDetect(to(l), out)
  <2>1. shown = NonDetect(l, "g_per_tonne")
    BY <1>1, <1>2, <1>4, <1>6, NothingIsNoValue DEF ConvertedTo, NonDetect, back
  <2>2. NonDetect(l, "g_per_tonne") # Nothing
    BY <1>2, <1>6, Units, MeasuredTypes
  <2> HIDE DEF shown
  <2>3. Tells(shown, t, l, "g_per_tonne")
    BY <1>6, <2>1, <2>2 DEF Tells, Reports
  <2> QED BY <2>3 DEF shown
<1>7. CASE /\ Positive(t) /\ (l # Nothing => l \prec t)
           /\ m = Detected(to(t), out, OutOf(l, out))
  <2>1. shown = Detected(t, "g_per_tonne", l)
    <3>1. CASE l = Nothing
      BY <1>1, <1>3, <1>4, <1>7, <3>1 DEF ConvertedTo, Detected, back
    <3>2. CASE l # Nothing
      BY <1>1, <1>2, <1>4, <1>7, <3>2, NothingIsNoValue DEF ConvertedTo, Detected, back
    <3> QED BY <3>1, <3>2
  <2>2. Detected(t, "g_per_tonne", l) # Nothing
    BY Units, MeasuredTypes
  <2> HIDE DEF shown
  <2>3. t.n # 0
    BY <1>7, Sound DEF Positive
  <2>4. Tells(shown, t, l, "g_per_tonne")
    BY <1>7, <2>1, <2>2, <2>3 DEF Tells, Reports
  <2> QED BY <2>4 DEF shown
<1>8. Positive(to(t)) => Positive(t)
  BY <1>1 DEF SameSign
<1> QED BY <1>2, <1>3, <1>5, <1>6, <1>7, <1>8 DEF Reports

\* All three finishes report one truth against one limit, and there is one way to.
LEMMA FinishesAgreeInv == FiguresInv => FinishesAgree
<1> SUFFICES ASSUME FiguresInv, NEW p \in Holding({"primary"}), NEW limit \in Limit \cup {Nothing},
                    NEW unit \in MassConcentration, NEW out \in MassFraction
             PROVE  LET w == tray[p].portion
                        bead  == GravimetricGrade(gold[p], w, limit)
                        flask == SolutionFinishGrade(Concentration(gold[p], unit), unit, Volume, w,
                                                     Concentration(limit, unit), Nothing)
                        icp   == ElementGrade(Concentration(gold[p], unit), unit, Volume, w, out,
                                              Concentration(limit, unit))
                    IN  /\ BeadWeightForGrade(Truth(p), w) = gold[p]
                        /\ (bead = Nothing) <=> (flask = Nothing)
                        /\ (bead = Nothing) <=> (icp = Nothing)
                        /\ bead # Nothing => \A m \in {flask, ConvertedTo(icp, "g_per_tonne")} :
                              /\ m.censored = bead.censored
                              /\ Substituted(m, "dl") = Substituted(bead, "dl")
  BY DEF FinishesAgree
<1> DEFINE g == gold[p]
           w == tray[p].portion
           bead  == GravimetricGrade(g, w, limit)
           flask == SolutionFinishGrade(Concentration(g, unit), unit, Volume, w,
                                        Concentration(limit, unit), Nothing)
           icp   == ElementGrade(Concentration(g, unit), unit, Volume, w, out,
                                 Concentration(limit, unit))
           t == BeadGrade(g, w)
           l == OfLimit(limit, w)
<1>1. p \in Charged
  BY DEF Holding
<1>2. Weighs(w) /\ g \in Fraction /\ g.n >= 0 /\ limit \in Quantity /\ PositiveOrNone(limit)
  BY <1>1, SlotTypes, Assumed DEF Quantity, PositiveOrNone
<1>3. Truth(p) = t
  BY DEF Truth
<1> HIDE DEF g, w
<1>4. BeadWeightForGrade(t, w) = g
  BY <1>2, ForecastInverts
<1>5. Tells(bead, t, l, "g_per_tonne")
  BY <1>2, GravimetricTells
<1>6. Tells(flask, t, l, "g_per_tonne")
  <2>1. FlaskOfLimit(Concentration(limit, unit), unit, w) = l
    BY <1>2, LimitOfFlask
  <2>2. Concentration(limit, unit) \in Quantity /\ PositiveOrNone(Concentration(limit, unit))
    BY ConcentrationOfLimit
  <2>3. Tells(flask, t, FlaskOfLimit(Concentration(limit, unit), unit, w), "g_per_tonne")
    BY <1>2, <2>2, SolutionTells
  <2> QED BY <2>1, <2>3
<1>7. Tells(icp, Convert(t, "ppm", out), OutOf(l, out), out)
  BY <1>2, ElementTells
<1> HIDE DEF bead, flask, icp, t, l
<1>8. flask = bead
  BY <1>5, <1>6, TellsIsOne
<1>9. t \in Fraction /\ t.n >= 0 /\ l \in Quantity /\ PositiveOrNone(l)
  BY <1>5 DEF Tells
<1>10. bead = Nothing <=> icp = Nothing
  <2>1. {"ppm", out} \subseteq MassFraction
    BY Units
  <2>2. SameSign(Convert(t, "ppm", out), t)
    BY <1>9, <2>1, ConvertLaws
  <2>3. l = Nothing <=> OutOf(l, out) = Nothing
    <3>1. CASE l = Nothing
      BY <3>1 DEF OutOf
    <3>2. CASE l # Nothing
      <4>1. l \in Fraction
        BY <1>9, <3>2 DEF Quantity
      <4>2. Convert(l, "ppm", out) \in Fraction
        BY <2>1, <4>1, ConvertLaws
      <4> QED BY <3>2, <4>2, NothingIsNoValue DEF OutOf
    <3> QED BY <3>1, <3>2
  <2> QED BY <1>5, <1>7, <2>2, <2>3 DEF Tells, SameSign
<1>11. icp # Nothing => ConvertedTo(icp, "g_per_tonne") = bead
  <2> SUFFICES ASSUME icp # Nothing PROVE ConvertedTo(icp, "g_per_tonne") = bead
    OBVIOUS
  <2>1. Tells(ConvertedTo(icp, "g_per_tonne"), t, l, "g_per_tonne")
    BY <1>7, <1>9, IcpInGrams
  <2> QED BY <1>5, <2>1, TellsIsOne
<1>12. /\ BeadWeightForGrade(Truth(p), w) = g
       /\ (bead = Nothing) <=> (flask = Nothing)
       /\ (bead = Nothing) <=> (icp = Nothing)
       /\ bead # Nothing => \A m \in {flask, ConvertedTo(icp, "g_per_tonne")} : m = bead
  BY <1>3, <1>4, <1>8, <1>10, <1>11
<1>13. bead # Nothing => \A m \in {flask, ConvertedTo(icp, "g_per_tonne")} :
          /\ m.censored = bead.censored
          /\ Substituted(m, "dl") = Substituted(bead, "dl")
  BY <1>12
<1> QED BY <1>12, <1>13 DEF bead, flask, icp, g, w

-----------------------------------------------------------------------------
(***************************************************************************)
(* The dossier.                                                            *)
(***************************************************************************)
\* The grade of a slot is that of its gold, or a flag says there is none.
LEMMA GradeOfTells ==
    ASSUME FiguresInv, NEW p \in Charged
    PROVE  /\ Truth(p) \in Fraction /\ (gold[p].n > 0 <=> Positive(Truth(p)))
           /\ Graded(p) => GradeOf(p) = [au |-> Detected(Truth(p), "g_per_tonne", Nothing),
                                         flags |-> {}]
           /\ ~Graded(p) => /\ GradeOf(p).au = Nothing /\ GradeOf(p).flags # {}
                            /\ GradeOf(p).flags \subseteq
                                  {"not_yet_weighed", "grade_requires_balance_sensitivity"}
<1> DEFINE t == Truth(p)
           m == GravimetricGrade(tray[p].bead, tray[p].portion, Nothing)
<1>1. /\ Weighs(tray[p].portion) /\ gold[p] \in Fraction /\ gold[p].n >= 0
      /\ tray[p].bead \in {Nothing, gold[p]} /\ gold[p].n \in Int
  BY SlotTypes, Sound
<1>2. t \in Fraction /\ SameSign(t, gold[p])
  BY <1>1, BeadGradeLaws DEF Truth
<1>3. gold[p].n > 0 <=> Positive(t)
  BY <1>2 DEF SameSign, Positive
<1>4. CASE tray[p].bead = Nothing
  BY <1>2, <1>3, <1>4 DEF GradeOf, Graded
<1>5. CASE tray[p].bead # Nothing
  <2>1. tray[p].bead = gold[p]
    BY <1>1, <1>5
  <2>2. Tells(m, t, OfLimit(Nothing, tray[p].portion), "g_per_tonne")
    <3>1. Nothing \in Quantity /\ PositiveOrNone(Nothing)
      BY DEF Quantity, PositiveOrNone
    <3> QED BY <1>1, <2>1, <3>1, GravimetricTells DEF Truth
  <2>3. OfLimit(Nothing, tray[p].portion) = Nothing
    BY DEF OfLimit
  <2> HIDE DEF t, m
  <2>4. /\ t.n > 0 => m = Detected(t, "g_per_tonne", Nothing) /\ m # Nothing
        /\ ~(t.n > 0) => m = Nothing
    <3>1. t.n \in Int
      BY <1>2, Sound
    <3> QED BY <2>2, <2>3, <3>1 DEF Tells, Reports, Positive
  <2>5. GradeOf(p) = [au |-> m, flags |-> IF m = Nothing
                                          THEN {"grade_requires_balance_sensitivity"} ELSE {}]
    BY <1>5 DEF GradeOf, m
  <2>6. Graded(p) <=> t.n > 0
    BY <1>3, <1>5 DEF Graded, Positive
  <2> QED BY <1>2, <1>3, <2>4, <2>5, <2>6 DEF t
<1> QED BY <1>4, <1>5

\* The original of a tray is its one primary charge.
LEMMA OriginalIs ==
    ASSUME FiguresInv, NEW p \in Holding({"primary"})
    PROVE  Original = GradeOf(p)
<1>1. (CHOOSE q \in Holding({"primary"}) : TRUE) \in Holding({"primary"})
  OBVIOUS
<1>2. (CHOOSE q \in Holding({"primary"}) : TRUE) = p
  BY <1>1 DEF FiguresInv, OnePrimary
<1>3. Holding({"primary"}) # {}
  OBVIOUS
<1> QED BY <1>2, <1>3 DEF Original

\* The dossier grades the bead the result was made from, without a limit.
LEMMA DossierAgreesWithResultInv == FiguresInv => DossierAgreesWithResult
<1> SUFFICES ASSUME FiguresInv, result # Nothing, Original.au # Nothing
             PROVE  /\ IsDetected(Original.au)
                    /\ IF result.au.censored THEN Original.au.value \preceq result.au.limit
                       ELSE Original.au.value = result.au.value
  BY DEF DossierAgreesWithResult
<1>1. PICK p \in Holding({"primary"}) : p \in Charged
  BY SlotOfResult
<1>2. Original = GradeOf(p)
  BY OriginalIs
<1>3. PICK ofLimit \in Quantity : Reports(result.au, Truth(p), ofLimit, "g_per_tonne")
  BY ResultTells
<1>4. Original.au = Detected(Truth(p), "g_per_tonne", Nothing)
  <2>1. Graded(p)
    BY <1>1, <1>2, GradeOfTells
  <2> QED BY <1>1, <1>2, <2>1, GradeOfTells
<1>5. IsDetected(Original.au) /\ Original.au.value = Truth(p)
  BY <1>4 DEF IsDetected, Detected
<1>6. \/ /\ Truth(p) \preceq ofLimit /\ result.au.censored = TRUE /\ result.au.limit = ofLimit
      \/ /\ result.au.censored = FALSE /\ result.au.value = Truth(p)
  BY <1>3 DEF Reports, Detected, NonDetect
<1> QED BY <1>5, <1>6

\* The score of a standard leads back to its grade.
LEMMA ScoreGivesTheGrade ==
    ASSUME NEW t \in Fraction, NEW c \in Fraction, NEW u \in Fraction, Positive(u)
    PROVE  /\ CrmZScore(Detected(t, "g_per_tonne", Nothing), c, u).z \in Fraction
           /\ ((CrmZScore(Detected(t, "g_per_tonne", Nothing), c, u).z \otimes u) \oplus c) = t
<1>1. CrmZScore(Detected(t, "g_per_tonne", Nothing), c, u).z = (t \ominus c) \oslash u
  <2>1. IsDetected(Detected(t, "g_per_tonne", Nothing)) /\ Detected(t, "g_per_tonne", Nothing).value = t
    <3>1. Detected(t, "g_per_tonne", Nothing) # Nothing
      BY Units, MeasuredTypes DEF Quantity
    <3> QED BY <3>1 DEF IsDetected, Detected
  <2> QED BY <2>1 DEF CrmZScore
<1>2. t \ominus c \in Fraction
  BY Closed
<1>3. (t \ominus c) \oslash u \in Fraction
  BY <1>2, Closed
<1>4. ((t \ominus c) \oslash u) \otimes u = t \ominus c
  BY <1>2, OverTimes
<1>5. ((t \ominus c) \oplus c) = t
  BY PlusMinus
<1> QED BY <1>1, <1>3, <1>4, <1>5

\* A pair of duplicates: the difference over the mean, without the division.
LEMMA PairOfDetected ==
    ASSUME NEW o \in Fraction, Positive(o), NEW d \in Fraction, Positive(d), NEW max \in Fraction
    PROVE  LET pair   == DuplicatePair(Detected(o, "g_per_tonne", Nothing),
                                       Detected(d, "g_per_tonne", Nothing), max)
               spread == Distance(d, o) \otimes Whole(200)
               sum    == d \oplus o
           IN  /\ pair.rpd \in Fraction
               /\ (pair.rpd \otimes sum) = spread
               /\ pair.flags = IF (max \otimes sum) \prec spread
                               THEN {"duplicate_rpd_above_max"} ELSE {}
<1> DEFINE sum  == d \oplus o
           two  == Whole(2)
           hun  == Whole(100)
           dist == Distance(d, o)
           mean == (o \oplus d) \oslash two
           x    == dist \oslash mean
           rpd  == x \otimes hun
           pair == DuplicatePair(Detected(o, "g_per_tonne", Nothing),
                                 Detected(d, "g_per_tonne", Nothing), max)
<1>1. two \in Fraction /\ Positive(two) /\ hun \in Fraction /\ Positive(hun)
      /\ Is(two, 2, 1) /\ Is(hun, 100, 1) /\ Is(Whole(200), 200, 1)
  BY WholePositive, WholeIs
<1>2. sum \in Fraction /\ (o \oplus d) = sum /\ Positive(sum)
  <2>1. sum \in Fraction /\ (o \oplus d) = sum
    BY Closed, PlusMinus
  <2>2. /\ Is(d, d.n, d.d) /\ Is(o, o.n, o.d) /\ d.n \in Nat \ {0} /\ d.d \in Nat \ {0}
        /\ o.n \in Nat \ {0} /\ o.d \in Nat \ {0}
    BY Sound DEF Positive
  <2>3. Is(sum, d.n * o.d + o.n * d.d, d.d * o.d)
    BY <2>2, IsPlus
  <2>4. d.n * o.d + o.n * d.d > 0
    <3>1. d.n * o.d \in Nat \ {0} /\ o.n * d.d \in Nat \ {0}
      BY <2>2
    <3> QED BY <3>1
  <2>5. sum.n > 0
    BY <2>3, <2>4, IsSigned
  <2> QED BY <2>1, <2>5 DEF Positive
<1>3. dist \in Fraction
  <2>1. (d \ominus o) \in Fraction /\ (o \ominus d) \in Fraction
    BY Closed
  <2> QED BY <2>1 DEF Distance
<1>4. mean \in Fraction /\ Positive(mean) /\ mean \otimes two = sum /\ mean.n # 0
  <2> HIDE DEF sum, two
  <2>1. mean = sum \oslash two
    BY <1>2
  <2>2. sum \oslash two \in Fraction /\ (sum \oslash two) \otimes two = sum
    BY <1>1, <1>2, Closed, OverTimes
  <2>3. SameSign(sum \oslash two, sum)
    BY <1>1, <1>2, OverKeepsSign
  <2>4. (sum \oslash two).n \in Int
    BY <2>2, Sound
  <2> QED BY <1>2, <2>1, <2>2, <2>3, <2>4 DEF SameSign, Positive
<1> HIDE DEF mean, dist, two, hun, sum
<1>5. x \in Fraction /\ x \otimes mean = dist /\ rpd \in Fraction
  <2>1. x \in Fraction /\ x \otimes mean = dist
    BY <1>3, <1>4, Closed, OverTimes
  <2> HIDE DEF x
  <2> QED BY <1>1, <2>1, Closed
<1> HIDE DEF x
<1>6. rpd \otimes sum = dist \otimes Whole(200)
  <2>1. rpd \otimes sum = x \otimes (hun \otimes (mean \otimes two))
    <3>1. mean \otimes two \in Fraction
      BY <1>1, <1>4, Closed
    <3> QED BY <1>1, <1>4, <1>5, <3>1, TimesAssociates
  <2>2. hun \otimes (mean \otimes two) = mean \otimes Whole(200)
    <3>1. hun \otimes (mean \otimes two) = (mean \otimes two) \otimes hun
      <4>1. mean \otimes two \in Fraction
        BY <1>1, <1>4, Closed
      <4> QED BY <1>1, <4>1, TimesCommutes
    <3>2. (mean \otimes two) \otimes hun = mean \otimes (two \otimes hun)
      BY <1>1, <1>4, TimesAssociates
    <3>3. two \otimes hun = Whole(200)
      <4>1. Is(two \otimes hun, 2 * 100, 1 * 1)
        BY <1>1, IsTimes
      <4> QED BY <1>1, <4>1, SameNumber
    <3> QED BY <3>1, <3>2, <3>3
  <2>3. x \otimes (mean \otimes Whole(200)) = (x \otimes mean) \otimes Whole(200)
    <3>1. Whole(200) \in Fraction
      BY WholePositive
    <3> QED BY <1>4, <1>5, <3>1, TimesAssociates
  <2> QED BY <1>5, <2>1, <2>2, <2>3
<1>7. max \prec rpd <=> (max \otimes sum) \prec (rpd \otimes sum)
  BY <1>2, <1>5, TimesKeepsOrder
<1>8. pair = [rpd |-> rpd, flags |-> IF max \prec rpd THEN {"duplicate_rpd_above_max"} ELSE {}]
  <2>1. /\ Detected(o, "g_per_tonne", Nothing) # Nothing
        /\ Detected(d, "g_per_tonne", Nothing) # Nothing
    BY Units, MeasuredTypes DEF Quantity
  <2>2. /\ IsDetected(Detected(o, "g_per_tonne", Nothing))
        /\ IsDetected(Detected(d, "g_per_tonne", Nothing))
        /\ Detected(o, "g_per_tonne", Nothing).value = o
        /\ Detected(d, "g_per_tonne", Nothing).value = d
    BY <2>1 DEF IsDetected, Detected
  <2> QED BY <1>4, <2>2 DEF DuplicatePair, mean, x, hun, two, dist
<1> HIDE DEF rpd, pair
<1>9. /\ pair.rpd \in Fraction
      /\ (pair.rpd \otimes sum) = dist \otimes Whole(200)
      /\ pair.flags = IF (max \otimes sum) \prec (dist \otimes Whole(200))
                      THEN {"duplicate_rpd_above_max"} ELSE {}
  BY <1>5, <1>6, <1>7, <1>8
<1> QED BY <1>9 DEF pair, sum, dist

\* A pair without a difference says why.
LEMMA PairSaysWhy ==
    ASSUME NEW o, NEW d, NEW max, ~IsDetected(o) \/ ~IsDetected(d)
    PROVE  DuplicatePair(o, d, max).flags # {}
BY DEF DuplicatePair

\* Blank, reference material, duplicate, and what has no number.
LEMMA FlagsFollowTheGoldInv == FiguresInv => FlagsFollowTheGold
<1> SUFFICES ASSUME FiguresInv, BuildDossier # Nothing
             PROVE
        /\ \A p \in Holding({"blank"}) :
              ("blank_above_threshold" \in BuildDossier.entries[p].flags)
                <=> (Graded(p) /\ Threshold \prec Truth(p))
        /\ \A p \in Holding({"crm"}) : Graded(p) =>
              ((BuildDossier.entries[p].z \otimes certified.uncertainty) \oplus certified.value)
                = Truth(p)
        /\ \A p \in Holding({"duplicate"}), q \in Holding({"primary"}) : (Graded(p) /\ Graded(q)) =>
              LET spread == Distance(Truth(p), Truth(q)) \otimes Whole(200)
                  sum    == Truth(p) \oplus Truth(q)
              IN  /\ (BuildDossier.duplicates[p].rpd \otimes sum) = spread
                  /\ ("duplicate_rpd_above_max" \in BuildDossier.duplicates[p].flags)
                        <=> ((MaxRpd \otimes sum) \prec spread)
        /\ \A p \in Holding(Stock) :
              (BuildDossier.entries[p].au = Nothing
                 \/ (tray[p].kind = "crm" /\ BuildDossier.entries[p].z = Nothing))
                => BuildDossier.entries[p].flags # {}
        /\ \A p \in Holding({"duplicate"}) :
              BuildDossier.duplicates[p].rpd = Nothing => BuildDossier.duplicates[p].flags # {}
        /\ Holding(Stock) = {} => BuildDossier.flags # {}
  BY DEF FlagsFollowTheGold
<1> DEFINE B == BuildDossier
           read(p) == Detected(Truth(p), "g_per_tonne", Nothing)
<1>1. /\ \A p \in Holding(Stock) : B.entries[p] = StockEntry(p)
      /\ \A p \in Holding({"duplicate"}) : B.duplicates[p] = DuplicateEntry(p)
      /\ B.flags = IF Holding(Stock) = {} THEN {"no_qc_inserted"} ELSE {}
  BY DEF BuildDossier
<1>2. /\ \A K : Holding(K) \subseteq Charged
      /\ Holding({"blank"}) \subseteq Holding(Stock) /\ Holding({"crm"}) \subseteq Holding(Stock)
      /\ \A p \in Holding(Stock) : tray[p].kind = "blank" \/ tray[p].kind = "crm"
      /\ \A p \in Holding({"blank"}) : tray[p].kind = "blank"
      /\ \A p \in Holding({"crm"}) : tray[p].kind = "crm"
  BY DEF Holding, Stock
<1>3. \A p \in Charged :
         /\ Truth(p) \in Fraction /\ IsDetected(read(p)) /\ read(p) # Nothing
         /\ read(p).value = Truth(p)
  <2> SUFFICES ASSUME NEW p \in Charged
               PROVE  /\ Truth(p) \in Fraction /\ IsDetected(read(p)) /\ read(p) # Nothing
                      /\ read(p).value = Truth(p)
    OBVIOUS
  <2>1. Truth(p) \in Fraction
    BY GradeOfTells
  <2>2. read(p) # Nothing
    BY <2>1, Units, MeasuredTypes DEF Quantity
  <2> QED BY <2>1, <2>2 DEF IsDetected, Detected
<1>4. certified.value \in Fraction /\ certified.uncertainty \in Fraction
      /\ Positive(certified.uncertainty)
  BY FiguresAssumption DEF FiguresInv, FiguresTypeOK
<1> DEFINE score(p) == CrmZScore(read(p), certified.value, certified.uncertainty)
<1>5. ASSUME NEW p \in Charged, ~Graded(p), tray[p].kind \in Stock
      PROVE  /\ StockEntry(p) = [au |-> Nothing, z |-> Nothing, flags |-> GradeOf(p).flags]
             /\ GradeOf(p).flags # {} /\ "blank_above_threshold" \notin GradeOf(p).flags
  <2>1. /\ GradeOf(p).au = Nothing /\ GradeOf(p).flags # {}
        /\ GradeOf(p).flags \subseteq {"not_yet_weighed", "grade_requires_balance_sensitivity"}
    BY <1>5, GradeOfTells
  <2>2. StockEntry(p) = [au |-> Nothing, z |-> Nothing, flags |-> GradeOf(p).flags]
    BY <2>1 DEF StockEntry
  <2> QED BY <2>1, <2>2
<1>6. ASSUME NEW p \in Charged, Graded(p), tray[p].kind = "blank"
      PROVE  /\ StockEntry(p).au = read(p) /\ StockEntry(p).z = Nothing
             /\ StockEntry(p).flags = BlankFlags(read(p), Threshold)
  <2>1. GradeOf(p).au = read(p) /\ GradeOf(p).flags = {}
    BY <1>6, GradeOfTells
  <2>2. read(p) # Nothing
    BY <1>3
  <2> HIDE DEF read
  <2>3. StockEntry(p) = [au |-> read(p), z |-> Nothing,
                         flags |-> {} \cup BlankFlags(read(p), Threshold)]
    BY <1>6, <2>1, <2>2 DEF StockEntry
  <2> QED BY <2>3
<1>7. ASSUME NEW p \in Charged, Graded(p), tray[p].kind = "crm"
      PROVE  StockEntry(p).au = read(p) /\ StockEntry(p).z = score(p).z
  <2>1. GradeOf(p).au = read(p) /\ GradeOf(p).flags = {}
    BY <1>7, GradeOfTells
  <2>2. read(p) # Nothing
    BY <1>3
  <2> HIDE DEF read
  <2>3. StockEntry(p) = [au |-> read(p), z |-> score(p).z, flags |-> {} \cup score(p).flags]
    BY <1>7, <2>1, <2>2 DEF StockEntry
  <2> QED BY <2>3
<1>8. \A p \in Charged : /\ score(p).z \in Fraction
                         /\ ((score(p).z \otimes certified.uncertainty) \oplus certified.value)
                              = Truth(p)
  BY <1>3, <1>4, ScoreGivesTheGrade
<1>9. ASSUME NEW p \in Holding({"blank"})
      PROVE  ("blank_above_threshold" \in B.entries[p].flags)
                <=> (Graded(p) /\ Threshold \prec Truth(p))
  <2>1. p \in Charged /\ tray[p].kind = "blank" /\ B.entries[p] = StockEntry(p)
    BY <1>1, <1>2, <1>9
  <2>2. CASE Graded(p)
    <3>1. B.entries[p].flags = BlankFlags(read(p), Threshold)
      BY <1>6, <2>1, <2>2
    <3>2. IsDetected(read(p)) /\ read(p).value = Truth(p)
      BY <1>3, <2>1
    <3> QED BY <2>2, <3>1, <3>2 DEF BlankFlags
  <2>3. CASE ~Graded(p)
    BY <1>5, <2>1, <2>3 DEF Stock
  <2> QED BY <2>2, <2>3
<1>10. ASSUME NEW p \in Holding({"crm"}), Graded(p)
       PROVE  ((B.entries[p].z \otimes certified.uncertainty) \oplus certified.value) = Truth(p)
  <2>1. p \in Charged /\ tray[p].kind = "crm" /\ B.entries[p] = StockEntry(p)
    BY <1>1, <1>2, <1>10
  <2>2. B.entries[p].z = score(p).z
    BY <1>7, <1>10, <2>1
  <2> QED BY <1>8, <2>1, <2>2
<1>11. ASSUME NEW p \in Holding(Stock),
              B.entries[p].au = Nothing \/ (tray[p].kind = "crm" /\ B.entries[p].z = Nothing)
       PROVE  B.entries[p].flags # {}
  <2>1. p \in Charged /\ B.entries[p] = StockEntry(p)
        /\ (tray[p].kind = "blank" \/ tray[p].kind = "crm")
    BY <1>1, <1>2, <1>11
  <2>2. ~Graded(p)
    <3>1. read(p) # Nothing /\ score(p).z # Nothing
      BY <1>3, <1>8, <2>1, NothingIsNoValue
    <3> HIDE DEF read, score, B
    <3> QED BY <1>6, <1>7, <1>11, <2>1, <3>1
  <2> QED BY <1>5, <2>1, <2>2 DEF Stock
<1> DEFINE pair(p) == DuplicatePair(Original.au, GradeOf(p).au, MaxRpd)
<1>12. \A p : /\ DuplicateEntry(p).rpd = pair(p).rpd
              /\ DuplicateEntry(p).flags = GradeOf(p).flags \cup pair(p).flags
                                           \cup (Original.flags \cap {"original_not_in_batch"})
  BY DEF DuplicateEntry
<1>13. ASSUME NEW p \in Charged, Graded(p), NEW q \in Holding({"primary"}), Graded(q)
       PROVE  LET spread == Distance(Truth(p), Truth(q)) \otimes Whole(200)
                  sum    == Truth(p) \oplus Truth(q)
              IN  /\ DuplicateEntry(p).rpd \in Fraction
                  /\ (DuplicateEntry(p).rpd \otimes sum) = spread
                  /\ ("duplicate_rpd_above_max" \in DuplicateEntry(p).flags)
                        <=> ((MaxRpd \otimes sum) \prec spread)
  <2> DEFINE d == Truth(p)  o == Truth(q)
  <2>1. q \in Charged
    BY <1>2, <1>13
  <2>2. /\ d \in Fraction /\ o \in Fraction /\ Positive(d) /\ Positive(o)
        /\ GradeOf(p) = [au |-> Detected(d, "g_per_tonne", Nothing), flags |-> {}]
        /\ GradeOf(q) = [au |-> Detected(o, "g_per_tonne", Nothing), flags |-> {}]
    BY <1>13, <2>1, GradeOfTells DEF Graded, Positive
  <2>3. Original = GradeOf(q)
    BY <1>13, OriginalIs
  <2>4. MaxRpd \in Fraction
    BY Assumed DEF Weighs
  <2> HIDE DEF d, o
  <2>5. pair(p) = DuplicatePair(Detected(o, "g_per_tonne", Nothing),
                                Detected(d, "g_per_tonne", Nothing), MaxRpd)
    BY <2>2, <2>3
  <2> HIDE DEF pair
  <2>6. /\ pair(p).rpd \in Fraction
        /\ (pair(p).rpd \otimes (d \oplus o)) = Distance(d, o) \otimes Whole(200)
        /\ pair(p).flags = IF (MaxRpd \otimes (d \oplus o)) \prec (Distance(d, o) \otimes Whole(200))
                           THEN {"duplicate_rpd_above_max"} ELSE {}
    BY <2>2, <2>4, <2>5, PairOfDetected
  <2>7. DuplicateEntry(p).flags = pair(p).flags
    <3>1. GradeOf(p).flags = {} /\ Original.flags = {}
      BY <2>2, <2>3
    <3>2. DuplicateEntry(p).flags = {} \cup pair(p).flags \cup ({} \cap {"original_not_in_batch"})
      BY <1>12, <3>1
    <3>3. \A F : {} \cup F \cup ({} \cap {"original_not_in_batch"}) = F
      OBVIOUS
    <3> QED BY <3>2, <3>3
  <2> QED BY <1>12, <2>6, <2>7 DEF d, o
<1>14. ASSUME NEW p \in Holding({"duplicate"}), B.duplicates[p].rpd = Nothing
       PROVE  B.duplicates[p].flags # {}
  <2>1. p \in Charged /\ B.duplicates[p] = DuplicateEntry(p)
    BY <1>1, <1>2, <1>14
  <2>2. ~IsDetected(Original.au) \/ ~IsDetected(GradeOf(p).au)
    <3> SUFFICES ASSUME IsDetected(Original.au), IsDetected(GradeOf(p).au) PROVE FALSE
      OBVIOUS
    <3>1. Original.au # Nothing /\ GradeOf(p).au # Nothing
      BY DEF IsDetected
    <3>2. Graded(p)
      BY <2>1, <3>1, GradeOfTells
    <3>3. Holding({"primary"}) # {}
      BY <3>1 DEF Original
    <3>4. PICK q \in Holding({"primary"}) : TRUE
      BY <3>3
    <3>5. Graded(q)
      BY <1>2, <3>1, <3>4, OriginalIs, GradeOfTells
    <3>6. DuplicateEntry(p).rpd \in Fraction
      BY <1>13, <2>1, <3>2, <3>5
    <3> QED BY <1>14, <2>1, <3>6, NothingIsNoValue
  <2>3. pair(p).flags # {}
    BY <2>2, PairSaysWhy
  <2> HIDE DEF pair
  <2> QED BY <1>12, <2>1, <2>3
<1>15. ASSUME NEW p \in Holding({"duplicate"}), NEW q \in Holding({"primary"}), Graded(p), Graded(q)
       PROVE  LET spread == Distance(Truth(p), Truth(q)) \otimes Whole(200)
                  sum    == Truth(p) \oplus Truth(q)
              IN  /\ (B.duplicates[p].rpd \otimes sum) = spread
                  /\ ("duplicate_rpd_above_max" \in B.duplicates[p].flags)
                        <=> ((MaxRpd \otimes sum) \prec spread)
  BY <1>1, <1>2, <1>13, <1>15
<1>16. Holding(Stock) = {} => B.flags # {}
  BY <1>1
<1> QED BY <1>9, <1>10, <1>11, <1>14, <1>15, <1>16

-----------------------------------------------------------------------------
(***************************************************************************)
(* Every figure of a batch, its rows and its registers has its type.       *)
(***************************************************************************)
THEOREM FiguresTypes == FiguresSpec => []FiguresTypeOK
<1>1. FiguresInv => FiguresTypeOK
  BY DEF FiguresInv
<1> QED BY <1>1, FiguresInvHolds, PTL

(***************************************************************************)
(* A reported grade (domain/assay.py, stored by                            *)
(* fire_assay_results/service.py) is exactly the grade of the gold that    *)
(* was in the portion, or a limit that is not below it, in every unit it   *)
(* can be shown in.                                                        *)
(***************************************************************************)
THEOREM GradesTellTheTruth == FiguresSpec => []GradeTellsTheTruth
BY FiguresInvHolds, GradeTellsTheTruthInv, PTL

(***************************************************************************)
(* No lighter bead, weighed against the same portion and limit, reads      *)
(* higher than the result, whichever number stands in for a non-detect.    *)
(***************************************************************************)
THEOREM MoreGoldReadsHigher == FiguresSpec => []MoreGoldNeverReadsLower
BY FiguresInvHolds, MoreGoldNeverReadsLowerInv, PTL

(***************************************************************************)
(* The columns of a fire assay row give its stored grade again, and its    *)
(* silver by difference and its gold are the whole bead.                   *)
(***************************************************************************)
THEOREM RowsGiveTheirGradeAgain == FiguresSpec => []RowGivesItsGradeAgain
BY FiguresInvHolds, RowGivesItsGradeAgainInv, PTL

(***************************************************************************)
(* Two portions charged in one batch by one version of a recipe get each   *)
(* reagent in proportion to their weights, exactly.                        *)
(***************************************************************************)
THEOREM FluxIsByTheGram == FiguresSpec => []FluxFollowsPortion
BY FiguresInvHolds, FluxFollowsPortionInv, PTL

(***************************************************************************)
(* The balance, a solution in either unit and an ICP reading report one    *)
(* grade of the same gold, censor it alike, and refuse alike; the forecast *)
(* of the bead inverts it.                                                 *)
(***************************************************************************)
THEOREM AllFinishesAgree == FiguresSpec => []FinishesAgree
BY FiguresInvHolds, FinishesAgreeInv, PTL

(***************************************************************************)
(* The original that a QC dossier grades for itself                        *)
(* (qc_dossiers/service.py) does not contradict the result that was        *)
(* reported.                                                               *)
(***************************************************************************)
THEOREM DossiersAgreeWithResults == FiguresSpec => []DossierAgreesWithResult
BY FiguresInvHolds, DossierAgreesWithResultInv, PTL

(***************************************************************************)
(* The scores and flags of a dossier are those of the gold that was in the *)
(* slots, and an entry without a number says why.                          *)
(***************************************************************************)
THEOREM FlagsAreOfTheGold == FiguresSpec => []FlagsFollowTheGold
BY FiguresInvHolds, FlagsFollowTheGoldInv, PTL
=============================================================================
