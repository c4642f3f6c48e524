---------------------------- MODULE ValuesProofs ----------------------------
(***************************************************************************)
(* The properties of Values, for every width, group and payload: what the  *)
(* words of a register are decoded to, what a payload is written as, and   *)
(* why the two fit together.  Powers of two come first, which the provers  *)
(* know nothing of, then division and rounding to a float: its error, that *)
(* it is monotone, and that a scale of at most two bits divides and        *)
(* multiplies a word exactly.                                              *)
(***************************************************************************)
EXTENDS Values, NaturalsInduction, WellFoundedInduction, FiniteSetTheorems, TLAPS

-----------------------------------------------------------------------------
(* Powers of two *)

\* A set of naturals has a least element.
LEMMA LeastExists ==
    ASSUME NEW S \in SUBSET Nat, S # {}
    PROVE  \E x \in S : \A y \in S : x <= y
<1> DEFINE lt == {ss \in Nat \X Nat : ss[1] < ss[2]}
<1>1. IsWellFoundedOn(lt, Nat)
  <2>1. OpToRel(<, Nat) = lt
    BY Zenon DEF OpToRel
  <2> QED
    BY <2>1, NatLessThanWellFounded, Zenon
<1> HIDE DEF lt
<1>2. PICK x \in S : \A y \in S : ~(<<y, x>> \in lt)
  BY <1>1, WFMin, Zenon
<1>3. ASSUME NEW y \in S
      PROVE  x <= y
  <2>1. y \in Nat /\ x \in Nat
    OBVIOUS
  <2>2. ~(y < x)
    BY <1>2, <2>1 DEF lt
  <2> QED
    BY <2>1, <2>2
<1> QED
  BY <1>3

\* The greatest exponent of the table.
TableEnd == Mantissa + TopExponent

\* The widths are numbers and lie within the table.
LEMMA Widths ==
    /\ WordBits \in Nat \ {0} /\ IntBits \in Nat \ {0} /\ LongBits \in Nat \ {0}
    /\ Mantissa \in Nat \ {0} /\ ScaleBits \in Nat \ {0}
    /\ IntBits >= 2 * WordBits /\ LongBits >= IntBits /\ LongBits > 2 * WordBits
    /\ Mantissa > 2 * WordBits /\ LongBits <= TableEnd
    /\ TopExponent = 2 * WordBits + ScaleBits /\ TopExponent \in Nat
    /\ TableEnd = Mantissa + TopExponent /\ TableEnd \in Nat
BY ConstAssumption DEF TopExponent, TableEnd

\* The equation of Doubled has a solution, however long the table is.
LEMMA DoubledExists ==
    ASSUME NEW n \in Nat
    PROVE  \E f : f = [k \in 0..n |-> IF k = 0 THEN 1 ELSE 2 * f[k - 1]]
<1> DEFINE Solved(m) == \E f : f = [k \in 0..m |-> IF k = 0 THEN 1 ELSE 2 * f[k - 1]]
           Unsolved == {m \in Nat : ~Solved(m)}
<1>1. SUFFICES ASSUME Unsolved # {}
               PROVE  FALSE
  OBVIOUS
<1>2. PICK m \in Unsolved : \A x \in Unsolved : m <= x
  <2> HIDE DEF Unsolved
  <2>1. Unsolved \in SUBSET Nat
    BY DEF Unsolved
  <2> QED
    BY <1>1, <2>1, LeastExists
<1>3. CASE m = 0
  <2>1. [k \in 0..0 |-> 1] = [k \in 0..0 |-> IF k = 0 THEN 1 ELSE 2 * [j \in 0..0 |-> 1][k - 1]]
    OBVIOUS
  <2> QED
    BY <1>3, <2>1
<1>4. CASE m # 0
  <2>1. m \in Nat /\ m - 1 \in Nat /\ m - 1 \notin Unsolved
    <3> HIDE DEF Solved
    <3> QED
      BY <1>2, <1>4
  <2>2. PICK f : f = [k \in 0..(m - 1) |-> IF k = 0 THEN 1 ELSE 2 * f[k - 1]]
    BY <2>1
  <2> DEFINE g == [k \in 0..m |-> IF k = 0 THEN 1 ELSE 2 * f[k - 1]]
  <2>3. \A k \in 0..(m - 1) : g[k] = f[k]
    BY <2>1, <2>2
  <2>4. g = [k \in 0..m |-> IF k = 0 THEN 1 ELSE 2 * g[k - 1]]
    <3>1. \A k \in 0..m : k # 0 => k - 1 \in 0..(m - 1)
      BY <2>1
    <3> QED
      BY <2>3, <3>1
  <2>5. Solved(m)
    <3> HIDE DEF g
    <3> QED
      BY <2>4
  <2> QED
    BY <2>5
<1> QED
  BY <1>3, <1>4

\* What the table holds.
LEMMA TwoToFacts ==
    /\ TwoTo[0] = 1
    /\ \A n \in 0..TableEnd : TwoTo[n] \in Nat \ {0}
    /\ \A n \in 0..(TableEnd - 1) : TwoTo[n + 1] = 2 * TwoTo[n]
<1>0. TableEnd \in Nat
  BY Widths
<1>1. TwoTo = [k \in 0..TableEnd |-> IF k = 0 THEN 1 ELSE 2 * TwoTo[k - 1]]
  <2>1. Doubled = [k \in 0..TableEnd |-> IF k = 0 THEN 1 ELSE 2 * Doubled[k - 1]]
    BY <1>0, DoubledExists DEF Doubled, TableEnd
  <2>2. TwoTo = [k \in 0..TableEnd |-> Doubled[k]]
    BY DEF TwoTo, TableEnd
  <2>3. TwoTo = Doubled
    BY <2>1, <2>2
  <2> QED
    BY <2>1, <2>3
<1>2. TwoTo[0] = 1
  BY <1>0, <1>1
<1>3. \A n \in 0..(TableEnd - 1) : TwoTo[n + 1] = 2 * TwoTo[n]
  BY <1>0, <1>1
<1>4. \A n \in 0..TableEnd : TwoTo[n] \in Nat \ {0}
  <2> DEFINE Bad == {n \in 0..TableEnd : TwoTo[n] \notin Nat \ {0}}
  <2>1. SUFFICES ASSUME Bad # {}
                 PROVE  FALSE
    OBVIOUS
  <2>2. PICK n \in Bad : \A x \in Bad : n <= x
    <3>1. Bad \in SUBSET Nat
      BY <1>0
    <3> HIDE DEF Bad
    <3> QED
      BY <2>1, <3>1, LeastExists
  <2>3. n \in Nat /\ n # 0
    BY <1>0, <1>2
  <2>4. n - 1 \in 0..(TableEnd - 1) /\ n - 1 \notin Bad /\ n - 1 \in 0..TableEnd
    BY <1>0, <2>2, <2>3
  <2>5. TwoTo[(n - 1) + 1] = 2 * TwoTo[n - 1]
    BY <1>3, <2>4
  <2> QED
    BY <2>3, <2>4, <2>5
<1> QED
  BY <1>2, <1>3, <1>4

\* Exponents add up.
LEMMA TwoToSum ==
    ASSUME NEW a \in Nat, NEW b \in Nat, a + b <= TableEnd
    PROVE  TwoTo[a + b] = TwoTo[a] * TwoTo[b]
<1>0. TableEnd \in Nat
  BY Widths
<1> DEFINE Bad == {n \in 0..(TableEnd - a) : TwoTo[a + n] # TwoTo[a] * TwoTo[n]}
<1>1. SUFFICES ASSUME Bad # {}
               PROVE  FALSE
  <2>1. b \in 0..(TableEnd - a)
    BY <1>0
  <2> QED
    BY <2>1, Zenon
<1>2. PICK n \in Bad : \A x \in Bad : n <= x
  <2>1. Bad \in SUBSET Nat
    BY <1>0
  <2> HIDE DEF Bad
  <2> QED
    BY <1>1, <2>1, LeastExists
<1>3. n \in Nat /\ a + n <= TableEnd /\ TwoTo[a + n] # TwoTo[a] * TwoTo[n]
  BY <1>0
<1>4. a \in 0..TableEnd /\ TwoTo[a] \in Nat
  BY <1>0, <1>3, TwoToFacts
<1>5. n # 0
  BY <1>3, <1>4, TwoToFacts
<1>6. n - 1 \in Nat /\ a + (n - 1) <= TableEnd /\ n - 1 \notin Bad
  BY <1>0, <1>2, <1>3, <1>5
<1>7. TwoTo[a + (n - 1)] = TwoTo[a] * TwoTo[n - 1]
  BY <1>0, <1>6
<1>8. TwoTo[n] = 2 * TwoTo[n - 1] /\ TwoTo[n - 1] \in Nat
  <2>1. n - 1 \in 0..(TableEnd - 1) /\ n - 1 \in 0..TableEnd /\ n = (n - 1) + 1
    BY <1>0, <1>3, <1>5
  <2> QED
    BY <2>1, TwoToFacts
<1>9. TwoTo[a + n] = 2 * TwoTo[a + (n - 1)]
  <2>1. a + (n - 1) \in 0..(TableEnd - 1) /\ a + n = (a + (n - 1)) + 1
    BY <1>0, <1>3, <1>5
  <2> QED
    BY <2>1, TwoToFacts
<1>10. 2 * (TwoTo[a] * TwoTo[n - 1]) = TwoTo[a] * (2 * TwoTo[n - 1])
  <2> DEFINE x == TwoTo[a]
             y == TwoTo[n - 1]
  <2>1. x \in Nat /\ y \in Nat
    BY <1>4, <1>8
  <2> HIDE DEF x, y
  <2>2. 2 * (x * y) = x * (2 * y)
    BY <2>1
  <2> QED
    BY <2>2 DEF x, y
<1> QED
  BY <1>3, <1>7, <1>8, <1>9, <1>10

\* A greater exponent makes a greater power.
LEMMA TwoToGrows ==
    ASSUME NEW a \in Nat, NEW b \in Nat, a <= b, b <= TableEnd
    PROVE  /\ TwoTo[a] \in Nat \ {0} /\ TwoTo[b] \in Nat \ {0}
           /\ TwoTo[a] <= TwoTo[b]
           /\ a < b => 2 * TwoTo[a] <= TwoTo[b]
<1>0. TableEnd \in Nat
  BY Widths
<1>1. /\ a \in 0..TableEnd /\ b \in 0..TableEnd /\ b - a \in 0..TableEnd
      /\ a + (b - a) <= TableEnd /\ b = a + (b - a)
  BY <1>0
<1>2. TwoTo[b] = TwoTo[a] * TwoTo[b - a]
  BY <1>1, TwoToSum
<1>3. TwoTo[a] \in Nat \ {0} /\ TwoTo[b] \in Nat \ {0} /\ TwoTo[b - a] \in Nat \ {0}
  BY <1>1, TwoToFacts
<1>4. TwoTo[a] <= TwoTo[b]
  <2> DEFINE x == TwoTo[a]
             y == TwoTo[b - a]
  <2>1. x \in Nat /\ y \in Nat \ {0}
    BY <1>3
  <2> HIDE DEF x, y
  <2>2. x <= x * y
    BY <2>1
  <2> QED
    BY <1>2, <2>2 DEF x, y
<1>5. ASSUME a < b
      PROVE  2 * TwoTo[a] <= TwoTo[b]
  <2>1. (b - a) - 1 \in 0..(TableEnd - 1) /\ (b - a) - 1 \in 0..TableEnd /\ b - a = ((b - a) - 1) + 1
    BY <1>0, <1>5
  <2>2. TwoTo[b - a] = 2 * TwoTo[(b - a) - 1] /\ TwoTo[(b - a) - 1] \in Nat \ {0}
    BY <2>1, TwoToFacts
  <2> DEFINE x == TwoTo[a]
             y == TwoTo[(b - a) - 1]
  <2>3. x \in Nat /\ y \in Nat \ {0}
    BY <1>3, <2>2
  <2> HIDE DEF x, y
  <2>4. 2 * x <= x * (2 * y)
    BY <2>3
  <2> QED
    BY <1>2, <2>2, <2>4 DEF x, y
<1> QED
  BY <1>3, <1>4, <1>5

-----------------------------------------------------------------------------
(* Rounding *)

\* Integer division.
LEMMA DivMod ==
    ASSUME NEW n \in Int, NEW d \in Nat \ {0}
    PROVE  /\ n \div d \in Int /\ n % d \in Nat /\ n % d < d
           /\ n = d * (n \div d) + (n % d)
           /\ n >= 0 => n \div d >= 0
OBVIOUS

\* A quotient is known by its remainder.
LEMMA DivIs ==
    ASSUME NEW n \in Int, NEW d \in Nat \ {0}, NEW q \in Int, d * q <= n, n < d * (q + 1)
    PROVE  n \div d = q
<1> DEFINE r == n - d * q
<1>1. r \in 0..(d - 1) /\ n = d * q + r
  OBVIOUS
<1> HIDE DEF r
<1> QED
  BY <1>1

\* Products of larger factors are larger.
LEMMA Times ==
    ASSUME NEW a \in Int, NEW b \in Int, NEW c \in Nat
    PROVE  /\ a * c \in Int
           /\ a <= b => a * c <= b * c
           /\ c # 0 /\ a < b => a * c < b * c
           /\ c # 0 /\ a * c <= b * c => a <= b
           /\ a * c < b * c => a < b
OBVIOUS

\* Nearest is within half a unit, and even when it is exactly half a unit off.
LEMMA NearestFacts ==
    ASSUME NEW n \in Nat, NEW d \in Nat \ {0}
    PROVE  /\ Nearest(n, d) \in Nat
           /\ 2 * (Nearest(n, d) * d) - d <= 2 * n
           /\ 2 * n <= 2 * (Nearest(n, d) * d) + d
           /\ 2 * n = 2 * (Nearest(n, d) * d) + d => Nearest(n, d) % 2 = 0
           /\ 2 * n = 2 * (Nearest(n, d) * d) - d => Nearest(n, d) % 2 = 0
<1> DEFINE q == n \div d
           r == n % d
<1>1. q \in Nat /\ r \in Nat /\ r < d /\ n = d * q + r
  BY DivMod
<1>2. Nearest(n, d) = IF 2 * r < d \/ (2 * r = d /\ q % 2 = 0) THEN q ELSE q + 1
  BY DEF Nearest
<1> HIDE DEF q, r
<1>3. d * q = q * d /\ q * d \in Nat /\ (q + 1) * d = q * d + d
  BY <1>1
<1>4. CASE 2 * r < d
  BY <1>1, <1>2, <1>3, <1>4
<1>5. CASE 2 * r = d /\ q % 2 = 0
  BY <1>1, <1>2, <1>3, <1>5
<1>6. CASE 2 * r = d /\ q % 2 # 0
  <2>1. (q + 1) % 2 = 0
    BY <1>1, <1>6
  <2> QED
    BY <1>1, <1>2, <1>3, <1>6, <2>1
<1>7. CASE 2 * r > d
  BY <1>1, <1>2, <1>3, <1>7
<1> QED
  BY <1>1, <1>4, <1>5, <1>6, <1>7

\* Rounding crosses no integer.
LEMMA NearestBounds ==
    ASSUME NEW n \in Nat, NEW d \in Nat \ {0}, NEW k \in Nat
    PROVE  /\ k * d <= n => k <= Nearest(n, d)
           /\ n <= k * d => Nearest(n, d) <= k
<1> DEFINE q == Nearest(n, d)
<1>1. q \in Nat /\ 2 * (q * d) - d <= 2 * n /\ 2 * n <= 2 * (q * d) + d
  BY NearestFacts
<1> HIDE DEF q
<1>2. q * d \in Nat /\ k * d \in Nat
  BY <1>1
<1>3. ASSUME k * d <= n, q < k
      PROVE  FALSE
  <2>1. q + 1 <= k /\ (q + 1) * d = q * d + d
    BY <1>1, <1>3
  <2>2. (q + 1) * d <= k * d
    BY <1>1, <2>1, Times
  <2> QED
    BY <1>1, <1>2, <1>3, <2>1, <2>2
<1>4. ASSUME n <= k * d, k < q
      PROVE  FALSE
  <2>1. k + 1 <= q /\ (k + 1) * d = k * d + d
    BY <1>1, <1>4
  <2>2. (k + 1) * d <= q * d
    BY <1>1, <2>1, Times
  <2> QED
    BY <1>1, <1>2, <1>4, <2>1, <2>2
<1> QED
  BY <1>1, <1>3, <1>4 DEF q

\* A larger fraction does not round to a smaller integer.
LEMMA NearestMonotone ==
    ASSUME NEW m \in Nat, NEW c \in Nat \ {0}, NEW n \in Nat, NEW d \in Nat \ {0},
           m * d <= n * c
    PROVE  Nearest(m, c) <= Nearest(n, d)
<1> DEFINE p == Nearest(m, c)
           q == Nearest(n, d)
<1>1. /\ p \in Nat /\ 2 * (p * c) - c <= 2 * m
      /\ q \in Nat /\ 2 * n <= 2 * (q * d) + d
      /\ 2 * m = 2 * (p * c) - c => p % 2 = 0
      /\ 2 * n = 2 * (q * d) + d => q % 2 = 0
  BY NearestFacts
<1> HIDE DEF p, q
<1>2. SUFFICES ASSUME q < p
               PROVE  FALSE
  BY <1>1 DEF p, q
<1>3. (2 * p - 1) * (c * d) <= 2 * (m * d)
  <2>1. (2 * (p * c) - c) * d <= (2 * m) * d
    BY <1>1, Times
  <2>2. (2 * (p * c) - c) * d = (2 * p - 1) * (c * d) /\ (2 * m) * d = 2 * (m * d)
    BY <1>1
  <2> QED
    BY <2>1, <2>2
<1>4. 2 * (n * c) <= (2 * q + 1) * (c * d)
  <2>1. (2 * n) * c <= (2 * (q * d) + d) * c
    BY <1>1, Times
  <2>2. (2 * (q * d) + d) * c = (2 * q + 1) * (c * d) /\ (2 * n) * c = 2 * (n * c)
    BY <1>1
  <2> QED
    BY <2>1, <2>2
<1>5. c * d \in Nat \ {0} /\ m * d \in Nat /\ n * c \in Nat
  OBVIOUS
<1>6. (2 * p - 1) * (c * d) <= (2 * q + 1) * (c * d)
  <2>1. (2 * p - 1) * (c * d) \in Int /\ (2 * q + 1) * (c * d) \in Int
    BY <1>1, <1>5
  <2> QED
    BY <1>3, <1>4, <1>5, <2>1
<1>7. 2 * p - 1 <= 2 * q + 1
  <2>1. 2 * p - 1 \in Int /\ 2 * q + 1 \in Int
    BY <1>1
  <2> QED
    BY <1>5, <1>6, <2>1, Times
<1>8. p = q + 1
  BY <1>1, <1>2, <1>7
<1>9. 2 * (m * d) = (2 * p - 1) * (c * d) /\ 2 * (n * c) = (2 * q + 1) * (c * d)
  <2>1. (2 * p - 1) * (c * d) = (2 * q + 1) * (c * d) /\ (2 * q + 1) * (c * d) \in Int
    <3>1. 2 * p - 1 = 2 * q + 1 /\ 2 * q + 1 \in Int
      BY <1>1, <1>8
    <3> QED
      BY <1>5, <3>1
  <2> QED
    BY <1>3, <1>4, <1>5, <2>1
<1>10. p % 2 = 0
  <2>1. (2 * m) * d = (2 * (p * c) - c) * d
    BY <1>1, <1>9
  <2>2. 2 * m = 2 * (p * c) - c
    <3>1. 2 * m \in Int /\ 2 * (p * c) - c \in Int
      BY <1>1
    <3> QED
      BY <2>1, <3>1
  <2> QED
    BY <1>1, <2>2
<1>11. q % 2 = 0
  <2>1. (2 * n) * c = (2 * (q * d) + d) * c
    BY <1>1, <1>9
  <2>2. 2 * n = 2 * (q * d) + d
    <3>1. 2 * n \in Int /\ 2 * (q * d) + d \in Int
      BY <1>1
    <3> QED
      BY <2>1, <3>1
  <2> QED
    BY <1>1, <2>2
<1> QED
  BY <1>1, <1>8, <1>10, <1>11

\* What fits under an exponent fits under a greater one.
LEMMA FitsGrows ==
    ASSUME NEW n \in Nat, NEW d \in Nat \ {0}, NEW a \in Nat, NEW b \in 0..TopExponent,
           a <= b, Fits(n, d, a)
    PROVE  Fits(n, d, b)
<1>1. /\ Mantissa + a \in Nat /\ Mantissa + b \in Nat /\ Mantissa + a <= Mantissa + b
      /\ Mantissa + b <= TableEnd
  BY Widths
<1>2. /\ TwoTo[Mantissa + a] \in Nat /\ TwoTo[Mantissa + b] \in Nat
      /\ TwoTo[Mantissa + a] <= TwoTo[Mantissa + b]
  BY <1>1, TwoToGrows
<1>3. TwoTo[Mantissa + a] * d <= TwoTo[Mantissa + b] * d
  BY <1>2, Times
<1>4. TwoTo[Mantissa + a] * d \in Int /\ TwoTo[Mantissa + b] * d \in Int
  BY <1>2
<1>5. n < TwoTo[Mantissa + a] * d
  BY DEF Fits
<1> QED
  BY <1>3, <1>4, <1>5 DEF Fits

\* There is a least exponent, and Exponent is it.
LEMMA ExponentFacts ==
    ASSUME NEW n \in Nat, NEW d \in Nat \ {0}
    PROVE  LET e == Exponent(n, d) IN
           /\ e \in 0..TopExponent
           /\ e # TopExponent => Fits(n, d, e)
           /\ e # 0 => ~Fits(n, d, e - 1)
<1>0. TopExponent \in Nat
  BY Widths
<1> DEFINE Enough == {e \in 0..TopExponent : Fits(n, d, e) \/ e = TopExponent}
<1>1. PICK e \in Enough : \A x \in Enough : e <= x
  <2>1. Enough \in SUBSET Nat /\ Enough # {}
    BY <1>0
  <2> HIDE DEF Enough
  <2> QED
    BY <2>1, LeastExists
<1>2. e \in 0..TopExponent /\ (Fits(n, d, e) \/ e = TopExponent)
  OBVIOUS
<1>3. e = 0 \/ ~Fits(n, d, e - 1)
  <2>1. e # 0 => e - 1 \in 0..TopExponent /\ ~(e <= e - 1)
    BY <1>0, <1>2
  <2> QED
    BY <1>1, <2>1
<1> QED
  BY <1>2, <1>3 DEF Exponent

\* A larger fraction does not round to a smaller float.
LEMMA RoundMonotone ==
    ASSUME NEW m \in Nat, NEW c \in Nat \ {0}, NEW n \in Nat, NEW d \in Nat \ {0},
           m * d <= n * c
    PROVE  /\ RoundPositive(m, c) \in Nat /\ RoundPositive(n, d) \in Nat
           /\ RoundPositive(m, c) <= RoundPositive(n, d)
<1> DEFINE a == Exponent(m, c)
           b == Exponent(n, d)
<1>0. TopExponent \in Nat /\ Mantissa \in Nat \ {0} /\ TableEnd = Mantissa + TopExponent
  BY Widths
<1>1. /\ a \in 0..TopExponent
      /\ a # TopExponent => Fits(m, c, a)
      /\ a # 0 => ~Fits(m, c, a - 1)
  BY ExponentFacts
<1>2. /\ b \in 0..TopExponent
      /\ b # TopExponent => Fits(n, d, b)
      /\ b # 0 => ~Fits(n, d, b - 1)
  BY ExponentFacts
<1>3. /\ RoundPositive(m, c) = Nearest(m, c * TwoTo[a]) * TwoTo[a]
      /\ RoundPositive(n, d) = Nearest(n, d * TwoTo[b]) * TwoTo[b]
  BY DEF RoundPositive
<1> HIDE DEF a, b
<1>4. /\ a \in Nat /\ b \in Nat /\ TwoTo[a] \in Nat \ {0} /\ TwoTo[b] \in Nat \ {0}
      /\ c * TwoTo[a] \in Nat \ {0} /\ d * TwoTo[b] \in Nat \ {0}
  <2>1. a \in Nat /\ b \in Nat /\ a <= TableEnd /\ b <= TableEnd
    BY <1>0, <1>1, <1>2
  <2>2. TwoTo[a] \in Nat \ {0} /\ TwoTo[b] \in Nat \ {0}
    BY <2>1, TwoToGrows
  <2> QED
    BY <2>1, <2>2
<1>5. Nearest(m, c * TwoTo[a]) \in Nat /\ Nearest(n, d * TwoTo[b]) \in Nat
  BY <1>4, NearestFacts
<1>6. RoundPositive(m, c) \in Nat /\ RoundPositive(n, d) \in Nat
  BY <1>3, <1>4, <1>5
\* What fits for the larger fits for the smaller.
<1>7. \A e \in 0..TopExponent : Fits(n, d, e) => Fits(m, c, e)
  <2> SUFFICES ASSUME NEW e \in 0..TopExponent, Fits(n, d, e)
               PROVE  Fits(m, c, e)
    OBVIOUS
  <2> DEFINE t == TwoTo[Mantissa + e]
  <2>1. t \in Nat /\ n < t * d
    <3>1. Mantissa + e \in Nat /\ Mantissa + e <= TableEnd
      BY <1>0
    <3> QED
      BY <3>1, TwoToGrows DEF Fits
  <2> HIDE DEF t
  <2>2. n * c < (t * d) * c
    BY <2>1, Times
  <2>3. m * d < (t * c) * d
    BY <2>1, <2>2
  <2>4. m < t * c
    BY <2>1, <2>3, Times
  <2> QED
    BY <2>4 DEF Fits, t
<1>8. a <= b
  <2> SUFFICES ASSUME b < a
               PROVE  FALSE
    BY <1>4
  <2>1. Fits(n, d, b) /\ b <= a - 1 /\ a - 1 \in 0..TopExponent /\ a # 0
    BY <1>0, <1>1, <1>2, <1>4
  <2>2. Fits(m, c, b)
    BY <1>2, <1>7, <2>1
  <2>3. Fits(m, c, a - 1)
    BY <1>4, <2>1, <2>2, FitsGrows
  <2> QED
    BY <1>1, <2>1, <2>3
<1>9. CASE a = b
  <2> DEFINE t == TwoTo[a]
             p == Nearest(m, c * t)
             q == Nearest(n, d * t)
  <2>1. t \in Nat \ {0} /\ c * t \in Nat \ {0} /\ d * t \in Nat \ {0}
    BY <1>4, <1>9
  <2>2. p \in Nat /\ q \in Nat
    BY <1>5, <1>9
  <2>3. p <= q
    <3> HIDE DEF t
    <3>1. m * (d * t) <= n * (c * t)
      <4>1. (m * d) * t <= (n * c) * t
        BY <2>1, Times
      <4> QED
        BY <2>1, <4>1
    <3> QED
      BY <2>1, <3>1, NearestMonotone
  <2>4. p * t <= q * t
    <3> HIDE DEF t, p, q
    <3> QED
      BY <2>1, <2>2, <2>3, Times
  <2> QED
    BY <1>3, <1>6, <1>9, <2>4
<1>10. CASE a < b
  <2>1. /\ Mantissa + a \in Nat /\ (Mantissa - 1) + b \in Nat /\ Mantissa - 1 \in Nat
        /\ Mantissa + a <= (Mantissa - 1) + b /\ (Mantissa - 1) + b <= TableEnd
        /\ Mantissa + a <= TableEnd /\ Mantissa + (b - 1) = (Mantissa - 1) + b
        /\ a # TopExponent /\ b # 0
    BY <1>0, <1>1, <1>2, <1>4, <1>10
  <2> DEFINE ta == TwoTo[a]
             tb == TwoTo[b]
             k == TwoTo[Mantissa]
             h == TwoTo[Mantissa - 1]
             p == Nearest(m, c * ta)
             q == Nearest(n, d * tb)
  <2>2. ta \in Nat \ {0} /\ tb \in Nat \ {0} /\ k \in Nat /\ h \in Nat
    <3>1. Mantissa \in Nat /\ Mantissa <= TableEnd /\ Mantissa - 1 <= TableEnd
      BY <1>0
    <3>2. k \in Nat /\ h \in Nat
      BY <2>1, <3>1, TwoToGrows
    <3> QED
      BY <1>4, <3>2
  <2>3. TwoTo[Mantissa + a] = k * ta /\ TwoTo[(Mantissa - 1) + b] = h * tb
    BY <1>0, <1>4, <2>1, TwoToSum
  <2>4. k * ta <= h * tb
    BY <2>1, <2>3, TwoToGrows
  <2>5. m < (k * ta) * c /\ ~(n < (h * tb) * d)
    BY <1>1, <1>2, <2>1, <2>3 DEF Fits
  <2>6. p \in Nat /\ q \in Nat /\ c * ta \in Nat \ {0} /\ d * tb \in Nat \ {0}
    BY <1>4, <1>5
  <2>7. RoundPositive(m, c) = p * ta /\ RoundPositive(n, d) = q * tb
    BY <1>3
  <2>8. p <= k /\ h <= q
    <3> HIDE DEF ta, tb, k, h
    <3>1. m <= k * (c * ta) /\ h * (d * tb) <= n
      BY <2>2, <2>5
    <3> QED
      BY <2>2, <2>6, <3>1, NearestBounds
  <2> HIDE DEF ta, tb, k, h, p, q
  <2>9. p * ta <= k * ta /\ h * tb <= q * tb
    BY <2>2, <2>6, <2>8, Times
  <2> QED
    BY <1>6, <2>2, <2>4, <2>6, <2>7, <2>9
<1> QED
  BY <1>4, <1>6, <1>8, <1>9, <1>10

\* A float is off by at most half a grid unit or one part in TwoTo[Mantissa].
LEMMA RoundError ==
    ASSUME NEW n \in Nat, NEW d \in Nat \ {0}
    PROVE  LET r == RoundPositive(n, d) IN
           /\ r \in Nat
           /\ \/ 2 * n - d <= 2 * (r * d) /\ 2 * (r * d) <= 2 * n + d
              \/ /\ TwoTo[Mantissa] * (r * d - n) <= n
                 /\ TwoTo[Mantissa] * (n - r * d) <= n
<1> DEFINE e == Exponent(n, d)
           t == TwoTo[e]
           q == Nearest(n, d * t)
           k == TwoTo[Mantissa]
<1>0. TopExponent \in Nat /\ Mantissa \in Nat /\ TableEnd = Mantissa + TopExponent
  BY Widths
<1>1. e \in 0..TopExponent /\ (e # 0 => ~Fits(n, d, e - 1))
  BY ExponentFacts
<1>2. RoundPositive(n, d) = q * t
  BY DEF RoundPositive
<1> HIDE DEF e
<1>3. e \in Nat /\ e <= TableEnd /\ Mantissa <= TableEnd
  BY <1>0, <1>1
<1>4. t \in Nat \ {0} /\ k \in Nat
  BY <1>0, <1>3, TwoToGrows
<1>5. d * t \in Nat \ {0}
  BY <1>4
<1>6. q \in Nat /\ 2 * (q * (d * t)) - d * t <= 2 * n /\ 2 * n <= 2 * (q * (d * t)) + d * t
  <2> HIDE DEF t
  <2> QED
    BY <1>5, NearestFacts
<1>7. q * t \in Nat /\ q * (d * t) = (q * t) * d
  <2> HIDE DEF q, t
  <2> QED
    BY <1>4, <1>6
<1>8. CASE e = 0
  <2>1. t = 1
    BY <1>8, TwoToFacts
  <2>2. q * t = q /\ d * t = d
    BY <1>6, <2>1
  <2> QED
    BY <1>2, <1>6, <1>7, <2>2
<1>9. CASE e # 0
  <2> DEFINE u == TwoTo[e - 1]
  <2>1. e - 1 \in Nat /\ e - 1 <= TableEnd /\ e - 1 \in 0..(TableEnd - 1) /\ (e - 1) + 1 = e
        /\ Mantissa + (e - 1) <= TableEnd
    BY <1>0, <1>1, <1>3, <1>9
  <2>2. u \in Nat /\ t = 2 * u
    BY <2>1, TwoToGrows, TwoToFacts
  <2>3. (k * u) * d <= n
    <3>1. TwoTo[Mantissa + (e - 1)] = k * u
      BY <1>0, <2>1, TwoToSum
    <3>2. ~(n < TwoTo[Mantissa + (e - 1)] * d)
      BY <1>1, <1>9 DEF Fits
    <3>3. (k * u) * d \in Nat
      BY <1>4, <2>2
    <3> QED
      BY <3>1, <3>2, <3>3
  <2> DEFINE r == q * t
  <2>4. r \in Nat /\ 2 * (r * d) - 2 * (d * u) <= 2 * n /\ 2 * n <= 2 * (r * d) + 2 * (d * u)
    <3>1. d * t = 2 * (d * u)
      BY <2>2
    <3> QED
      BY <1>6, <1>7, <3>1
  <2> HIDE DEF r, k, u, t, q
  <2>5. r * d \in Nat /\ d * u \in Nat
    BY <2>2, <2>4
  <2>6. r * d - n <= d * u /\ n - r * d <= d * u
    BY <2>4, <2>5
  <2>7. /\ k * (r * d - n) <= k * (d * u) /\ k * (n - r * d) <= k * (d * u)
    <3> DEFINE x == r * d - n
               y == n - r * d
               z == d * u
    <3>1. x \in Int /\ y \in Int /\ z \in Int /\ x <= z /\ y <= z
      BY <2>5, <2>6
    <3> HIDE DEF x, y, z
    <3>2. k * x <= k * z /\ k * y <= k * z
      BY <1>4, <3>1
    <3> QED
      BY <3>2 DEF x, y, z
  <2>8. k * (d * u) = (k * u) * d
    BY <1>4, <2>2
  <2>9. k * (r * d - n) \in Int /\ k * (n - r * d) \in Int /\ k * (d * u) \in Int
    BY <1>4, <2>5
  <2>10. k * (r * d - n) <= n /\ k * (n - r * d) <= n
    BY <2>3, <2>7, <2>8, <2>9
  <2> QED
    BY <1>2, <2>4, <2>10 DEF k, r
<1> QED
  BY <1>8, <1>9

-----------------------------------------------------------------------------
(* Words *)

\* What Unsigned computes over a sequence, as the fold does: the set of indices
\* loses its greatest one at every step.
IsFold(f, ws) ==
    f = [s \in SUBSET (DOMAIN ws) |->
            IF s = {} THEN 0
            ELSE LET x == Max(s) IN f[s \ {x}] * TwoTo[WordBits] + ws[x]]

\* Unsigned is any function that folds so.
LEMMA UnsignedIs ==
    ASSUME NEW ws, NEW g, IsFold(g, ws),
           \A f : IsFold(f, ws) => f[DOMAIN ws] = g[DOMAIN ws]
    PROVE  Unsigned(ws) = g[DOMAIN ws]
<1> DEFINE f == CHOOSE f : IsFold(f, ws)
<1>1. IsFold(f, ws)
  BY Zenon
<1>2. Unsigned(ws) = f[DOMAIN ws]
  BY Zenon DEF Unsigned, FoldLeft, MapThenFoldSet, IsFold
<1> QED
  BY <1>1, <1>2

\* The greatest index of one and of two words.
LEMMA MaxIndex == Max({1}) = 1 /\ Max({2}) = 2 /\ Max({1, 2}) = 2
<1>1. Max({1}) = 1
  BY DEF Max
<1>2. Max({2}) = 2
  BY DEF Max
<1>3. Max({1, 2}) = 2
  <2>1. \E x \in {1, 2} : \A y \in {1, 2} : x >= y
    OBVIOUS
  <2>2. Max({1, 2}) \in {1, 2} /\ \A y \in {1, 2} : Max({1, 2}) >= y
    BY <2>1 DEF Max
  <2> QED
    BY <2>2
<1> QED
  BY <1>1, <1>2, <1>3

\* One word is its own value.
LEMMA UnsignedOne ==
    ASSUME NEW a \in Nat
    PROVE  Unsigned(<<a>>) = a
<1> DEFINE g == [s \in SUBSET {1} |-> IF s = {} THEN 0 ELSE a]
<1>0. TwoTo[WordBits] \in Nat \ {0}
  BY Widths, TwoToGrows
<1>1. DOMAIN <<a>> = {1}
  OBVIOUS
<1>2. \A s \in SUBSET {1} : s = {} \/ s = {1}
  OBVIOUS
<1>3. \A f : IsFold(f, <<a>>) => f[{1}] = a
  <2> SUFFICES ASSUME NEW f, IsFold(f, <<a>>)
               PROVE  f[{1}] = a
    OBVIOUS
  <2>1. f = [s \in SUBSET {1} |-> IF s = {} THEN 0
                 ELSE f[s \ {Max(s)}] * TwoTo[WordBits] + <<a>>[Max(s)]]
    BY <1>1 DEF IsFold
  <2>2. f[{}] = 0
    BY <2>1
  <2>3. f[{1}] = f[{1} \ {Max({1})}] * TwoTo[WordBits] + <<a>>[Max({1})]
    BY <2>1
  <2> QED
    BY <1>0, <2>2, <2>3, MaxIndex
<1>4. IsFold(g, <<a>>)
  <2>1. \A s \in SUBSET {1} :
            g[s] = IF s = {} THEN 0
                   ELSE g[s \ {Max(s)}] * TwoTo[WordBits] + <<a>>[Max(s)]
    <3>1. g[{}] = 0 /\ g[{1}] = a
      OBVIOUS
    <3>2. g[{1} \ {Max({1})}] * TwoTo[WordBits] + <<a>>[Max({1})] = a
      <4> HIDE DEF g
      <4> QED
        BY <1>0, <3>1, MaxIndex
    <3> HIDE DEF g
    <3> QED
      BY <1>2, <3>1, <3>2
  <2>2. g = [s \in SUBSET (DOMAIN <<a>>) |-> IF s = {} THEN 0
                 ELSE g[s \ {Max(s)}] * TwoTo[WordBits] + <<a>>[Max(s)]]
    BY <1>1, <2>1
  <2> QED
    BY <2>2 DEF IsFold
<1>5. Unsigned(<<a>>) = g[DOMAIN <<a>>]
  <2>1. g[{1}] = a
    OBVIOUS
  <2> HIDE DEF g
  <2> QED
    BY <1>1, <1>3, <1>4, <2>1, UnsignedIs
<1> QED
  BY <1>1, <1>5

\* Of two words the first is the more significant one.
LEMMA UnsignedTwo ==
    ASSUME NEW a \in Nat, NEW b \in Nat
    PROVE  Unsigned(<<a, b>>) = a * TwoTo[WordBits] + b
<1> DEFINE k == TwoTo[WordBits]
           v == a * k + b
           g == [s \in SUBSET {1, 2} |-> IF s = {} THEN 0 ELSE IF s = {1} THEN a
                                         ELSE IF s = {2} THEN b ELSE v]
<1>0. k \in Nat \ {0}
  BY Widths, TwoToGrows
<1>1. DOMAIN <<a, b>> = {1, 2}
  OBVIOUS
<1>2. \A s \in SUBSET {1, 2} : s = {} \/ s = {1} \/ s = {2} \/ s = {1, 2}
  OBVIOUS
<1> HIDE DEF k
<1>3. \A f : IsFold(f, <<a, b>>) => f[{1, 2}] = v
  <2> SUFFICES ASSUME NEW f, IsFold(f, <<a, b>>)
               PROVE  f[{1, 2}] = v
    OBVIOUS
  <2>1. f = [s \in SUBSET {1, 2} |-> IF s = {} THEN 0
                 ELSE f[s \ {Max(s)}] * k + <<a, b>>[Max(s)]]
    BY <1>1 DEF IsFold, k
  <2>2. f[{}] = 0
    BY <2>1
  <2>3. f[{1}] = f[{1} \ {Max({1})}] * k + <<a, b>>[Max({1})]
    BY <2>1
  <2>4. f[{1}] = a
    BY <1>0, <2>2, <2>3, MaxIndex
  <2>5. f[{1, 2}] = f[{1, 2} \ {Max({1, 2})}] * k + <<a, b>>[Max({1, 2})]
    BY <2>1
  <2>6. {1, 2} \ {Max({1, 2})} = {1}
    BY MaxIndex
  <2>7. f[{1, 2}] = f[{1}] * k + <<a, b>>[2] /\ <<a, b>>[2] = b
    <3>1. <<a, b>>[2] = b
      OBVIOUS
    <3> QED
      BY <2>5, <2>6, <3>1, MaxIndex, Zenon
  <2> QED
    BY <2>4, <2>7
<1>4. IsFold(g, <<a, b>>)
  <2>1. g[{}] = 0 /\ g[{1}] = a /\ g[{2}] = b /\ g[{1, 2}] = v
    OBVIOUS
  <2>2. g \in [SUBSET {1, 2} -> {0, a, b, v}]
    OBVIOUS
  <2> HIDE DEF g
  <2>3. /\ g[{1} \ {Max({1})}] * k + <<a, b>>[Max({1})] = a
        /\ g[{2} \ {Max({2})}] * k + <<a, b>>[Max({2})] = b
    <3>1. {1} \ {Max({1})} = {} /\ {2} \ {Max({2})} = {}
      BY MaxIndex
    <3> QED
      BY <1>0, <2>1, <3>1, MaxIndex
  <2>4. g[{1, 2} \ {Max({1, 2})}] * k + <<a, b>>[Max({1, 2})] = v
    <3>1. {1, 2} \ {Max({1, 2})} = {1}
      BY MaxIndex
    <3> QED
      BY <1>0, <2>1, <3>1, MaxIndex
  <2> DEFINE h == [s \in SUBSET {1, 2} |->
                    IF s = {} THEN 0 ELSE g[s \ {Max(s)}] * k + <<a, b>>[Max(s)]]
  <2>5. \A s \in SUBSET {1, 2} : h[s] = g[s]
    BY <1>2, <2>1, <2>3, <2>4
  <2>6. h \in [SUBSET {1, 2} -> {0, a, b, v}]
    <3>1. \A s \in SUBSET {1, 2} : g[s] \in {0, a, b, v}
      BY <2>2
    <3>2. h = [s \in SUBSET {1, 2} |-> h[s]]
      OBVIOUS
    <3> HIDE DEF h
    <3> QED
      BY <2>5, <3>1, <3>2
  <2>7. g = h
    <3> HIDE DEF h
    <3> QED
      BY <2>2, <2>5, <2>6
  <2> QED
    BY <1>1, <2>7 DEF IsFold, k
<1>5. Unsigned(<<a, b>>) = g[DOMAIN <<a, b>>]
  <2>1. g[{1, 2}] = v
    OBVIOUS
  <2> HIDE DEF g
  <2> QED
    BY <1>1, <1>3, <1>4, <2>1, UnsignedIs
<1> QED
  BY <1>1, <1>5 DEF k

\* Words that a register of this type is read into.
Legal(reg, ws) ==
    /\ ws \in Seq(0..MaxWord)
    /\ reg.type # "BIT" => Len(ws) = Size(reg.type)

\* The types whose words are a number, and those that have a sign.
Numeric == {"U16", "S16", "U32", "S32"}
Signed == {"S16", "S32"}

\* Bits of a number's words.
BitsOf(reg) == WordBits * Size(reg.type)

\* What one and two words are.
LEMMA ShortSequences ==
    ASSUME NEW S, NEW ws \in Seq(S)
    PROVE  /\ Len(ws) = 1 => ws = <<ws[1]>> /\ ws[1] \in S /\ Head(ws) = ws[1]
           /\ Len(ws) = 2 => ws = <<ws[1], ws[2]>> /\ ws[1] \in S /\ ws[2] \in S
<1>1. ASSUME Len(ws) = 1
      PROVE  ws = <<ws[1]>> /\ ws[1] \in S /\ Head(ws) = ws[1]
  <2>1. ws[1] \in S /\ DOMAIN ws = 1..1 /\ Head(ws) = ws[1]
    BY <1>1
  <2>2. DOMAIN <<ws[1]>> = 1..1 /\ <<ws[1]>>[1] = ws[1] /\ <<ws[1]>> \in Seq(S) /\ Len(<<ws[1]>>) = 1
    BY <2>1
  <2>3. ws = <<ws[1]>>
    BY <1>1, <2>2
  <2> QED
    BY <2>1, <2>3
<1>2. ASSUME Len(ws) = 2
      PROVE  ws = <<ws[1], ws[2]>> /\ ws[1] \in S /\ ws[2] \in S
  <2>1. ws[1] \in S /\ ws[2] \in S
    BY <1>2
  <2>2. <<ws[1], ws[2]>> \in Seq(S) /\ Len(<<ws[1], ws[2]>>) = 2
    BY <2>1
  <2>3. ws = <<ws[1], ws[2]>>
    BY <1>2, <2>2
  <2> QED
    BY <2>1, <2>3
<1> QED
  BY <1>1, <1>2

\* A word is as wide as it says, and two words are twice as wide.
LEMMA WordFacts ==
    ASSUME NEW reg, NEW ws, Legal(reg, ws), reg.type \in Numeric
    PROVE  /\ BitsOf(reg) = WordBits * Len(ws) /\ BitsOf(reg) \in {WordBits, 2 * WordBits}
           /\ BitsOf(reg) = IF reg.type \in {"U16", "S16"} THEN WordBits ELSE 2 * WordBits
           /\ Unsigned(ws) \in 0..(TwoTo[BitsOf(reg)] - 1)
           /\ reg.type \in {"U16", "S16"} => Head(ws) = Unsigned(ws)
<1>0. /\ WordBits \in Nat \ {0} /\ WordBits + WordBits = 2 * WordBits
      /\ WordBits <= TableEnd /\ WordBits + WordBits <= TableEnd
  BY Widths
<1>1. TwoTo[WordBits] \in Nat \ {0} /\ MaxWord \in Nat /\ MaxWord + 1 = TwoTo[WordBits]
  BY <1>0, TwoToGrows DEF MaxWord
<1>2. ws \in Seq(0..MaxWord) /\ Len(ws) = Size(reg.type)
  BY DEF Legal, Numeric
<1>3. CASE reg.type \in {"U16", "S16"}
  <2>1. Len(ws) = 1 /\ BitsOf(reg) = WordBits
    BY <1>0, <1>2, <1>3 DEF Size, BitsOf
  <2>2. ws = <<ws[1]>> /\ ws[1] \in 0..MaxWord /\ Head(ws) = ws[1]
    BY <1>2, <2>1, ShortSequences
  <2>3. Unsigned(ws) = ws[1]
    <3>1. ws[1] \in Nat
      BY <1>1, <2>2
    <3> QED
      BY <2>2, <3>1, UnsignedOne
  <2>4. Unsigned(ws) \in 0..(TwoTo[BitsOf(reg)] - 1)
    BY <1>1, <2>1, <2>2, <2>3
  <2>5. WordBits * Len(ws) = WordBits
    BY <1>0, <2>1
  <2> QED
    BY <1>3, <2>1, <2>2, <2>3, <2>4, <2>5
<1>4. CASE reg.type \notin {"U16", "S16"}
  <2>1. Len(ws) = 2 /\ BitsOf(reg) = 2 * WordBits
    BY <1>0, <1>2, <1>4 DEF Size, BitsOf
  <2>2. ws = <<ws[1], ws[2]>> /\ ws[1] \in 0..MaxWord /\ ws[2] \in 0..MaxWord
    BY <1>2, <2>1, ShortSequences
  <2>3. ws[1] \in Nat /\ ws[2] \in Nat /\ ws[1] <= MaxWord /\ ws[2] <= MaxWord
    BY <1>1, <2>2
  <2>4. Unsigned(ws) = ws[1] * TwoTo[WordBits] + ws[2]
    BY <2>2, <2>3, UnsignedTwo
  <2>5. TwoTo[2 * WordBits] = TwoTo[WordBits] * TwoTo[WordBits]
    BY <1>0, TwoToSum
  <2> DEFINE k == TwoTo[WordBits]
             a == ws[1]
             b == ws[2]
  <2>6. k \in Nat \ {0} /\ a \in Nat /\ b \in Nat /\ a <= k - 1 /\ b <= k - 1
    BY <1>1, <2>3
  <2> HIDE DEF k, a, b
  <2>7. a * k + b \in Nat /\ a * k + b < k * k
    <3>1. a * k <= (k - 1) * k
      BY <2>6, Times
    <3>2. (k - 1) * k = k * k - k /\ a * k \in Nat /\ k * k \in Nat
      BY <2>6
    <3> QED
      BY <2>6, <3>1, <3>2
  <2>8. k * k \in Nat
    BY <2>6
  <2>9. Unsigned(ws) \in 0..(TwoTo[2 * WordBits] - 1)
    BY <2>4, <2>5, <2>7, <2>8 DEF k, a, b
  <2>10. WordBits * Len(ws) = 2 * WordBits
    BY <1>0, <2>1
  <2> QED
    BY <1>4, <2>1, <2>9, <2>10
<1> QED
  BY <1>3, <1>4

\* Wrap keeps a number's bits, and a number that has them already.
LEMMA WrapFacts ==
    ASSUME NEW v \in Nat, NEW bits \in Nat \ {0}, bits <= TableEnd
    PROVE  LET h == TwoTo[bits - 1]
               w == Wrap(v, bits)
           IN  /\ h \in Nat \ {0} /\ TwoTo[bits] = 2 * h
               /\ w \in (-h)..(h - 1)
               /\ v < TwoTo[bits] => w % TwoTo[bits] = v
               /\ v < h => w = v
<1> DEFINE k == TwoTo[bits]
           h == TwoTo[bits - 1]
           u == v % k
<1>1. h \in Nat \ {0} /\ k = 2 * h
  <2>1. bits - 1 \in 0..(TableEnd - 1) /\ (bits - 1) + 1 = bits /\ bits - 1 \in Nat
        /\ bits - 1 <= TableEnd
    BY Widths
  <2> QED
    BY <2>1, TwoToFacts, TwoToGrows
<1>2. Wrap(v, bits) = IF u >= h THEN u - k ELSE u
  BY DEF Wrap
<1> HIDE DEF k, h
<1>3. u \in Nat /\ u < k /\ (v < k => u = v)
  BY <1>1
<1>4. Wrap(v, bits) \in (-h)..(h - 1) /\ (v < h => Wrap(v, bits) = v)
  BY <1>1, <1>2, <1>3
<1>5. ASSUME v < k
      PROVE  Wrap(v, bits) % k = v
  <2>1. CASE u >= h
    <3>1. Wrap(v, bits) = k * (-1) + v /\ v \in 0..(k - 1) /\ k \in Nat \ {0}
      BY <1>1, <1>2, <1>3, <1>5, <2>1
    <3> QED
      BY <3>1
  <2>2. CASE ~(u >= h)
    BY <1>1, <1>2, <1>3, <1>5, <2>2
  <2> QED
    BY <2>1, <2>2
<1> QED
  BY <1>1, <1>4, <1>5 DEF k, h

\* The least number of a type.
Lowest(reg) == IF reg.type \in Signed THEN -(TwoTo[BitsOf(reg) - 1]) ELSE 0

\* An integer is congruent to its words and in the range of its type.
LEMMA IntegerFacts ==
    ASSUME NEW reg, NEW ws, Legal(reg, ws), reg.type \in Numeric
    PROVE  LET val == Integer(reg, ws)
               k == TwoTo[BitsOf(reg)]
           IN  /\ val.t \in {"int", "int64"} /\ val.v \in Int /\ k \in Nat \ {0}
               /\ val.v \in Lowest(reg)..(Lowest(reg) + k - 1)
               /\ val.v % k = Unsigned(ws)
               /\ val.v < k /\ -val.v < k
               /\ reg.type = "U16" => val = [t |-> "int", v |-> Head(ws)]
<1> DEFINE k == TwoTo[BitsOf(reg)]
           h == TwoTo[BitsOf(reg) - 1]
           u == Unsigned(ws)
<1>0. /\ WordBits \in Nat \ {0} /\ LongBits \in Nat \ {0} /\ LongBits <= TableEnd
      /\ 2 * WordBits <= TableEnd /\ WordBits <= TableEnd /\ 2 * WordBits <= LongBits - 1
      /\ 2 * WordBits \in Nat \ {0} /\ LongBits - 1 \in Nat /\ LongBits - 1 <= TableEnd
  BY Widths
<1>1. /\ BitsOf(reg) \in Nat \ {0} /\ BitsOf(reg) <= TableEnd /\ u \in 0..(k - 1)
      /\ BitsOf(reg) = IF reg.type \in {"U16", "S16"} THEN WordBits ELSE 2 * WordBits
      /\ reg.type \in {"U16", "S16"} => Head(ws) = u
  BY <1>0, WordFacts
<1>2. /\ k \in Nat \ {0} /\ h \in Nat \ {0} /\ k = 2 * h
      /\ Wrap(u, BitsOf(reg)) \in (-h)..(h - 1) /\ Wrap(u, BitsOf(reg)) % k = u
  <2>1. k \in Nat \ {0}
    BY <1>1, TwoToGrows
  <2>2. u \in Nat /\ u < k
    BY <1>1, <2>1
  <2> QED
    BY <1>1, <2>1, <2>2, WrapFacts
<1>3. CASE reg.type = "U16"
  <2>1. Integer(reg, ws) = [t |-> "int", v |-> u]
    BY <1>1, <1>3 DEF Integer
  <2>2. Lowest(reg) = 0
    BY <1>3 DEF Lowest, Signed
  <2> HIDE DEF k, h, u
  <2>3. u % k = u
    BY <1>1, <1>2
  <2> QED
    BY <1>1, <1>2, <1>3, <2>1, <2>2, <2>3 DEF k, u
<1>4. CASE reg.type = "S16"
  <2>1. Integer(reg, ws) = [t |-> "int", v |-> Wrap(u, BitsOf(reg))]
    BY <1>1, <1>4 DEF Integer
  <2>2. Lowest(reg) = -h
    BY <1>4 DEF Lowest, Signed
  <2> HIDE DEF k, h, u
  <2> QED
    BY <1>1, <1>2, <1>4, <2>1, <2>2 DEF k, u
<1>5. CASE reg.type = "U32"
  <2>1. Wrap(u, LongBits) = u
    <3>1. TwoTo[2 * WordBits] <= TwoTo[LongBits - 1] /\ TwoTo[LongBits - 1] \in Nat
      BY <1>0, TwoToGrows
    <3>2. u \in Nat /\ u < TwoTo[LongBits - 1]
      BY <1>1, <1>2, <1>5, <3>1
    <3> QED
      BY <1>0, <3>2, WrapFacts
  <2>2. Integer(reg, ws) = [t |-> "int64", v |-> u]
    BY <1>5, <2>1 DEF Integer
  <2>3. Lowest(reg) = 0
    BY <1>5 DEF Lowest, Signed
  <2> HIDE DEF k, h, u
  <2>4. u % k = u
    BY <1>1, <1>2
  <2> QED
    BY <1>1, <1>2, <1>5, <2>2, <2>3, <2>4 DEF k, u
<1>6. CASE reg.type = "S32"
  <2>1. Integer(reg, ws) = [t |-> "int", v |-> Wrap(u, BitsOf(reg))]
    BY <1>1, <1>6 DEF Integer
  <2>2. Lowest(reg) = -h
    BY <1>6 DEF Lowest, Signed
  <2> HIDE DEF k, h, u
  <2> QED
    BY <1>1, <1>2, <1>6, <2>1, <2>2 DEF k, u
<1> QED
  BY <1>3, <1>4, <1>5, <1>6 DEF Numeric

-----------------------------------------------------------------------------
(* Scaled numbers *)

\* The grid is as fine as a full mantissa of the smallest fraction.
LEMMA GridFacts ==
    /\ One \in Nat \ {0} /\ TwoTo[Mantissa] \in Nat \ {0} /\ TwoTo[ScaleBits] \in Nat \ {0}
    /\ TwoTo[ScaleBits] < One /\ TwoTo[Mantissa] <= One
    /\ 2 * TwoTo[2 * WordBits] <= TwoTo[Mantissa]
<1>1. /\ Mantissa + ScaleBits \in Nat /\ Mantissa + ScaleBits <= TableEnd
      /\ Mantissa \in Nat /\ ScaleBits \in Nat /\ 2 * WordBits \in Nat
      /\ Mantissa <= Mantissa + ScaleBits /\ ScaleBits < Mantissa + ScaleBits
      /\ 2 * WordBits < Mantissa /\ Mantissa <= TableEnd
  BY Widths
<1>2. TwoTo[ScaleBits] \in Nat \ {0} /\ 2 * TwoTo[ScaleBits] <= One /\ One \in Nat \ {0}
  BY <1>1, TwoToGrows DEF One
<1>3. TwoTo[Mantissa] \in Nat \ {0} /\ TwoTo[Mantissa] <= One
  BY <1>1, TwoToGrows DEF One
<1>4. 2 * TwoTo[2 * WordBits] <= TwoTo[Mantissa]
  BY <1>1, TwoToGrows
<1> QED
  BY <1>2, <1>3, <1>4

\* A rounding error of n = v * One, taken j times, is less than half a unit.
LEMMA ErrorIsSmall ==
    ASSUME NEW x \in Int, NEW s \in Nat \ {0}, NEW j \in Nat \ {0}, NEW v \in Nat,
           s * j < One, 2 * (v * j) < TwoTo[Mantissa],
           2 * x <= s \/ TwoTo[Mantissa] * x <= v * One
    PROVE  2 * (j * x) < One
<1> DEFINE k == TwoTo[Mantissa]
           o == One
<1>0. k \in Nat \ {0} /\ o \in Nat \ {0} /\ s * j < o /\ 2 * (v * j) < k
  BY GridFacts
<1>1. CASE 2 * x <= s
  <2> HIDE DEF k, o
  <2>1. (2 * x) * j <= s * j
    BY <1>1, Times
  <2>2. (2 * x) * j = 2 * (j * x) /\ (2 * x) * j \in Int
    OBVIOUS
  <2> QED
    BY <1>0, <2>1, <2>2 DEF o
<1>2. CASE k * x <= v * o
  <2> HIDE DEF k, o
  <2> SUFFICES ASSUME o <= 2 * (j * x)
               PROVE  FALSE
    BY <1>0 DEF o
  <2>1. o * k <= (2 * (j * x)) * k
    BY <1>0, Times
  <2>2. (k * x) * (2 * j) <= (v * o) * (2 * j)
    BY <1>0, <1>2, Times
  <2>3. (2 * (j * x)) * k = (k * x) * (2 * j)
    BY <1>0
  <2>4. (v * o) * (2 * j) = (2 * (v * j)) * o
    BY <1>0
  <2>5. (2 * (v * j)) * o < k * o
    BY <1>0, Times
  <2>6. o * k = k * o /\ o * k \in Int /\ (2 * (v * j)) * o \in Int
        /\ (k * x) * (2 * j) \in Int
    BY <1>0
  <2> QED
    BY <2>1, <2>2, <2>3, <2>4, <2>5, <2>6
<1> QED
  BY <1>1, <1>2

\* A scaled word is off by less than half a unit, also when taken j times.
LEMMA ScaledError ==
    ASSUME NEW v \in Nat, NEW s \in Nat \ {0}, NEW j \in Nat \ {0},
           s * j < One, 2 * (v * j) < TwoTo[Mantissa]
    PROVE  LET r == RoundPositive(v * One, s) IN
           /\ r \in Nat
           /\ 2 * (j * (r * s - v * One)) < One
           /\ 2 * (j * (v * One - r * s)) < One
<1> DEFINE r == RoundPositive(v * One, s)
           n == v * One
<1>1. n \in Nat /\ One \in Nat
  BY GridFacts
<1> HIDE DEF n
<1>2. /\ r \in Nat
      /\ \/ 2 * n - s <= 2 * (r * s) /\ 2 * (r * s) <= 2 * n + s
         \/ /\ TwoTo[Mantissa] * (r * s - n) <= n
            /\ TwoTo[Mantissa] * (n - r * s) <= n
  BY <1>1, RoundError DEF n
<1> HIDE DEF r
<1> DEFINE x == r * s - n
           y == n - r * s
<1>3. x \in Int /\ y \in Int
  BY <1>1, <1>2
<1>4. /\ 2 * x <= s \/ TwoTo[Mantissa] * x <= n
      /\ 2 * y <= s \/ TwoTo[Mantissa] * y <= n
  BY <1>1, <1>2
<1> HIDE DEF x, y
<1>5. 2 * (j * x) < One /\ 2 * (j * y) < One
  BY <1>3, <1>4, ErrorIsSmall DEF n
<1> QED
  BY <1>2, <1>5 DEF n, r, x, y

\* A scaled integer is off by less than half a unit.
LEMMA FloatError ==
    ASSUME NEW v \in Int, NEW s \in 1..TwoTo[ScaleBits],
           v < TwoTo[2 * WordBits], -v < TwoTo[2 * WordBits]
    PROVE  LET m == Float(v * One, s) IN
           m \in Int /\ 2 * Abs(m * s - v * One) < One
<1> DEFINE o == One
           k == TwoTo[Mantissa]
           b == TwoTo[2 * WordBits]
<1>1. /\ o \in Nat \ {0} /\ s \in Nat \ {0} /\ s * 1 < o /\ 2 * b <= k /\ k \in Nat
      /\ b \in Nat /\ v < b /\ -v < b
  <2>1. 2 * WordBits \in Nat /\ 2 * WordBits <= TableEnd
    BY Widths
  <2> QED
    BY <2>1, GridFacts, TwoToGrows
<1>2. CASE v >= 0
  <2> DEFINE r == RoundPositive(v * One, s)
  <2>1. /\ r \in Nat
        /\ 2 * (1 * (r * s - v * One)) < One
        /\ 2 * (1 * (v * One - r * s)) < One
    <3>1. v \in Nat /\ 2 * (v * 1) < k
      <4> HIDE DEF k, b
      <4> QED
        BY <1>1, <1>2
    <3>2. s \in Nat \ {0} /\ s * 1 < One /\ 1 \in Nat \ {0}
      BY <1>1
    <3> QED
      BY <3>1, <3>2, ScaledError
  <2>2. Float(v * One, s) = r
    <3>1. ~(v * o < 0)
      <4> HIDE DEF o
      <4> QED
        BY <1>1, <1>2
    <3> QED
      BY <3>1 DEF Float
  <2>3. r * s \in Int /\ v * o \in Int
    <3> HIDE DEF o, r
    <3> QED
      BY <1>1, <2>1
  <2> HIDE DEF r
  <2>4. 2 * Abs(r * s - v * o) < o
    <3> HIDE DEF o
    <3> QED
      BY <1>1, <2>1, <2>3 DEF Abs, o
  <2> QED
    BY <2>1, <2>2, <2>4
<1>3. CASE v < 0
  <2> DEFINE a == -v
             r == RoundPositive(a * One, s)
  <2>0. a \in Nat /\ 2 * (a * 1) < k
    <3> HIDE DEF k, b
    <3> QED
      BY <1>1, <1>3
  <2> HIDE DEF a
  <2>1. /\ r \in Nat
        /\ 2 * (1 * (r * s - a * One)) < One
        /\ 2 * (1 * (a * One - r * s)) < One
    BY <1>1, <2>0, ScaledError
  <2>2. Float(v * One, s) = -r
    <3>1. v * o < 0 /\ -(v * o) = a * o
      <4> HIDE DEF o
      <4> QED
        BY <1>1, <1>3 DEF a
    <3> QED
      BY <3>1 DEF Float
  <2>3. r * s \in Int /\ a * o \in Int /\ v * o = -(a * o) /\ (-r) * s = -(r * s)
    <3> HIDE DEF o, r
    <3> QED
      BY <1>1, <2>0, <2>1 DEF a
  <2> HIDE DEF r
  <2>4. 2 * Abs((-r) * s - v * o) < o
    <3> DEFINE x == r * s
               y == a * o
    <3> HIDE DEF x, y
    <3>1. x \in Int /\ y \in Int /\ 2 * (1 * (x - y)) < o /\ 2 * (1 * (y - x)) < o
      BY <2>1, <2>3 DEF x, y
    <3>2. (-r) * s - v * o = y - x
      BY <2>3, <3>1 DEF x, y
    <3> HIDE DEF o
    <3> QED
      BY <1>1, <3>1, <3>2 DEF Abs
  <2>5. -r \in Int
    BY <2>1
  <2> QED
    BY <2>2, <2>4, <2>5
<1> QED
  BY <1>2, <1>3

\* What Decode makes of a number's words, whatever the host.
LEMMA DecodeFacts ==
    ASSUME NEW reg, NEW ws, Legal(reg, ws), reg.type \in Numeric,
           reg.scale \in 1..TwoTo[ScaleBits]
    PROVE  LET val == Decode(reg, ws)
               v == Integer(reg, ws).v
           IN  /\ reg.scale = 1 => val = Integer(reg, ws) /\ val.t # "float"
               /\ reg.scale > 1 => /\ val = [t |-> "float", m |-> Float(v * One, reg.scale)]
                                   /\ val.m \in Int
                                   /\ 2 * Abs(val.m * reg.scale - v * One) < One
<1> DEFINE v == Integer(reg, ws).v
<1>1. /\ Integer(reg, ws).t \in {"int", "int64"} /\ v \in Int
      /\ v < TwoTo[2 * WordBits] /\ -v < TwoTo[2 * WordBits]
  <2>1. /\ Integer(reg, ws).t \in {"int", "int64"} /\ v \in Int
        /\ v < TwoTo[BitsOf(reg)] /\ -v < TwoTo[BitsOf(reg)]
    BY IntegerFacts
  <2>2. TwoTo[BitsOf(reg)] <= TwoTo[2 * WordBits] /\ TwoTo[BitsOf(reg)] \in Nat
        /\ TwoTo[2 * WordBits] \in Nat
    <3>1. BitsOf(reg) \in {WordBits, 2 * WordBits}
      BY WordFacts
    <3>2. BitsOf(reg) \in Nat /\ BitsOf(reg) <= 2 * WordBits /\ 2 * WordBits <= TableEnd
          /\ 2 * WordBits \in Nat
      BY <3>1, Widths
    <3> QED
      BY <3>2, TwoToGrows
  <2> HIDE DEF v
  <2> QED
    BY <2>1, <2>2
<1>2. reg.type # "BIT"
  BY DEF Numeric
<1>3. TwoTo[ScaleBits] \in Nat
  BY GridFacts
<1>4. CASE reg.scale = 1
  <2>1. Decode(reg, ws) = Integer(reg, ws)
    BY <1>2, <1>4 DEF Decode
  <2> QED
    BY <1>1, <1>4, <2>1
<1>5. CASE reg.scale > 1
  <2>1. Decode(reg, ws) = [t |-> "float", m |-> Float(v * One, reg.scale)]
    BY <1>2, <1>5 DEF Decode
  <2>2. /\ Float(v * One, reg.scale) \in Int
        /\ 2 * Abs(Float(v * One, reg.scale) * reg.scale - v * One) < One
    <3> HIDE DEF v
    <3> QED
      BY <1>1, FloatError
  <2> QED
    BY <1>5, <2>1, <2>2
<1> QED
  BY <1>3, <1>4, <1>5

-----------------------------------------------------------------------------
(* The invariant *)

\* The words are those of the group's registers, and only they are read.
Shape ==
    /\ group \in Groups
    /\ DOMAIN words = DOMAIN Regs
    /\ \A k \in DOMAIN Regs : Legal(Regs[k], words[k])
    /\ DOMAIN raw \subseteq DOMAIN Regs

\* What is shown was decoded from words of its register, then or now.
Read ==
    \A k \in DOMAIN raw : \E ws : Legal(Regs[k], ws) /\ raw[k] = Decode(Regs[k], ws)

\* What has no label has been logged, or the log is full.
Logged ==
    \A k \in DOMAIN raw :
        Mapped(Regs[k]) /\ DecodeCode(raw[k], Regs[k].items).unmapped # {} =>
            <<k, raw[k]>> \in unmappedSeen \/ Cardinality(unmappedSeen) = MaxLogged

\* The registers of a group, as the catalog describes them.
LEMMA RegFacts ==
    ASSUME group \in Groups, NEW k \in DOMAIN Regs
    PROVE  /\ Regs[k].type \in Numeric \cup {"BIT"}
           /\ Regs[k].scale \in 1..TwoTo[ScaleBits]
           /\ \A ws \in group.words : Legal(Regs[k], ws[k])
BY GroupsAssumption DEF Regs, Legal, Numeric

\* A decoded integer is faithful, on 32-bit hosts too.
LEMMA FaithfulShown == Shape => Faithful
<1> SUFFICES ASSUME Shape, NEW k \in DOMAIN raw, Regs[k].type # "BIT", Fresh(k)
             PROVE  LET bits == WordBits * Len(words[k])
                        low == IF Regs[k].type \in {"S16", "S32"} THEN -(TwoTo[bits - 1]) ELSE 0
                        same(v) == /\ v % TwoTo[bits] = Unsigned(words[k])
                                   /\ v \in low..(low + TwoTo[bits] - 1)
                    IN IF raw[k].t = "float"
                       THEN \E v \in low..(low + TwoTo[bits] - 1) :
                                same(v) /\ 2 * Abs(raw[k].m * Regs[k].scale - v * One) < One
                       ELSE same(raw[k].v)
  BY DEF Faithful
<1> DEFINE reg == Regs[k]
           ws == words[k]
           v == Integer(reg, ws).v
           b == TwoTo[BitsOf(reg)]
<1>1. /\ Legal(reg, ws) /\ reg.type \in Numeric /\ reg.scale \in 1..TwoTo[ScaleBits]
      /\ raw[k] = Decode(reg, ws)
  <2>1. k \in DOMAIN Regs /\ group \in Groups
    BY DEF Shape
  <2> QED
    BY <2>1, RegFacts DEF Shape, Fresh
<1> HIDE DEF reg, ws
<1>2. WordBits * Len(ws) = BitsOf(reg)
  BY <1>1, WordFacts
<1>3. /\ Integer(reg, ws).t \in {"int", "int64"}
      /\ v \in Lowest(reg)..(Lowest(reg) + b - 1) /\ v % b = Unsigned(ws)
  BY <1>1, IntegerFacts
<1>4. /\ reg.scale = 1 => raw[k] = Integer(reg, ws) /\ raw[k].t # "float"
      /\ reg.scale > 1 => /\ raw[k] = [t |-> "float", m |-> Float(v * One, reg.scale)]
                          /\ 2 * Abs(raw[k].m * reg.scale - v * One) < One
  BY <1>1, DecodeFacts
<1>5. Lowest(reg) = IF reg.type \in {"S16", "S32"} THEN -(TwoTo[BitsOf(reg) - 1]) ELSE 0
  BY DEF Lowest, Signed
<1>6. reg.scale = 1 \/ reg.scale > 1
  <2>1. TwoTo[ScaleBits] \in Nat
    BY GridFacts
  <2> QED
    BY <1>1, <2>1
<1>7. CASE reg.scale = 1
  <2>1. raw[k].t # "float" /\ raw[k].v = v
    BY <1>4, <1>7
  <2> HIDE DEF v, b
  <2> QED
    BY <1>2, <1>3, <1>5, <2>1 DEF reg, ws, b
<1>8. CASE reg.scale > 1
  <2>1. raw[k].t = "float" /\ 2 * Abs(raw[k].m * reg.scale - v * One) < One
    BY <1>4, <1>8
  <2> HIDE DEF v, b
  <2> QED
    BY <1>2, <1>3, <1>5, <2>1 DEF reg, ws, b
<1> QED
  BY <1>6, <1>7, <1>8

\* A partial read derives nothing that the full read would not derive alike.
LEMMA PartialReads ==
    ASSUME NEW part, NEW full, DOMAIN part \subseteq DOMAIN full,
           \A k \in DOMAIN part : part[k] = full[k]
    PROVE  Pseudos(part) \subseteq Pseudos(full) /\ Derive(part) \subseteq Derive(full)
<1>1. Derive(part) \subseteq Derive(full)
  BY DEF Derive
<1>2. Pseudos(part) \subseteq Pseudos(full)
  <2>1. CASE group.kind = "base" /\ {"inverter", "grid_power"} \subseteq DOMAIN part
    <3>1. part["inverter"] = full["inverter"] /\ part["grid_power"] = full["grid_power"]
          /\ {"inverter", "grid_power"} \subseteq DOMAIN full
      BY <2>1
    <3>2. Pseudos(part) = Pseudos(full)
      BY <2>1, <3>1 DEF Pseudos
    <3> QED
      BY <3>2
  <2>2. CASE group.kind = "period"
    <3> DEFINE All == {"pv", "purchase", "discharge", "feed", "charge"}
               consumption(data) ==
                   Positive(data["pv"].v + data["purchase"].v + data["discharge"].v
                              - data["feed"].v - data["charge"].v)
               first(data) ==
                   {<<"consumption", <<consumption(data), 1>> >>,
                    <<"autarky", Rate(data["purchase"].v, consumption(data))>>}
               second(data) == {<<"own", Rate(data["feed"].v, data["pv"].v)>>}
    <3>1. \A data : Pseudos(data) =
              (IF All \subseteq DOMAIN data THEN first(data) ELSE {})
              \cup (IF {"pv", "feed"} \subseteq DOMAIN data THEN second(data) ELSE {})
      BY <2>2 DEF Pseudos
    <3>2. All \subseteq DOMAIN part => All \subseteq DOMAIN full /\ first(part) = first(full)
      OBVIOUS
    <3>3. {"pv", "feed"} \subseteq DOMAIN part =>
              {"pv", "feed"} \subseteq DOMAIN full /\ second(part) = second(full)
      OBVIOUS
    <3> HIDE DEF All, first, second
    <3> QED
      BY <3>1, <3>2, <3>3
  <2>3. CASE /\ ~(group.kind = "base" /\ {"inverter", "grid_power"} \subseteq DOMAIN part)
             /\ group.kind # "period"
    <3>1. Pseudos(part) = {}
      BY <2>3 DEF Pseudos
    <3> QED
      BY <3>1
  <2> QED
    BY <2>1, <2>2, <2>3
<1> QED
  BY <1>1, <1>2

\* What is derived is derived alike from more.
LEMMA NoGuessShown == Shape => NoGuess
<1> SUFFICES ASSUME Shape, \A k \in DOMAIN raw : Fresh(k)
             PROVE  LET full == [k \in DOMAIN Regs |-> Decode(Regs[k], words[k])]
                    IN  Pseudos(raw) \subseteq Pseudos(full) /\ Derive(raw) \subseteq Derive(full)
  BY DEF NoGuess
<1> DEFINE full == [k \in DOMAIN Regs |-> Decode(Regs[k], words[k])]
<1>1. DOMAIN raw \subseteq DOMAIN full /\ \A k \in DOMAIN raw : raw[k] = full[k]
  BY DEF Shape, Fresh
<1> HIDE DEF full
<1> QED
  BY <1>1, PartialReads DEF full

\* A bit field shows OK for no bit, Unknown for bits without a name, and else
\* the names of the masks that share a bit with it.
LEMMA BitLabels ==
    ASSUME NEW val, NEW items, val.t = "bits"
    PROVE  LET hit == {c \in DOMAIN items : Mask(c) \cap val.set # {}}
               dec == DecodeCode(val, items)
           IN  /\ dec.unmapped = val.set \ UNION {Mask(c) : c \in hit}
               /\ val.set = {} => dec.labels = {"OK"}
               /\ val.set # {} /\ hit = {} => dec.labels = {"Unknown"}
               /\ hit # {} => dec.labels = {items[c] : c \in hit}
<1> DEFINE hit == {c \in DOMAIN items : Mask(c) \cap val.set # {}}
<1>1. hit # {} => val.set # {}
  OBVIOUS
<1>2. DecodeCode(val, items) =
          [labels |-> IF val.set = {} THEN {"OK"}
                      ELSE IF hit = {} THEN {"Unknown"} ELSE {items[c] : c \in hit},
           unmapped |-> val.set \ UNION {Mask(c) : c \in hit}]
  BY DEF DecodeCode
<1> HIDE DEF hit
<1> QED
  BY <1>1, <1>2 DEF hit

\* A code without a label is shown as Unknown, and is in the log.
LEMMA CodesShown ==
    ASSUME Logged, NEW k \in DOMAIN raw, Mapped(Regs[k]), raw[k].t # "bits"
    PROVE  CodeShown(k)
<1> DEFINE val == raw[k]
           items == Regs[k].items
           code == ToInt(val)
<1>1. Wire(Regs[k], val).labels = DecodeCode(val, items).labels
  BY DEF Wire, Label
<1>2. DecodeCode(val, items) =
          IF code \in DOMAIN items THEN [labels |-> {items[code]}, unmapped |-> {}]
          ELSE [labels |-> {"Unknown"}, unmapped |-> {code}]
  BY DEF DecodeCode
<1>3. CASE code \in DOMAIN items
  BY <1>1, <1>2, <1>3 DEF CodeShown
<1>4. CASE code \notin DOMAIN items
  <2>1. DecodeCode(val, items) = [labels |-> {"Unknown"}, unmapped |-> {code}]
    BY <1>2, <1>4
  <2>2. DecodeCode(val, items).unmapped # {}
    BY <2>1
  <2>3. <<k, val>> \in unmappedSeen \/ Cardinality(unmappedSeen) = MaxLogged
    BY <2>2 DEF Logged
  <2> QED
    BY <1>1, <1>4, <2>1, <2>3 DEF CodeShown
<1> QED
  BY <1>3, <1>4

\* No fault is hidden, in either language.
LEMMA NothingHiddenShown == Shape /\ Read /\ Logged => NothingHidden
<1> SUFFICES ASSUME Shape, Read, Logged, NEW k \in DOMAIN raw,
                    Mapped(Regs[k]), raw[k].t = "bits"
             PROVE  LET labels == Wire(Regs[k], raw[k]).labels
                        items == Regs[k].items
                        named == {i \in raw[k].set : \E c \in DOMAIN items :
                                    items[c] \in labels /\ (c \div TwoTo[i]) % 2 = 1}
                    IN /\ "OK" \in labels <=> raw[k].set = {}
                       /\ \/ named = raw[k].set
                          \/ <<k, raw[k]>> \in unmappedSeen
                          \/ Cardinality(unmappedSeen) = MaxLogged
                       /\ \A l \in labels \ {"OK", "Unknown"} :
                            \E i \in named, c \in DOMAIN items :
                                items[c] = l /\ (c \div TwoTo[i]) % 2 = 1
                       /\ \A lang \in {"en", "de"} :
                            BitFieldValueTemplate(Regs[k], lang, Wire(Regs[k], raw[k])) =
                                CASE labels = {"OK"}      -> {"OK"}
                                  [] labels = {"Unknown"} -> {}
                                  [] OTHER -> DecodeCode(raw[k],
                                                IF lang = "de" THEN Localized(Regs[k])
                                                ELSE items).labels
  BY CodesShown DEF NothingHidden
<1> DEFINE reg == Regs[k]
           val == raw[k]
           items == reg.items
           wire == Wire(reg, val)
           labels == wire.labels
           hit == {c \in DOMAIN items : Mask(c) \cap val.set # {}}
           named == {i \in val.set : \E c \in DOMAIN items :
                        items[c] \in labels /\ (c \div TwoTo[i]) % 2 = 1}
           unmapped == DecodeCode(val, items).unmapped
<1>1. k \in DOMAIN Regs /\ group \in Groups
  BY DEF Shape
<1>2. /\ \A c \in DOMAIN items : items[c] \notin {"OK", "Unknown"}
      /\ \A c, d \in DOMAIN items :
            items[c] = items[d] => Localized(reg)[c] = Localized(reg)[d]
  BY <1>1, GroupsAssumption DEF Regs
<1>3. val.set \subseteq 0..(4 * WordBits)
  <2>1. PICK ws : Legal(reg, ws) /\ val = Decode(reg, ws)
    BY DEF Read
  <2>2. reg.type = "BIT"
    <3> SUFFICES ASSUME reg.type # "BIT"
                 PROVE  FALSE
      OBVIOUS
    <3>1. reg.type \in Numeric /\ reg.scale \in 1..TwoTo[ScaleBits]
      BY <1>1, RegFacts
    <3>2. (reg.scale = 1 \/ reg.scale > 1) /\ "bits" \notin {"int", "int64", "float"}
      BY <3>1, GridFacts
    <3> HIDE DEF reg, val
    <3>3. Decode(reg, ws).t \in {"int", "int64", "float"}
      BY <2>1, <3>1, <3>2, IntegerFacts, DecodeFacts
    <3> QED
      BY <2>1, <3>2, <3>3 DEF val
  <2>3. val.set = Bits(Unsigned(ws))
    BY <2>1, <2>2 DEF Decode
  <2> HIDE DEF val
  <2> QED
    BY <2>3 DEF Bits
<1>4. wire = [t |-> "label", labels |-> DecodeCode(val, items).labels]
  BY DEF Wire, Label
<1>5. labels = DecodeCode(val, items).labels
  BY <1>4
<1>6. /\ unmapped = val.set \ UNION {Mask(c) : c \in hit}
      /\ val.set = {} => labels = {"OK"}
      /\ val.set # {} /\ hit = {} => labels = {"Unknown"}
      /\ hit # {} => labels = {items[c] : c \in hit}
  <2> HIDE DEF reg, val, wire
  <2> QED
    BY <1>5, BitLabels DEF val
<1>7. \A c, i : i \in val.set /\ i \in Mask(c) <=> i \in val.set /\ (c \div TwoTo[i]) % 2 = 1
  BY <1>3 DEF Mask, Bits
<1>8. unmapped # {} =>
          <<k, val>> \in unmappedSeen \/ Cardinality(unmappedSeen) = MaxLogged
  BY DEF Logged
<1>9. wire.t = "label" /\ Tokens(reg) = {items[c] : c \in DOMAIN items}
  BY <1>4 DEF Tokens
<1>10. DOMAIN Localized(reg) = DOMAIN items
  BY DEF Localized
<1>11. ASSUME NEW lang
       PROVE  BitFieldValueTemplate(reg, lang, wire) =
                  IF labels = {"Unknown"} THEN {}
                  ELSE {IF l \in Tokens(reg) THEN LabelIn(reg, l, lang) ELSE l : l \in labels}
  BY DEF BitFieldValueTemplate
<1> HIDE DEF wire, labels, hit, unmapped, items
<1>12. CASE val.set = {}
  <2>1. labels = {"OK"} /\ "OK" \in labels /\ named = {} /\ "OK" # "Unknown"
    BY <1>6, <1>12
  <2>2. "OK" \notin Tokens(reg)
    BY <1>2, <1>9
  <2>3. ASSUME NEW lang
        PROVE  BitFieldValueTemplate(reg, lang, wire) = {"OK"}
    <3> DEFINE F(l) == IF l \in Tokens(reg) THEN LabelIn(reg, l, lang) ELSE l
    <3>1. BitFieldValueTemplate(reg, lang, wire) = {F(l) : l \in labels}
      <4>1. labels # {"Unknown"}
        BY <2>1
      <4> QED
        BY <1>11, <4>1, Zenon
    <3>2. F("OK") = "OK"
      BY <2>2, Zenon
    <3> HIDE DEF F
    <3>3. {F(l) : l \in {"OK"}} = {F("OK")}
      OBVIOUS
    <3> QED
      BY <2>1, <3>1, <3>2, <3>3, Zenon
  <2> HIDE DEF named, val, reg
  <2>4. ("OK" \in labels <=> val.set = {}) /\ named = val.set /\ labels \ {"OK"} = {}
    BY <1>12, <2>1
  <2>5. \A l \in labels \ {"OK", "Unknown"} : \E i \in named, c \in DOMAIN items :
            items[c] = l /\ (c \div TwoTo[i]) % 2 = 1
    BY <2>4
  <2>6. \A lang \in {"en", "de"} :
            BitFieldValueTemplate(reg, lang, wire) =
                CASE labels = {"OK"}      -> {"OK"}
                  [] labels = {"Unknown"} -> {}
                  [] OTHER -> DecodeCode(val, IF lang = "de" THEN Localized(reg)
                                              ELSE items).labels
    <3>1. labels = {"OK"} /\ labels # {"Unknown"}
      BY <2>1
    <3> QED
      BY <2>3, <3>1
  <2> QED
    BY <2>4, <2>5, <2>6, Zenon DEF val, reg, wire, items, named, labels
<1>13. CASE val.set # {} /\ hit = {}
  <2>1. labels = {"Unknown"} /\ "OK" \notin labels /\ "OK" # "Unknown"
    BY <1>6, <1>13
  <2>2. unmapped # {}
    BY <1>6, <1>13
  <2>3. ASSUME NEW lang
        PROVE  BitFieldValueTemplate(reg, lang, wire) = {}
    BY <1>11, <2>1
  <2> HIDE DEF named, val, reg
  <2> QED
    BY <1>8, <1>13, <2>1, <2>2, <2>3 DEF val, reg, wire, items, named, labels
<1>14. CASE hit # {}
  <2>1. labels = {items[c] : c \in hit} /\ hit \subseteq DOMAIN items /\ val.set # {}
    BY <1>6, <1>14 DEF hit, items
  <2>2. "OK" \notin labels /\ "Unknown" \notin labels /\ labels # {}
    BY <1>2, <1>14, <2>1
  <2>3. named = val.set \/ unmapped # {}
    BY <1>6, <1>7, <2>1 DEF items
  <2>4. \A l \in labels \ {"OK", "Unknown"} :
            \E i \in named, c \in DOMAIN items : items[c] = l /\ (c \div TwoTo[i]) % 2 = 1
    <3> SUFFICES ASSUME NEW l \in labels
                 PROVE  \E i \in named, c \in DOMAIN items :
                            items[c] = l /\ (c \div TwoTo[i]) % 2 = 1
      OBVIOUS
    <3>1. PICK c \in hit : items[c] = l
      BY <2>1
    <3>2. PICK i \in val.set : i \in Mask(c)
      BY DEF hit
    <3>3. (c \div TwoTo[i]) % 2 = 1 /\ c \in DOMAIN items
      BY <1>7, <2>1, <3>2
    <3>4. i \in named
      BY <3>1, <3>2, <3>3
    <3> QED
      BY <3>1, <3>3, <3>4
  <2>5. ASSUME NEW lang \in {"en", "de"}
        PROVE  BitFieldValueTemplate(reg, lang, wire) =
                   DecodeCode(val, IF lang = "de" THEN Localized(reg) ELSE items).labels
    <3>1. BitFieldValueTemplate(reg, lang, wire) = {LabelIn(reg, l, lang) : l \in labels}
      <4>1. \A l \in labels : l \in Tokens(reg)
        BY <1>9, <2>1
      <4> QED
        BY <1>11, <2>2, <4>1
    <3>2. CASE lang = "en"
      <4>1. \A l : LabelIn(reg, l, lang) = l
        BY <3>2 DEF LabelIn
      <4>2. BitFieldValueTemplate(reg, lang, wire) = labels
        BY <3>1, <4>1
      <4> QED
        BY <1>5, <3>2, <4>2
    <3>3. CASE lang = "de"
      <4>1. \A c \in hit : LabelIn(reg, items[c], lang) = Localized(reg)[c]
        <5> SUFFICES ASSUME NEW c \in hit
                     PROVE  LabelIn(reg, items[c], lang) = Localized(reg)[c]
          OBVIOUS
        <5> DEFINE d == CHOOSE d \in DOMAIN reg.items : reg.items[d] = items[c]
        <5>1. d \in DOMAIN items /\ items[d] = items[c]
          BY <2>1 DEF items
        <5>2. LabelIn(reg, items[c], lang) = Localized(reg)[d]
          BY <3>3 DEF LabelIn
        <5> HIDE DEF d
        <5> QED
          BY <1>2, <2>1, <5>1, <5>2
      <4>2. {LabelIn(reg, l, lang) : l \in labels} = {Localized(reg)[c] : c \in hit}
        BY <2>1, <4>1
      <4>3. DecodeCode(val, Localized(reg)).labels = {Localized(reg)[c] : c \in hit}
        <5>1. hit = {c \in DOMAIN Localized(reg) : Mask(c) \cap val.set # {}}
          BY <1>10 DEF hit
        <5> HIDE DEF val, reg
        <5> QED
          BY <1>14, <5>1, BitLabels DEF val
      <4> QED
        BY <3>1, <3>3, <4>2, <4>3
    <3> QED
      BY <3>2, <3>3
  <2>6. labels # {"OK"} /\ labels # {"Unknown"}
    BY <2>2
  <2> HIDE DEF named, val, reg
  <2> QED
    BY <1>8, <2>1, <2>2, <2>3, <2>4, <2>5, <2>6 DEF val, reg, wire, items, named, labels
<1> QED
  BY <1>12, <1>13, <1>14

-----------------------------------------------------------------------------
(* Writing *)

\* An integer that is accepted is multiplied without wrapping.
LEMMA ScaleIntFacts ==
    ASSUME NEW i \in Int, NEW s \in Nat \ {0}
    PROVE  /\ i >= 0 /\ i * s <= MaxWord => ScaleInt(i, s) = {i * s}
           /\ \A code \in ScaleInt(i, s) : code = i * s /\ code \in 0..MaxWord
<1>1. MaxWord \in Nat /\ MaxWord < TwoTo[LongBits - 1]
  <2>1. /\ WordBits \in Nat /\ LongBits - 1 \in Nat /\ WordBits <= LongBits - 1
        /\ LongBits - 1 <= TableEnd
    BY Widths
  <2>2. TwoTo[WordBits] \in Nat \ {0} /\ TwoTo[LongBits - 1] \in Nat
        /\ TwoTo[WordBits] <= TwoTo[LongBits - 1]
    BY <2>1, TwoToGrows
  <2> QED
    BY <2>2 DEF MaxWord
<1> DEFINE q == MaxWord \div s
           p == i * s
<1>2. q \in Nat /\ q * s <= MaxWord /\ MaxWord < (q + 1) * s
  <2>1. q \in Int /\ MaxWord % s \in Nat /\ MaxWord % s < s /\ q >= 0
        /\ MaxWord = s * q + (MaxWord % s)
    BY <1>1, DivMod
  <2> HIDE DEF q
  <2>2. (q + 1) * s = s * q + s /\ q * s = s * q /\ s * q \in Int
    BY <2>1
  <2> QED
    BY <1>1, <2>1, <2>2
<1>3. p \in Int
  OBVIOUS
<1>4. ScaleInt(i, s) = IF i < 0 \/ i > q THEN {} ELSE {Wrap(p, LongBits)}
  BY DEF ScaleInt
<1> HIDE DEF q
<1>5. ASSUME i >= 0, i <= q
      PROVE  p \in 0..MaxWord /\ Wrap(p, LongBits) = p
  <2>1. p <= q * s /\ 0 * s <= p /\ q * s \in Int
    BY <1>2, <1>5, Times
  <2> HIDE DEF p
  <2>2. p \in Nat /\ p <= MaxWord
    BY <1>1, <1>2, <1>3, <2>1
  <2>3. LongBits \in Nat \ {0} /\ LongBits <= TableEnd
    BY Widths
  <2>4. p < TwoTo[LongBits - 1]
    <3>1. TwoTo[LongBits - 1] \in Nat
      <4>1. LongBits - 1 \in Nat /\ LongBits - 1 <= TableEnd
        BY Widths
      <4> QED
        BY <4>1, TwoToGrows
    <3> QED
      BY <1>1, <2>2, <3>1
  <2> QED
    BY <1>1, <2>2, <2>3, <2>4, WrapFacts
<1>6. ASSUME i >= 0, p <= MaxWord
      PROVE  i <= q
  <2> SUFFICES ASSUME q + 1 <= i
               PROVE  FALSE
    BY <1>2
  <2>1. (q + 1) * s <= p /\ (q + 1) * s \in Int
    BY <1>2, Times
  <2> HIDE DEF p
  <2> QED
    BY <1>1, <1>2, <1>3, <1>6, <2>1
<1>7. ASSUME i >= 0, p <= MaxWord
      PROVE  ScaleInt(i, s) = {p}
  <2>1. i <= q /\ Wrap(p, LongBits) = p
    BY <1>5, <1>6, <1>7
  <2>2. ~(i < 0 \/ i > q)
    BY <1>2, <1>7, <2>1
  <2> HIDE DEF p
  <2> QED
    BY <1>4, <2>1, <2>2
<1>8. ASSUME NEW code \in ScaleInt(i, s)
      PROVE  code = p /\ code \in 0..MaxWord
  <2>1. i >= 0 /\ i <= q /\ code = Wrap(p, LongBits)
    <3> HIDE DEF p
    <3> QED
      BY <1>2, <1>4
  <2> QED
    BY <1>5, <2>1
<1> QED
  BY <1>7, <1>8

\* A rounded number is a float, of its sign.
LEMMA FloatFacts ==
    ASSUME NEW n \in Int, NEW d \in Nat \ {0}
    PROVE  /\ Float(n, d) \in Int
           /\ n >= 0 => Float(n, d) = RoundPositive(n, d) /\ Float(n, d) \in Nat
           /\ n < 0 => Float(n, d) = -RoundPositive(-n, d)
<1>1. CASE n >= 0
  <2>1. Float(n, d) = RoundPositive(n, d)
    BY <1>1 DEF Float
  <2>2. RoundPositive(n, d) \in Nat
    BY <1>1, RoundError
  <2> QED
    BY <1>1, <2>1, <2>2
<1>2. CASE n < 0
  <2>1. Float(n, d) = -RoundPositive(-n, d)
    BY <1>2 DEF Float
  <2>2. RoundPositive(-n, d) \in Nat
    <3>1. -n \in Nat
      BY <1>2
    <3> QED
      BY <3>1, RoundError
  <2> QED
    BY <1>2, <2>1, <2>2
<1> QED
  BY <1>1, <1>2

\* A float that is accepted is a word.
LEMMA ScaleFloatRange ==
    ASSUME NEW m \in Int, NEW s \in Nat \ {0}, NEW code \in ScaleFloat(m, s)
    PROVE  LET scaled == Float(m * s, 1) IN
           /\ scaled \in Nat /\ scaled <= MaxWord * One
           /\ code = scaled \div One /\ code \in 0..MaxWord
<1> DEFINE scaled == Float(m * s, 1)
<1>1. scaled \in Int
  <2>1. m * s \in Int /\ 1 \in Nat \ {0}
    OBVIOUS
  <2> HIDE DEF scaled
  <2> QED
    BY <2>1, FloatFacts DEF scaled
<1>2. ScaleFloat(m, s) =
          IF scaled < 0 \/ scaled > MaxWord * One THEN {} ELSE {scaled \div One}
  BY DEF ScaleFloat
<1>3. MaxWord \in Nat /\ One \in Nat \ {0}
  <2>1. TwoTo[WordBits] \in Nat \ {0}
    BY Widths, TwoToGrows
  <2> QED
    BY <2>1, GridFacts DEF MaxWord
<1> HIDE DEF scaled
<1>4. MaxWord * One \in Nat
  BY <1>3
<1>5. scaled \in Nat /\ scaled <= MaxWord * One /\ code = scaled \div One
  BY <1>1, <1>2, <1>4
<1>6. code \in 0..MaxWord
  <2> DEFINE q == scaled \div One
  <2>1. q \in Nat /\ scaled % One \in Nat /\ scaled = One * q + (scaled % One)
    BY <1>3, <1>5, DivMod
  <2> HIDE DEF q
  <2>2. One * q = q * One /\ q * One <= MaxWord * One
    BY <1>3, <1>4, <1>5, <2>1
  <2>3. q <= MaxWord
    BY <1>3, <2>1, <2>2, Times
  <2> QED
    BY <1>3, <1>5, <2>1, <2>3 DEF q
<1> QED
  BY <1>5, <1>6 DEF scaled

\* What a user can send, and what is shown can be sent back.
Payload(p) ==
    /\ p.t \in {"int", "decimal", "float", "text", "bool"}
    /\ p.t \in {"int", "decimal"} => p.n \in Int /\ p.d \in Nat \ {0}
    /\ p.t = "int" => p.d = 1
    /\ p.t = "float" => p.m \in Int

\* Whatever is written is a word.
LEMMA WrittenRange ==
    ASSUME NEW reg, NEW p, Payload(p), reg.scale \in Nat \ {0}, NEW code \in Written(reg, p)
    PROVE  reg.writable /\ code \in 0..MaxWord
<1>1. reg.writable
  BY DEF Written
<1>2. CASE CodeForLabel(reg, p) # {}
  BY <1>1, <1>2 DEF Written
<1>3. CASE CodeForLabel(reg, p) = {}
  <2>1. code \in ParseWriteValue(p, reg.scale)
    BY <1>1, <1>3 DEF Written
  <2>2. CASE p.t = "int"
    <3>1. code \in ScaleInt(p.n, reg.scale) /\ p.n \in Int
      BY <2>1, <2>2 DEF ParseWriteValue, Payload
    <3> QED
      BY <1>1, <3>1, ScaleIntFacts
  <2>3. CASE p.t = "decimal"
    <3> DEFINE m == Float(p.n * One, p.d)
    <3>1. code \in ScaleFloat(m, reg.scale)
      BY <2>1, <2>3 DEF ParseWriteValue
    <3>2. m \in Int
      <4>1. p.n * One \in Int /\ p.d \in Nat \ {0}
        BY <2>3, GridFacts DEF Payload
      <4> HIDE DEF m
      <4> QED
        BY <4>1, FloatFacts DEF m
    <3> HIDE DEF m
    <3> QED
      BY <1>1, <3>1, <3>2, ScaleFloatRange
  <2>4. CASE p.t = "float"
    <3>1. code \in ScaleFloat(p.m, reg.scale) /\ p.m \in Int
      BY <2>1, <2>4 DEF ParseWriteValue, Payload
    <3> QED
      BY <1>1, <3>1, ScaleFloatRange
  <2>5. CASE p.t \in {"text", "bool"}
    BY <2>1, <2>5 DEF ParseWriteValue
  <2> QED
    BY <2>2, <2>3, <2>4, <2>5 DEF Payload
<1> QED
  BY <1>2, <1>3

-----------------------------------------------------------------------------
(* Dividing by a scale of at most two bits and multiplying again *)

\* Nearest is the only number within half a unit, and the even one of two.
LEMMA NearestIs ==
    ASSUME NEW n \in Nat, NEW d \in Nat \ {0}, NEW c \in Nat, NEW y \in Int,
           n = c * d + y, 2 * y <= d, -(2 * y) <= d,
           2 * y = d \/ -(2 * y) = d => c % 2 = 0
    PROVE  Nearest(n, d) = c
<1> DEFINE q == Nearest(n, d)
<1>1. /\ q \in Nat /\ 2 * (q * d) - d <= 2 * n /\ 2 * n <= 2 * (q * d) + d
      /\ 2 * n = 2 * (q * d) + d => q % 2 = 0
      /\ 2 * n = 2 * (q * d) - d => q % 2 = 0
  BY NearestFacts
<1> HIDE DEF q
<1> DEFINE z == q - c
<1>2. z \in Int /\ q * d = c * d + z * d /\ z * d \in Int /\ c * d \in Int /\ q = c + z
  BY <1>1
<1> HIDE DEF z
<1>3. /\ 2 * (z * d) - d <= 2 * y /\ 2 * y <= 2 * (z * d) + d
      /\ 2 * y = 2 * (z * d) + d => q % 2 = 0
      /\ 2 * y = 2 * (z * d) - d => q % 2 = 0
  BY <1>1, <1>2
<1>4. z * d <= 1 * d /\ (-1) * d <= z * d
  BY <1>2, <1>3
<1>5. -1 <= z /\ z <= 1
  BY <1>2, <1>4, Times
<1>6. CASE z = 1
  <2>1. 2 * y = d
    BY <1>3, <1>6
  <2>2. q % 2 = 0 /\ c % 2 = 0
    BY <1>3, <1>6, <2>1
  <2> QED
    BY <1>1, <1>2, <1>6, <2>2
<1>7. CASE z = -1
  <2>1. -(2 * y) = d
    BY <1>3, <1>7
  <2>2. q % 2 = 0 /\ c % 2 = 0
    BY <1>3, <1>7, <2>1
  <2> QED
    BY <1>1, <1>2, <1>7, <2>2
<1>8. CASE z = 0
  BY <1>2, <1>8 DEF q
<1> QED
  BY <1>2, <1>5, <1>6, <1>7, <1>8

\* An odd divisor has no tie, so that the error is less than half of it.
LEMMA NoTie ==
    ASSUME NEW t \in Nat \ {0}, NEW v \in Nat, NEW q \in Nat, NEW b \in Nat,
           NEW y \in Int, y = q * ((2 * v + 1) * t) - b * t,
           2 * y <= (2 * v + 1) * t, -(2 * y) <= (2 * v + 1) * t
    PROVE  2 * y <= (2 * v) * t /\ -(2 * y) <= (2 * v) * t
<1> DEFINE k == q * (2 * v + 1) - b
<1>1. k \in Int /\ y = k * t
  BY SMT
<1> HIDE DEF k
<1>2. 2 * y = (2 * k) * t /\ -(2 * y) = (-(2 * k)) * t
  BY <1>1
<1>3. 2 * k <= 2 * v + 1 /\ -(2 * k) <= 2 * v + 1
  BY <1>1, <1>2, Times
<1>4. 2 * k <= 2 * v /\ -(2 * k) <= 2 * v
  BY <1>1, <1>3
<1> QED
  BY <1>1, <1>2, <1>4, Times

\* A scale of at most two bits has a highest one and perhaps a lower one.
LEMMA ScaleShape ==
    ASSUME NEW s \in 1..TwoTo[ScaleBits], TwoBits(s)
    PROVE  \E i \in 0..ScaleBits :
               /\ s < 2 * TwoTo[i]
               /\ s = TwoTo[i] \/ \E j \in 0..(i - 1) : s = TwoTo[i] + TwoTo[j]
<1>0. ScaleBits \in Nat /\ ScaleBits + 1 <= TableEnd /\ TableEnd \in Nat
  BY Widths
<1>1. PICK a \in 0..ScaleBits, b \in 0..ScaleBits : s \in {TwoTo[a], TwoTo[a] + TwoTo[b]}
  BY DEF TwoBits
<1>2. \A i \in 0..(ScaleBits + 1) : TwoTo[i] \in Nat \ {0}
  <2>1. \A i \in 0..TableEnd : TwoTo[i] \in Nat \ {0}
    BY TwoToFacts
  <2> QED
    BY <1>0, <2>1
<1>3. ASSUME NEW i \in 0..ScaleBits, NEW j \in 0..(i - 1)
      PROVE  TwoTo[j] < TwoTo[i]
  <2>1. i \in Nat /\ j \in Nat /\ j < i /\ i <= TableEnd
    BY <1>0
  <2>2. 2 * TwoTo[j] <= TwoTo[i] /\ TwoTo[j] \in Nat \ {0} /\ TwoTo[i] \in Nat
    BY <2>1, TwoToGrows
  <2> QED
    BY <2>2
<1>4. ASSUME NEW i \in 0..ScaleBits, NEW j \in 0..(i - 1), s = TwoTo[i] + TwoTo[j]
      PROVE  s < 2 * TwoTo[i]
  <2>1. TwoTo[j] < TwoTo[i] /\ TwoTo[i] \in Nat
    BY <1>0, <1>2, <1>3
  <2>2. TwoTo[j] \in Nat
    BY <1>0, <1>2
  <2> QED
    BY <1>4, <2>1, <2>2
<1>5. CASE s = TwoTo[a]
  <2>1. TwoTo[a] < 2 * TwoTo[a]
    BY <1>0, <1>2
  <2> QED
    BY <1>5, <2>1
<1>6. CASE s = TwoTo[a] + TwoTo[b] /\ b < a
  <2>1. b \in 0..(a - 1)
    BY <1>0, <1>6
  <2> QED
    BY <1>4, <1>6, <2>1
<1>7. CASE s = TwoTo[a] + TwoTo[b] /\ a < b
  <2>1. a \in 0..(b - 1)
    BY <1>0, <1>7
  <2>2. s = TwoTo[b] + TwoTo[a]
    <3>1. TwoTo[a] \in Nat /\ TwoTo[b] \in Nat
      BY <1>0, <1>2
    <3> QED
      BY <1>7, <3>1
  <2> QED
    BY <1>4, <2>1, <2>2
<1>8. CASE s = TwoTo[a] + TwoTo[b] /\ a = b
  <2>1. TwoTo[a + 1] = 2 * TwoTo[a] /\ TwoTo[a] \in Nat \ {0}
    <3>1. a \in 0..(TableEnd - 1)
      BY <1>0
    <3> QED
      BY <1>0, <1>2, <3>1, TwoToFacts
  <2>2. s = TwoTo[a + 1]
    BY <1>8, <2>1
  <2>3. a + 1 \in 0..ScaleBits
    <3> SUFFICES ASSUME a = ScaleBits
                 PROVE  FALSE
      BY <1>0
    <3>1. TwoTo[ScaleBits] \in Nat \ {0}
      BY <2>1
    <3> QED
      BY <2>1, <2>2, <3>1
  <2>4. s < 2 * s
    BY <1>0, <1>2, <2>2, <2>3
  <2> QED
    BY <2>2, <2>3, <2>4
<1> QED
  BY <1>0, <1>1, <1>5, <1>6, <1>7, <1>8

\* Nothing is rounded to nothing.
LEMMA RoundZero ==
    ASSUME NEW d \in Nat \ {0}
    PROVE  RoundPositive(0, d) = 0
<1> DEFINE r == RoundPositive(0, d)
<1>1. /\ r \in Nat
      /\ \/ 2 * (r * d) <= 2 * 0 + d
         \/ TwoTo[Mantissa] * (r * d - 0) <= 0
  BY RoundError
<1>2. TwoTo[Mantissa] \in Nat \ {0}
  BY GridFacts
<1> HIDE DEF r
<1>3. r # 0 => r * d >= d /\ r * d \in Nat
  <2>1. r # 0 => 1 * d <= r * d
    BY <1>1, Times
  <2> QED
    BY <1>1, <2>1
<1>4. r = 0
  <2> SUFFICES ASSUME r # 0
               PROVE  FALSE
    OBVIOUS
  <2> DEFINE x == r * d
             k == TwoTo[Mantissa]
  <2>1. x \in Nat /\ x >= d
    BY <1>3
  <2>2. 2 * x <= d \/ k * x <= 0
    BY <1>1, <2>1
  <2> HIDE DEF x, k
  <2>3. k * x >= 1 * x
    BY <1>2, <2>1, Times DEF k
  <2> QED
    BY <1>2, <2>1, <2>2, <2>3 DEF k
<1> QED
  BY <1>4 DEF r

\* The exponent of a quotient, w units of a scale with its highest bit at i.
LEMMA QuotientExponent ==
    ASSUME NEW w \in 1..TwoTo[WordBits], NEW s \in 1..TwoTo[ScaleBits],
           NEW i \in 0..ScaleBits, TwoTo[i] <= s
    PROVE  LET e == Exponent(w * One, s) IN
           /\ e \in 1..TopExponent
           /\ TwoTo[Mantissa + (e - 1)] * s <= w * One
           /\ w * One < TwoTo[Mantissa + e] * s
           /\ e + i <= WordBits + ScaleBits + 1
<1> DEFINE e == Exponent(w * One, s)
           n == w * One
           k == TwoTo[Mantissa]
           top == TwoTo[WordBits]
           G == Mantissa + ScaleBits
<1>0. /\ WordBits \in Nat \ {0} /\ ScaleBits \in Nat \ {0} /\ Mantissa \in Nat \ {0}
      /\ TopExponent = 2 * WordBits + ScaleBits /\ TopExponent \in Nat
      /\ TableEnd = Mantissa + TopExponent /\ Mantissa > 2 * WordBits /\ i \in Nat
      /\ i <= ScaleBits
  <2>1. TableEnd = Mantissa + TopExponent
    BY DEF TableEnd
  <2> QED
    BY <2>1, Widths
<1>1. /\ One \in Nat \ {0} /\ One = TwoTo[G] /\ One = k * TwoTo[ScaleBits] /\ k \in Nat \ {0}
      /\ TwoTo[ScaleBits] \in Nat \ {0} /\ top \in Nat \ {0}
  <2>1. One = TwoTo[G]
    BY DEF One
  <2>2. Mantissa + ScaleBits <= TableEnd /\ WordBits <= TableEnd
    BY <1>0
  <2>3. TwoTo[G] = k * TwoTo[ScaleBits]
    BY <1>0, <2>2, TwoToSum
  <2> QED
    BY <1>0, <2>1, <2>2, <2>3, GridFacts, TwoToGrows
<1>2. w \in Nat \ {0} /\ w <= top /\ s \in Nat \ {0} /\ s <= TwoTo[ScaleBits]
  <2> HIDE DEF top
  <2> QED
    BY <1>1 DEF top
<1> HIDE DEF k, top
<1>3. n \in Nat /\ One <= n /\ n <= top * One
  <2>1. 1 * One <= w * One /\ w * One <= top * One
    BY <1>1, <1>2, Times
  <2> QED
    BY <1>1, <1>2, <2>1
<1>4. top * One = TwoTo[WordBits + G] /\ WordBits + G < TableEnd
  <2>1. WordBits \in Nat /\ G \in Nat /\ WordBits + G <= TableEnd /\ WordBits + G < TableEnd
    BY <1>0
  <2>2. TwoTo[WordBits + G] = top * TwoTo[G]
    BY <2>1, TwoToSum DEF top
  <2> QED
    BY <1>1, <2>1, <2>2
<1> HIDE DEF n
<1>5. /\ e \in 0..TopExponent
      /\ e # TopExponent => Fits(n, s, e)
      /\ e # 0 => ~Fits(n, s, e - 1)
  BY <1>2, <1>3, ExponentFacts DEF n
<1> HIDE DEF e
<1>6. ~Fits(n, s, 0)
  <2>1. k * s <= k * TwoTo[ScaleBits] /\ k * s \in Int
    <3>1. s * k <= TwoTo[ScaleBits] * k
      BY <1>1, <1>2, Times
    <3> QED
      BY <1>1, <1>2, <3>1
  <2>2. TwoTo[Mantissa + 0] = k
    BY <1>0 DEF k
  <2>3. ~(n < k * s)
    BY <1>1, <1>3, <2>1
  <2> QED
    BY <2>2, <2>3 DEF Fits
<1>7. Fits(n, s, TopExponent)
  <2> DEFINE t == TwoTo[TableEnd]
  <2>1. 2 * (top * One) <= t /\ t \in Nat
    <3>1. TwoTo[WordBits + G] \in Nat /\ t \in Nat /\ 2 * TwoTo[WordBits + G] <= t
      <4>1. WordBits + G \in Nat /\ TableEnd \in Nat
        BY <1>0
      <4> QED
        BY <1>4, <4>1, TwoToGrows
    <3> QED
      BY <1>4, <3>1
  <2> HIDE DEF t
  <2>2. t <= t * s /\ t * s \in Int
    BY <1>2, <2>1
  <2>3. n < t * s
    <3>1. top * One \in Nat /\ top * One # 0
      BY <1>1
    <3> QED
      BY <1>3, <2>1, <2>2, <3>1
  <2>4. TwoTo[Mantissa + TopExponent] = t
    BY <1>0 DEF t
  <2> QED
    BY <2>3, <2>4 DEF Fits
<1>8. Fits(n, s, e)
  BY <1>5, <1>7
<1>9. e # 0 /\ e \in Nat /\ e <= TopExponent /\ e \in 1..TopExponent
  BY <1>0, <1>5, <1>6, <1>8
<1>10. TwoTo[Mantissa + (e - 1)] * s <= n
  <2>1. ~(n < TwoTo[Mantissa + (e - 1)] * s)
    BY <1>5, <1>9 DEF Fits
  <2>2. TwoTo[Mantissa + (e - 1)] \in Nat
    <3>1. Mantissa + (e - 1) \in Nat /\ Mantissa + (e - 1) <= TableEnd
      BY <1>0, <1>9
    <3> QED
      BY <3>1, TwoToGrows
  <2>3. TwoTo[Mantissa + (e - 1)] * s \in Int
    BY <1>2, <2>2
  <2> QED
    BY <1>3, <2>1, <2>3
<1>11. n < TwoTo[Mantissa + e] * s
  BY <1>8 DEF Fits
<1>12. e + i <= WordBits + ScaleBits + 1
  <2> SUFFICES ASSUME WordBits + ScaleBits + 1 < e + i
               PROVE  FALSE
    BY <1>0, <1>9
  <2> DEFINE z == Mantissa + (WordBits + ScaleBits + 1 - i)
             y == Mantissa + (e - 1)
             x == WordBits + G
  <2>1. /\ z \in Nat /\ y \in Nat /\ z <= y /\ y <= TableEnd /\ x \in Nat
        /\ z + i = x + 1 /\ z + i <= TableEnd /\ x + 1 <= TableEnd /\ x < x + 1 /\ x + 1 \in Nat
    BY <1>0, <1>4, <1>9
  <2>2. y = Mantissa + (e - 1) /\ x = WordBits + G
    OBVIOUS
  <2> HIDE DEF x, y, z
  <2>3. TwoTo[z] \in Nat /\ TwoTo[y] \in Nat /\ TwoTo[z] <= TwoTo[y]
    BY <2>1, TwoToGrows
  <2>4. TwoTo[x] \in Nat \ {0} /\ TwoTo[x + 1] \in Nat /\ 2 * TwoTo[x] <= TwoTo[x + 1]
    BY <2>1, TwoToGrows
  <2>5. TwoTo[z + i] = TwoTo[z] * TwoTo[i]
    BY <1>0, <2>1, TwoToSum
  <2>6. TwoTo[i] \in Nat
    <3>1. i <= TableEnd
      BY <1>0
    <3> QED
      BY <1>0, <3>1, TwoToGrows
  <2>7. TwoTo[z] * TwoTo[i] <= TwoTo[y] * s
    <3>1. TwoTo[z] * TwoTo[i] <= TwoTo[y] * TwoTo[i]
      BY <2>3, <2>6, Times
    <3>2. TwoTo[i] * TwoTo[y] <= s * TwoTo[y]
      BY <1>2, <2>3, <2>6, Times
    <3> DEFINE p == TwoTo[z]
               q == TwoTo[y]
               r == TwoTo[i]
    <3>3. p \in Nat /\ q \in Nat /\ r \in Nat /\ p * r <= q * r /\ r * q <= s * q
      BY <2>3, <2>6, <3>1, <3>2
    <3> HIDE DEF p, q, r
    <3>4. p * r <= q * s
      <4>1. p * r \in Int /\ q * r = r * q /\ r * q \in Int /\ s * q = q * s /\ s * q \in Int
        BY <1>2, <3>3
      <4> QED
        BY <3>3, <4>1
    <3> QED
      BY <3>4 DEF p, q, r
  <2>8. TwoTo[y] * s <= n
    BY <1>10, <2>2
  <2>9. n <= TwoTo[x]
    BY <1>3, <1>4, <2>2
  <2>10. TwoTo[x + 1] <= TwoTo[y] * s
    BY <2>1, <2>5, <2>7
  <2>11. TwoTo[y] * s \in Int
    BY <1>2, <2>3
  <2> QED
    BY <1>3, <2>4, <2>8, <2>9, <2>10, <2>11
<1> QED
  BY <1>9, <1>10, <1>11, <1>12 DEF e, n

\* The exponent of a number between two and four half ranges of the mantissa.
LEMMA ProductExponent ==
    ASSUME NEW p \in Nat, NEW g \in 1..TopExponent,
           TwoTo[Mantissa + (g - 1)] <= p,
           g # TopExponent => p < TwoTo[Mantissa + (g + 1)]
    PROVE  Exponent(p, 1) \in {g, g + 1}
<1> DEFINE f == Exponent(p, 1)
<1>0. TopExponent \in Nat /\ Mantissa \in Nat /\ TableEnd = Mantissa + TopExponent /\ g \in Nat
  BY Widths DEF TableEnd
<1>1. /\ f \in 0..TopExponent
      /\ f # TopExponent => Fits(p, 1, f)
      /\ f # 0 => ~Fits(p, 1, f - 1)
  BY ExponentFacts
<1> HIDE DEF f
<1>2. ~Fits(p, 1, g - 1)
  <2>1. TwoTo[Mantissa + (g - 1)] \in Nat
    <3>1. Mantissa + (g - 1) \in Nat /\ Mantissa + (g - 1) <= TableEnd
      BY <1>0
    <3> QED
      BY <3>1, TwoToGrows
  <2>2. TwoTo[Mantissa + (g - 1)] * 1 = TwoTo[Mantissa + (g - 1)]
    BY <2>1
  <2>3. ~(p < TwoTo[Mantissa + (g - 1)])
    BY <2>1
  <2> QED
    BY <2>2, <2>3 DEF Fits
<1>3. f >= g
  <2> SUFFICES ASSUME f <= g - 1
               PROVE  FALSE
    BY <1>0, <1>1
  <2>1. f \in Nat /\ g - 1 \in 0..TopExponent /\ f # TopExponent
    BY <1>0, <1>1
  <2> QED
    BY <1>1, <1>2, <2>1, FitsGrows
<1>4. CASE g = TopExponent
  <2>1. f = g
    BY <1>0, <1>1, <1>3, <1>4
  <2> QED
    BY <2>1 DEF f
<1>5. CASE g # TopExponent
  <2>1. g + 1 \in Nat /\ g + 1 <= TopExponent
    BY <1>0, <1>5
  <2>2. Fits(p, 1, g + 1)
    <3>1. TwoTo[Mantissa + (g + 1)] \in Nat
      <4>1. Mantissa + (g + 1) \in Nat /\ Mantissa + (g + 1) <= TableEnd
        BY <1>0, <2>1
      <4> QED
        BY <4>1, TwoToGrows
    <3>2. TwoTo[Mantissa + (g + 1)] * 1 = TwoTo[Mantissa + (g + 1)]
      BY <3>1
    <3> QED
      BY <1>5, <3>2 DEF Fits
  <2>3. f <= g + 1
    <3> SUFFICES ASSUME g + 1 <= f - 1
                 PROVE  FALSE
      BY <1>0, <1>1
    <3>1. f - 1 \in 0..TopExponent /\ f # 0
      BY <1>0, <1>1
    <3> QED
      BY <1>1, <2>1, <2>2, <3>1, FitsGrows
  <2>4. f = g \/ f = g + 1
    BY <1>0, <1>1, <1>3, <2>3
  <2> QED
    BY <2>4 DEF f
<1> QED
  BY <1>4, <1>5

\* A word divided by a scale of at most two bits and multiplied again is itself.
LEMMA TwoBitsExact ==
    ASSUME NEW w \in 0..TwoTo[WordBits], NEW s \in 1..TwoTo[ScaleBits], TwoBits(s)
    PROVE  Float(Float(w * One, s) * s, 1) = w * One
<1>0. /\ One \in Nat \ {0} /\ TwoTo[WordBits] \in Nat \ {0} /\ TwoTo[ScaleBits] \in Nat \ {0}
      /\ w \in Nat /\ s \in Nat \ {0} /\ s <= TwoTo[ScaleBits]
  <2>1. TwoTo[WordBits] \in Nat \ {0}
    BY Widths, TwoToGrows
  <2>2. One \in Nat \ {0} /\ TwoTo[ScaleBits] \in Nat \ {0}
    BY GridFacts
  <2> QED
    BY <2>1, <2>2
<1>1. CASE w = 0
  <2>1. w * One = 0
    BY <1>0, <1>1
  <2>2. Float(0, s) = 0 /\ Float(0, 1) = 0
    <3>1. RoundPositive(0, s) = 0 /\ RoundPositive(0, 1) = 0
      BY <1>0, RoundZero
    <3> QED
      BY <3>1 DEF Float
  <2>3. 0 * s = 0
    BY <1>0
  <2> QED
    BY <2>1, <2>2, <2>3
<1>2. CASE w # 0
  <2>1. PICK i \in 0..ScaleBits :
            /\ s < 2 * TwoTo[i]
            /\ s = TwoTo[i] \/ \E j \in 0..(i - 1) : s = TwoTo[i] + TwoTo[j]
    BY ScaleShape
  <2> DEFINE G == Mantissa + ScaleBits
             n == w * One
             e == Exponent(n, s)
             E == TwoTo[e]
             h == TwoTo[i]
             c == w * TwoTo[G - e - i - 1]
             half == TwoTo[Mantissa - 1]
             q == Nearest(n, s * E)
             x == q * s
             a == 2 * (c * h)
             y == x - a
             D == h * E
             p == x * E
  <2>2. /\ WordBits \in Nat \ {0} /\ ScaleBits \in Nat \ {0} /\ Mantissa \in Nat \ {0}
        /\ TopExponent = 2 * WordBits + ScaleBits /\ TopExponent \in Nat
        /\ TableEnd = Mantissa + TopExponent /\ Mantissa > 2 * WordBits /\ i \in Nat
        /\ i <= ScaleBits
    <3>1. TableEnd = Mantissa + TopExponent
      BY DEF TableEnd
    <3> QED
      BY <3>1, Widths
  <2>3. h \in Nat \ {0} /\ h <= s /\ s < 2 * h
    <3>1. h \in Nat \ {0}
      <4>1. i <= TableEnd
        BY <2>2
      <4> QED
        BY <2>2, <4>1, TwoToGrows
    <3>2. \A j \in 0..(i - 1) : TwoTo[j] \in Nat
      <4>1. \A j \in 0..(i - 1) : j \in 0..TableEnd
        BY <2>2
      <4> QED
        BY <4>1, TwoToFacts
    <3> QED
      BY <1>0, <2>1, <3>1, <3>2
  <2>4. /\ e \in 1..TopExponent
        /\ TwoTo[Mantissa + (e - 1)] * s <= n
        /\ n < TwoTo[Mantissa + e] * s
        /\ e + i <= WordBits + ScaleBits + 1
    <3>1. w \in 1..TwoTo[WordBits]
      BY <1>0, <1>2
    <3> QED
      BY <2>3, <3>1, QuotientExponent
  <2> HIDE DEF n, e
  <2>5. /\ e \in Nat /\ e # 0 /\ e + i \in 1..TopExponent /\ G - e - i - 1 \in Nat
        /\ G - e - i - 1 <= TableEnd /\ G = (G - e - i - 1) + (e + i + 1)
        /\ G <= TableEnd /\ e + i + 1 <= TableEnd /\ e + i <= TableEnd
        /\ e <= TableEnd /\ Mantissa - 1 \in Nat
    BY <2>2, <2>4
  <2>6. E \in Nat \ {0} /\ half \in Nat \ {0} /\ TwoTo[G - e - i - 1] \in Nat
    <3>1. Mantissa - 1 <= TableEnd
      BY <2>2
    <3> QED
      BY <2>5, <3>1, TwoToGrows
  <2>7. D = TwoTo[e + i] /\ 2 * D = TwoTo[e + i + 1] /\ D \in Nat \ {0}
    <3>1. TwoTo[e + i] = E * h
      BY <2>2, <2>5, TwoToSum
    <3>2. e + i \in 0..(TableEnd - 1)
      BY <2>2, <2>5
    <3>3. TwoTo[(e + i) + 1] = 2 * TwoTo[e + i] /\ TwoTo[e + i] \in Nat \ {0}
      <4>1. TwoTo[(e + i) + 1] = 2 * TwoTo[e + i]
        BY <3>2, TwoToFacts
      <4>2. TwoTo[e + i] \in Nat \ {0}
        BY <2>2, <2>5, TwoToGrows
      <4> QED
        BY <4>1, <4>2
    <3>4. E * h = h * E
      <4> DEFINE u == E
                 v == h
      <4>1. u \in Nat /\ v \in Nat
        BY <2>3, <2>6
      <4> HIDE DEF u, v
      <4>2. u * v = v * u
        BY <4>1
      <4> QED
        BY <4>2 DEF u, v
    <3> QED
      BY <3>1, <3>3, <3>4
  <2>8. c \in Nat /\ n = c * (2 * D)
    <3> DEFINE u == TwoTo[G - e - i - 1]
               v == TwoTo[e + i + 1]
    <3>1. One = u * v
      <4>1. One = TwoTo[G]
        BY DEF One
      <4>2. e + i + 1 \in Nat
        BY <2>2, <2>5
      <4>3. TwoTo[(G - e - i - 1) + (e + i + 1)] = u * v
        BY <2>5, <4>2, TwoToSum
      <4> HIDE DEF u, v, G
      <4> QED
        BY <2>5, <4>1, <4>3
    <3>2. u \in Nat /\ v \in Nat /\ v = 2 * D
      BY <2>6, <2>7
    <3>3. c = w * u
      OBVIOUS
    <3> HIDE DEF u, v, c, D
    <3>4. c \in Nat
      BY <1>0, <3>2, <3>3
    <3>5. w * (u * v) = (w * u) * v
      BY <1>0, <3>2
    <3> QED
      BY <3>1, <3>2, <3>3, <3>4, <3>5 DEF n
  <2> HIDE DEF G, c, E, h, half
  <2>9. n = a * E /\ a \in Nat /\ n \in Nat
    <3>1. c * (2 * (h * E)) = (2 * (c * h)) * E
      BY <2>3, <2>6, <2>8
    <3> QED
      BY <2>3, <2>6, <2>8, <3>1
  <2>10. s * E \in Nat \ {0}
    BY <1>0, <2>6
  <2>11. q \in Nat /\ 2 * (q * (s * E)) - s * E <= 2 * n /\ 2 * n <= 2 * (q * (s * E)) + s * E
    <3> HIDE DEF a
    <3> QED
      BY <2>9, <2>10, NearestFacts
  <2> HIDE DEF q
  <2>12. x \in Nat /\ y \in Int /\ p \in Nat /\ q * (s * E) = x * E /\ x = a + y
    BY <1>0, <2>6, <2>9, <2>11
  <2>13. 2 * y <= s /\ -(2 * y) <= s
    <3> HIDE DEF x, y, a
    <3>1. x * E = a * E + y * E /\ y * E \in Int /\ a * E \in Int /\ s * E \in Int
      BY <1>0, <2>6, <2>9, <2>12
    <3>2. 2 * (y * E) <= s * E /\ -(2 * (y * E)) <= s * E
      BY <2>9, <2>11, <2>12, <3>1
    <3>3. (2 * y) * E = 2 * (y * E) /\ (-(2 * y)) * E = -(2 * (y * E))
      BY <2>6, <2>12
    <3>4. (2 * y) * E <= s * E /\ (-(2 * y)) * E <= s * E
      BY <3>2, <3>3
    <3> QED
      BY <1>0, <2>6, <2>12, <3>4, Times
  <2>14. 2 * y <= h /\ -(2 * y) <= h
    <3>1. CASE s = h
      BY <2>13, <3>1
    <3>2. CASE s # h
      <4>1. PICK j \in 0..(i - 1) : s = h + TwoTo[j]
        BY <2>1, <3>2 DEF h
      <4> DEFINE t == TwoTo[j]
                 v == TwoTo[i - 1 - j]
                 b == (2 * c) * (2 * v)
      <4>2. j \in Nat /\ i - 1 - j \in Nat /\ i - j \in Nat /\ j + (i - j) = i /\ i <= TableEnd
            /\ i - 1 - j \in 0..(TableEnd - 1) /\ (i - 1 - j) + 1 = i - j
            /\ j <= TableEnd /\ i - 1 - j <= TableEnd
        BY <2>2
      <4>3. t \in Nat \ {0} /\ v \in Nat
        BY <4>2, TwoToGrows
      <4>4. h = (2 * v) * t
        <5>1. TwoTo[j + (i - j)] = TwoTo[j] * TwoTo[i - j]
          BY <4>2, TwoToSum
        <5>2. TwoTo[(i - 1 - j) + 1] = 2 * v
          BY <4>2, TwoToFacts
        <5>3. h = t * (2 * v)
          BY <4>2, <5>1, <5>2 DEF h
        <5> HIDE DEF t, v
        <5> QED
          BY <4>3, <5>3
      <4> HIDE DEF t, v
      <4>5. s = (2 * v + 1) * t
        <5>1. s = h + t
          BY <4>1 DEF t
        <5>2. (2 * v + 1) * t = (2 * v) * t + t
          BY <4>3
        <5> QED
          BY <4>4, <5>1, <5>2
      <4>6. b \in Nat /\ a = b * t
        <5>1. b \in Nat
          BY <2>8, <4>3
        <5>2. 2 * (c * ((2 * v) * t)) = ((2 * c) * (2 * v)) * t
          BY <2>8, <4>3
        <5> QED
          BY <4>4, <5>1, <5>2
      <4> HIDE DEF b, a
      <4>7. y = q * ((2 * v + 1) * t) - b * t
        BY <4>5, <4>6
      <4> HIDE DEF x, y
      <4>8. 2 * y <= (2 * v + 1) * t /\ -(2 * y) <= (2 * v + 1) * t
        BY <2>13, <4>5
      <4>9. 2 * y <= (2 * v) * t /\ -(2 * y) <= (2 * v) * t
        BY <2>11, <2>12, <4>3, <4>6, <4>7, <4>8, NoTie
      <4> QED
        BY <4>4, <4>9
    <3> QED
      BY <3>1, <3>2
  <2>15. half <= q /\ q <= 2 * half
    <3>1. TwoTo[Mantissa + (e - 1)] = half * E /\ TwoTo[Mantissa + e] = (2 * half) * E
      <4>1. Mantissa - 1 \in Nat /\ e \in Nat /\ (Mantissa - 1) + e <= TableEnd
            /\ (Mantissa - 1) + e = Mantissa + (e - 1)
        BY <2>2, <2>4, <2>5
      <4>2. TwoTo[(Mantissa - 1) + e] = half * E
        BY <4>1, TwoToSum DEF half, E
      <4>3. TwoTo[Mantissa] = 2 * half
        <5>1. Mantissa - 1 \in 0..(TableEnd - 1) /\ (Mantissa - 1) + 1 = Mantissa
          BY <2>2
        <5>2. TwoTo[(Mantissa - 1) + 1] = 2 * TwoTo[Mantissa - 1]
          BY <5>1, TwoToFacts
        <5> QED
          BY <5>1, <5>2 DEF half
      <4>4. TwoTo[Mantissa + e] = TwoTo[Mantissa] * E
        <5>1. Mantissa + e <= TableEnd /\ Mantissa \in Nat
          BY <2>2, <2>4
        <5> QED
          BY <2>5, <5>1, TwoToSum DEF E
      <4> QED
        BY <4>1, <4>2, <4>3, <4>4
    <3>2. (half * E) * s = half * (s * E) /\ ((2 * half) * E) * s = (2 * half) * (s * E)
          /\ (2 * half) * (s * E) \in Int /\ 2 * half \in Nat
      BY <1>0, <2>6
    <3>3. half * (s * E) <= n /\ n <= (2 * half) * (s * E)
      <4> HIDE DEF a
      <4> QED
        BY <2>4, <2>9, <3>1, <3>2
    <3> HIDE DEF a
    <3> QED
      BY <2>6, <2>9, <2>10, <3>2, <3>3, NearestBounds DEF q
  <2>16. /\ TwoTo[Mantissa + ((e + i) - 1)] <= p
         /\ (e + i # TopExponent => p < TwoTo[Mantissa + ((e + i) + 1)])
    <3>1. TwoTo[Mantissa + ((e + i) - 1)] = half * D
      <4>1. /\ (Mantissa - 1) + (e + i) <= TableEnd /\ e + i \in Nat
            /\ (Mantissa - 1) + (e + i) = Mantissa + ((e + i) - 1)
        BY <2>2, <2>5
      <4>2. TwoTo[(Mantissa - 1) + (e + i)] = half * TwoTo[e + i]
        BY <2>5, <4>1, TwoToSum DEF half
      <4> HIDE DEF D
      <4> QED
        BY <2>7, <4>1, <4>2
    <3>2. e + i # TopExponent => TwoTo[Mantissa + ((e + i) + 1)] = (4 * half) * D
      <4> SUFFICES ASSUME e + i # TopExponent
                   PROVE  TwoTo[Mantissa + ((e + i) + 1)] = (4 * half) * D
        OBVIOUS
      <4>1. /\ (e + i) + 1 \in Nat /\ Mantissa + ((e + i) + 1) <= TableEnd /\ Mantissa \in Nat
        BY <2>2, <2>5
      <4>2. TwoTo[Mantissa + ((e + i) + 1)] = TwoTo[Mantissa] * TwoTo[(e + i) + 1]
        BY <4>1, TwoToSum
      <4>3. TwoTo[Mantissa] = 2 * half
        <5>1. Mantissa - 1 \in 0..(TableEnd - 1) /\ (Mantissa - 1) + 1 = Mantissa
          BY <2>2
        <5>2. TwoTo[(Mantissa - 1) + 1] = 2 * TwoTo[Mantissa - 1]
          BY <5>1, TwoToFacts
        <5> QED
          BY <5>1, <5>2 DEF half
      <4>4. TwoTo[(e + i) + 1] = 2 * D
        BY <2>7
      <4> HIDE DEF D
      <4>5. (2 * half) * (2 * D) = (4 * half) * D
        BY <2>6, <2>7
      <4> QED
        BY <4>2, <4>3, <4>4, <4>5
    <3>3. half * D <= p
      <4>1. half * h <= x
        <5>1. half * h <= q * h
          BY <2>3, <2>6, <2>11, <2>15, Times
        <5>2. h * q <= s * q
          BY <1>0, <2>3, <2>11, Times
        <5>3. q * h = h * q /\ s * q = q * s /\ half * h \in Int /\ h * q \in Int
              /\ q * s \in Int
          BY <1>0, <2>3, <2>6, <2>11
        <5> HIDE DEF a
        <5> QED
          BY <5>1, <5>2, <5>3
      <4> HIDE DEF x, a
      <4>2. (half * h) * E <= x * E
        <5>1. half * h \in Int
          BY <2>3, <2>6
        <5> QED
          BY <2>6, <2>12, <4>1, <5>1, Times
      <4>3. (half * h) * E = half * (h * E)
        BY <2>3, <2>6
      <4> QED
        BY <4>2, <4>3
    <3>4. p < (4 * half) * D
      <4>1. x < (4 * half) * h
        <5>1. q * s <= (2 * half) * s
          <6>1. 2 * half \in Int
            BY <2>6
          <6> QED
            BY <1>0, <2>11, <2>15, <6>1, Times
        <5>2. s * (2 * half) < (2 * h) * (2 * half)
          <6>1. 2 * half \in Nat /\ 2 * half # 0 /\ 2 * h \in Int
            BY <2>3, <2>6
          <6> QED
            BY <1>0, <2>3, <6>1, Times
        <5>3. (2 * half) * s = s * (2 * half) /\ (2 * h) * (2 * half) = (4 * half) * h
              /\ q * s \in Int /\ s * (2 * half) \in Int /\ (4 * half) * h \in Int
          BY <1>0, <2>3, <2>6, <2>11
        <5> HIDE DEF a
        <5> QED
          BY <5>1, <5>2, <5>3
      <4> HIDE DEF x, a
      <4>2. x * E < ((4 * half) * h) * E
        <5>1. (4 * half) * h \in Int
          BY <2>3, <2>6
        <5> QED
          BY <2>6, <2>12, <4>1, <5>1, Times
      <4>3. ((4 * half) * h) * E = (4 * half) * (h * E)
        BY <2>3, <2>6
      <4> QED
        BY <4>2, <4>3
    <3> HIDE DEF p, D, x, a
    <3> QED
      BY <3>1, <3>2, <3>3, <3>4
  <2> DEFINE f == Exponent(p, 1)
  <2>17. f = e + i \/ f = (e + i) + 1
    <3> HIDE DEF p, D, x, a
    <3>1. f \in {e + i, (e + i) + 1}
      BY <2>5, <2>12, <2>16, ProductExponent
    <3> QED
      BY <3>1
  <2> DEFINE z == y * E
  <2>18. /\ z \in Int /\ p = (2 * c) * D + z /\ p = c * (2 * D) + z
         /\ 2 * z <= D /\ -(2 * z) <= D
    <3>1. p = a * E + z /\ z \in Int
      <4> HIDE DEF x, y, a
      <4> QED
        BY <2>6, <2>9, <2>12
    <3>2. a * E = (2 * c) * D /\ a * E = c * (2 * D)
      BY <2>3, <2>6, <2>8
    <3>3. 2 * z <= D /\ -(2 * z) <= D
      <4> HIDE DEF x, y, a
      <4>1. (2 * y) * E <= h * E /\ (-(2 * y)) * E <= h * E
        <5>1. 2 * y \in Int /\ -(2 * y) \in Int
          BY <2>12
        <5> QED
          BY <2>3, <2>6, <2>14, <5>1, Times
      <4>2. (2 * y) * E = 2 * (y * E) /\ (-(2 * y)) * E = -(2 * (y * E))
        BY <2>6, <2>12
      <4> QED
        BY <4>1, <4>2
    <3> HIDE DEF p, z, a, D
    <3> QED
      BY <3>1, <3>2, <3>3
  <2> HIDE DEF z, p, D, x, y, a
  <2>19. RoundPositive(p, 1) = n
    <3>1. RoundPositive(p, 1) = Nearest(p, 1 * TwoTo[f]) * TwoTo[f]
      BY DEF RoundPositive
    <3> HIDE DEF f
    <3>2. CASE f = e + i
      <4>1. TwoTo[f] = D /\ 1 * D = D
        BY <2>7, <3>2
      <4>2. 2 * c \in Nat /\ (2 * c) % 2 = 0
        BY <2>8
      <4>3. Nearest(p, D) = 2 * c
        BY <2>7, <2>12, <2>18, <4>2, NearestIs
      <4>4. (2 * c) * D = c * (2 * D)
        BY <2>7, <2>8
      <4> QED
        BY <2>8, <3>1, <4>1, <4>3, <4>4
    <3>3. CASE f = (e + i) + 1
      <4> DEFINE d == 2 * D
      <4>1. TwoTo[f] = d /\ 1 * d = d /\ d \in Nat \ {0} /\ D < d
        BY <2>7, <3>3
      <4>2. 2 * z < d /\ -(2 * z) < d
        BY <2>7, <2>18, <4>1
      <4>3. p = c * d + z
        BY <2>18
      <4> HIDE DEF d
      <4>4. 2 * z <= d /\ -(2 * z) <= d /\ ~(2 * z = d \/ -(2 * z) = d)
        BY <2>18, <4>1, <4>2
      <4>5. Nearest(p, d) = c
        BY <2>8, <2>12, <2>18, <4>1, <4>3, <4>4, NearestIs
      <4> QED
        BY <2>8, <3>1, <4>1, <4>5 DEF d
    <3> QED
      BY <2>17, <3>2, <3>3
  <2>20. Float(n, s) * s = p
    <3>1. Float(n, s) = RoundPositive(n, s)
      <4>1. n \in Int /\ n >= 0
        BY <2>9
      <4> QED
        BY <1>0, <4>1, FloatFacts
    <3>2. RoundPositive(n, s) = q * E
      BY DEF RoundPositive, q, E, e
    <3>3. (q * E) * s = (q * s) * E
      BY <1>0, <2>6, <2>11
    <3> QED
      BY <3>1, <3>2, <3>3 DEF p, x
  <2>21. Float(p, 1) = RoundPositive(p, 1)
    <3>1. p \in Int /\ p >= 0
      BY <2>12
    <3> QED
      BY <3>1, FloatFacts
  <2> QED
    BY <2>19, <2>20, <2>21 DEF n
<1> QED
  BY <1>1, <1>2

\* Dividing a word by the scale and multiplying again gives the word.
Exact(scale) ==
    \A w \in 0..TwoTo[WordBits] : Float(Float(w * One, scale) * scale, 1) = w * One

\* So it is with every scale of at most two bits.
LEMMA ExactScales ==
    ASSUME NEW s \in 1..TwoTo[ScaleBits], TwoBits(s)
    PROVE  Exact(s)
BY TwoBitsExact DEF Exact

\* A number next to a word's value is scaled next to the word.
LEMMA ExactBounds ==
    ASSUME NEW n \in Nat, NEW d \in Nat \ {0}, NEW s \in Nat \ {0}, Exact(s),
           NEW w \in 0..TwoTo[WordBits]
    PROVE  LET scaled == Float(Float(n * One, d) * s, 1) IN
           /\ scaled \in Nat
           /\ w * d <= n * s => w * One <= scaled
           /\ n * s <= w * d => scaled <= w * One
<1> DEFINE o == One
           a == n * o
           b == w * o
           x == Float(a, d)
           y == Float(b, s)
<1>0. o \in Nat \ {0} /\ w \in Nat /\ 1 \in Nat \ {0}
  <2>1. TwoTo[WordBits] \in Nat
    BY Widths, TwoToGrows
  <2> QED
    BY <2>1, GridFacts
<1>1. Float(y * s, 1) = b
  BY DEF Exact
<1> HIDE DEF o
<1>2. a \in Nat /\ b \in Nat
  BY <1>0
<1>3. (w * d <= n * s => b * d <= a * s) /\ (n * s <= w * d => a * s <= b * d)
  <2>1. b * d = (w * d) * o /\ a * s = (n * s) * o /\ w * d \in Int /\ n * s \in Int
    BY <1>0
  <2>2. (w * d <= n * s => (w * d) * o <= (n * s) * o)
        /\ (n * s <= w * d => (n * s) * o <= (w * d) * o)
    BY <1>0, <2>1, Times
  <2> HIDE DEF a, b
  <2> QED
    BY <2>1, <2>2
<1> HIDE DEF a, b
<1>4. x = RoundPositive(a, d) /\ y = RoundPositive(b, s) /\ x \in Nat /\ y \in Nat
  BY <1>2, FloatFacts
<1>5. (b * d <= a * s => y <= x) /\ (a * s <= b * d => x <= y)
  <2>1. b * d <= a * s => RoundPositive(b, s) <= RoundPositive(a, d)
    BY <1>2, RoundMonotone, SMTT(30)
  <2>2. a * s <= b * d => RoundPositive(a, d) <= RoundPositive(b, s)
    BY <1>2, RoundMonotone, SMTT(30)
  <2> QED
    BY <1>4, <2>1, <2>2, Zenon
<1> HIDE DEF x, y
<1> DEFINE p == x * s
           q == y * s
<1>6. p \in Nat /\ q \in Nat /\ (y <= x => q <= p) /\ (x <= y => p <= q)
  <2>1. p \in Nat /\ q \in Nat
    BY <1>4
  <2> QED
    BY <1>4, <2>1, Times
<1> HIDE DEF p, q
<1>7. /\ Float(p, 1) = RoundPositive(p, 1) /\ Float(q, 1) = RoundPositive(q, 1)
      /\ Float(p, 1) \in Nat /\ Float(q, 1) \in Nat
  BY <1>0, <1>6, FloatFacts
<1>8. /\ q <= p => Float(q, 1) <= Float(p, 1)
      /\ p <= q => Float(p, 1) <= Float(q, 1)
  <2>1. q * 1 = q /\ p * 1 = p
    BY <1>6
  <2>2. (q <= p => RoundPositive(q, 1) <= RoundPositive(p, 1))
    BY <1>0, <1>6, <2>1, RoundMonotone, SMTT(30)
  <2>3. (p <= q => RoundPositive(p, 1) <= RoundPositive(q, 1))
    BY <1>0, <1>6, <2>1, RoundMonotone, SMTT(30)
  <2> QED
    BY <1>7, <2>2, <2>3, Zenon
<1>9. Float(q, 1) = b
  BY <1>1 DEF q
<1>10. /\ w * d <= n * s => b <= Float(p, 1)
       /\ n * s <= w * d => Float(p, 1) <= b
  BY <1>3, <1>5, <1>6, <1>8, <1>9
<1> QED
  BY <1>7, <1>10 DEF p, x, a, b, o

\* Rounding does not lose a number above a grid unit.
LEMMA NotLost ==
    ASSUME NEW n \in Nat, NEW d \in Nat \ {0}, RoundPositive(n, d) = 0
    PROVE  2 * n <= d
<1> DEFINE k == TwoTo[Mantissa]
<1>1. \/ 2 * n - d <= 2 * (0 * d)
      \/ k * (n - 0 * d) <= n
  BY RoundError
<1>2. k \in Nat /\ 2 <= k
  <2>1. TwoTo[2 * WordBits] \in Nat \ {0} /\ k \in Nat /\ 2 * TwoTo[2 * WordBits] <= k
    <3>1. 2 * WordBits \in Nat /\ 2 * WordBits <= TableEnd
      BY Widths
    <3> QED
      BY <3>1, GridFacts, TwoToGrows
  <2> HIDE DEF k
  <2> QED
    BY <2>1
<1> HIDE DEF k
<1>3. 0 * d = 0 /\ n - 0 * d = n
  OBVIOUS
<1>4. CASE 2 * n - d <= 0
  BY <1>4
<1>5. CASE k * n <= n
  <2>1. 2 * n <= k * n /\ k * n \in Int
    BY <1>2, Times
  <2> QED
    BY <1>5, <2>1
<1> QED
  BY <1>1, <1>3, <1>4, <1>5

\* A fraction that is accepted is the word's value, to less than one unit.
LEMMA AcceptedFraction ==
    ASSUME NEW n \in Int, NEW d \in Nat \ {0}, NEW s \in 1..TwoTo[ScaleBits], Exact(s),
           NEW code \in ScaleFloat(Float(n * One, d), s)
    PROVE  Abs(code * d - n * s) < d
<1> DEFINE o == One
           m == Float(n * o, d)
           scaled == Float(m * s, 1)
           top == TwoTo[WordBits]
<1>0. /\ o \in Nat \ {0} /\ s \in Nat \ {0} /\ s < o /\ top \in Nat \ {0}
      /\ MaxWord = top - 1 /\ MaxWord \in Nat
  <2>1. top \in Nat \ {0}
    BY Widths, TwoToGrows
  <2>2. o \in Nat \ {0} /\ TwoTo[ScaleBits] \in Nat \ {0} /\ TwoTo[ScaleBits] < o
    BY GridFacts
  <2> HIDE DEF o
  <2>3. s \in Nat \ {0} /\ s < o
    BY <2>2
  <2> HIDE DEF top
  <2> QED
    BY <2>1, <2>2, <2>3 DEF MaxWord, top
<1>1. n * o \in Int
  BY <1>0
<1>2. m \in Int
  BY <1>1, FloatFacts
<1>3. scaled \in Nat /\ scaled <= MaxWord * o /\ code = scaled \div o /\ code \in 0..MaxWord
  <2> HIDE DEF m
  <2> QED
    BY <1>0, <1>2, ScaleFloatRange DEF m
<1>4. CASE n >= 0
  <2> DEFINE N == (n * s) \div d
             i == n * s
  <2> HIDE DEF o, scaled, top
  <2>1. n \in Nat /\ i \in Nat
    BY <1>0, <1>4
  <2>2. N \in Nat /\ N * d <= i /\ i < (N + 1) * d /\ (N + 1) * d = N * d + d /\ N * d \in Int
    <3> HIDE DEF i
    <3>1. i \div d \in Nat /\ i % d \in Nat /\ i % d < d /\ i = d * (i \div d) + (i % d)
      BY <2>1, DivMod
    <3> DEFINE j == i \div d
    <3>2. j \in Nat /\ j * d <= i /\ i < (j + 1) * d /\ (j + 1) * d = j * d + d /\ j * d \in Int
      <4>1. j \in Nat
        BY <3>1
      <4>2. i = d * j + (i % d)
        BY <3>1
      <4> HIDE DEF j
      <4>3. d * j = j * d /\ j * d \in Int /\ (j + 1) * d = j * d + d
        BY <4>1
      <4> QED
        BY <2>1, <3>1, <4>1, <4>2, <4>3
    <3> QED
      BY <3>2 DEF i
  <2> HIDE DEF N
  <2>3. \A w \in 0..top : /\ w * d <= i => w * o <= scaled
                          /\ i <= w * d => scaled <= w * o
    <3> HIDE DEF m
    <3>1. \A w \in 0..TwoTo[WordBits] :
              LET x == Float(Float(n * One, d) * s, 1) IN
              /\ x \in Nat
              /\ w * d <= n * s => w * One <= x
              /\ n * s <= w * d => x <= w * One
      BY <1>0, <2>1, ExactBounds
    <3> QED
      BY <3>1 DEF m, o, scaled, top
  <2> HIDE DEF m, i
  <2>4. N <= MaxWord
    <3> SUFFICES ASSUME top <= N
                 PROVE  FALSE
      BY <1>0, <2>2
    <3>1. top * d <= N * d /\ top * d \in Int
      BY <1>0, <2>2, Times
    <3>2. top * o <= scaled
      BY <1>0, <2>1, <2>2, <2>3, <3>1
    <3>3. MaxWord * o < top * o /\ MaxWord * o \in Int /\ top * o \in Int
      BY <1>0, Times
    <3> QED
      BY <1>3, <3>2, <3>3
  <2>5. N * o <= scaled /\ scaled <= (N + 1) * o
    <3>1. N \in 0..top /\ N + 1 \in 0..top
      BY <1>0, <2>2, <2>4
    <3> QED
      BY <2>1, <2>2, <2>3, <3>1
  <2>6. i = N * d => scaled = N * o
    <3>1. N \in 0..top
      BY <1>0, <2>2, <2>4
    <3>2. i = N * d => scaled <= N * o
      BY <2>1, <2>3, <3>1
    <3>3. N * o \in Int
      BY <1>0, <2>2
    <3> QED
      BY <1>3, <2>5, <3>2, <3>3
  <2>7. CASE scaled < (N + 1) * o
    <3>1. o * N <= scaled /\ scaled < o * (N + 1)
      <4>1. o * N = N * o /\ o * (N + 1) = (N + 1) * o
        BY <1>0, <2>2
      <4> QED
        BY <2>5, <2>7, <4>1
    <3>2. N \in Int /\ scaled \in Int
      BY <1>3, <2>2
    <3>3. code = N
      BY <1>0, <1>3, <3>1, <3>2, DivIs
    <3>4. Abs(N * d - i) < d
      BY <2>1, <2>2 DEF Abs
    <3> QED
      BY <3>3, <3>4 DEF i
  <2>8. CASE scaled = (N + 1) * o
    <3>1. o * (N + 1) <= scaled /\ scaled < o * ((N + 1) + 1) /\ N + 1 \in Int /\ scaled \in Int
      <4>1. o * (N + 1) = (N + 1) * o /\ o * ((N + 1) + 1) = (N + 1) * o + o
            /\ (N + 1) * o \in Int
        BY <1>0, <2>2
      <4> QED
        BY <1>0, <1>3, <2>2, <2>8, <4>1
    <3>2. code = N + 1
      BY <1>0, <1>3, <3>1, DivIs
    <3>3. i # N * d
      <4>1. N * o # (N + 1) * o
        <5>1. N * o < (N + 1) * o
          BY <1>0, <2>2, Times
        <5> QED
          BY <1>0, <2>2, <5>1
      <4> QED
        BY <2>6, <2>8, <4>1
    <3>4. Abs((N + 1) * d - i) < d
      BY <2>1, <2>2, <3>3 DEF Abs
    <3> QED
      BY <3>2, <3>4 DEF i
  <2>9. scaled < (N + 1) * o \/ scaled = (N + 1) * o
    <3>1. (N + 1) * o \in Int /\ scaled \in Int
      BY <1>0, <1>3, <2>2
    <3> QED
      BY <2>5, <3>1
  <2> QED
    BY <2>7, <2>8, <2>9
<1>5. CASE n < 0
  <2> DEFINE a == -n
             r == RoundPositive(a * o, d)
  <2>1. m = -r
    <3>1. n * o < 0 /\ -(n * o) = a * o
      <4> HIDE DEF o
      <4> QED
        BY <1>0, <1>5
    <3> HIDE DEF o
    <3> QED
      BY <1>1, <3>1, FloatFacts DEF o
  <2> HIDE DEF o
  <2>2. a \in Nat /\ a * o \in Nat
    BY <1>0, <1>5
  <2> HIDE DEF a
  <2>3. r \in Nat
    BY <2>2, RoundError
  <2> HIDE DEF r, m
  <2>4. CASE r = 0
    <3>1. 2 * (a * o) <= d
      BY <2>2, <2>4, NotLost DEF r
    <3>2. m * s = 0
      BY <1>0, <2>1, <2>4
    <3>3. scaled = 0
      <4>1. RoundPositive(0, 1) = 0
        BY RoundZero
      <4>2. Float(0, 1) = 0
        BY <4>1 DEF Float
      <4> QED
        BY <3>2, <4>2 DEF scaled
    <3> HIDE DEF scaled
    <3>4. code = 0
      <4>1. o * 0 <= scaled /\ scaled < o * (0 + 1)
        BY <1>0, <3>3
      <4> QED
        BY <1>0, <1>3, <4>1, DivIs
    <3>5. a * s <= a * o /\ a * s \in Nat /\ 1 <= a /\ a * o # 0
      <4>1. s * a <= o * a
        BY <1>0, <2>2, Times
      <4>2. a # 0
        BY <1>5 DEF a
      <4> QED
        BY <1>0, <2>2, <4>1, <4>2
    <3>6. 0 * d - n * s = a * s
      BY <1>0 DEF a
    <3>7. Abs(a * s) < d
      BY <2>2, <3>1, <3>5 DEF Abs
    <3> QED
      BY <3>4, <3>6, <3>7
  <2>5. CASE r # 0
    <3> DEFINE b == r * s
    <3>1. m * s = -b /\ b \in Nat /\ b # 0
      BY <1>0, <2>1, <2>3, <2>5
    <3> HIDE DEF b
    <3>2. scaled = -RoundPositive(b, 1)
      <4>1. m * s \in Int /\ m * s < 0 /\ -(m * s) = b
        BY <3>1
      <4> QED
        BY <4>1, FloatFacts DEF scaled
    <3>3. RoundPositive(b, 1) \in Nat
      BY <3>1, RoundError
    <3>4. RoundPositive(b, 1) = 0
      <4> HIDE DEF scaled
      <4> QED
        BY <1>3, <3>2, <3>3
    <3>5. 2 * b <= 1
      BY <3>1, <3>4, NotLost
    <3> QED
      BY <3>1, <3>5
  <2> QED
    BY <2>4, <2>5
<1> QED
  BY <1>4, <1>5

-----------------------------------------------------------------------------
(* Writing back what is shown *)

\* A scaled word is shown with all its decimals, and scales back to itself.
LEMMA ScaledShown ==
    ASSUME NEW w \in 0..MaxWord, NEW s \in 1..TwoTo[ScaleBits], Exact(s),
           NEW unit \in Nat \ {0}, unit % s = 0,
           TwoTo[WordBits + 1] * unit < TwoTo[Mantissa]
    PROVE  LET m == Float(w * One, s) IN
           /\ m \in Nat
           /\ m % One = 0 => m \div One \in Nat /\ (m \div One) * s = w
           /\ ScaleFloat(m, s) = {w}
           /\ Float(Nearest(m * unit, One) * One, unit) = m
           /\ m <= Float(MaxWord * One, s)
<1> DEFINE o == One
           b == w * o
           m == Float(b, s)
           top == TwoTo[WordBits]
           k == TwoTo[Mantissa]
<1>0. /\ o \in Nat \ {0} /\ s \in Nat \ {0} /\ top \in Nat \ {0} /\ MaxWord = top - 1
      /\ MaxWord \in Nat /\ w \in Nat /\ w < top /\ k \in Nat \ {0} /\ k <= o
      /\ TwoTo[WordBits + 1] = 2 * top /\ w \in 0..top
  <2>1. top \in Nat \ {0} /\ TwoTo[WordBits + 1] = 2 * top
    <3>1. WordBits \in Nat /\ WordBits <= TableEnd /\ WordBits \in 0..(TableEnd - 1)
      BY Widths
    <3> QED
      BY <3>1, TwoToGrows, TwoToFacts
  <2>2. o \in Nat \ {0} /\ TwoTo[ScaleBits] \in Nat \ {0} /\ k \in Nat \ {0} /\ k <= o
    BY GridFacts
  <2> HIDE DEF o, top, k
  <2>3. MaxWord = top - 1
    BY DEF MaxWord, top
  <2> QED
    BY <2>1, <2>2, <2>3
<1>1. b \in Nat /\ MaxWord * o \in Nat /\ b <= MaxWord * o
  <2> HIDE DEF o
  <2> QED
    BY <1>0, Times
<1>2. m \in Nat /\ m = RoundPositive(b, s)
  <2> HIDE DEF b
  <2> QED
    BY <1>0, <1>1, FloatFacts
<1> DEFINE j == unit \div s
<1>3. j \in Nat \ {0} /\ s * j = unit
  <2>1. j \in Int /\ j >= 0 /\ unit = s * j + (unit % s)
    BY <1>0, DivMod
  <2> HIDE DEF j
  <2>2. unit = s * j
    BY <1>0, <2>1
  <2>3. j # 0
    BY <1>0, <2>2
  <2> QED
    BY <2>1, <2>2, <2>3
<1> HIDE DEF j
<1>4. unit < o /\ 2 * (w * j) < k
  <2>0. (2 * top) * unit < k
    BY <1>0
  <2> HIDE DEF top, k, o
  <2>1. unit <= (2 * top) * unit /\ (2 * top) * unit \in Nat
    BY <1>0, <1>3
  <2>2. j <= unit
    <3>1. 1 * j <= s * j
      BY <1>0, <1>3, Times
    <3> QED
      BY <1>3, <3>1
  <2>3. w * j <= top * j /\ top * j <= top * unit /\ w * j \in Int /\ top * j \in Int
        /\ top * unit \in Int
    <3>1. j * top <= unit * top
      BY <1>0, <1>3, <2>2, Times
    <3>2. j * top = top * j /\ unit * top = top * unit /\ top * j \in Int /\ top * unit \in Int
      BY <1>0, <1>3
    <3> QED
      BY <1>0, <1>3, <3>1, <3>2, Times
  <2>4. 2 * (top * unit) = (2 * top) * unit
    BY <1>0
  <2> QED
    BY <1>0, <2>0, <2>1, <2>3, <2>4
<1>5. /\ 2 * (j * (m * s - b)) < o /\ 2 * (j * (b - m * s)) < o
  <2>1. s \in Nat \ {0} /\ s * j < One /\ 2 * (w * j) < TwoTo[Mantissa] /\ w \in Nat
    BY <1>0, <1>3, <1>4
  <2> QED
    BY <1>2, <1>3, <2>1, ScaledError
<1> HIDE DEF m
<1> DEFINE e == m * s - b
<1>6. e \in Int /\ m * s = b + e /\ 2 * (j * e) < o /\ -o < 2 * (j * e) /\ j * e \in Int
      /\ 2 * e < o /\ -o < 2 * e
  <2> HIDE DEF b, o
  <2>1. e \in Int /\ m * s = b + e
    BY <1>0, <1>1, <1>2
  <2>2. b - m * s = -e
    BY <1>0, <1>1, <1>2
  <2>3. 2 * (j * e) < o /\ 2 * (j * (-e)) < o
    BY <1>5, <2>2
  <2> HIDE DEF e
  <2>4. j * (-e) = -(j * e) /\ j * e \in Int
    BY <1>3, <2>1
  <2>5. -o < 2 * (j * e)
    BY <1>0, <2>3, <2>4
  <2>6. e >= 0 => e <= j * e
    BY <1>3, <2>1
  <2>7. e < 0 => j * e <= e
    BY <1>3, <2>1
  <2> QED
    BY <1>0, <2>1, <2>3, <2>4, <2>5, <2>6, <2>7
<1> HIDE DEF e
<1>7. ASSUME m % o = 0
      PROVE  m \div o \in Nat /\ (m \div o) * s = w
  <2> DEFINE i == m \div o
  <2>1. i \in Nat /\ m = o * i + (m % o)
    <3> HIDE DEF o
    <3> QED
      BY <1>0, <1>2, DivMod
  <2> HIDE DEF i, o
  <2>2. m = o * i
    BY <1>0, <1>7, <2>1
  <2> DEFINE x == i * s - w
  <2>3. x \in Int
    BY <1>0, <2>1
  <2>4. e = x * o
    BY <1>0, <1>6, <2>1, <2>2
  <2> HIDE DEF x
  <2>5. x = 0
    <3>1. x >= 1 => 1 * o <= x * o
      BY <1>0, <2>3, Times
    <3>2. x <= -1 => x * o <= (-1) * o
      <4>1. -1 \in Int /\ o \in Nat
        BY <1>0
      <4> QED
        BY <2>3, <4>1, Times
    <3>3. 1 * o = o /\ (-1) * o = -o /\ x * o \in Int
      BY <1>0, <2>3
    <3> QED
      BY <1>0, <1>6, <2>3, <2>4, <3>1, <3>2, <3>3
  <2>6. i * s = w
    <3>1. i * s \in Int
      BY <1>0, <2>1
    <3> QED
      BY <1>0, <2>5, <3>1 DEF x
  <2> QED
    BY <2>1, <2>6 DEF i
<1>8. ScaleFloat(m, s) = {w}
  <2>1. Float(m * s, 1) = b
    BY <1>0 DEF Exact, m
  <2>2. ScaleFloat(m, s) = IF b < 0 \/ b > MaxWord * o THEN {} ELSE {b \div o}
    BY <2>1 DEF ScaleFloat
  <2>3. b \div o = w
    <3>1. o * w <= b /\ b < o * (w + 1)
      <4> HIDE DEF o
      <4> QED
        BY <1>0
    <3> HIDE DEF b, o
    <3>2. b \in Int /\ w \in Int /\ o \in Nat \ {0}
      BY <1>0, <1>1
    <3> QED
      BY <3>1, <3>2, DivIs
  <2> HIDE DEF b, o
  <2> QED
    BY <1>0, <1>1, <2>2, <2>3
<1>9. Float(Nearest(m * unit, o) * o, unit) = m
  <2> DEFINE c == w * j
             a == m * unit
  <2> HIDE DEF o
  <2>1. c \in Nat /\ a \in Nat
    BY <1>0, <1>2, <1>3
  <2>2. a = c * o + j * e
    <3>1. a = j * (m * s)
      BY <1>0, <1>2, <1>3
    <3>2. j * (m * s) = j * (b + e)
      BY <1>6
    <3>3. j * (b + e) = j * b + j * e /\ j * b = c * o
      BY <1>0, <1>1, <1>3, <1>6
    <3> QED
      BY <3>1, <3>2, <3>3
  <2> HIDE DEF c, a
  <2>3. Nearest(a, o) = c
    <3> DEFINE q == Nearest(a, o)
               y == q - c
    <3>1. q \in Nat /\ 2 * (q * o) - o <= 2 * a /\ 2 * a <= 2 * (q * o) + o
      BY <1>0, <2>1, NearestFacts
    <3> HIDE DEF q
    <3>2. y \in Int /\ q * o = c * o + y * o /\ y * o \in Int /\ c * o \in Int
      BY <1>0, <2>1, <3>1
    <3> HIDE DEF y
    <3>3. 2 * (y * o) < 2 * o /\ -(2 * o) < 2 * (y * o)
      BY <1>0, <1>6, <2>2, <3>1, <3>2
    <3>4. y = 0
      <4>1. y >= 1 => 1 * o <= y * o
        BY <1>0, <3>2, Times
      <4>2. y <= -1 => y * o <= (-1) * o
        BY <1>0, <3>2, Times
      <4> QED
        BY <1>0, <3>2, <3>3, <4>1, <4>2
    <3> QED
      BY <2>1, <3>1, <3>4 DEF q, y
  <2>4. Float(c * o, unit) = m
    <3> DEFINE f == c * o
    <3>1. f \in Nat /\ f * s = b * unit
      <4>1. f \in Nat
        BY <1>0, <2>1
      <4>2. f * s = ((w * j) * o) * s /\ ((w * j) * o) * s = (w * o) * (s * j)
        BY <1>0, <1>3 DEF c
      <4> QED
        BY <1>3, <4>1, <4>2
    <3> HIDE DEF f, b
    <3>2. f * s <= b * unit /\ b * unit <= f * s
      <4>1. f * s \in Int
        BY <1>0, <3>1
      <4> QED
        BY <3>1, <4>1
    <3>3. Float(f, unit) = RoundPositive(f, unit)
      BY <3>1, FloatFacts
    <3>4. /\ RoundPositive(f, unit) \in Nat /\ RoundPositive(b, s) \in Nat
          /\ RoundPositive(f, unit) <= RoundPositive(b, s)
          /\ RoundPositive(b, s) <= RoundPositive(f, unit)
      BY <1>0, <1>1, <3>1, <3>2, RoundMonotone
    <3>5. RoundPositive(f, unit) = RoundPositive(b, s)
      BY <3>4
    <3> QED
      BY <1>2, <3>3, <3>5 DEF f
  <2> QED
    BY <2>3, <2>4 DEF a
<1>10. m <= Float(MaxWord * o, s)
  <2> DEFINE h == MaxWord * o
  <2>1. h \in Nat /\ b * s <= h * s
    <3> HIDE DEF b, o
    <3> QED
      BY <1>0, <1>1, Times
  <2> HIDE DEF b, h
  <2>2. RoundPositive(b, s) <= RoundPositive(h, s)
    BY <1>0, <1>1, <2>1, RoundMonotone
  <2>3. Float(h, s) = RoundPositive(h, s)
    <3>1. h \in Int /\ h >= 0 /\ s \in Nat \ {0}
      BY <1>0, <2>1
    <3> QED
      BY <3>1, FloatFacts
  <2>4. m <= Float(h, s)
    BY <1>2, <2>2, <2>3
  <2> QED
    BY <2>4 DEF h
<1> QED
  BY <1>2, <1>7, <1>8, <1>9, <1>10 DEF m

\* What the catalog says of a writable register.
Writable(reg) ==
    /\ reg.writable /\ reg.type = "U16" /\ Exact(reg.scale)
    /\ reg.scale \in 1..TwoTo[ScaleBits] /\ reg.scale \in Nat \ {0}
    /\ reg.scale > 1 =>
         /\ ~Mapped(reg) /\ ~reg.switch
         /\ 10 ^ reg.precision \in Nat \ {0} /\ 10 ^ reg.precision % reg.scale = 0
         /\ TwoTo[WordBits + 1] * 10 ^ reg.precision < TwoTo[Mantissa]
    /\ DOMAIN reg.items \subseteq 0..MaxWord
    /\ \A c \in DOMAIN reg.items : reg.items[c] \notin {"OK", "Unknown"}
    /\ \A c \in DOMAIN reg.itemsDE : reg.itemsDE[c] # "Unknown"
    /\ \A c, d \in DOMAIN reg.items : reg.items[c] = reg.items[d] => c = d
    /\ \A c \in DOMAIN reg.items, d \in DOMAIN reg.itemsDE :
          reg.items[c] = reg.itemsDE[d] => c = d
    /\ \A c, d \in DOMAIN reg.itemsDE : reg.itemsDE[c] = reg.itemsDE[d] => c = d

\* The catalog's assumptions, of one register.
LEMMA WritableFacts ==
    ASSUME group \in Groups, NEW k \in DOMAIN Regs, Regs[k].writable
    PROVE  Writable(Regs[k])
<1> DEFINE reg == Regs[k]
<1>1. reg.scale \in 1..TwoTo[ScaleBits] /\ TwoTo[ScaleBits] \in Nat
  BY RegFacts, GridFacts
<1>2. reg.scale \in Nat \ {0}
  <2> HIDE DEF reg
  <2> QED
    BY <1>1
<1>3. \A c \in DOMAIN reg.items : reg.items[c] \notin {"OK", "Unknown"}
  BY GroupsAssumption DEF Regs
<1>4. /\ reg.type = "U16" /\ TwoBits(reg.scale)
      /\ reg.scale > 1 =>
           /\ ~Mapped(reg) /\ ~reg.switch
           /\ 10 ^ reg.precision \in Nat \ {0} /\ 10 ^ reg.precision % reg.scale = 0
           /\ TwoTo[WordBits + 1] * 10 ^ reg.precision < TwoTo[Mantissa]
      /\ DOMAIN reg.items \subseteq 0..MaxWord
      /\ \A c \in DOMAIN reg.itemsDE : reg.itemsDE[c] # "Unknown"
      /\ \A c \in DOMAIN reg.items, d \in DOMAIN reg.items \cup DOMAIN reg.itemsDE :
            \/ c = d
            \/ /\ d \in DOMAIN reg.items => reg.items[c] # reg.items[d]
               /\ d \in DOMAIN reg.itemsDE => reg.items[c] # reg.itemsDE[d]
      /\ \A c, d \in DOMAIN reg.itemsDE : reg.itemsDE[c] = reg.itemsDE[d] => c = d
  BY WritableAssumption DEF Regs
<1>5. /\ \A c, d \in DOMAIN reg.items : reg.items[c] = reg.items[d] => c = d
      /\ \A c \in DOMAIN reg.items, d \in DOMAIN reg.itemsDE :
            reg.items[c] = reg.itemsDE[d] => c = d
  <2> HIDE DEF reg
  <2> QED
    BY <1>4
<1> HIDE DEF reg
<1>6. Exact(reg.scale)
  BY <1>1, <1>4, ExactScales
<1> QED
  BY <1>1, <1>2, <1>3, <1>4, <1>5, <1>6 DEF Writable, reg

\* Writing back a value of a register whose word is w.
WritesBack(reg, val, w) ==
    LET wire == Wire(reg, val)
        web == Processed(reg, val)
        held(shown) == IF Known(shown) THEN {w} ELSE {}
        bounds == NumberBounds(reg)
    IN /\ Written(reg, Spelled(web)) = held(web)
       /\ (wire.t = "bool" => w \in 0..1) =>
            Written(reg, SetValue(reg, Spelled(wire))) = held(wire)
       /\ Mapped(reg) => \A lang \in {"en", "de"} :
            LET option == EnumValueTemplate(reg, lang, wire) IN
            /\ option \subseteq Options(reg, lang)
            /\ option = {} <=> ~Known(wire)
            /\ UNION {Written(reg, SetValue(reg, p)) :
                        p \in UNION {Picked(reg, lang, o) : o \in option}} = held(wire)
       /\ wire.t = "float" =>
            /\ wire.m \in bounds.lo..bounds.hi
            /\ ScaleFloat(bounds.hi, reg.scale) = {MaxWord}

\* An integer payload is written as it is scaled, through the broker too.
LEMMA IntegerWritten ==
    ASSUME NEW reg, Writable(reg), NEW i \in Nat, i * reg.scale <= MaxWord
    PROVE  LET p == [t |-> "int", n |-> i, d |-> 1] IN
           /\ Written(reg, p) = {i * reg.scale}
           /\ SetValue(reg, p) = p
<1> DEFINE p == [t |-> "int", n |-> i, d |-> 1]
<1>1. CodeForLabel(reg, p) = {}
  BY DEF CodeForLabel
<1>2. ParseWriteValue(p, reg.scale) = ScaleInt(i, reg.scale)
  BY DEF ParseWriteValue
<1>3. Written(reg, p) = ScaleInt(i, reg.scale)
  BY <1>1, <1>2 DEF Written, Writable
<1>4. ScaleInt(i, reg.scale) = {i * reg.scale}
  <2>1. reg.scale \in Nat \ {0} /\ i \in Int /\ i >= 0
    BY DEF Writable
  <2> QED
    BY <2>1, ScaleIntFacts
<1>5. SetValue(reg, p) = p
  BY DEF SetValue
<1> QED
  BY <1>3, <1>4, <1>5

\* A plain number or a switch.
LEMMA NumberWritesBack ==
    ASSUME NEW reg, Writable(reg), reg.scale = 1, ~Mapped(reg), NEW w \in 0..MaxWord
    PROVE  WritesBack(reg, [t |-> "int", v |-> w], w)
<1> DEFINE val == [t |-> "int", v |-> w]
           p(i) == [t |-> "int", n |-> i, d |-> 1]
           wire == Wire(reg, val)
           web == Processed(reg, val)
<1>0. MaxWord \in Nat /\ MaxWord # 0
  <2>1. WordBits \in Nat /\ 0 < WordBits /\ WordBits <= TableEnd /\ 0 \in Nat
    BY Widths
  <2>2. 2 * TwoTo[0] <= TwoTo[WordBits] /\ TwoTo[0] = 1 /\ TwoTo[WordBits] \in Nat
    BY <2>1, TwoToGrows, TwoToFacts
  <2> QED
    BY <2>2 DEF MaxWord
<1>1. ASSUME NEW i \in Nat, i <= MaxWord
      PROVE  Written(reg, p(i)) = {i} /\ SetValue(reg, p(i)) = p(i)
  <2>1. i * reg.scale = i
    OBVIOUS
  <2> QED
    BY <1>1, <2>1, IntegerWritten
<1>2. w \in Nat /\ w <= MaxWord /\ 0 <= MaxWord /\ 1 <= MaxWord
  BY <1>0
<1>3. web = val /\ Spelled(web) = p(w) /\ Known(web)
  <2>1. web = val
    BY DEF Processed
  <2> HIDE DEF web
  <2> QED
    BY <2>1 DEF Spelled, Known
<1>4. Written(reg, Spelled(web)) = {w}
  <2> HIDE DEF web, p
  <2> QED
    BY <1>1, <1>2, <1>3
<1>5. /\ wire.t # "float" /\ Known(wire)
      /\ (wire.t = "bool" => w \in 0..1) =>
            Written(reg, SetValue(reg, Spelled(wire))) = {w}
  <2>1. CASE reg.switch
    <3>1. wire = [t |-> "bool", on |-> w = 1]
      BY <2>1 DEF Wire
    <3>2. Spelled(wire) = wire /\ wire.t = "bool" /\ wire.on = (w = 1)
      <4> HIDE DEF wire
      <4> QED
        BY <3>1 DEF Spelled
    <3>3. SetValue(reg, wire) = p(IF w = 1 THEN 1 ELSE 0)
      <4>1. SetValue(reg, wire) = [t |-> "int", n |-> IF wire.on THEN 1 ELSE 0, d |-> 1]
        <5> HIDE DEF wire
        <5> QED
          BY <2>1, <3>2 DEF SetValue
      <4> HIDE DEF wire
      <4> QED
        BY <3>2, <4>1
    <3>4. ASSUME w \in 0..1
          PROVE  SetValue(reg, wire) = p(w)
      <4>1. w = 0 \/ w = 1
        BY <3>4
      <4> HIDE DEF wire
      <4> QED
        BY <3>3, <4>1
    <3>5. ASSUME w \in 0..1
          PROVE  Written(reg, SetValue(reg, Spelled(wire))) = {w}
      <4> HIDE DEF wire, p
      <4> QED
        BY <1>1, <1>2, <3>2, <3>4, <3>5
    <3>6. Known(wire)
      <4> HIDE DEF wire
      <4> QED
        BY <3>2 DEF Known
    <3> HIDE DEF wire
    <3> QED
      BY <3>2, <3>5, <3>6
  <2>2. CASE ~reg.switch
    <3>1. wire = val
      BY <2>2 DEF Wire
    <3> HIDE DEF wire
    <3>2. Spelled(wire) = p(w) /\ Known(wire) /\ wire.t = "int"
      BY <3>1 DEF Spelled, Known
    <3> HIDE DEF p
    <3>3. Written(reg, SetValue(reg, Spelled(wire))) = {w}
      BY <1>1, <1>2, <3>2
    <3> QED
      BY <3>2, <3>3
  <2> QED
    BY <2>1, <2>2
<1> HIDE DEF val
<1>6. WritesBack(reg, val, w)
  BY <1>3, <1>4, <1>5 DEF WritesBack
<1> QED
  BY <1>6 DEF val

\* A scaled number.
LEMMA ScaledWritesBack ==
    ASSUME NEW reg, Writable(reg), reg.scale > 1, NEW w \in 0..MaxWord
    PROVE  WritesBack(reg, [t |-> "float", m |-> Float(w * One, reg.scale)], w)
<1> DEFINE m == Float(w * One, reg.scale)
           s == reg.scale
           val == [t |-> "float", m |-> m]
           hi == Float(MaxWord * One, s)
<1>0. /\ MaxWord \in Nat /\ One \in Nat \ {0} /\ ~Mapped(reg) /\ ~reg.switch
      /\ s \in 1..TwoTo[ScaleBits] /\ Exact(s)
      /\ 10 ^ reg.precision \in Nat \ {0} /\ 10 ^ reg.precision % s = 0
      /\ TwoTo[WordBits + 1] * 10 ^ reg.precision < TwoTo[Mantissa]
  <2>1. TwoTo[WordBits] \in Nat \ {0}
    BY Widths, TwoToGrows
  <2>2. MaxWord \in Nat
    BY <2>1 DEF MaxWord
  <2> QED
    BY <2>2, GridFacts DEF Writable
<1>1. /\ m \in Nat
      /\ m % One = 0 => m \div One \in Nat /\ (m \div One) * s = w
      /\ ScaleFloat(m, s) = {w}
      /\ Float(Nearest(m * 10 ^ reg.precision, One) * One, 10 ^ reg.precision) = m
      /\ m <= hi
  <2> HIDE DEF s
  <2> QED
    BY <1>0, ScaledShown DEF s
<1>2. hi \in Nat /\ ScaleFloat(hi, s) = {MaxWord}
  <2>1. MaxWord \in 0..MaxWord
    BY <1>0
  <2> HIDE DEF s
  <2> QED
    BY <1>0, <2>1, ScaledShown
<1> HIDE DEF m, hi
<1>3. Processed(reg, val) = val /\ Wire(reg, val) = val
  <2>1. Processed(reg, val) = val
    BY <1>0 DEF Processed
  <2>2. Wire(reg, val) = [t |-> "float", m |-> Decimals(reg, m)]
    BY <1>0 DEF Wire
  <2>3. Decimals(reg, m) = m
    <3>1. ~(m < 0)
      BY <1>1
    <3>2. Decimals(reg, m) =
              Float(Nearest(m * 10 ^ reg.precision, One) * One, 10 ^ reg.precision)
      BY <3>1 DEF Decimals
    <3> QED
      BY <1>1, <3>2
  <2> QED
    BY <2>1, <2>2, <2>3
<1>4. Written(reg, Spelled(val)) = {w} /\ SetValue(reg, Spelled(val)) = Spelled(val)
  <2>1. CASE m % One = 0
    <3> DEFINE i == m \div One
    <3>1. Spelled(val) = [t |-> "int", n |-> i, d |-> 1]
      BY <2>1 DEF Spelled
    <3>2. i \in Nat /\ i * s = w /\ w <= MaxWord
      BY <1>0, <1>1, <2>1
    <3> HIDE DEF i, val
    <3> QED
      BY <3>1, <3>2, IntegerWritten
  <2>2. CASE m % One # 0
    <3> DEFINE p == [t |-> "float", m |-> m]
    <3>1. Spelled(val) = p
      BY <2>2 DEF Spelled
    <3>2. CodeForLabel(reg, p) = {}
      BY DEF CodeForLabel
    <3>3. ParseWriteValue(p, s) = ScaleFloat(m, s)
      BY DEF ParseWriteValue
    <3>4. Written(reg, p) = {w}
      BY <1>1, <3>2, <3>3 DEF Written, Writable
    <3>5. SetValue(reg, p) = p
      BY DEF SetValue
    <3> HIDE DEF p, val
    <3> QED
      BY <3>1, <3>4, <3>5
  <2> QED
    BY <2>1, <2>2
<1>5. Known(val) /\ val.t = "float" /\ val.m = m
  BY DEF Known
<1>6. NumberBounds(reg) = [lo |-> 0, hi |-> hi]
  BY DEF NumberBounds, hi
<1>7. m \in 0..hi
  BY <1>1, <1>2
<1> HIDE DEF val
<1>8. WritesBack(reg, val, w)
  BY <1>0, <1>2, <1>3, <1>4, <1>5, <1>6, <1>7 DEF WritesBack
<1> QED
  BY <1>8 DEF val, m

\* A label of either language is written as its own code.
LEMMA LabelWritten ==
    ASSUME NEW reg, Writable(reg), NEW c \in DOMAIN reg.items
    PROVE  /\ Written(reg, [t |-> "text", text |-> reg.items[c]]) = {c}
           /\ Written(reg, [t |-> "text", text |-> Localized(reg)[c]]) = {c}
<1>1. /\ DOMAIN reg.items \subseteq 0..MaxWord
      /\ \A a, d \in DOMAIN reg.items : reg.items[a] = reg.items[d] => a = d
      /\ \A a \in DOMAIN reg.items, d \in DOMAIN reg.itemsDE :
            reg.items[a] = reg.itemsDE[d] => a = d
      /\ \A a, d \in DOMAIN reg.itemsDE : reg.itemsDE[a] = reg.itemsDE[d] => a = d
  BY DEF Writable
<1>2. ASSUME NEW l, CodeForLabel(reg, [t |-> "text", text |-> l]) = {c}
      PROVE  Written(reg, [t |-> "text", text |-> l]) = {c}
  <2>1. {c} # {} /\ {c} \cap 0..MaxWord = {c}
    BY <1>1
  <2> QED
    BY <1>2, <2>1 DEF Written, Writable
<1>3. ASSUME NEW l
      PROVE  CodeForLabel(reg, [t |-> "text", text |-> l]) =
                 IF CodesOf(l, reg.items) # {} THEN CodesOf(l, reg.items)
                 ELSE CodesOf(l, reg.itemsDE)
  BY DEF CodeForLabel
<1>4. CodesOf(reg.items[c], reg.items) = {c}
  BY <1>1 DEF CodesOf
<1>5. CodeForLabel(reg, [t |-> "text", text |-> reg.items[c]]) = {c}
  BY <1>3, <1>4
<1>6. CodeForLabel(reg, [t |-> "text", text |-> Localized(reg)[c]]) = {c}
  <2>1. CASE c \in DOMAIN reg.itemsDE
    <3>1. Localized(reg)[c] = reg.itemsDE[c]
      BY <2>1 DEF Localized
    <3>2. CodesOf(reg.itemsDE[c], reg.items) \subseteq {c}
      BY <1>1, <2>1 DEF CodesOf
    <3>3. CodesOf(reg.itemsDE[c], reg.itemsDE) = {c}
      BY <1>1, <2>1 DEF CodesOf
    <3>4. CodesOf(reg.itemsDE[c], reg.items) = {} \/ CodesOf(reg.itemsDE[c], reg.items) = {c}
      BY <3>2
    <3> QED
      BY <1>3, <3>1, <3>3, <3>4
  <2>2. CASE c \notin DOMAIN reg.itemsDE
    <3>1. Localized(reg)[c] = reg.items[c]
      BY <2>2 DEF Localized
    <3> QED
      BY <1>5, <3>1
  <2> QED
    BY <2>1, <2>2
<1> QED
  BY <1>2, <1>5, <1>6

\* No register is written for a text that is no label.
LEMMA UnknownRefused ==
    ASSUME NEW reg, Writable(reg)
    PROVE  LET p == [t |-> "text", text |-> "Unknown"] IN
           Written(reg, p) = {} /\ SetValue(reg, p) = p
<1> DEFINE p == [t |-> "text", text |-> "Unknown"]
<1>1. /\ \A c \in DOMAIN reg.items : reg.items[c] # "Unknown"
      /\ \A c \in DOMAIN reg.itemsDE : reg.itemsDE[c] # "Unknown"
  BY DEF Writable
<1>2. CodesOf("Unknown", reg.items) = {} /\ CodesOf("Unknown", reg.itemsDE) = {}
  BY <1>1 DEF CodesOf
<1>3. CodesOf("Unknown", Localized(reg)) = {}
  BY <1>1 DEF CodesOf, Localized
<1>4. Written(reg, p) = {}
  <2>1. CodeForLabel(reg, p) = {}
    BY <1>2 DEF CodeForLabel
  <2>2. ParseWriteValue(p, reg.scale) = {}
    BY DEF ParseWriteValue
  <2> QED
    BY <2>1, <2>2 DEF Written
<1>5. SetValue(reg, p) = p
  <2>1. {reg.items[c] : c \in CodesOf(p.text, reg.items)} = {}
        /\ {reg.items[c] : c \in CodesOf(p.text, Localized(reg))} = {}
    BY <1>2, <1>3
  <2>2. p.t # "bool"
    OBVIOUS
  <2> HIDE DEF p
  <2> QED
    BY <2>1, <2>2 DEF SetValue
<1> QED
  BY <1>4, <1>5

\* A token comes through a published command as it is.
LEMMA TokenKept ==
    ASSUME NEW reg, Writable(reg), Mapped(reg), NEW c \in DOMAIN reg.items
    PROVE  LET p == [t |-> "text", text |-> reg.items[c]] IN SetValue(reg, p) = p
<1> DEFINE l == reg.items[c]
           p == [t |-> "text", text |-> l]
           tokens == {reg.items[a] : a \in CodesOf(p.text, reg.items)}
           labels == {reg.items[a] : a \in CodesOf(p.text, Localized(reg))}
<1>1. tokens = {l}
  BY DEF CodesOf
<1>2. p.t = "text" /\ p = [t |-> "text", text |-> l]
  OBVIOUS
<1> HIDE DEF p
<1>3. SetValue(reg, p) =
          IF tokens \cup labels # {}
          THEN [t |-> "text", text |-> CHOOSE x \in tokens \cup labels :
                                           tokens # {} => x \in tokens]
          ELSE IF ~Mapped(reg) /\ reg.switch /\ p.t = "bool"
               THEN [t |-> "int", n |-> IF p.on THEN 1 ELSE 0, d |-> 1]
               ELSE p
  BY <1>2 DEF SetValue
<1> HIDE DEF tokens, labels, l
<1>4. (CHOOSE x \in tokens \cup labels : tokens # {} => x \in tokens) = l
  BY <1>1
<1>5. SetValue(reg, p) = [t |-> "text", text |-> l]
  BY <1>1, <1>3, <1>4
<1> QED
  BY <1>2, <1>5 DEF p, l

\* A mapped register.
LEMMA LabelWritesBack ==
    ASSUME NEW reg, Writable(reg), reg.scale = 1, Mapped(reg), NEW w \in 0..MaxWord
    PROVE  WritesBack(reg, [t |-> "int", v |-> w], w)
<1> DEFINE val == [t |-> "int", v |-> w]
           text(l) == [t |-> "text", text |-> l]
           wire == Wire(reg, val)
           web == Processed(reg, val)
           items == reg.items
<1>1. /\ DOMAIN items \subseteq 0..MaxWord
      /\ \A c \in DOMAIN items : items[c] # "Unknown"
      /\ \A c \in DOMAIN reg.itemsDE : reg.itemsDE[c] # "Unknown"
      /\ \A c, d \in DOMAIN items : items[c] = items[d] => c = d
      /\ \A c \in DOMAIN items, d \in DOMAIN reg.itemsDE : items[c] = reg.itemsDE[d] => c = d
      /\ \A c, d \in DOMAIN reg.itemsDE : reg.itemsDE[c] = reg.itemsDE[d] => c = d
  BY DEF Writable
<1>2. ASSUME NEW list
      PROVE  DecodeCode(val, list).labels = IF w \in DOMAIN list THEN {list[w]} ELSE {"Unknown"}
  <2>1. ToInt(val) = w /\ val.t # "bits"
    BY DEF ToInt
  <2> HIDE DEF val
  <2> QED
    BY <2>1 DEF DecodeCode
<1>3. /\ wire = [t |-> "label", labels |-> IF w \in DOMAIN items THEN {items[w]} ELSE {"Unknown"}]
      /\ web = [t |-> "label", labels |-> IF w \in DOMAIN items THEN {Localized(reg)[w]}
                                          ELSE {"Unknown"}]
  <2>1. DOMAIN Localized(reg) = DOMAIN items
    BY DEF Localized
  <2>2. wire = [t |-> "label", labels |-> DecodeCode(val, items).labels]
    BY DEF Wire, Label
  <2>3. web = [t |-> "label", labels |-> DecodeCode(val, Localized(reg)).labels]
    BY DEF Processed, Label
  <2> HIDE DEF val, wire, web, items
  <2> QED
    BY <1>2, <2>1, <2>2, <2>3
<1>4. ASSUME NEW l
      PROVE  Spelled([t |-> "label", labels |-> {l}]) = text(l)
  <2>1. Cardinality({l}) = 1
    BY FS_Singleton
  <2>2. (CHOOSE x \in {l} : TRUE) = l
    OBVIOUS
  <2> QED
    BY <2>1, <2>2 DEF Spelled
<1>5. ASSUME NEW l
      PROVE  Known([t |-> "label", labels |-> {l}]) <=> l # "Unknown"
  BY DEF Known
<1>6. wire.t = "label" /\ Tokens(reg) = {items[c] : c \in DOMAIN items}
  BY <1>3 DEF Tokens
<1> HIDE DEF val, wire, web
<1>7. CASE w \in DOMAIN items
  <2> DEFINE l == items[w]
             g == Localized(reg)[w]
  <2>1. l # "Unknown" /\ g # "Unknown"
    BY <1>1, <1>7 DEF Localized
  <2>2. wire = [t |-> "label", labels |-> {l}] /\ web = [t |-> "label", labels |-> {g}]
    BY <1>3, <1>7
  <2>3. /\ Spelled(wire) = text(l) /\ Spelled(web) = text(g)
        /\ Known(wire) /\ Known(web) /\ wire.labels = {l}
    <3> HIDE DEF l, g
    <3> QED
      BY <1>4, <1>5, <2>1, <2>2
  <2>4. /\ Written(reg, text(l)) = {w} /\ Written(reg, text(g)) = {w}
        /\ SetValue(reg, text(l)) = text(l)
    BY <1>7, LabelWritten, TokenKept
  <2>5. ASSUME NEW lang \in {"en", "de"}
        PROVE  /\ EnumValueTemplate(reg, lang, wire) = {LabelIn(reg, l, lang)}
               /\ LabelIn(reg, l, lang) \in Options(reg, lang)
               /\ Picked(reg, lang, LabelIn(reg, l, lang)) = {text(l)}
    <3>1. l \in Tokens(reg)
      BY <1>6, <1>7
    <3>2. \A c \in DOMAIN items :
              LabelIn(reg, items[c], lang) = IF lang = "de" THEN Localized(reg)[c] ELSE items[c]
      <4> SUFFICES ASSUME NEW c \in DOMAIN items
                   PROVE  LabelIn(reg, items[c], lang) =
                              IF lang = "de" THEN Localized(reg)[c] ELSE items[c]
        OBVIOUS
      <4> DEFINE d == CHOOSE d \in DOMAIN reg.items : reg.items[d] = items[c]
      <4>1. d = c
        BY <1>1
      <4>2. LabelIn(reg, items[c], lang) =
                IF lang = "de" THEN Localized(reg)[d] ELSE items[c]
        BY DEF LabelIn
      <4> HIDE DEF d
      <4> QED
        BY <4>1, <4>2
    <3>3. \A c, d \in DOMAIN items : Localized(reg)[c] = Localized(reg)[d] => c = d
      BY <1>1 DEF Localized
    <3>4. \A c \in DOMAIN items :
              LabelIn(reg, items[c], lang) = LabelIn(reg, l, lang) => c = w
      BY <1>1, <1>7, <3>2, <3>3
    <3>5. {t \in Tokens(reg) : LabelIn(reg, t, lang) = LabelIn(reg, l, lang)} = {l}
      BY <1>6, <1>7, <3>1, <3>4
    <3>6. Picked(reg, lang, LabelIn(reg, l, lang)) = {text(l)}
      BY <3>5 DEF Picked
    <3>7. LabelIn(reg, l, lang) \in Options(reg, lang)
      BY <3>1 DEF Options
    <3>8. EnumValueTemplate(reg, lang, wire) = {LabelIn(reg, l, lang)}
      <4>1. wire.labels \cap Tokens(reg) = {l}
        BY <2>3, <3>1
      <4> QED
        BY <4>1 DEF EnumValueTemplate
    <3> QED
      BY <3>6, <3>7, <3>8
  <2>6. ASSUME NEW lang \in {"en", "de"}
        PROVE  LET option == EnumValueTemplate(reg, lang, wire) IN
               /\ option \subseteq Options(reg, lang)
               /\ option = {} <=> ~Known(wire)
               /\ UNION {Written(reg, SetValue(reg, p)) :
                           p \in UNION {Picked(reg, lang, o) : o \in option}} = {w}
    <3> DEFINE option == EnumValueTemplate(reg, lang, wire)
               x == LabelIn(reg, l, lang)
    <3>1. option = {x} /\ x \in Options(reg, lang) /\ Picked(reg, lang, x) = {text(l)}
      BY <2>5
    <3> HIDE DEF option, x, l, text
    <3>2. UNION {Picked(reg, lang, o) : o \in option} = {text(l)}
      BY <3>1
    <3>3. {Written(reg, SetValue(reg, p)) : p \in {text(l)}} = {{w}}
      BY <2>4
    <3>4. UNION {{w}} = {w}
      OBVIOUS
    <3>5. UNION {Written(reg, SetValue(reg, p)) :
                   p \in UNION {Picked(reg, lang, o) : o \in option}} = {w}
      BY <3>2, <3>3, <3>4
    <3> QED
      BY <2>3, <3>1, <3>5 DEF option
  <2> HIDE DEF l, g
  <2>7. WritesBack(reg, val, w)
    <3>1. Written(reg, Spelled(web)) = {w} /\ Written(reg, SetValue(reg, Spelled(wire))) = {w}
      BY <2>3, <2>4
    <3>2. wire.t # "float"
      BY <1>6
    <3> QED
      BY <2>3, <2>6, <3>1, <3>2 DEF WritesBack, wire, web
  <2> QED
    BY <2>7 DEF val
<1>8. CASE w \notin DOMAIN items
  <2>1. wire = [t |-> "label", labels |-> {"Unknown"}] /\ web = wire
    BY <1>3, <1>8
  <2>2. Spelled(wire) = text("Unknown") /\ ~Known(wire) /\ wire.labels = {"Unknown"}
    BY <1>4, <1>5, <2>1
  <2>3. /\ Written(reg, text("Unknown")) = {}
        /\ SetValue(reg, text("Unknown")) = text("Unknown")
    BY UnknownRefused
  <2>4. ASSUME NEW lang
        PROVE  EnumValueTemplate(reg, lang, wire) = {}
    <3>1. wire.labels \cap Tokens(reg) = {}
      BY <1>1, <1>6, <2>2
    <3> QED
      BY <3>1 DEF EnumValueTemplate
  <2>5. ASSUME NEW lang \in {"en", "de"}
        PROVE  LET option == EnumValueTemplate(reg, lang, wire) IN
               /\ option \subseteq Options(reg, lang)
               /\ option = {} <=> ~Known(wire)
               /\ UNION {Written(reg, SetValue(reg, p)) :
                           p \in UNION {Picked(reg, lang, o) : o \in option}} = {}
    <3> DEFINE option == EnumValueTemplate(reg, lang, wire)
    <3>1. option = {}
      BY <2>4
    <3> HIDE DEF option
    <3>2. UNION {Picked(reg, lang, o) : o \in option} = {}
      BY <3>1
    <3>3. UNION {Written(reg, SetValue(reg, p)) :
                   p \in UNION {Picked(reg, lang, o) : o \in option}} = {}
      BY <3>2
    <3> QED
      BY <2>2, <3>1, <3>3 DEF option
  <2>6. WritesBack(reg, val, w)
    <3>1. Written(reg, Spelled(web)) = {} /\ Written(reg, SetValue(reg, Spelled(wire))) = {}
          /\ ~Known(web)
      BY <2>1, <2>2, <2>3
    <3>2. wire.t # "float"
      BY <1>6
    <3> QED
      BY <2>2, <2>5, <3>1, <3>2 DEF WritesBack, wire, web
  <2> QED
    BY <2>6 DEF val
<1> QED
  BY <1>7, <1>8

\* What is shown as it is written, to whoever shows it, is written back.
LEMMA WriteBackShown == Shape => WriteBack
<1> SUFFICES ASSUME Shape, NEW k \in DOMAIN raw, Regs[k].writable, Fresh(k)
             PROVE  WritesBack(Regs[k], raw[k], Head(words[k]))
  BY DEF WriteBack, WritesBack
<1> DEFINE reg == Regs[k]
           ws == words[k]
           w == Head(ws)
<1>1. /\ k \in DOMAIN Regs /\ group \in Groups /\ Legal(reg, ws) /\ raw[k] = Decode(reg, ws)
      /\ Writable(reg)
  <2>1. k \in DOMAIN Regs /\ group \in Groups /\ Legal(reg, ws) /\ raw[k] = Decode(reg, ws)
    BY DEF Shape, Fresh
  <2> QED
    BY <2>1, WritableFacts
<1> HIDE DEF reg, ws
<1>2. reg.type = "U16" /\ reg.type \in Numeric /\ reg.scale \in 1..TwoTo[ScaleBits]
      /\ reg.scale \in Nat \ {0}
  BY <1>1 DEF Writable, Numeric
<1>3. w \in 0..MaxWord
  <2>1. ws \in Seq(0..MaxWord) /\ Len(ws) = 1
    BY <1>1, <1>2 DEF Legal, Size
  <2> QED
    BY <2>1, ShortSequences
<1>4. Integer(reg, ws) = [t |-> "int", v |-> w]
  BY <1>1, <1>2, IntegerFacts
<1> HIDE DEF w
<1>5. CASE reg.scale = 1
  <2>1. raw[k] = [t |-> "int", v |-> w]
    BY <1>1, <1>2, <1>4, <1>5, DecodeFacts
  <2>2. WritesBack(reg, raw[k], w)
    BY <1>1, <1>3, <1>5, <2>1, LabelWritesBack, NumberWritesBack
  <2> QED
    BY <2>2 DEF reg, ws, w
<1>6. CASE reg.scale > 1
  <2>1. Integer(reg, ws).v = w
    BY <1>4
  <2>2. raw[k] = [t |-> "float", m |-> Float(w * One, reg.scale)]
    BY <1>1, <1>2, <1>6, <2>1, DecodeFacts
  <2>3. WritesBack(reg, raw[k], w)
    BY <1>1, <1>3, <1>6, <2>2, ScaledWritesBack
  <2> QED
    BY <2>3 DEF reg, ws, w
<1> QED
  BY <1>2, <1>5, <1>6

\* A shown number is spelled as a payload.
LEMMA SpelledIsPayload ==
    ASSUME NEW val,
           \/ val.t \in {"int", "int64"} /\ val.v \in Int
           \/ val.t = "float" /\ val.m \in Int
           \/ val.t \in {"label", "bool"}
    PROVE  Payload(Spelled(val))
<1>1. CASE val.t \in {"int", "int64"} /\ val.v \in Int
  <2>1. Spelled(val) = [t |-> "int", n |-> val.v, d |-> 1]
    BY <1>1 DEF Spelled
  <2> QED
    BY <1>1, <2>1 DEF Payload
<1>2. CASE val.t = "float" /\ val.m \in Int
  <2>1. CASE val.m % One = 0
    <3>1. Spelled(val) = [t |-> "int", n |-> val.m \div One, d |-> 1]
      BY <1>2, <2>1 DEF Spelled
    <3>2. val.m \div One \in Int
      BY <1>2, GridFacts, DivMod
    <3> QED
      BY <3>1, <3>2 DEF Payload
  <2>2. CASE val.m % One # 0
    <3>1. Spelled(val) = [t |-> "float", m |-> val.m]
      BY <1>2, <2>2 DEF Spelled
    <3> QED
      BY <1>2, <3>1 DEF Payload
  <2> QED
    BY <2>1, <2>2
<1>3. CASE val.t = "label"
  <2>1. Spelled(val).t = "text"
    <3>1. CASE Cardinality(val.labels) = 1
      BY <1>3, <3>1 DEF Spelled
    <3>2. CASE Cardinality(val.labels) # 1
      BY <1>3, <3>2 DEF Spelled
    <3> QED
      BY <3>1, <3>2
  <2> QED
    BY <2>1 DEF Payload
<1>4. CASE val.t = "bool"
  <2>1. Spelled(val) = val
    BY <1>4 DEF Spelled
  <2> QED
    BY <1>4, <2>1 DEF Payload
<1> QED
  BY <1>1, <1>2, <1>3, <1>4

\* Whatever is offered to a writable register is a payload, and stays one
\* through setValue, which keeps numbers.
LEMMA OfferedIsPayload ==
    ASSUME Shape, Read, NEW k \in DOMAIN Regs, Regs[k].writable, NEW p \in Offered(k),
           NEW q \in {p, SetValue(Regs[k], p)}
    PROVE  /\ Payload(p) /\ Payload(q)
           /\ p.t \in {"int", "decimal"} => q = p
<1> DEFINE reg == Regs[k]
<1>1. Writable(reg)
  BY WritableFacts DEF Shape
<1>2. Payload(p)
  <2>1. CASE p \in Payloads
    BY <2>1, PayloadsAssumption DEF Payload
  <2>2. CASE p \notin Payloads
    <3>1. k \in DOMAIN raw /\ p \in {Spelled(Wire(reg, raw[k])), Spelled(Processed(reg, raw[k]))}
      BY <2>2 DEF Offered
    <3> DEFINE val == raw[k]
    <3>2. PICK ws : Legal(reg, ws) /\ val = Decode(reg, ws)
      BY <3>1 DEF Read
    <3> HIDE DEF reg, val
    <3>3. /\ reg.type = "U16" /\ reg.type \in Numeric /\ reg.scale \in 1..TwoTo[ScaleBits]
          /\ reg.scale \in Nat \ {0}
          /\ reg.scale > 1 => 10 ^ reg.precision \in Nat \ {0}
      BY <1>1 DEF Writable, Numeric
    <3>4. /\ reg.scale = 1 => val = Integer(reg, ws)
          /\ reg.scale > 1 => val.t = "float" /\ val.m \in Int
      BY <3>2, <3>3, DecodeFacts
    <3>5. Integer(reg, ws).t \in {"int", "int64"} /\ Integer(reg, ws).v \in Int
      BY <3>2, <3>3, IntegerFacts
    <3>6. \/ val.t \in {"int", "int64"} /\ val.v \in Int
          \/ reg.scale > 1 /\ val.t = "float" /\ val.m \in Int
      BY <3>3, <3>4, <3>5
    <3> DEFINE Fine(x) == \/ x.t \in {"int", "int64"} /\ x.v \in Int
                          \/ x.t = "float" /\ x.m \in Int
                          \/ x.t \in {"label", "bool"}
    <3>7. Fine(Processed(reg, val))
      BY <3>6 DEF Processed, Label
    <3>8. Fine(Wire(reg, val))
      <4>1. CASE Mapped(reg)
        <5>1. Wire(reg, val).t = "label"
          BY <4>1 DEF Wire, Label
        <5> QED
          BY <5>1
      <4>2. CASE ~Mapped(reg) /\ reg.switch
        <5>1. Wire(reg, val).t = "bool"
          BY <4>2 DEF Wire
        <5> QED
          BY <5>1
      <4>3. CASE ~Mapped(reg) /\ ~reg.switch /\ val.t = "float"
        <5>1. Wire(reg, val) = [t |-> "float", m |-> Decimals(reg, val.m)]
          BY <4>3 DEF Wire
        <5>2. Decimals(reg, val.m) \in Int
          <6> DEFINE unit == 10 ^ reg.precision
                     pos(x) == Float(Nearest(x * unit, One) * One, unit)
                     m == val.m
          <6>1. unit \in Nat \ {0} /\ m \in Int /\ One \in Nat \ {0}
            BY <3>3, <3>6, <4>3, GridFacts
          <6>2. Decimals(reg, m) = IF m < 0 THEN -pos(-m) ELSE pos(m)
            BY DEF Decimals
          <6> HIDE DEF unit, m
          <6>3. ASSUME NEW x \in Nat
                PROVE  pos(x) \in Int
            <7> DEFINE a == x * unit
                       b == Nearest(a, One)
            <7>1. a \in Nat
              BY <6>1
            <7> HIDE DEF a
            <7>2. b \in Nat
              BY <6>1, <7>1, NearestFacts
            <7> HIDE DEF b
            <7>3. b * One \in Int
              BY <6>1, <7>2
            <7>4. Float(b * One, unit) \in Int
              BY <6>1, <7>3, FloatFacts
            <7> QED
              BY <7>4 DEF a, b
          <6> HIDE DEF pos
          <6>4. Decimals(reg, m) \in Int
            BY <6>1, <6>2, <6>3
          <6> QED
            BY <6>4 DEF m
        <5> QED
          BY <5>1, <5>2
      <4>4. CASE ~Mapped(reg) /\ ~reg.switch /\ val.t # "float"
        <5>1. Wire(reg, val) = val
          BY <4>4 DEF Wire
        <5> QED
          BY <3>6, <4>4, <5>1
      <4> QED
        BY <4>1, <4>2, <4>3, <4>4
    <3>9. Payload(Spelled(Wire(reg, val))) /\ Payload(Spelled(Processed(reg, val)))
      BY <3>7, <3>8, SpelledIsPayload
    <3> QED
      BY <3>1, <3>9 DEF val
  <2> QED
    BY <2>1, <2>2
<1>3. /\ Payload(SetValue(reg, p))
      /\ p.t \in {"int", "decimal"} => SetValue(reg, p) = p
  <2> HIDE DEF reg
  <2> DEFINE tokens == {reg.items[c] : c \in CodesOf(p.text, reg.items)}
             labels == {reg.items[c] : c \in CodesOf(p.text, Localized(reg))}
  <2>1. CASE Mapped(reg) /\ p.t = "text" /\ tokens \cup labels # {}
    <3>1. SetValue(reg, p) = [t |-> "text", text |-> CHOOSE x \in tokens \cup labels :
                                                        tokens # {} => x \in tokens]
      BY <2>1 DEF SetValue
    <3>2. SetValue(reg, p).t = "text"
      BY <3>1
    <3> QED
      BY <2>1, <3>2 DEF Payload
  <2>2. CASE /\ ~(Mapped(reg) /\ p.t = "text" /\ tokens \cup labels # {})
             /\ ~Mapped(reg) /\ reg.switch /\ p.t = "bool"
    <3>1. SetValue(reg, p) = [t |-> "int", n |-> IF p.on THEN 1 ELSE 0, d |-> 1]
      BY <2>2 DEF SetValue
    <3> QED
      BY <2>2, <3>1 DEF Payload
  <2>3. CASE /\ ~(Mapped(reg) /\ p.t = "text" /\ tokens \cup labels # {})
             /\ ~(~Mapped(reg) /\ reg.switch /\ p.t = "bool")
    <3>1. SetValue(reg, p) = p
      BY <2>3 DEF SetValue
    <3> QED
      BY <1>2, <3>1
  <2> QED
    BY <2>1, <2>2, <2>3
<1> QED
  BY <1>2, <1>3

\* What every step keeps: only faithful values are shown, and only words that
\* stand for what was asked are written.
Inv == Shape /\ Read /\ Logged /\ NeverWraps

\* An accepted number is the number the register then holds.
LEMMA AcceptedIsExact ==
    ASSUME NEW reg, Writable(reg), NEW p, Payload(p), p.t \in {"int", "decimal"},
           NEW code \in Written(reg, p)
    PROVE  Abs(code * p.d - p.n * reg.scale) < p.d
<1>1. reg.scale \in Nat \ {0} /\ reg.scale \in 1..TwoTo[ScaleBits] /\ Exact(reg.scale)
      /\ p.n \in Int /\ p.d \in Nat \ {0}
  BY DEF Writable, Payload
<1>2. code \in ParseWriteValue(p, reg.scale)
  <2>1. CodeForLabel(reg, p) = {}
    BY DEF CodeForLabel
  <2> QED
    BY <2>1 DEF Written
<1>3. CASE p.t = "int"
  <2>1. code \in ScaleInt(p.n, reg.scale) /\ p.d = 1
    BY <1>2, <1>3 DEF ParseWriteValue, Payload
  <2>2. code = p.n * reg.scale
    BY <1>1, <2>1, ScaleIntFacts
  <2>3. code \in Int
    BY <1>1, <2>2
  <2>4. code * p.d - p.n * reg.scale = 0
    BY <2>1, <2>2, <2>3
  <2> QED
    BY <2>1, <2>4 DEF Abs
<1>4. CASE p.t = "decimal"
  <2>1. code \in ScaleFloat(Float(p.n * One, p.d), reg.scale)
    BY <1>2, <1>4 DEF ParseWriteValue
  <2> QED
    BY <1>1, <2>1, AcceptedFraction
<1> QED
  BY <1>3, <1>4

\* The words of a register after a write.
LEMMA WrittenLegal ==
    ASSUME NEW reg, reg.type = "U16", NEW code \in 0..MaxWord
    PROVE  Legal(reg, <<code>>)
<1>1. Len(<<code>>) = 1 /\ <<code>> \in Seq(0..MaxWord)
  OBVIOUS
<1> QED
  BY <1>1 DEF Legal, Size

\* The invariant holds at first.
LEMMA InitInv == Init => Inv
<1> SUFFICES ASSUME Init
             PROVE  Inv
  OBVIOUS
<1>1. group \in Groups /\ words \in group.words /\ DOMAIN raw = {} /\ asked = NotAsked
  BY DEF Init
<1>2. Shape
  <2>1. DOMAIN words = DOMAIN Regs
    BY <1>1, GroupsAssumption DEF Regs
  <2>2. \A k \in DOMAIN Regs : Legal(Regs[k], words[k])
    BY <1>1, RegFacts
  <2> QED
    BY <1>1, <2>1, <2>2 DEF Shape
<1>3. Read /\ Logged
  BY <1>1 DEF Read, Logged
<1>4. NeverWraps
  BY <1>1 DEF NeverWraps
<1> QED
  BY <1>2, <1>3, <1>4 DEF Inv

\* Every step keeps it.
LEMMA NextInv == Inv /\ [Next]_vars => Inv'
<1> SUFFICES ASSUME Inv, [Next]_vars
             PROVE  Inv'
  OBVIOUS
<1> USE DEF Regs
<1>0. Shape /\ Read /\ Logged /\ NeverWraps
  BY DEF Inv
<1>1. CASE Change
  <2>1. words' \in group.words /\ asked' = NotAsked /\ group' = group /\ raw' = raw
        /\ unmappedSeen' = unmappedSeen
    BY <1>1 DEF Change
  <2>2. Shape'
    <3>1. group \in Groups /\ DOMAIN raw \subseteq DOMAIN Regs
      BY <1>0 DEF Shape
    <3>2. DOMAIN words' = DOMAIN Regs
      BY <2>1, <3>1, GroupsAssumption
    <3>3. \A k \in DOMAIN Regs : Legal(Regs[k], words'[k])
      BY <2>1, <3>1, RegFacts
    <3> QED
      BY <2>1, <3>1, <3>2, <3>3 DEF Shape
  <2>3. Read' /\ Logged'
    BY <1>0, <2>1 DEF Read, Logged
  <2>4. NeverWraps'
    BY <2>1 DEF NeverWraps
  <2> QED
    BY <2>2, <2>3, <2>4 DEF Inv
<1>2. CASE Poll
  <2>1. PICK got \in SUBSET DOMAIN Regs :
            /\ raw' = [k \in got |-> Decode(Regs[k], words[k])]
            /\ NoteUnmapped({<<k, raw'[k]>> : k \in {k \in got :
                  Mapped(Regs[k]) /\ DecodeCode(raw'[k], Regs[k].items).unmapped # {}}})
            /\ UNCHANGED <<group, words, asked>>
    BY <1>2 DEF Poll
  <2>2. DOMAIN raw' = got /\ group' = group /\ words' = words /\ asked' = asked
    BY <2>1
  <2>3. Shape'
    BY <1>0, <2>2 DEF Shape
  <2>4. Read'
    <3>1. \A k \in got : Legal(Regs[k], words[k]) /\ raw'[k] = Decode(Regs[k], words[k])
      BY <1>0, <2>1 DEF Shape
    <3> QED
      BY <2>2, <3>1 DEF Read
  <2>5. Logged'
    <3> DEFINE new == {<<k, raw'[k]>> : k \in {k \in got :
                  Mapped(Regs[k]) /\ DecodeCode(raw'[k], Regs[k].items).unmapped # {}}}
    <3>1. PICK add \in SUBSET (new \ unmappedSeen) :
              /\ add # new \ unmappedSeen => Cardinality(unmappedSeen \cup add) = MaxLogged
              /\ unmappedSeen' = unmappedSeen \cup add
      BY <2>1 DEF NoteUnmapped
    <3>2. new \subseteq unmappedSeen' \/ Cardinality(unmappedSeen') = MaxLogged
      <4> HIDE DEF new
      <4> QED
        BY <3>1
    <3> SUFFICES ASSUME NEW k \in got, Mapped(Regs[k]),
                        DecodeCode(raw'[k], Regs[k].items).unmapped # {}
                 PROVE  <<k, raw'[k]>> \in unmappedSeen' \/ Cardinality(unmappedSeen') = MaxLogged
      BY <2>2 DEF Logged
    <3>3. <<k, raw'[k]>> \in new
      OBVIOUS
    <3> HIDE DEF new
    <3> QED
      BY <3>2, <3>3
  <2>6. NeverWraps'
    BY <1>0, <2>2 DEF NeverWraps
  <2> QED
    BY <2>3, <2>4, <2>5, <2>6 DEF Inv
<1>3. CASE \E k \in DOMAIN Regs : Write(k)
  <2>1. PICK k \in DOMAIN Regs : Write(k)
    BY <1>3
  <2>2. PICK p \in Offered(k) : \E q \in {p, SetValue(Regs[k], p)} :
            \E code \in Written(Regs[k], q) :
                /\ words' = [words EXCEPT ![k] = <<code>>]
                /\ asked' = IF p.t \in {"int", "decimal"}
                            THEN [key |-> k, n |-> p.n, d |-> p.d] ELSE NotAsked
                /\ UNCHANGED <<group, raw, unmappedSeen>>
    BY <2>1 DEF Write
  <2>3. PICK q \in {p, SetValue(Regs[k], p)} : \E code \in Written(Regs[k], q) :
            /\ words' = [words EXCEPT ![k] = <<code>>]
            /\ asked' = IF p.t \in {"int", "decimal"}
                        THEN [key |-> k, n |-> p.n, d |-> p.d] ELSE NotAsked
            /\ UNCHANGED <<group, raw, unmappedSeen>>
    BY <2>2
  <2>4. PICK code \in Written(Regs[k], q) :
            /\ words' = [words EXCEPT ![k] = <<code>>]
            /\ asked' = IF p.t \in {"int", "decimal"}
                        THEN [key |-> k, n |-> p.n, d |-> p.d] ELSE NotAsked
            /\ UNCHANGED <<group, raw, unmappedSeen>>
    BY <2>3
  <2>5. group' = group /\ raw' = raw /\ unmappedSeen' = unmappedSeen
    BY <2>4
  <2>6. Regs[k].writable
    BY DEF Written
  <2>7. Writable(Regs[k]) /\ group \in Groups
    <3>1. group \in Groups
      BY <1>0 DEF Shape
    <3> QED
      BY <2>6, <3>1, WritableFacts
  <2>8. Payload(q) /\ (p.t \in {"int", "decimal"} => q = p)
    BY <1>0, <2>6, OfferedIsPayload
  <2>9. code \in 0..MaxWord
    <3>1. Regs[k].scale \in Nat \ {0}
      BY <2>7 DEF Writable
    <3> QED
      BY <2>8, <3>1, WrittenRange
  <2>10. k \in DOMAIN words
    BY <1>0 DEF Shape
  <2>11. Shape'
    <3>1. DOMAIN words' = DOMAIN words
      BY <2>4
    <3>2. \A j \in DOMAIN Regs : Legal(Regs[j], words'[j])
      <4>1. Legal(Regs[k], <<code>>)
        BY <2>7, <2>9, WrittenLegal DEF Writable
      <4>2. \A j \in DOMAIN words : words'[j] = IF j = k THEN <<code>> ELSE words[j]
        BY <2>4
      <4> QED
        BY <1>0, <4>1, <4>2 DEF Shape
    <3> QED
      BY <1>0, <2>5, <3>1, <3>2 DEF Shape
  <2>12. Read' /\ Logged'
    BY <1>0, <2>5 DEF Read, Logged
  <2>13. NeverWraps'
    <3>1. CASE p.t \in {"int", "decimal"}
      <4>1. asked' = [key |-> k, n |-> p.n, d |-> p.d] /\ q = p
        BY <2>4, <2>8, <3>1
      <4>2. Head(words'[k]) = code
        BY <2>4, <2>10
      <4>3. Abs(code * p.d - p.n * Regs[k].scale) < p.d
        BY <2>7, <2>8, <3>1, <4>1, AcceptedIsExact
      <4> QED
        BY <2>5, <4>1, <4>2, <4>3 DEF NeverWraps
    <3>2. CASE p.t \notin {"int", "decimal"}
      BY <2>4, <3>2 DEF NeverWraps
    <3> QED
      BY <3>1, <3>2
  <2> QED
    BY <2>11, <2>12, <2>13 DEF Inv
<1>4. CASE UNCHANGED vars
  BY <1>0, <1>4 DEF vars, Inv, Shape, Read, Logged, NeverWraps
<1> QED
  BY <1>1, <1>2, <1>3, <1>4 DEF Next

-----------------------------------------------------------------------------
(* The theorems *)

\* Registers hold words of their types, and what is shown was decoded of such.
THEOREM ValuesInvariant == Spec => []Inv
BY InitInv, NextInv, PTL DEF Spec

\* A decoded number is the number its words are, on 32-bit hosts too, and a
\* scaled one is off by less than half a unit.
THEOREM FaithfulHolds == Spec => []Faithful
<1>1. Inv => Faithful
  BY FaithfulShown DEF Inv
<1> QED
  BY <1>1, ValuesInvariant, PTL

\* Writing back what the web UI, the broker or Home Assistant shows changes
\* nothing, and what has no label is refused.
THEOREM WriteBackHolds == Spec => []WriteBack
<1>1. Inv => WriteBack
  BY WriteBackShown DEF Inv
<1> QED
  BY <1>1, ValuesInvariant, PTL

\* A number that is accepted is the number the register then holds.
THEOREM NeverWrapsHolds == Spec => []NeverWraps
<1>1. Inv => NeverWraps
  BY DEF Inv
<1> QED
  BY <1>1, ValuesInvariant, PTL

\* No fault is hidden, in either language.
THEOREM NothingHiddenHolds == Spec => []NothingHidden
<1>1. Inv => NothingHidden
  BY NothingHiddenShown DEF Inv
<1> QED
  BY <1>1, ValuesInvariant, PTL

\* A partial read derives nothing that the full read would not derive alike.
THEOREM NoGuessHolds == Spec => []NoGuess
<1>1. Inv => NoGuess
  BY NoGuessShown DEF Inv
<1> QED
  BY <1>1, ValuesInvariant, PTL
===============================================================================
