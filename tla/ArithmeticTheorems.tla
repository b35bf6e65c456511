-------------------------- MODULE ArithmeticTheorems --------------------------
(***************************************************************************)
(* What the proofs of the programs need of their arithmetic: the results   *)
(* of the fixed-point operations, and what a sum over a set does when the  *)
(* function changes.                                                       *)
(***************************************************************************)
EXTENDS PreciseNumber, UnitSum, FiniteSetTheorems, WellFoundedInduction, TLAPS

-----------------------------------------------------------------------------
(* The fixed-point operations stay within the natural numbers.             *)

\* Dividing a natural number by the scale gives a natural number.
LEMMA DivOneNat == ASSUME NEW n \in Nat PROVE n \div ONE \in Nat
BY OneAssumption

\* So does dividing it by any positive number.
LEMMA DivNat == ASSUME NEW n \in Nat, NEW d \in Nat \ {0} PROVE n \div d \in Nat
OBVIOUS

\* The product of two natural numbers is one.
LEMMA MulNat == ASSUME NEW a \in Nat, NEW b \in Nat PROVE a * b \in Nat
OBVIOUS

\* Half a unit is a natural number.
LEMMA CorrectionNat == rounding_correction \in Nat
BY OneAssumption DEF rounding_correction

\* A number is scaled to a natural number, a positive one to a positive one.
LEMMA NewNat ==
    ASSUME NEW n \in Nat
    PROVE  new(n) \in Nat /\ (n # 0 => new(n) # 0)
<1>1. new(n) \in Nat
  BY OneAssumption, MulNat DEF new
<1>2. ASSUME n # 0 PROVE n * ONE # 0
  BY <1>2, OneAssumption
<1> QED
  BY <1>1, <1>2 DEF new

\* checked_mul of natural numbers.
LEMMA CheckedMulNat ==
    ASSUME NEW a \in Nat, NEW b \in Nat PROVE checked_mul(a, b) \in Nat
<1>1. a * b \in Nat
  BY MulNat
<1>2. a * b + rounding_correction \in Nat
  BY <1>1, CorrectionNat
<1> QED
  BY <1>2, DivOneNat DEF checked_mul

\* checked_div of natural numbers, None for a divisor of zero only.
LEMMA CheckedDivNat ==
    ASSUME NEW a \in Nat, NEW b \in Nat
    PROVE  /\ checked_div(a, b) \in Nat \cup {None}
           /\ b # 0 => checked_div(a, b) \in Nat
<1>1. a * ONE \in Nat
  BY MulNat, OneAssumption
<1>2. a * ONE + rounding_correction \in Nat
  BY <1>1, CorrectionNat
<1> QED
  BY <1>2, DivNat DEF checked_div

\* to_imprecise of a natural number.
LEMMA ToImpreciseNat == ASSUME NEW a \in Nat PROVE to_imprecise(a) \in Nat
<1>1. a + rounding_correction \in Nat
  BY CorrectionNat
<1> QED
  BY <1>1, DivOneNat DEF to_imprecise

-----------------------------------------------------------------------------
(* How far they are from the exact result.                                  *)

\* A quotient, times the divisor, falls short of the dividend by less than the
\* divisor.
LEMMA DivBounds ==
    ASSUME NEW n \in Nat, NEW d \in Nat \ {0}
    PROVE  /\ n \div d \in Nat
           /\ d * (n \div d) <= n
           /\ n < d * (n \div d + 1)
<1> DEFINE q == n \div d
<1>1. q \in Nat
  OBVIOUS
<1>2. n = d * q + (n % d) /\ (n % d) \in 0 .. (d - 1)
  OBVIOUS
<1>3. d * (q + 1) = d * q + d /\ d * q \in Nat
  BY <1>1
<1> HIDE DEF q
<1>4. d * q <= n /\ n < d * (q + 1)
  BY <1>2, <1>3
<1> QED
  BY <1>1, <1>4 DEF q

\* A common factor can be cancelled.
LEMMA Cancel ==
    ASSUME NEW a \in Int, NEW b \in Int, NEW c \in Nat \ {0}
    PROVE  /\ c * a <= c * b => a <= b
           /\ c * a < c * b => a < b
           /\ a <= b => c * a <= c * b
           /\ a < b => c * a < c * b
OBVIOUS

\* Dividing a multiple of d, plus a remainder below d, gives the multiple.
LEMMA DivExact ==
    ASSUME NEW a \in Nat, NEW d \in Nat \ {0}, NEW r \in Nat, r < d
    PROVE (a * d + r) \div d = a
<1> DEFINE n == a * d + r
           q == n \div d
<1>1. n \in Nat
  OBVIOUS
<1> HIDE DEF n
<1>2. q \in Nat /\ d * q <= n /\ n < d * (q + 1)
  BY <1>1, DivBounds
<1>3. n = d * a + r
  BY DEF n
<1> HIDE DEF q
<1>4. d * q < d * (a + 1)
  <2>1. d * (a + 1) = d * a + d /\ d * a \in Nat
    OBVIOUS
  <2> QED
  BY <1>1, <1>2, <1>3, <2>1
<1>5. d * a < d * (q + 1)
  <2>1. d * (q + 1) \in Nat /\ d * a \in Nat
    BY <1>2
  <2> QED
  BY <1>1, <1>2, <1>3, <2>1
<1>6. q < a + 1 /\ a < q + 1
  BY <1>2, <1>4, <1>5, Cancel
<1> QED
  BY <1>2, <1>6 DEF q, n

\* The product of two whole numbers is exact.
LEMMA MulExact ==
    ASSUME NEW a \in Nat, NEW b \in Nat
    PROVE  /\ checked_mul(a, new(b)) = a * b
           /\ checked_mul(new(b), a) = a * b
<1>1. rounding_correction \in Nat /\ rounding_correction < ONE
  BY OneAssumption DEF rounding_correction
<1>2. a * (b * ONE) = (a * b) * ONE /\ (b * ONE) * a = (a * b) * ONE /\ a * b \in Nat
  BY OneAssumption
<1> QED
  BY <1>1, <1>2, DivExact, OneAssumption DEF checked_mul, new

\* A quotient of whole numbers is rounded down, to a unit of precision.
LEMMA QuotientBounds ==
    ASSUME NEW a \in Nat, NEW b \in Nat \ {0}
    PROVE  /\ (a * ONE + rounding_correction) \div (b * ONE) \in Nat
           /\ b * ((a * ONE + rounding_correction) \div (b * ONE)) <= a
           /\ a < b * ((a * ONE + rounding_correction) \div (b * ONE) + 1)
<1> DEFINE n == a * ONE + rounding_correction
           d == b * ONE
           q == n \div d
<1>1. /\ rounding_correction \in Nat /\ rounding_correction < ONE
      /\ a * ONE = ONE * a /\ ONE * a \in Nat /\ ONE \in Nat \ {0}
  BY OneAssumption DEF rounding_correction
<1>2. n \in Nat /\ d \in Nat \ {0}
  <2>1. b * ONE # 0 /\ b * ONE \in Nat
    BY OneAssumption
  <2> QED
    BY <1>1, <2>1
<1>3. q \in Nat /\ d * q <= n /\ n < d * (q + 1)
  <2> HIDE DEF n, d
  <2> QED
    BY <1>2, DivBounds
<1> HIDE DEF q
<1>4. d * q = ONE * (b * q) /\ d * (q + 1) = ONE * (b * (q + 1))
  BY <1>1, <1>3
<1>5. n < ONE * (a + 1) /\ ONE * a <= n
  <2>1. ONE * (a + 1) = ONE * a + ONE
    BY <1>1
  <2> QED
    BY <1>1, <2>1
<1>6. b * q \in Nat /\ b * (q + 1) \in Nat
  BY <1>3
<1>7. ONE * (b * q) < ONE * (a + 1) /\ ONE * a < ONE * (b * (q + 1))
  <2>1. /\ ONE * (b * q) \in Nat /\ ONE * (a + 1) \in Nat /\ ONE * a \in Nat
        /\ ONE * (b * (q + 1)) \in Nat
    BY <1>1, <1>6
  <2> HIDE DEF n
  <2> QED
    BY <1>2, <1>3, <1>4, <1>5, <2>1
<1>8. b * q < a + 1 /\ a < b * (q + 1)
  <2> HIDE DEF n, d
  <2> QED
    BY <1>1, <1>6, <1>7, Cancel
<1>9. b * q <= a
  BY <1>6, <1>8
<1> QED
  BY <1>3, <1>8, <1>9 DEF q

\* Half up, and back to a whole number.
LEMMA RoundedBounds ==
    ASSUME NEW q \in Nat
    PROVE  /\ to_imprecise(q) \in Nat
           /\ 2 * (ONE * to_imprecise(q)) <= 2 * q + ONE
           /\ ONE % 2 = 0 => 2 * (q + 1) <= ONE * (2 * to_imprecise(q) + 1)
<1> DEFINE r == to_imprecise(q)
<1>1. /\ rounding_correction \in Nat /\ 2 * rounding_correction <= ONE
      /\ ONE % 2 = 0 => 2 * rounding_correction = ONE
      /\ ONE \in Nat \ {0}
  BY OneAssumption DEF rounding_correction
<1>2. r \in Nat /\ ONE * r <= q + rounding_correction /\ q + rounding_correction < ONE * (r + 1)
  <2>1. q + rounding_correction \in Nat
    BY <1>1
  <2> QED
    BY <1>1, <2>1, DivBounds DEF to_imprecise
<1> HIDE DEF r
<1>3. ONE * r \in Nat /\ ONE * (r + 1) = ONE * r + ONE /\ ONE * (2 * r + 1) = 2 * (ONE * r) + ONE
  BY <1>1, <1>2
<1>4. 2 * (ONE * r) <= 2 * q + ONE
  BY <1>1, <1>2, <1>3
<1>5. ASSUME ONE % 2 = 0 PROVE 2 * (q + 1) <= ONE * (2 * r + 1)
  BY <1>1, <1>2, <1>3, <1>5
<1> QED
  BY <1>2, <1>4, <1>5 DEF r

\* A quotient does not fall when the dividend grows.
LEMMA DivMonotone ==
    ASSUME NEW a \in Nat, NEW b \in Nat, NEW d \in Nat \ {0}, a <= b
    PROVE  a \div d <= b \div d
<1> DEFINE p == a \div d
           q == b \div d
<1>1. /\ p \in Nat /\ d * p <= a
      /\ q \in Nat /\ b < d * (q + 1)
  BY DivBounds
<1> HIDE DEF p, q
<1>2. d * p \in Int /\ d * (q + 1) \in Int
  BY <1>1
<1>3. d * p < d * (q + 1)
  BY <1>1, <1>2
<1>4. p < q + 1
  BY <1>1, <1>3, Cancel
<1>5. p <= q
  BY <1>1, <1>4
<1> QED
  BY <1>5 DEF p, q

\* A quotient is the only number that is small enough and large enough.
LEMMA DivUnique ==
    ASSUME NEW a \in Nat, NEW d \in Nat \ {0}, NEW k \in Nat, d * k <= a, a < d * (k + 1)
    PROVE  a \div d = k
<1> DEFINE q == a \div d
<1>1. q \in Nat /\ d * q <= a /\ a < d * (q + 1)
  BY DivBounds
<1> HIDE DEF q
<1>2. d * q \in Int /\ d * k \in Int /\ d * (q + 1) \in Int /\ d * (k + 1) \in Int
  BY <1>1
<1>3. d * q < d * (k + 1) /\ d * k < d * (q + 1)
  BY <1>1, <1>2
<1>4. q < k + 1 /\ k < q + 1
  BY <1>1, <1>3, Cancel
<1>5. q = k
  BY <1>1, <1>4
<1> QED
  BY <1>5 DEF q

\* The fixed-point quotient, cut off, is the quotient of the integers.
LEMMA FloorExact ==
    ASSUME NEW t \in Nat, NEW d \in Nat \ {0}
    PROVE  to_imprecise(floor(checked_div(new(t), new(d)))) = t \div d
<1> DEFINE q == checked_div(new(t), new(d))
           k == t \div d
           m == t * ONE
<1>1. ONE \in Nat \ {0} /\ m \in Nat /\ new(t) = m /\ new(d) = d * ONE /\ new(d) # 0
  BY OneAssumption, MulNat, NewNat DEF new
<1>2. q = (m * ONE + rounding_correction) \div (d * ONE)
  BY <1>1 DEF checked_div
<1> HIDE DEF m
<1>3. q \in Nat /\ d * q <= m /\ m < d * (q + 1)
  BY <1>1, <1>2, QuotientBounds
<1> HIDE DEF q
<1>4. k \in Nat /\ d * k <= t /\ t < d * (k + 1)
  BY DivBounds
<1> HIDE DEF k
<1>5. ONE * k <= q
  <2>1. d * k \in Int /\ ONE * (d * k) \in Int /\ d * (q + 1) \in Int /\ ONE * k \in Int
    BY <1>1, <1>3, <1>4
  <2>2. ONE * (d * k) <= ONE * t
    BY <1>1, <1>4, <2>1, Cancel
  <2>3. ONE * t = m
    BY <1>1 DEF m
  <2>4. ONE * (d * k) = d * (ONE * k)
    BY <1>1, <1>4
  <2>5. d * (ONE * k) < d * (q + 1)
    BY <1>1, <1>3, <2>1, <2>2, <2>3, <2>4
  <2>6. ONE * k < q + 1
    BY <1>3, <2>1, <2>5, Cancel
  <2> QED
    BY <1>3, <2>1, <2>6
<1>6. q < ONE * (k + 1)
  <2>1. d * (k + 1) \in Int /\ ONE * (d * (k + 1)) \in Int /\ d * q \in Int
        /\ ONE * (k + 1) \in Int
    BY <1>1, <1>3, <1>4
  <2>2. ONE * t < ONE * (d * (k + 1))
    BY <1>1, <1>4, <2>1, Cancel
  <2>3. ONE * t = m
    BY <1>1 DEF m
  <2>4. ONE * (d * (k + 1)) = d * (ONE * (k + 1))
    BY <1>1, <1>4
  <2>5. d * q < d * (ONE * (k + 1))
    BY <1>1, <1>3, <2>1, <2>2, <2>3, <2>4
  <2> QED
    BY <1>3, <2>1, <2>5, Cancel
<1>7. q \div ONE = k
  BY <1>1, <1>3, <1>4, <1>5, <1>6, DivUnique
<1>8. to_imprecise(floor(q)) = k
  <2>1. rounding_correction \in Nat /\ rounding_correction < ONE
    BY <1>1 DEF rounding_correction
  <2>2. floor(q) = k * ONE
    BY <1>7 DEF floor
  <2> QED
    BY <1>1, <1>4, <2>1, <2>2, DivExact DEF to_imprecise
<1> QED
  BY <1>8 DEF q, k

\* A part of an amount, computed as the share of b in whole first: at most half
\* a unit too much.
LEMMA ShareThenAmount ==
    ASSUME NEW b \in Nat, NEW whole \in Nat \ {0}, NEW amount \in Nat
    PROVE  LET r == to_imprecise(checked_mul(checked_div(new(b), new(whole)), new(amount)))
           IN  r \in Nat /\ (2 * whole) * r <= (2 * amount) * b + whole
<1> DEFINE s == checked_div(new(b), new(whole))
           r == to_imprecise(checked_mul(s, new(amount)))
<1>1. new(whole) # 0 /\ new(b) = b * ONE /\ b * ONE \in Nat
  BY OneAssumption, NewNat DEF new
<1>2. s = ((b * ONE) * ONE + rounding_correction) \div (whole * ONE)
  BY <1>1 DEF checked_div, new
<1>3. s \in Nat /\ whole * s <= b * ONE
  BY <1>1, <1>2, QuotientBounds
<1> HIDE DEF s
<1>4. checked_mul(s, new(amount)) = s * amount /\ s * amount \in Nat
  BY <1>3, MulExact
<1>5. r \in Nat /\ 2 * (ONE * r) <= 2 * (s * amount) + ONE
  BY <1>4, RoundedBounds
<1> HIDE DEF r
<1> DEFINE paid == (2 * whole) * r
           due == (2 * amount) * b + whole
           claim == amount * (whole * s)
           worth == amount * (b * ONE)
<1>6. ONE * paid <= 2 * claim + ONE * whole
  <2>1. 2 * (ONE * r) \in Int /\ 2 * (s * amount) + ONE \in Int
    BY <1>4, <1>5, OneAssumption
  <2>2. whole * (2 * (ONE * r)) <= whole * (2 * (s * amount) + ONE)
    BY <1>5, <2>1, Cancel
  <2>3. whole * (2 * (ONE * r)) = ONE * paid
    BY <1>5, OneAssumption
  <2>4. whole * (2 * (s * amount) + ONE) = 2 * claim + ONE * whole
    BY <1>3, OneAssumption
  <2> HIDE DEF paid, claim
  <2> QED
    BY <2>2, <2>3, <2>4
<1>7. claim <= worth
  <2>1. CASE amount = 0
    BY <1>1, <1>3, <2>1
  <2>2. CASE amount # 0
    <3>1. whole * s \in Int /\ b * ONE \in Int /\ amount \in Nat \ {0}
      BY <1>1, <1>3, <2>2
    <3> QED
      BY <1>3, <3>1, Cancel
  <2> QED
    BY <2>1, <2>2
<1>8. ONE * due = 2 * worth + ONE * whole
  BY OneAssumption
<1>9. /\ paid \in Int /\ due \in Int /\ claim \in Int /\ worth \in Int
      /\ ONE * whole \in Int /\ ONE * paid \in Int
  BY <1>3, <1>5, OneAssumption
<1> HIDE DEF paid, due, claim, worth
<1>10. ONE * paid <= ONE * due
  BY <1>6, <1>7, <1>8, <1>9
<1>11. paid <= due
  BY <1>9, <1>10, Cancel, OneAssumption
<1> QED
  BY <1>5, <1>11 DEF r, s, paid, due

\* A part of an amount, computed as the product first: within half a unit, for
\* a scale that is even.
LEMMA AmountThenShare ==
    ASSUME NEW b \in Nat, NEW whole \in Nat \ {0}, NEW amount \in Nat
    PROVE  LET r == to_imprecise(checked_div(checked_mul(new(b), new(amount)), new(whole)))
           IN  /\ r \in Nat
               /\ (2 * whole) * r <= (2 * amount) * b + whole
               /\ ONE % 2 = 0 => (2 * amount) * b <= (2 * whole) * r + whole
<1> DEFINE p == (b * amount) * ONE
           s == checked_div(checked_mul(new(b), new(amount)), new(whole))
           r == to_imprecise(s)
<1>1. new(whole) # 0 /\ checked_mul(new(b), new(amount)) = p /\ p \in Nat
  <2>1. new(b) \in Nat /\ new(b) * amount = p /\ p \in Nat
    BY OneAssumption DEF new
  <2>2. checked_mul(new(b), new(amount)) = new(b) * amount
    BY <2>1, MulExact
  <2> QED
    BY <2>1, <2>2, NewNat
<1>2. s = (p * ONE + rounding_correction) \div (whole * ONE)
  BY <1>1 DEF checked_div, new
<1>3. s \in Nat /\ whole * s <= p /\ p < whole * (s + 1)
  <2> HIDE DEF p
  <2> QED
    BY <1>1, <1>2, QuotientBounds
<1> HIDE DEF s
<1>5. /\ r \in Nat /\ 2 * (ONE * r) <= 2 * s + ONE
      /\ ONE % 2 = 0 => 2 * (s + 1) <= ONE * (2 * r + 1)
  BY <1>3, RoundedBounds
<1> HIDE DEF r
<1> DEFINE paid == (2 * whole) * r
           due == (2 * amount) * b
           below == whole * s
           above == whole * (s + 1)
<1>6. /\ paid \in Int /\ due \in Int /\ below \in Int /\ above \in Int
      /\ ONE * whole \in Int /\ ONE * paid \in Int
  BY <1>3, <1>5, OneAssumption
<1>7. ONE * paid <= 2 * below + ONE * whole
  <2>1. 2 * (ONE * r) \in Int /\ 2 * s + ONE \in Int
    BY <1>3, <1>5, OneAssumption
  <2>2. whole * (2 * (ONE * r)) <= whole * (2 * s + ONE)
    BY <1>5, <2>1, Cancel
  <2>3. whole * (2 * (ONE * r)) = ONE * paid
    BY <1>5, OneAssumption
  <2>4. whole * (2 * s + ONE) = 2 * below + ONE * whole
    BY <1>3, OneAssumption
  <2> HIDE DEF paid, below
  <2> QED
    BY <2>2, <2>3, <2>4
<1>8. /\ ONE * (due + whole) = 2 * p + ONE * whole
      /\ ONE * due = 2 * p
  BY OneAssumption
<1>9. ASSUME ONE % 2 = 0 PROVE 2 * above <= ONE * (paid + whole)
  <2>1. 2 * (s + 1) \in Int /\ ONE * (2 * r + 1) \in Int
    BY <1>3, <1>5, OneAssumption
  <2>2. whole * (2 * (s + 1)) <= whole * (ONE * (2 * r + 1))
    BY <1>5, <1>9, <2>1, Cancel
  <2>3. whole * (2 * (s + 1)) = 2 * above
    BY <1>3
  <2>4. whole * (ONE * (2 * r + 1)) = ONE * (paid + whole)
    BY <1>5, OneAssumption
  <2> HIDE DEF paid, above
  <2> QED
    BY <2>2, <2>3, <2>4
<1> HIDE DEF paid, due, p
<1>10. ONE * paid <= ONE * (due + whole)
  <2> HIDE DEF below
  <2> QED
    BY <1>1, <1>3, <1>6, <1>7, <1>8 DEF below
<1>11. paid <= due + whole
  <2>1. due + whole \in Int
    BY <1>6
  <2> QED
    BY <1>6, <1>10, <2>1, Cancel, OneAssumption
<1>12. ASSUME ONE % 2 = 0 PROVE due <= paid + whole
  <2>1. paid + whole \in Int /\ ONE * (paid + whole) \in Int /\ ONE * due \in Int
    BY <1>6, OneAssumption
  <2>2. p < above
    BY <1>3
  <2>3. ONE * due <= ONE * (paid + whole)
    <3> HIDE DEF above
    <3> QED
      BY <1>1, <1>6, <1>8, <1>9, <1>12, <2>1, <2>2
  <2> QED
    BY <1>6, <2>1, <2>3, Cancel, OneAssumption
<1> QED
  BY <1>5, <1>11, <1>12 DEF r, s, paid, due

-----------------------------------------------------------------------------
(* Sums.                                                                    *)

\* The units of f over D, element by element.
LEMMA UnitsMember ==
    ASSUME NEW S, NEW f \in [S -> Nat], NEW p
    PROVE  p \in Units(f, S) <=> \E x \in S : \E k \in 1 .. f[x] : p = <<x, k>>
BY DEF Units

\* The units of one element: as many as the value.
LEMMA ColumnCount ==
    ASSUME NEW x, NEW n \in Nat
    PROVE  IsFiniteSet({x} \X (1 .. n)) /\ Cardinality({x} \X (1 .. n)) = n
<1>1. IsFiniteSet(1 .. n) /\ Cardinality(1 .. n) = n
  BY FS_Interval
<1>2. IsFiniteSet({x}) /\ Cardinality({x}) = 1
  BY FS_Singleton
<1>3. /\ IsFiniteSet({x} \X (1 .. n))
      /\ Cardinality({x} \X (1 .. n)) = Cardinality({x}) * Cardinality(1 .. n)
  BY <1>1, <1>2, FS_Product
<1> QED
  BY <1>1, <1>2, <1>3

\* A sum over a finite set is a natural number.
THEOREM TotalType ==
    ASSUME NEW S, IsFiniteSet(S), NEW f \in [S -> Nat]
    PROVE  IsFiniteSet(Units(f, S)) /\ Total(f, S) \in Nat
<1> DEFINE Column(x) == {x} \X (1 .. f[x])
           Columns == {Column(x) : x \in S}
           g == [x \in S |-> Column(x)]
<1>1. g \in Surjection(S, Columns)
  BY DEF Surjection
<1>2. IsFiniteSet(Columns)
  BY <1>1, FS_Surjection
<1>3. ASSUME NEW T \in Columns PROVE IsFiniteSet(T)
  <2>1. PICK x \in S : T = {x} \X (1 .. f[x])
    OBVIOUS
  <2>2. f[x] \in Nat
    OBVIOUS
  <2> QED
    BY <2>1, <2>2, ColumnCount
<1>4. IsFiniteSet(UNION Columns)
  BY <1>2, <1>3, FS_UNION
<1> QED
  BY <1>4, FS_CardinalityType DEF Units, Total

\* One element can be taken out of the sum.
THEOREM TotalSplit ==
    ASSUME NEW S, IsFiniteSet(S), NEW f \in [S -> Nat], NEW x \in S
    PROVE  Total(f, S) = Total(f, S \ {x}) + f[x]
<1> DEFINE R == S \ {x}
           Column == {x} \X (1 .. f[x])
           g == [y \in R |-> f[y]]
<1>1. IsFiniteSet(R)
  BY FS_RemoveElement
<1>2. g \in [R -> Nat] /\ Units(f, R) = Units(g, R)
  BY DEF Units
<1>3. IsFiniteSet(Units(f, R)) /\ Total(f, R) \in Nat
  BY <1>1, <1>2, TotalType DEF Total
<1>4. Units(f, S) = Units(f, R) \cup Column
  BY DEF Units
<1>5. Units(f, R) \cap Column = {}
  BY DEF Units
<1>6. IsFiniteSet(Column) /\ Cardinality(Column) = f[x]
  BY ColumnCount
<1>7. Cardinality(Units(f, R) \cup Column) =
        Cardinality(Units(f, R)) + Cardinality(Column)
          - Cardinality(Units(f, R) \cap Column)
  BY <1>3, <1>6, FS_Union
<1>8. Cardinality(Units(f, R) \cap Column) = 0
  BY <1>5, FS_EmptySet
<1>9. Cardinality(Units(f, S)) = Cardinality(Units(f, R)) + f[x]
  <2>1. Cardinality(Units(f, R)) \in Nat /\ f[x] \in Nat
    BY <1>3 DEF Total
  <2> HIDE DEF R, Column
  <2> QED
    BY <1>4, <1>6, <1>7, <1>8, <2>1
<1> QED
  BY <1>9 DEF Total

\* Changing the value at one place changes the sum by as much.
THEOREM TotalUpdate ==
    ASSUME NEW S, IsFiniteSet(S), NEW f \in [S -> Nat], NEW h \in [S -> Nat], NEW x \in S,
           \A y \in S \ {x} : h[y] = f[y]
    PROVE  Total(h, S) = Total(f, S) - f[x] + h[x]
<1> DEFINE R == S \ {x}
<1>1. Total(h, R) = Total(f, R)
  BY DEF Total, Units
<1>2. Total(f, R) \in Nat
  <2> DEFINE g == [y \in R |-> f[y]]
  <2>1. g \in [R -> Nat] /\ Units(f, R) = Units(g, R)
    BY DEF Units
  <2> QED
    BY <2>1, TotalType, FS_RemoveElement DEF Total
<1>3. Total(f, S) = Total(f, R) + f[x]
  BY TotalSplit
<1>4. Total(h, S) = Total(h, R) + h[x]
  BY TotalSplit
<1>5. f[x] \in Nat /\ h[x] \in Nat
  OBVIOUS
<1> HIDE DEF R
<1> QED
  BY <1>1, <1>2, <1>3, <1>4, <1>5

\* A sum is zero exactly when every value is.
THEOREM TotalZero ==
    ASSUME NEW S, IsFiniteSet(S), NEW f \in [S -> Nat]
    PROVE  Total(f, S) = 0 <=> \A x \in S : f[x] = 0
<1>1. Total(f, S) = 0 <=> Units(f, S) = {}
  BY TotalType, FS_EmptySet DEF Total
<1>2. ASSUME NEW x \in S, f[x] # 0 PROVE Units(f, S) # {}
  <2>1. 1 \in 1 .. f[x]
    BY <1>2
  <2>2. <<x, 1>> \in {x} \X (1 .. f[x])
    BY <2>1
  <2> QED
    BY <2>2 DEF Units
<1>3. ASSUME Units(f, S) # {} PROVE \E x \in S : f[x] # 0
  <2>1. PICK p : p \in Units(f, S)
    BY <1>3
  <2>2. PICK x \in S : \E k \in 1 .. f[x] : p = <<x, k>>
    BY <2>1, UnitsMember
  <2> QED
    BY <2>2
<1> QED
  BY <1>1, <1>2, <1>3

\* A function that is nowhere larger has no larger sum.
THEOREM TotalMonotone ==
    ASSUME NEW S, IsFiniteSet(S), NEW f \in [S -> Nat], NEW h \in [S -> Nat],
           \A x \in S : f[x] <= h[x]
    PROVE  Total(f, S) <= Total(h, S)
<1>1. ASSUME NEW x \in S PROVE {x} \X (1 .. f[x]) \subseteq {x} \X (1 .. h[x])
  <2>1. f[x] \in Nat /\ h[x] \in Nat /\ f[x] <= h[x]
    OBVIOUS
  <2>2. 1 .. f[x] \subseteq 1 .. h[x]
    BY <2>1
  <2> QED
    BY <2>2
<1>2. Units(f, S) \in SUBSET Units(h, S)
  BY <1>1 DEF Units
<1> QED
  BY <1>2, TotalType, FS_Subset DEF Total

\* Adding the values of g, on a part D of S, adds its sum.
THEOREM TotalRaise ==
    ASSUME NEW S, IsFiniteSet(S), NEW f \in [S -> Nat], NEW h \in [S -> Nat],
           NEW D \in SUBSET S, NEW g \in [D -> Nat],
           \A x \in S : h[x] = IF x \in D THEN f[x] + g[x] ELSE f[x]
    PROVE  Total(h, S) = Total(f, S) + Total(g, D)
<1> DEFINE lift == [p \in Units(g, D) |-> <<p[1], f[p[1]] + p[2]>>]
           Lifted == {lift[p] : p \in Units(g, D)}
<1>1. \A p \in Units(g, D) : \E x \in D : \E k \in 1 .. g[x] : p = <<x, k>>
  BY UnitsMember
<1>2. IsFiniteSet(D) /\ IsFiniteSet(Units(g, D)) /\ IsFiniteSet(Units(f, S))
  BY FS_Subset, TotalType
<1>3. \A x \in D : \A k \in 1 .. g[x] :
        <<x, k>> \in Units(g, D) /\ lift[<<x, k>>] = <<x, f[x] + k>>
  BY UnitsMember
<1>4. lift \in Bijection(Units(g, D), Lifted)
  <2>1. lift \in Surjection(Units(g, D), Lifted)
    BY DEF Surjection
  <2>2. ASSUME NEW p \in Units(g, D), NEW q \in Units(g, D), lift[p] = lift[q]
        PROVE  p = q
    <3>1. PICK x \in D, k \in Nat : k \in 1 .. g[x] /\ p = <<x, k>>
      BY <1>1
    <3>2. PICK y \in D, j \in Nat : j \in 1 .. g[y] /\ q = <<y, j>>
      BY <1>1
    <3>3. <<x, f[x] + k>> = <<y, f[y] + j>>
      BY <1>3, <2>2, <3>1, <3>2
    <3>4. x = y /\ f[x] + k = f[x] + j
      BY <3>3
    <3>5. f[x] \in Nat /\ k \in Int /\ j \in Int
      OBVIOUS
    <3>6. k = j
      BY <3>4, <3>5
    <3> QED
      BY <3>1, <3>2, <3>4, <3>6
  <2> QED
    BY <2>1, <2>2 DEF Bijection, Injection, Surjection, IsInjective
<1>5. IsFiniteSet(Lifted) /\ Cardinality(Lifted) = Total(g, D)
  BY <1>2, <1>4, FS_Bijection DEF ExistsBijection, Total
<1>6. \A q : q \in Lifted <=> \E x \in D : \E k \in 1 .. g[x] : q = <<x, f[x] + k>>
  <2>1. ASSUME NEW q \in Lifted
        PROVE  \E x \in D : \E k \in 1 .. g[x] : q = <<x, f[x] + k>>
    <3>1. PICK p \in Units(g, D) : q = lift[p]
      OBVIOUS
    <3>2. PICK x \in D, k \in Nat : k \in 1 .. g[x] /\ p = <<x, k>>
      BY <1>1
    <3>3. q = <<x, f[x] + k>>
      BY <1>3, <3>1, <3>2
    <3> QED
      BY <3>2, <3>3
  <2>2. ASSUME NEW x \in D, NEW k \in 1 .. g[x] PROVE <<x, f[x] + k>> \in Lifted
    <3>1. <<x, k>> \in Units(g, D) /\ lift[<<x, k>>] = <<x, f[x] + k>>
      BY <1>3
    <3> HIDE DEF lift
    <3> QED
      BY <3>1
  <2> HIDE DEF lift, Lifted
  <2> QED
    BY <2>1, <2>2
<1> HIDE DEF lift, Lifted
<1>7. Units(h, S) = Units(f, S) \cup Lifted
  <2>1. ASSUME NEW q \in Units(h, S) PROVE q \in Units(f, S) \cup Lifted
    <3>1. PICK x \in S, k \in Nat : k \in 1 .. h[x] /\ q = <<x, k>>
      BY UnitsMember
    <3>2. f[x] \in Nat /\ k \in Int /\ 1 <= k /\ k <= h[x] /\ h[x] \in Nat
      BY <3>1
    <3>3. CASE k <= f[x]
      <4>1. k \in 1 .. f[x]
        BY <3>2, <3>3
      <4> QED
        BY <3>1, <4>1, UnitsMember
    <3>4. CASE k > f[x]
      <4>1. x \in D
        BY <3>2, <3>4
      <4>2. g[x] \in Nat /\ h[x] = f[x] + g[x]
        BY <4>1
      <4>3. k - f[x] \in 1 .. g[x] /\ f[x] + (k - f[x]) = k
        BY <3>2, <3>4, <4>2
      <4> QED
        BY <1>6, <3>1, <4>1, <4>3
    <3> QED
      BY <3>2, <3>3, <3>4
  <2>2. ASSUME NEW q \in Units(f, S) PROVE q \in Units(h, S)
    <3>1. PICK x \in S, k \in Nat : k \in 1 .. f[x] /\ q = <<x, k>>
      BY UnitsMember
    <3>2. k \in 1 .. h[x]
      BY <3>1
    <3> QED
      BY <3>1, <3>2, UnitsMember
  <2>3. ASSUME NEW q \in Lifted PROVE q \in Units(h, S)
    <3>1. PICK x \in D, k \in Nat : k \in 1 .. g[x] /\ q = <<x, f[x] + k>>
      BY <1>6
    <3>2. x \in S /\ f[x] \in Nat /\ g[x] \in Nat /\ h[x] = f[x] + g[x]
      OBVIOUS
    <3>3. f[x] + k \in 1 .. h[x]
      BY <3>1, <3>2
    <3> QED
      BY <3>1, <3>2, <3>3, UnitsMember
  <2> QED
    BY <2>1, <2>2, <2>3
<1>8. Units(f, S) \cap Lifted = {}
  <2>1. ASSUME NEW q \in Units(f, S), q \in Lifted PROVE FALSE
    <3>1. PICK x \in S, k \in Nat : k \in 1 .. f[x] /\ q = <<x, k>>
      BY UnitsMember
    <3>2. PICK y \in D, j \in Nat : j \in 1 .. g[y] /\ q = <<y, f[y] + j>>
      BY <1>6, <2>1
    <3>3. x = y /\ k = f[y] + j
      BY <3>1, <3>2
    <3>4. f[x] \in Nat
      OBVIOUS
    <3>5. k <= f[x] /\ 1 <= j
      BY <3>1, <3>2
    <3> QED
      BY <3>3, <3>4, <3>5
  <2> QED
    BY <2>1
<1>9. Cardinality(Units(f, S)) \in Nat /\ Cardinality(Lifted) \in Nat
  BY <1>2, <1>5, FS_CardinalityType
<1>10. Cardinality(Units(f, S) \cup Lifted)
        = Cardinality(Units(f, S)) + Cardinality(Lifted) - Cardinality(Units(f, S) \cap Lifted)
  BY <1>2, <1>5, FS_Union
<1>11. Cardinality(Units(f, S) \cap Lifted) = 0
  BY <1>8, FS_EmptySet
<1>12. Cardinality(Units(h, S)) = Cardinality(Units(f, S)) + Cardinality(Lifted)
  BY <1>7, <1>9, <1>10, <1>11
<1> QED
  BY <1>5, <1>12 DEF Total

\* The sum over a part of the set is a natural number too.
LEMMA TotalPart ==
    ASSUME NEW S, IsFiniteSet(S), NEW f \in [S -> Nat], NEW A \in SUBSET S
    PROVE  IsFiniteSet(A) /\ Cardinality(A) \in Nat /\ Total(f, A) \in Nat
<1> DEFINE g == [x \in A |-> f[x]]
<1>1. g \in [A -> Nat] /\ Total(g, A) = Total(f, A)
  BY DEF Total, Units
<1>2. IsFiniteSet(A) /\ Cardinality(A) \in Nat
  BY FS_Subset, FS_CardinalityType
<1> HIDE DEF g
<1>3. Total(g, A) \in Nat
  BY <1>1, <1>2, TotalType
<1> QED
  BY <1>1, <1>2, <1>3

\* A non-empty family of subsets of a finite set has a smallest member, what
\* an induction over the set comes down to.
LEMMA SmallestSubset ==
    ASSUME NEW S, IsFiniteSet(S), NEW Family \in SUBSET (SUBSET S), Family # {}
    PROVE  \E A \in Family : \A x \in A : A \ {x} \notin Family
<1>1. IsWellFoundedOn(StrictSubsetOrdering(S), SUBSET S)
  BY FS_StrictSubsetOrderingWellFounded, FS_FiniteSubsetsOfFinite
<1>2. PICK A \in Family : \A B \in Family : <<B, A>> \notin StrictSubsetOrdering(S)
  BY <1>1, WFMin
<1>3. ASSUME NEW x \in A PROVE A \ {x} \notin Family
  <2>1. A \ {x} \in SUBSET S /\ A \ {x} \subseteq A /\ A \ {x} # A
    BY <1>3
  <2>2. <<A \ {x}, A>> \in StrictSubsetOrdering(S)
    BY <2>1 DEF StrictSubsetOrdering
  <2> QED
    BY <1>2, <2>2
<1> QED
  BY <1>3

\* A linear bound on every value bounds the sums.
THEOREM TotalLinear ==
    ASSUME NEW S, IsFiniteSet(S), NEW f \in [S -> Nat], NEW h \in [S -> Nat],
           NEW c \in Nat, NEW d \in Nat, NEW e \in Nat,
           \A x \in S : c * f[x] <= d * h[x] + e
    PROVE  c * Total(f, S) <= d * Total(h, S) + e * Cardinality(S)
<1> DEFINE Bounded(A) == c * Total(f, A) <= d * Total(h, A) + e * Cardinality(A)
           Family == {A \in SUBSET S : ~Bounded(A)}
<1>1. SUFFICES ASSUME Family # {} PROVE FALSE
  OBVIOUS
<1>2. PICK A \in Family : \A x \in A : A \ {x} \notin Family
  BY <1>1, SmallestSubset
<1>3. /\ IsFiniteSet(A)
      /\ Cardinality(A) \in Nat /\ Total(f, A) \in Nat /\ Total(h, A) \in Nat
  BY TotalPart
<1>4. CASE A = {}
  <2>1. Total(f, A) = 0 /\ Total(h, A) = 0 /\ Cardinality(A) = 0
    BY <1>4, FS_EmptySet DEF Total, Units
  <2> QED
    BY <1>2, <2>1
<1>5. ASSUME NEW x \in A PROVE FALSE
  <2> DEFINE R == A \ {x}
  <2>1. R \in SUBSET S /\ Bounded(R)
    BY <1>2, <1>5
  <2>2. /\ Total(f, A) = Total(f, R) + f[x]
        /\ Total(h, A) = Total(h, R) + h[x]
    <3> DEFINE fA == [y \in A |-> f[y]]
               hA == [y \in A |-> h[y]]
    <3>1. fA \in [A -> Nat] /\ hA \in [A -> Nat] /\ fA[x] = f[x] /\ hA[x] = h[x]
      BY <1>5
    <3>2. /\ Total(fA, A) = Total(f, A) /\ Total(fA, R) = Total(f, R)
          /\ Total(hA, A) = Total(h, A) /\ Total(hA, R) = Total(h, R)
      BY DEF Total, Units
    <3>3. /\ Total(fA, A) = Total(fA, A \ {x}) + fA[x]
          /\ Total(hA, A) = Total(hA, A \ {x}) + hA[x]
      <4> HIDE DEF fA, hA
      <4> QED
        BY <1>3, <1>5, <3>1, TotalSplit
    <3> QED
      BY <3>1, <3>2, <3>3
  <2>3. Cardinality(A) = Cardinality(R) + 1
    <3>1. Cardinality(R) = Cardinality(A) - 1 /\ Cardinality(R) \in Nat
      BY <1>3, <1>5, FS_RemoveElement, FS_CardinalityType
    <3> QED
      BY <1>3, <3>1
  <2>4. /\ Cardinality(R) \in Nat /\ Total(f, R) \in Nat /\ Total(h, R) \in Nat
        /\ f[x] \in Nat /\ h[x] \in Nat
    <3>1. x \in S
      BY <1>5
    <3> HIDE DEF R
    <3> QED
      BY <2>1, <3>1, TotalPart
  <2>5. c * f[x] <= d * h[x] + e
    BY <1>5
  <2>6. Bounded(A)
    <3> HIDE DEF R, Family
    <3>1. ASSUME NEW F \in Nat, NEW H \in Nat, NEW N \in Nat, NEW p \in Nat, NEW q \in Nat,
                 c * F <= d * H + e * N, c * p <= d * q + e
          PROVE  c * (F + p) <= d * (H + q) + e * (N + 1)
      <4>1. /\ c * (F + p) = c * F + c * p /\ d * (H + q) = d * H + d * q
            /\ e * (N + 1) = e * N + e
        OBVIOUS
      <4>2. /\ c * F \in Nat /\ c * p \in Nat /\ d * H \in Nat
            /\ d * q \in Nat /\ e * N \in Nat
        OBVIOUS
      <4> QED
        BY <3>1, <4>1, <4>2
    <3> QED
      BY <2>1, <2>2, <2>3, <2>4, <2>5, <3>1
  <2> QED
    BY <1>2, <2>6
<1> QED
  BY <1>4, <1>5

\* A sum is the sum over a part and the sum over the rest.
LEMMA TotalParts ==
    ASSUME NEW S, IsFiniteSet(S), NEW f \in [S -> Nat], NEW D \in SUBSET S
    PROVE  Total(f, S) = Total(f, S \ D) + Total(f, D)
<1> DEFINE R == S \ D
<1>1. R \in SUBSET S /\ Total(f, R) \in Nat /\ Total(f, D) \in Nat
  BY TotalPart
<1>2. Units(f, R) \in SUBSET Units(f, S) /\ Units(f, D) \in SUBSET Units(f, S)
  BY <1>1 DEF Units
<1>3. IsFiniteSet(Units(f, R)) /\ IsFiniteSet(Units(f, D))
  BY <1>2, TotalType, FS_Subset
<1>4. Units(f, S) = Units(f, R) \cup Units(f, D)
  BY <1>1 DEF Units
<1>5. Cardinality(Units(f, R) \cap Units(f, D)) = 0
  <2>1. Units(f, R) \cap Units(f, D) = {}
    BY DEF Units
  <2> QED
    BY <2>1, FS_EmptySet
<1>6. Cardinality(Units(f, R) \cup Units(f, D))
        = Cardinality(Units(f, R)) + Cardinality(Units(f, D))
            - Cardinality(Units(f, R) \cap Units(f, D))
  BY <1>3, FS_Union
<1> HIDE DEF R
<1>7. Total(f, S) = Total(f, R) + Total(f, D)
  BY <1>1, <1>4, <1>5, <1>6 DEF Total
<1> QED
  BY <1>7 DEF R

\* The sum does not depend on what the values are indexed by.
LEMMA TotalReindex ==
    ASSUME NEW S, IsFiniteSet(S), NEW f \in [S -> Nat], NEW T, NEW p \in Bijection(T, S)
    PROVE  Total([i \in T |-> f[p[i]]], T) = Total(f, S)
<1> DEFINE g == [i \in T |-> f[p[i]]]
           move == [q \in Units(g, T) |-> <<p[q[1]], q[2]>>]
<1>1. /\ p \in [T -> S] /\ \A i, j \in T : p[i] = p[j] => i = j
      /\ \A x \in S : \E i \in T : p[i] = x
  BY DEF Bijection, Injection, IsInjective, Surjection
<1>2. g \in [T -> Nat] /\ \A i \in T : g[i] = f[p[i]]
  BY <1>1
<1>3. \A q : q \in Units(g, T) <=> \E i \in T : \E k \in 1 .. g[i] : q = <<i, k>>
  BY <1>2, UnitsMember
<1>4. \A q : q \in Units(f, S) <=> \E x \in S : \E k \in 1 .. f[x] : q = <<x, k>>
  BY UnitsMember
<1> HIDE DEF g
<1>5. ASSUME NEW q \in Units(g, T) PROVE move[q] \in Units(f, S)
  <2>1. PICK i \in T : \E k \in 1 .. g[i] : q = <<i, k>>
    BY <1>3
  <2> QED
    BY <1>1, <1>2, <1>4, <2>1
<1>6. ASSUME NEW q \in Units(g, T), NEW r \in Units(g, T), move[q] = move[r] PROVE q = r
  <2>1. PICK i \in T : \E k \in 1 .. g[i] : q = <<i, k>>
    BY <1>3
  <2>2. PICK j \in T : \E l \in 1 .. g[j] : r = <<j, l>>
    BY <1>3
  <2>3. move[q] = <<p[i], q[2]>> /\ move[r] = <<p[j], r[2]>>
    BY <2>1, <2>2
  <2> QED
    BY <1>1, <1>6, <2>1, <2>2, <2>3
<1>7. ASSUME NEW q \in Units(f, S) PROVE \E r \in Units(g, T) : move[r] = q
  <2>1. PICK x \in S : \E k \in 1 .. f[x] : q = <<x, k>>
    BY <1>4
  <2>2. PICK i \in T : p[i] = x
    BY <1>1
  <2>3. PICK k \in 1 .. f[x] : q = <<x, k>>
    BY <2>1
  <2>4. <<i, k>> \in Units(g, T)
    BY <1>2, <1>3, <2>2, <2>3
  <2>5. move[<<i, k>>] = q
    BY <2>2, <2>3, <2>4
  <2> QED
    BY <2>4, <2>5
<1>8. move \in Bijection(Units(g, T), Units(f, S))
  <2>1. move \in [Units(g, T) -> Units(f, S)]
    BY <1>5
  <2> HIDE DEF move
  <2> QED
    BY <1>6, <1>7, <2>1 DEF Bijection, Injection, IsInjective, Surjection
<1>9. IsFiniteSet(T)
  <2>1. p \in Injection(T, S)
    BY DEF Bijection
  <2> QED
    BY <2>1, FS_Injection
<1>10. IsFiniteSet(Units(g, T))
  BY <1>2, <1>9, TotalType
<1>11. Cardinality(Units(f, S)) = Cardinality(Units(g, T))
  <2> HIDE DEF move
  <2>1. ExistsBijection(Units(g, T), Units(f, S))
    BY <1>8 DEF ExistsBijection
  <2> QED
    BY <1>10, <2>1, FS_Bijection
<1> QED
  BY <1>11 DEF Total, g

\* A sum over no element is zero.
THEOREM TotalNone == ASSUME NEW f PROVE Total(f, {}) = 0
<1>1. Units(f, {}) = {}
  BY DEF Units
<1> QED
  BY <1>1, FS_EmptySet DEF Total

\* A sum over one element is its value.
THEOREM TotalOne == ASSUME NEW f, NEW x, f[x] \in Nat PROVE Total(f, {x}) = f[x]
<1>1. Units(f, {x}) = {x} \X (1 .. f[x])
  BY DEF Units
<1>2. Cardinality({x} \X (1 .. f[x])) = f[x]
  BY ColumnCount
<1> QED
  BY <1>1, <1>2 DEF Total

\* The sum of a constant is its product with the number of elements.
THEOREM TotalConst ==
    ASSUME NEW S, IsFiniteSet(S), NEW k \in Nat
    PROVE  Total([x \in S |-> k], S) = Cardinality(S) * k
<1>1. Units([x \in S |-> k], S) = S \X (1 .. k)
  BY DEF Units
<1>2. IsFiniteSet(1 .. k) /\ Cardinality(1 .. k) = k
  <2>1. 1 \in Int /\ k \in Int
    OBVIOUS
  <2>2. /\ IsFiniteSet(1 .. k)
        /\ Cardinality(1 .. k) = IF 1 > k THEN 0 ELSE k - 1 + 1
    BY <2>1, FS_Interval, Zenon
  <2> QED
    BY <2>2
<1>3. Cardinality(S \X (1 .. k)) = Cardinality(S) * Cardinality(1 .. k)
  BY <1>2, FS_Product
<1> QED
  BY <1>1, <1>2, <1>3 DEF Total
=============================================================================
