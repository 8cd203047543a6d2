----------------------------- MODULE FieldProofs -----------------------------
(***************************************************************************)
(* Proofs about the arithmetic of fields, slack and time, for words of any *)
(* width: what is computed stays in range and in order.  Then, about the   *)
(* slot of a field, for any number of readers and collectors: samples are  *)
(* whole and fresh, claims are of what was read.                           *)
(***************************************************************************)
EXTENDS FieldArithmetic, FieldSlot, FiniteSetTheorems, TLAPS

LEMMA Ones ==
  /\ One \in Nat \ {0} /\ Half \in Nat \ {0} /\ One = Half * 2 /\ Half <= One
  /\ MaxInt \in Nat /\ MinInt \in Int /\ MinInt = -(MaxInt + 1)
  /\ MaxInt >= 20 * One
<1>1. One \in Nat \ {0}
  BY FixedPointAssumption DEF One
<1> QED
  BY <1>1, FixedPointAssumption DEF Half, MinInt

(***************************************************************************)
(* Division rounds down.                                                   *)
(***************************************************************************)
LEMMA Floor ==
  ASSUME NEW a \in Int, NEW n \in Nat \ {0}
  PROVE  /\ a \div n \in Int
         /\ n * (a \div n) <= a
         /\ a < n * (a \div n) + n
         /\ a >= 0 => a \div n >= 0
         /\ a < 0 => a \div n < 0
OBVIOUS

\* Quotients keep bounds and order.
LEMMA FloorBetween ==
  ASSUME NEW a \in Int, NEW n \in Nat \ {0}, NEW low \in Int, NEW high \in Int,
         n * low <= a, a <= n * high
  PROVE  low <= a \div n /\ a \div n <= high
<1> DEFINE q == a \div n
<1>1. q \in Int /\ n * q <= a /\ a < n * q + n
  BY Floor
<1> HIDE DEF q
<1>2. ASSUME q < low PROVE FALSE
  <2>1. q + 1 <= low
    BY <1>1, <1>2
  <2>2. n * (q + 1) <= n * low
    BY <1>1, <2>1
  <2>3. n * (q + 1) = n * q + n
    BY <1>1
  <2> QED
    BY <1>1, <2>2, <2>3
<1>3. ASSUME high < q PROVE FALSE
  <2>1. high + 1 <= q
    BY <1>1, <1>3
  <2>2. n * (high + 1) <= n * q
    BY <1>1, <2>1
  <2>3. n * (high + 1) = n * high + n
    OBVIOUS
  <2> QED
    BY <1>1, <2>2, <2>3
<1> QED
  BY <1>1, <1>2, <1>3 DEF q

LEMMA FloorMonotone ==
  ASSUME NEW a \in Int, NEW b \in Int, NEW n \in Nat \ {0}, a <= b
  PROVE  a \div n <= b \div n
<1> DEFINE q == b \div n
<1>1. q \in Int /\ b < n * q + n
  BY Floor
<1>2. DEFINE p == a \div n
<1>3. p \in Int /\ n * p <= a
  BY Floor
<1> HIDE DEF p, q
<1>4. ASSUME q < p PROVE FALSE
  <2>1. n * (q + 1) <= n * p
    BY <1>1, <1>3, <1>4
  <2>2. n * (q + 1) = n * q + n
    BY <1>1
  <2> QED
    BY <1>1, <1>3, <2>1, <2>2
<1> QED
  BY <1>1, <1>3, <1>4 DEF p, q

\* Saturation yields words, and leaves words alone.
LEMMA Saturating ==
  ASSUME NEW x \in Int
  PROVE  Saturated(x) \in Word /\ (x \in Word => Saturated(x) = x)
BY Ones DEF Saturated, Clamped, Word

\* Words do not wrap.
LEMMA WrapsNot ==
  ASSUME NEW x \in Word
  PROVE  Wrapped(x) = x
<1> DEFINE y == x - MinInt  n == 2 * (MaxInt + 1)
<1>1. /\ x \in Int /\ MinInt \in Int /\ y \in Nat /\ n \in Nat \ {0} /\ y < n
      /\ y + MinInt = x
  BY Ones DEF Word
<1>2. Wrapped(x) = (y % n) + MinInt
  BY DEF Wrapped
<1> HIDE DEF y, n
<1>3. y % n = y
  BY <1>1
<1> QED
  BY <1>1, <1>2, <1>3

(***************************************************************************)
(* A product with a share of one lies between zero and the number, rounded *)
(* down, and needs no saturation.                                          *)
(***************************************************************************)
LEMMA ShareOf ==
  ASSUME NEW v \in Word, NEW w \in 0 .. One
  PROVE  /\ Mul(v, w) = (v * w) \div One
         /\ Mul(v, w) \in Word
         /\ v >= 0 => 0 <= Mul(v, w) /\ Mul(v, w) <= v
         /\ v < 0 => v <= Mul(v, w) /\ Mul(v, w) <= 0
<1>1. v \in Int /\ v <= MaxInt /\ MinInt <= v /\ w \in Nat /\ w <= One
  BY Ones DEF Word
<1>2. v * w \in Int /\ One \in Nat \ {0}
  BY <1>1, Ones
<1>3. CASE v >= 0
  <2>1. 0 <= v * w /\ v * w <= One * v
    BY <1>1, <1>2, <1>3
  <2>2. 0 <= (v * w) \div One /\ (v * w) \div One <= v
    BY <1>1, <1>2, <2>1, FloorBetween
  <2> QED
    BY <1>1, <1>2, <1>3, <2>2, Saturating, Ones, Floor DEF Mul, Word
<1>4. CASE v < 0
  <2>1. One * v <= v * w /\ v * w <= 0
    BY <1>1, <1>2, <1>4
  <2>2. v <= (v * w) \div One /\ (v * w) \div One <= 0
    BY <1>1, <1>2, <2>1, FloorBetween
  <2> QED
    BY <1>1, <1>2, <1>4, <2>2, Saturating, Ones, Floor DEF Mul, Word
<1> QED
  BY <1>1, <1>3, <1>4

(***************************************************************************)
(* Quotients of numbers that are not negative, and their sign.             *)
(***************************************************************************)
LEMMA QuotientNat ==
  ASSUME NEW a \in Nat, NEW b \in Nat \ {0}
  PROVE  Quotient(a, b) = a \div b /\ Quotient(a, b) \in Nat
BY Floor DEF Quotient, Magnitude

LEMMA QuotientInt ==
  ASSUME NEW a \in Int, NEW b \in Int \ {0}
  PROVE  Quotient(a, b) \in Int
<1>1. Magnitude(a) \in Nat /\ Magnitude(b) \in Nat \ {0}
  BY DEF Magnitude
<1> QED
  BY <1>1, Floor DEF Quotient

(***************************************************************************)
(* ekk_fixed_lerp returns a word between its operands, for every t, those  *)
(* outside of 0 to 1 included, and its 32 bit sum does not overflow.       *)
(***************************************************************************)
THEOREM LerpBetween ==
  ASSUME NEW a \in Word, NEW b \in Word, NEW t \in Int
  PROVE  /\ a <= b => a <= Lerp(a, b, t) /\ Lerp(a, b, t) <= b
         /\ b <= a => b <= Lerp(a, b, t) /\ Lerp(a, b, t) <= a
<1> DEFINE d == b - a
<1>1. a \in Int /\ b \in Int /\ d \in Int /\ One \in Nat \ {0}
  BY Ones DEF Word
<1>2. CASE t <= 0 \/ t >= One
  BY <1>1, <1>2 DEF Lerp
<1>3. CASE 0 < t /\ t < One
  <2>1. Lerp(a, b, t) = a + (d * t) \div One /\ d * t \in Int
    BY <1>1, <1>3 DEF Lerp
  <2>2. ASSUME a <= b PROVE a <= Lerp(a, b, t) /\ Lerp(a, b, t) <= b
    <3>1. d >= 0
      BY <1>1, <2>2
    <3> HIDE DEF d
    <3>2. One * 0 <= d * t /\ d * t <= One * d
      BY <1>1, <1>3, <3>1
    <3>3. 0 <= (d * t) \div One /\ (d * t) \div One <= d
      BY <1>1, <2>1, <3>2, FloorBetween
    <3> QED
      BY <1>1, <2>1, <3>3, Floor DEF d
  <2>3. ASSUME b <= a PROVE b <= Lerp(a, b, t) /\ Lerp(a, b, t) <= a
    <3>1. d <= 0
      BY <1>1, <2>3
    <3> HIDE DEF d
    <3>2. One * d <= d * t /\ d * t <= One * 0
      BY <1>1, <1>3, <3>1
    <3>3. d <= (d * t) \div One /\ (d * t) \div One <= 0
      BY <1>1, <2>1, <3>2, FloorBetween
    <3> QED
      BY <1>1, <2>1, <3>3, Floor DEF d
  <2> QED
    BY <2>2, <2>3
<1> QED
  BY <1>1, <1>2, <1>3

(***************************************************************************)
(* ekk_fixed_mul, ekk_fixed_div, ekk_fixed_lerp, ekk_fixed_abs and the     *)
(* operations on Q15 numbers return words for all words, zero divisors and *)
(* the smallest word included: no cast to a word ever loses a digit.       *)
(***************************************************************************)
THEOREM WordsClosed ==
  /\ \A a, b \in Word : Mul(a, b) \in Word /\ Div(a, b) \in Word
  /\ \A a, b \in Word, t \in Int : Lerp(a, b, t) \in Word
  /\ \A a \in Word : Abs(a) \in Word /\ Abs(a) >= 0 /\ ToShort(a) \in Short
  /\ \A a, b \in Short : /\ MulShort(a, b) \in Short /\ AddShort(a, b) \in Short
                         /\ SubShort(a, b) \in Short /\ FromShort(a) \in Word
<1>1. ASSUME NEW a \in Word, NEW b \in Word
      PROVE  Mul(a, b) \in Word /\ Div(a, b) \in Word
  <2>1. a \in Int /\ b \in Int /\ a * b \in Int /\ a * One \in Int
    BY Ones DEF Word
  <2>2. (a * b) \div One \in Int
    BY <2>1, Ones, Floor
  <2>3. b # 0 => Quotient(a * One, b) \in Int
    BY <2>1, QuotientInt
  <2>4. MaxInt \in Word /\ MinInt \in Word
    BY Ones DEF Word
  <2> QED
    BY <2>1, <2>2, <2>3, <2>4, Saturating DEF Mul, Div
<1>2. ASSUME NEW a \in Word, NEW b \in Word, NEW t \in Int
      PROVE  Lerp(a, b, t) \in Word
  <2>1. a \in Int /\ b \in Int /\ (b - a) * t \in Int /\ One \in Nat \ {0}
    BY Ones DEF Word
  <2>2. ((b - a) * t) \div One \in Int
    BY <2>1, Floor
  <2>3. Lerp(a, b, t) \in Int
    BY <2>1, <2>2 DEF Lerp
  <2> QED
    BY <2>1, <2>3, LerpBetween, Ones DEF Word
<1>3. ASSUME NEW a \in Word
      PROVE  Abs(a) \in Word /\ Abs(a) >= 0 /\ ToShort(a) \in Short
  <2>1. a \in Int /\ a \div 2 \in Int
    BY Ones, Floor DEF Word
  <2> QED
    BY <2>1, Ones DEF Abs, Magnitude, Word, ToShort, Clamped, Short
<1>4. ASSUME NEW a \in Short, NEW b \in Short
      PROVE  /\ MulShort(a, b) \in Short /\ AddShort(a, b) \in Short
             /\ SubShort(a, b) \in Short /\ FromShort(a) \in Word
  <2>1. a \in Int /\ b \in Int /\ a * b \in Int
    BY Ones DEF Short
  <2>2. (a * b) \div Half \in Int
    BY <2>1, Ones, Floor
  <2> QED
    BY <2>1, <2>2, Ones DEF MulShort, AddShort, SubShort, FromShort, Clamped, Short, Word
<1> QED
  BY <1>1, <1>2, <1>3, <1>4

(***************************************************************************)
(* The divisor of a decay fits into a word for every time that is not cut  *)
(* off, so its 32 bit sum does not overflow.                               *)
(***************************************************************************)
LEMMA DivisorFits ==
  ASSUME NEW x \in 0 .. 5 * One
  PROVE  Divisor(x) \in One .. MaxInt
<1>1. x \in Nat /\ One \in Nat \ {0} /\ x * x \in Nat
  BY Ones
<1>2. x * x <= One * (25 * One)
  <2>1. x * x <= 5 * One * x
    BY <1>1
  <2>2. 5 * One * x <= 5 * One * (5 * One)
    BY <1>1
  <2>3. 5 * One * (5 * One) = One * (25 * One)
    BY <1>1
  <2> QED
    BY <1>1, <2>1, <2>2, <2>3
<1>3. 0 <= (x * x) \div One /\ (x * x) \div One <= 25 * One
  BY <1>1, <1>2, FloorBetween
<1>4. (x * x) \div One \in Int
  BY <1>1, Floor
<1>5. 0 <= Mul(x, x) /\ Mul(x, x) <= 25 * One /\ Mul(x, x) \in Int
  BY <1>1, <1>3, <1>4, Ones DEF Mul, Saturated, Clamped
<1>6. /\ Mul(x, x) \div 2 \in Int /\ 0 <= Mul(x, x) \div 2
      /\ 2 * (Mul(x, x) \div 2) <= Mul(x, x)
  BY <1>5, Floor
<1> QED
  BY <1>1, <1>5, <1>6, Ones DEF Divisor

(***************************************************************************)
(* The decay is a share of one for all times and time constants, those at  *)
(* which the code would overflow included (ekk_fixed_exp_decay).           *)
(***************************************************************************)
THEOREM DecayIsShare ==
  ASSUME NEW elapsed \in Nat, NEW tau \in Nat
  PROVE  ExpDecay(elapsed, tau) \in 0 .. One
<1> DEFINE x == (elapsed * One) \div tau
<1>1. CASE tau = 0 \/ elapsed = 0 \/ tau > LongMax \div 5 \/ elapsed >= tau * 5
           \/ elapsed > LongMax \div One \/ x > MaxInt
  BY <1>1, Ones DEF ExpDecay
<1>2. CASE ~(tau = 0 \/ elapsed = 0 \/ tau > LongMax \div 5 \/ elapsed >= tau * 5
             \/ elapsed > LongMax \div One \/ x > MaxInt)
  <2>1. tau \in Nat \ {0} /\ elapsed * One \in Nat /\ elapsed <= tau * 5 /\ One \in Nat
    BY <1>2, Ones
  <2>2. elapsed * One <= tau * (5 * One)
    <3>1. elapsed * One <= (tau * 5) * One
      BY <2>1
    <3>2. (tau * 5) * One = tau * (5 * One)
      BY <2>1
    <3> QED
      BY <3>1, <3>2
  <2>3. 0 <= x /\ x <= 5 * One /\ x \in Int
    BY <2>1, <2>2, Floor, FloorBetween
  <2>4. ExpDecay(elapsed, tau) = Div(One, Divisor(x))
    BY <1>2 DEF ExpDecay
  <2> HIDE DEF x
  <2> DEFINE d == Divisor(x)
  <2>5. d \in Nat \ {0} /\ One <= d /\ One * One \in Nat
    BY <2>1, <2>3, DivisorFits, Ones
  <2> HIDE DEF d
  <2>6. 0 <= (One * One) \div d /\ (One * One) \div d <= One
    <3>1. One * One <= d * One
      BY <2>1, <2>5
    <3> QED
      BY <2>1, <2>5, <3>1, FloorBetween
  <2>7. Quotient(One * One, d) = (One * One) \div d /\ Quotient(One * One, d) \in Nat
    BY <2>5, QuotientNat
  <2>8. Div(One, d) = Quotient(One * One, d)
    BY <2>5, <2>6, <2>7, Ones DEF Div, Saturated, Clamped
  <2> QED
    BY <2>4, <2>6, <2>7, <2>8, Ones DEF d
<1> QED
  BY <1>1, <1>2

(***************************************************************************)
(* A decayed value is never larger than the value and never changes its    *)
(* sign (ekk_field_apply_decay).                                           *)
(***************************************************************************)
THEOREM DecayShrinks ==
  ASSUME NEW field, NEW elapsed \in Nat, NEW tau \in Nat, NEW c \in Component,
         field.components \in [Component -> Word], "components" \in DOMAIN field
  PROVE  LET v == field.components[c]
             decayed == ApplyDecay(field, elapsed, tau).components[c]
         IN  IF v >= 0 THEN 0 <= decayed /\ decayed <= v ELSE v <= decayed /\ decayed <= 0
<1> DEFINE f == ExpDecay(elapsed, tau)
<1>1. f \in 0 .. One
  BY DecayIsShare
<1> HIDE DEF f
<1>2. Scale(field, f).components[c] = Mul(field.components[c], f)
  BY DEF Scale
<1>3. field.components[c] \in Word
  OBVIOUS
<1>4. field.components[c] >= 0 \/ field.components[c] < 0
  BY <1>3, Ones DEF Word
<1> QED
  BY <1>1, <1>2, <1>3, <1>4, ShareOf DEF ApplyDecay, f

(***************************************************************************)
(* A gradient is a word and points the right way for every two values:     *)
(* saturation never turns its sign (ekk_field_gradient).                   *)
(***************************************************************************)
THEOREM GradientPoints ==
  ASSUME NEW mine, NEW aggregate, NEW c \in Component,
         mine.components[c] \in Word, aggregate.components[c] \in Word
  PROVE  LET g == Gradient(mine, aggregate)[c]
         IN  /\ g \in Word
             /\ g > 0 <=> aggregate.components[c] > mine.components[c]
             /\ g < 0 <=> aggregate.components[c] < mine.components[c]
BY Ones DEF Gradient, Saturated, Clamped, Word

(***************************************************************************)
(* The two products of a mix, rounded down each, and their sum.            *)
(***************************************************************************)
LEMMA MixBounds ==
  ASSUME NEW x \in Word, NEW y \in Word, x <= y, NEW t \in 0 .. One
  PROVE  /\ Mul(x, One - t) + Mul(y, t) \in x - 1 .. y
         /\ Mul(y, One - t) + Mul(x, t) \in x - 1 .. y
<1>1. /\ x \in Int /\ y \in Int /\ t \in Nat /\ One \in Nat \ {0}
      /\ One - t \in 0 .. One /\ t <= One
  BY Ones DEF Word
<1>2. ASSUME NEW v \in Word, NEW w \in Word, v >= x, w >= x, v <= y, w <= y, NEW u \in 0 .. One
      PROVE  Mul(v, One - u) + Mul(w, u) \in x - 1 .. y
  <2> DEFINE p == (v * (One - u)) \div One
             q == (w * u) \div One
  <2>1. v \in Int /\ w \in Int /\ u \in Nat /\ One - u \in 0 .. One /\ u <= One
    BY <1>1, Ones DEF Word
  <2>2. Mul(v, One - u) = p /\ Mul(w, u) = q
    BY <2>1, ShareOf
  <2>3. v * (One - u) \in Int /\ w * u \in Int
    BY <1>1, <2>1
  <2>4. /\ p \in Int /\ One * p <= v * (One - u) /\ v * (One - u) < One * p + One
        /\ q \in Int /\ One * q <= w * u /\ w * u < One * q + One
    BY <1>1, <2>3, Floor
  <2> HIDE DEF p, q
  <2>5. /\ x * (One - u) <= v * (One - u) /\ v * (One - u) <= y * (One - u)
        /\ x * u <= w * u /\ w * u <= y * u
    BY <1>1, <1>2, <2>1
  <2>6. /\ x * (One - u) + x * u = One * x
        /\ y * (One - u) + y * u = One * y
    BY <1>1, <2>1
  <2>7. /\ x * (One - u) \in Int /\ x * u \in Int /\ y * (One - u) \in Int /\ y * u \in Int
    BY <1>1, <2>1
  <2>8. One * p + One * q = One * (p + q)
    BY <1>1, <2>4
  <2>9. One * x <= One * (p + q) + 2 * One /\ One * (p + q) <= One * y
        /\ One * x < One * (p + q) + 2 * One
    <3>1. One * p \in Int /\ One * q \in Int /\ One * x \in Int /\ One * y \in Int
      BY <1>1, <2>4
    <3> QED
      BY <1>1, <2>3, <2>4, <2>5, <2>6, <2>7, <2>8, <3>1
  <2>10. p + q <= y
    <3> SUFFICES ASSUME y + 1 <= p + q PROVE FALSE
      BY <1>1, <2>4
    <3>1. One * (y + 1) <= One * (p + q)
      BY <1>1, <2>4
    <3>2. One * (y + 1) = One * y + One
      BY <1>1
    <3> QED
      BY <1>1, <2>4, <2>9, <3>1, <3>2
  <2>11. x - 1 <= p + q
    <3> SUFFICES ASSUME p + q + 2 <= x PROVE FALSE
      BY <1>1, <2>4
    <3>1. One * (p + q + 2) <= One * x
      BY <1>1, <2>4
    <3>2. One * (p + q + 2) = One * (p + q) + 2 * One
      BY <1>1, <2>4
    <3> QED
      BY <1>1, <2>4, <2>9, <3>1, <3>2
  <2> QED
    BY <1>1, <2>2, <2>4, <2>10, <2>11
<1> QED
  BY <1>1, <1>2

(***************************************************************************)
(* Two fields mixed lie between the two, but for one unit below: of a      *)
(* field mixed with itself one digit may be lost (ekk_field_lerp).         *)
(***************************************************************************)
THEOREM MixBetween ==
  ASSUME NEW x \in Word, NEW y \in Word, NEW t \in 0 .. One
  PROVE  /\ Mix(x, y, t) \in Word
         /\ x <= y => x - 1 <= Mix(x, y, t) /\ Mix(x, y, t) <= y
         /\ y <= x => y - 1 <= Mix(x, y, t) /\ Mix(x, y, t) <= x
<1>1. x \in Int /\ y \in Int /\ One \in Nat \ {0} /\ One - t \in 0 .. One
  BY Ones DEF Word
<1> DEFINE z == Mul(x, One - t) + Mul(y, t)
<1>2. z \in Int /\ (x <= y => z \in x - 1 .. y) /\ (y <= x => z \in y - 1 .. x)
  BY <1>1, MixBounds
<1> HIDE DEF z
<1>3. Mix(x, y, t) = Saturated(z)
  BY DEF Mix, z
<1> QED
  BY <1>1, <1>2, <1>3, Ones DEF Saturated, Clamped, Word

(***************************************************************************)
(* The loop of ekk_field_sample_neighbors_at after k neighbours.  The      *)
(* invariant: with weights of at most one, the total weight is at most k,  *)
(* and the sum stays within what the total weight allows.                  *)
(***************************************************************************)
SumFits(acc, k) ==
  /\ acc.total \in Int /\ acc.weight \in 0 .. k * One
  /\ MinInt * acc.weight <= acc.total * One /\ acc.total * One <= MaxInt * acc.weight

LEMMA SumStarts == SumFits(NoSum, 0)
BY Ones DEF SumFits, NoSum

\* A neighbour more in the sum keeps it within what its weight allows.
LEMMA SumStep ==
  ASSUME NEW i \in Nat, NEW acc, SumFits(acc, i), (i + 1) * One <= MaxInt,
         NEW v \in Word, NEW w \in 0 .. One
  PROVE  /\ SumFits(Accumulate(acc, v, w), i + 1)
         /\ Accumulate(acc, v, w).weight = acc.weight + w
<1> DEFINE n == acc.total  m == acc.weight  p == Mul(v, w)
<1>1. /\ One \in Nat \ {0} /\ v \in Int /\ w \in Nat /\ n \in Int /\ m \in Nat
      /\ MinInt <= v /\ v <= MaxInt /\ MaxInt \in Nat /\ MinInt \in Int
      /\ i * One \in Nat
  BY Ones DEF Word, SumFits
<1>2. p = (v * w) \div One /\ v * w \in Int
  BY <1>1, ShareOf
<1>3. p \in Int /\ One * p <= v * w
  BY <1>1, <1>2, Floor
<1>4. PICK k \in Int : MinInt = k * One
  <2> DEFINE j == (MaxInt + 1) \div One
  <2>1. j \in Int /\ MaxInt + 1 = j * One
    <3>1. MaxInt + 1 \in Int /\ (MaxInt + 1) % One = 0
      BY <1>1, FixedPointAssumption
    <3> QED
      BY <1>1, <3>1
  <2> HIDE DEF j
  <2>2. MinInt = (-j) * One
    BY <1>1, <2>1, Ones
  <2> QED
    BY <2>1, <2>2
<1>5. MinInt * w <= v * w /\ v * w <= MaxInt * w
  BY <1>1
<1>6. One * (k * w) <= v * w
  <2>1. One * (k * w) = (k * One) * w
    BY <1>1, <1>4
  <2> QED
    BY <1>4, <1>5, <2>1
<1>7. k * w <= p
  <2>1. k * w \in Int
    BY <1>1, <1>4
  <2>2. PICK big \in Int : v * w <= One * big
    <3>1. v * w < One * p + One
      BY <1>1, <1>2, Floor
    <3>2. v * w <= One * (p + 1)
      BY <1>1, <1>2, <1>3, <3>1
    <3> QED
      BY <1>3, <3>2
  <2> QED
    BY <1>1, <1>2, <1>6, <2>1, <2>2, FloorBetween
<1> HIDE DEF p, n, m
<1>8. MinInt * w <= p * One /\ p * One <= MaxInt * w
  <2>1. (k * w) * One <= p * One
    BY <1>1, <1>3, <1>4, <1>7
  <2>2. (k * w) * One = (k * One) * w
    BY <1>1, <1>4
  <2>3. p * One = One * p /\ MaxInt * w \in Int /\ p * One \in Int
    BY <1>1, <1>3
  <2> QED
    BY <1>2, <1>3, <1>4, <1>5, <2>1, <2>2, <2>3
<1>9. MinInt * m <= n * One /\ n * One <= MaxInt * m
  BY DEF SumFits, n, m
<1>10. /\ (n + p) * One = n * One + p * One
       /\ MinInt * (m + w) = MinInt * m + MinInt * w
       /\ MaxInt * (m + w) = MaxInt * m + MaxInt * w
  BY <1>1, <1>3
<1>11. /\ n * One \in Int /\ p * One \in Int /\ MinInt * m \in Int /\ MinInt * w \in Int
       /\ MaxInt * m \in Int /\ MaxInt * w \in Int /\ n + p \in Int /\ m + w \in Nat
  BY <1>1, <1>3
<1>12. MinInt * (m + w) <= (n + p) * One /\ (n + p) * One <= MaxInt * (m + w)
  BY <1>8, <1>9, <1>10, <1>11
<1>13. m + w \in 0 .. (i + 1) * One /\ m + w \in Word
  <2> DEFINE room == (i + 1) * One
  <2>1. m <= i * One /\ w <= One
    BY DEF SumFits, m
  <2>2. room = i * One + One /\ room <= MaxInt
    BY <1>1
  <2> HIDE DEF room
  <2>3. m + w \in Nat /\ m + w <= room /\ room \in Nat
    BY <1>1, <2>1, <2>2
  <2>4. m + w \in 0 .. room /\ m + w \in Word
    BY <1>1, <2>2, <2>3, Ones DEF Word
  <2> QED
    BY <2>4 DEF room
<1>14. Accumulate(acc, v, w).total = n + p /\ Accumulate(acc, v, w).weight = m + w
  BY <1>13, WrapsNot DEF Accumulate, n, m, p
<1> QED
  BY <1>11, <1>12, <1>13, <1>14 DEF SumFits, m

\* Weights of near neighbours are between 0 and 1.
LEMMA WeightIsShare ==
  ASSUME NEW n, n.distance \in Word, Near(n)
  PROVE  Weight(n) \in 0 .. One
<1> DEFINE whole == IF n.health = "SUSPECT" THEN Half ELSE One
<1>1. /\ whole \in 0 .. One /\ whole \in Word
      /\ One \in Nat \ {0} /\ RootOne \in Nat \ {0} /\ One * One \in Nat
  BY Ones, FixedPointAssumption DEF Word
<1> HIDE DEF whole
<1>0. n.distance \in Int
  BY Ones DEF Word
<1>2. CASE n.distance <= 0
  BY <1>0, <1>1, <1>2 DEF Weight, whole
<1>3. CASE n.distance > 0
  <2> DEFINE d == One + n.distance * RootOne
             share == (One * One) \div d
  <2>1. d \in Nat \ {0} /\ One <= d /\ d \in Word
    <3>1. n.distance * RootOne \in Nat
      BY <1>0, <1>1, <1>3
    <3>2. n.distance * RootOne <= MaxInt - One
      BY DEF Near
    <3> QED
      BY <1>1, <3>1, <3>2, Ones DEF Word
  <2>2. Weight(n) = Mul(whole, Div(One, d))
    BY <1>3, <2>1, WrapsNot DEF Weight, whole
  <2> HIDE DEF d
  <2>3. 0 <= share /\ share <= One
    <3>1. One * One <= d * One
      BY <1>1, <2>1
    <3> QED
      BY <1>1, <2>1, <3>1, FloorBetween
  <2>4. Quotient(One * One, d) = share /\ share \in Nat
    BY <1>1, <2>1, QuotientNat
  <2> HIDE DEF share
  <2>5. Div(One, d) = share
    BY <1>1, <2>1, <2>3, <2>4, Ones DEF Div, Saturated, Clamped
  <2>6. Mul(whole, share) \in Word /\ 0 <= Mul(whole, share) /\ Mul(whole, share) <= whole
    BY <1>1, <2>3, <2>4, ShareOf
  <2> QED
    BY <1>1, <2>2, <2>5, <2>6, Ones DEF Word
<1> QED
  BY <1>0, <1>2, <1>3

Added(acc, n, c) == Accumulate(acc, n.field.components[c], Weight(n))

(***************************************************************************)
(* One more near neighbour keeps the invariant, whatever its field and its *)
(* health, and neither its weight nor the total weight wraps around, as    *)
(* long as one for every neighbour fits into a word.  Of such sums the     *)
(* exact quotient is a word: the cast at the end of ekk_field_sample_      *)
(* neighbors_at loses nothing, however small the weights divided by.  In   *)
(* the code near is closer than 2^23 - 256, and there is room for 32767    *)
(* neighbours; farther ones do overflow (WeightOverflows).                 *)
(***************************************************************************)
THEOREM AverageFits ==
  ASSUME NEW k \in Nat, NEW acc, SumFits(acc, k)
  PROVE  /\ acc.weight > 0 => LET exact == Quotient(acc.total * One, acc.weight)
                              IN  exact \in Word /\ Average(acc) = exact
         /\ \A n, c :
              ( /\ n.distance \in Word /\ Near(n) /\ n.field.components[c] \in Word
                /\ (k + 1) * One <= MaxInt )
              => /\ Weight(n) \in 0 .. One
                 /\ Added(acc, n, c).weight = acc.weight + Weight(n)
                 /\ SumFits(Added(acc, n, c), k + 1)
<1>1. /\ acc.total \in Int /\ acc.weight \in Nat /\ acc.total * One \in Int
      /\ One \in Nat \ {0} /\ MaxInt \in Nat /\ MinInt \in Int /\ MinInt = -(MaxInt + 1)
  BY Ones DEF SumFits
<1>2. ASSUME NEW n, NEW c, n.distance \in Word, Near(n), (k + 1) * One <= MaxInt,
             n.field.components[c] \in Word
      PROVE  /\ Weight(n) \in 0 .. One
             /\ Added(acc, n, c).weight = acc.weight + Weight(n)
             /\ SumFits(Added(acc, n, c), k + 1)
  <2>1. Weight(n) \in 0 .. One
    BY <1>2, WeightIsShare
  <2> QED
    BY <1>2, <2>1, SumStep DEF Added
<1>3. ASSUME acc.weight > 0
      PROVE  Quotient(acc.total * One, acc.weight) \in Word
  <2> DEFINE a == acc.total * One  w == acc.weight
  <2>1. MinInt * w <= a /\ a <= MaxInt * w /\ a \in Int /\ w \in Nat \ {0}
    BY <1>1, <1>3 DEF SumFits
  <2> SUFFICES Quotient(a, w) \in Word
    OBVIOUS
  <2> HIDE DEF a, w
  <2>2. CASE a >= 0
    <3>1. Quotient(a, w) = a \div w
      BY <2>1, <2>2, QuotientNat
    <3>2. w * 0 <= a /\ a <= w * MaxInt
      <4>1. MaxInt * w = w * MaxInt /\ w * 0 = 0
        BY <1>1, <2>1
      <4> QED
        BY <2>1, <2>2, <4>1
    <3>3. a \div w \in Int
      BY <2>1, Floor
    <3>4. 0 <= a \div w /\ a \div w <= MaxInt
      <4>1. MaxInt \in Int /\ 0 \in Int
        BY <1>1
      <4> QED
        BY <2>1, <3>2, <4>1, FloorBetween
    <3> QED
      BY <1>1, <3>1, <3>3, <3>4 DEF Word
  <2>3. CASE a < 0
    <3>1. Quotient(a, w) = -((-a) \div w) /\ -a \in Nat
      BY <2>1, <2>3 DEF Quotient, Magnitude
    <3>2. w * 0 <= -a /\ -a <= w * (-MinInt)
      BY <1>1, <2>1, <2>3
    <3> DEFINE b == -a  top == -MinInt
    <3>3. b \in Nat /\ top \in Nat /\ w * 0 <= b /\ b <= w * top
      BY <1>1, <3>1, <3>2
    <3>4. Quotient(a, w) = -(b \div w)
      BY <3>1
    <3> HIDE DEF b
    <3>5. b \div w \in Int
      BY <2>1, <3>3, Floor
    <3>6. 0 <= b \div w /\ b \div w <= top
      BY <2>1, <3>3, FloorBetween
    <3> QED
      BY <1>1, <3>4, <3>5, <3>6 DEF Word
  <2> QED
    BY <2>1, <2>2, <2>3
<1>4. acc.weight > 0 => Average(acc) = Quotient(acc.total * One, acc.weight)
  BY <1>3, WrapsNot DEF Average
<1> QED
  BY <1>2, <1>3, <1>4

(***************************************************************************)
(* The slack component is between 0 and 1 whatever the deadlines, and of   *)
(* two modules the one with less slack never shows more of it.             *)
(***************************************************************************)
THEOREM SlackOrdered ==
  ASSUME NEW s \in Int, NEW u \in Int, s <= u
  PROVE  /\ SlackComponent(s) \in 0 .. One
         /\ SlackComponent(s) <= SlackComponent(u)
<1>1. One \in Nat \ {0} /\ Normalize \in Nat \ {0}
  BY Ones, FixedPointAssumption
<1>2. ASSUME NEW x \in Int, 0 < x, x < Normalize
      PROVE  /\ SlackComponent(x) = (x * One) \div Normalize
             /\ SlackComponent(x) \in 0 .. One
  <2>1. SlackComponent(x) = (x * One) \div Normalize
    BY <1>1, <1>2 DEF SlackComponent
  <2>2. x * One \in Int /\ Normalize * 0 <= x * One /\ x * One <= Normalize * One
    BY <1>1, <1>2
  <2>3. (x * One) \div Normalize \in 0 .. One
    BY <1>1, <2>2, Floor, FloorBetween
  <2> QED
    BY <2>1, <2>3
<1>3. \A x \in Int : SlackComponent(x) \in 0 .. One
  BY <1>1, <1>2 DEF SlackComponent
<1>4. CASE s <= 0 \/ u >= Normalize
  <2>1. s <= 0 => SlackComponent(s) = 0
    BY DEF SlackComponent
  <2>2. u >= Normalize => SlackComponent(u) = One
    BY <1>1 DEF SlackComponent
  <2> QED
    BY <1>1, <1>3, <1>4, <2>1, <2>2
<1>5. CASE 0 < s /\ u < Normalize
  <2>1. s * One \in Int /\ u * One \in Int /\ s * One <= u * One
    BY <1>1
  <2> QED
    <3>1. (s * One) \div Normalize <= (u * One) \div Normalize
      BY <1>1, <2>1, FloorMonotone
    <3>2. 0 < s /\ s < Normalize /\ 0 < u /\ u < Normalize
      BY <1>1, <1>5
    <3>3. /\ SlackComponent(s) = (s * One) \div Normalize
          /\ SlackComponent(u) = (u * One) \div Normalize
      BY <1>2, <3>2
    <3> QED
      BY <1>3, <3>1, <3>3
<1> QED
  BY <1>1, <1>3, <1>4, <1>5

(***************************************************************************)
(* The clock of the HAL counts the whole microseconds since the start, it  *)
(* starts at 0, and it never runs backwards as long as the monotonic clock *)
(* does not, across the borrow from the seconds (ekk_hal_time_us).         *)
(***************************************************************************)
Reading == [sec : Nat, nsec : 0 .. NsPerSec - 1]
NotBefore(s, r) == s.sec > r.sec \/ (s.sec = r.sec /\ s.nsec >= r.nsec)
Passed(r, start) == (r.sec - start.sec) * NsPerSec + (r.nsec - start.nsec)

LEMMA Units ==
  /\ NsPerUs \in Nat \ {0} /\ UsPerSec \in Nat /\ NsPerSec \in Nat
  /\ NsPerSec = UsPerSec * NsPerUs
BY SMT DEF NsPerUs, UsPerSec, NsPerSec

\* Whole units can be taken out of a division, also of a negative number.
LEMMA FloorShift ==
  ASSUME NEW a \in Int, NEW k \in Int, NEW n \in Nat \ {0}
  PROVE  (k * n + a) \div n = k + a \div n
<1> DEFINE q == a \div n  p == (k * n + a) \div n
<1>1. k * n \in Int /\ k * n + a \in Int
  OBVIOUS
<1>2. q \in Int /\ n * q <= a /\ a < n * q + n
  BY Floor
<1>3. p \in Int /\ n * p <= k * n + a /\ k * n + a < n * p + n
  BY <1>1, Floor
<1> HIDE DEF p, q
<1>4. n * (k + q) = k * n + n * q /\ n * (k + q) \in Int /\ n * p \in Int
  BY <1>2, <1>3
<1>5. n * p < n * (k + q) + n /\ n * (k + q) < n * p + n
  BY <1>1, <1>2, <1>3, <1>4
<1>6. ASSUME p >= k + q + 1 PROVE FALSE
  <2>1. n * (k + q + 1) <= n * p
    BY <1>2, <1>3, <1>6
  <2>2. n * (k + q + 1) = n * (k + q) + n
    BY <1>2
  <2> QED
    BY <1>4, <1>5, <2>1, <2>2
<1>7. ASSUME p + 1 <= k + q PROVE FALSE
  <2>1. n * (p + 1) <= n * (k + q)
    BY <1>2, <1>3, <1>7
  <2>2. n * (p + 1) = n * p + n
    BY <1>3
  <2> QED
    BY <1>4, <1>5, <2>1, <2>2
<1> QED
  BY <1>2, <1>3, <1>6, <1>7 DEF p, q

\* The borrow of nanoseconds is exact.
LEMMA MicrosExact ==
  ASSUME NEW start \in Reading, NEW r \in Reading
  PROVE  Passed(r, start) \in Int /\ Micros(r, start) = Passed(r, start) \div NsPerUs
<1> DEFINE borrow == IF r.nsec < start.nsec THEN 1 ELSE 0
           sec == r.sec - start.sec - borrow
           nsec == r.nsec - start.nsec + borrow * NsPerSec
<1>1. /\ r.sec \in Nat /\ r.nsec \in Nat /\ start.sec \in Nat /\ start.nsec \in Nat
      /\ borrow \in {0, 1} /\ sec \in Int /\ nsec \in Int
  BY Units DEF Reading
<1>2. Micros(r, start) = sec * UsPerSec + nsec \div NsPerUs
  <2>1. borrow * NsPerSec = IF r.nsec < start.nsec THEN NsPerSec ELSE 0
    BY Units
  <2> QED
    BY <2>1 DEF Micros
<1>3. Passed(r, start) = (sec * UsPerSec) * NsPerUs + nsec
  <2>1. (sec * UsPerSec) * NsPerUs = sec * NsPerSec
    BY <1>1, Units
  <2>2. sec * NsPerSec = (r.sec - start.sec) * NsPerSec - borrow * NsPerSec
    <3> DEFINE k == r.sec - start.sec
    <3>1. k \in Int /\ borrow \in Int /\ sec = k - borrow
      BY <1>1
    <3> HIDE DEF k, borrow, sec
    <3>2. (k - borrow) * NsPerSec = k * NsPerSec - borrow * NsPerSec
      BY <3>1, Units
    <3> QED
      BY <3>1, <3>2 DEF k
  <2>3. (r.sec - start.sec) * NsPerSec \in Int /\ borrow * NsPerSec \in Int
    BY <1>1, Units
  <2> HIDE DEF borrow
  <2> QED
    BY <1>1, <2>1, <2>2, <2>3 DEF Passed
<1> HIDE DEF sec, nsec
<1> DEFINE k == sec * UsPerSec
<1>4. k \in Int /\ k * NsPerUs \in Int /\ nsec \in Int
  BY <1>1, Units
<1> HIDE DEF k
<1>5. (k * NsPerUs + nsec) \div NsPerUs = k + nsec \div NsPerUs
  BY <1>4, Units, FloorShift
<1>6. Micros(r, start) = k + nsec \div NsPerUs
  BY <1>2 DEF k
<1>7. Passed(r, start) = k * NsPerUs + nsec
  BY <1>3 DEF k
<1> QED
  BY <1>4, <1>5, <1>6, <1>7

(***************************************************************************)
(* The clock starts at 0, counts whole microseconds, and a later reading   *)
(* never gives a smaller time, whether or not the nanoseconds borrow       *)
(* (ekk_hal_time_us): the unsigned result never wraps.                     *)
(***************************************************************************)
THEOREM ClockMonotone ==
  ASSUME NEW start \in Reading, NEW r \in Reading, NEW s \in Reading, NotBefore(s, r)
  PROVE  /\ Micros(r, start) = Passed(r, start) \div NsPerUs
         /\ Micros(start, start) = 0
         /\ Micros(s, start) >= Micros(r, start)
<1>1. /\ start.sec \in Nat /\ r.sec \in Nat /\ s.sec \in Nat
      /\ start.nsec \in Nat /\ r.nsec \in 0 .. NsPerSec - 1 /\ s.nsec \in 0 .. NsPerSec - 1
  BY Units DEF Reading
<1>2. Passed(start, start) = 0
  BY <1>1, Units DEF Passed
<1>3. Passed(s, start) >= Passed(r, start)
  <2> DEFINE d == s.sec - start.sec  e == r.sec - start.sec
  <2>1. d \in Int /\ e \in Int /\ d * NsPerSec \in Int /\ e * NsPerSec \in Int
    BY <1>1, Units
  <2>2. CASE s.sec = r.sec
    BY <1>1, <2>1, <2>2, Units DEF Passed, NotBefore
  <2>3. CASE s.sec > r.sec
    <3>1. d >= e + 1
      BY <1>1, <2>3
    <3>2. d * NsPerSec >= (e + 1) * NsPerSec
      BY <2>1, <3>1, Units
    <3>3. (e + 1) * NsPerSec = e * NsPerSec + NsPerSec
      BY <2>1, Units
    <3>4. Passed(s, start) = d * NsPerSec + (s.nsec - start.nsec)
      BY DEF Passed
    <3>5. Passed(r, start) = e * NsPerSec + (r.nsec - start.nsec)
      BY DEF Passed
    <3> HIDE DEF d, e
    <3> QED
      BY <1>1, <2>1, <3>2, <3>3, <3>4, <3>5, Units
  <2> QED
    BY <1>1, <2>2, <2>3 DEF NotBefore
<1>4. 0 \div NsPerUs = 0
  BY Units, FloorBetween
<1> QED
  BY <1>2, <1>3, <1>4, Units, MicrosExact, FloorMonotone

-----------------------------------------------------------------------------
(***************************************************************************)
(* The slot.  Types first: the values a sampling and a collecting thread   *)
(* may hold.                                                               *)
(***************************************************************************)
Sampling ==
  [at : {"idle", "begin", "source", "age", "copy"}, now : 0 .. MaxTime, seq : Nat,
   copy : Field, todo : SUBSET Part, retries : 0 .. MaxRetries, status : Status,
   published : Publication, clash : BOOLEAN]

Gathering ==
  [at : {"idle", "begin", "source", "time", "claim", "invalidate", "release"},
   now : 0 .. MaxTime, seq : Nat, source : Publication, time : 0 .. MaxTime,
   clash : BOOLEAN]

(***************************************************************************)
(* The owner's side: a part of the field that is still to be written holds *)
(* the publication before, the others the present one.                     *)
(***************************************************************************)
Data == {"components", "timestamp"}
Done == IF owner.at = "idle" THEN owner.count ELSE owner.count - 1

OwnerInv ==
  /\ owner.at = "idle" => owner.todo = {}
  /\ owner.at = "open" => owner.todo = Part
  /\ owner.at # "idle" => owner.count >= 1
  /\ \A part \in Data :
       slot[part] = IF part \in owner.todo THEN owner.count - 1 ELSE owner.count

LEMMA ZeroTypes ==
  /\ 0 \in Publication /\ 1 \in Publication /\ 0 \in 0 .. MaxTime /\ 0 \in 0 .. MaxRetries
  /\ 0 \in Nat /\ Empty \in Field /\ Publication \subseteq Nat
BY FieldAssumption DEF Publication, Empty, Field

LEMMA IdleTypes == NoSample \in Sampling /\ NoCollection \in Gathering
BY ZeroTypes DEF NoSample, Sampling, NoCollection, Gathering, Status

LEMMA RefusedType ==
  ASSUME NEW status \in Status
  PROVE  Refused(status) \in Sampling
BY IdleTypes DEF Refused, NoSample, Sampling, Status

LEMMA AttemptType ==
  ASSUME TypeOK, NEW r \in Reader
  PROVE  Attempt(r) \in Sampling
<1>1. reader[r] \in Sampling
  BY DEF TypeOK, Sampling
<1>2. CASE reader[r].retries < MaxRetries
  <2>1. reader[r].retries + 1 \in 0 .. MaxRetries
    BY <1>1, <1>2, FieldAssumption DEF Sampling
  <2> QED  BY <1>1, <1>2, <2>1 DEF Attempt, Sampling
<1>3. CASE ~(reader[r].retries < MaxRetries)
  BY <1>3, RefusedType DEF Attempt, Status
<1> QED  BY <1>2, <1>3

LEMMA PublishTypes ==
  ASSUME TypeOK, Publish
  PROVE  TypeOK'
<1>1. CASE PublishBegin
  <2>1. owner.count + 1 \in Publication
    BY <1>1, FieldAssumption DEF TypeOK, PublishBegin, Publication
  <2> QED  BY <1>1, <2>1 DEF TypeOK, PublishBegin
<1>2. CASE PublishOpen
  BY <1>2 DEF TypeOK, PublishOpen, Opened
<1>3. CASE PublishClose
  <2>1. owner' = [owner EXCEPT !.at = "idle", !.todo = {}]
        /\ sequence' = sequence + 1 /\ UNCHANGED <<clock, slot, stamps, reader, collector>>
    BY <1>3 DEF PublishClose
  <2>2. owner' \in [at : {"idle", "open", "write"}, count : Publication, todo : SUBSET Part]
    BY <2>1 DEF TypeOK
  <2> QED  BY <2>1, <2>2 DEF TypeOK
<1>4. ASSUME NEW p \in Part, PublishPart(p)
      PROVE  TypeOK'
  <2>1. slot' \in Field
    BY <1>4, ZeroTypes DEF TypeOK, PublishPart, Field
  <2> QED  BY <1>4, <2>1 DEF TypeOK, PublishPart
<1> QED  BY <1>1, <1>2, <1>3, <1>4 DEF Publish

LEMMA SampleTypes ==
  ASSUME TypeOK, OwnerInv, NEW r \in Reader, Sample(r)
  PROVE  TypeOK'
<1>1. ASSUME NEW t \in Sampling, reader' = [reader EXCEPT ![r] = t],
             UNCHANGED <<clock, sequence, slot, stamps, owner, collector>>
      PROVE  TypeOK'
  BY <1>1 DEF TypeOK, Sampling
<1>2. reader[r] \in Sampling
  BY DEF TypeOK, Sampling
<1>3. CASE SampleCall(r)
  <2> DEFINE done == IF owner.at = "idle" THEN owner.count ELSE owner.count - 1
             t == [NoSample EXCEPT !.at = "begin", !.now = clock, !.published = done]
  <2>1. done \in Publication
    BY FieldAssumption DEF TypeOK, OwnerInv, Publication
  <2>2. t \in Sampling
    BY <2>1, IdleTypes DEF TypeOK, Sampling, NoSample
  <2> QED  BY <1>1, <1>3, <2>2 DEF SampleCall
<1>4. CASE SampleBegin(r)
  <2>1. [reader[r] EXCEPT !.at = "source", !.seq = sequence, !.clash = Clashing] \in Sampling
    BY <1>2 DEF TypeOK, Sampling, Clashing
  <2> QED  BY <1>1, <1>4, <2>1, AttemptType DEF SampleBegin
<1>5. CASE SampleSource(r)
  <2>1. [reader[r] EXCEPT !.at = "age"] \in Sampling
    BY <1>2 DEF Sampling
  <2> QED  BY <1>1, <1>5, <2>1, RefusedType DEF SampleSource, Status
<1>6. CASE SampleAge(r)
  <2>1. [reader[r] EXCEPT !.at = "copy", !.todo = Part] \in Sampling
    BY <1>2 DEF Sampling
  <2> QED  BY <1>1, <1>6, <2>1, RefusedType DEF SampleAge, Status
<1>7. ASSUME NEW p \in Part, SamplePart(r, p)
      PROVE  TypeOK'
  <2> DEFINE t == [reader[r] EXCEPT !.copy = [@ EXCEPT ![p] = slot[p]], !.todo = @ \ {p}]
  <2>1. [reader[r].copy EXCEPT ![p] = slot[p]] \in Field
    BY <1>2 DEF TypeOK, Sampling, Field
  <2>2. t \in Sampling
    BY <1>2, <2>1 DEF Sampling
  <2>3. reader' = [reader EXCEPT ![r] = t]
    BY <1>2, <1>7 DEF SamplePart, TypeOK
  <2> HIDE DEF t
  <2> QED  BY <1>1, <1>7, <2>2, <2>3 DEF SamplePart
<1>8. CASE SampleEnd(r)
  <2>1. [reader[r] EXCEPT !.at = "idle", !.status = "OK", !.seq = 0, !.retries = 0] \in Sampling
    BY <1>2, ZeroTypes DEF Sampling, Status
  <2>2. [Attempt(r) EXCEPT !.seq = 0, !.copy = Empty] \in Sampling
    BY AttemptType, ZeroTypes DEF Sampling
  <2> QED  BY <1>1, <1>8, <2>1, <2>2 DEF SampleEnd
<1> QED  BY <1>3, <1>4, <1>5, <1>6, <1>7, <1>8 DEF Sample

LEMMA CollectTypes ==
  ASSUME TypeOK, NEW c \in Collector, CollectCall(c) \/ CollectStep(c)
  PROVE  TypeOK'
<1>1. ASSUME NEW t \in Gathering, collector' = [collector EXCEPT ![c] = t],
             UNCHANGED <<clock, stamps, owner, reader>>,
             sequence' \in Nat, slot' \in Field
      PROVE  TypeOK'
  BY <1>1 DEF TypeOK, Gathering
<1>2. /\ collector[c] \in Gathering /\ slot["source"] \in Publication
      /\ stamps[slot["timestamp"]] \in 0 .. MaxTime
      /\ sequence \in Nat /\ sequence + 1 \in Nat /\ slot \in Field /\ clock \in 0 .. MaxTime
  BY DEF TypeOK, Gathering, Field, Part
<1>3. CASE CollectCall(c)
  <2>1. [NoCollection EXCEPT !.at = "begin", !.now = clock] \in Gathering
    BY <1>2, IdleTypes DEF NoCollection, Gathering
  <2> QED  BY <1>1, <1>2, <1>3, <2>1 DEF CollectCall
<1>4. CASE CollectBegin(c)
  <2>1. [collector[c] EXCEPT !.at = "source", !.seq = sequence, !.clash = Clashing]
          \in Gathering
    BY <1>2 DEF Gathering, Clashing
  <2> QED  BY <1>1, <1>2, <1>4, <2>1, IdleTypes DEF CollectBegin
<1>5. CASE CollectSource(c)
  <2> DEFINE t == [collector[c] EXCEPT !.at = "time", !.source = slot["source"]]
  <2>1. t \in Gathering
    BY <1>2 DEF Gathering
  <2>2. collector' = [collector EXCEPT ![c] = t]
    BY <1>2, <1>5 DEF CollectSource, Gathering, TypeOK
  <2> HIDE DEF t
  <2> QED  BY <1>1, <1>2, <1>5, <2>1, <2>2 DEF CollectSource
<1>6. CASE CollectTime(c)
  <2> DEFINE t == [collector[c] EXCEPT !.at = "claim", !.time = stamps[slot["timestamp"]]]
  <2>1. t \in Gathering
    BY <1>2 DEF Gathering
  <2>2. collector' = [collector EXCEPT ![c] = t]
    BY <1>2, <1>6 DEF CollectTime, Gathering, TypeOK
  <2> HIDE DEF t
  <2> QED  BY <1>1, <1>2, <1>6, <2>1, <2>2 DEF CollectTime
<1>7. CASE CollectClaim(c)
  <2>1. [NoCollection EXCEPT !.at = "invalidate"] \in Gathering
    BY IdleTypes DEF NoCollection, Gathering
  <2> QED  BY <1>1, <1>2, <1>7, <2>1, IdleTypes DEF CollectClaim
<1>8. CASE CollectInvalidate(c)
  <2> DEFINE t == [collector[c] EXCEPT !.at = "release"]
  <2>1. t \in Gathering
    BY <1>2 DEF Gathering
  <2>2. collector' = [collector EXCEPT ![c] = t]
    BY <1>2, <1>8 DEF CollectInvalidate
  <2>3. slot' \in Field
    BY <1>2, <1>8, ZeroTypes DEF CollectInvalidate, Field
  <2> HIDE DEF t
  <2> QED  BY <1>1, <1>2, <1>8, <2>1, <2>2, <2>3 DEF CollectInvalidate
<1>9. CASE CollectRelease(c)
  <2> DEFINE t == [collector[c] EXCEPT !.at = "idle"]
  <2>1. t \in Gathering
    BY <1>2 DEF Gathering
  <2>2. collector' = [collector EXCEPT ![c] = t]
    BY <1>2, <1>9 DEF CollectRelease
  <2> HIDE DEF t
  <2> QED  BY <1>1, <1>2, <1>9, <2>1, <2>2 DEF CollectRelease, Released
<1> QED  BY <1>3, <1>4, <1>5, <1>6, <1>7, <1>8, <1>9 DEF CollectStep

LEMMA OwnerStep ==
  ASSUME TypeOK, OwnerInv, [Next]_vars
  PROVE  OwnerInv'
<1>1. CASE UNCHANGED <<owner, slot>>
  BY <1>1 DEF OwnerInv
<1>2. CASE PublishBegin
  <2>1. owner' = [at |-> "open", count |-> owner.count + 1, todo |-> Part] /\ slot' = slot
        /\ owner.at = "idle" /\ owner.count \in Nat
    BY <1>2, ZeroTypes DEF PublishBegin, TypeOK
  <2> QED  BY <2>1 DEF OwnerInv, Data, Part
<1>3. CASE PublishOpen
  BY <1>3 DEF PublishOpen, OwnerInv, TypeOK
<1>4. CASE PublishClose
  BY <1>4 DEF PublishClose, Written, Publishing, OwnerInv, TypeOK
<1>5. ASSUME NEW p \in Part, PublishPart(p)
      PROVE  OwnerInv'
  <2>1. /\ slot' = [slot EXCEPT ![p] = IF p = "source" THEN 1 ELSE owner.count]
        /\ owner' = [owner EXCEPT !.todo = @ \ {p}] /\ owner.at = "write"
        /\ slot \in Field
    BY <1>5 DEF PublishPart, Publishing, TypeOK
  <2>2. owner'.at = "write" /\ owner'.count = owner.count /\ owner'.todo = owner.todo \ {p}
    BY <2>1 DEF TypeOK
  <2>3. \A part \in Data : slot'[part] = IF part = p THEN owner.count ELSE slot[part]
    BY <2>1 DEF Data, Part, Field
  <2> QED  BY <2>1, <2>2, <2>3 DEF OwnerInv
<1>6. ASSUME NEW c \in Collector, CollectInvalidate(c)
      PROVE  OwnerInv'
  BY <1>6 DEF CollectInvalidate, OwnerInv, Data, TypeOK, Field, Part
<1>7. ASSUME NEW c \in Collector, CollectCall(c) \/ CollectStep(c), ~CollectInvalidate(c)
      PROVE  UNCHANGED <<owner, slot>>
  BY <1>7 DEF CollectStep, CollectCall, CollectBegin, CollectSource, CollectTime,
              CollectClaim, CollectRelease
<1>8. ASSUME NEW r \in Reader, Sample(r)
      PROVE  UNCHANGED <<owner, slot>>
  BY <1>8 DEF Sample, SampleCall, SampleBegin, SampleSource, SampleAge, SamplePart, SampleEnd
<1>9. CASE UNCHANGED vars
  BY <1>1, <1>9 DEF vars
<1>10. CASE AdvanceTime
  BY <1>1, <1>10 DEF AdvanceTime
<1> QED  BY <1>1, <1>2, <1>3, <1>4, <1>5, <1>6, <1>7, <1>8, <1>9, <1>10 DEF Next, Publish

LEMMA InitTypes == Init => TypeOK
<1> SUFFICES ASSUME Init PROVE TypeOK
  OBVIOUS
<1>1. reader \in [Reader -> Sampling] /\ collector \in [Collector -> Gathering]
  BY IdleTypes DEF Init
<1>2. owner = [at |-> "idle", count |-> 0, todo |-> {}]
  BY DEF Init
<1> QED  BY <1>1, <1>2, ZeroTypes DEF Init, TypeOK, Sampling, Gathering

LEMMA InitOwner == Init => OwnerInv
BY DEF Init, OwnerInv, Empty, Data, Part

LEMMA NextTypes ==
  ASSUME TypeOK, OwnerInv, [Next]_vars
  PROVE  TypeOK'
<1>1. CASE UNCHANGED vars
  BY <1>1 DEF vars, TypeOK
<1>2. CASE AdvanceTime
  <2>1. clock + 1 \in 0 .. MaxTime
    BY <1>2, FieldAssumption DEF TypeOK, AdvanceTime
  <2> QED  BY <1>2, <2>1 DEF TypeOK, AdvanceTime
<1> QED  BY <1>1, <1>2, PublishTypes, SampleTypes, CollectTypes DEF Next

-----------------------------------------------------------------------------
(***************************************************************************)
(* The counter is twice the number of writes that have ended, plus one for *)
(* every write in progress: it is even while nobody writes, and while two  *)
(* threads write at once.                                                  *)
(***************************************************************************)
Busy == {c \in Collector : Collecting(c)}
Quiet == ~Publishing /\ Busy = {}
Writers == (IF Publishing THEN 1 ELSE 0) + Cardinality(Busy)

CounterInv ==
  /\ IsFiniteSet(Busy)
  /\ \E ended \in Nat : sequence = 2 * ended + Writers

\* A reader that finds the counter even finds nobody writing, but for a
\* clash.
LEMMA EvenQuiet ==
  ASSUME CounterInv, Even, ~Clashing
  PROVE  Quiet
<1>1. PICK ended \in Nat : sequence = 2 * ended + Writers
  BY DEF CounterInv
<1>2. ASSUME Writers = 1 PROVE FALSE
  <2>1. sequence = 2 * ended + 1
    BY <1>1, <1>2
  <2> QED  BY <2>1 DEF Even
<1>3. CASE Publishing
  <2>1. Busy = {}
    BY <1>3 DEF Clashing, Busy
  <2> QED  BY <1>2, <1>3, <2>1, FS_EmptySet DEF Writers
<1>4. CASE ~Publishing /\ Busy # {}
  <2>1. PICK c \in Busy : TRUE
    BY <1>4
  <2>2. Busy = {c}
    BY <2>1 DEF Busy, Clashing
  <2>3. Writers = 1
    BY <1>4, <2>2, FS_Singleton DEF Writers
  <2> QED  BY <1>2, <2>3
<1> QED  BY <1>3, <1>4 DEF Quiet

\* How a step of a collector changes who is writing.
LEMMA BusyStep ==
  ASSUME TypeOK, NEW c \in Collector, NEW t, collector' = [collector EXCEPT ![c] = t]
  PROVE  Busy' = IF t.at \in {"invalidate", "release"} THEN Busy \union {c} ELSE Busy \ {c}
BY DEF TypeOK, Busy, Collecting

\* What a step does to Busy, Publishing and the counter.
CounterStep ==
  \/ sequence' = sequence /\ (Publishing' <=> Publishing) /\ Busy' = Busy
  \/ sequence' = sequence + 1 /\ (Publishing' <=> ~Publishing) /\ Busy' = Busy
  \/ /\ sequence' = sequence + 1 /\ (Publishing' <=> Publishing)
     /\ \E c \in Collector : \/ c \notin Busy /\ Busy' = Busy \union {c}
                             \/ c \in Busy /\ Busy' = Busy \ {c}

\* The counter moves exactly when a thread begins or ends writing.
LEMMA CounterSteps ==
  ASSUME TypeOK, [Next]_vars
  PROVE  CounterStep
<1>1. CASE UNCHANGED <<sequence, owner, collector>>
  BY <1>1 DEF CounterStep, Publishing, Busy, Collecting
<1>2. CASE Publish
  <2>0. collector' = collector => Busy' = Busy
    BY DEF Busy, Collecting
  <2>1. CASE PublishBegin \/ PublishOpen \/ PublishClose
    <3>1. CASE PublishBegin
      <4>1. ~Publishing /\ ~Publishing' /\ sequence' = sequence /\ collector' = collector
        BY <3>1 DEF PublishBegin, Publishing
      <4> QED  BY <2>0, <4>1 DEF CounterStep
    <3>2. CASE PublishOpen
      <4>1. ~Publishing /\ Publishing' /\ sequence' = sequence + 1 /\ collector' = collector
        BY <3>2 DEF PublishOpen, Publishing, Opened, TypeOK
      <4> QED  BY <2>0, <4>1 DEF CounterStep
    <3>3. CASE PublishClose
      <4>1. Publishing /\ ~Publishing' /\ sequence' = sequence + 1 /\ collector' = collector
        BY <3>3 DEF PublishClose, Publishing, TypeOK
      <4> QED  BY <2>0, <4>1 DEF CounterStep
    <3> QED  BY <2>1, <3>1, <3>2, <3>3
  <2>2. ASSUME NEW p \in Part, PublishPart(p)
        PROVE  CounterStep
    BY <2>2 DEF PublishPart, CounterStep, Publishing, Busy, Collecting, TypeOK
  <2> QED  BY <1>2, <2>1, <2>2 DEF Publish
<1>3. ASSUME NEW c \in Collector, CollectCall(c) \/ CollectStep(c)
      PROVE  CounterStep
  <2>1. collector[c] \in Gathering
    BY DEF TypeOK, Gathering
  <2>2. ASSUME NEW t, collector' = [collector EXCEPT ![c] = t], sequence' = sequence,
               owner' = owner,
               t.at \in {"invalidate", "release"} <=> Collecting(c)
        PROVE  CounterStep
    <3>1. Busy' = Busy
      BY <2>2, BusyStep DEF Busy
    <3> QED  BY <2>2, <3>1 DEF CounterStep, Publishing
  <2>3. CASE CollectCall(c)
    <3>1. [NoCollection EXCEPT !.at = "begin", !.now = clock].at = "begin"
      BY DEF NoCollection
    <3> QED  BY <2>2, <2>3, <3>1 DEF CollectCall, Collecting
  <2>4. CASE CollectBegin(c)
    <3>1. [collector[c] EXCEPT !.at = "source", !.seq = sequence, !.clash = Clashing].at
            = "source" /\ NoCollection.at = "idle"
      BY <2>1 DEF NoCollection, Gathering
    <3> QED  BY <2>2, <2>4, <3>1 DEF CollectBegin, Collecting
  <2>5. CASE CollectSource(c)
    <3> DEFINE t == [collector[c] EXCEPT !.at = "time", !.source = slot["source"]]
    <3>1. t.at = "time" /\ collector' = [collector EXCEPT ![c] = t]
      BY <2>1, <2>5 DEF CollectSource, Gathering, TypeOK
    <3> HIDE DEF t
    <3> QED  BY <2>2, <2>5, <3>1 DEF CollectSource, Collecting
  <2>6. CASE CollectTime(c)
    <3> DEFINE t == [collector[c] EXCEPT !.at = "claim", !.time = stamps[slot["timestamp"]]]
    <3>1. t.at = "claim" /\ collector' = [collector EXCEPT ![c] = t]
      BY <2>1, <2>6 DEF CollectTime, Gathering, TypeOK
    <3> HIDE DEF t
    <3> QED  BY <2>2, <2>6, <3>1 DEF CollectTime, Collecting
  <2>7. CASE CollectClaim(c)
    <3>1. NoCollection.at = "idle" /\ [NoCollection EXCEPT !.at = "invalidate"].at = "invalidate"
      BY DEF NoCollection
    <3>2. CASE Claimable(c)
      <4>1. /\ collector' = [collector EXCEPT ![c] = [NoCollection EXCEPT !.at = "invalidate"]]
            /\ sequence' = sequence + 1 /\ owner' = owner /\ c \notin Busy
        BY <2>7, <3>2 DEF CollectClaim, Busy, Collecting
      <4>2. Busy' = Busy \union {c}
        BY <3>1, <4>1, BusyStep
      <4> QED  BY <4>1, <4>2 DEF CounterStep, Publishing
    <3>3. CASE ~Claimable(c)
      BY <2>2, <2>7, <3>1, <3>3 DEF CollectClaim, Collecting
    <3> QED  BY <3>2, <3>3
  <2>8. CASE CollectInvalidate(c)
    <3> DEFINE t == [collector[c] EXCEPT !.at = "release"]
    <3>1. t.at = "release" /\ collector' = [collector EXCEPT ![c] = t]
      BY <2>1, <2>8 DEF CollectInvalidate, Gathering
    <3> HIDE DEF t
    <3> QED  BY <2>2, <2>8, <3>1 DEF CollectInvalidate, Collecting
  <2>9. CASE CollectRelease(c)
    <3> DEFINE t == [collector[c] EXCEPT !.at = "idle"]
    <3>1. t.at = "idle" /\ collector' = [collector EXCEPT ![c] = t]
      BY <2>1, <2>9 DEF CollectRelease, Gathering
    <3>2. sequence' = sequence + 1 /\ owner' = owner /\ c \in Busy
      BY <2>9 DEF CollectRelease, Busy, Collecting, Released
    <3> HIDE DEF t
    <3>3. Busy' = Busy \ {c}
      BY <3>1, BusyStep
    <3> QED  BY <3>2, <3>3 DEF CounterStep, Publishing
  <2> QED  BY <1>3, <2>3, <2>4, <2>5, <2>6, <2>7, <2>8, <2>9 DEF CollectStep
<1>4. ASSUME NEW r \in Reader, Sample(r)
      PROVE  UNCHANGED <<sequence, owner, collector>>
  BY <1>4 DEF Sample, SampleCall, SampleBegin, SampleSource, SampleAge, SamplePart, SampleEnd
<1> QED  BY <1>1, <1>2, <1>3, <1>4 DEF Next, vars, AdvanceTime

LEMMA CounterKept ==
  ASSUME TypeOK, CounterInv, CounterStep
  PROVE  CounterInv'
<1>1. PICK ended \in Nat : sequence = 2 * ended + Writers
  BY DEF CounterInv
<1>2. IsFiniteSet(Busy) /\ Cardinality(Busy) \in Nat /\ Writers \in Nat
  BY FS_CardinalityType DEF CounterInv, Writers
<1>3. ASSUME IsFiniteSet(Busy'), NEW k \in Nat, sequence' = 2 * k + Writers'
      PROVE  CounterInv'
  BY <1>3 DEF CounterInv
<1>4. CASE sequence' = sequence /\ (Publishing' <=> Publishing) /\ Busy' = Busy
  BY <1>1, <1>2, <1>3, <1>4 DEF Writers
<1>5. CASE sequence' = sequence + 1 /\ (Publishing' <=> ~Publishing) /\ Busy' = Busy
  <2>1. CASE Publishing
    <3>1. ~Publishing' /\ Writers = 1 + Cardinality(Busy) /\ Writers' = 0 + Cardinality(Busy)
      BY <1>5, <2>1 DEF Writers
    <3>2. ended + 1 \in Nat /\ sequence' = 2 * (ended + 1) + Writers'
      BY <1>1, <1>2, <1>5, <3>1
    <3> QED  BY <1>2, <1>3, <1>5, <3>2
  <2>2. CASE ~Publishing
    <3>1. Publishing' /\ Writers = 0 + Cardinality(Busy) /\ Writers' = 1 + Cardinality(Busy)
      BY <1>5, <2>2 DEF Writers
    <3>2. sequence' = 2 * ended + Writers'
      BY <1>1, <1>2, <1>5, <3>1
    <3> QED  BY <1>2, <1>3, <1>5, <3>2
  <2> QED  BY <2>1, <2>2
<1>6. ASSUME sequence' = sequence + 1, Publishing' <=> Publishing, NEW c \in Collector,
             c \notin Busy, Busy' = Busy \union {c}
      PROVE  CounterInv'
  <2>1. IsFiniteSet(Busy') /\ Cardinality(Busy') = Cardinality(Busy) + 1
    BY <1>2, <1>6, FS_AddElement
  <2>2. Writers' = Writers + 1
    BY <1>2, <1>6, <2>1 DEF Writers
  <2>3. sequence' = 2 * ended + Writers'
    BY <1>1, <1>2, <1>6, <2>2
  <2> QED  BY <1>3, <2>1, <2>3
<1>7. ASSUME sequence' = sequence + 1, Publishing' <=> Publishing, NEW c \in Collector,
             c \in Busy, Busy' = Busy \ {c}
      PROVE  CounterInv'
  <2>1. IsFiniteSet(Busy') /\ Cardinality(Busy') = Cardinality(Busy) - 1
    BY <1>2, <1>7, FS_RemoveElement
  <2>2. Writers' = Writers - 1
    BY <1>2, <1>7, <2>1 DEF Writers
  <2>3. ended + 1 \in Nat /\ sequence' = 2 * (ended + 1) + Writers'
    BY <1>1, <1>2, <1>7, <2>2
  <2> QED  BY <1>3, <2>1, <2>3
<1> QED  BY <1>4, <1>5, <1>6, <1>7 DEF CounterStep

-----------------------------------------------------------------------------
(***************************************************************************)
(* What a reader and a collector have found in the slot.  As long as the   *)
(* counter stays what it was when they began, and not two threads were     *)
(* writing then, nobody writes and all they have read is still there.      *)
(***************************************************************************)
ReaderInv(r) ==
  /\ reader[r].published <= Done
  /\ reader[r].at # "idle" => reader[r].status # "OK"
  /\ reader[r].at \in {"source", "age", "copy"} =>
       /\ reader[r].seq <= sequence
       /\ ~reader[r].clash /\ reader[r].seq = sequence =>
            /\ Quiet
            /\ reader[r].at # "source" => slot["source"] # 0
            /\ reader[r].at = "copy" =>
                 /\ ~OlderThan(MaxAge, reader[r].now, stamps[slot["timestamp"]])
                 /\ \A part \in Part \ reader[r].todo : reader[r].copy[part] = slot[part]
  /\ Accepted(r) /\ ~reader[r].clash =>
       /\ reader[r].copy["source"] # 0
       /\ reader[r].copy["components"] = reader[r].copy["timestamp"]
       /\ reader[r].copy["timestamp"] >= reader[r].published
       /\ reader[r].copy["timestamp"] <= owner.count
       /\ ~OlderThan(MaxAge, reader[r].now, stamps[reader[r].copy["timestamp"]])

CollectorInv(c) ==
  collector[c].at \in {"source", "time", "claim"} =>
    /\ collector[c].seq <= sequence
    /\ ~collector[c].clash /\ collector[c].seq = sequence =>
         /\ Quiet
         /\ collector[c].at # "source" => collector[c].source = slot["source"]
         /\ collector[c].at = "claim" => collector[c].time = stamps[slot["timestamp"]]

SInv ==
  /\ TypeOK /\ OwnerInv /\ CounterInv
  /\ \A r \in Reader : ReaderInv(r)
  /\ \A c \in Collector : CollectorInv(c)

(***************************************************************************)
(* What a step leaves as it is: the slot while nobody writes it and the    *)
(* counter stands still, and the stamps of the publications so far.        *)
(***************************************************************************)
SlotStep ==
  /\ sequence' >= sequence
  /\ Quiet /\ sequence' = sequence => Quiet' /\ slot' = slot
  /\ Done' >= Done /\ Done' \in Nat /\ owner'.count >= owner.count
  /\ owner'.count \in Nat
  /\ \A n \in 0 .. owner.count : stamps'[n] = stamps[n]

\* While nobody writes, all data in the slot is of the last publication.
LEMMA OwnerTypes ==
  ASSUME TypeOK, OwnerInv
  PROVE  /\ sequence \in Nat /\ owner.count \in Nat /\ Done \in Nat
         /\ \A part \in Data : slot[part] \in Done .. owner.count
         /\ \A part \in Part : slot[part] \in Nat
         /\ Quiet => \A part \in Data : slot[part] = Done
<1>1. sequence \in Nat /\ owner.count \in Nat /\ \A part \in Part : slot[part] \in Nat
  BY ZeroTypes DEF TypeOK, Field
<1>2. owner.at \in {"idle", "open", "write"}
  BY DEF TypeOK
<1> QED  BY <1>1, <1>2 DEF OwnerInv, Done, Quiet, Publishing, Data, Part

\* Nobody changes the slot without the counter having moved, or moving.
LEMMA SlotSteps ==
  ASSUME TypeOK, OwnerInv, [Next]_vars
  PROVE  SlotStep
<1>1. /\ sequence' >= sequence
      /\ Quiet /\ sequence' = sequence => Quiet'
  <2>1. CounterStep /\ sequence \in Nat
    BY CounterSteps, OwnerTypes
  <2> QED  BY <2>1 DEF CounterStep, Quiet
<1>3. ASSUME UNCHANGED <<stamps, owner>>, Quiet /\ sequence' = sequence => slot' = slot
      PROVE  SlotStep
  BY <1>1, <1>3, OwnerTypes DEF SlotStep, Done
<1>4. CASE PublishBegin
  <2>1. /\ owner.at = "idle" /\ owner'.at = "open" /\ owner'.count = owner.count + 1
        /\ stamps' = [stamps EXCEPT ![owner.count + 1] = clock] /\ slot' = slot
        /\ owner.count \in Nat /\ owner.count <= MaxPublish
        /\ stamps \in [Publication -> 0 .. MaxTime]
    BY <1>4, OwnerTypes DEF PublishBegin, TypeOK, Publication
  <2>2. \A n \in 0 .. owner.count : stamps'[n] = stamps[n]
    <3>1. \A n \in 0 .. owner.count : n \in Publication /\ n # owner.count + 1
      BY <2>1, FieldAssumption DEF Publication
    <3> QED  BY <2>1, <3>1
  <2> QED  BY <1>1, <2>1, <2>2 DEF SlotStep, Done
<1>5. CASE PublishOpen
  BY <1>1, <1>5, OwnerTypes DEF PublishOpen, SlotStep, Done, TypeOK
<1>6. CASE PublishClose
  <2>1. owner.at = "write" /\ owner'.at = "idle" /\ owner'.count = owner.count
        /\ stamps' = stamps /\ slot' = slot
    BY <1>6 DEF PublishClose, Publishing, TypeOK
  <2> QED  BY <1>1, <2>1, OwnerTypes DEF SlotStep, Done
<1>7. ASSUME NEW p \in Part, PublishPart(p)
      PROVE  SlotStep
  <2>1. owner.at = "write" /\ owner'.at = owner.at /\ owner'.count = owner.count
        /\ stamps' = stamps /\ ~Quiet
    BY <1>7 DEF PublishPart, Publishing, TypeOK, Quiet
  <2> QED  BY <1>1, <2>1, OwnerTypes DEF SlotStep, Done
<1>8. ASSUME NEW c \in Collector, CollectInvalidate(c)
      PROVE  SlotStep
  <2>1. ~Quiet
    BY <1>8 DEF CollectInvalidate, Quiet, Busy, Collecting
  <2> QED  BY <1>3, <1>8, <2>1 DEF CollectInvalidate
<1>9. ASSUME NEW c \in Collector, CollectCall(c) \/ CollectStep(c), ~CollectInvalidate(c)
      PROVE  SlotStep
  BY <1>3, <1>9 DEF CollectStep, CollectCall, CollectBegin, CollectSource, CollectTime,
              CollectClaim, CollectRelease
<1>10. ASSUME NEW r \in Reader, Sample(r)
       PROVE  SlotStep
  BY <1>3, <1>10 DEF Sample, SampleCall, SampleBegin, SampleSource, SampleAge, SamplePart,
                     SampleEnd
<1>11. CASE UNCHANGED vars \/ AdvanceTime
  BY <1>3, <1>11 DEF vars, AdvanceTime
<1> QED  BY <1>4, <1>5, <1>6, <1>7, <1>8, <1>9, <1>10, <1>11 DEF Next, Publish

\* What others do keeps what a reader, or a collector, knows.
LEMMA ReaderKept ==
  ASSUME TypeOK, OwnerInv, SlotStep, sequence' \in Nat, NEW r \in Reader, ReaderInv(r),
         reader'[r] = reader[r]
  PROVE  ReaderInv(r)'
<1>1. /\ reader[r].published \in Nat /\ reader[r].seq \in Nat
      /\ reader[r].copy["timestamp"] \in Nat
  <2>1. reader[r] \in Sampling
    BY DEF TypeOK, Sampling
  <2>2. reader[r].published \in Publication /\ reader[r].copy \in Field
    BY <2>1 DEF Sampling
  <2> QED  BY <2>1, <2>2, ZeroTypes DEF Sampling, Field, Part
<1>2. /\ sequence \in Nat /\ owner.count \in Nat /\ owner'.count \in Int /\ Done \in Nat
      /\ slot["timestamp"] \in 0 .. owner.count
  BY OwnerTypes DEF Data, SlotStep
<1>3. reader'[r].published <= Done'
  BY <1>1, <1>2 DEF ReaderInv, SlotStep
<1>4. ASSUME reader[r].at \in {"source", "age", "copy"}
      PROVE  /\ reader[r].seq <= sequence'
             /\ ~reader[r].clash /\ reader[r].seq = sequence' =>
                  Quiet /\ sequence' = sequence /\ reader[r].seq = sequence
  BY <1>1, <1>2, <1>4 DEF ReaderInv, SlotStep
<1>5. Quiet /\ sequence' = sequence
        => Quiet' /\ slot' = slot /\ stamps'[slot["timestamp"]] = stamps[slot["timestamp"]]
  BY <1>2 DEF SlotStep
<1>6. reader[r].copy["timestamp"] <= owner.count
        => /\ stamps'[reader[r].copy["timestamp"]] = stamps[reader[r].copy["timestamp"]]
           /\ reader[r].copy["timestamp"] <= owner'.count
  BY <1>1, <1>2 DEF SlotStep
<1> QED  BY <1>3, <1>4, <1>5, <1>6 DEF ReaderInv, Accepted

LEMMA CollectorKept ==
  ASSUME TypeOK, OwnerInv, SlotStep, sequence' \in Nat, NEW c \in Collector,
         CollectorInv(c), collector'[c] = collector[c]
  PROVE  CollectorInv(c)'
<1>1. collector[c].seq \in Nat
  BY DEF TypeOK
<1>2. sequence \in Nat /\ owner.count \in Nat /\ slot["timestamp"] \in 0 .. owner.count
  BY OwnerTypes DEF Data
<1>3. ASSUME collector[c].at \in {"source", "time", "claim"}
      PROVE  /\ collector[c].seq <= sequence'
             /\ ~collector[c].clash /\ collector[c].seq = sequence' =>
                  Quiet /\ sequence' = sequence /\ collector[c].seq = sequence
  BY <1>1, <1>2, <1>3 DEF CollectorInv, SlotStep
<1>4. Quiet /\ sequence' = sequence
        => Quiet' /\ slot' = slot /\ stamps'[slot["timestamp"]] = stamps[slot["timestamp"]]
  BY <1>2 DEF SlotStep
<1> QED  BY <1>3, <1>4 DEF CollectorInv

-----------------------------------------------------------------------------
(***************************************************************************)
(* The readers' own steps.                                                 *)
(***************************************************************************)
LEMMA RestartedReader ==
  ASSUME NEW r \in Reader, reader'[r].at \in {"idle", "begin"}, reader'[r].status # "OK",
         reader'[r].published <= Done'
  PROVE  ReaderInv(r)'
BY DEF ReaderInv, Accepted

\* An attempt that fails returns nothing.
LEMMA Restarts ==
  ASSUME TypeOK, OwnerInv, NEW r \in Reader, ReaderInv(r), reader[r].at # "idle"
  PROVE  /\ \A status \in Status \ {"OK"} :
              /\ Refused(status).at = "idle" /\ Refused(status).status # "OK"
              /\ Refused(status).published <= Done
         /\ Attempt(r).at \in {"idle", "begin"} /\ Attempt(r).status # "OK"
         /\ Attempt(r).published <= Done
<1>1. \A status \in Status \ {"OK"} :
        /\ Refused(status).at = "idle" /\ Refused(status).status # "OK"
        /\ Refused(status).published <= Done
  BY OwnerTypes DEF Refused, NoSample
<1>2. reader[r] \in Sampling
  BY DEF TypeOK, Sampling
<1>3. CASE reader[r].retries < MaxRetries
  BY <1>1, <1>2, <1>3 DEF Attempt, Sampling, ReaderInv
<1>4. CASE ~(reader[r].retries < MaxRetries)
  BY <1>1, <1>4 DEF Attempt, Status
<1> QED  BY <1>1, <1>3, <1>4

\* What a reader does itself: the steps of one attempt, in order.
LEMMA ReaderStep ==
  ASSUME SInv, NEW r \in Reader, Sample(r)
  PROVE  ReaderInv(r)'
<1>1. /\ UNCHANGED <<clock, sequence, slot, stamps, owner, collector>>
      /\ TypeOK /\ OwnerInv /\ CounterInv /\ ReaderInv(r)
  BY DEF SInv, Sample, SampleCall, SampleBegin, SampleSource, SampleAge, SamplePart, SampleEnd
<1>2. (Quiet' <=> Quiet) /\ Done' = Done
  BY <1>1 DEF Quiet, Publishing, Busy, Collecting, Done
<1>3. reader[r] \in Sampling /\ DOMAIN reader = Reader
  BY DEF SInv, TypeOK, Sampling
<1>4. sequence \in Nat /\ Done \in Nat
  BY <1>1, OwnerTypes
<1>5. CASE SampleCall(r)
  <2>1. /\ reader'[r].at = "begin" /\ reader'[r].status = "NONE"
        /\ reader'[r].published = Done
    BY <1>3, <1>5 DEF SampleCall, NoSample, Done
  <2> QED  BY <1>2, <1>4, <2>1, RestartedReader
<1>6. CASE SampleBegin(r)
  <2>0. reader[r].at # "idle"
    BY <1>6 DEF SampleBegin
  <2>1. CASE Even
    <3>1. reader'[r] = [reader[r] EXCEPT !.at = "source", !.seq = sequence, !.clash = Clashing]
      BY <1>3, <1>6, <2>1 DEF SampleBegin
    <3>2. /\ reader'[r].at = "source" /\ reader'[r].seq = sequence
          /\ reader'[r].clash = Clashing /\ reader'[r].status = reader[r].status
          /\ reader'[r].published = reader[r].published
      BY <1>3, <3>1 DEF Sampling
    <3>3. ~Clashing => Quiet
      BY <1>1, <2>1, EvenQuiet
    <3> QED  BY <1>1, <1>2, <1>4, <2>0, <3>2, <3>3 DEF ReaderInv, Accepted
  <2>2. CASE ~Even
    <3>1. reader'[r] = Attempt(r)
      BY <1>3, <1>6, <2>2 DEF SampleBegin
    <3> QED  BY <1>1, <1>2, <2>0, <3>1, Restarts, RestartedReader
  <2> QED  BY <2>1, <2>2
<1>7. CASE SampleSource(r)
  <2>0. reader[r].at = "source"
    BY <1>7 DEF SampleSource
  <2>1. CASE slot["source"] = 0
    <3>1. reader'[r] = Refused("NOT_FOUND")
      BY <1>3, <1>7, <2>1 DEF SampleSource
    <3> QED  BY <1>1, <1>2, <2>0, <3>1, Restarts, RestartedReader DEF Status
  <2>2. CASE slot["source"] # 0
    <3>1. reader'[r] = [reader[r] EXCEPT !.at = "age"]
      BY <1>3, <1>7, <2>2 DEF SampleSource
    <3>2. /\ reader'[r].at = "age" /\ reader'[r].seq = reader[r].seq
          /\ reader'[r].clash = reader[r].clash /\ reader'[r].status = reader[r].status
          /\ reader'[r].published = reader[r].published
      BY <1>3, <3>1 DEF Sampling
    <3> QED  BY <1>1, <1>2, <2>0, <2>2, <3>2 DEF ReaderInv, Accepted
  <2> QED  BY <2>1, <2>2
<1>8. CASE SampleAge(r)
  <2>0. reader[r].at = "age"
    BY <1>8 DEF SampleAge
  <2>1. CASE OlderThan(MaxAge, reader[r].now, stamps[slot["timestamp"]])
    <3>1. reader'[r] = Refused("EXPIRED")
      BY <1>3, <1>8, <2>1 DEF SampleAge
    <3> QED  BY <1>1, <1>2, <2>0, <3>1, Restarts, RestartedReader DEF Status
  <2>2. CASE ~OlderThan(MaxAge, reader[r].now, stamps[slot["timestamp"]])
    <3>1. reader'[r] = [reader[r] EXCEPT !.at = "copy", !.todo = Part]
      BY <1>3, <1>8, <2>2 DEF SampleAge
    <3>2. /\ reader'[r].at = "copy" /\ reader'[r].seq = reader[r].seq
          /\ reader'[r].clash = reader[r].clash /\ reader'[r].status = reader[r].status
          /\ reader'[r].published = reader[r].published /\ reader'[r].now = reader[r].now
          /\ reader'[r].todo = Part
      BY <1>3, <3>1 DEF Sampling
    <3> QED  BY <1>1, <1>2, <2>0, <2>2, <3>2 DEF ReaderInv, Accepted, OlderThan
  <2> QED  BY <2>1, <2>2
<1>9. ASSUME NEW p \in Part, SamplePart(r, p)
      PROVE  ReaderInv(r)'
  <2>1. reader[r].at = "copy"
    BY <1>9 DEF SamplePart
  <2>2. reader'[r] = [reader[r] EXCEPT !.copy = [@ EXCEPT ![p] = slot[p]], !.todo = @ \ {p}]
    BY <1>3, <1>9 DEF SamplePart, Sampling
  <2>3. /\ reader'[r].at = "copy" /\ reader'[r].seq = reader[r].seq
        /\ reader'[r].clash = reader[r].clash /\ reader'[r].status = reader[r].status
        /\ reader'[r].published = reader[r].published /\ reader'[r].now = reader[r].now
        /\ reader'[r].todo = reader[r].todo \ {p}
        /\ reader'[r].copy = [reader[r].copy EXCEPT ![p] = slot[p]]
    BY <1>3, <2>1, <2>2 DEF Sampling
  <2>4. \A part \in Part :
          reader'[r].copy[part] = IF part = p THEN slot[p] ELSE reader[r].copy[part]
    BY <1>3, <2>3 DEF Sampling, Field
  <2> QED  BY <1>1, <1>2, <2>1, <2>3, <2>4 DEF ReaderInv, Accepted, OlderThan
<1>10. CASE SampleEnd(r)
  <2>0. reader[r].at = "copy" /\ reader[r].todo = {}
    BY <1>10 DEF SampleEnd
  <2>1. CASE Unchanged(r)
    <3>1. reader'[r] = [reader[r] EXCEPT !.at = "idle", !.status = "OK", !.seq = 0,
                                         !.retries = 0]
      BY <1>3, <1>10, <2>1 DEF SampleEnd
    <3>2. /\ reader'[r].at = "idle" /\ reader'[r].clash = reader[r].clash
          /\ reader'[r].published = reader[r].published /\ reader'[r].now = reader[r].now
          /\ reader'[r].copy = reader[r].copy
      BY <1>3, <3>1 DEF Sampling
    <3>3. ASSUME ~reader[r].clash
          PROVE  /\ reader[r].copy["source"] # 0
                 /\ reader[r].copy["components"] = reader[r].copy["timestamp"]
                 /\ reader[r].copy["timestamp"] >= reader[r].published
                 /\ reader[r].copy["timestamp"] <= owner.count
                 /\ ~OlderThan(MaxAge, reader[r].now, stamps[reader[r].copy["timestamp"]])
      <4>1. /\ Quiet /\ slot["source"] # 0
            /\ ~OlderThan(MaxAge, reader[r].now, stamps[slot["timestamp"]])
            /\ \A part \in Part : reader[r].copy[part] = slot[part]
        BY <1>1, <2>0, <2>1, <3>3 DEF ReaderInv, Unchanged
      <4>2. /\ slot["components"] = Done /\ slot["timestamp"] = Done
            /\ Done <= owner.count /\ Done >= reader[r].published
        <5>1. reader[r].published \in Nat
          BY <1>3, ZeroTypes DEF Sampling
        <5> QED  BY <1>1, <1>4, <4>1, <5>1, OwnerTypes DEF Data, ReaderInv
      <4> QED  BY <4>1, <4>2 DEF Part
    <3> QED  BY <1>1, <1>2, <3>2, <3>3 DEF ReaderInv, OlderThan
  <2>2. CASE ~Unchanged(r)
    <3>1. reader'[r] = [Attempt(r) EXCEPT !.seq = 0, !.copy = Empty]
      BY <1>3, <1>10, <2>2 DEF SampleEnd
    <3>2. Attempt(r) \in Sampling
      BY <1>1, AttemptType
    <3>3. /\ reader'[r].at = Attempt(r).at /\ reader'[r].status = Attempt(r).status
          /\ reader'[r].published = Attempt(r).published
      BY <3>1, <3>2 DEF Sampling
    <3> QED  BY <1>1, <1>2, <2>0, <3>3, Restarts, RestartedReader
  <2> QED  BY <2>1, <2>2
<1> QED  BY <1>5, <1>6, <1>7, <1>8, <1>9, <1>10 DEF Sample

(***************************************************************************)
(* The collectors' own steps.                                              *)
(***************************************************************************)
LEMMA CollectorStep ==
  ASSUME SInv, NEW c \in Collector, CollectCall(c) \/ CollectStep(c)
  PROVE  CollectorInv(c)'
<1>1. TypeOK /\ OwnerInv /\ CounterInv /\ CollectorInv(c)
  BY DEF SInv
<1>2. collector[c] \in Gathering /\ DOMAIN collector = Collector /\ sequence \in Nat
  BY DEF SInv, TypeOK, Gathering
<1>3. ASSUME collector'[c].at \notin {"source", "time", "claim"}
      PROVE  CollectorInv(c)'
  BY <1>3 DEF CollectorInv
<1>4. ASSUME UNCHANGED <<sequence, slot, stamps, owner>>, Busy' = Busy
      PROVE  Quiet' <=> Quiet
  BY <1>4 DEF Quiet, Publishing
<1>5. ASSUME NEW t, collector' = [collector EXCEPT ![c] = t],
             t.at \notin {"invalidate", "release"}, ~Collecting(c)
      PROVE  Busy' = Busy
  BY <1>1, <1>5, BusyStep DEF Busy
<1>6. CASE CollectBegin(c)
  <2>1. CASE Even
    <3> DEFINE t == [collector[c] EXCEPT !.at = "source", !.seq = sequence, !.clash = Clashing]
    <3>1. /\ collector' = [collector EXCEPT ![c] = t]
          /\ UNCHANGED <<sequence, slot, stamps, owner>> /\ ~Collecting(c)
      BY <1>6, <2>1 DEF CollectBegin, Collecting
    <3>2. t.at = "source" /\ t.seq = sequence /\ t.clash = Clashing
      BY <1>2 DEF Gathering
    <3> HIDE DEF t
    <3>3. ~Clashing => Quiet
      BY <1>1, <2>1, EvenQuiet
    <3>4. (Quiet' <=> Quiet) /\ collector'[c] = t
      BY <1>2, <1>4, <1>5, <3>1, <3>2
    <3> QED  BY <1>2, <3>1, <3>2, <3>3, <3>4 DEF CollectorInv
  <2>2. CASE ~Even
    <3>1. collector'[c] = NoCollection
      BY <1>2, <1>6, <2>2 DEF CollectBegin
    <3> QED  BY <1>3, <3>1 DEF NoCollection
  <2> QED  BY <2>1, <2>2
<1>7. CASE CollectSource(c)
  <2> DEFINE t == [collector[c] EXCEPT !.at = "time", !.source = slot["source"]]
  <2>1. /\ collector' = [collector EXCEPT ![c] = t] /\ collector[c].at = "source"
        /\ UNCHANGED <<sequence, slot, stamps, owner>> /\ ~Collecting(c)
    BY <1>2, <1>7 DEF CollectSource, Gathering, Collecting
  <2>2. /\ t.at = "time" /\ t.seq = collector[c].seq /\ t.clash = collector[c].clash
        /\ t.source = slot["source"]
    BY <1>2 DEF Gathering
  <2> HIDE DEF t
  <2>3. (Quiet' <=> Quiet) /\ collector'[c] = t
    BY <1>2, <1>4, <1>5, <2>1, <2>2
  <2> QED  BY <1>1, <2>1, <2>2, <2>3 DEF CollectorInv
<1>8. CASE CollectTime(c)
  <2> DEFINE t == [collector[c] EXCEPT !.at = "claim", !.time = stamps[slot["timestamp"]]]
  <2>1. /\ collector' = [collector EXCEPT ![c] = t] /\ collector[c].at = "time"
        /\ UNCHANGED <<sequence, slot, stamps, owner>> /\ ~Collecting(c)
    BY <1>2, <1>8 DEF CollectTime, Gathering, Collecting
  <2>2. /\ t.at = "claim" /\ t.seq = collector[c].seq /\ t.clash = collector[c].clash
        /\ t.source = collector[c].source /\ t.time = stamps[slot["timestamp"]]
    BY <1>2 DEF Gathering
  <2> HIDE DEF t
  <2>3. (Quiet' <=> Quiet) /\ collector'[c] = t
    BY <1>2, <1>4, <1>5, <2>1, <2>2
  <2> QED  BY <1>1, <2>1, <2>2, <2>3 DEF CollectorInv
<1>9. CASE CollectCall(c) \/ CollectClaim(c) \/ CollectInvalidate(c) \/ CollectRelease(c)
  <2>1. collector'[c].at \in {"begin", "invalidate", "idle", "release"}
    <3>1. CASE CollectCall(c)
      BY <1>2, <3>1 DEF CollectCall, NoCollection
    <3>2. CASE CollectClaim(c)
      BY <1>2, <3>2 DEF CollectClaim, NoCollection
    <3>3. CASE CollectInvalidate(c)
      BY <1>2, <3>3 DEF CollectInvalidate, Gathering
    <3>4. CASE CollectRelease(c)
      BY <1>2, <3>4 DEF CollectRelease, Gathering
    <3> QED  BY <1>9, <3>1, <3>2, <3>3, <3>4
  <2> QED  BY <1>3, <2>1
<1> QED  BY <1>6, <1>7, <1>8, <1>9 DEF CollectStep

LEMMA InitSInv == Init => SInv
<1> SUFFICES ASSUME Init PROVE SInv
  OBVIOUS
<1>1. TypeOK /\ OwnerInv
  BY InitTypes, InitOwner
<1>2. CounterInv
  <2>1. Busy = {} /\ ~Publishing
    BY DEF Init, Busy, Collecting, NoCollection, Publishing
  <2>2. IsFiniteSet(Busy) /\ Writers = 0 /\ sequence = 2 * 0 + 0
    BY <2>1, FS_EmptySet DEF Writers, Init
  <2> QED  BY <2>2 DEF CounterInv
<1>3. \A r \in Reader : ReaderInv(r)
  BY DEF Init, ReaderInv, NoSample, Accepted, Done
<1>4. \A c \in Collector : CollectorInv(c)
  BY DEF Init, CollectorInv, NoCollection
<1> QED  BY <1>1, <1>2, <1>3, <1>4 DEF SInv

\* Only a thread's own steps change what it holds.
LEMMA ReaderMoves ==
  ASSUME TypeOK, [Next]_vars, NEW r \in Reader, reader'[r] # reader[r]
  PROVE  Sample(r)
<1>1. ASSUME NEW q \in Reader, Sample(q), q # r PROVE reader'[r] = reader[r]
  BY <1>1 DEF Sample, SampleCall, SampleBegin, SampleSource, SampleAge, SamplePart,
              SampleEnd, TypeOK
<1>2. reader' = reader \/ \E q \in Reader : Sample(q)
  BY DEF Next, vars, AdvanceTime, Publish, PublishBegin, PublishOpen, PublishClose,
         PublishPart, CollectStep, CollectCall, CollectBegin, CollectSource,
         CollectTime, CollectClaim, CollectInvalidate, CollectRelease
<1> QED  BY <1>1, <1>2

LEMMA CollectorMoves ==
  ASSUME TypeOK, [Next]_vars, NEW c \in Collector, collector'[c] # collector[c]
  PROVE  CollectCall(c) \/ CollectStep(c)
<1>1. ASSUME NEW d \in Collector, CollectCall(d) \/ CollectStep(d), d # c
      PROVE  collector'[c] = collector[c]
  BY <1>1 DEF CollectStep, CollectCall, CollectBegin, CollectSource, CollectTime,
              CollectClaim, CollectInvalidate, CollectRelease, TypeOK
<1>2. \/ collector' = collector
      \/ \E d \in Collector : CollectCall(d) \/ CollectStep(d)
  BY DEF Next, vars, AdvanceTime, Publish, PublishBegin, PublishOpen, PublishClose,
         PublishPart, Sample, SampleCall, SampleBegin, SampleSource, SampleAge,
         SamplePart, SampleEnd
<1> QED  BY <1>1, <1>2

LEMMA NextSInv ==
  ASSUME SInv, [Next]_vars
  PROVE  SInv'
<1>1. TypeOK' /\ OwnerInv' /\ CounterInv' /\ SlotStep /\ sequence' \in Nat
  <2>1. TypeOK' /\ OwnerInv' /\ SlotStep
    BY NextTypes, OwnerStep, SlotSteps DEF SInv
  <2>2. CounterInv'
    BY CounterSteps, CounterKept DEF SInv
  <2> QED  BY <2>1, <2>2 DEF TypeOK
<1>2. ASSUME NEW r \in Reader PROVE ReaderInv(r)'
  BY <1>1, ReaderKept, ReaderMoves, ReaderStep DEF SInv
<1>3. ASSUME NEW c \in Collector PROVE CollectorInv(c)'
  BY <1>1, CollectorKept, CollectorMoves, CollectorStep DEF SInv
<1> QED  BY <1>1, <1>2, <1>3 DEF SInv

LEMMA SlotInvariance == Spec => []SInv
<1>1. Spec => Init /\ [][Next]_vars
  BY DEF Spec
<1>2. SInv /\ [Next]_vars => SInv'
  BY NextSInv
<1> QED  BY <1>1, <1>2, InitSInv, PTL

(***************************************************************************)
(* TypeOK: every variable of a slot and its threads holds values of its    *)
(* type, for any number of readers and collectors.                         *)
(***************************************************************************)
THEOREM SlotTypes == Spec => []TypeOK
<1>1. SInv => TypeOK
  BY DEF SInv
<1> QED  BY <1>1, SlotInvariance, PTL

(***************************************************************************)
(* WholeUnlessClash: what ekk_field_sample_consistent accepts is one       *)
(* publication, all of it, and no older than what the slot held when the   *)
(* call began, unless two threads were writing when the attempt began.     *)
(***************************************************************************)
THEOREM SamplesWhole == Spec => []WholeUnlessClash
<1>1. SInv => WholeUnlessClash
  BY DEF SInv, ReaderInv, WholeUnlessClash, Torn
<1> QED  BY <1>1, SlotInvariance, PTL

(***************************************************************************)
(* AcceptedIsFresh: the field that is accepted is the one whose age was    *)
(* checked, at most MaxAge and not from the future.                        *)
(***************************************************************************)
THEOREM SamplesFresh == Spec => []AcceptedIsFresh
<1>1. SInv => AcceptedIsFresh
  <2> SUFFICES ASSUME SInv, NEW r \in Reader, Accepted(r), ~reader[r].clash
               PROVE  reader[r].now - stamps[reader[r].copy["timestamp"]] \in 0 .. MaxAge
    BY DEF AcceptedIsFresh
  <2>1. ~OlderThan(MaxAge, reader[r].now, stamps[reader[r].copy["timestamp"]])
    BY DEF SInv, ReaderInv
  <2>2. reader[r] \in Sampling /\ stamps \in [Publication -> 0 .. MaxTime]
    BY DEF SInv, TypeOK, Sampling
  <2>3. reader[r].now \in 0 .. MaxTime /\ reader[r].copy["timestamp"] \in Publication
    BY <2>2 DEF Sampling, Field, Part
  <2> QED  BY <2>1, <2>2, <2>3, FieldAssumption DEF OlderThan
<1> QED  BY <1>1, SlotInvariance, PTL

(***************************************************************************)
(* ClaimsWhatItRead: ekk_field_gc claims a slot only while nobody writes   *)
(* it and it still holds the source and the stamp that were found too old, *)
(* unless two threads were writing when it came.                           *)
(***************************************************************************)
LEMMA ClaimStep ==
  ASSUME SInv, [Next]_vars, NEW c \in Collector, Claims(c), ~collector[c].clash
  PROVE  /\ InProgress = {}
         /\ slot["source"] = collector[c].source
         /\ stamps[slot["timestamp"]] = collector[c].time
<1>1. CollectClaim(c) /\ Claimable(c)
  <2>1. CollectCall(c) \/ CollectStep(c)
    BY CollectorMoves DEF Claims, SInv
  <2>2. CollectClaim(c)
    BY <2>1 DEF Claims, CollectStep, CollectCall, CollectBegin, CollectSource, CollectTime,
                CollectInvalidate, CollectRelease
  <2>3. ~Claimable(c) => collector'[c].at = "idle"
    BY <2>2 DEF CollectClaim, NoCollection, SInv, TypeOK
  <2> QED  BY <2>2, <2>3 DEF Claims
<1>2. Quiet /\ collector[c].source = slot["source"]
      /\ collector[c].time = stamps[slot["timestamp"]]
  BY <1>1 DEF SInv, CollectorInv, CollectClaim, Claimable
<1> QED  BY <1>2 DEF Quiet, Busy, InProgress

(***************************************************************************)
(* A collector's compare-and-swap succeeds only while the slot holds the   *)
(* very publication the collector found to be too old and nobody writes    *)
(* it, unless two threads wrote when it read the counter (ekk_field_gc).   *)
(***************************************************************************)
THEOREM ClaimsAreCurrent == Spec => ClaimsWhatItRead
<1>1. SInv /\ [Next]_vars
        => [\A c \in Collector : Claims(c) /\ ~collector[c].clash =>
              /\ InProgress = {}
              /\ slot["source"] = collector[c].source
              /\ stamps[slot["timestamp"]] = collector[c].time]_vars
  BY ClaimStep
<1>2. Spec => Init /\ [][Next]_vars
  BY DEF Spec
<1> QED  BY <1>1, <1>2, SlotInvariance, PTL DEF ClaimsWhatItRead

(***************************************************************************)
(* The counter is odd only while somebody is writing: however publications *)
(* and collections overlap, once all of them have made their second        *)
(* increment the slot can be sampled (ekk_field_publish_at, ekk_field_gc). *)
(***************************************************************************)
THEOREM ReleasedIsEven == Spec => [](Quiet => Even)
<1>1. ASSUME SInv, Quiet
      PROVE  Even
  <2>1. PICK ended \in Nat : sequence = 2 * ended + Writers
    BY <1>1 DEF SInv, CounterInv
  <2>2. Writers = 0
    BY <1>1, FS_EmptySet DEF Writers, Quiet
  <2> QED  BY <2>1, <2>2 DEF Even
<1>2. SInv => (Quiet => Even)
  BY <1>1
<1> QED  BY <1>2, SlotInvariance, PTL
=============================================================================
