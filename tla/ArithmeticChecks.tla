-------------------------- MODULE ArithmeticChecks --------------------------
(***************************************************************************)
(* FieldArithmetic against reference definitions, evaluated by TLC on the  *)
(* values below.  FieldProofs has what holds of all values; the roots and  *)
(* the distance of the decay from the exponential are only checked here.   *)
(***************************************************************************)
EXTENDS FieldArithmetic

Samples == {MinInt, MinInt + 1, -One - 1, -One, -Half, -1, 0, 1, 3, Half, One - 1,
            One, 3 * One + 7, MaxInt - 1, MaxInt}
Shares == {0, 1, 3, Half, One - 1, One}
Shorts == {-Half, -Half + 1, -1, 0, 1, Half - 1}

(***************************************************************************)
(* Results are the exact ones, rounded down (Mul) or to zero (Div), unless *)
(* they leave the range.                                                   *)
(***************************************************************************)
ASSUME MulExact ==
  \A a, b \in Samples :
    LET r == Mul(a, b)
    IN  \/ r * One <= a * b /\ a * b < (r + 1) * One
        \/ r = MaxInt /\ a * b >= MaxInt * One
        \/ r = MinInt /\ a * b <= MinInt * One

ASSUME DivExact ==
  \A a \in Samples, b \in Samples \ {0} :
    LET r == Div(a, b)
    IN  \/ /\ Magnitude(r * b) <= Magnitude(a * One)
           /\ Magnitude(a * One) - Magnitude(r * b) < Magnitude(b)
           /\ r # 0 => (r > 0 <=> (a > 0 <=> b > 0))
        \/ r \in {MinInt, MaxInt} /\ Magnitude(a * One) > Magnitude(r * b)

ASSUME DivByZero == \A a \in Samples : Div(a, 0) \in {MinInt, MaxInt}

(***************************************************************************)
(* Numbers survive a conversion to Q15 and back but for one digit.         *)
(***************************************************************************)
ASSUME ShortsExact ==
  /\ \A q \in Shorts : ToShort(FromShort(q)) = q
  /\ \A f \in Samples : Magnitude(f) < One => f - FromShort(ToShort(f)) \in {0, 1}
  /\ \A a, b \in Shorts :
       /\ AddShort(a, b) - (a + b) \in {0} \/ Magnitude(a + b) >= Half
       /\ SubShort(a, b) = AddShort(a, -b)
       /\ MulShort(a, b) = Half - 1 \/ ToShort(Mul(FromShort(a), FromShort(b))) = MulShort(a, b)

(***************************************************************************)
(* The decay is within 7 percent of one of the exponential, at quarters of *)
(* the time constant: thousandths of exp(-k/4).                            *)
(***************************************************************************)
Exponential == <<779, 607, 472, 368, 287, 223, 174, 135, 105, 82, 64, 50, 39, 30, 24,
                 18, 14, 11, 9, 7>>
ASSUME DecayClose ==
  \A k \in DOMAIN Exponential :
    Magnitude(ExpDecay(k, 4) * 1000 - Exponential[k] * One) <= 70 * One

ASSUME DecayFalls ==
  \A tau \in 1 .. 20 : \A e \in 0 .. 120 : ExpDecay(e + 1, tau) <= ExpDecay(e, tau)

(***************************************************************************)
(* Sixteen steps suffice for isqrt here ...                                *)
(***************************************************************************)
ASSUME IsqrtExact ==
  \A n \in 0 .. MaxInt - 1 : LET r == Isqrt(n) IN r * r <= n /\ n < (r + 1) * (r + 1)

(***************************************************************************)
(* ... but not for 32 bits: from 47416995 on results are too large, up to  *)
(* an eighth, although they never fall.  Points more than 46340 apart have *)
(* the squared distance INT32_MAX, whose root wraps around to a negative   *)
(* number: the farthest modules come first in the order of distances.      *)
(***************************************************************************)
Wide == INSTANCE FixedPoint WITH
  RootOne <- 256, MaxInt <- 2147483647, LongMax <- 2147483647, Normalize <- 100000000

ASSUME IsqrtTooShort ==
  /\ Wide!Isqrt(47416994) = 6885 /\ Wide!Isqrt(47416995) = 6886
  /\ Wide!Isqrt(2147483646) = 52162
  /\ Wide!Isqrt(2147483647) < 0

(***************************************************************************)
(* ekk_fixed_sqrt is exact for the squares of numbers up to 50; eight      *)
(* steps are too few for large ones.                                       *)
(***************************************************************************)
ASSUME SqrtOfSquares ==
  /\ \A k \in 1 .. 50 : Wide!Sqrt(k * k * Wide!One) = k * Wide!One
  /\ Wide!Sqrt(100 * 100 * Wide!One) > 101 * Wide!One

(***************************************************************************)
(* The clock counts the microseconds between two readings.                 *)
(***************************************************************************)
Readings == [sec : {4, 5}, nsec : {0, 1, 999, 1000, 400000000, 999999999}]
Elapsed(now, start) == (now.sec - start.sec) * NsPerSec + now.nsec - start.nsec
ASSUME ClockExact ==
  \A now, start \in Readings :
    Elapsed(now, start) >= 0 => TimeUs(0, now, start) = Elapsed(now, start) \div NsPerUs

(***************************************************************************)
(* The aggregate is the mean of the fields that were read, weighted by     *)
(* health and distance, but for the rounding of a product for each field   *)
(* and of the quotient; it is 0 when none was read.                        *)
(***************************************************************************)
Entries == [health : {"ALIVE", "SUSPECT", "DEAD"}, distance : {0, 1, 40}, sampled : BOOLEAN,
            field : [components : [Component -> {MinInt, -3, MaxInt}], timestamp : {5}]]
ASSUME AggregateIsMean ==
  \A m, n \in Entries :
    LET list == <<m, n>>
        weight(i) == IF i \in Valid(list) THEN Weight(list[i]) ELSE 0
        total == weight(1) + weight(2)
    IN  \A c \in Component :
          LET r == Aggregate(list).components[c]
              sum == m.field.components[c] * weight(1) + n.field.components[c] * weight(2)
          IN  IF total = 0 THEN r = 0 ELSE Magnitude(r * total - sum) < total + 2 * One

(***************************************************************************)
(* Weights are shares of one for all near neighbours.  At the next         *)
(* distance the sum of 32 bits wraps: the weight is negative, and a field  *)
(* that was read counts for nothing.  The largest distance, which unknown  *)
(* metrics yield, weighs more than none, and one of those between is       *)
(* divided by zero.                                                        *)
(***************************************************************************)
ASSUME WeightOverflows ==
  LET at(d) == [health |-> "ALIVE", distance |-> d, sampled |-> TRUE,
                field |-> [components |-> [c \in Component |-> One], timestamp |-> 5]]
      far == (MaxInt - One) \div RootOne
  IN  /\ \A d \in 0 .. far : Near(at(d)) /\ Weight(at(d)) \in 0 .. One
      /\ ~Near(at(far + 1)) /\ Weight(at(far + 1)) < 0
      /\ \A c \in Component : Aggregate(<<at(far + 1)>>).components[c] = 0
      /\ Weight(at(MaxInt)) > One
      /\ \E d \in far .. MaxInt : Weight(at(d)) = MaxInt
=============================================================================
