----------------------------- MODULE FixedPoint -----------------------------
(***************************************************************************)
(* Arithmetic of the runtime on machine words: fixed point numbers         *)
(* (ekk_types.c), distances (ekk_topology.c), the slack of deadlines       *)
(* (ekk_module.c) and the clock (ekk_hal_posix.c).                         *)
(*                                                                         *)
(* Q16.16 is the case One = 2^16, MaxInt = 2^31 - 1.  Where the code        *)
(* computes with 64 bits no result reaches 2^63, and the integers stand    *)
(* for them.  Sums of 32 bits are shown not to overflow (FieldProofs), or  *)
(* Wrapped where they can.                                                 *)
(***************************************************************************)
EXTENDS Integers

CONSTANTS
  RootOne,         \* 2^8
  MaxInt,          \* INT32_MAX
  LongMax,         \* UINT64_MAX
  Normalize        \* EKK_SLACK_NORMALIZE_US

One == RootOne * RootOne             \* EKK_FIXED_ONE
MinInt == -MaxInt - 1                \* INT32_MIN
Word == MinInt .. MaxInt
Half == One \div 2                   \* EKK_FIXED_HALF, and 1 + EKK_Q15_ONE
Short == -Half .. Half - 1           \* ekk_q15_t

\* A word ends at a whole number of ones, past the 19 of a decay's divisor.
ASSUME FixedPointAssumption ==
  /\ RootOne \in Nat \ {0} /\ One % 2 = 0
  /\ MaxInt \in Nat /\ (MaxInt + 1) % One = 0 /\ MaxInt >= 20 * One
  /\ LongMax \in Nat
  /\ Normalize \in Nat \ {0}

(***************************************************************************)
(* Clamping, and division as C has it: towards zero.                       *)
(***************************************************************************)
Clamped(x, low, high) == IF x > high THEN high ELSE IF x < low THEN low ELSE x
Saturated(x) == Clamped(x, MinInt, MaxInt)

\* What 32 bits keep of an integer.
Wrapped(x) == ((x - MinInt) % (2 * (MaxInt + 1))) + MinInt

Magnitude(x) == IF x >= 0 THEN x ELSE -x
Quotient(a, b) ==
  LET q == Magnitude(a) \div Magnitude(b)
  IN  IF (a >= 0) = (b >= 0) THEN q ELSE -q
-----------------------------------------------------------------------------
(***************************************************************************)
(* ekk_types.c.  A shift to the right rounds down, a division to zero.     *)
(***************************************************************************)
Mul(a, b) == Saturated((a * b) \div One)

Div(a, b) ==
  IF b = 0 THEN IF a >= 0 THEN MaxInt ELSE MinInt
  ELSE Saturated(Quotient(a * One, b))

Lerp(a, b, t) ==
  IF t <= 0 THEN a ELSE IF t >= One THEN b ELSE a + ((b - a) * t) \div One

Abs(x) == IF x = MinInt THEN MaxInt ELSE Magnitude(x)

(***************************************************************************)
(* exp(-elapsed/tau) as 1 / (1 + x + x^2/2), and 0 from five tau on or     *)
(* where the code would overflow.                                          *)
(***************************************************************************)
Divisor(x) == One + x + Mul(x, x) \div 2

ExpDecay(elapsed, tau) ==
  IF tau = 0 THEN 0
  ELSE IF elapsed = 0 THEN One
  ELSE IF tau > LongMax \div 5 \/ elapsed >= tau * 5 \/ elapsed > LongMax \div One THEN 0
  ELSE LET x == (elapsed * One) \div tau
       IN  IF x > MaxInt THEN 0 ELSE Div(One, Divisor(x))

(***************************************************************************)
(* Eight steps of Newton's method from a 256th on.  The result has the     *)
(* square root of the integer in its upper digits.                         *)
(***************************************************************************)
Sqrt(x) ==
  LET first == x \div RootOne
      root[i \in 0 .. 8] ==
        IF i = 0 THEN IF first = 0 THEN 1 ELSE first
        ELSE LET r == root[i - 1] IN (r + x \div r) \div 2
  IN  IF x <= 0 THEN 0 ELSE root[8] * RootOne

(***************************************************************************)
(* Q15: a 16 bit word of the same scale but for one digit.                 *)
(***************************************************************************)
ToShort(f) == Clamped(f \div 2, -Half, Half - 1)
FromShort(q) == q * 2
MulShort(a, b) == Clamped((a * b) \div Half, -Half, Half - 1)
AddShort(a, b) == Clamped(a + b, -Half, Half - 1)
SubShort(a, b) == Clamped(a - b, -Half, Half - 1)
-----------------------------------------------------------------------------
(***************************************************************************)
(* Distances (ekk_topology.c).  The first guess of isqrt adds one to its   *)
(* argument, undefined for the largest word: builds wrap around.  At most  *)
(* sixteen steps are made, while the guess gets smaller.                   *)
(***************************************************************************)
DistanceSq(a, b) ==
  LET sq(i) == (a[i] - b[i]) * (a[i] - b[i])
  IN  Clamped(sq(1) + sq(2) + sq(3), 0, MaxInt)

FirstGuess(n) == IF n = MaxInt THEN MinInt \div 2 ELSE (n + 1) \div 2

Isqrt(n) ==
  LET guess[i \in 0 .. 16] ==        \* x and y after i steps
        IF i = 0 THEN <<n, FirstGuess(n)>>
        ELSE LET last == guess[i - 1]  y == last[2]
             IN  IF y < last[1] THEN <<y, Quotient(y + Quotient(n, y), 2)>> ELSE last
  IN  IF n <= 0 THEN 0 ELSE IF n = 1 THEN 1 ELSE guess[16][1]

Distance(metric, a, pos_a, b, pos_b, custom) ==
  CASE metric \in {"LOGICAL", "LATENCY"} -> Magnitude(a - b)
    [] metric = "PHYSICAL" -> Isqrt(DistanceSq(pos_a, pos_b))
    [] metric = "CUSTOM"   -> custom
    [] OTHER               -> MaxInt
-----------------------------------------------------------------------------
(***************************************************************************)
(* The slack component of a module (ekk_module_compute_slack): that of its *)
(* most urgent deadline, 0 when it is late and One when it is far.         *)
(***************************************************************************)
Slack(deadline, duration, now) == deadline - (now + duration)

SlackComponent(slack) ==
  IF slack <= 0 THEN 0
  ELSE IF slack >= Normalize THEN One
  ELSE (slack * One) \div Normalize

MinSlack(slacks) ==
  CHOOSE s \in slacks \union {Normalize} : \A u \in slacks \union {Normalize} : s <= u

(***************************************************************************)
(* ekk_hal_time_us: the microseconds since the start, from two readings of *)
(* the monotonic clock in seconds and nanoseconds.                         *)
(***************************************************************************)
NsPerUs == 1000
UsPerSec == 1000000
NsPerSec == 1000000000
Micros(now, start) ==
  LET borrow == now.nsec < start.nsec
      sec  == now.sec - start.sec - (IF borrow THEN 1 ELSE 0)
      nsec == now.nsec - start.nsec + (IF borrow THEN NsPerSec ELSE 0)
  IN  sec * UsPerSec + nsec \div NsPerUs

\* A mock time other than 0 stands in for the clock.
TimeUs(mock, now, start) == IF mock # 0 THEN mock ELSE Micros(now, start)
=============================================================================
