--------------------------- MODULE FieldArithmetic ---------------------------
(***************************************************************************)
(* What ekk_field.c computes from fields that were sampled: the aggregate  *)
(* over the neighbours, gradients, decay, and sums of fields.  A field is  *)
(* [components, timestamp, source, sequence]; the two last are those of    *)
(* one of the operands or a constant, and are left out.                    *)
(***************************************************************************)
EXTENDS FixedPoint, Sequences

CONSTANTS Component          \* ekk_field_component_t

Later(s, t) == IF s >= t THEN s ELSE t

(***************************************************************************)
(* ekk_field_sample_neighbors_at.  A neighbour is [health, distance, field,*)
(* sampled], where sampled says that reading its field succeeded.  Dead    *)
(* and unknown neighbours are not read.  The sums are divided by the total *)
(* weight, not by the number of neighbours.  Distance and total weight are *)
(* words: shift and sums wrap around when they overflow, which C leaves    *)
(* undefined and builds do.                                                *)
(***************************************************************************)
Weight(n) ==
  LET whole == IF n.health = "SUSPECT" THEN Half ELSE One
      below == Wrapped(One + n.distance * RootOne)
  IN  IF n.distance > 0 THEN Mul(whole, Div(One, below)) ELSE whole

\* The distances for which nothing wraps in Weight: below 2^23 - 256.
Near(n) == n.distance * RootOne <= MaxInt - One

Eligible(neighbors) == {i \in DOMAIN neighbors : neighbors[i].health \in {"ALIVE", "SUSPECT"}}
Valid(neighbors) == {i \in Eligible(neighbors) : neighbors[i].sampled}

NoSum == [total |-> 0, weight |-> 0]
Accumulate(acc, value, weight) ==
  [total |-> acc.total + Mul(value, weight), weight |-> Wrapped(acc.weight + weight)]
Average(acc) ==
  IF acc.weight > 0 THEN Wrapped(Quotient(acc.total * One, acc.weight)) ELSE 0

SumOver(neighbors, c) ==
  LET sum[i \in 0 .. Len(neighbors)] ==
        IF i = 0 THEN NoSum
        ELSE IF i \in Valid(neighbors)
             THEN Accumulate(sum[i - 1], neighbors[i].field.components[c], Weight(neighbors[i]))
             ELSE sum[i - 1]
  IN  sum[Len(neighbors)]

LatestOf(neighbors) ==
  LET stamps == {0} \union {neighbors[i].field.timestamp : i \in Valid(neighbors)}
  IN  CHOOSE s \in stamps : \A t \in stamps : t <= s

Aggregate(neighbors) ==
  [components |-> [c \in Component |-> Average(SumOver(neighbors, c))],
   timestamp  |-> LatestOf(neighbors)]

Degraded(neighbors) == Eligible(neighbors) # {} /\ Valid(neighbors) = {}
-----------------------------------------------------------------------------
(***************************************************************************)
(* ekk_field_gradient, ekk_field_gradient_all.                             *)
(***************************************************************************)
Gradient(mine, aggregate) ==
  [c \in Component |-> Saturated(aggregate.components[c] - mine.components[c])]

(***************************************************************************)
(* ekk_field_scale, and ekk_field_apply_decay with the decay of the time   *)
(* elapsed.                                                                *)
(***************************************************************************)
Scale(field, factor) ==
  [field EXCEPT !.components = [c \in Component |-> Mul(@[c], factor)]]

ApplyDecay(field, elapsed, tau) == Scale(field, ExpDecay(elapsed, tau))

(***************************************************************************)
(* ekk_field_add, ekk_field_lerp.                                          *)
(***************************************************************************)
Add(a, b) ==
  [components |-> [c \in Component |-> Saturated(a.components[c] + b.components[c])],
   timestamp  |-> Later(a.timestamp, b.timestamp)]

Mix(x, y, t) == Saturated(Mul(x, One - t) + Mul(y, t))

LerpFields(a, b, t) ==
  LET share == Clamped(t, 0, One)
  IN  [components |-> [c \in Component |-> Mix(a.components[c], b.components[c], share)],
       timestamp  |-> Later(a.timestamp, b.timestamp)]
=============================================================================
