--------------------------- MODULE HeartbeatRules ---------------------------
(***************************************************************************)
(* One row of the table of ekk_heartbeat.c, and the pure code on it.       *)
(*                                                                         *)
(* The code only ever uses differences of times, so last_seen is kept as   *)
(* its age, now - last_seen.  An age stops growing at MaxAge, beyond which *)
(* no comparison in the code changes any more.                             *)
(***************************************************************************)
EXTENDS Integers

CONSTANTS
  Period,         \* config.period, in clock units
  TimeoutCount,   \* config.timeout_count, 32 bits in the code and not validated
  MaxMissed,      \* largest missed_count, 255 in the code (uint8_t)
  MaxAge          \* bound: ages are not told apart from here on

ASSUME RowAssumption ==
  /\ Period \in Nat \ {0}
  /\ TimeoutCount \in Nat \ {0}
  /\ MaxMissed \in Nat
  /\ MaxAge \in Nat /\ MaxAge >= TimeoutCount * Period

Health == {"UNKNOWN", "ALIVE", "SUSPECT", "DEAD"}
Age == 0 .. MaxAge
Neighbor == [health : Health, age : Age, missed_count : 0 .. MaxMissed]

Lesser(a, b) == IF a <= b THEN a ELSE b
Older(age, bound) == Lesser(age + 1, bound)

(***************************************************************************)
(* A row of the table: new (last_seen = 0, whose age is the clock itself), *)
(* after a heartbeat, after a tick.  missed_count never decreases between  *)
(* heartbeats.                                                             *)
(***************************************************************************)
NewNeighbor == [health |-> "UNKNOWN", age |-> MaxAge, missed_count |-> 0]

HeardKeepsCount(n) == [n EXCEPT !.health = "ALIVE", !.age = 0]  \* mutant: count kept
Heard(n) == [n EXCEPT !.health = "ALIVE", !.age = 0, !.missed_count = 0]

MissedWide(n) ==                  \* mutant: the count is not clamped
  IF n.age \div Period > n.missed_count THEN n.age \div Period ELSE n.missed_count
MissedLow(n) ==                   \* mutant: clamped below the timeout
  Lesser(n.age \div Period, TimeoutCount - 1)
Missed(n) ==
  IF n.age \div Period > n.missed_count
  THEN Lesser(n.age \div Period, MaxMissed) ELSE n.missed_count

VerdictEarly(missed) ==           \* mutant: dead one period early
  IF missed = 0 THEN "ALIVE"
  ELSE IF missed + 1 < TimeoutCount THEN "SUSPECT" ELSE "DEAD"
Verdict(missed) ==
  IF missed = 0 THEN "ALIVE"
  ELSE IF missed < TimeoutCount THEN "SUSPECT" ELSE "DEAD"

CheckedNew(n) ==                  \* mutant: neighbours never seen are judged too
  [n EXCEPT !.missed_count = Missed(n), !.health = Verdict(Missed(n))]
Checked(n) ==
  IF n.health = "UNKNOWN" THEN n
  ELSE [n EXCEPT !.missed_count = Missed(n), !.health = Verdict(Missed(n))]
=============================================================================
