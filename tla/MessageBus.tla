----------------------------- MODULE MessageBus -----------------------------
(***************************************************************************)
(* What the modules of one process may expect of the messages they send    *)
(* each other: every message accepted is pending until exactly one module  *)
(* it is addressed to takes it, and a module takes its messages in the     *)
(* order they were sent.  A broadcast goes to whoever asks first, as the   *)
(* simulation HAL documents (ekk_hal_posix.c).                             *)
(***************************************************************************)
EXTENDS Integers

CONSTANTS
  Module,         \* identities that receive
  Dest,           \* addresses
  Broadcast       \* the address of everybody

VARIABLES
  pending,        \* messages sent and not yet taken, with their numbers
  posted          \* messages sent so far

Letter == [n : Nat, from : Module, to : Dest]

Reaches(letter, m) == letter.to \in {m, Broadcast}

Init ==
  /\ pending = {}
  /\ posted = 0

Post(from, to) ==
  /\ pending' = pending \union {[n |-> posted, from |-> from, to |-> to]}
  /\ posted' = posted + 1

Take(m, letter) ==
  /\ letter \in pending /\ Reaches(letter, m)
  /\ \A other \in pending : Reaches(other, m) => letter.n <= other.n
  /\ pending' = pending \ {letter}
  /\ UNCHANGED posted

Next ==
  \/ \E from \in Module, to \in Dest : Post(from, to)
  \/ \E m \in Module : \E letter \in pending : Take(m, letter)

Spec == Init /\ [][Next]_<<pending, posted>>
=============================================================================
