----------------------------- MODULE MCFieldSlot -----------------------------
(***************************************************************************)
(* Instances of FieldSlot for TLC: one reader and one collector, which     *)
(* ekk_field_gc is in every deployment the runtime describes.  What is     *)
(* computed from samples is checked before the run, on words of 16 bits.   *)
(***************************************************************************)
EXTENDS FieldSlot, ArithmeticChecks

CONSTANTS r1, c1
=============================================================================
