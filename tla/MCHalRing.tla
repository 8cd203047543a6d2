------------------------------ MODULE MCHalRing ------------------------------
(***************************************************************************)
(* Names of modules and addresses for TLC.                                 *)
(***************************************************************************)
EXTENDS HalRing

CONSTANTS m1, m2, all, away, none
=============================================================================
