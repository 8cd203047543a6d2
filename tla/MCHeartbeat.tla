----------------------------- MODULE MCHeartbeat -----------------------------
(***************************************************************************)
(* Instances of Heartbeat for TLC.                                         *)
(***************************************************************************)
EXTENDS Heartbeat

CONSTANTS m1, m2

\* m1 hears m2.
OneWay == {<<m2, m1>>}
=============================================================================
