------------------------------ MODULE MCTasks ------------------------------
(***************************************************************************)
(* Instances of Tasks for TLC.                                             *)
(***************************************************************************)
EXTENDS Tasks

CONSTANTS capable

\* An important task, one that is repeated, and one of the lowest priority.
ThreeKinds == {[priority |-> 0, period |-> 0], [priority |-> 1, period |-> 2],
               [priority |-> 2, period |-> 0]}
=============================================================================
