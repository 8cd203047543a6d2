----------------------------- MODULE MCTopology -----------------------------
(***************************************************************************)
(* Instances of Topology for TLC.                                          *)
(***************************************************************************)
EXTENDS Topology

\* Positions are points on a line whose origin is Self: distances tie whenever
\* two modules are discovered at the same point.
OnALine == [m \in Module |-> [p \in Position |-> p]]
=============================================================================
