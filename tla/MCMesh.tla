------------------------------- MODULE MCMesh -------------------------------
(***************************************************************************)
(* Instances of Mesh for TLC.                                              *)
(***************************************************************************)
EXTENDS Mesh

CONSTANTS nowhere, nobody

\* Positions are points on a line whose origin is Self; one module announces
\* itself nearer than the others, and the alive callback moves any to the origin.
OnALine == [m \in Module |-> [p \in Position |-> p]]
OneNearer == [m \in Module |-> IF m = 4 THEN {0} ELSE {1}]
=============================================================================
