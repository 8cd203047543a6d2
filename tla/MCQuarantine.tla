---------------------------- MODULE MCQuarantine ----------------------------
(***************************************************************************)
(* An instance of Quarantine for TLC.                                      *)
(***************************************************************************)
EXTENDS Quarantine, MCConsensus

CONSTANTS m1, m2, m3

Equivocation == [type |-> "EQUIVOCATION", suspect |-> m3, witnesses |-> <<m1>>,
                 first |-> 1, second |-> 2]
Delay == [type |-> "TIMING_ANOMALY", suspect |-> m3, witnesses |-> <<m1, m2>>,
          expected |-> 5, actual |-> 2, threshold |-> 2]
Leap == [type |-> "STATE_INVALID", suspect |-> m3, witnesses |-> <<m1, m2, m1, m3>>,
         from |-> 3, to |-> 7, valid |-> 0 .. 30]

SoundEvidence == {Equivocation, Delay, Leap}
UnsoundEvidence ==
  {[Equivocation EXCEPT !.second = 1], [Equivocation EXCEPT !.type = "INVALID_MAC"],
   [Equivocation EXCEPT !.witnesses = << >>], [Equivocation EXCEPT !.suspect = 0],
   [Delay EXCEPT !.witnesses = <<m1, m3>>], [Delay EXCEPT !.actual = 7],
   [Leap EXCEPT !.to = 6], [Leap EXCEPT !.from = 4, !.valid = {}]}
\* m1 has a case, m2 has none that would hold.
SomeEvidence == [m \in Engine |-> UnsoundEvidence \union (IF m = m1 THEN SoundEvidence ELSE {})]

(***************************************************************************)
(* What convicts and what does not: equal hashes, a MAC, no witness, an    *)
(* invalid suspect, the suspect as witness (but a fourth one is not looked *)
(* at), a delay that is just tolerated, a valid transition, and one from a *)
(* state the bitmap has no room for.                                       *)
(***************************************************************************)
ASSUME EvidenceJudged == {e \in Evidence[m1] : VerifyEvidence(e)} = SoundEvidence
=============================================================================
