----------------------------- MODULE VotingRound -----------------------------
(***************************************************************************)
(* What the consensus engine promises of one ballot, with no tables,       *)
(* clocks, counters or messages: a round opens with a fixed set of voters  *)
(* and a fixed quota, each voter's YES or NO is taken at most once while   *)
(* the round is open, and the round ends once, with a result that agrees   *)
(* with the votes taken.  A tracked round of another module has no voters. *)
(***************************************************************************)
EXTENDS Integers, FiniteSets

CONSTANTS Module, Threshold

FixedOne == 65536

VARIABLES
  phase,    \* "NONE", "PENDING" while open, then the final result
  voters,   \* who may vote
  quota,    \* the Q16.16 share of the voters that must say YES
  yes, no   \* the voters whose YES or NO has been taken

vars == <<phase, voters, quota, yes, no>>

Carried ==
  /\ voters # {}
  /\ Cardinality(yes) * FixedOne >= quota * Cardinality(voters)

Init == phase = "NONE" /\ voters = {} /\ quota = 0 /\ yes = {} /\ no = {}

(***************************************************************************)
(* A round opens with at most one vote taken, the proposer's own YES.      *)
(***************************************************************************)
Begin ==
  /\ phase = "NONE"
  /\ phase' = "PENDING"
  /\ voters' \in SUBSET Module
  /\ quota' \in Threshold
  /\ yes' \in {{}} \union {{v} : v \in voters'}
  /\ no' = {}

(***************************************************************************)
(* A vote of somebody who has not voted; it may end the round.             *)
(***************************************************************************)
Decide ==
  \/ phase' = "PENDING"
  \/ phase' = "APPROVED" /\ Carried'
  \/ phase' = "REJECTED" /\ ~Carried'

TakeVote ==
  /\ phase = "PENDING"
  /\ \E v \in voters \ (yes \union no) :
       \/ yes' = yes \union {v} /\ no' = no
       \/ no' = no \union {v} /\ yes' = yes
       \/ UNCHANGED <<yes, no>>                    \* it abstains
  /\ Decide
  /\ UNCHANGED <<voters, quota>>

(***************************************************************************)
(* The round ends without a vote: cancelled, or at its deadline.           *)
(***************************************************************************)
Close ==
  /\ phase = "PENDING"
  /\ \/ phase' = "CANCELLED"
     \/ phase' = "APPROVED" /\ Carried
     \/ phase' \in {"REJECTED", "TIMEOUT"} /\ ~Carried
  /\ UNCHANGED <<voters, quota, yes, no>>

Next == Begin \/ TakeVote \/ Close

Step == Next \/ UNCHANGED vars

Spec == Init /\ [][Next]_vars

(***************************************************************************)
(* A round that has begun ends.                                            *)
(***************************************************************************)
Ends == phase = "PENDING" ~> phase \notin {"NONE", "PENDING"}
=============================================================================
