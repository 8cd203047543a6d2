----------------------------- MODULE BallotRules -----------------------------
(***************************************************************************)
(* The data of one ballot and the rule that decides it: the part of        *)
(* ekk_consensus.c that is a pure function of the ballot, chiefly          *)
(* evaluate_ballot.  Shares of the electorate are Q16.16 fixed point, the  *)
(* floor of n * 65536 / eligible, exactly as the code computes them.       *)
(***************************************************************************)
EXTENDS Integers, FiniteSets

CONSTANTS
  Module,         \* identities of modules (ekk_module_id_t)
  Threshold,      \* thresholds a proposal may ask for (ekk_fixed_t)
  IdSpace         \* number of ballot ids, 2^16 in the code (ekk_ballot_id_t)

ASSUME RulesAssumption ==
  /\ IsFiniteSet(Module)
  /\ Threshold \subseteq Nat
  /\ IdSpace \in Nat \ {0}

FixedOne == 65536                               \* EKK_FIXED_ONE

VoteValue == {"ABSTAIN", "YES", "NO", "INHIBIT"}
Result == {"PENDING", "APPROVED", "REJECTED", "TIMEOUT", "CANCELLED"}

Id  == 0 .. IdSpace - 1
InvalidId == 0                                  \* EKK_INVALID_BALLOT_ID
NextIdUnwrapped(id) == id + 1                   \* mutant: ids are not 16 bits
NextIdKept(id) == IF id = InvalidId THEN 1 ELSE id   \* mutant: used again
NextId(id) == (id + 1) % IdSpace
Key == [proposer : Module, id : Id]             \* ekk_ballot_key_t

Ballot == [key         : Key,
           threshold   : Threshold \union {0},
           deadline    : Nat,
           eligible    : SUBSET Module,         \* eligible_voters[]
           votes       : [Module -> VoteValue], \* votes[], by voter
           vote_count  : Nat,
           yes_count   : Nat,
           no_count    : Nat,
           result      : Result,
           completed   : BOOLEAN]

(***************************************************************************)
(* The share n out of `eligible', rounded down to Q16.16.                  *)
(***************************************************************************)
Ratio(n, eligible) == (n * FixedOne) \div eligible

(***************************************************************************)
(* The YES votes there will be if every vote still out is a YES.           *)
(***************************************************************************)
MaxYesShort(b) ==        \* mutant: the vote just counted is taken off twice
  b.yes_count + (Cardinality(b.eligible) - b.vote_count) - 1
MaxYes(b) == b.yes_count + (Cardinality(b.eligible) - b.vote_count)

(***************************************************************************)
(* The result the votes recorded so far decide, PENDING when they do not.  *)
(***************************************************************************)
EvaluateCast(b) ==       \* mutant: the share of the votes cast decides
  IF b.completed THEN b.result
  ELSE IF b.vote_count = 0 THEN "PENDING"
  ELSE IF Ratio(b.yes_count, b.vote_count) >= b.threshold THEN "APPROVED"
  ELSE "REJECTED"

Evaluate(b) ==
  LET eligible == Cardinality(b.eligible)
      waiting  == b.vote_count < eligible
  IN  IF b.completed THEN b.result
      ELSE IF eligible = 0 THEN "REJECTED"
      ELSE IF waiting /\ Ratio(MaxYes(b), eligible) < b.threshold THEN "REJECTED"
      ELSE IF Ratio(b.yes_count, eligible) >= b.threshold THEN "APPROVED"
      ELSE IF waiting THEN "PENDING" ELSE "REJECTED"

(***************************************************************************)
(* A voter may (still) vote: it is in the electorate, and its slot holds   *)
(* ABSTAIN, as at first and after an abstention.                           *)
(***************************************************************************)
MayVoteAgain(b, voter) == voter \in b.eligible       \* mutant: no duplicate check
MayVote(b, voter) == voter \in b.eligible /\ b.votes[voter] = "ABSTAIN"

(***************************************************************************)
(* The bodies of the counting and completing code.                         *)
(***************************************************************************)
CountVote(b, voter, vote) ==
  [b EXCEPT !.votes[voter] = vote,
            !.vote_count   = @ + 1,
            !.yes_count    = @ + (IF vote = "YES" THEN 1 ELSE 0),
            !.no_count     = @ + (IF vote = "NO" THEN 1 ELSE 0)]

Finalized(b, result) == [b EXCEPT !.result = result, !.completed = TRUE]

(***************************************************************************)
(* A freshly stored ballot, with no vote in it, and the proposer's own     *)
(* with its electorate; allow_self_vote adds the proposer with its YES.    *)
(***************************************************************************)
StoredBallot(key, threshold, deadline) ==
  [key |-> key, threshold |-> threshold, deadline |-> deadline,
   eligible |-> {}, votes |-> [v \in Module |-> "ABSTAIN"],
   vote_count |-> 0, yes_count |-> 0, no_count |-> 0,
   result |-> "PENDING", completed |-> FALSE]

SnapshotElectorate(b, electorate, selfVote) ==
  LET own == [b EXCEPT !.eligible = electorate]
  IN  IF selfVote
      THEN CountVote([own EXCEPT !.eligible = @ \union {b.key.proposer}],
                     b.key.proposer, "YES")
      ELSE own

(***************************************************************************)
(* What the votes mean, stated without counters or rounding: the voters    *)
(* whose YES is recorded, and whether a set of voters carries the ballot.  *)
(***************************************************************************)
YesVoters(b) == {v \in b.eligible : b.votes[v] = "YES"}
NoVoters(b)  == {v \in b.eligible : b.votes[v] = "NO"}

Carries(S, b) ==
  /\ b.eligible # {}
  /\ Cardinality(S) * FixedOne >= b.threshold * Cardinality(b.eligible)

(***************************************************************************)
(* The counters agree with the vote slots, and no more votes are counted   *)
(* than there are voters; the result agrees with the votes.                *)
(***************************************************************************)
Tallied(b) ==
  /\ b.yes_count = Cardinality(YesVoters(b))
  /\ b.no_count = Cardinality(NoVoters(b))
  /\ b.yes_count + b.no_count <= b.vote_count
  /\ b.vote_count <= Cardinality(b.eligible)

Judged(b) ==
  /\ b.result = "APPROVED" => Carries(YesVoters(b), b)
  /\ b.result \in {"REJECTED", "TIMEOUT"} => ~Carries(YesVoters(b), b)
=============================================================================
