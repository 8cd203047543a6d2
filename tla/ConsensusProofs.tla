--------------------------- MODULE ConsensusProofs ---------------------------
(***************************************************************************)
(* Theorems about Consensus for every set of modules and engines, every    *)
(* table size, every configuration and every bound of the behaviour.       *)
(***************************************************************************)
EXTENDS Consensus, FiniteSetTheorems, WellFoundedInduction, TLAPS

-----------------------------------------------------------------------------
(***************************************************************************)
(* Facts about the operators of BallotRules, for every electorate, every   *)
(* threshold and every number of votes.                                    *)
(***************************************************************************)

(***************************************************************************)
(* Comparing the rounded Q16.16 share with a threshold, as evaluate_ballot *)
(* does, is comparing the exact share: rounding down loses nothing.        *)
(***************************************************************************)
LEMMA DivisionFloor ==
  ASSUME NEW a \in Nat, NEW e \in Nat \ {0}
  PROVE  /\ a \div e \in Nat
         /\ e * (a \div e) <= a
         /\ a < e * (a \div e) + e
  OBVIOUS

\* The floor of a share reaches t exactly if the share does.
LEMMA RatioExact ==
  ASSUME NEW n \in Nat, NEW e \in Nat \ {0}, NEW t \in Nat
  PROVE  Ratio(n, e) >= t <=> n * FixedOne >= t * e
<1> DEFINE a == n * FixedOne
           q == a \div e
<1>1. a \in Nat  BY DEF FixedOne
<1>2. q \in Nat /\ e * q <= a /\ a < e * q + e
  BY <1>1, DivisionFloor
<1> HIDE DEF q, a
<1>3. q >= t => a >= t * e
  BY <1>1, <1>2
<1>4. a >= t * e => q >= t
  <2> SUFFICES ASSUME q < t PROVE a < t * e
    BY <1>1, <1>2
  <2>1. t * e >= (q + 1) * e
    BY <1>2
  <2>2. (q + 1) * e = e * q + e
    BY <1>2
  <2> QED  BY <1>1, <1>2, <2>1, <2>2
<1> QED  BY <1>3, <1>4 DEF Ratio, q, a

(***************************************************************************)
(* The numbers of a ballot are natural numbers.                            *)
(***************************************************************************)
LEMMA BallotNumbers ==
  ASSUME NEW b \in Ballot
  PROVE  /\ b.threshold \in Nat /\ b.deadline \in Nat
         /\ b.vote_count \in Nat /\ b.yes_count \in Nat /\ b.no_count \in Nat
<1>1. b.threshold \in Threshold \union {0}
  BY DEF Ballot
<1>2. Threshold \union {0} \subseteq Nat
  BY RulesAssumption
<1>3. b.threshold \in Nat
  BY <1>1, <1>2
<1>4. /\ b.deadline \in Nat
      /\ b.vote_count \in Nat /\ b.yes_count \in Nat /\ b.no_count \in Nat
  BY DEF Ballot
<1> QED  BY <1>3, <1>4

(***************************************************************************)
(* The sets of voters of a ballot are finite.                              *)
(***************************************************************************)
LEMMA VotersFinite ==
  ASSUME NEW b \in Ballot
  PROVE  /\ IsFiniteSet(b.eligible) /\ Cardinality(b.eligible) \in Nat
         /\ IsFiniteSet(YesVoters(b)) /\ Cardinality(YesVoters(b)) \in Nat
         /\ IsFiniteSet(NoVoters(b)) /\ Cardinality(NoVoters(b)) \in Nat
<1>1. b.eligible \in SUBSET Module
  BY DEF Ballot
<1>2. IsFiniteSet(b.eligible)
  BY <1>1, RulesAssumption, FS_Subset
<1>3. YesVoters(b) \in SUBSET b.eligible /\ NoVoters(b) \in SUBSET b.eligible
  BY DEF YesVoters, NoVoters
<1>4. IsFiniteSet(YesVoters(b)) /\ IsFiniteSet(NoVoters(b))
  BY <1>2, <1>3, FS_Subset
<1> QED  BY <1>2, <1>4, FS_CardinalityType

(***************************************************************************)
(* The operations on ballots yield ballots.                                *)
(***************************************************************************)
LEMMA StoredBallotType ==
  ASSUME NEW key \in Key, NEW t \in Threshold \union {0}, NEW d \in Nat
  PROVE  StoredBallot(key, t, d) \in Ballot
BY DEF StoredBallot, Ballot, VoteValue, Result

\* count_vote, field by field.
LEMMA CountVoteType ==
  ASSUME NEW b \in Ballot, NEW voter \in Module, NEW vote \in VoteValue
  PROVE  /\ CountVote(b, voter, vote) \in Ballot
         /\ CountVote(b, voter, vote) =
              [key |-> b.key, threshold |-> b.threshold, deadline |-> b.deadline,
               eligible |-> b.eligible, votes |-> [b.votes EXCEPT ![voter] = vote],
               vote_count |-> b.vote_count + 1,
               yes_count |-> b.yes_count + (IF vote = "YES" THEN 1 ELSE 0),
               no_count |-> b.no_count + (IF vote = "NO" THEN 1 ELSE 0),
               result |-> b.result, completed |-> b.completed]
<1> DEFINE y == b.yes_count + (IF vote = "YES" THEN 1 ELSE 0)
           n == b.no_count + (IF vote = "NO" THEN 1 ELSE 0)
           f == [b.votes EXCEPT ![voter] = vote]
           c == b.vote_count + 1
<1>1. y \in Nat /\ n \in Nat /\ c \in Nat
  BY DEF Ballot
<1>2. f \in [Module -> VoteValue]
  BY DEF Ballot
<1>3. CountVote(b, voter, vote) =
        [b EXCEPT !.votes = f, !.vote_count = c, !.yes_count = y, !.no_count = n]
  BY DEF CountVote
<1> HIDE DEF y, n, f, c
<1>4. CountVote(b, voter, vote) =
        [key |-> b.key, threshold |-> b.threshold, deadline |-> b.deadline,
         eligible |-> b.eligible, votes |-> f, vote_count |-> c, yes_count |-> y,
         no_count |-> n, result |-> b.result, completed |-> b.completed]
  BY <1>3 DEF Ballot
<1>5. CountVote(b, voter, vote) \in Ballot
  BY <1>1, <1>2, <1>4 DEF Ballot
<1> QED  BY <1>4, <1>5 DEF y, n, f, c

LEMMA FinalizedType ==
  ASSUME NEW b \in Ballot, NEW result \in Result
  PROVE  Finalized(b, result) \in Ballot
BY DEF Finalized, Ballot

LEMMA SnapshotType ==
  ASSUME NEW b \in Ballot, NEW E \in SUBSET Module, NEW self \in BOOLEAN
  PROVE  SnapshotElectorate(b, E, self) \in Ballot
<1> DEFINE own == [b EXCEPT !.eligible = E]
           wide == [own EXCEPT !.eligible = @ \union {b.key.proposer}]
<1>1. b.key.proposer \in Module
  BY DEF Ballot, Key
<1>2. own \in Ballot
  BY DEF Ballot
<1>3. wide \in Ballot
  BY <1>1, <1>2 DEF Ballot
<1> HIDE DEF own, wide
<1>4. CountVote(wide, b.key.proposer, "YES") \in Ballot
  BY <1>1, <1>3, CountVoteType DEF VoteValue
<1> QED  BY <1>2, <1>4 DEF SnapshotElectorate, own, wide

LEMMA EvaluateType ==
  ASSUME NEW b \in Ballot
  PROVE  Evaluate(b) \in Result
BY DEF Evaluate, Ballot, Result

(***************************************************************************)
(* What evaluate_ballot decides of an open ballot whose counters are right *)
(* agrees with the exact share of YES votes.                               *)
(***************************************************************************)
LEMMA CarriesByRatio ==
  ASSUME NEW b \in Ballot, NEW S, Cardinality(S) \in Nat, b.eligible # {}
  PROVE  Carries(S, b) <=>
           Ratio(Cardinality(S), Cardinality(b.eligible)) >= b.threshold
<1>1. b.threshold \in Nat
  BY BallotNumbers
<1>2. Cardinality(b.eligible) \in Nat \ {0}
  BY VotersFinite, FS_EmptySet
<1> QED  BY <1>1, <1>2, RatioExact DEF Carries

\* More votes never lower the share.
LEMMA RatioMonotone ==
  ASSUME NEW n \in Nat, NEW k \in Nat, n <= k, NEW e \in Nat \ {0}, NEW t \in Nat,
         Ratio(n, e) >= t
  PROVE  Ratio(k, e) >= t
<1>1. n * FixedOne >= t * e
  BY RatioExact
<1>2. k * FixedOne >= n * FixedOne
  BY DEF FixedOne
<1>3. k * FixedOne >= t * e
  BY <1>1, <1>2 DEF FixedOne
<1> QED  BY <1>3, RatioExact

\* What evaluate_ballot says agrees with the slots of a tallied ballot.
LEMMA EvaluateSound ==
  ASSUME NEW b \in Ballot, Tallied(b), ~b.completed
  PROVE  /\ Evaluate(b) \in {"PENDING", "APPROVED", "REJECTED"}
         /\ Evaluate(b) = "APPROVED" => Carries(YesVoters(b), b)
         /\ Evaluate(b) \in {"PENDING", "REJECTED"} => ~Carries(YesVoters(b), b)
         /\ Evaluate(b) = "PENDING" => b.vote_count < Cardinality(b.eligible)
<1> DEFINE e == Cardinality(b.eligible)
           w == b.vote_count < e
           r == Ratio(b.yes_count, e) >= b.threshold
           x == Ratio(MaxYes(b), e) < b.threshold
<1>1. Evaluate(b) = IF e = 0 THEN "REJECTED"
                    ELSE IF w /\ x THEN "REJECTED"
                    ELSE IF r THEN "APPROVED"
                    ELSE IF w THEN "PENDING" ELSE "REJECTED"
  BY DEF Evaluate
<1>2. e \in Nat /\ (e = 0 <=> b.eligible = {})
  BY VotersFinite, FS_EmptySet
<1>3. e # 0 => (Carries(YesVoters(b), b) <=> r)
  BY <1>2, VotersFinite, CarriesByRatio DEF Tallied
<1>4. e # 0 /\ w /\ x => ~r
  <2> SUFFICES ASSUME e # 0, w, r PROVE ~x
    OBVIOUS
  <2>1. b.threshold \in Nat /\ b.yes_count \in Nat /\ b.vote_count \in Nat
    BY BallotNumbers
  <2>2. MaxYes(b) \in Nat /\ b.yes_count <= MaxYes(b)
    BY <1>2, <2>1 DEF MaxYes
  <2>3. Ratio(MaxYes(b), e) >= b.threshold
    BY <1>2, <2>1, <2>2, RatioMonotone
  <2>4. Ratio(MaxYes(b), e) \in Int
    BY <1>2, <2>2, DivisionFloor DEF Ratio, FixedOne
  <2> QED  BY <2>1, <2>3, <2>4
<1>5. e = 0 => ~Carries(YesVoters(b), b)
  BY <1>2 DEF Carries
<1> HIDE DEF e, w, r, x
<1> QED  BY <1>1, <1>3, <1>4, <1>5 DEF w, e

(***************************************************************************)
(* Counting a vote keeps the counters right, when the voter's slot is free *)
(* and there is a voter left to count.                                     *)
(***************************************************************************)
LEMMA CountVoteTallied ==
  ASSUME NEW b \in Ballot, NEW voter \in Module, NEW vote \in VoteValue,
         MayVote(b, voter), Tallied(b), b.vote_count < Cardinality(b.eligible)
  PROVE  Tallied(CountVote(b, voter, vote))
<1> DEFINE c == CountVote(b, voter, vote)
<1>1. /\ c.eligible = b.eligible
      /\ c.votes = [b.votes EXCEPT ![voter] = vote]
      /\ c.vote_count = b.vote_count + 1
      /\ c.yes_count = b.yes_count + (IF vote = "YES" THEN 1 ELSE 0)
      /\ c.no_count = b.no_count + (IF vote = "NO" THEN 1 ELSE 0)
  BY CountVoteType
<1> HIDE DEF c
<1>2. b.votes \in [Module -> VoteValue] /\ b.eligible \subseteq Module
  BY DEF Ballot
<1>3. voter \in b.eligible /\ voter \notin YesVoters(b) /\ voter \notin NoVoters(b)
  BY DEF MayVote, YesVoters, NoVoters
<1>4. YesVoters(c) = IF vote = "YES" THEN YesVoters(b) \union {voter} ELSE YesVoters(b)
  BY <1>1, <1>2, <1>3 DEF YesVoters
<1>5. NoVoters(c) = IF vote = "NO" THEN NoVoters(b) \union {voter} ELSE NoVoters(b)
  BY <1>1, <1>2, <1>3 DEF NoVoters
<1>6. Cardinality(YesVoters(c)) =
        Cardinality(YesVoters(b)) + (IF vote = "YES" THEN 1 ELSE 0)
  <2>1. IsFiniteSet(YesVoters(b)) /\ Cardinality(YesVoters(b)) \in Nat
    BY VotersFinite
  <2>2. Cardinality(YesVoters(b) \union {voter}) = Cardinality(YesVoters(b)) + 1
    BY <1>3, <2>1, FS_AddElement
  <2> QED  BY <1>4, <2>1, <2>2
<1>7. Cardinality(NoVoters(c)) =
        Cardinality(NoVoters(b)) + (IF vote = "NO" THEN 1 ELSE 0)
  <2>1. IsFiniteSet(NoVoters(b)) /\ Cardinality(NoVoters(b)) \in Nat
    BY VotersFinite
  <2>2. Cardinality(NoVoters(b) \union {voter}) = Cardinality(NoVoters(b)) + 1
    BY <1>3, <2>1, FS_AddElement
  <2> QED  BY <1>5, <2>1, <2>2
<1>8. /\ b.vote_count \in Nat /\ b.yes_count \in Nat /\ b.no_count \in Nat
      /\ Cardinality(b.eligible) \in Nat
  BY VotersFinite DEF Ballot
<1>9. c.yes_count + c.no_count <= c.vote_count
  BY <1>1, <1>8 DEF Tallied
<1>10. c.vote_count <= Cardinality(c.eligible)
  BY <1>1, <1>8
<1>11. c.yes_count = Cardinality(YesVoters(c)) /\ c.no_count = Cardinality(NoVoters(c))
  BY <1>1, <1>6, <1>7 DEF Tallied
<1> QED  BY <1>9, <1>10, <1>11 DEF Tallied, c

(***************************************************************************)
(* A vote counted is recorded for its voter, and for nobody else.          *)
(***************************************************************************)
LEMMA CountVoteFields ==
  ASSUME NEW b \in Ballot, NEW voter \in Module, NEW vote \in VoteValue,
         MayVote(b, voter)
  PROVE  LET c == CountVote(b, voter, vote)
         IN  /\ c.key = b.key /\ c.threshold = b.threshold /\ c.eligible = b.eligible
             /\ c.result = b.result
             /\ \A v \in b.eligible : c.votes[v] = IF v = voter THEN vote ELSE b.votes[v]
             /\ YesVoters(c) = YesVoters(b) \union (IF vote = "YES" THEN {voter} ELSE {})
             /\ NoVoters(c) = NoVoters(b) \union (IF vote = "NO" THEN {voter} ELSE {})
<1> DEFINE c == CountVote(b, voter, vote)
<1>1. /\ c.key = b.key /\ c.threshold = b.threshold /\ c.eligible = b.eligible
      /\ c.result = b.result /\ c.votes = [b.votes EXCEPT ![voter] = vote]
  BY CountVoteType
<1> HIDE DEF c
<1>2. b.votes \in [Module -> VoteValue] /\ b.eligible \subseteq Module
  BY DEF Ballot
<1>3. \A v \in b.eligible : c.votes[v] = IF v = voter THEN vote ELSE b.votes[v]
  BY <1>1, <1>2
<1>4. voter \in b.eligible /\ b.votes[voter] = "ABSTAIN"
  BY DEF MayVote
<1>5. YesVoters(c) = YesVoters(b) \union (IF vote = "YES" THEN {voter} ELSE {})
  BY <1>1, <1>3, <1>4 DEF YesVoters
<1>6. NoVoters(c) = NoVoters(b) \union (IF vote = "NO" THEN {voter} ELSE {})
  BY <1>1, <1>3, <1>4 DEF NoVoters
<1> QED  BY <1>1, <1>3, <1>5, <1>6 DEF c

(***************************************************************************)
(* Completing a ballot touches neither votes nor counters.                 *)
(***************************************************************************)
LEMMA FinalizedFields ==
  ASSUME NEW b \in Ballot, NEW result \in Result
  PROVE  LET f == Finalized(b, result)
         IN  /\ f.result = result /\ f.completed
             /\ f.key = b.key /\ f.deadline = b.deadline /\ f.vote_count = b.vote_count
             /\ f.threshold = b.threshold /\ f.eligible = b.eligible /\ f.votes = b.votes
             /\ YesVoters(f) = YesVoters(b) /\ NoVoters(f) = NoVoters(b)
             /\ Tallied(b) => Tallied(f)
             /\ \A S : Carries(S, f) <=> Carries(S, b)
<1> DEFINE f == Finalized(b, result)
<1>1. /\ f.result = result /\ f.completed /\ f.key = b.key
      /\ f.deadline = b.deadline /\ f.eligible = b.eligible /\ f.votes = b.votes
      /\ f.vote_count = b.vote_count /\ f.yes_count = b.yes_count
      /\ f.no_count = b.no_count /\ f.threshold = b.threshold
  BY DEF Finalized, Ballot
<1> HIDE DEF f
<1>2. YesVoters(f) = YesVoters(b) /\ NoVoters(f) = NoVoters(b)
  BY <1>1 DEF YesVoters, NoVoters
<1>3. Tallied(b) => Tallied(f)
  BY <1>1, <1>2 DEF Tallied
<1>4. \A S : Carries(S, f) <=> Carries(S, b)
  BY <1>1 DEF Carries
<1> QED  BY <1>1, <1>2, <1>3, <1>4 DEF f

(***************************************************************************)
(* An open ballot can count one more vote, or has no free slot for one:    *)
(* what keeps on_vote from counting past the electorate.                   *)
(***************************************************************************)
Votable(b) ==
  \/ b.completed
  \/ b.vote_count < Cardinality(b.eligible)
  \/ \A v \in b.eligible : ~MayVote(b, v)

\* A ballot just stored has no votes and no voters.
LEMMA StoredBallotFresh ==
  ASSUME NEW key \in Key, NEW t \in Threshold \union {0}, NEW d \in Nat
  PROVE  LET b == StoredBallot(key, t, d)
         IN  /\ Tallied(b) /\ Votable(b)
             /\ b.key = key /\ b.deadline = d /\ b.result = "PENDING" /\ ~b.completed
             /\ b.vote_count = 0 /\ b.eligible = {}
<1> DEFINE b == StoredBallot(key, t, d)
<1>1. /\ b.key = key /\ b.deadline = d /\ b.result = "PENDING" /\ ~b.completed
      /\ b.eligible = {} /\ b.vote_count = 0 /\ b.yes_count = 0 /\ b.no_count = 0
  BY DEF StoredBallot
<1> HIDE DEF b
<1>2. YesVoters(b) = {} /\ NoVoters(b) = {}
  BY <1>1 DEF YesVoters, NoVoters
<1>3. Tallied(b)
  BY <1>1, <1>2, FS_EmptySet DEF Tallied
<1>4. Votable(b)
  BY <1>1 DEF Votable
<1> QED  BY <1>1, <1>3, <1>4 DEF b

\* The snapshot gives it voters, and perhaps the proposer's own vote.
LEMMA SnapshotFresh ==
  ASSUME NEW key \in Key, NEW t \in Threshold, NEW d \in Nat,
         NEW E \in SUBSET Module, NEW self \in BOOLEAN
  PROVE  LET b == SnapshotElectorate(StoredBallot(key, t, d), E, self)
         IN  /\ b \in Ballot /\ Tallied(b) /\ Votable(b)
             /\ b.key = key /\ b.deadline = d /\ b.result = "PENDING" /\ ~b.completed
             /\ self => key.proposer \in b.eligible
<1> DEFINE p == key.proposer
           s == StoredBallot(key, t, d)
           o == [s EXCEPT !.eligible = E]
           w == [o EXCEPT !.eligible = @ \union {o.key.proposer}]
           b == SnapshotElectorate(s, E, self)
<1>1. s \in Ballot
  BY StoredBallotType
<1>2. b \in Ballot
  BY <1>1, SnapshotType
<1>3. p \in Module
  BY DEF Key
<1>4. CASE ~self
  <2>1. b = o
    BY <1>4 DEF SnapshotElectorate
  <2>2. /\ b.key = key /\ b.deadline = d /\ b.result = "PENDING" /\ ~b.completed
        /\ b.eligible = E /\ b.vote_count = 0 /\ b.yes_count = 0 /\ b.no_count = 0
        /\ b.votes = [v \in Module |-> "ABSTAIN"]
    BY <2>1 DEF StoredBallot
  <2> HIDE DEF b
  <2>3. YesVoters(b) = {} /\ NoVoters(b) = {}
    BY <2>2 DEF YesVoters, NoVoters
  <2>4. Cardinality(b.eligible) \in Nat /\ (Cardinality(b.eligible) = 0 <=> E = {})
    BY <1>2, <2>2, VotersFinite, FS_EmptySet
  <2>5. Tallied(b)
    BY <2>2, <2>3, <2>4, FS_EmptySet DEF Tallied
  <2>6. Votable(b)
    BY <2>2, <2>4 DEF Votable
  <2> QED  BY <1>2, <1>4, <2>2, <2>5, <2>6 DEF b
<1>5. CASE self
  <2>1. b = CountVote(w, p, "YES")
    BY <1>5 DEF SnapshotElectorate, StoredBallot
  <2>2. /\ w.key = key /\ w.deadline = d /\ w.result = "PENDING" /\ ~w.completed
        /\ w.eligible = E \union {p} /\ w.vote_count = 0 /\ w.yes_count = 0
        /\ w.no_count = 0 /\ w.votes = [v \in Module |-> "ABSTAIN"]
    BY DEF StoredBallot
  <2>3. w \in Ballot
    BY <1>1, <1>3, <2>2 DEF Ballot
  <2> HIDE DEF b, w
  <2>4. YesVoters(w) = {} /\ NoVoters(w) = {}
    <3>1. \A v \in w.eligible : w.votes[v] = "ABSTAIN"
      BY <1>3, <2>2
    <3> QED  BY <3>1 DEF YesVoters, NoVoters
  <2>5. Cardinality(w.eligible) \in Nat /\ Cardinality(w.eligible) # 0
    BY <2>2, <2>3, VotersFinite, FS_EmptySet
  <2>6. Tallied(w)
    BY <2>2, <2>4, <2>5, FS_EmptySet DEF Tallied
  <2>7. MayVote(w, p)
    BY <1>3, <2>2 DEF MayVote
  <2>8. Tallied(b)
    <3>1. w.vote_count < Cardinality(w.eligible)
      BY <2>2, <2>5
    <3>2. "YES" \in VoteValue
      BY DEF VoteValue
    <3> HIDE DEF p
    <3> QED  BY <1>3, <2>1, <2>3, <2>6, <2>7, <3>1, <3>2, CountVoteTallied
  <2>9. /\ b.key = key /\ b.deadline = d /\ b.result = "PENDING" /\ ~b.completed
        /\ b.eligible = E \union {p} /\ b.vote_count = 1
        /\ b.votes = [w.votes EXCEPT ![p] = "YES"]
    <3>1. "YES" \in VoteValue
      BY DEF VoteValue
    <3>2. /\ b.key = w.key /\ b.deadline = w.deadline /\ b.result = w.result
          /\ b.completed = w.completed /\ b.eligible = w.eligible
          /\ b.vote_count = w.vote_count + 1
          /\ b.votes = [w.votes EXCEPT ![p] = "YES"]
      <4> HIDE DEF p
      <4> QED  BY <1>3, <2>1, <2>3, <3>1, CountVoteType
    <3> QED  BY <2>2, <3>2
  <2>10. Votable(b)
    <3>1. CASE E \subseteq {p}
      <4>1. b.eligible = {p} /\ b.votes[p] = "YES"
        BY <1>3, <2>2, <2>9, <3>1
      <4> QED  BY <4>1 DEF Votable, MayVote
    <3>2. CASE ~(E \subseteq {p})
      <4>1. PICK v \in b.eligible : v # p
        BY <2>9, <3>2
      <4>2. Cardinality(b.eligible) # 1
        <5>1. p \in b.eligible
          BY <2>9
        <5>2. ~\E x : b.eligible = {x}
          BY <4>1, <5>1
        <5> QED  BY <1>2, <5>2, VotersFinite, FS_Singleton
      <4>3. Cardinality(b.eligible) \in Nat /\ Cardinality(b.eligible) # 0
        BY <1>2, <2>9, VotersFinite, FS_EmptySet
      <4> QED  BY <2>9, <4>2, <4>3 DEF Votable
    <3> QED  BY <3>1, <3>2
  <2> QED  BY <1>2, <2>8, <2>9, <2>10 DEF b
<1> QED  BY <1>4, <1>5

(***************************************************************************)
(* The votes in a ballot just stored: none, or the proposer's own YES.     *)
(***************************************************************************)
LEMMA StoredVotes ==
  ASSUME NEW key \in Key, NEW t \in Threshold \union {0}, NEW d \in Nat
  PROVE  LET b == StoredBallot(key, t, d)
         IN  /\ b.threshold = t /\ b.eligible = {}
             /\ YesVoters(b) = {} /\ NoVoters(b) = {}
BY DEF StoredBallot, YesVoters, NoVoters

NewVotes(key, t, d, E, self) ==
  LET b == SnapshotElectorate(StoredBallot(key, t, d), E, self)
  IN  /\ b.threshold = t
      /\ \A v : v \in b.eligible <=> v \in E \/ (self /\ v = key.proposer)
      /\ \A v : v \in YesVoters(b) <=> self /\ v = key.proposer
      /\ \A v : v \notin NoVoters(b)

LEMMA SnapshotVotes ==
  ASSUME NEW key \in Key, NEW t \in Threshold, NEW d \in Nat,
         NEW E \in SUBSET Module, NEW self \in BOOLEAN
  PROVE  NewVotes(key, t, d, E, self)
<1> DEFINE p == key.proposer
           s == StoredBallot(key, t, d)
           o == [s EXCEPT !.eligible = E]
           w == [o EXCEPT !.eligible = @ \union {o.key.proposer}]
           b == SnapshotElectorate(s, E, self)
<1>1. p \in Module /\ s \in Ballot
  BY StoredBallotType DEF Key
<1>2. CASE ~self
  <2>1. b = o
    BY <1>2 DEF SnapshotElectorate
  <2>2. b.threshold = t /\ b.eligible = E /\ b.votes = [v \in Module |-> "ABSTAIN"]
    BY <2>1 DEF StoredBallot
  <2>3. YesVoters(b) = {} /\ NoVoters(b) = {}
    BY <2>2 DEF YesVoters, NoVoters
  <2> HIDE DEF b
  <2> QED  BY <1>2, <2>2, <2>3 DEF NewVotes, b
<1>3. CASE self
  <2>1. b = CountVote(w, p, "YES")
    BY <1>3 DEF SnapshotElectorate, StoredBallot
  <2>2. /\ w.threshold = t /\ w.eligible = E \union {p}
        /\ w.votes = [v \in Module |-> "ABSTAIN"]
    BY DEF StoredBallot
  <2>3. w \in Ballot
    BY <1>1, <2>2 DEF Ballot
  <2> HIDE DEF b, w
  <2>4. \A v \in w.eligible : w.votes[v] = "ABSTAIN"
    BY <1>1, <2>2
  <2>5. MayVote(w, p) /\ YesVoters(w) = {} /\ NoVoters(w) = {} /\ "YES" \in VoteValue
    BY <2>2, <2>4 DEF MayVote, YesVoters, NoVoters, VoteValue
  <2> HIDE DEF p
  <2>6. /\ b.threshold = w.threshold /\ b.eligible = w.eligible
        /\ YesVoters(b) = {p} /\ NoVoters(b) = {}
    BY <1>1, <2>1, <2>3, <2>5, CountVoteFields
  <2> QED  BY <1>3, <2>2, <2>6 DEF NewVotes, b, p
<1> QED  BY <1>2, <1>3

(***************************************************************************)
(* The early exit is sound: if evaluate_ballot rejects an open ballot that *)
(* has counted each voter heard once, no further votes could carry it.     *)
(***************************************************************************)
LEMMA RejectionHopeless ==
  ASSUME NEW b \in Ballot, Tallied(b), ~b.completed, Evaluate(b) = "REJECTED",
         NEW counted \in SUBSET b.eligible, b.vote_count = Cardinality(counted),
         NEW S \in SUBSET (b.eligible \ counted)
  PROVE  ~Carries(YesVoters(b) \union S, b)
<1> DEFINE e == Cardinality(b.eligible)
           s == Cardinality(S)
           u == Cardinality(YesVoters(b) \union S)
<1>1. IsFiniteSet(b.eligible) /\ e \in Nat /\ (e = 0 <=> b.eligible = {})
  BY VotersFinite, FS_EmptySet
<1>2. IsFiniteSet(counted) /\ IsFiniteSet(S)
  BY <1>1, FS_Subset
<1>3. s \in Nat /\ s + b.vote_count <= e
  <2>1. IsFiniteSet(counted \union S) /\ Cardinality(counted \union S) <= e
    BY <1>1, FS_Subset
  <2>2. counted \intersect S = {}
    OBVIOUS
  <2>3. Cardinality(counted \union S) = Cardinality(counted) + Cardinality(S)
    <3>1. Cardinality(counted \intersect S) = 0
      BY <2>2, FS_EmptySet
    <3>2. Cardinality(counted) \in Nat /\ Cardinality(S) \in Nat
      BY <1>2, FS_CardinalityType
    <3>3. Cardinality(counted \union S) =
            Cardinality(counted) + Cardinality(S) - Cardinality(counted \intersect S)
      BY <1>2, FS_Union
    <3> QED  BY <3>1, <3>2, <3>3
  <2> QED  BY <1>1, <1>2, <2>1, <2>3, FS_CardinalityType
<1>4. u \in Nat /\ u <= b.yes_count + s
  <2>1. IsFiniteSet(YesVoters(b)) /\ Cardinality(YesVoters(b)) = b.yes_count
    BY VotersFinite DEF Tallied
  <2>2. YesVoters(b) \intersect S \in SUBSET S
    OBVIOUS
  <2>3. Cardinality(YesVoters(b) \intersect S) \in Nat
    BY <1>2, <2>2, FS_Subset, FS_CardinalityType
  <2>4. /\ IsFiniteSet(YesVoters(b) \union S)
        /\ u = b.yes_count + s - Cardinality(YesVoters(b) \intersect S)
    BY <1>2, <2>1, FS_Union
  <2> QED  BY <1>3, <2>3, <2>4, BallotNumbers, FS_CardinalityType
<1>5. ASSUME Carries(YesVoters(b) \union S, b) PROVE FALSE
  <2>1. b.eligible # {} /\ e \in Nat \ {0}
    BY <1>1, <1>5 DEF Carries
  <2>2. Ratio(u, e) >= b.threshold
    BY <1>4, <1>5, <2>1, CarriesByRatio
  <2>3. CASE b.vote_count < e
    <3>0. Ratio(b.yes_count, e) \in Int
      BY <2>1, BallotNumbers, DivisionFloor DEF Ratio, FixedOne
    <3>1. MaxYes(b) \in Nat /\ u <= MaxYes(b)
      BY <1>1, <1>3, <1>4, <2>3, BallotNumbers DEF MaxYes
    <3>2. Ratio(MaxYes(b), e) >= b.threshold
      BY <1>4, <2>1, <2>2, <3>1, BallotNumbers, RatioMonotone
    <3>3. Ratio(b.yes_count, e) < b.threshold
      <4>1. ~Carries(YesVoters(b), b)
        BY EvaluateSound
      <4>2. ~(Ratio(b.yes_count, e) >= b.threshold)
        BY <2>1, <4>1, VotersFinite, CarriesByRatio DEF Tallied
      <4> QED  BY <4>2, <3>0, BallotNumbers
    <3>4. Ratio(MaxYes(b), e) \in Int
      BY <2>1, <3>1, DivisionFloor DEF Ratio, FixedOne
    <3>5. Evaluate(b) = "PENDING"
      <4> DEFINE w == b.vote_count < e
                 x == Ratio(MaxYes(b), e) < b.threshold
                 r == Ratio(b.yes_count, e) >= b.threshold
      <4>1. w /\ ~x /\ ~r
        BY <2>3, <3>2, <3>3, <3>4, <3>0, BallotNumbers
      <4>2. Evaluate(b) = IF e = 0 THEN "REJECTED"
                          ELSE IF w /\ x THEN "REJECTED"
                          ELSE IF r THEN "APPROVED"
                          ELSE IF w THEN "PENDING" ELSE "REJECTED"
        BY DEF Evaluate
      <4> HIDE DEF w, x, r
      <4> QED  BY <2>1, <4>1, <4>2
    <3> QED  BY <3>5
  <2>4. CASE ~(b.vote_count < e)
    <3>1. s = 0
      BY <1>1, <1>3, <2>4, BallotNumbers
    <3>2. S = {}
      BY <1>2, <3>1, FS_EmptySet
    <3>3. YesVoters(b) \union S = YesVoters(b)
      BY <3>2
    <3> QED  BY <1>5, <3>3, EvaluateSound
  <2> QED  BY <2>3, <2>4
<1> QED  BY <1>5

-----------------------------------------------------------------------------
(***************************************************************************)
(* Type correctness, one lemma per kind of step.                           *)
(***************************************************************************)
LEMMA InitTypeOK == Init => TypeOK
<1> SUFFICES ASSUME Init PROVE TypeOK
  OBVIOUS
<1>1. ASSUME NEW m \in Engine
      PROVE  StoredBallot([proposer |-> m, id |-> InvalidId], 0, 0) \in Ballot
  <2>1. [proposer |-> m, id |-> InvalidId] \in Key
    BY RulesAssumption, ConsensusAssumption DEF Key, Id, InvalidId
  <2> QED  BY <2>1, StoredBallotType
<1>2. ballots \in [Engine -> [Handle -> Ballot]]
  BY <1>1 DEF Init
<1>3. next_ballot_id \in [Engine -> Id]
  BY RulesAssumption DEF Init, NextId, InvalidId, Id
<1>4. allocated \in [Engine -> 0 .. MaxHandles]
  BY ConsensusAssumption DEF Init
<1>5. config \in [Engine -> Configs]
  BY DEF Init
<1> QED  BY <1>2, <1>3, <1>4, <1>5 DEF Init, TypeOK

LEMMA StoreType ==
  ASSUME TypeOK, NEW m \in Engine, NEW ballot \in Ballot, NEW voters \in SUBSET Module,
         Store(m, ballot, voters)
  PROVE  /\ ballots' \in [Engine -> [Handle -> Ballot]]
         /\ active' \in [Engine -> SUBSET Handle]
         /\ allocated' \in [Engine -> 0 .. MaxHandles]
         /\ heard' \in [Engine -> [Handle -> SUBSET Module]]
<1> DEFINE h == allocated[m] + 1
<1>1. h \in Handle /\ h \in 0 .. MaxHandles
  BY ConsensusAssumption DEF TypeOK, Store, Handle
<1>2. /\ allocated' = [allocated EXCEPT ![m] = h]
      /\ active' = [active EXCEPT ![m] = @ \union {h}]
      /\ ballots' = [ballots EXCEPT ![m][h] = ballot]
      /\ heard' = [heard EXCEPT ![m][h] = voters]
  BY DEF Store
<1> HIDE DEF h
<1> QED  BY <1>1, <1>2 DEF TypeOK

LEMMA FinalizeType ==
  ASSUME TypeOK, NEW m \in Engine, NEW h \in Handle, NEW ballot \in Ballot,
         NEW result \in Result, Finalize(m, h, ballot, result)
  PROVE  /\ ballots' \in [Engine -> [Handle -> Ballot]]
         /\ reported' \in [Engine -> [Handle -> Nat]]
<1>1. Finalized(ballot, result) \in Ballot
  BY FinalizedType
<1> QED  BY <1>1 DEF TypeOK, Finalize

LEMMA NewBallotType ==
  ASSUME TypeOK, NEW m \in Engine, NEW t \in Threshold
  PROVE  /\ [proposer |-> m, id |-> next_ballot_id[m]] \in Key
         /\ now[m] + VoteTimeout \in Nat
         /\ electorate[m] \in SUBSET Module /\ config[m].allow_self_vote \in BOOLEAN
         /\ NewBallot(m, t) \in Ballot
<1>1. [proposer |-> m, id |-> next_ballot_id[m]] \in Key
  BY ConsensusAssumption DEF TypeOK, Key
<1>2. now[m] + VoteTimeout \in Nat
  BY ConsensusAssumption DEF TypeOK
<1>3. electorate[m] \in SUBSET Module /\ config[m].allow_self_vote \in BOOLEAN
  BY ConsensusAssumption DEF TypeOK
<1>4. StoredBallot([proposer |-> m, id |-> next_ballot_id[m]], t, now[m] + VoteTimeout)
        \in Ballot
  BY <1>1, <1>2, StoredBallotType
<1> QED  BY <1>1, <1>2, <1>3, <1>4, SnapshotType DEF NewBallot

(***************************************************************************)
(* The proposer, if it votes itself, and all who may vote in its ballot.   *)
(***************************************************************************)
Self(m) == IF config[m].allow_self_vote THEN {m} ELSE {}
Entitled(m) == electorate[m] \union Self(m)

\* What ekk_consensus_propose stores.
LEMMA NewBallotFields ==
  ASSUME TypeOK, NEW m \in Engine, NEW t \in Threshold
  PROVE  /\ NewBallot(m, t).key = [proposer |-> m, id |-> next_ballot_id[m]]
         /\ NewBallot(m, t).result = "PENDING" /\ NewBallot(m, t).threshold = t
         /\ NewBallot(m, t).eligible = Entitled(m) /\ Entitled(m) \subseteq Module
         /\ YesVoters(NewBallot(m, t)) = Self(m) /\ NoVoters(NewBallot(m, t)) = {}
<1> DEFINE k == [proposer |-> m, id |-> next_ballot_id[m]]
           d == now[m] + VoteTimeout
           self == config[m].allow_self_vote
           E == electorate[m]
<1>1. k \in Key /\ d \in Nat /\ E \in SUBSET Module /\ self \in BOOLEAN
  BY NewBallotType
<1>2. NewBallot(m, t) = SnapshotElectorate(StoredBallot(k, t, d), E, self)
  BY DEF NewBallot
<1>3. Self(m) \in SUBSET Module /\ \A v : v \in Self(m) <=> self /\ v = k.proposer
  BY ConsensusAssumption DEF Self
<1> HIDE DEF k, d, self, E
<1>4. LET b == SnapshotElectorate(StoredBallot(k, t, d), E, self)
      IN  b.key = k /\ b.result = "PENDING"
  BY <1>1, SnapshotFresh
<1>8. NewVotes(k, t, d, E, self)
  BY <1>1, SnapshotVotes
<1> DEFINE b == NewBallot(m, t)
<1>5. /\ b.key = k /\ b.result = "PENDING" /\ b.threshold = t
      /\ \A v : v \in b.eligible <=> v \in Entitled(m)
      /\ \A v : v \in YesVoters(b) <=> v \in Self(m)
      /\ \A v : v \notin NoVoters(b)
  BY <1>2, <1>3, <1>4, <1>8 DEF NewVotes, Entitled, E
<1>6. Entitled(m) \subseteq Module
  BY <1>1, <1>3 DEF Entitled, E
<1> HIDE DEF b
<1>7. b.eligible = Entitled(m) /\ YesVoters(b) = Self(m) /\ NoVoters(b) = {}
  <2>1. b.eligible \subseteq Entitled(m) /\ YesVoters(b) \subseteq b.eligible
    BY <1>5 DEF YesVoters
  <2> QED  BY <1>5, <2>1
<1> QED  BY <1>5, <1>6, <1>7 DEF k, b

LEMMA TrackedBallotType ==
  ASSUME TypeOK, NEW m \in Engine, NEW key \in Key, NEW t \in Threshold
  PROVE  TrackedBallot(m, key, t) \in Ballot
<1>1. now[m] + VoteTimeout \in Nat
  BY ConsensusAssumption DEF TypeOK
<1> QED  BY <1>1, StoredBallotType DEF TrackedBallot

LEMMA SendVoteType ==
  ASSUME TypeOK, NEW m \in Engine, NEW key \in Key, NEW v \in Vote, SendVote(m, key, v)
  PROVE  votes' \subseteq VoteMsg
<1>1. [from |-> m, key |-> key, vote |-> v] \in VoteMsg
  BY ConsensusAssumption DEF VoteMsg
<1> QED  BY <1>1 DEF TypeOK, SendVote

LEMMA SendInhibitType ==
  ASSUME TypeOK, NEW m \in Engine, NEW key \in Key, SendInhibit(m, key)
  PROVE  inhibits' \subseteq InhibitMsg
<1>1. [from |-> m, key |-> key] \in InhibitMsg
  BY ConsensusAssumption DEF InhibitMsg
<1> QED  BY <1>1 DEF TypeOK, SendInhibit

LEMMA ListInhibitionType ==
  ASSUME TypeOK, NEW m \in Engine, NEW key \in Key, ListInhibition(m, key)
  PROVE  inhibited' \in [Engine -> SUBSET Inhibition] /\ listed' \in [Engine -> Nat]
<1> DEFINE until == now[m] + InhibitDuration
           same == {e \in inhibited[m] : e.key = key}
           oldest == {e \in inhibited[m] :
                        /\ Cardinality(inhibited[m]) >= MaxBallots
                        /\ \A f \in inhibited[m] : e.nth <= f.nth}
           new == [key |-> key, until |-> until, nth |-> listed[m] + 1]
           renewed == {[e EXCEPT !.until = until] : e \in same}
<1>1. until \in Nat
  BY ConsensusAssumption DEF TypeOK
<1>2. inhibited[m] \subseteq Inhibition
  BY DEF TypeOK
<1>3. renewed \subseteq Inhibition
  BY <1>1, <1>2 DEF Inhibition
<1>4. new \in Inhibition
  BY <1>1 DEF TypeOK, Inhibition
<1>5. \/ /\ inhibited' = [inhibited EXCEPT ![m] = (@ \ same) \union renewed]
         /\ listed' = listed
      \/ /\ inhibited' = [inhibited EXCEPT ![m] = (@ \ oldest) \union {new}]
         /\ listed' = [listed EXCEPT ![m] = @ + 1]
  BY DEF ListInhibition
<1>6. listed[m] + 1 \in Nat
  BY DEF TypeOK
<1> HIDE DEF renewed, new, same, oldest
<1>7. (inhibited[m] \ same) \union renewed \in SUBSET Inhibition
  BY <1>2, <1>3
<1>8. (inhibited[m] \ oldest) \union {new} \in SUBSET Inhibition
  BY <1>2, <1>4
<1>9. inhibited \in [Engine -> SUBSET Inhibition] /\ listed \in [Engine -> Nat]
  BY DEF TypeOK
<1>10. CASE /\ inhibited' = [inhibited EXCEPT ![m] = (@ \ same) \union renewed]
            /\ listed' = listed
  BY <1>7, <1>9, <1>10
<1>11. CASE /\ inhibited' = [inhibited EXCEPT ![m] = (@ \ oldest) \union {new}]
            /\ listed' = [listed EXCEPT ![m] = @ + 1]
  BY <1>6, <1>8, <1>9, <1>11
<1> QED  BY <1>5, <1>10, <1>11

LEMMA RecordInhibitionType ==
  ASSUME TypeOK, NEW m \in Engine, NEW key \in Key, RecordInhibition(m, key),
         inhibits' \subseteq InhibitMsg
  PROVE  TypeOK'
<1>1. inhibited' \in [Engine -> SUBSET Inhibition] /\ listed' \in [Engine -> Nat]
  BY ListInhibitionType DEF RecordInhibition
<1>2. /\ ballots' \in [Engine -> [Handle -> Ballot]]
      /\ reported' \in [Engine -> [Handle -> Nat]]
  <2>1. ASSUME NEW h \in Handle, Finalize(m, h, ballots[m][h], "CANCELLED")
        PROVE  /\ ballots' \in [Engine -> [Handle -> Ballot]]
               /\ reported' \in [Engine -> [Handle -> Nat]]
    <3>1. ballots[m][h] \in Ballot /\ "CANCELLED" \in Result
      BY DEF TypeOK, Result
    <3> QED  BY <2>1, <3>1, FinalizeType
  <2>2. CASE UNCHANGED <<ballots, reported>>
    BY <2>2 DEF TypeOK
  <2> QED  BY <2>1, <2>2 DEF RecordInhibition, CancelBallot, Cancellable
<1>3. UNCHANGED <<config, electorate, next_ballot_id, active, allocated, now,
                  proposals, votes, heard>>
  BY DEF RecordInhibition
<1> QED  BY <1>1, <1>2, <1>3 DEF TypeOK

LEMMA CallTypeOK ==
  ASSUME TypeOK, NEW m \in Engine, Call(m)
  PROVE  TypeOK'
<1>1. ASSUME NEW voters \in SUBSET Module, SetElectorate(m, voters)
      PROVE  TypeOK'
  BY <1>1 DEF TypeOK, SetElectorate, network
<1>2. ASSUME NEW t \in Threshold, Propose(m, t)
      PROVE  TypeOK'
  <2> DEFINE own == IF config[m].allow_self_vote THEN {m} ELSE {}
  <2>1. NewBallot(m, t) \in Ballot /\ own \in SUBSET Module
    BY NewBallotType, ConsensusAssumption
  <2>2. Store(m, NewBallot(m, t), own)
    BY <1>2 DEF Propose
  <2>3. next_ballot_id' \in [Engine -> Id]
    <3>1. next_ballot_id' = [next_ballot_id EXCEPT ![m] = NextId(@)]
      BY <1>2 DEF Propose
    <3>2. NextId(next_ballot_id[m]) \in Id
      BY RulesAssumption DEF TypeOK, NextId, Id
    <3> QED  BY <3>1, <3>2 DEF TypeOK
  <2>4. proposals' \subseteq ProposalMsg
    <3>1. NewBallot(m, t).key \in Key
      BY <2>1 DEF Ballot
    <3>2. proposals' \subseteq
            proposals \union {[key |-> NewBallot(m, t).key, threshold |-> t]}
      BY <1>2 DEF Propose, BroadcastProposal
    <3> QED  BY <3>1, <3>2 DEF TypeOK, ProposalMsg
  <2>5. UNCHANGED <<config, electorate, inhibited, listed, now, votes, inhibits, reported>>
    BY <1>2 DEF Propose
  <2> HIDE DEF own
  <2> QED  BY <2>1, <2>2, <2>3, <2>4, <2>5, StoreType DEF TypeOK
<1>3. ASSUME NEW key \in Key, NEW v \in Vote, CastVote(m, key, v)
      PROVE  TypeOK'
  BY <1>3, SendVoteType DEF TypeOK, CastVote
<1>4. ASSUME NEW key \in Key, Inhibit(m, key)
      PROVE  TypeOK'
  BY <1>4, RecordInhibitionType, SendInhibitType DEF Inhibit
<1> QED  BY <1>1, <1>2, <1>3, <1>4 DEF Call
LEMMA ReceiveTypeOK ==
  ASSUME TypeOK, NEW m \in Engine, Receive(m)
  PROVE  TypeOK'
<1>1. ASSUME NEW voter \in Module, NEW id \in Id, NEW v \in Vote, OnVote(m, voter, id, v)
      PROVE  TypeOK'
  <2>1. PICK h \in Handle :
          LET counted == CountVote(ballots[m][h], voter, v)
          IN  /\ heard' = [heard EXCEPT ![m][h] = @ \union {voter}]
              /\ IF Evaluate(counted) = "PENDING"
                 THEN ballots' = [ballots EXCEPT ![m][h] = counted] /\ UNCHANGED reported
                 ELSE Finalize(m, h, counted, Evaluate(counted))
    BY <1>1 DEF OnVote
  <2> DEFINE counted == CountVote(ballots[m][h], voter, v)
  <2>2. counted \in Ballot
    <3>1. ballots[m][h] \in Ballot /\ v \in VoteValue
      BY ConsensusAssumption DEF TypeOK
    <3> QED  BY <3>1, CountVoteType
  <2>3. Evaluate(counted) \in Result
    BY <2>2, EvaluateType
  <2> HIDE DEF counted
  <2>4. /\ ballots' \in [Engine -> [Handle -> Ballot]]
        /\ reported' \in [Engine -> [Handle -> Nat]]
    <3>1. CASE Evaluate(counted) = "PENDING"
      <4>1. ballots' = [ballots EXCEPT ![m][h] = counted] /\ UNCHANGED reported
        BY <2>1, <3>1 DEF counted
      <4> QED  BY <2>2, <4>1 DEF TypeOK
    <3>2. CASE Evaluate(counted) # "PENDING"
      <4>1. Finalize(m, h, counted, Evaluate(counted))
        BY <2>1, <3>2 DEF counted
      <4> QED  BY <2>2, <2>3, <4>1, FinalizeType
    <3> QED  BY <3>1, <3>2
  <2>5. heard' \in [Engine -> [Handle -> SUBSET Module]]
    BY <2>1 DEF TypeOK
  <2>6. UNCHANGED <<config, electorate, next_ballot_id, active, allocated,
                    inhibited, listed, now, proposals, votes, inhibits>>
    BY <1>1 DEF OnVote, network
  <2> QED  BY <2>4, <2>5, <2>6 DEF TypeOK
<1>2. ASSUME NEW key \in Key, NEW t \in Threshold, RefuseInhibited(m, key, t)
      PROVE  TypeOK'
  BY <1>2, SendInhibitType DEF TypeOK, RefuseInhibited
<1>3. ASSUME NEW key \in Key, NEW t \in Threshold, RefuseFull(m, key, t)
      PROVE  TypeOK'
  <2>1. votes' \subseteq VoteMsg
    <3>1. [from |-> m, key |-> key, vote |-> "NO"] \in VoteMsg
      BY ConsensusAssumption DEF VoteMsg, VoteValue
    <3> QED  BY <1>3, <3>1 DEF TypeOK, RefuseFull, SendVote
  <2> QED  BY <1>3, <2>1 DEF TypeOK, RefuseFull
<1>4. ASSUME NEW key \in Key, NEW t \in Threshold, NEW v \in Vote,
             AcceptProposal(m, key, t, v)
      PROVE  TypeOK'
  <2>1. /\ Store(m, TrackedBallot(m, key, t), {})
        /\ UNCHANGED <<config, electorate, next_ballot_id, inhibited, listed, now,
                       proposals, inhibits, reported>>
    BY <1>4 DEF AcceptProposal
  <2>2. votes' \subseteq VoteMsg
    BY <1>4, SendVoteType DEF AcceptProposal
  <2>3. TrackedBallot(m, key, t) \in Ballot /\ {} \in SUBSET Module
    BY TrackedBallotType
  <2> QED  BY <2>1, <2>2, <2>3, StoreType DEF TypeOK
<1>5. ASSUME NEW sender \in Module, NEW key \in Key, OnInhibit(m, sender, key)
      PROVE  TypeOK'
  <2>1. inhibits' \subseteq InhibitMsg
    BY <1>5 DEF TypeOK, OnInhibit
  <2> QED  BY <1>5, <2>1, RecordInhibitionType DEF OnInhibit
<1> QED  BY <1>1, <1>2, <1>3, <1>4, <1>5 DEF Receive

LEMMA TickResultType ==
  ASSUME TypeOK, NEW m \in Engine, NEW b \in Ballot
  PROVE  TickResult(m, b) \in Result
<1>1. Evaluate(b) \in Result
  BY EvaluateType
<1> QED  BY <1>1 DEF TickResult, DeadlineResult, Result

LEMMA TickTypeOK ==
  ASSUME TypeOK, NEW m \in Engine, Tick(m) \/ AdvanceTime(m)
  PROVE  TypeOK'
<1>1. CASE Tick(m)
  <2> DEFINE due == Due(m)
  <2>1. ASSUME NEW h \in Handle
        PROVE  Finalized(ballots[m][h], TickResult(m, ballots[m][h])) \in Ballot
    <3>1. ballots[m][h] \in Ballot
      BY DEF TypeOK
    <3> QED  BY <3>1, TickResultType, FinalizedType
  <2> DEFINE table == [h \in Handle |->
                IF h \in due THEN Finalized(ballots[m][h], TickResult(m, ballots[m][h]))
                ELSE ballots[m][h]]
             calls == [h \in Handle |->
                IF h \in due THEN reported[m][h] + 1 ELSE reported[m][h]]
  <2>2. table \in [Handle -> Ballot] /\ calls \in [Handle -> Nat]
    BY <2>1 DEF TypeOK
  <2>3. /\ ballots' = [ballots EXCEPT ![m] = table]
        /\ reported' = [reported EXCEPT ![m] = calls]
    BY <1>1 DEF Tick
  <2> HIDE DEF table, calls
  <2>4. /\ ballots' \in [Engine -> [Handle -> Ballot]]
        /\ reported' \in [Engine -> [Handle -> Nat]]
    BY <2>2, <2>3 DEF TypeOK
  <2>5. active' \in [Engine -> SUBSET Handle]
    <3>1. Cleanup(m, due) \in SUBSET Handle
      BY DEF TypeOK, Cleanup
    <3> QED  BY <1>1, <3>1 DEF TypeOK, Tick
  <2>6. inhibited' \in [Engine -> SUBSET Inhibition]
    BY <1>1 DEF TypeOK, Tick
  <2>7. UNCHANGED <<config, electorate, next_ballot_id, allocated, listed, now,
                    proposals, votes, inhibits, heard>>
    BY <1>1 DEF Tick, network
  <2> QED  BY <2>4, <2>5, <2>6, <2>7 DEF TypeOK
<1>2. CASE AdvanceTime(m)
  <2>1. now' \in [Engine -> Nat]
    BY <1>2 DEF TypeOK, AdvanceTime
  <2> QED  BY <1>2, <2>1 DEF TypeOK, AdvanceTime, network
<1> QED  BY <1>1, <1>2

LEMMA NextTypeOK ==
  ASSUME TypeOK, [Next]_vars
  PROVE  TypeOK'
<1>1. CASE UNCHANGED vars
  BY <1>1 DEF TypeOK, vars
<1>2. CASE Next
  BY <1>2, CallTypeOK, ReceiveTypeOK, TickTypeOK DEF Next
<1> QED  BY <1>1, <1>2

(***************************************************************************)
(* Every variable holds values of its type in every reachable state: ids   *)
(* and keys stay in range, tables hold ballots and entries only.           *)
(***************************************************************************)
THEOREM TypeCorrect == Spec => []TypeOK
<1>1. Spec => Init /\ [][Next]_vars
  BY DEF Spec
<1>2. TypeOK /\ [Next]_vars => TypeOK'
  BY NextTypeOK
<1> QED  BY <1>1, <1>2, InitTypeOK, PTL

-----------------------------------------------------------------------------
(***************************************************************************)
(* What a step of any engine does to one ballot: nothing, or one of three. *)
(* The ballot h of engine m is kept; it is stored; a vote on it is counted *)
(* (and may decide it); it is ended by its deadline or an inhibition.      *)
(***************************************************************************)
Keeps(m, h) ==
  /\ ballots'[m][h] = ballots[m][h]
  /\ heard'[m][h] = heard[m][h]
  /\ reported'[m][h] = reported[m][h]
  /\ h > allocated'[m] <=> h > allocated[m]

Opens(m, h) ==
  /\ h = allocated[m] + 1 /\ h = allocated'[m]
  /\ reported'[m][h] = reported[m][h]
  /\ \/ \E key \in Key, t \in Threshold :
          /\ key.proposer # m /\ ~Known(m, key) /\ ~Inhibited(m, key)
          /\ ballots'[m][h] = TrackedBallot(m, key, t) /\ heard'[m][h] = {}
          /\ next_ballot_id'[m] = next_ballot_id[m]
     \/ \E t \in Threshold :
          /\ ballots'[m][h] = NewBallot(m, t)
          /\ heard'[m][h] = IF config[m].allow_self_vote THEN {m} ELSE {}
          /\ next_ballot_id'[m] = NextId(next_ballot_id[m])

Counts(m, h) ==
  /\ h \in active[m] /\ ~ballots[m][h].completed
  /\ \E voter \in Module, vote \in VoteValue :
       /\ MayVote(ballots[m][h], voter)
       /\ voter \in Engine =>
            [from |-> voter, key |-> ballots[m][h].key, vote |-> vote] \in votes
       /\ heard'[m][h] = heard[m][h] \union {voter}
       /\ LET counted == CountVote(ballots[m][h], voter, vote)
              result  == Evaluate(counted)
          IN  \/ /\ result = "PENDING"
                 /\ ballots'[m][h] = counted
                 /\ reported'[m][h] = reported[m][h]
              \/ /\ result # "PENDING"
                 /\ ballots'[m][h] = Finalized(counted, result)
                 /\ reported'[m][h] = reported[m][h] + 1

Ends(m, h) ==
  /\ h \in active[m] /\ ~ballots[m][h].completed
  /\ heard'[m][h] = heard[m][h]
  /\ reported'[m][h] = reported[m][h] + 1
  /\ \/ ballots'[m][h] = Finalized(ballots[m][h], "CANCELLED")
     \/ /\ now[m] >= ballots[m][h].deadline
        /\ ballots'[m][h] = Finalized(ballots[m][h], DeadlineResult(m, ballots[m][h]))

BallotStep(m, h) == Keeps(m, h) \/ Opens(m, h) \/ Counts(m, h) \/ Ends(m, h)

(***************************************************************************)
(* What a step does to the table of one engine: nothing, or it grows by    *)
(* the ballot stored, or completed ballots leave it.                       *)
(***************************************************************************)
TableStep(m) ==
  \/ allocated'[m] = allocated[m] /\ active'[m] = active[m]
  \/ /\ ~Full(m)
     /\ allocated'[m] = allocated[m] + 1
     /\ active'[m] = active[m] \union {allocated[m] + 1}
  \/ /\ allocated'[m] = allocated[m]
     /\ active'[m] \subseteq active[m]
     /\ \A h \in active[m] \ active'[m] : ballots'[m][h].completed

EngineStep(m) ==
  /\ \A h \in Handle : BallotStep(m, h)
  /\ TableStep(m)
  /\ allocated'[m] = allocated[m] => next_ballot_id'[m] = next_ballot_id[m]
  /\ votes \subseteq votes'
  /\ now'[m] \in Nat /\ now'[m] >= now[m]

\* Storing a ballot opens it and keeps all others.
LEMMA StoreStep ==
  ASSUME TypeOK, NEW n \in Engine, NEW ballot \in Ballot, NEW voters \in SUBSET Module,
         Store(n, ballot, voters), UNCHANGED <<now, reported>>, votes \subseteq votes',
         \/ \E key \in Key, t \in Threshold :
              /\ key.proposer # n /\ ~Known(n, key) /\ ~Inhibited(n, key)
              /\ ballot = TrackedBallot(n, key, t) /\ voters = {}
              /\ next_ballot_id' = next_ballot_id
         \/ \E t \in Threshold :
              /\ ballot = NewBallot(n, t)
              /\ voters = IF config[n].allow_self_vote THEN {n} ELSE {}
              /\ next_ballot_id' = [next_ballot_id EXCEPT ![n] = NextId(@)],
         NEW m \in Engine
  PROVE  EngineStep(m)
<1> DEFINE g == allocated[n] + 1
<1>1. /\ g \in Handle /\ ~Full(n)
      /\ allocated' = [allocated EXCEPT ![n] = g]
      /\ active' = [active EXCEPT ![n] = @ \union {g}]
      /\ ballots' = [ballots EXCEPT ![n][g] = ballot]
      /\ heard' = [heard EXCEPT ![n][g] = voters]
  BY ConsensusAssumption DEF TypeOK, Store, Handle
<1>2. /\ allocated \in [Engine -> 0 .. MaxHandles] /\ active \in [Engine -> SUBSET Handle]
      /\ ballots \in [Engine -> [Handle -> Ballot]] /\ now \in [Engine -> Nat]
      /\ heard \in [Engine -> [Handle -> SUBSET Module]]
      /\ next_ballot_id \in [Engine -> Id]
  BY DEF TypeOK
<1>3. TableStep(m)
  BY <1>1, <1>2 DEF TableStep
<1>4. ASSUME NEW h \in Handle PROVE BallotStep(m, h)
  <2>1. CASE m = n /\ h = g
    <3>1. /\ ballots'[m][h] = ballot /\ heard'[m][h] = voters
          /\ allocated'[m] = h /\ reported'[m][h] = reported[m][h]
      BY <1>1, <1>2, <2>1
    <3>2. next_ballot_id' = next_ballot_id => next_ballot_id'[m] = next_ballot_id[m]
      OBVIOUS
    <3>3. next_ballot_id' = [next_ballot_id EXCEPT ![n] = NextId(@)] =>
            next_ballot_id'[m] = NextId(next_ballot_id[m])
      BY <1>2, <2>1
    <3>4. h = allocated[m] + 1
      BY <2>1
    <3> HIDE DEF g
    <3>5. Opens(m, h)
      BY <2>1, <3>1, <3>2, <3>3, <3>4 DEF Opens
    <3> QED  BY <3>5 DEF BallotStep
  <2>2. CASE ~(m = n /\ h = g)
    <3>1. /\ ballots'[m][h] = ballots[m][h] /\ heard'[m][h] = heard[m][h]
          /\ reported'[m][h] = reported[m][h]
      BY <1>1, <1>2, <2>2
    <3>2. h > allocated'[m] <=> h > allocated[m]
      BY <1>1, <1>2, <2>2 DEF Handle
    <3>3. Keeps(m, h)
      BY <3>1, <3>2 DEF Keeps
    <3> QED  BY <3>3 DEF BallotStep
  <2> QED  BY <2>1, <2>2
<1>5. now'[m] \in Nat /\ now'[m] >= now[m]
  BY <1>2
<1>6. allocated'[m] = allocated[m] => next_ballot_id'[m] = next_ballot_id[m]
  BY <1>1, <1>2
<1> QED  BY <1>3, <1>4, <1>5, <1>6 DEF EngineStep

(***************************************************************************)
(* A step that leaves tables, votes heard and clocks alone and changes at  *)
(* most the ballot g of engine n.                                          *)
(***************************************************************************)
LEMMA QuietStep ==
  ASSUME TypeOK, votes \subseteq votes', NEW m \in Engine,
         UNCHANGED <<next_ballot_id, ballots, active, allocated, now, reported, heard>>
  PROVE  EngineStep(m)
BY DEF TypeOK, EngineStep, TableStep, BallotStep, Keeps

\* An inhibition ends the ballots of its key, by cancelling them, and keeps
\* the others.
LEMMA CancelStep ==
  ASSUME TypeOK, NEW n \in Engine, NEW key \in Key, RecordInhibition(n, key),
         NEW m \in Engine
  PROVE  EngineStep(m)
<1>1. UNCHANGED <<next_ballot_id, active, allocated, now, votes, heard>>
  BY DEF RecordInhibition
<1>2. CASE UNCHANGED <<ballots, reported>>
  BY <1>1, <1>2, QuietStep
<1>3. ASSUME NEW g \in Cancellable(n, key), Finalize(n, g, ballots[n][g], "CANCELLED")
      PROVE  EngineStep(m)
  <2>1. g \in Handle /\ g \in active[n] /\ ~ballots[n][g].completed
    BY DEF Cancellable, Find
  <2>2. /\ ballots' = [ballots EXCEPT ![n][g] = Finalized(ballots[n][g], "CANCELLED")]
        /\ reported' = [reported EXCEPT ![n][g] = @ + 1]
    BY <1>3 DEF Finalize
  <2>3. /\ ballots \in [Engine -> [Handle -> Ballot]] /\ now \in [Engine -> Nat]
        /\ reported \in [Engine -> [Handle -> Nat]]
    BY DEF TypeOK
  <2>4. ASSUME NEW h \in Handle PROVE BallotStep(m, h)
    <3>1. CASE m = n /\ h = g
      <4>1. /\ ballots'[m][h] = Finalized(ballots[m][h], "CANCELLED")
            /\ reported'[m][h] = reported[m][h] + 1
        BY <2>2, <2>3, <3>1
      <4> QED  BY <1>1, <2>1, <3>1, <4>1 DEF BallotStep, Ends
    <3>2. CASE ~(m = n /\ h = g)
      <4>1. ballots'[m][h] = ballots[m][h] /\ reported'[m][h] = reported[m][h]
        BY <2>1, <2>2, <2>3, <3>2
      <4> QED  BY <1>1, <4>1 DEF BallotStep, Keeps
    <3> QED  BY <3>1, <3>2
  <2> QED  BY <1>1, <2>3, <2>4 DEF EngineStep, TableStep
<1> QED  BY <1>2, <1>3 DEF RecordInhibition, CancelBallot

\* A vote is counted on one ballot, which it may end, or changes nothing.
LEMMA VoteStep ==
  ASSUME TypeOK, NEW n \in Engine, NEW voter \in Module, NEW id \in Id, NEW v \in Vote,
         OnVote(n, voter, id, v), NEW m \in Engine
  PROVE  EngineStep(m)
<1>1. PICK g \in Handle :
        /\ g \in active[n] /\ ~ballots[n][g].completed
        /\ MayVote(ballots[n][g], voter)
        /\ voter \in Engine =>
             [from |-> voter, key |-> ballots[n][g].key, vote |-> v] \in votes
        /\ heard' = [heard EXCEPT ![n][g] = @ \union {voter}]
        /\ LET counted == CountVote(ballots[n][g], voter, v)
               result  == Evaluate(counted)
           IN  IF result = "PENDING"
               THEN ballots' = [ballots EXCEPT ![n][g] = counted] /\ UNCHANGED reported
               ELSE Finalize(n, g, counted, result)
  BY DEF OnVote, Find
<1> DEFINE counted == CountVote(ballots[n][g], voter, v)
           result  == Evaluate(counted)
<1>2. UNCHANGED <<next_ballot_id, active, allocated, now, votes>>
  BY DEF OnVote, network
<1>3. /\ ballots \in [Engine -> [Handle -> Ballot]] /\ now \in [Engine -> Nat]
      /\ reported \in [Engine -> [Handle -> Nat]]
      /\ heard \in [Engine -> [Handle -> SUBSET Module]]
  BY DEF TypeOK
<1>4. v \in VoteValue
  BY ConsensusAssumption
<1>5. \/ /\ result = "PENDING"
         /\ ballots' = [ballots EXCEPT ![n][g] = counted]
         /\ reported' = reported
      \/ /\ result # "PENDING"
         /\ ballots' = [ballots EXCEPT ![n][g] = Finalized(counted, result)]
         /\ reported' = [reported EXCEPT ![n][g] = @ + 1]
  BY <1>1 DEF Finalize
<1> HIDE DEF counted, result
<1>6. ASSUME NEW h \in Handle PROVE BallotStep(m, h)
  <2>1. CASE m = n /\ h = g
    <3>1. \/ /\ result = "PENDING"
             /\ ballots'[m][h] = counted /\ reported'[m][h] = reported[m][h]
          \/ /\ result # "PENDING"
             /\ ballots'[m][h] = Finalized(counted, result)
             /\ reported'[m][h] = reported[m][h] + 1
      BY <1>3, <1>5, <2>1
    <3>2. heard'[m][h] = heard[m][h] \union {voter}
      BY <1>1, <1>3, <2>1
    <3>3. Counts(m, h)
      BY <1>1, <1>4, <2>1, <3>1, <3>2 DEF Counts, counted, result
    <3> QED  BY <3>3 DEF BallotStep
  <2>2. CASE ~(m = n /\ h = g)
    <3>1. ballots'[m][h] = ballots[m][h] /\ reported'[m][h] = reported[m][h]
      BY <1>3, <1>5, <2>2
    <3>2. heard'[m][h] = heard[m][h]
      BY <1>1, <1>3, <2>2
    <3> QED  BY <1>2, <3>1, <3>2 DEF BallotStep, Keeps
  <2> QED  BY <2>1, <2>2
<1> QED  BY <1>2, <1>3, <1>6 DEF EngineStep, TableStep

\* A tick ends some of the ballots in the table.
LEMMA TickStep ==
  ASSUME TypeOK, NEW n \in Engine, Tick(n), NEW m \in Engine
  PROVE  EngineStep(m)
<1> DEFINE due == Due(n)
           table == [h \in Handle |->
                       IF h \in due
                       THEN Finalized(ballots[n][h], TickResult(n, ballots[n][h]))
                       ELSE ballots[n][h]]
           calls == [h \in Handle |->
                       IF h \in due THEN reported[n][h] + 1 ELSE reported[n][h]]
<1>1. /\ ballots' = [ballots EXCEPT ![n] = table]
      /\ reported' = [reported EXCEPT ![n] = calls]
      /\ active' = [active EXCEPT ![n] = Cleanup(n, due)]
      /\ UNCHANGED <<next_ballot_id, allocated, now, votes, heard>>
  BY DEF Tick, network
<1>2. /\ ballots \in [Engine -> [Handle -> Ballot]] /\ now \in [Engine -> Nat]
      /\ reported \in [Engine -> [Handle -> Nat]] /\ active \in [Engine -> SUBSET Handle]
  BY DEF TypeOK
<1>3. CASE m # n
  <2>1. /\ ballots'[m] = ballots[m] /\ reported'[m] = reported[m]
        /\ active'[m] = active[m]
    BY <1>1, <1>2, <1>3
  <2> QED  BY <1>1, <1>2, <2>1 DEF EngineStep, TableStep, BallotStep, Keeps
<1>4. CASE m = n
  <2>1. ballots'[m] = table /\ reported'[m] = calls /\ active'[m] = Cleanup(m, due)
    BY <1>1, <1>2, <1>4
  <2>2. ASSUME NEW h \in Handle, h \notin due PROVE BallotStep(m, h)
    BY <1>1, <1>4, <2>1, <2>2 DEF BallotStep, Keeps
  <2>3. ASSUME NEW h \in due PROVE BallotStep(m, h) /\ ballots'[m][h].completed
    <3>1. /\ h \in Handle /\ h \in active[m] /\ ~ballots[m][h].completed
          /\ Inhibited(m, ballots[m][h].key) \/ now[m] >= ballots[m][h].deadline
      BY <1>2, <1>4 DEF Due
    <3>2. /\ ballots'[m][h] = Finalized(ballots[m][h], TickResult(m, ballots[m][h]))
          /\ reported'[m][h] = reported[m][h] + 1
      BY <1>4, <2>1, <2>3, <3>1
    <3>3. Ends(m, h)
      BY <1>1, <3>1, <3>2 DEF Ends, TickResult
    <3>4. ballots[m][h] \in Ballot
      BY <1>2, <3>1
    <3>5. ballots'[m][h].completed
      BY <3>2, <3>4, TickResultType, FinalizedFields
    <3> QED  BY <3>3, <3>5 DEF BallotStep
  <2>4. TableStep(m)
    <3>1. active'[m] \subseteq active[m]
      BY <2>1 DEF Cleanup
    <3>2. ASSUME NEW h \in active[m] \ active'[m] PROVE ballots'[m][h].completed
      <4>1. h \in Handle
        BY <1>2
      <4>2. h \in due \/ ballots[m][h].completed
        BY <2>1 DEF Cleanup
      <4> QED  BY <1>4, <2>1, <2>3, <4>1, <4>2
    <3> QED  BY <1>1, <3>1, <3>2 DEF TableStep
  <2>5. \A h \in Handle : BallotStep(m, h)
    BY <2>2, <2>3
  <2>6. now'[m] \in Nat /\ now'[m] >= now[m]
    BY <1>1, <1>2
  <2> QED  BY <1>1, <2>4, <2>5, <2>6 DEF EngineStep
<1> QED  BY <1>3, <1>4

\* Every step of the system treats each ballot of m in one of the four ways.
LEMMA EngineSteps ==
  ASSUME TypeOK, [Next]_vars, NEW m \in Engine
  PROVE  EngineStep(m)
<1>1. CASE UNCHANGED vars
  BY <1>1, QuietStep DEF vars, network
<1>2. ASSUME NEW n \in Engine, Call(n) PROVE EngineStep(m)
  <2>1. ASSUME NEW voters \in SUBSET Module, SetElectorate(n, voters)
        PROVE  EngineStep(m)
    BY <2>1, QuietStep DEF SetElectorate, network
  <2>2. ASSUME NEW t \in Threshold, Propose(n, t) PROVE EngineStep(m)
    <3> DEFINE own == IF config[n].allow_self_vote THEN {n} ELSE {}
    <3>1. /\ Store(n, NewBallot(n, t), own)
          /\ next_ballot_id' = [next_ballot_id EXCEPT ![n] = NextId(@)]
          /\ UNCHANGED <<now, votes, reported>>
      BY <2>2 DEF Propose
    <3>2. own \in SUBSET Module /\ NewBallot(n, t) \in Ballot
      BY NewBallotType, ConsensusAssumption
    <3> QED  BY <3>1, <3>2, StoreStep
  <2>3. ASSUME NEW key \in Key, NEW v \in Vote, CastVote(n, key, v)
        PROVE  EngineStep(m)
    BY <2>3, QuietStep DEF CastVote, SendVote
  <2>4. ASSUME NEW key \in Key, Inhibit(n, key) PROVE EngineStep(m)
    BY <2>4, CancelStep DEF Inhibit
  <2> QED  BY <1>2, <2>1, <2>2, <2>3, <2>4 DEF Call
<1>3. ASSUME NEW n \in Engine, Receive(n) PROVE EngineStep(m)
  <2>1. ASSUME NEW voter \in Module, NEW id \in Id, NEW v \in Vote,
               OnVote(n, voter, id, v)
        PROVE  EngineStep(m)
    BY <2>1, VoteStep
  <2>2. ASSUME NEW key \in Key, NEW t \in Threshold,
               RefuseInhibited(n, key, t) \/ RefuseFull(n, key, t)
        PROVE  EngineStep(m)
    BY <2>2, QuietStep DEF RefuseInhibited, RefuseFull, SendVote
  <2>3. ASSUME NEW key \in Key, NEW t \in Threshold, NEW v \in Vote,
               AcceptProposal(n, key, t, v)
        PROVE  EngineStep(m)
    <3>1. /\ Store(n, TrackedBallot(n, key, t), {})
          /\ key.proposer # n /\ ~Known(n, key) /\ ~Inhibited(n, key)
          /\ votes \subseteq votes'
          /\ UNCHANGED <<next_ballot_id, now, reported>>
      BY <2>3 DEF AcceptProposal, Received, SendVote
    <3>2. TrackedBallot(n, key, t) \in Ballot /\ {} \in SUBSET Module
      BY TrackedBallotType
    <3> QED  BY <3>1, <3>2, StoreStep
  <2>4. ASSUME NEW sender \in Module, NEW key \in Key, OnInhibit(n, sender, key)
        PROVE  EngineStep(m)
    BY <2>4, CancelStep DEF OnInhibit
  <2> QED  BY <1>3, <2>1, <2>2, <2>3, <2>4 DEF Receive
<1>4. ASSUME NEW n \in Engine, AdvanceTime(n) PROVE EngineStep(m)
  <2>1. UNCHANGED <<next_ballot_id, ballots, active, allocated, votes, reported, heard>>
    BY <1>4 DEF AdvanceTime, network
  <2>2. now'[m] \in Nat /\ now'[m] >= now[m]
    BY <1>4 DEF AdvanceTime, TypeOK
  <2> QED  BY <2>1, <2>2 DEF EngineStep, TableStep, BallotStep, Keeps
<1> QED  BY <1>1, <1>2, <1>3, <1>4, TickStep DEF Next

-----------------------------------------------------------------------------
(***************************************************************************)
(* The inductive invariant.  Each of the safety properties below needs the *)
(* others: counters that fit the vote slots and a free slot while a ballot *)
(* is open (Tallied, Votable) make the result right (Judged) and the early *)
(* exit sound; that no ballot outside the table is open makes every ballot *)
(* end at most once.                                                       *)
(***************************************************************************)
SoundExit(m, h) ==
  RejectedEarly(m, h) /\ CountedOnce(m, h) => Hopeless(m, h)

ReportsMatch(m, h) ==
  LET b == ballots[m][h]
  IN  /\ reported[m][h] = IF b.completed THEN 1 ELSE 0
      /\ b.completed <=> b.result # "PENDING"
      /\ h \in 1 .. allocated[m] => h \in active[m] \/ b.completed

BallotInv(m, h) ==
  /\ Tallied(ballots[m][h])
  /\ Votable(ballots[m][h])
  /\ Judged(ballots[m][h])
  /\ ReportsMatch(m, h)
  /\ heard[m][h] \subseteq ballots[m][h].eligible
  /\ SoundExit(m, h)

EngineInv(m) ==
  /\ active[m] \subseteq 1 .. allocated[m]
  /\ \A h \in Handle : h > allocated[m] => ~ballots[m][h].completed
  /\ \A h \in Handle : BallotInv(m, h)

IInv == TypeOK /\ \A m \in Engine : EngineInv(m)

LEMMA InitIInv == Init => IInv
<1> SUFFICES ASSUME Init PROVE IInv
  OBVIOUS
<1>1. TypeOK
  BY InitTypeOK
<1>2. ASSUME NEW m \in Engine, NEW h \in Handle
      PROVE  ~ballots[m][h].completed /\ BallotInv(m, h)
  <2> DEFINE k == [proposer |-> m, id |-> InvalidId]
  <2>1. k \in Key
    BY RulesAssumption, ConsensusAssumption DEF Key, Id, InvalidId
  <2>2. /\ ballots[m][h] = StoredBallot(k, 0, 0)
        /\ reported[m][h] = 0 /\ heard[m][h] = {} /\ allocated[m] = 0
    BY DEF Init
  <2> HIDE DEF k
  <2>3. LET b == ballots[m][h]
        IN  Tallied(b) /\ Votable(b) /\ b.result = "PENDING" /\ ~b.completed
    BY <2>1, <2>2, StoredBallotFresh
  <2>4. Judged(ballots[m][h]) /\ SoundExit(m, h) /\ ReportsMatch(m, h)
    BY <2>2, <2>3 DEF Judged, SoundExit, RejectedEarly, ReportsMatch
  <2> QED  BY <2>2, <2>3, <2>4 DEF BallotInv
<1>3. \A m \in Engine : active[m] = {}
  BY DEF Init
<1> QED  BY <1>1, <1>2, <1>3 DEF IInv, EngineInv

(***************************************************************************)
(* Each kind of step of a ballot keeps what is said of it.                 *)
(***************************************************************************)
BallotNext(m, h) ==
  /\ Tallied(ballots'[m][h])
  /\ Votable(ballots'[m][h])
  /\ Judged(ballots'[m][h])
  /\ reported'[m][h] = (IF ballots'[m][h].completed THEN 1 ELSE 0)
  /\ ballots'[m][h].completed <=> ballots'[m][h].result # "PENDING"
  /\ heard'[m][h] \subseteq ballots'[m][h].eligible
  /\ SoundExit(m, h)'
  /\ ballots'[m][h].completed => ballots[m][h].completed \/ h \in active[m]

\* The four ways preserve the invariant of a ballot.
LEMMA KeepsInv ==
  ASSUME IInv, TypeOK', NEW m \in Engine, NEW h \in Handle, EngineStep(m), Keeps(m, h)
  PROVE  BallotNext(m, h)
<1>1. BallotInv(m, h)
  BY DEF IInv, EngineInv
<1>2. ballots'[m][h] = ballots[m][h] /\ heard'[m][h] = heard[m][h]
      /\ reported'[m][h] = reported[m][h]
  BY DEF Keeps
<1>3. now'[m] >= now[m] /\ now'[m] \in Nat /\ now[m] \in Nat
  BY DEF EngineStep, IInv, TypeOK
<1>4. ballots[m][h].deadline \in Nat
  BY BallotNumbers DEF IInv, TypeOK
<1>5. SoundExit(m, h)'
  BY <1>1, <1>2, <1>3, <1>4
     DEF BallotInv, SoundExit, RejectedEarly, CountedOnce, Hopeless
<1> QED  BY <1>1, <1>2, <1>5 DEF BallotInv, BallotNext, ReportsMatch

LEMMA OpensInv ==
  ASSUME IInv, TypeOK', NEW m \in Engine, NEW h \in Handle, EngineStep(m), Opens(m, h)
  PROVE  BallotNext(m, h)
<1>1. /\ reported[m][h] = 0 /\ reported'[m][h] = reported[m][h]
  <2>1. h > allocated[m] /\ reported'[m][h] = reported[m][h]
    BY DEF Opens, IInv, TypeOK
  <2>2. ~ballots[m][h].completed /\ ReportsMatch(m, h)
    BY <2>1 DEF IInv, EngineInv, BallotInv
  <2> QED  BY <2>1, <2>2 DEF ReportsMatch
<1>2. LET b == ballots'[m][h]
      IN  /\ Tallied(b) /\ Votable(b)
          /\ b.result = "PENDING" /\ ~b.completed
          /\ heard'[m][h] \subseteq b.eligible
  <2>1. ASSUME NEW key \in Key, NEW t \in Threshold,
               ballots'[m][h] = TrackedBallot(m, key, t), heard'[m][h] = {}
        PROVE  LET b == ballots'[m][h]
               IN  /\ Tallied(b) /\ Votable(b)
                   /\ b.result = "PENDING" /\ ~b.completed
                   /\ heard'[m][h] \subseteq b.eligible
    <3>1. now[m] + VoteTimeout \in Nat
      BY ConsensusAssumption DEF IInv, TypeOK
    <3> QED  BY <2>1, <3>1, StoredBallotFresh DEF TrackedBallot
  <2>2. ASSUME NEW t \in Threshold, ballots'[m][h] = NewBallot(m, t),
               heard'[m][h] = IF config[m].allow_self_vote THEN {m} ELSE {}
        PROVE  LET b == ballots'[m][h]
               IN  /\ Tallied(b) /\ Votable(b)
                   /\ b.result = "PENDING" /\ ~b.completed
                   /\ heard'[m][h] \subseteq b.eligible
    <3> DEFINE k == [proposer |-> m, id |-> next_ballot_id[m]]
               d == now[m] + VoteTimeout
               self == config[m].allow_self_vote
    <3>1. k \in Key /\ d \in Nat /\ electorate[m] \in SUBSET Module /\ self \in BOOLEAN
      BY NewBallotType DEF IInv
    <3>2. ballots'[m][h] = SnapshotElectorate(StoredBallot(k, t, d), electorate[m], self)
      BY <2>2 DEF NewBallot
    <3>3. \A v : v \in heard'[m][h] <=> self /\ v = k.proposer
      BY <2>2
    <3> HIDE DEF k, d, self
    <3> QED  BY <3>1, <3>2, <3>3, SnapshotFresh
  <2> QED  BY <2>1, <2>2 DEF Opens
<1>3. Judged(ballots'[m][h]) /\ SoundExit(m, h)'
  BY <1>2 DEF Judged, SoundExit, RejectedEarly
<1> QED  BY <1>1, <1>2, <1>3 DEF BallotNext

LEMMA CountsInv ==
  ASSUME IInv, TypeOK', NEW m \in Engine, NEW h \in Handle, EngineStep(m), Counts(m, h)
  PROVE  BallotNext(m, h)
<1> DEFINE b == ballots[m][h]
<1>1. b \in Ballot /\ BallotInv(m, h) /\ ~b.completed /\ h \in active[m]
  BY DEF IInv, EngineInv, TypeOK, Counts
<1>2. PICK voter \in Module, vote \in VoteValue :
        /\ MayVote(b, voter)
        /\ heard'[m][h] = heard[m][h] \union {voter}
        /\ LET counted == CountVote(b, voter, vote)
               result  == Evaluate(counted)
           IN  \/ /\ result = "PENDING"
                  /\ ballots'[m][h] = counted
                  /\ reported'[m][h] = reported[m][h]
               \/ /\ result # "PENDING"
                  /\ ballots'[m][h] = Finalized(counted, result)
                  /\ reported'[m][h] = reported[m][h] + 1
  BY DEF Counts
<1> DEFINE c == CountVote(b, voter, vote)
           f == Finalized(c, Evaluate(c))
<1>3. /\ b.vote_count < Cardinality(b.eligible) /\ voter \in b.eligible
      /\ b.result = "PENDING" /\ reported[m][h] = 0 /\ heard[m][h] \subseteq b.eligible
  BY <1>1, <1>2 DEF BallotInv, Votable, ReportsMatch, MayVote
<1>4. /\ c \in Ballot /\ c.eligible = b.eligible /\ ~c.completed /\ c.result = "PENDING"
  BY <1>1, <1>3, CountVoteType
<1>5. Tallied(c)
  BY <1>1, <1>2, <1>3, CountVoteTallied DEF BallotInv
<1>6. heard'[m][h] \in SUBSET c.eligible
  BY <1>2, <1>3, <1>4
<1> HIDE DEF b, c, f
<1>7. CASE /\ Evaluate(c) = "PENDING"
           /\ ballots'[m][h] = c /\ reported'[m][h] = reported[m][h]
  <2>1. Votable(c)
    BY <1>4, <1>5, <1>7, EvaluateSound DEF Votable
  <2>2. Judged(c) /\ SoundExit(m, h)'
    BY <1>4, <1>7 DEF Judged, SoundExit, RejectedEarly
  <2> QED  BY <1>1, <1>3, <1>4, <1>5, <1>6, <1>7, <2>1, <2>2 DEF BallotNext
<1>8. CASE /\ Evaluate(c) # "PENDING"
           /\ ballots'[m][h] = f /\ reported'[m][h] = reported[m][h] + 1
  <2>1. Evaluate(c) \in Result
    BY <1>4, EvaluateType
  <2>2. /\ f.result = Evaluate(c) /\ f.completed /\ f.vote_count = c.vote_count
        /\ f.eligible = c.eligible /\ YesVoters(f) = YesVoters(c) /\ Tallied(f)
        /\ \A S : Carries(S, f) <=> Carries(S, c)
    BY <1>4, <1>5, <2>1, FinalizedFields DEF f
  <2>3. Votable(f)
    BY <2>2 DEF Votable
  <2>4. Judged(f)
    BY <1>4, <1>5, <1>8, <2>2, EvaluateSound DEF Judged
  <2>5. ASSUME Evaluate(c) = "REJECTED", c.vote_count = Cardinality(heard'[m][h]),
               NEW S \in SUBSET (c.eligible \ heard'[m][h])
        PROVE  ~Carries(YesVoters(f) \union S, f)
    BY <1>4, <1>5, <1>6, <2>2, <2>5, RejectionHopeless
  <2>6. SoundExit(m, h)'
    BY <1>8, <2>2, <2>5 DEF SoundExit, RejectedEarly, CountedOnce, Hopeless
  <2> QED  BY <1>1, <1>3, <1>6, <1>8, <2>2, <2>3, <2>4, <2>6 DEF BallotNext
<1> QED  BY <1>2, <1>7, <1>8 DEF c, f

LEMMA EndsInv ==
  ASSUME IInv, TypeOK', NEW m \in Engine, NEW h \in Handle, EngineStep(m), Ends(m, h)
  PROVE  BallotNext(m, h)
<1> DEFINE b == ballots[m][h]
<1>1. b \in Ballot /\ BallotInv(m, h) /\ ~b.completed /\ h \in active[m]
  BY DEF IInv, EngineInv, TypeOK, Ends
<1>2. /\ heard'[m][h] = heard[m][h] /\ reported'[m][h] = 1
      /\ heard[m][h] \subseteq b.eligible
  BY <1>1 DEF Ends, BallotInv, ReportsMatch
<1>3. PICK r \in Result :
        /\ ballots'[m][h] = Finalized(b, r)
        /\ \/ r = "CANCELLED"
           \/ now[m] >= b.deadline /\ r = DeadlineResult(m, b)
  <2>1. DeadlineResult(m, b) \in Result /\ "CANCELLED" \in Result
    BY <1>1, EvaluateType DEF DeadlineResult, Result
  <2> QED  BY <2>1 DEF Ends
<1> DEFINE f == Finalized(b, r)
<1> HIDE DEF b
<1>4. /\ f.result = r /\ f.completed /\ f.deadline = b.deadline
      /\ f.eligible = b.eligible /\ YesVoters(f) = YesVoters(b)
      /\ Tallied(f) /\ \A S : Carries(S, f) <=> Carries(S, b)
  BY <1>1, FinalizedFields DEF BallotInv, b
<1> HIDE DEF f
<1>5. r # "PENDING" /\ Judged(f)
  <2>1. CASE r = "CANCELLED"
    BY <1>4, <2>1 DEF Judged
  <2>2. CASE r = DeadlineResult(m, b)
    <3>1. /\ Evaluate(b) \in {"PENDING", "APPROVED", "REJECTED"}
          /\ Evaluate(b) = "APPROVED" => Carries(YesVoters(b), b)
          /\ Evaluate(b) \in {"PENDING", "REJECTED"} => ~Carries(YesVoters(b), b)
      BY <1>1, EvaluateSound DEF BallotInv, b
    <3>2. /\ r \in {"APPROVED", "REJECTED", "TIMEOUT"}
          /\ r = "APPROVED" => Evaluate(b) = "APPROVED"
          /\ r \in {"REJECTED", "TIMEOUT"} => Evaluate(b) \in {"PENDING", "REJECTED"}
      BY <2>2, <3>1 DEF DeadlineResult
    <3> QED  BY <1>4, <3>1, <3>2 DEF Judged
  <2> QED  BY <1>3, <2>1, <2>2
<1>6. SoundExit(m, h)'
  <2>1. SUFFICES ASSUME RejectedEarly(m, h)' PROVE FALSE
    BY DEF SoundExit
  <2>2. r = "REJECTED" /\ now'[m] < b.deadline
    BY <1>3, <1>4, <2>1 DEF RejectedEarly, f
  <2>3. now[m] >= b.deadline
    BY <1>3, <2>2
  <2>4. now'[m] >= now[m] /\ now'[m] \in Nat /\ now[m] \in Nat /\ b.deadline \in Nat
    BY <1>1, BallotNumbers DEF EngineStep, IInv, TypeOK
  <2> QED  BY <2>2, <2>3, <2>4
<1>7. Votable(f)
  BY <1>4 DEF Votable
<1> QED  BY <1>1, <1>2, <1>3, <1>4, <1>5, <1>6, <1>7 DEF BallotNext, f

LEMMA NextIInv ==
  ASSUME IInv, [Next]_vars
  PROVE  IInv'
<1>1. TypeOK'
  BY NextTypeOK DEF IInv
<1>2. ASSUME NEW m \in Engine PROVE EngineInv(m)'
  <2>1. EngineStep(m) /\ EngineInv(m)
    BY EngineSteps DEF IInv
  <2>2. ASSUME NEW h \in Handle PROVE BallotNext(m, h)
    <3>1. BallotStep(m, h)
      BY <2>1 DEF EngineStep
    <3> QED  BY <1>1, <2>1, <3>1, KeepsInv, OpensInv, CountsInv, EndsInv DEF BallotStep
  <2>3. /\ allocated[m] \in Nat /\ active[m] \subseteq Handle
        /\ allocated'[m] \in Nat /\ active'[m] \subseteq Handle
    BY <1>1, ConsensusAssumption DEF IInv, TypeOK
  <2>4. active'[m] \subseteq 1 .. allocated'[m] /\ allocated'[m] >= allocated[m]
    BY <2>1, <2>3 DEF EngineStep, TableStep, EngineInv
  <2>5. ASSUME NEW h \in Handle, h > allocated'[m] PROVE ~ballots'[m][h].completed
    <3>1. h > allocated[m] /\ h \notin active[m]
      BY <2>1, <2>3, <2>4, <2>5 DEF EngineInv, Handle
    <3>2. ~ballots[m][h].completed
      BY <2>1, <3>1 DEF EngineInv
    <3> QED  BY <2>2, <3>1, <3>2 DEF BallotNext
  <2>6. ASSUME NEW h \in Handle, h \in 1 .. allocated'[m]
        PROVE  h \in active'[m] \/ ballots'[m][h].completed
    <3>1. ballots[m][h].completed => ballots'[m][h].completed
      <4>1. h \in 1 .. allocated[m] => ~Opens(m, h)
        BY <2>3 DEF Opens
      <4>2. ballots[m][h].completed => h \in 1 .. allocated[m]
        BY <2>1, <2>3 DEF EngineInv, Handle
      <4> QED  BY <2>1, <4>1, <4>2 DEF EngineStep, BallotStep, Keeps, Counts, Ends
    <3>2. CASE h \in 1 .. allocated[m]
      <4>1. h \in active[m] \/ ballots[m][h].completed
        BY <2>1, <3>2 DEF EngineInv, BallotInv, ReportsMatch
      <4> QED  BY <2>1, <3>1, <4>1 DEF EngineStep, TableStep
    <3>3. CASE h \notin 1 .. allocated[m]
      BY <2>1, <2>3, <2>6, <3>3 DEF EngineStep, TableStep
    <3> QED  BY <3>2, <3>3
  <2>7. ASSUME NEW h \in Handle PROVE BallotInv(m, h)'
    BY <2>2, <2>6 DEF BallotNext, BallotInv, ReportsMatch
  <2> QED  BY <2>4, <2>5, <2>7 DEF EngineInv
<1> QED  BY <1>1, <1>2 DEF IInv

LEMMA Invariance == Spec => []IInv
<1>1. Spec => Init /\ [][Next]_vars
  BY DEF Spec
<1>2. IInv /\ [Next]_vars => IInv'
  BY NextIInv
<1> QED  BY <1>1, <1>2, InitIInv, PTL

-----------------------------------------------------------------------------
(***************************************************************************)
(* The counters of every ballot agree with its vote slots, and on_vote     *)
(* never counts more votes than there are voters.                          *)
(***************************************************************************)
THEOREM TalliesCorrect == Spec => []TalliesMatch
<1>1. IInv => TalliesMatch
  BY DEF IInv, EngineInv, BallotInv, TalliesMatch
<1> QED  BY <1>1, Invariance, PTL

(***************************************************************************)
(* A ballot is approved only if, and rejected or timed out only if not,    *)
(* the YES votes recorded carry it under exact arithmetic.                 *)
(***************************************************************************)
THEOREM ResultsCorrect == Spec => []ResultMatchesVotes
<1>1. IInv => ResultMatchesVotes
  BY DEF IInv, EngineInv, BallotInv, ResultMatchesVotes
<1> QED  BY <1>1, Invariance, PTL

(***************************************************************************)
(* A ballot rejected before its deadline, whose voters were each counted   *)
(* once, could not have been carried by the votes still out.               *)
(***************************************************************************)
THEOREM EarlyExitCorrect == Spec => []EarlyRejectionSound
<1>1. IInv => EarlyRejectionSound
  BY DEF IInv, EngineInv, BallotInv, SoundExit, EarlyRejectionSound
<1> QED  BY <1>1, Invariance, PTL

(***************************************************************************)
(* complete_callback is called once for each completed ballot, never for   *)
(* an open one, and no ballot leaves the table open.                       *)
(***************************************************************************)
THEOREM ReportsCorrect == Spec => []ReportedOnce
<1>1. IInv => ReportedOnce
  BY DEF IInv, EngineInv, BallotInv, ReportsMatch, ReportedOnce
<1> QED  BY <1>1, Invariance, PTL

-----------------------------------------------------------------------------
(***************************************************************************)
(* The rounds.  Each kind of step of a ballot is a step of its round: a    *)
(* ballot stored begins it, a vote counted is taken, a ballot ended closes *)
(* it, and a ballot kept leaves it alone.                                  *)
(***************************************************************************)
LEMMA RoundCardinality ==
  ASSUME NEW m, NEW h, NEW S
  PROVE  Round(m, h)!Cardinality(S) = Cardinality(S)
BY DEF Round!Cardinality, Cardinality

\* Carries, of the votes an engine holds, is what the round calls Carried.
LEMMA RoundCarried ==
  ASSUME NEW m \in Engine, NEW h \in Handle
  PROVE  /\ Round(m, h)!Carried <=> Carries(YesVoters(ballots[m][h]), ballots[m][h])
         /\ Round(m, h)!Carried' <=> Carries(YesVoters(ballots'[m][h]), ballots'[m][h])
BY RoundCardinality DEF Round!Carried, Round!FixedOne, Carries, FixedOne

\* The four ways are the actions of a round, or a stutter.
LEMMA OpensBegins ==
  ASSUME IInv, NEW m \in Engine, NEW h \in Handle, Opens(m, h)
  PROVE  Round(m, h)!Begin
<1> DEFINE new == ballots'[m][h]
<1>1. h > allocated[m] /\ ~(h > allocated'[m])
  BY DEF Opens, IInv, TypeOK
<1>2. /\ new.result = "PENDING" /\ new.threshold \in Threshold /\ new.eligible \in SUBSET Module
      /\ NoVoters(new) = {} /\ YesVoters(new) \in {{}} \union {{v} : v \in new.eligible}
  <2>1. ASSUME NEW key \in Key, NEW t \in Threshold, new = TrackedBallot(m, key, t)
        PROVE  <1>2
    <3>1. now[m] + VoteTimeout \in Nat
      BY ConsensusAssumption DEF IInv, TypeOK
    <3> HIDE DEF new
    <3> QED  BY <2>1, <3>1, StoredBallotFresh, StoredVotes DEF TrackedBallot
  <2>2. ASSUME NEW t \in Threshold, new = NewBallot(m, t)
        PROVE  <1>2
    <3>1. /\ NewBallot(m, t).result = "PENDING" /\ NewBallot(m, t).threshold = t
          /\ NewBallot(m, t).eligible = Entitled(m) /\ Entitled(m) \subseteq Module
          /\ YesVoters(NewBallot(m, t)) = Self(m) /\ NoVoters(NewBallot(m, t)) = {}
      BY NewBallotFields DEF IInv
    <3>2. Self(m) \in {{}} \union {{v} : v \in Entitled(m)}
      BY DEF Self, Entitled
    <3> HIDE DEF new
    <3> QED  BY <2>2, <3>1, <3>2
  <2> QED  BY <2>1, <2>2 DEF Opens
<1> HIDE DEF new
<1> QED  BY <1>1, <1>2 DEF Round!Begin, new

LEMMA CountsTakesVote ==
  ASSUME IInv, IInv', NEW m \in Engine, NEW h \in Handle, Counts(m, h),
         ~(h > allocated[m]), ~(h > allocated'[m])
  PROVE  Round(m, h)!TakeVote
<1> DEFINE b == ballots[m][h]
           f == ballots'[m][h]
<1>1. /\ b \in Ballot /\ ~b.completed /\ Tallied(b) /\ Judged(f)
      /\ b.result = "PENDING"
  BY DEF IInv, EngineInv, BallotInv, ReportsMatch, TypeOK, Counts
<1>2. PICK voter \in Module, vote \in VoteValue :
        /\ MayVote(b, voter)
        /\ LET counted == CountVote(b, voter, vote)
               result  == Evaluate(counted)
           IN  \/ result = "PENDING" /\ f = counted
               \/ result # "PENDING" /\ f = Finalized(counted, result)
  BY DEF Counts
<1> DEFINE c == CountVote(b, voter, vote)
<1>3. f \in {c, Finalized(c, Evaluate(c))}
  BY <1>2
<1> HIDE DEF f
<1>4. /\ c \in Ballot /\ ~c.completed /\ c.result = "PENDING" /\ c.eligible = b.eligible
      /\ c.threshold = b.threshold
      /\ YesVoters(c) = YesVoters(b) \union (IF vote = "YES" THEN {voter} ELSE {})
      /\ NoVoters(c) = NoVoters(b) \union (IF vote = "NO" THEN {voter} ELSE {})
  BY <1>1, <1>2, CountVoteType, CountVoteFields
<1> HIDE DEF b, c
<1>5. /\ f.eligible = b.eligible /\ f.threshold = b.threshold
      /\ YesVoters(f) = YesVoters(c) /\ NoVoters(f) = NoVoters(c)
      /\ f.result \in {"PENDING", Evaluate(c)}
  <2>1. Evaluate(c) \in Result
    BY <1>4, EvaluateType
  <2> QED  BY <1>3, <1>4, <2>1, FinalizedFields
<1>6. voter \in b.eligible \ (YesVoters(b) \union NoVoters(b))
  BY <1>2 DEF MayVote, YesVoters, NoVoters
<1>7. Evaluate(c) \in {"PENDING", "APPROVED", "REJECTED"}
  BY <1>4 DEF Evaluate
<1>8. \/ f.result = "PENDING"
      \/ f.result = "APPROVED" /\ Carries(YesVoters(f), f)
      \/ f.result = "REJECTED" /\ ~Carries(YesVoters(f), f)
  BY <1>1, <1>5, <1>7 DEF Judged
<1>9. \/ YesVoters(f) = YesVoters(b) \union {voter} /\ NoVoters(f) = NoVoters(b)
      \/ NoVoters(f) = NoVoters(b) \union {voter} /\ YesVoters(f) = YesVoters(b)
      \/ YesVoters(f) = YesVoters(b) /\ NoVoters(f) = NoVoters(b)
  BY <1>4, <1>5
<1> QED
  BY <1>1, <1>5, <1>6, <1>8, <1>9, RoundCarried DEF Round!TakeVote, Round!Decide, b, f

LEMMA EndsCloses ==
  ASSUME IInv, IInv', NEW m \in Engine, NEW h \in Handle, Ends(m, h),
         ~(h > allocated[m]), ~(h > allocated'[m])
  PROVE  Round(m, h)!Close
<1> DEFINE b == ballots[m][h]
           f == ballots'[m][h]
<1>1. /\ b \in Ballot /\ ~b.completed /\ Judged(f) /\ b.result = "PENDING"
  BY DEF IInv, EngineInv, BallotInv, ReportsMatch, TypeOK, Ends
<1>2. PICK r \in Result : f = Finalized(b, r)
  <2>1. DeadlineResult(m, b) \in Result /\ "CANCELLED" \in Result
    BY <1>1, EvaluateType DEF DeadlineResult, Result
  <2> QED  BY <2>1 DEF Ends
<1>3. f.result # "PENDING" /\ f.result \in Result
  <2>1. f.completed /\ f.result = r
    BY <1>1, <1>2, FinalizedFields
  <2> QED  BY <2>1 DEF IInv, EngineInv, BallotInv, ReportsMatch
<1> HIDE DEF f, b
<1>4. /\ f.eligible = b.eligible /\ f.threshold = b.threshold
      /\ YesVoters(f) = YesVoters(b) /\ NoVoters(f) = NoVoters(b)
      /\ Carries(YesVoters(f), f) <=> Carries(YesVoters(b), b)
  BY <1>1, <1>2, FinalizedFields
<1>5. \/ f.result = "CANCELLED"
      \/ f.result = "APPROVED" /\ Carries(YesVoters(b), b)
      \/ f.result \in {"REJECTED", "TIMEOUT"} /\ ~Carries(YesVoters(b), b)
  BY <1>1, <1>3, <1>4 DEF Judged, Result
<1> QED  BY <1>1, <1>4, <1>5, RoundCarried DEF Round!Close, b, f

LEMMA RoundStep ==
  ASSUME IInv, IInv', [Next]_vars, NEW m \in Engine, NEW h \in Handle
  PROVE  Round(m, h)!Step
<1>1. EngineStep(m)
  BY EngineSteps DEF IInv
<1>2. CASE Keeps(m, h)
  BY <1>2 DEF Keeps, Round!Step, Round!vars, YesVoters, NoVoters
<1>3. CASE Opens(m, h)
  BY <1>3, OpensBegins DEF Round!Step, Round!Next
<1>4. ASSUME Counts(m, h) \/ Ends(m, h)
      PROVE  ~(h > allocated[m]) /\ ~(h > allocated'[m])
  <2>1. h \in 1 .. allocated[m] /\ allocated'[m] \in Nat /\ allocated[m] \in Nat
    BY <1>4, ConsensusAssumption DEF Counts, Ends, IInv, EngineInv, TypeOK
  <2>2. allocated'[m] >= allocated[m]
    BY <1>1, <2>1 DEF EngineStep, TableStep
  <2> QED  BY <2>1, <2>2
<1>5. CASE Counts(m, h)
  BY <1>4, <1>5, CountsTakesVote DEF Round!Step, Round!Next
<1>6. CASE Ends(m, h)
  BY <1>4, <1>6, EndsCloses DEF Round!Step, Round!Next
<1> QED  BY <1>1, <1>2, <1>3, <1>5, <1>6 DEF EngineStep, BallotStep

LEMMA RoundInit ==
  ASSUME Init, NEW m \in Engine, NEW h \in Handle
  PROVE  Round(m, h)!Init
<1> DEFINE k == [proposer |-> m, id |-> InvalidId]
<1>1. k \in Key
  BY RulesAssumption, ConsensusAssumption DEF Key, Id, InvalidId
<1>2. ballots[m][h] = StoredBallot(k, 0, 0) /\ h > allocated[m]
  BY DEF Init, Handle
<1> HIDE DEF k
<1>3. LET b == ballots[m][h]
      IN  b.threshold = 0 /\ b.eligible = {} /\ YesVoters(b) = {} /\ NoVoters(b) = {}
  BY <1>1, <1>2, StoredVotes
<1> QED  BY <1>2, <1>3 DEF Round!Init

(***************************************************************************)
(* The engines implement the abstract voting rounds: whatever a step of    *)
(* ekk_consensus.c does to several ballots at once, it is for each of them *)
(* a step of its round, or none.                                           *)
(***************************************************************************)
THEOREM RoundsCorrect == Spec => RoundsImplemented
<1> DEFINE Starts == \A m \in Engine, h \in Handle : Round(m, h)!Init
           Goes == \A m \in Engine, h \in Handle : Round(m, h)!Step
<1>1. Spec => Init /\ [][Next]_vars
  BY DEF Spec
<1>2. Init => Starts
  BY RoundInit
<1>3. IInv /\ IInv' /\ [Next]_vars => [Goes]_vars
  BY RoundStep
<1> HIDE DEF Starts, Goes
<1>4. Spec => Starts /\ [][Goes]_vars
  BY <1>1, <1>2, <1>3, Invariance, PTL
<1> QED  BY <1>4 DEF RoundsImplemented, Starts, Goes

-----------------------------------------------------------------------------
(***************************************************************************)
(* The two tables of an engine.  What is said of them needs the keys: a    *)
(* proposal received twice is not stored twice, and an own id is not given *)
(* out again before next_ballot_id wraps, so an inhibition finds the only  *)
(* open ballot it is about; and it needs the list to hold a key once.      *)
(***************************************************************************)
Stored(m, h) == h <= allocated[m]

KeysInv(m) ==
  /\ \A g, h \in active[m] :
       ~Own(m, h) /\ ballots[m][g].key = ballots[m][h].key => g = h
  /\ allocated[m] < IdSpace =>
       \A g, h \in Handle :
         /\ Stored(m, g) /\ Stored(m, h) /\ Own(m, g) /\ Own(m, h)
         /\ ballots[m][g].key = ballots[m][h].key
         => g = h
  /\ allocated[m] + 1 < IdSpace =>
       /\ next_ballot_id[m] \in 1 .. allocated[m] + 1
       /\ \A h \in Handle :
            Stored(m, h) /\ Own(m, h) => ballots[m][h].key.id < next_ballot_id[m]

SizesInv(m) ==
  /\ Cardinality(active[m]) <= MaxBallots
  /\ Cardinality(electorate[m]) <= MaxNeighbors
  /\ \A h \in Handle : Cardinality(ballots[m][h].eligible) <= MaxNeighbors + 1

ListInv(m) ==
  /\ IsFiniteSet(inhibited[m])
  /\ Cardinality(inhibited[m]) <= MaxBallots
  /\ \A e, f \in inhibited[m] : e.key = f.key => e = f
  /\ \A h \in active[m] :
       Open(m, h) /\ ~Own(m, h) => ~Inhibited(m, ballots[m][h].key)

CausesInv(m, h) ==
  LET b == ballots[m][h]
  IN  /\ ~Own(m, h) => b.eligible = {}
      /\ \A v \in ((YesVoters(b) \union NoVoters(b)) \ {m}) \intersect Engine :
           [from |-> v, key |-> b.key, vote |-> b.votes[v]] \in votes

TableInv(m) ==
  /\ KeysInv(m) /\ SizesInv(m) /\ ListInv(m)
  /\ \A h \in Handle : CausesInv(m, h)

(***************************************************************************)
(* What a step does to the list of an engine, and to its electorate.       *)
(***************************************************************************)
ListStep(m) ==
  \/ inhibited'[m] \subseteq inhibited[m]
  \/ \E key \in Key : RecordInhibition(m, key)

ElectorateStep(m) ==
  \/ electorate'[m] = electorate[m]
  \/ Cardinality(electorate'[m]) <= MaxNeighbors

\* Who changes the inhibition list and the electorate, and how.
LEMMA ListSteps ==
  ASSUME TypeOK, [Next]_vars, NEW m \in Engine
  PROVE  ListStep(m) /\ ElectorateStep(m)
<1>1. CASE UNCHANGED <<inhibited, electorate>>
  BY <1>1 DEF ListStep, ElectorateStep
<1>2. ASSUME NEW n \in Engine, NEW key \in Key, RecordInhibition(n, key)
      PROVE  ListStep(m) /\ ElectorateStep(m)
  <2>1. CASE n = m
    BY <1>2, <2>1 DEF ListStep, ElectorateStep, RecordInhibition
  <2>2. CASE n # m
    <3>1. inhibited'[m] = inhibited[m]
      BY <1>2, <2>2 DEF RecordInhibition, ListInhibition, TypeOK
    <3> QED  BY <1>2, <3>1 DEF ListStep, ElectorateStep, RecordInhibition
  <2> QED  BY <2>1, <2>2
<1>3. ASSUME NEW n \in Engine, NEW voters \in SUBSET Module, SetElectorate(n, voters)
      PROVE  ListStep(m) /\ ElectorateStep(m)
  <2> DEFINE peers == voters \ {n}
             size == IF Cardinality(peers) <= MaxNeighbors
                     THEN Cardinality(peers) ELSE MaxNeighbors
  <2>1. PICK E \in SUBSET peers :
          /\ Cardinality(E) = size
          /\ electorate' = [electorate EXCEPT ![n] = E]
    BY <1>3 DEF SetElectorate
  <2>2. IsFiniteSet(peers)
    BY RulesAssumption, FS_Subset
  <2>3. Cardinality(peers) \in Nat
    BY <2>2, FS_CardinalityType
  <2>4. Cardinality(E) <= MaxNeighbors
    BY <2>1, <2>3, ConsensusAssumption
  <2> HIDE DEF peers, size
  <2>5. ElectorateStep(m)
    BY <2>1, <2>4 DEF TypeOK, ElectorateStep
  <2>6. inhibited' = inhibited
    BY <1>3 DEF SetElectorate
  <2> QED  BY <2>5, <2>6 DEF ListStep
<1>4. ASSUME NEW n \in Engine, Tick(n)
      PROVE  ListStep(m) /\ ElectorateStep(m)
  BY <1>4 DEF ListStep, ElectorateStep, Tick, TypeOK
<1>5. ASSUME NEW n \in Engine, Call(n) \/ Receive(n) \/ Tick(n) \/ AdvanceTime(n)
      PROVE  \/ UNCHANGED <<inhibited, electorate>>
             \/ Tick(n)
             \/ \E key \in Key : RecordInhibition(n, key)
             \/ \E voters \in SUBSET Module : SetElectorate(n, voters)
  BY <1>5 DEF Call, Receive, Propose, CastVote, Inhibit, OnVote, RefuseInhibited,
              RefuseFull, AcceptProposal, OnInhibit, AdvanceTime
<1>6. UNCHANGED vars => UNCHANGED <<inhibited, electorate>>
  BY DEF vars
<1> QED  BY <1>1, <1>2, <1>3, <1>4, <1>5, <1>6 DEF Next

(***************************************************************************)
(* A step leaves the key of a stored ballot alone, never opens it again,   *)
(* and a table grows by exactly the ballot it opens.                       *)
(***************************************************************************)
LEMMA BallotKept ==
  ASSUME IInv, NEW m \in Engine, NEW h \in Handle, BallotStep(m, h), ~Opens(m, h)
  PROVE  /\ ballots'[m][h].key = ballots[m][h].key
         /\ ballots'[m][h].eligible = ballots[m][h].eligible
         /\ ballots[m][h].completed => ballots'[m][h].completed
<1> DEFINE b == ballots[m][h]
<1>1. b \in Ballot
  BY DEF IInv, TypeOK
<1>2. CASE Keeps(m, h)
  BY <1>2 DEF Keeps
<1>3. CASE Counts(m, h)
  <2>1. PICK voter \in Module, vote \in VoteValue :
          ballots'[m][h] \in {CountVote(b, voter, vote),
             Finalized(CountVote(b, voter, vote), Evaluate(CountVote(b, voter, vote)))}
    BY <1>3 DEF Counts
  <2> DEFINE c == CountVote(b, voter, vote)
  <2>2. c \in Ballot /\ c.key = b.key /\ c.eligible = b.eligible
    BY <1>1, CountVoteType
  <2>3. ~b.completed
    BY <1>3 DEF Counts
  <2> HIDE DEF b, c
  <2>4. Evaluate(c) \in Result
    BY <2>2, EvaluateType
  <2>5. ballots'[m][h] \in {c, Finalized(c, Evaluate(c))}
    BY <2>1 DEF c
  <2> QED  BY <2>2, <2>3, <2>4, <2>5, FinalizedFields DEF b
<1>4. CASE Ends(m, h)
  <2>1. PICK r \in Result : ballots'[m][h] = Finalized(b, r)
    <3>1. DeadlineResult(m, b) \in Result /\ "CANCELLED" \in Result
      BY <1>1, EvaluateType DEF DeadlineResult, Result
    <3> QED  BY <1>4, <3>1 DEF Ends
  <2> HIDE DEF b
  <2> QED  BY <1>1, <2>1, FinalizedFields DEF b
<1> QED  BY <1>2, <1>3, <1>4 DEF BallotStep

\* A table only loses ballots, or gains the next one while it has room.
LEMMA TableGrows ==
  ASSUME IInv, IInv', NEW m \in Engine, EngineStep(m)
  PROVE  /\ allocated[m] \in Nat /\ allocated'[m] \in Nat
         /\ \/ /\ allocated'[m] = allocated[m] /\ active'[m] \subseteq active[m]
               /\ \A h \in Handle : ~Opens(m, h)
            \/ /\ allocated'[m] = allocated[m] + 1 /\ ~Full(m)
               /\ allocated'[m] \in Handle
               /\ active'[m] = active[m] \union {allocated'[m]}
               /\ Opens(m, allocated'[m])
               /\ \A h \in Handle : h # allocated'[m] => ~Opens(m, h)
<1>1. /\ allocated[m] \in 0 .. MaxHandles /\ allocated'[m] \in 0 .. MaxHandles
      /\ active[m] \subseteq 1 .. allocated[m] /\ MaxHandles \in Nat
  BY ConsensusAssumption DEF IInv, TypeOK, EngineInv
<1>2. CASE allocated'[m] = allocated[m] /\ active'[m] \subseteq active[m]
  BY <1>1, <1>2 DEF Opens
<1>3. CASE /\ ~Full(m)
           /\ allocated'[m] = allocated[m] + 1
           /\ active'[m] = active[m] \union {allocated[m] + 1}
  <2> DEFINE n == allocated'[m]
  <2>1. n \in Handle /\ n \notin active[m]
    BY <1>1, <1>3 DEF Handle
  <2>2. BallotStep(m, n)
    BY <2>1 DEF EngineStep
  <2>3. Opens(m, n)
    BY <1>1, <1>3, <2>1, <2>2 DEF BallotStep, Keeps, Counts, Ends
  <2>4. \A h \in Handle : h # n => ~Opens(m, h)
    BY DEF Opens
  <2> QED  BY <1>1, <1>3, <2>1, <2>3, <2>4
<1> QED  BY <1>1, <1>2, <1>3 DEF EngineStep, TableStep

\* A ballot opened is a new one of another module or the next of its own.
LEMMA OpensWhat ==
  ASSUME IInv, NEW m \in Engine, NEW h \in Handle, Opens(m, h)
  PROVE  LET b == ballots'[m][h]
         IN  \/ /\ b.key \in Key /\ b.key.proposer # m
                /\ ~Known(m, b.key) /\ ~Inhibited(m, b.key)
                /\ b.eligible = {} /\ YesVoters(b) = {} /\ NoVoters(b) = {}
                /\ next_ballot_id'[m] = next_ballot_id[m]
             \/ /\ b.key = [proposer |-> m, id |-> next_ballot_id[m]]
                /\ b.eligible = Entitled(m) /\ YesVoters(b) = Self(m) /\ NoVoters(b) = {}
                /\ next_ballot_id'[m] = NextId(next_ballot_id[m])
<1>1. ASSUME NEW key \in Key, NEW t \in Threshold, ballots'[m][h] = TrackedBallot(m, key, t)
      PROVE  LET b == ballots'[m][h]
             IN  /\ b.key = key
                 /\ b.eligible = {} /\ YesVoters(b) = {} /\ NoVoters(b) = {}
  <2>1. now[m] + VoteTimeout \in Nat
    BY ConsensusAssumption DEF IInv, TypeOK
  <2> QED  BY <1>1, <2>1, StoredBallotFresh, StoredVotes DEF TrackedBallot
<1>2. ASSUME NEW t \in Threshold
      PROVE  LET b == NewBallot(m, t)
             IN  /\ b.key = [proposer |-> m, id |-> next_ballot_id[m]]
                 /\ b.eligible = Entitled(m) /\ YesVoters(b) = Self(m) /\ NoVoters(b) = {}
  BY NewBallotFields DEF IInv
<1>3. CASE \E key \in Key, t \in Threshold :
             /\ key.proposer # m /\ ~Known(m, key) /\ ~Inhibited(m, key)
             /\ ballots'[m][h] = TrackedBallot(m, key, t)
             /\ next_ballot_id'[m] = next_ballot_id[m]
  <2>1. PICK key \in Key, t \in Threshold :
             /\ key.proposer # m /\ ~Known(m, key) /\ ~Inhibited(m, key)
             /\ ballots'[m][h] = TrackedBallot(m, key, t)
             /\ next_ballot_id'[m] = next_ballot_id[m]
    BY <1>3
  <2> QED  BY <1>1, <2>1
<1>4. CASE \E t \in Threshold :
             /\ ballots'[m][h] = NewBallot(m, t)
             /\ next_ballot_id'[m] = NextId(next_ballot_id[m])
  <2>1. PICK t \in Threshold :
             /\ ballots'[m][h] = NewBallot(m, t)
             /\ next_ballot_id'[m] = NextId(next_ballot_id[m])
    BY <1>4
  <2> QED  BY <1>2, <2>1
<1> QED  BY <1>3, <1>4 DEF Opens

LEMMA KeysNext ==
  ASSUME IInv, IInv', NEW m \in Engine, EngineStep(m), KeysInv(m)
  PROVE  KeysInv(m)'
<1> DEFINE n == allocated'[m]
           key(h) == ballots[m][h].key
           new(h) == ballots'[m][h].key
<1>1. /\ active[m] \subseteq Handle /\ active[m] \subseteq 1 .. allocated[m]
      /\ active'[m] \subseteq Handle /\ \A h \in Handle : h \in Nat
  BY DEF IInv, EngineInv, TypeOK, Handle
<1>2. \A h \in Handle : ~Opens(m, h) => new(h) = key(h)
  BY BallotKept DEF EngineStep
<1>3. CASE /\ allocated'[m] = allocated[m] /\ active'[m] \subseteq active[m]
           /\ \A h \in Handle : ~Opens(m, h)
  <2>1. \A h \in Handle : new(h) = key(h)
    BY <1>2, <1>3
  <2>2. next_ballot_id'[m] = next_ballot_id[m]
    BY <1>3 DEF EngineStep
  <2> QED  BY <1>1, <1>3, <2>1, <2>2 DEF KeysInv, Stored, Own
<1>4. CASE /\ allocated[m] \in Nat /\ n = allocated[m] + 1 /\ n \in Handle
           /\ active'[m] = active[m] \union {n}
           /\ Opens(m, n)
           /\ \A h \in Handle : h # n => ~Opens(m, h)
  <2>1. \A h \in Handle : h # n => new(h) = key(h)
    BY <1>2, <1>4
  <2>2. \A h \in Handle : h # n /\ h <= n => Stored(m, h)
    BY <1>1, <1>4 DEF Stored
  <2>3. n \notin active[m]
    BY <1>1, <1>4
  <2>4. CASE /\ new(n).proposer # m /\ ~Known(m, new(n))
             /\ next_ballot_id'[m] = next_ballot_id[m]
    <3>1. \A g \in active[m] : new(g) # new(n)
      BY <1>1, <2>1, <2>3, <2>4 DEF Known
    <3>2. \A g, h \in active'[m] : new(h).proposer # m /\ new(g) = new(h) => g = h
      BY <1>1, <1>4, <2>1, <3>1 DEF KeysInv, Own
    <3>3. ASSUME n < IdSpace, NEW g \in Handle, NEW h \in Handle, g <= n, h <= n,
                 new(g).proposer = m, new(h).proposer = m, new(g) = new(h)
          PROVE  g = h
      <4>1. g # n /\ h # n /\ allocated[m] < IdSpace
        BY <1>4, <2>4, <3>3, RulesAssumption
      <4> QED  BY <2>1, <2>2, <3>3, <4>1 DEF KeysInv, Own
    <3>4. ASSUME n + 1 < IdSpace
          PROVE  /\ next_ballot_id'[m] \in 1 .. n + 1
                 /\ \A h \in Handle : h <= n /\ new(h).proposer = m
                                        => new(h).id < next_ballot_id'[m]
      <4>1. allocated[m] + 1 < IdSpace
        BY <1>4, <3>4, RulesAssumption
      <4>2. next_ballot_id[m] \in 1 .. n + 1
        BY <1>4, <4>1 DEF KeysInv
      <4> QED  BY <2>1, <2>2, <2>4, <4>1, <4>2 DEF KeysInv, Own
    <3> HIDE DEF n, key, new
    <3> QED  BY <3>2, <3>3, <3>4 DEF KeysInv, Own, Stored, n, new
  <2>5. CASE /\ new(n) = [proposer |-> m, id |-> next_ballot_id[m]]
             /\ next_ballot_id'[m] = NextId(next_ballot_id[m])
    <3>1. \A g, h \in active'[m] : new(h).proposer # m /\ new(g) = new(h) => g = h
      BY <1>1, <1>4, <2>1, <2>5 DEF KeysInv, Own
    <3>2. ASSUME n < IdSpace
          PROVE  /\ next_ballot_id[m] \in 1 .. n
                 /\ \A h \in Handle : h # n /\ h <= n /\ new(h).proposer = m
                                        => new(h).id < next_ballot_id[m]
      BY <1>4, <2>1, <2>2, <3>2 DEF KeysInv, Own
    <3>3. ASSUME n < IdSpace, NEW g \in Handle, NEW h \in Handle, g <= n, h <= n,
                 new(g).proposer = m, new(h).proposer = m, new(g) = new(h)
          PROVE  g = h
      <4>1. CASE g # n /\ h # n
        <5>1. allocated[m] < IdSpace
          BY <1>4, <3>3, RulesAssumption
        <5> QED  BY <2>1, <2>2, <3>3, <4>1, <5>1 DEF KeysInv, Own
      <4>2. CASE g = n \/ h = n
        <5>1. new(n).id = next_ballot_id[m] /\ next_ballot_id[m] \in Nat
          BY <2>5, <3>2, <3>3
        <5> QED  BY <3>2, <3>3, <4>2, <5>1
      <4> QED  BY <4>1, <4>2
    <3>4. ASSUME n + 1 < IdSpace
          PROVE  /\ next_ballot_id'[m] \in 1 .. n + 1
                 /\ \A h \in Handle : h <= n /\ new(h).proposer = m
                                        => new(h).id < next_ballot_id'[m]
      <4>1. n < IdSpace /\ n \in Nat
        BY <1>1, <1>4, <3>4, RulesAssumption
      <4>2. next_ballot_id[m] \in 1 .. n
        BY <3>2, <4>1
      <4>3. next_ballot_id'[m] = next_ballot_id[m] + 1
        BY <2>5, <3>4, <4>1, <4>2, RulesAssumption DEF NextId
      <4>4. \A h \in Handle : new(h).id \in Nat
        BY <1>1, RulesAssumption DEF IInv, TypeOK, Ballot, Key, Id
      <4>5. new(n).id = next_ballot_id[m]
        BY <2>5
      <4> HIDE DEF new
      <4> QED  BY <3>2, <4>1, <4>2, <4>3, <4>4, <4>5
    <3> HIDE DEF n, key, new
    <3> QED  BY <3>1, <3>3, <3>4 DEF KeysInv, Own, Stored, n, new
  <2> QED  BY <1>4, <2>4, <2>5, OpensWhat
<1> QED  BY <1>3, <1>4, TableGrows

LEMMA SizesNext ==
  ASSUME IInv, IInv', NEW m \in Engine, EngineStep(m), ElectorateStep(m), SizesInv(m)
  PROVE  SizesInv(m)'
<1>1. IsFiniteSet(active[m]) /\ Cardinality(active[m]) \in Nat
  <2>1. active[m] \subseteq Handle /\ IsFiniteSet(Handle)
    BY ConsensusAssumption, FS_Interval DEF IInv, TypeOK, Handle
  <2> QED  BY <2>1, FS_Subset, FS_CardinalityType
<1>2. Cardinality(active'[m]) <= MaxBallots
  <2>1. CASE active'[m] \subseteq active[m]
    <3>1. Cardinality(active'[m]) <= Cardinality(active[m]) /\ Cardinality(active'[m]) \in Nat
      BY <1>1, <2>1, FS_Subset, FS_CardinalityType
    <3> QED  BY <1>1, <3>1, ConsensusAssumption DEF SizesInv
  <2>2. CASE ~Full(m) /\ active'[m] = active[m] \union {allocated'[m]}
    <3>1. Cardinality(active[m]) < MaxBallots
      BY <1>1, <2>2, ConsensusAssumption DEF Full
    <3>2. Cardinality(active'[m]) \in {Cardinality(active[m]), Cardinality(active[m]) + 1}
      BY <1>1, <2>2, FS_AddElement
    <3> QED  BY <1>1, <3>1, <3>2, ConsensusAssumption
  <2> QED  BY <2>1, <2>2, TableGrows
<1>3. Cardinality(electorate'[m]) <= MaxNeighbors
  BY DEF ElectorateStep, SizesInv
<1>4. ASSUME NEW h \in Handle
      PROVE  Cardinality(ballots'[m][h].eligible) <= MaxNeighbors + 1
  <2>1. CASE ~Opens(m, h)
    BY <2>1, BallotKept DEF EngineStep, SizesInv
  <2>2. CASE ballots'[m][h].eligible = {}
    BY <2>2, FS_EmptySet, ConsensusAssumption
  <2>3. CASE ballots'[m][h].eligible = Entitled(m)
    <3>1. IsFiniteSet(electorate[m]) /\ Cardinality(electorate[m]) \in Nat
      <4>1. electorate[m] \subseteq Module
        BY DEF IInv, TypeOK
      <4> QED  BY <4>1, RulesAssumption, FS_Subset, FS_CardinalityType
    <3>2. Cardinality(electorate[m] \union {m}) \in
            {Cardinality(electorate[m]), Cardinality(electorate[m]) + 1}
      BY <3>1, FS_AddElement
    <3>3. Entitled(m) = electorate[m] \/ Entitled(m) = electorate[m] \union {m}
      BY DEF Entitled, Self
    <3>4. Cardinality(Entitled(m)) \in
            {Cardinality(electorate[m]), Cardinality(electorate[m]) + 1}
      BY <3>2, <3>3
    <3> QED  BY <2>3, <3>1, <3>4, ConsensusAssumption DEF SizesInv
  <2> QED  BY <2>1, <2>2, <2>3, OpensWhat
<1> QED  BY <1>2, <1>3, <1>4 DEF SizesInv

(***************************************************************************)
(* A key listed cancels every open ballot the table has of it: a ballot    *)
(* of another module is the only one with its key, so it is the first.     *)
(***************************************************************************)
LEMMA CancelsForeign ==
  ASSUME IInv, NEW m \in Engine, KeysInv(m), NEW key \in Key, RecordInhibition(m, key),
         NEW h \in active[m], Open(m, h), ~Own(m, h), ballots[m][h].key = key
  PROVE  ballots'[m][h].completed
<1>1. h \in Handle /\ \A g \in active[m] : ballots[m][g].key = key => g = h
  BY DEF IInv, TypeOK, KeysInv
<1>2. Find(m, key, h)
  <2>1. \A g \in active[m] : g < h => g # h
    BY <1>1 DEF IInv, TypeOK, Handle
  <2> QED  BY <1>1, <2>1 DEF Find
<1>3. Cancellable(m, key) = {h}
  BY <1>1, <1>2 DEF Cancellable, Find, Open
<1>4. Finalize(m, h, ballots[m][h], "CANCELLED")
  BY <1>3 DEF RecordInhibition, CancelBallot
<1>5. ballots'[m][h] = Finalized(ballots[m][h], "CANCELLED")
  BY <1>1, <1>4 DEF Finalize, IInv, TypeOK
<1>6. ballots[m][h] \in Ballot /\ "CANCELLED" \in Result
  BY <1>1 DEF IInv, TypeOK, Result
<1> QED  BY <1>5, <1>6, FinalizedFields

(***************************************************************************)
(* The list keeps its bound and holds a key once.  A full list always has  *)
(* an oldest entry to push out.                                            *)
(***************************************************************************)
Below == {p \in Nat \X Nat : p[1] < p[2]}

LEMMA BelowWellFounded == IsWellFoundedOn(Below, Nat)
<1>1. OpToRel(<, Nat) = Below
  BY DEF OpToRel, Below
<1> QED  BY <1>1, NatLessThanWellFounded

\* The entry evicted from a full inhibition list, the oldest, exists.
LEMMA LeastNat ==
  ASSUME NEW S \in SUBSET Nat, S # {}
  PROVE  \E x \in S : \A y \in S : x <= y
<1>1. \A R, N : IsWellFoundedOn(R, N) =>
        \A T : T \subseteq N /\ T # {} => \E x \in T : \A y \in T : ~(<<y, x>> \in R)
  BY WFMin
<1>2. \E x \in S : \A y \in S : ~(<<y, x>> \in Below)
  BY BelowWellFounded, <1>1
<1>3. PICK x \in S : \A y \in S : <<y, x>> \notin Below
  BY <1>2
<1>4. ASSUME NEW y \in S PROVE x <= y
  <2>1. x \in Nat /\ y \in Nat /\ ~(y < x)
    BY <1>3 DEF Below
  <2> QED  BY <2>1
<1> QED  BY <1>3, <1>4

Listing(L) ==
  /\ IsFiniteSet(L) /\ Cardinality(L) <= MaxBallots
  /\ \A e, f \in L : e.key = f.key => e = f

\* An entry of the list that is listed again keeps the list in bounds.
LEMMA Renewed ==
  ASSUME NEW L \in SUBSET Inhibition, Listing(L), NEW e \in L, NEW f \in Inhibition,
         f.key = e.key
  PROVE  Listing((L \ {e}) \union {f})
<1> DEFINE rest == L \ {e}
           next == rest \union {f}
<1>1. IsFiniteSet(rest) /\ Cardinality(rest) = Cardinality(L) - 1
  BY FS_RemoveElement DEF Listing
<1>2. Cardinality(rest) \in Nat /\ Cardinality(L) \in Nat
  BY <1>1, FS_CardinalityType DEF Listing
<1>3. IsFiniteSet(next) /\ Cardinality(next) \in {Cardinality(rest), Cardinality(rest) + 1}
  BY <1>1, FS_AddElement
<1>4. Cardinality(next) <= MaxBallots
  BY <1>1, <1>2, <1>3, ConsensusAssumption DEF Listing
<1>5. \A x \in rest : x.key # f.key
  BY DEF Listing
<1>6. \A x, y \in next : x.key = y.key => x = y
  BY <1>5 DEF Listing
<1> QED  BY <1>3, <1>4, <1>6 DEF Listing

\* So does a new one, after the eviction.
LEMMA Added ==
  ASSUME NEW L \in SUBSET Inhibition, Listing(L), NEW f \in Inhibition,
         \A e \in L : e.key # f.key,
         NEW old \in SUBSET L, Cardinality(L) >= MaxBallots => old # {}
  PROVE  Listing((L \ old) \union {f})
<1> DEFINE rest == L \ old
           next == rest \union {f}
<1>1. IsFiniteSet(rest) /\ Cardinality(rest) <= Cardinality(L)
  BY FS_Subset DEF Listing
<1>2. Cardinality(rest) \in Nat /\ Cardinality(L) \in Nat
  BY <1>1, FS_CardinalityType DEF Listing
<1>3. Cardinality(rest) < MaxBallots
  <2>1. CASE Cardinality(L) < MaxBallots
    BY <1>1, <1>2, <2>1, ConsensusAssumption
  <2>2. CASE Cardinality(L) >= MaxBallots
    <3>1. rest # L /\ rest \subseteq L
      BY <2>2
    <3>2. Cardinality(rest) < Cardinality(L)
      BY <1>1, <1>2, <3>1, FS_Subset DEF Listing
    <3> QED  BY <1>2, <3>2, ConsensusAssumption DEF Listing
  <2> QED  BY <1>2, <2>1, <2>2, ConsensusAssumption
<1>4. IsFiniteSet(next) /\ Cardinality(next) \in {Cardinality(rest), Cardinality(rest) + 1}
  BY <1>1, FS_AddElement
<1>5. Cardinality(next) <= MaxBallots
  BY <1>2, <1>3, <1>4, ConsensusAssumption
<1>6. \A x, y \in next : x.key = y.key => x = y
  BY DEF Listing
<1> QED  BY <1>4, <1>5, <1>6 DEF Listing

LEMMA ListingKept ==
  ASSUME TypeOK, NEW m \in Engine, NEW key \in Key, Listing(inhibited[m]),
         ListInhibition(m, key)
  PROVE  /\ Listing(inhibited'[m])
         /\ \A e \in inhibited'[m] : e \in inhibited[m] \/ e.key = key
<1> DEFINE until == now[m] + InhibitDuration
           L == inhibited[m]
           same == {e \in L : e.key = key}
           old == {e \in L : /\ Cardinality(L) >= MaxBallots
                             /\ \A f \in L : e.nth <= f.nth}
           new == [key |-> key, until |-> until, nth |-> listed[m] + 1]
           renewed == {[e EXCEPT !.until = until] : e \in same}
<1>1. until \in Nat /\ L \in SUBSET Inhibition /\ listed[m] \in Nat
      /\ inhibited \in [Engine -> SUBSET Inhibition]
  BY ConsensusAssumption DEF TypeOK
<1>2. CASE same # {} /\ inhibited' = [inhibited EXCEPT ![m] = (@ \ same) \union renewed]
  <2>1. PICK e \in L : e.key = key
    BY <1>2
  <2> DEFINE f == [e EXCEPT !.until = until]
  <2>2. same = {e}
    BY <2>1 DEF Listing
  <2>3. renewed = {f}
    BY <2>2
  <2>4. f \in Inhibition /\ f.key = key
    BY <1>1, <2>1 DEF Inhibition
  <2>5. inhibited'[m] = (L \ {e}) \union {f}
    BY <1>1, <1>2, <2>2, <2>3
  <2> HIDE DEF L, same, renewed, f
  <2>6. Listing((L \ {e}) \union {f})
    BY <1>1, <2>1, <2>4, Renewed DEF L
  <2> QED  BY <2>4, <2>5, <2>6 DEF L
<1>3. CASE same = {} /\ inhibited' = [inhibited EXCEPT ![m] = (@ \ old) \union {new}]
  <2>1. new \in Inhibition /\ new.key = key /\ \A e \in L : e.key # new.key
    BY <1>1, <1>3 DEF Inhibition
  <2>2. inhibited'[m] = (L \ old) \union {new}
    BY <1>1, <1>3
  <2>3. Cardinality(L) >= MaxBallots => old # {}
    <3> SUFFICES ASSUME Cardinality(L) >= MaxBallots PROVE old # {}
      OBVIOUS
    <3> DEFINE N == {e.nth : e \in L}
    <3>1. L # {}
      BY FS_EmptySet, ConsensusAssumption
    <3>2. N \in SUBSET Nat /\ N # {}
      BY <1>1, <3>1 DEF Inhibition
    <3>3. PICK x \in N : \A y \in N : x <= y
      <4> HIDE DEF N
      <4> QED  BY <3>2, LeastNat
    <3>4. PICK e \in L : e.nth = x
      BY <3>3
    <3>5. e \in old
      BY <3>3, <3>4
    <3> QED  BY <3>5
  <2> HIDE DEF L, old, new
  <2>4. old \subseteq L
    BY DEF old
  <2>5. Listing((L \ old) \union {new})
    BY <1>1, <2>1, <2>3, <2>4, Added DEF L
  <2> QED  BY <2>1, <2>2, <2>5 DEF L
<1> QED  BY <1>2, <1>3 DEF ListInhibition

LEMMA ListNext ==
  ASSUME IInv, IInv', NEW m \in Engine, EngineStep(m), ListStep(m),
         KeysInv(m), ListInv(m)
  PROVE  ListInv(m)'
<1>1. /\ active[m] \subseteq Handle /\ active'[m] \subseteq Handle
      /\ active[m] \subseteq 1 .. allocated[m]
      /\ inhibited[m] \subseteq Inhibition /\ inhibited'[m] \subseteq Inhibition
      /\ now[m] \in Nat /\ now'[m] \in Nat /\ now'[m] >= now[m]
  BY DEF IInv, EngineInv, TypeOK, EngineStep
<1>2. ASSUME NEW key, \A e \in inhibited'[m] : e.key = key => e \in inhibited[m],
             ~Inhibited(m, key)
      PROVE  \A e \in inhibited'[m] : ~(e.key = key /\ e.until > now'[m])
  BY <1>1, <1>2 DEF Inhibited, Inhibition
<1>3. ASSUME NEW h \in active'[m], ~Opens(m, h), Open(m, h)', ~Own(m, h)'
      PROVE  h \in active[m] /\ Open(m, h) /\ ~Own(m, h)
             /\ ballots'[m][h].key = ballots[m][h].key
  <2>1. h \in Handle /\ BallotStep(m, h)
    BY <1>1 DEF EngineStep
  <2>2. /\ ballots'[m][h].key = ballots[m][h].key
        /\ ballots[m][h].completed => ballots'[m][h].completed
    BY <1>3, <2>1, BallotKept
  <2>3. h \in active[m]
    BY <1>3, TableGrows
  <2> QED  BY <1>3, <2>2, <2>3 DEF Open, Own
<1>4. CASE inhibited'[m] \subseteq inhibited[m]
  <2>1. IsFiniteSet(inhibited'[m]) /\ Cardinality(inhibited'[m]) <= MaxBallots
    <3>1. /\ IsFiniteSet(inhibited'[m])
          /\ Cardinality(inhibited'[m]) <= Cardinality(inhibited[m])
      BY <1>4, FS_Subset DEF ListInv
    <3>2. Cardinality(inhibited'[m]) \in Nat /\ Cardinality(inhibited[m]) \in Nat
      BY <3>1, FS_CardinalityType DEF ListInv
    <3> QED  BY <3>1, <3>2, ConsensusAssumption DEF ListInv
  <2>2. ASSUME NEW h \in active'[m], Open(m, h)', ~Own(m, h)'
        PROVE  ~Inhibited(m, ballots[m][h].key)'
    <3>1. CASE Opens(m, h)
      <4>1. ballots'[m][h].key.proposer # m
        BY <2>2 DEF Own
      <4>2. h \in Handle
        BY <1>1
      <4>3. ~Inhibited(m, ballots'[m][h].key)
        <5>1. \/ ~Inhibited(m, ballots'[m][h].key)
              \/ ballots'[m][h].key = [proposer |-> m, id |-> next_ballot_id[m]]
          BY <3>1, <4>2, OpensWhat
        <5> QED  BY <4>1, <5>1
      <4> DEFINE k == ballots'[m][h].key
      <4>4. \A e \in inhibited'[m] : e.key = k => e \in inhibited[m]
        BY <1>4
      <4> HIDE DEF k
      <4>5. \A e \in inhibited'[m] : ~(e.key = k /\ e.until > now'[m])
        BY <1>2, <4>3, <4>4 DEF k
      <4> QED  BY <4>5 DEF Inhibited, k
    <3>2. CASE ~Opens(m, h)
      <4>1. ~Inhibited(m, ballots[m][h].key)
        BY <1>3, <2>2, <3>2 DEF ListInv
      <4> DEFINE k == ballots[m][h].key
      <4>2. \A e \in inhibited'[m] : e.key = k => e \in inhibited[m]
        BY <1>4
      <4>3. ballots'[m][h].key = k
        BY <1>3, <2>2, <3>2
      <4> HIDE DEF k
      <4>4. \A e \in inhibited'[m] : ~(e.key = k /\ e.until > now'[m])
        BY <1>2, <4>1, <4>2 DEF k
      <4> QED  BY <4>3, <4>4 DEF Inhibited
    <3> QED  BY <3>1, <3>2
  <2> QED  BY <1>4, <2>1, <2>2 DEF ListInv
<1>5. ASSUME NEW key \in Key, RecordInhibition(m, key) PROVE ListInv(m)'
  <2>1. /\ Listing(inhibited'[m])
        /\ \A e \in inhibited'[m] : e \in inhibited[m] \/ e.key = key
    BY <1>5, ListingKept DEF RecordInhibition, ListInv, Listing, IInv
  <2>2. ASSUME NEW h \in active'[m], Open(m, h)', ~Own(m, h)'
        PROVE  ~Inhibited(m, ballots[m][h].key)'
    <3>1. ~Opens(m, h)
      BY <1>5 DEF RecordInhibition, Opens, IInv, TypeOK
    <3>2. /\ h \in active[m] /\ Open(m, h) /\ ~Own(m, h)
          /\ ballots'[m][h].key = ballots[m][h].key
      BY <1>3, <2>2, <3>1
    <3>3. ballots[m][h].key # key
      BY <1>5, <2>2, <3>2, CancelsForeign DEF Open
    <3>4. ~Inhibited(m, ballots[m][h].key)
      BY <3>2 DEF ListInv
    <3> DEFINE k == ballots[m][h].key
    <3>5. \A e \in inhibited'[m] : e.key = k => e \in inhibited[m]
      BY <2>1, <3>3
    <3> HIDE DEF k
    <3>6. \A e \in inhibited'[m] : ~(e.key = k /\ e.until > now'[m])
      BY <1>2, <3>4, <3>5 DEF k
    <3> QED  BY <3>2, <3>6 DEF Inhibited, k
  <2> QED  BY <2>1, <2>2 DEF ListInv, Listing
<1> QED  BY <1>4, <1>5 DEF ListStep

(***************************************************************************)
(* Every vote in a ballot was sent: a vote counted is one received, and    *)
(* votes sent stay sent.                                                   *)
(***************************************************************************)
LEMMA CausesNext ==
  ASSUME IInv, NEW m \in Engine, NEW h \in Handle, EngineStep(m), CausesInv(m, h)
  PROVE  CausesInv(m, h)'
<1> DEFINE b == ballots[m][h]
           f == ballots'[m][h]
<1>1. b \in Ballot /\ votes \subseteq votes' /\ BallotStep(m, h)
  BY DEF IInv, TypeOK, EngineStep
<1>2. CASE Opens(m, h)
  <2>1. \/ f.eligible = {} /\ YesVoters(f) = {} /\ NoVoters(f) = {}
        \/ Own(m, h)' /\ YesVoters(f) = Self(m) /\ NoVoters(f) = {}
    <3>1. \/ f.eligible = {} /\ YesVoters(f) = {} /\ NoVoters(f) = {}
          \/ /\ f.key = [proposer |-> m, id |-> next_ballot_id[m]]
             /\ YesVoters(f) = Self(m) /\ NoVoters(f) = {}
      BY <1>2, OpensWhat
    <3>2. f.key = [proposer |-> m, id |-> next_ballot_id[m]] => f.key.proposer = m
      OBVIOUS
    <3> QED  BY <3>1, <3>2 DEF Own
  <2>2. Self(m) \subseteq {m}
    BY DEF Self
  <2> QED  BY <2>1, <2>2 DEF CausesInv
<1>3. ASSUME f.key = b.key, f.eligible = b.eligible,
             \A v \in (YesVoters(f) \union NoVoters(f)) \intersect Engine :
               \/ /\ v \in YesVoters(b) \union NoVoters(b)
                  /\ f.votes[v] = b.votes[v]
               \/ [from |-> v, key |-> b.key, vote |-> f.votes[v]] \in votes
      PROVE  CausesInv(m, h)'
  <2>1. ~Own(m, h)' => f.eligible = {}
    BY <1>3 DEF CausesInv, Own
  <2>2. ASSUME NEW v \in ((YesVoters(f) \union NoVoters(f)) \ {m}) \intersect Engine
        PROVE  [from |-> v, key |-> f.key, vote |-> f.votes[v]] \in votes'
    <3>1. v \in YesVoters(b) \union NoVoters(b) =>
            [from |-> v, key |-> b.key, vote |-> b.votes[v]] \in votes
      BY DEF CausesInv
    <3> QED  BY <1>1, <1>3, <3>1
  <2> QED  BY <2>1, <2>2 DEF CausesInv
<1>4. CASE Keeps(m, h)
  BY <1>3, <1>4 DEF Keeps
<1>5. CASE Counts(m, h)
  <2>1. PICK voter \in Module, vote \in VoteValue :
        /\ MayVote(b, voter)
        /\ voter \in Engine => [from |-> voter, key |-> b.key, vote |-> vote] \in votes
        /\ f \in {CountVote(b, voter, vote),
             Finalized(CountVote(b, voter, vote), Evaluate(CountVote(b, voter, vote)))}
    BY <1>5 DEF Counts
  <2> DEFINE c == CountVote(b, voter, vote)
  <2>2. c \in Ballot /\ Evaluate(c) \in Result
    BY <1>1, CountVoteType, EvaluateType
  <2>3. /\ c.key = b.key /\ c.eligible = b.eligible
        /\ \A v \in b.eligible : c.votes[v] = IF v = voter THEN vote ELSE b.votes[v]
    BY <1>1, <2>1, CountVoteFields
  <2>4. f \in {c, Finalized(c, Evaluate(c))}
    BY <2>1
  <2> HIDE DEF c, f
  <2>5. /\ f.key = c.key /\ f.eligible = c.eligible /\ f.votes = c.votes
        /\ YesVoters(f) = YesVoters(c) /\ NoVoters(f) = NoVoters(c)
    BY <2>2, <2>4, FinalizedFields
  <2>6. ASSUME NEW v \in (YesVoters(f) \union NoVoters(f)) \intersect Engine
        PROVE  \/ /\ v \in YesVoters(b) \union NoVoters(b)
                  /\ f.votes[v] = b.votes[v]
               \/ [from |-> v, key |-> b.key, vote |-> f.votes[v]] \in votes
    <3>1. v \in b.eligible
      BY <2>3, <2>5 DEF YesVoters, NoVoters
    <3>2. CASE v = voter
      BY <2>1, <2>3, <2>5, <3>1, <3>2
    <3>3. CASE v # voter
      <4>1. f.votes[v] = b.votes[v]
        BY <2>3, <2>5, <3>1, <3>3
      <4> QED  BY <3>1, <4>1 DEF YesVoters, NoVoters
    <3> QED  BY <3>2, <3>3
  <2> QED  BY <1>3, <2>3, <2>5, <2>6 DEF f
<1>6. CASE Ends(m, h)
  <2>1. PICK r \in Result : f = Finalized(b, r)
    <3>1. DeadlineResult(m, b) \in Result /\ "CANCELLED" \in Result
      BY <1>1, EvaluateType DEF DeadlineResult, Result
    <3> QED  BY <1>6, <3>1 DEF Ends
  <2>2. /\ f.key = b.key /\ f.eligible = b.eligible /\ f.votes = b.votes
        /\ YesVoters(f) = YesVoters(b) /\ NoVoters(f) = NoVoters(b)
    <3> HIDE DEF b
    <3> QED  BY <1>1, <2>1, FinalizedFields
  <2> QED  BY <1>3, <2>2
<1> QED  BY <1>1, <1>2, <1>4, <1>5, <1>6 DEF BallotStep

LEMMA InitTables ==
  ASSUME Init, NEW m \in Engine
  PROVE  TableInv(m)
<1> DEFINE k == [proposer |-> m, id |-> InvalidId]
<1>1. k \in Key
  BY RulesAssumption, ConsensusAssumption DEF Key, Id, InvalidId
<1>2. /\ active[m] = {} /\ allocated[m] = 0 /\ electorate[m] = {} /\ inhibited[m] = {}
      /\ next_ballot_id[m] = NextId(InvalidId)
      /\ \A h \in Handle : ballots[m][h] = StoredBallot(k, 0, 0) /\ ~Stored(m, h)
  BY DEF Init, Handle, Stored
<1>3. KeysInv(m)
  <2>1. 1 < IdSpace => next_ballot_id[m] = 1
    BY <1>2, RulesAssumption DEF NextId, InvalidId
  <2> QED  BY <1>2, <2>1, RulesAssumption DEF KeysInv
<1> HIDE DEF k
<1>4. ASSUME NEW h \in Handle
      PROVE  LET b == ballots[m][h]
             IN  b.eligible = {} /\ YesVoters(b) = {} /\ NoVoters(b) = {}
  BY <1>1, <1>2, StoredVotes
<1>5. SizesInv(m) /\ ListInv(m)
  <2>1. \A S : S = {} => IsFiniteSet(S) /\ Cardinality(S) = 0
    BY FS_EmptySet
  <2>2. SizesInv(m)
    BY <1>2, <1>4, <2>1, ConsensusAssumption DEF SizesInv
  <2>3. ListInv(m)
    BY <1>2, <2>1, ConsensusAssumption DEF ListInv
  <2> QED  BY <2>2, <2>3
<1>6. \A h \in Handle : CausesInv(m, h)
  BY <1>4 DEF CausesInv
<1> QED  BY <1>3, <1>5, <1>6 DEF TableInv

TablesInv == \A m \in Engine : TableInv(m)

LEMMA NextTables ==
  ASSUME IInv, IInv', TablesInv, [Next]_vars
  PROVE  TablesInv'
<1>1. ASSUME NEW m \in Engine PROVE TableInv(m)'
  <2>1. EngineStep(m) /\ ListStep(m) /\ ElectorateStep(m)
    BY EngineSteps, ListSteps DEF IInv
  <2>2. TableInv(m)
    BY DEF TablesInv
  <2>3. KeysInv(m)' /\ SizesInv(m)' /\ ListInv(m)'
    BY <2>1, <2>2, KeysNext, SizesNext, ListNext DEF TableInv
  <2>4. ASSUME NEW h \in Handle PROVE CausesInv(m, h)'
    BY <2>1, <2>2, CausesNext DEF TableInv
  <2> QED  BY <2>3, <2>4 DEF TableInv
<1> QED  BY <1>1 DEF TablesInv

LEMMA TablesInvariance == Spec => [](IInv /\ TablesInv)
<1>1. Spec => Init /\ [][Next]_vars
  BY DEF Spec
<1>2. Init => TablesInv
  BY InitTables DEF TablesInv
<1>3. IInv /\ IInv' /\ TablesInv /\ [Next]_vars => TablesInv'
  BY NextTables
<1> QED  BY <1>1, <1>2, <1>3, Invariance, PTL

(***************************************************************************)
(* No array of an engine is written past its end: neither the table, nor   *)
(* the list, nor the vote slots of a ballot.                               *)
(***************************************************************************)
THEOREM ArraysCorrect == Spec => []ArraysInBounds
<1>1. TablesInv => ArraysInBounds
  BY DEF TablesInv, TableInv, SizesInv, ListInv, ArraysInBounds
<1> QED  BY <1>1, TablesInvariance, PTL

(***************************************************************************)
(* No two ballots of a table share a key: those of other modules never,    *)
(* own ones not before next_ballot_id has gone round.                      *)
(***************************************************************************)
THEOREM KeysCorrect == Spec => []UniqueKeys
<1>1. IInv /\ TablesInv => UniqueKeys
  <2> SUFFICES ASSUME IInv, TablesInv, NEW m \in Engine, NEW g \in active[m],
                      NEW h \in active[m], g # h, ballots[m][g].key = ballots[m][h].key
               PROVE  Own(m, g) /\ allocated[m] >= IdSpace
    BY DEF UniqueKeys
  <2>1. KeysInv(m) /\ active[m] \subseteq 1 .. allocated[m] /\ active[m] \subseteq Handle
        /\ allocated[m] \in Nat
    BY ConsensusAssumption DEF TablesInv, TableInv, IInv, EngineInv, TypeOK
  <2>2. Own(m, g) /\ Own(m, h)
    BY <2>1 DEF KeysInv, Own
  <2>3. Stored(m, g) /\ Stored(m, h)
    BY <2>1 DEF Stored
  <2>4. ~(allocated[m] < IdSpace)
    BY <2>1, <2>2, <2>3 DEF KeysInv
  <2> QED  BY <2>1, <2>2, <2>4, RulesAssumption
<1> QED  BY <1>1, TablesInvariance, PTL

(***************************************************************************)
(* The table and the list of an engine agree: no ballot of another module  *)
(* is open while its key is inhibited.                                     *)
(***************************************************************************)
THEOREM TablesAgree == Spec => []OpenNotInhibited
<1>1. TablesInv => OpenNotInhibited
  BY DEF TablesInv, TableInv, ListInv, OpenNotInhibited
<1> QED  BY <1>1, TablesInvariance, PTL

(***************************************************************************)
(* An engine sees no ballot but its own approved, and every YES and NO in  *)
(* a ballot was sent by that voter, as that vote.                          *)
(***************************************************************************)
THEOREM OutcomesCorrect == Spec => []OutcomesAreCaused
<1>1. IInv /\ TablesInv => OutcomesAreCaused
  <2> SUFFICES ASSUME IInv, TablesInv, NEW m \in Engine, NEW h \in Handle
               PROVE  LET b == ballots[m][h]
                      IN  /\ b.result = "APPROVED" => Own(m, h)
                          /\ \A v \in (YesVoters(b) \union NoVoters(b)) \ {m} :
                               v \in Engine =>
                                 [from |-> v, key |-> b.key, vote |-> b.votes[v]] \in votes
    BY DEF OutcomesAreCaused
  <2>1. CausesInv(m, h) /\ Judged(ballots[m][h])
    BY DEF IInv, EngineInv, BallotInv, TablesInv, TableInv
  <2> QED  BY <2>1 DEF CausesInv, Judged, Carries
<1> QED  BY <1>1, TablesInvariance, PTL
=============================================================================
