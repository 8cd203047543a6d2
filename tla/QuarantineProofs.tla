-------------------------- MODULE QuarantineProofs --------------------------
(***************************************************************************)
(* Theorems about Quarantine for every set of modules, engines, suspects   *)
(* and evidence, and every bound of the behaviour.                         *)
(***************************************************************************)
EXTENDS Quarantine, ConsensusProofs

(***************************************************************************)
(* A step of the quarantine is a step of the engines, or leaves them       *)
(* alone, so what is proved of the engines holds here as well.             *)
(***************************************************************************)
LEMMA EnginesStep ==
  ASSUME [QuarantineNext]_allVars
  PROVE  [Next]_vars
<1>1. ASSUME NEW m \in Engine, NEW s \in Suspect, NEW t \in Threshold,
             ProposeQuarantine(m, s, t)
      PROVE  Next
  BY <1>1 DEF ProposeQuarantine, Next, Call
<1>2. ASSUME NEW m \in Engine, NEW key \in Key, NEW t \in Threshold, NEW s \in Suspect,
             NEW v \in Vote, AcceptQuarantine(m, key, t, s, v)
      PROVE  Next
  BY <1>2 DEF AcceptQuarantine, Next, Receive
<1>3. ASSUME NEW m \in Engine, NEW s \in Suspect,
             ExecuteQuarantine(m, s) \/ LiftQuarantine(m, s)
      PROVE  UNCHANGED vars
  BY <1>3 DEF ExecuteQuarantine, LiftQuarantine
<1>4. ASSUME NEW m \in Engine, OtherStep(m)
      PROVE  Next
  <2>1. Call(m) \/ Receive(m) \/ Tick(m) \/ AdvanceTime(m)
    BY <1>4 DEF OtherStep, Call, Receive
  <2> QED  BY <2>1 DEF Next
<1> QED  BY <1>1, <1>2, <1>3, <1>4 DEF QuarantineNext, allVars

\* What ConsensusProofs shows of the engines holds here.
LEMMA EnginesInvariance == QuarantineSpec => [](IInv /\ TablesInv)
<1>1. Init => IInv /\ TablesInv
  BY InitIInv, InitTables DEF TablesInv
<1>2. IInv /\ TablesInv /\ [QuarantineNext]_allVars => (IInv /\ TablesInv)'
  BY EnginesStep, NextIInv, NextTables
<1>3. QuarantineSpec => Init /\ [][QuarantineNext]_allVars
  BY DEF QuarantineSpec, QuarantineInit
<1> QED  BY <1>1, <1>2, <1>3, PTL

(***************************************************************************)
(* What ties a conviction to the suspect although votes name only a key:   *)
(*   - who voted YES on a key had stored a ballot with it;                 *)
(*   - a stored ballot of another engine has the data that was broadcast   *)
(*     with its key;                                                       *)
(*   - and that is the data of the ballot its proposer has under this key. *)
(***************************************************************************)
SuspectType ==
  /\ suspect \in [Engine -> [Handle -> Suspect \union {Unknown}]]
  /\ quarantined \in [Engine -> SUBSET Suspect]
  /\ quarantine_count \in [Engine -> Nat]

VotesMeant ==
  \A n \in votes : n.vote = "YES" =>
    /\ n.from \in Engine
    /\ \E g \in Handle : Stored(n.from, g) /\ ballots[n.from][g].key = n.key

CopiesMeant ==
  \A v \in Engine, g \in Handle :
    LET key == ballots[v][g].key
    IN  Stored(v, g) /\ key.proposer \in Engine \ {v} =>
          [key |-> key, suspect |-> suspect[v][g]] \in accusations

AccusationsMeant ==
  \A a \in accusations : a.key.proposer \in Engine =>
    \E h \in Handle :
      /\ Stored(a.key.proposer, h)
      /\ ballots[a.key.proposer][h].key = a.key
      /\ suspect[a.key.proposer][h] = a.suspect

IsolationInv ==
  \A m \in Engine :
    /\ m \notin quarantined[m]
    /\ IsFiniteSet(quarantined[m])
    /\ quarantine_count[m] = Cardinality(quarantined[m])
    /\ \A s \in quarantined[m] : VotedOut(m, s)

QInv == SuspectType /\ VotesMeant /\ CopiesMeant /\ AccusationsMeant /\ IsolationInv

(***************************************************************************)
(* These imply the property, with what is known of the engines: the votes  *)
(* in an approved ballot were sent, and its key is that of no other ballot *)
(* of its proposer.                                                        *)
(***************************************************************************)
LEMMA VotedOutConvicted ==
  ASSUME IInv, TablesInv, QInv, NEW m \in Engine, allocated[m] < IdSpace,
         NEW s, VotedOut(m, s)
  PROVE  Convicted(m, s)
<1>1. PICK h \in Handle :
        /\ Own(m, h) /\ ballots[m][h].result = "APPROVED" /\ suspect[m][h] = s
  BY DEF VotedOut
<1> DEFINE b == ballots[m][h]
<1>2. Carries(YesVoters(b), b)
  BY <1>1 DEF IInv, EngineInv, BallotInv, Judged
<1>3. Stored(m, h)
  <2>1. b.completed /\ allocated[m] \in Nat /\ h \in Nat
    BY <1>1, ConsensusAssumption
       DEF IInv, EngineInv, BallotInv, ReportsMatch, TypeOK, Handle
  <2> QED  BY <2>1 DEF IInv, EngineInv, Stored
<1>4. ASSUME NEW v \in YesVoters(b) \intersect Engine PROVE Meant(v, b.key, s)
  <2>1. CASE v = m
    BY <1>1, <2>1 DEF Meant
  <2>2. CASE v # m
    <3> DEFINE n == [from |-> v, key |-> b.key, vote |-> b.votes[v]]
    <3>1. n \in votes /\ b.votes[v] = "YES"
      <4>1. CausesInv(m, h)
        BY DEF TablesInv, TableInv
      <4> QED  BY <2>2, <4>1 DEF CausesInv, YesVoters
    <3>2. PICK g \in Handle : Stored(v, g) /\ ballots[v][g].key = b.key
      <4>1. n.vote = "YES" /\ n.from = v /\ n.key = b.key
        BY <3>1
      <4> HIDE DEF n
      <4> QED  BY <3>1, <4>1 DEF QInv, VotesMeant
    <3> DEFINE a == [key |-> b.key, suspect |-> suspect[v][g]]
    <3>3. a \in accusations
      BY <1>1, <2>2, <3>2 DEF QInv, CopiesMeant, Own
    <3>4. a.key = b.key /\ a.suspect = suspect[v][g] /\ b.key.proposer = m
      BY <1>1 DEF Own
    <3>5. PICK k \in Handle :
            Stored(m, k) /\ ballots[m][k].key = b.key /\ suspect[m][k] = suspect[v][g]
      <4> HIDE DEF a
      <4> QED  BY <3>3, <3>4 DEF QInv, AccusationsMeant
    <3>6. k = h
      <4>1. KeysInv(m)
        BY DEF TablesInv, TableInv
      <4>2. Own(m, k)
        BY <3>4, <3>5 DEF Own
      <4> QED  BY <1>1, <1>3, <3>5, <4>1, <4>2 DEF KeysInv
    <3> QED  BY <1>1, <3>2, <3>5, <3>6 DEF Meant
  <2> QED  BY <2>1, <2>2
<1> QED  BY <1>1, <1>2, <1>4 DEF Convicted

\* The suspects of all who voted YES agree, since their keys do.
LEMMA QInvEarned == IInv /\ TablesInv /\ QInv => QuarantineEarned
<1> SUFFICES ASSUME IInv, TablesInv, QInv, NEW m \in Engine
             PROVE  /\ m \notin quarantined[m]
                    /\ quarantine_count[m] = Cardinality(quarantined[m])
                    /\ allocated[m] < IdSpace => \A s \in quarantined[m] : Convicted(m, s)
  BY DEF QuarantineEarned
<1> QED  BY VotedOutConvicted DEF QInv, IsolationInv

(***************************************************************************)
(* A stored ballot keeps its key and, once approved, its result; its data  *)
(* is written when it is stored and not again.                             *)
(***************************************************************************)
LEMMA StoredKept ==
  ASSUME IInv, IInv', [Next]_vars, NEW m \in Engine, NEW h \in Handle, Stored(m, h)
  PROVE  /\ Stored(m, h)' /\ ballots'[m][h].key = ballots[m][h].key
         /\ ballots[m][h].result = "APPROVED" => ballots'[m][h].result = "APPROVED"
<1>1. EngineStep(m)
  BY EngineSteps DEF IInv
<1>2. allocated[m] \in Nat /\ allocated'[m] \in Nat /\ h \in Nat
  BY ConsensusAssumption DEF IInv, TypeOK, Handle
<1>3. BallotStep(m, h) /\ ~Opens(m, h)
  BY <1>1, <1>2 DEF EngineStep, Opens, Stored
<1>4. Stored(m, h)'
  BY <1>1, <1>2 DEF EngineStep, TableStep, Stored
<1>5. ballots[m][h].result = "APPROVED" => ballots[m][h].completed
  BY DEF IInv, EngineInv, BallotInv, ReportsMatch
<1>6. ballots[m][h].completed => ballots'[m][h] = ballots[m][h]
  BY <1>3 DEF BallotStep, Keeps, Counts, Ends
<1> QED  BY <1>1, <1>3, <1>4, <1>5, <1>6, BallotKept

\* What a stored ballot is about never changes,
LEMMA SuspectKept ==
  ASSUME IInv, QInv, NEW n \in Engine, NEW s, About(n, s),
         NEW m \in Engine, NEW h \in Handle, Stored(m, h)
  PROVE  suspect'[m][h] = suspect[m][h]
<1>1. allocated[m] \in Nat /\ h # allocated[m] + 1
  BY ConsensusAssumption DEF IInv, TypeOK, Stored, Handle
<1>2. suspect' = [suspect EXCEPT ![n][allocated[n] + 1] = s]
  BY DEF About
<1>3. suspect \in [Engine -> [Handle -> Suspect \union {Unknown}]]
  BY DEF QInv, SuspectType
<1> QED  BY <1>1, <1>2, <1>3

(***************************************************************************)
(* The part of the invariant that no new message or ballot concerns.       *)
(***************************************************************************)
LEMMA VotesKept ==
  ASSUME IInv, IInv', QInv, [Next]_vars,
         \A n \in votes' \ votes : n.vote = "YES" =>
           /\ n.from \in Engine
           /\ \E g \in Handle : Stored(n.from, g)' /\ ballots'[n.from][g].key = n.key
  PROVE  VotesMeant'
<1>1. ASSUME NEW n \in votes, n.vote = "YES"
      PROVE  /\ n.from \in Engine
             /\ \E g \in Handle : Stored(n.from, g)' /\ ballots'[n.from][g].key = n.key
  <2>1. PICK g \in Handle : Stored(n.from, g) /\ ballots[n.from][g].key = n.key
    BY <1>1 DEF QInv, VotesMeant
  <2>2. n.from \in Engine
    BY <1>1 DEF QInv, VotesMeant
  <2> QED  BY <2>1, <2>2, StoredKept
<1>2. ASSUME NEW n \in votes', n.vote = "YES"
      PROVE  /\ n.from \in Engine
             /\ \E g \in Handle : Stored(n.from, g)' /\ ballots'[n.from][g].key = n.key
  BY <1>1, <1>2
<1> QED  BY <1>2 DEF VotesMeant

\* nor what was said with its proposal,
LEMMA AccusationsKept ==
  ASSUME IInv, IInv', QInv, [Next]_vars,
         \A m \in Engine, h \in Handle : Stored(m, h) => suspect'[m][h] = suspect[m][h],
         NEW a \in accusations, a.key.proposer \in Engine
  PROVE  \E h \in Handle :
           /\ Stored(a.key.proposer, h)'
           /\ ballots'[a.key.proposer][h].key = a.key
           /\ suspect'[a.key.proposer][h] = a.suspect
<1> DEFINE p == a.key.proposer
<1>1. PICK h \in Handle :
        Stored(p, h) /\ ballots[p][h].key = a.key /\ suspect[p][h] = a.suspect
  BY DEF QInv, AccusationsMeant
<1> QED  BY <1>1, StoredKept

\* nor the votes that count; so a conviction stays one.
LEMMA VotedOutKept ==
  ASSUME IInv, IInv', QInv, [Next]_vars,
         \A m \in Engine, h \in Handle : Stored(m, h) => suspect'[m][h] = suspect[m][h],
         NEW m \in Engine, NEW s, VotedOut(m, s)
  PROVE  VotedOut(m, s)'
<1>1. PICK h \in Handle :
        Own(m, h) /\ ballots[m][h].result = "APPROVED" /\ suspect[m][h] = s
  BY DEF VotedOut
<1>2. Stored(m, h)
  <2>1. ballots[m][h].completed /\ allocated[m] \in Nat /\ h \in Nat
    BY <1>1, ConsensusAssumption
       DEF IInv, EngineInv, BallotInv, ReportsMatch, TypeOK, Handle
  <2> QED  BY <2>1 DEF IInv, EngineInv, Stored
<1> QED  BY <1>1, <1>2, StoredKept DEF VotedOut, Own

\* Only a proposal that was received adds a copy.
LEMMA CopiesKept ==
  ASSUME IInv, IInv', QInv, [Next]_vars, accusations \subseteq accusations',
         \A m \in Engine, h \in Handle : Stored(m, h) => suspect'[m][h] = suspect[m][h],
         \A v \in Engine, g \in Handle :
           Stored(v, g)' /\ ~Stored(v, g) /\ ballots'[v][g].key.proposer \in Engine \ {v} =>
             [key |-> ballots'[v][g].key, suspect |-> suspect'[v][g]] \in accusations'
  PROVE  CopiesMeant'
<1>1. ASSUME NEW v \in Engine, NEW g \in Handle, Stored(v, g),
             ballots'[v][g].key.proposer \in Engine \ {v}
      PROVE  [key |-> ballots'[v][g].key, suspect |-> suspect'[v][g]] \in accusations'
  <2>1. ballots'[v][g].key = ballots[v][g].key /\ suspect'[v][g] = suspect[v][g]
    BY <1>1, StoredKept
  <2>2. [key |-> ballots[v][g].key, suspect |-> suspect[v][g]] \in accusations
    BY <1>1, <2>1 DEF QInv, CopiesMeant
  <2> QED  BY <2>1, <2>2
<1> QED  BY <1>1 DEF CopiesMeant

\* Storing a ballot is the only way to one that was not stored.
LEMMA StoreNew ==
  ASSUME IInv, NEW n \in Engine, NEW ballot, NEW voters, Store(n, ballot, voters)
  PROVE  /\ allocated[n] + 1 \in Handle /\ allocated[n] + 1 <= allocated'[n]
         /\ ballots'[n][allocated[n] + 1] = ballot
         /\ \A v \in Engine, g \in Handle :
              Stored(v, g)' /\ ~Stored(v, g) => v = n /\ g = allocated[n] + 1
<1>1. /\ allocated \in [Engine -> 0 .. MaxHandles] /\ MaxHandles \in Nat
      /\ ballots \in [Engine -> [Handle -> Ballot]]
  BY ConsensusAssumption DEF IInv, TypeOK
<1>2. /\ allocated' = [allocated EXCEPT ![n] = allocated[n] + 1]
      /\ ballots' = [ballots EXCEPT ![n][allocated[n] + 1] = ballot]
      /\ allocated[n] < MaxHandles
  BY DEF Store
<1>3. allocated[n] + 1 \in Handle
  BY <1>1, <1>2 DEF Handle
<1>4. ballots'[n][allocated[n] + 1] = ballot
  BY <1>1, <1>2, <1>3
<1>5. \A v \in Engine : allocated'[v] = IF v = n THEN allocated[n] + 1 ELSE allocated[v]
  BY <1>1, <1>2
<1>6. allocated[n] + 1 <= allocated'[n]
  BY <1>1, <1>5
<1>7. ASSUME NEW v \in Engine, NEW g \in Handle, g <= allocated'[v], ~(g <= allocated[v])
      PROVE  v = n /\ g = allocated[n] + 1
  BY <1>1, <1>5, <1>7 DEF Handle
<1> QED  BY <1>3, <1>4, <1>6, <1>7 DEF Stored

-----------------------------------------------------------------------------
(***************************************************************************)
(* The operations.                                                         *)
(***************************************************************************)
LEMMA ProposeKeeps ==
  ASSUME IInv, IInv', QInv, [Next]_vars, NEW m \in Engine, NEW s \in Suspect,
         NEW t \in Threshold, ProposeQuarantine(m, s, t)
  PROVE  QInv'
<1> DEFINE n == allocated[m] + 1
           key == [proposer |-> m, id |-> next_ballot_id[m]]
           a == [key |-> key, suspect |-> s]
<1>1. /\ About(m, s) /\ accusations' = accusations \union {a}
      /\ UNCHANGED <<quarantined, quarantine_count, votes>>
      /\ Store(m, NewBallot(m, t), IF config[m].allow_self_vote THEN {m} ELSE {})
  BY DEF ProposeQuarantine, Propose, quarantine
<1>2. NewBallot(m, t).key = key
  BY NewBallotFields DEF IInv
<1>3. /\ n \in Handle /\ n <= allocated'[m] /\ ballots'[m][n].key = key
      /\ \A v \in Engine, g \in Handle : Stored(v, g)' /\ ~Stored(v, g) => v = m /\ g = n
  BY <1>1, <1>2, StoreNew
<1>4. \A v \in Engine, h \in Handle : Stored(v, h) => suspect'[v][h] = suspect[v][h]
  BY <1>1, SuspectKept
<1>5. suspect \in [Engine -> [Handle -> Suspect \union {Unknown}]]
  BY DEF QInv, SuspectType
<1>6. suspect'[m][n] = s /\ SuspectType'
  BY <1>1, <1>3, <1>5 DEF About, QInv, SuspectType
<1>7. VotesMeant'
  BY <1>1, VotesKept
<1>8. CopiesMeant'
  BY <1>1, <1>3, <1>4, CopiesKept
<1>9. AccusationsMeant'
  <2>1. ASSUME NEW c \in accusations', c.key.proposer \in Engine
        PROVE  \E h \in Handle :
                 /\ Stored(c.key.proposer, h)'
                 /\ ballots'[c.key.proposer][h].key = c.key
                 /\ suspect'[c.key.proposer][h] = c.suspect
    <3>1. CASE c \in accusations
      BY <1>4, <2>1, <3>1, AccusationsKept
    <3>2. CASE c = a
      <4>1. c.key = key /\ c.key.proposer = m /\ c.suspect = s
        BY <3>2
      <4> HIDE DEF n, key
      <4> QED  BY <1>3, <1>6, <4>1 DEF Stored
    <3> QED  BY <1>1, <2>1, <3>1, <3>2
  <2> QED  BY <2>1 DEF AccusationsMeant
<1>10. IsolationInv'
  <2>1. \A v \in Engine : \A x \in quarantined[v] : VotedOut(v, x)'
    BY <1>4, VotedOutKept DEF QInv, IsolationInv
  <2> QED  BY <1>1, <2>1 DEF QInv, IsolationInv
<1> QED  BY <1>6, <1>7, <1>8, <1>9, <1>10 DEF QInv

LEMMA AcceptKeeps ==
  ASSUME IInv, IInv', QInv, [Next]_vars, NEW m \in Engine, NEW key \in Key,
         NEW t \in Threshold, NEW s \in Suspect, NEW v \in Vote,
         AcceptQuarantine(m, key, t, s, v)
  PROVE  QInv'
<1> DEFINE n == allocated[m] + 1
<1>1. /\ About(m, s)
      /\ UNCHANGED <<accusations, quarantined, quarantine_count>>
      /\ Store(m, TrackedBallot(m, key, t), {})
      /\ SendVote(m, key, v)
      /\ key.proposer \in Engine => [key |-> key, suspect |-> s] \in accusations
  BY DEF AcceptQuarantine, AcceptProposal, quarantine
<1>2. TrackedBallot(m, key, t).key = key
  BY DEF TrackedBallot, StoredBallot
<1>3. /\ n \in Handle /\ n <= allocated'[m] /\ ballots'[m][n].key = key
      /\ \A u \in Engine, g \in Handle : Stored(u, g)' /\ ~Stored(u, g) => u = m /\ g = n
  BY <1>1, <1>2, StoreNew
<1>4. \A u \in Engine, h \in Handle : Stored(u, h) => suspect'[u][h] = suspect[u][h]
  BY <1>1, SuspectKept
<1>5. suspect \in [Engine -> [Handle -> Suspect \union {Unknown}]]
  BY DEF QInv, SuspectType
<1>6. suspect'[m][n] = s /\ SuspectType'
  BY <1>1, <1>3, <1>5 DEF About, QInv, SuspectType
<1>7. VotesMeant'
  <2>1. ASSUME NEW x \in votes' \ votes
        PROVE  /\ x.from \in Engine
               /\ \E g \in Handle : Stored(x.from, g)' /\ ballots'[x.from][g].key = x.key
    <3>1. x = [from |-> m, key |-> key, vote |-> v]
      BY <1>1, <2>1 DEF SendVote
    <3>2. x.from = m /\ x.key = key
      BY <3>1
    <3> HIDE DEF n
    <3> QED  BY <1>3, <3>2 DEF Stored
  <2> QED  BY <2>1, VotesKept
<1>8. CopiesMeant'
  <2>1. ASSUME NEW u \in Engine, NEW g \in Handle, Stored(u, g)', ~Stored(u, g),
               ballots'[u][g].key.proposer \in Engine \ {u}
        PROVE  [key |-> ballots'[u][g].key, suspect |-> suspect'[u][g]] \in accusations'
    <3>1. u = m /\ g = n
      BY <1>3, <2>1
    <3> HIDE DEF n
    <3> QED  BY <1>1, <1>3, <1>6, <2>1, <3>1
  <2> QED  BY <1>1, <1>4, <2>1, CopiesKept
<1>9. AccusationsMeant'
  BY <1>1, <1>4, AccusationsKept DEF AccusationsMeant
<1>10. IsolationInv'
  <2>1. \A u \in Engine : \A x \in quarantined[u] : VotedOut(u, x)'
    BY <1>4, VotedOutKept DEF QInv, IsolationInv
  <2> QED  BY <1>1, <2>1 DEF QInv, IsolationInv
<1> QED  BY <1>6, <1>7, <1>8, <1>9, <1>10 DEF QInv

LEMMA IsolateKeeps ==
  ASSUME IInv, QInv, NEW m \in Engine, NEW s \in Suspect,
         ExecuteQuarantine(m, s) \/ LiftQuarantine(m, s)
  PROVE  QInv'
<1> DEFINE Q == quarantined[m]
<1>1. /\ UNCHANGED <<suspect, accusations, votes, ballots, allocated>>
  BY DEF ExecuteQuarantine, LiftQuarantine, vars
<1>2. /\ Q \in SUBSET Suspect /\ m \notin Q /\ IsFiniteSet(Q)
      /\ quarantine_count[m] = Cardinality(Q) /\ Cardinality(Q) \in Nat
      /\ quarantined \in [Engine -> SUBSET Suspect]
      /\ quarantine_count \in [Engine -> Nat]
  BY FS_CardinalityType DEF QInv, SuspectType, IsolationInv
<1>3. \A v \in Engine : \A x : VotedOut(v, x) => VotedOut(v, x)'
  BY <1>1 DEF VotedOut, Own
<1>4. VotesMeant' /\ CopiesMeant' /\ AccusationsMeant'
  BY <1>1 DEF QInv, VotesMeant, CopiesMeant, AccusationsMeant, Stored
<1>5. CASE ExecuteQuarantine(m, s)
  <2>1. /\ quarantined' = [quarantined EXCEPT ![m] = Q \union {s}]
        /\ quarantine_count' = [quarantine_count EXCEPT ![m] = quarantine_count[m] + 1]
        /\ s \notin Q /\ s # m /\ VotedOut(m, s)
    BY <1>5 DEF ExecuteQuarantine, MayIsolate, Fresh
  <2>2. IsFiniteSet(Q \union {s}) /\ Cardinality(Q \union {s}) = Cardinality(Q) + 1
    BY <1>2, <2>1, FS_AddElement
  <2>3. SuspectType'
    BY <1>1, <1>2, <2>1 DEF QInv, SuspectType
  <2>4. IsolationInv'
    BY <1>2, <1>3, <2>1, <2>2 DEF QInv, IsolationInv
  <2> QED  BY <1>4, <2>3, <2>4 DEF QInv
<1>6. CASE LiftQuarantine(m, s)
  <2>1. /\ quarantined' = [quarantined EXCEPT ![m] = Q \ {s}]
        /\ quarantine_count' = [quarantine_count EXCEPT ![m] =
             IF quarantine_count[m] > 0 THEN quarantine_count[m] - 1 ELSE quarantine_count[m]]
        /\ s \in Q
    BY <1>6 DEF LiftQuarantine
  <2>2. IsFiniteSet(Q \ {s}) /\ Cardinality(Q \ {s}) = Cardinality(Q) - 1
    BY <1>2, <2>1, FS_RemoveElement
  <2>3. Cardinality(Q) > 0
    BY <1>2, <2>2, FS_CardinalityType
  <2>4. SuspectType'
    BY <1>1, <1>2, <2>1, <2>3 DEF QInv, SuspectType
  <2>5. IsolationInv'
    BY <1>2, <1>3, <2>1, <2>2, <2>3 DEF QInv, IsolationInv
  <2> QED  BY <1>4, <2>4, <2>5 DEF QInv
<1> QED  BY <1>5, <1>6

LEMMA OtherKeeps ==
  ASSUME IInv, IInv', QInv, [Next]_vars, NEW m \in Engine, OtherStep(m)
  PROVE  QInv'
<1>1. UNCHANGED <<suspect, accusations, quarantined, quarantine_count>>
  BY DEF OtherStep, quarantine
<1>2. allocated' = allocated
  BY DEF OtherStep, SetElectorate, CastVote, Inhibit, OnInhibit, RecordInhibition, OnVote,
         RefuseInhibited, RefuseFull, Tick, AdvanceTime
<1>3. VotesMeant'
  <2>1. ASSUME NEW key \in Key, NEW v \in Vote, CastVote(m, key, v),
               NEW x \in votes' \ votes
        PROVE  /\ x.from \in Engine
               /\ \E g \in Handle : Stored(x.from, g)' /\ ballots'[x.from][g].key = x.key
    <3>1. PICK h \in Handle : h \in active[m] /\ ballots[m][h].key = key
      BY <2>1 DEF CastVote, Find
    <3>2. x = [from |-> m, key |-> key, vote |-> v]
      BY <2>1 DEF CastVote, SendVote
    <3>3. x.from = m /\ x.key = key
      BY <3>2
    <3>4. Stored(m, h)
      BY <3>1 DEF IInv, EngineInv, Stored
    <3> QED  BY <3>1, <3>3, <3>4, StoredKept
  <2>2. ASSUME NEW key \in Key, NEW t \in Threshold, RefuseFull(m, key, t),
               NEW x \in votes' \ votes
        PROVE  x.vote # "YES"
    <3>1. x = [from |-> m, key |-> key, vote |-> "NO"]
      BY <2>2 DEF RefuseFull, SendVote
    <3>2. x.vote = "NO"
      BY <3>1
    <3> QED  BY <3>2
  <2>3. \/ \E key \in Key, v \in Vote : CastVote(m, key, v)
        \/ \E key \in Key, t \in Threshold : RefuseFull(m, key, t)
        \/ votes' = votes
    BY DEF OtherStep, SetElectorate, Inhibit, OnInhibit, RecordInhibition, OnVote, network,
           RefuseInhibited, Tick, AdvanceTime
  <2> QED  BY <2>1, <2>2, <2>3, VotesKept
<1>4. \A v \in Engine, h \in Handle : Stored(v, h) => suspect'[v][h] = suspect[v][h]
  BY <1>1
<1>5. CopiesMeant'
  BY <1>1, <1>2, <1>4, CopiesKept DEF Stored
<1>6. AccusationsMeant'
  BY <1>1, <1>4, AccusationsKept DEF AccusationsMeant
<1>7. IsolationInv'
  <2>1. \A v \in Engine : \A x \in quarantined[v] : VotedOut(v, x)'
    BY <1>4, VotedOutKept DEF QInv, IsolationInv
  <2> QED  BY <1>1, <2>1 DEF QInv, IsolationInv
<1> QED  BY <1>1, <1>3, <1>5, <1>6, <1>7 DEF QInv, SuspectType

LEMMA InitQInv == QuarantineInit => QInv
<1> SUFFICES ASSUME QuarantineInit PROVE QInv
  OBVIOUS
<1>1. /\ allocated = [m \in Engine |-> 0] /\ votes = {} /\ accusations = {}
      /\ suspect = [m \in Engine |-> [h \in Handle |-> Unknown]]
      /\ quarantined = [m \in Engine |-> {}] /\ quarantine_count = [m \in Engine |-> 0]
  BY DEF QuarantineInit, Init
<1>2. SuspectType
  BY <1>1 DEF SuspectType
<1>3. CopiesMeant
  BY <1>1 DEF CopiesMeant, Stored, Handle
<1>4. IsolationInv
  BY <1>1, FS_EmptySet DEF IsolationInv
<1> QED  BY <1>1, <1>2, <1>3, <1>4 DEF QInv, VotesMeant, AccusationsMeant

(***************************************************************************)
(* Whoever a module has isolated was voted out by modules that meant that  *)
(* suspect, as long as its ballot ids have not gone round; it is never the *)
(* module itself, and the count is right.                                  *)
(***************************************************************************)
THEOREM QuarantineCorrect == QuarantineSpec => []QuarantineEarned
<1>1. IInv /\ IInv' /\ QInv /\ [QuarantineNext]_allVars => QInv'
  <2> SUFFICES ASSUME IInv, IInv', QInv, [QuarantineNext]_allVars PROVE QInv'
    OBVIOUS
  <2>1. [Next]_vars
    BY EnginesStep
  <2>2. CASE UNCHANGED allVars
    BY <2>2 DEF allVars, vars, quarantine, QInv, SuspectType, VotesMeant, CopiesMeant,
                AccusationsMeant, IsolationInv, VotedOut, Own, Stored
  <2> QED  BY <2>1, <2>2, ProposeKeeps, AcceptKeeps, IsolateKeeps, OtherKeeps
             DEF QuarantineNext
<1>2. QuarantineInit /\ [][QuarantineNext]_allVars /\ [](IInv /\ TablesInv) => []QInv
  BY <1>1, InitQInv, PTL
<1> QED  BY <1>2, EnginesInvariance, QInvEarned, PTL DEF QuarantineSpec
=============================================================================
