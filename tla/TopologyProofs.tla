--------------------------- MODULE TopologyProofs ---------------------------
(***************************************************************************)
(* The election of Topology is right for every number of modules, every    *)
(* metric, k and size of the table of known modules.  The invariant is     *)
(* inductive: the neighbours are the election from scratch, so a discovery *)
(* that calls for no election must leave that election as it is.           *)
(***************************************************************************)
EXTENDS Topology, FiniteSetTheorems, TLAPS

(***************************************************************************)
(* Tables of distances, and their order.                                   *)
(***************************************************************************)
IsTable(t) ==
  /\ IsFiniteSet(DOMAIN t) /\ DOMAIN t \subseteq Nat
  /\ t \in [DOMAIN t -> Nat]

Rank(t, m) == Cardinality(Ahead(t, m))

(***************************************************************************)
(* Before is a strict total order on pairs of an id and a distance.        *)
(***************************************************************************)
LEMMA BeforeOrder ==
  ASSUME NEW m \in Nat, NEW d \in Nat, NEW q \in Nat, NEW e \in Nat,
         NEW r \in Nat, NEW f \in Nat
  PROVE  /\ ~Before(m, d, m, d)
         /\ Before(m, d, q, e) /\ Before(q, e, r, f) => Before(m, d, r, f)
         /\ m # q => Before(m, d, q, e) \/ Before(q, e, m, d)
         /\ ~(Before(m, d, q, e) /\ Before(q, e, m, d))
BY DEF Before

(***************************************************************************)
(* The rank of a module is a number below the size of the table.           *)
(***************************************************************************)
LEMMA RankType ==
  ASSUME NEW t, IsTable(t), NEW m \in DOMAIN t
  PROVE  /\ IsFiniteSet(Ahead(t, m))
         /\ Rank(t, m) \in Nat
         /\ Rank(t, m) < Cardinality(DOMAIN t)
<1>1. Ahead(t, m) \subseteq DOMAIN t
  BY DEF Ahead
<1>2. m \notin Ahead(t, m)
  BY BeforeOrder DEF Ahead, IsTable
<1>3. /\ IsFiniteSet(Ahead(t, m))
      /\ Cardinality(Ahead(t, m)) <= Cardinality(DOMAIN t)
      /\ Cardinality(Ahead(t, m)) = Cardinality(DOMAIN t) => Ahead(t, m) = DOMAIN t
  BY <1>1, FS_Subset DEF IsTable
<1>4. Cardinality(Ahead(t, m)) \in Nat /\ Cardinality(DOMAIN t) \in Nat
  BY <1>3, FS_CardinalityType DEF IsTable
<1> QED
  BY <1>2, <1>3, <1>4 DEF Rank

(***************************************************************************)
(* A module that comes before another has a smaller rank.                  *)
(***************************************************************************)
LEMMA RankMonotone ==
  ASSUME NEW t, IsTable(t), NEW m \in DOMAIN t, NEW q \in DOMAIN t,
         Before(q, t[q], m, t[m])
  PROVE  Rank(t, q) < Rank(t, m)
<1>1. Ahead(t, q) \subseteq Ahead(t, m)
  <2> SUFFICES ASSUME NEW r \in DOMAIN t, Before(r, t[r], q, t[q])
               PROVE  Before(r, t[r], m, t[m])
    BY DEF Ahead
  <2>1. /\ r \in Nat /\ q \in Nat /\ m \in Nat
        /\ t[r] \in Nat /\ t[q] \in Nat /\ t[m] \in Nat
    BY DEF IsTable
  <2> QED
    BY <2>1, BeforeOrder
<1>2. q \in Ahead(t, m) /\ q \notin Ahead(t, q)
  BY BeforeOrder DEF Ahead, IsTable
<1>3. IsFiniteSet(Ahead(t, m))
  BY RankType
<1>4. /\ Cardinality(Ahead(t, q)) <= Cardinality(Ahead(t, m))
      /\ Cardinality(Ahead(t, q)) = Cardinality(Ahead(t, m)) => Ahead(t, q) = Ahead(t, m)
  BY <1>1, <1>3, FS_Subset
<1>5. Rank(t, q) \in Nat /\ Rank(t, m) \in Nat
  BY RankType
<1> QED
  BY <1>2, <1>4, <1>5 DEF Rank

(***************************************************************************)
(* Different modules have different ranks.                                 *)
(***************************************************************************)
LEMMA RankInjective ==
  ASSUME NEW t, IsTable(t), NEW m \in DOMAIN t, NEW q \in DOMAIN t, m # q
  PROVE  Rank(t, m) # Rank(t, q)
<1>1. /\ m \in Nat /\ q \in Nat /\ t[m] \in Nat /\ t[q] \in Nat
  BY DEF IsTable
<1>2. Before(m, t[m], q, t[q]) \/ Before(q, t[q], m, t[m])
  BY <1>1, BeforeOrder
<1>3. Rank(t, m) \in Nat /\ Rank(t, q) \in Nat
  BY RankType
<1> QED
  BY <1>2, <1>3, RankMonotone

(***************************************************************************)
(* A set of modules whose ranks lie in an interval is no larger than it.   *)
(***************************************************************************)
LEMMA RankedSize ==
  ASSUME NEW t, IsTable(t), NEW S \in SUBSET DOMAIN t,
         NEW a \in Nat, NEW b \in Nat, a <= b,
         \A m \in S : a <= Rank(t, m) /\ Rank(t, m) < b
  PROVE  IsFiniteSet(S) /\ Cardinality(S) <= b - a
<1> DEFINE rank == [m \in S |-> Rank(t, m)]
<1>1. rank \in [S -> a .. b - 1]
  BY RankType
<1>2. \A m, q \in S : rank[m] = rank[q] => m = q
  BY RankInjective
<1>3. rank \in Injection(S, a .. b - 1)
  BY <1>1, <1>2 DEF Injection, IsInjective
<1>4. /\ IsFiniteSet(a .. b - 1)
      /\ Cardinality(a .. b - 1) = IF a > b - 1 THEN 0 ELSE (b - 1) - a + 1
  BY FS_Interval
<1>5. Cardinality(S) <= Cardinality(a .. b - 1) /\ IsFiniteSet(S)
  BY <1>3, <1>4, FS_Injection
<1>6. Cardinality(a .. b - 1) = b - a
  BY <1>4
<1> QED
  BY <1>5, <1>6

(***************************************************************************)
(* The nearest of a table are as many as k and the table allow: those that *)
(* are chosen have the ranks below k, those that are not the ranks above.  *)
(***************************************************************************)
LEMMA NearestSize ==
  ASSUME NEW t, IsTable(t)
  PROVE  /\ IsFiniteSet(Nearest(t))
         /\ Cardinality(Nearest(t)) =
              IF Cardinality(DOMAIN t) < K THEN Cardinality(DOMAIN t) ELSE K
<1> DEFINE D == DOMAIN t
           N == Nearest(t)
           n == Cardinality(D)
<1>1. K \in Nat /\ n \in Nat /\ N \subseteq D /\ D \ N \subseteq D
  BY TopologyAssumption, FS_CardinalityType DEF IsTable, Nearest
<1>2. \A m \in N : 0 <= Rank(t, m) /\ Rank(t, m) < K
  BY <1>1, RankType DEF Nearest, Rank
<1>3. IsFiniteSet(N) /\ Cardinality(N) <= K
  BY <1>1, <1>2, RankedSize
<1>4. Cardinality(N) \in Nat /\ Cardinality(N) <= n
  BY <1>1, <1>3, FS_Subset, FS_CardinalityType DEF IsTable
<1>5. \A m \in D \ N : K <= Rank(t, m) /\ Rank(t, m) < n
  BY <1>1, RankType DEF Nearest, Rank
<1>6. CASE n < K
  <2>1. D \ N = {}
    BY <1>1, <1>5, <1>6, RankType
  <2> QED
    BY <1>1, <1>3, <1>6, <2>1
<1>7. CASE K <= n
  <2>1. Cardinality(D \ N) <= n - K
    BY <1>1, <1>5, <1>7, RankedSize
  <2>2. Cardinality(D \ N) = n - Cardinality(D \cap N)
    BY FS_Difference DEF IsTable
  <2>3. D \cap N = N
    BY <1>1
  <2>4. n - Cardinality(N) <= n - K
    BY <2>1, <2>2, <2>3
  <2>5. Cardinality(N) = K
    <3> HIDE DEF n, N
    <3> QED
      BY <1>1, <1>3, <1>4, <2>4
  <2> QED
    BY <1>1, <1>3, <1>7, <2>5
<1> QED
  BY <1>1, <1>6, <1>7

(***************************************************************************)
(* Whoever is among the nearest comes before whoever is not.               *)
(***************************************************************************)
LEMMA NearestBefore ==
  ASSUME NEW t, IsTable(t), NEW n \in Nearest(t), NEW r \in DOMAIN t \ Nearest(t)
  PROVE  Before(n, t[n], r, t[r])
<1>1. n \in DOMAIN t /\ n # r
  BY DEF Nearest
<1>2. n \in Nat /\ r \in Nat /\ t[n] \in Nat /\ t[r] \in Nat
  BY <1>1 DEF IsTable
<1>3. Rank(t, n) < K /\ ~(Rank(t, r) < K)
  BY <1>1 DEF Nearest, Rank
<1>4. Rank(t, n) \in Nat /\ Rank(t, r) \in Nat /\ K \in Nat
  BY <1>1, RankType, TopologyAssumption
<1>5. ~Before(r, t[r], n, t[n])
  BY <1>1, <1>3, <1>4, RankMonotone
<1> QED
  BY <1>1, <1>2, <1>5, BeforeOrder

(***************************************************************************)
(* The discovery that calls for no election: when k are chosen and none of *)
(* them comes after m, a new entry for m changes nothing.                  *)
(***************************************************************************)
LEMMA SkippedElection ==
  ASSUME NEW t, IsTable(t), NEW m \in Nat, NEW d \in Nat,
         m \notin Nearest(t), Cardinality(Nearest(t)) >= K,
         \A n \in Nearest(t) : ~Before(m, d, n, t[n])
  PROVE  Nearest(With(t, m, d)) = Nearest(t)
<1> DEFINE u == With(t, m, d)
           N == Nearest(t)
<1>1. /\ DOMAIN u = DOMAIN t \union {m}
      /\ u[m] = d
      /\ \A q \in DOMAIN t : q # m => u[q] = t[q]
  BY DEF With
<1>2. IsTable(u)
  BY <1>1, FS_AddElement DEF With, IsTable
<1>3. /\ N \subseteq DOMAIN t /\ m \notin N
      /\ IsFiniteSet(N) /\ K \in Nat
      /\ Cardinality(N) \in Nat
  BY NearestSize, FS_CardinalityType, TopologyAssumption DEF Nearest
<1>4. ASSUME NEW n \in N  PROVE  Ahead(u, n) = Ahead(t, n)
  <2>1. n \in DOMAIN t /\ n # m /\ u[n] = t[n]
    BY <1>1, <1>3
  <2>2. m \notin Ahead(u, n)
    BY <1>1, <2>1 DEF Ahead
  <2>3. m \notin Ahead(t, n)
    <3> SUFFICES ASSUME m \in DOMAIN t  PROVE  ~Before(m, t[m], n, t[n])
      BY DEF Ahead
    <3>1. Before(n, t[n], m, t[m])
      BY NearestBefore
    <3>2. n \in Nat /\ t[n] \in Nat /\ t[m] \in Nat
      BY <2>1 DEF IsTable
    <3> QED
      BY <3>1, <3>2, BeforeOrder
  <2> QED
    BY <1>1, <2>1, <2>2, <2>3 DEF Ahead
<1>5. N \subseteq Nearest(u)
  BY <1>1, <1>3, <1>4 DEF Nearest
<1>6. ASSUME NEW r \in DOMAIN u, r \notin N, N \subseteq Ahead(u, r)
      PROVE  r \notin Nearest(u)
  <2>1. IsFiniteSet(Ahead(u, r)) /\ Rank(u, r) \in Nat
    BY <1>2, RankType
  <2>2. Cardinality(N) <= Cardinality(Ahead(u, r))
    BY <1>6, <2>1, FS_Subset
  <2> QED
    BY <1>3, <2>1, <2>2 DEF Nearest, Rank
<1>7. N \subseteq Ahead(u, m)
  <2> SUFFICES ASSUME NEW n \in N  PROVE  n \in Ahead(u, m)
    OBVIOUS
  <2>1. n \in DOMAIN t /\ n # m /\ u[n] = t[n] /\ n \in Nat /\ t[n] \in Nat
    BY <1>1, <1>3 DEF IsTable
  <2>2. Before(n, t[n], m, d)
    BY <2>1, BeforeOrder
  <2> QED
    BY <1>1, <2>1, <2>2 DEF Ahead
<1>8. ASSUME NEW r \in DOMAIN t \ N, r # m  PROVE  N \subseteq Ahead(u, r)
  <2> SUFFICES ASSUME NEW n \in N  PROVE  n \in Ahead(u, r)
    OBVIOUS
  <2>1. Before(n, t[n], r, t[r])
    BY <1>8, NearestBefore
  <2> QED
    BY <1>1, <1>3, <1>8, <2>1 DEF Ahead
<1>9. Nearest(u) \subseteq N
  <2> SUFFICES ASSUME NEW r \in DOMAIN u, r \notin N  PROVE  r \notin Nearest(u)
    BY DEF Nearest
  <2>1. N \subseteq Ahead(u, r)
    BY <1>1, <1>7, <1>8
  <2> QED
    BY <1>6, <2>1
<1> QED
  BY <1>5, <1>9
-----------------------------------------------------------------------------
(***************************************************************************)
(* The inductive invariant.                                                *)
(***************************************************************************)
IInv == TypeOK /\ NearestElected /\ NeighborsTold

\* The distances of the modules known are a table, and the elected are in it.
LEMMA KnownDistances ==
  ASSUME NEW S, S \subseteq Module, NEW positions \in [S -> Position]
  PROVE  /\ IsTable(Distances(positions))
         /\ DOMAIN Distances(positions) = S
         /\ DOMAIN Election(positions) = Nearest(Distances(positions))
         /\ DOMAIN Election(positions) \subseteq S
         /\ Election(positions) \in [DOMAIN Election(positions) -> Nat]
<1>1. IsFiniteSet(S) /\ S \subseteq Nat
  BY TopologyAssumption, FS_Subset
<1>2. Distances(positions) \in [S -> Nat]
  BY TopologyAssumption DEF Distances
<1>3. Nearest(Distances(positions)) \subseteq S
  BY <1>2 DEF Nearest
<1> QED
  BY <1>1, <1>2, <1>3 DEF IsTable, Election

(***************************************************************************)
(* An election leaves the invariant true whatever was elected before, as   *)
(* long as the last callback named it.                                     *)
(***************************************************************************)
LEMMA ReelectStep ==
  ASSUME NEW S, S \subseteq Module \ {Self}, NEW positions \in [S -> Position],
         Cardinality(S) <= MaxKnown,
         NEW old, DOMAIN old \subseteq told, told \subseteq Module,
         known' = positions, Reelect(old, positions),
         since_discovery \in 0 .. Period, UNCHANGED since_discovery
  PROVE  IInv'
<1> DEFINE new == Election(positions)
<1>1. neighbors' = new
  BY DEF Reelect
<1>2. told' = IF S # {} /\ Changed(old, new) THEN DOMAIN new ELSE told
  BY DEF Reelect
<1>3. /\ DOMAIN new \subseteq S /\ new \in [DOMAIN new -> Nat]
  BY KnownDistances
<1>4. DOMAIN new \subseteq told'
  <2>1. CASE S = {}
    BY <1>3, <2>1
  <2>2. CASE Changed(old, new) /\ S # {}
    BY <1>2, <2>2
  <2>3. CASE ~Changed(old, new)
    BY <1>2, <2>3 DEF Changed
  <2> QED
    BY <2>1, <2>2, <2>3
<1>5. TypeOK'
  BY <1>1, <1>2, <1>3 DEF TypeOK, Elected
<1>6. NearestElected'
  BY <1>1 DEF NearestElected, Election, Distances, Nearest, Ahead, Before
<1> QED
  BY <1>1, <1>4, <1>5, <1>6 DEF IInv, NeighborsTold, Elected

LEMMA InitIInv == Init => IInv
<1> SUFFICES ASSUME Init PROVE IInv
  OBVIOUS
<1>1. DOMAIN known = {} /\ DOMAIN neighbors = {} /\ told = {}
  BY DEF Init
<1>2. Cardinality({}) = 0
  BY FS_EmptySet
<1>3. TypeOK
  BY <1>1, <1>2, TopologyAssumption DEF Init, TypeOK, Elected
<1>4. DOMAIN Distances(known) = {}
  BY <1>1 DEF Distances
<1>5. Nearest(Distances(known)) = {}
  BY <1>4 DEF Nearest
<1>6. neighbors = Election(known)
  BY <1>5 DEF Init, Election
<1> QED
  BY <1>1, <1>3, <1>6 DEF IInv, NearestElected, NeighborsTold, Elected

\* A discovery, with or without an election, leaves the nearest elected.
LEMMA DiscoveryStep ==
  ASSUME IInv, NEW m \in Module, NEW p \in Position, OnDiscovery(m, p)
  PROVE  IInv'
<1> DEFINE t == Distances(known)
           d == Metric[m][p]
           S == DOMAIN known \union {m}
           positions == With(known, m, p)
<1>1. /\ DOMAIN known \subseteq Module \ {Self} /\ known \in [DOMAIN known -> Position]
      /\ IsFiniteSet(DOMAIN known) /\ Cardinality(DOMAIN known) \in Nat
      /\ Cardinality(DOMAIN known) <= MaxKnown
      /\ since_discovery \in 0 .. Period /\ told \subseteq Module
  BY TopologyAssumption, FS_Subset, FS_CardinalityType DEF IInv, TypeOK
<1>2. /\ m # Self /\ HasRoom(m) /\ known' = positions /\ UNCHANGED since_discovery
      /\ d \in Nat /\ m \in Nat
  BY TopologyAssumption DEF OnDiscovery
<1>3. S \subseteq Module \ {Self} /\ positions \in [S -> Position]
  BY <1>1, <1>2 DEF With
<1>4. Cardinality(S) <= MaxKnown
  <2>1. Cardinality(S) = IF m \in DOMAIN known THEN Cardinality(DOMAIN known)
                                                ELSE Cardinality(DOMAIN known) + 1
    BY <1>1, FS_AddElement
  <2>2. MaxKnown \in Nat
    BY TopologyAssumption
  <2>3. m \notin DOMAIN known => Cardinality(DOMAIN known) < MaxKnown
    BY <1>2 DEF HasRoom
  <2> HIDE DEF S
  <2> QED
    BY <1>1, <2>1, <2>2, <2>3
<1>5. IsTable(t) /\ DOMAIN t = DOMAIN known /\ Elected = Nearest(t)
  BY <1>1, KnownDistances DEF IInv, NearestElected, Elected
<1>6. \A n \in Elected : neighbors[n] = t[n]
  BY <1>5 DEF IInv, NearestElected, Election, Elected
<1>7. CASE CallsForElection(m, d)
  <2>1. Reelect(neighbors, positions)
    BY <1>7 DEF OnDiscovery
  <2>2. DOMAIN neighbors \subseteq told
    BY DEF IInv, NeighborsTold, Elected
  <2> QED
    BY <1>1, <1>2, <1>3, <1>4, <2>1, <2>2, ReelectStep
<1>8. CASE ~CallsForElection(m, d)
  <2>1. UNCHANGED <<neighbors, told>>
    BY <1>8 DEF OnDiscovery
  <2>2. Cardinality(Nearest(t)) >= K
    BY <1>5, <1>8, NearestSize, FS_CardinalityType, TopologyAssumption
       DEF CallsForElection, Filling
  <2>3. Distances(positions) = With(t, m, d)
    BY DEF Distances, With
  <2>4. /\ Nearest(With(t, m, d)) = Nearest(t)
        /\ \A n \in Nearest(t) : With(t, m, d)[n] = t[n]
    <3>1. CASE m \in Nearest(t)
      <4>1. t[m] = d
        BY <1>5, <1>6, <1>8, <3>1 DEF CallsForElection, HasMoved
      <4>2. m \in DOMAIN t
        BY <3>1 DEF Nearest
      <4>3. With(t, m, d) = t
        BY <4>1, <4>2 DEF With, Distances
      <4> QED
        BY <4>3
    <3>2. CASE m \notin Nearest(t)
      <4>1. \A n \in Nearest(t) : ~Before(m, d, n, t[n])
        BY <1>5, <1>6, <1>8, <3>2 DEF CallsForElection, BeatsWorst
      <4>2. Nearest(With(t, m, d)) = Nearest(t)
        BY <1>2, <1>5, <2>2, <3>2, <4>1, SkippedElection
      <4> QED
        BY <3>2, <4>2 DEF With, Nearest
    <3> QED
      BY <3>1, <3>2
  <2>5. Election(positions) = Election(known)
    BY <2>3, <2>4 DEF Election
  <2>6. neighbors' = Election(known')
    BY <1>2, <2>1, <2>5 DEF IInv, NearestElected
  <2>7. TypeOK'
    BY <1>1, <1>2, <1>3, <1>4, <2>1 DEF IInv, TypeOK, Elected
  <2>8. NeighborsTold'
    BY <2>1 DEF IInv, NeighborsTold, Elected
  <2> QED
    BY <2>6, <2>7, <2>8 DEF IInv, NearestElected, Election, Distances, Nearest, Ahead, Before
<1> QED
  BY <1>7, <1>8

\* So does a loss.
LEMMA LostStep ==
  ASSUME IInv, NEW m \in Module, OnNeighborLost(m)
  PROVE  IInv'
<1> DEFINE S == DOMAIN known \ {m}
<1>1. /\ DOMAIN known \subseteq Module \ {Self} /\ known \in [DOMAIN known -> Position]
      /\ IsFiniteSet(DOMAIN known) /\ Cardinality(DOMAIN known) \in Nat
      /\ Cardinality(DOMAIN known) <= MaxKnown
      /\ since_discovery \in 0 .. Period /\ told \subseteq Module
      /\ DOMAIN neighbors \subseteq told
  BY TopologyAssumption, FS_Subset, FS_CardinalityType
     DEF IInv, TypeOK, NeighborsTold, Elected
<1>2. S \subseteq Module \ {Self} /\ Without(known, m) \in [S -> Position]
  BY <1>1 DEF Without
<1>3. Cardinality(S) <= MaxKnown
  <2>1. Cardinality(S) <= Cardinality(DOMAIN known)
    BY <1>1, FS_Subset
  <2>2. Cardinality(S) \in Nat
    BY <1>1, FS_Subset, FS_CardinalityType
  <2> QED
    BY <1>1, <2>1, <2>2, TopologyAssumption
<1>4. DOMAIN Without(neighbors, m) \subseteq told
  BY <1>1 DEF Without
<1> QED
  BY <1>1, <1>2, <1>3, <1>4, ReelectStep DEF OnNeighborLost

LEMMA ForceStep ==
  ASSUME IInv, ForceReelect
  PROVE  IInv'
<1>1. /\ DOMAIN known \subseteq Module \ {Self} /\ known \in [DOMAIN known -> Position]
      /\ Cardinality(DOMAIN known) <= MaxKnown
      /\ since_discovery \in 0 .. Period /\ told \subseteq Module
      /\ DOMAIN neighbors \subseteq told
  BY DEF IInv, TypeOK, NeighborsTold, Elected
<1> QED
  BY <1>1, ReelectStep DEF ForceReelect

LEMMA QuietStep ==
  ASSUME IInv, UNCHANGED <<known, neighbors, told>>, since_discovery' \in 0 .. Period
  PROVE  IInv'
<1>1. TypeOK'
  BY DEF IInv, TypeOK, Elected
<1>2. NearestElected'
  BY DEF IInv, NearestElected, Election, Distances, Nearest, Ahead, Before
<1> QED
  BY <1>1, <1>2 DEF IInv, NeighborsTold, Elected

LEMMA NextIInv == IInv /\ [Next]_vars => IInv'
<1> SUFFICES ASSUME IInv, [Next]_vars PROVE IInv'
  OBVIOUS
<1>1. since_discovery \in 0 .. Period /\ Period \in Nat
  BY TopologyAssumption DEF IInv, TypeOK
<1>2. CASE \E m \in Module, p \in Position : OnDiscovery(m, p)
  BY <1>2, DiscoveryStep
<1>3. CASE \E m \in Module : OnNeighborLost(m)
  BY <1>3, LostStep
<1>4. CASE ForceReelect
  BY <1>4, ForceStep
<1>5. CASE Tick
  BY <1>1, <1>5, QuietStep DEF Tick
<1>6. CASE AdvanceTime
  BY <1>1, <1>6, QuietStep DEF AdvanceTime
<1>7. CASE UNCHANGED vars
  BY <1>1, <1>7, QuietStep DEF vars
<1> QED
  BY <1>2, <1>3, <1>4, <1>5, <1>6, <1>7 DEF Next

LEMMA Invariance == Spec => []IInv
<1> QED  BY InitIInv, NextIInv, PTL DEF Spec
-----------------------------------------------------------------------------
(***************************************************************************)
(* The types of the variables, the limit of the table of known modules     *)
(* included, for every number of modules.                                  *)
(***************************************************************************)
THEOREM TypeCorrect == Spec => []TypeOK
<1>1. IInv => TypeOK
  BY DEF IInv
<1> QED  BY <1>1, Invariance, PTL

(***************************************************************************)
(* ekk_topology_on_discovery elects rightly although it seldom elects.     *)
(***************************************************************************)
THEOREM ElectionCorrect == Spec => []NearestElected
<1>1. IInv => NearestElected
  BY DEF IInv
<1> QED  BY <1>1, Invariance, PTL

\* Of n entries min(k, n) have a rank below k.
LEMMA SizeFollows == IInv => AsManyAsKnown
<1> SUFFICES ASSUME IInv PROVE AsManyAsKnown
  OBVIOUS
<1>1. DOMAIN known \subseteq Module /\ known \in [DOMAIN known -> Position]
  BY DEF IInv, TypeOK
<1>2. /\ IsTable(Distances(known)) /\ DOMAIN Distances(known) = DOMAIN known
      /\ DOMAIN Election(known) = Nearest(Distances(known))
  BY <1>1, KnownDistances
<1>3. Elected = Nearest(Distances(known))
  BY <1>2 DEF IInv, NearestElected, Elected
<1> QED  BY <1>2, <1>3, NearestSize DEF AsManyAsKnown

(***************************************************************************)
(* The size of the neighbourhood: k, or everybody known.                   *)
(***************************************************************************)
THEOREM SizeCorrect == Spec => []AsManyAsKnown
<1>1. IInv => AsManyAsKnown
  BY SizeFollows
<1> QED  BY <1>1, Invariance, PTL

(***************************************************************************)
(* Every neighbour was named by the last changed_callback.                 *)
(***************************************************************************)
THEOREM CallbackNamesNeighbors == Spec => []NeighborsTold
<1>1. IInv => NeighborsTold
  BY DEF IInv
<1> QED  BY <1>1, Invariance, PTL
=============================================================================
