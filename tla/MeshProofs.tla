------------------------------ MODULE MeshProofs ------------------------------
(***************************************************************************)
(* Theorems about Mesh for every set of modules, metric, k, table size and *)
(* timeout.                                                                *)
(*                                                                         *)
(* The topology inside the mesh takes only steps of Topology, so what is   *)
(* proved of that component holds of it here: Proved!NextIInv is cited,    *)
(* not proved again.  The two instances of Topology, Topo of Mesh and the  *)
(* one below, define the same operators.                                   *)
(***************************************************************************)
EXTENDS Mesh, FiniteSetTheorems, SequenceTheorems, TLAPS

Proved == INSTANCE TopologyProofs WITH Period <- DiscoveryPeriod

\* Two instances of one module define the same.
LEMMA SameSize ==
  ASSUME NEW S
  PROVE  Topo!Cardinality(S) = Cardinality(S) /\ Proved!Cardinality(S) = Cardinality(S)
BY DEF Topo!Cardinality, Proved!Cardinality, Cardinality

LEMMA SameOrder ==
  ASSUME NEW t, NEW m
  PROVE  /\ \A d, q, e : Topo!Before(m, d, q, e) <=> Proved!Before(m, d, q, e)
         /\ Topo!Ahead(t, m) = Proved!Ahead(t, m)
BY DEF Topo!Before, Proved!Before, Topo!Ahead, Proved!Ahead

LEMMA SameElection ==
  ASSUME NEW t
  PROVE  Topo!Election(t) = Proved!Election(t)
<1>1. \A u : Topo!Nearest(u) = Proved!Nearest(u)
  BY SameOrder, SameSize DEF Topo!Nearest, Proved!Nearest
<1>2. Topo!Distances(t) = Proved!Distances(t)
  BY DEF Topo!Distances, Proved!Distances
<1> QED  BY <1>1, <1>2 DEF Topo!Election, Proved!Election

LEMMA SameReelection ==
  ASSUME NEW t, NEW u
  PROVE  Topo!Reelect(t, u) <=> Proved!Reelect(t, u)
<1>1. \A x, y : Topo!Changed(x, y) <=> Proved!Changed(x, y)
  BY SameOrder, SameSize DEF Topo!Changed, Proved!Changed
<1> QED  BY <1>1, SameElection DEF Topo!Reelect, Proved!Reelect

LEMMA SameTables ==
  ASSUME NEW t, NEW m, NEW x
  PROVE  Topo!With(t, m, x) = Proved!With(t, m, x) /\ Topo!Without(t, m) = Proved!Without(t, m)
BY DEF Topo!With, Proved!With, Topo!Without, Proved!Without

LEMMA SameActions ==
  /\ \A m, p : Topo!OnDiscovery(m, p) <=> Proved!OnDiscovery(m, p)
  /\ \A m : Topo!OnNeighborLost(m) <=> Proved!OnNeighborLost(m)
  /\ Topo!ForceReelect <=> Proved!ForceReelect
  /\ Topo!Tick <=> Proved!Tick
  /\ Topo!AdvanceTime <=> Proved!AdvanceTime
  /\ Topo!Init <=> Proved!Init
  /\ Topo!vars = Proved!vars
<1>1. ASSUME NEW m, NEW p
      PROVE  Topo!OnDiscovery(m, p) <=> Proved!OnDiscovery(m, p)
  <2>1. Topo!HasRoom(m) <=> Proved!HasRoom(m)
    BY SameSize DEF Topo!HasRoom, Proved!HasRoom
  <2>2. Topo!CallsForElection(m, Metric[m][p]) <=> Proved!CallsForElection(m, Metric[m][p])
    BY SameSize, SameOrder
       DEF Topo!CallsForElection, Proved!CallsForElection, Topo!Filling, Proved!Filling,
           Topo!HasMoved, Proved!HasMoved, Topo!BeatsWorst, Proved!BeatsWorst,
           Topo!Elected, Proved!Elected
  <2> QED  BY <2>1, <2>2, SameTables, SameReelection DEF Topo!OnDiscovery, Proved!OnDiscovery
<1>2. ASSUME NEW m
      PROVE  Topo!OnNeighborLost(m) <=> Proved!OnNeighborLost(m)
  BY SameTables, SameReelection
     DEF Topo!OnNeighborLost, Proved!OnNeighborLost, Topo!Elected, Proved!Elected
<1>3. Topo!ForceReelect <=> Proved!ForceReelect
  BY SameReelection DEF Topo!ForceReelect, Proved!ForceReelect
<1>4. Topo!Tick <=> Proved!Tick
  BY SameSize DEF Topo!Tick, Proved!Tick, Topo!DiscoveryDue, Proved!DiscoveryDue,
                  Topo!Elected, Proved!Elected
<1> QED  BY <1>1, <1>2, <1>3, <1>4 DEF Topo!AdvanceTime, Proved!AdvanceTime, Topo!Init,
                                       Proved!Init, Topo!vars, Proved!vars

LEMMA SameNext == Topo!Next <=> Proved!Next
BY SameActions DEF Topo!Next, Proved!Next

(***************************************************************************)
(* What TopologyProofs proves, under the assumptions of Mesh.              *)
(***************************************************************************)
LEMMA TopologyAssumed == Proved!TopologyAssumption
<1>1. Proved!IsFiniteSet(Module)
  BY ComponentAssumption DEF Proved!IsFiniteSet, IsFiniteSet
<1> QED  BY <1>1, ComponentAssumption DEF Proved!TopologyAssumption

\* The inductive invariant of Topology.
LEMMA InitTopology == Proved!Init => Proved!IInv
BY TopologyAssumed, Proved!InitIInv

LEMMA NextTopology == Proved!IInv /\ [Proved!Next]_(Proved!vars) => Proved!IInv'
BY TopologyAssumed, Proved!NextIInv

-----------------------------------------------------------------------------
(***************************************************************************)
(* Every step of the mesh is one of Topology, or none of its concern.      *)
(***************************************************************************)
LEMMA DiscoverStep ==
  ASSUME NEW m \in Module, NEW p \in Position, Discover(m, p)
  PROVE  [Topo!Next]_(Topo!vars)
<1>1. CASE Admitted(m)
  BY <1>1 DEF Discover, Admitted, Topo!Next
<1>2. CASE ~Admitted(m)
  BY <1>2 DEF Discover, Topo!vars
<1> QED  BY <1>1, <1>2

LEMMA TopologyStep ==
  ASSUME [Next]_vars, order \in [DOMAIN order -> Module], DOMAIN order = 1 .. Len(order),
         count \in Nat, since_discovery \in 0 .. DiscoveryPeriod
  PROVE  [Topo!Next]_(Topo!vars)
<1>1. CASE UNCHANGED topology
  BY <1>1 DEF topology, Topo!vars
<1>2. ASSUME NEW m \in Module, Receive(m)
      PROVE  [Topo!Next]_(Topo!vars)
  <2>1. Origin \in Position /\ Places[m] \subseteq Position
    BY <1>2, MeshAssumption
  <2>2. CASE ReceiveHeartbeat(m)
    BY <1>1, <2>1, <2>2, DiscoverStep DEF ReceiveHeartbeat
  <2>3. ASSUME NEW p \in Places[m], ReceiveDiscovery(m, p)
        PROVE  [Topo!Next]_(Topo!vars)
    BY <2>1, <2>3, DiscoverStep DEF ReceiveDiscovery
  <2> QED  BY <1>2, <2>2, <2>3 DEF Receive
<1>3. CASE Judge
  <2> DEFINE m == order[count + 1]
  <2>1. m \in Module
    BY <1>3, ComponentAssumption DEF Judge
  <2>2. Lose(m) \/ UNCHANGED topology
    BY <1>3 DEF Judge
  <2> HIDE DEF m
  <2> QED  BY <1>1, <2>1, <2>2 DEF Lose, Topo!Next
<1>4. CASE Elect
  BY <1>4 DEF Elect, Topo!Next
<1>5. CASE AdvanceTime
  <2>1. UNCHANGED <<known, neighbors, told>>
        /\ since_discovery' = HB!Older(since_discovery, DiscoveryPeriod)
    BY <1>5 DEF AdvanceTime
  <2>2. CASE since_discovery < DiscoveryPeriod
    <3>1. since_discovery' = since_discovery + 1
      BY <2>1, <2>2, ComponentAssumption DEF HB!Older, HB!Lesser
    <3> QED  BY <2>1, <2>2, <3>1 DEF Topo!Next, Topo!AdvanceTime
  <2>3. CASE ~(since_discovery < DiscoveryPeriod)
    <3>1. since_discovery' = since_discovery
      BY <2>1, <2>3, ComponentAssumption DEF HB!Older, HB!Lesser
    <3> QED  BY <2>1, <3>1 DEF Topo!vars
  <2> QED  BY <2>2, <2>3
<1>6. CASE Start \/ Stop \/ Propose \/ Begin \/ Received \/ ReceiveFails \/ Settle
  BY <1>1, <1>6 DEF Start, Stop, Propose, Begin, Received, ReceiveFails, Settle
<1>7. CASE UNCHANGED vars
  BY <1>1, <1>7 DEF vars
<1> QED  BY <1>2, <1>3, <1>4, <1>5, <1>6, <1>7 DEF Next

-----------------------------------------------------------------------------
(***************************************************************************)
(* The rows of the heartbeat table, and their order.                       *)
(***************************************************************************)
LEMMA RowTypes ==
  /\ HB!NewNeighbor \in HB!Neighbor /\ HB!NewNeighbor.health = "UNKNOWN"
  /\ \A n \in HB!Neighbor :
       /\ HB!Heard(n) \in HB!Neighbor /\ HB!Heard(n).health = "ALIVE"
       /\ HB!Checked(n) \in HB!Neighbor
       /\ [n EXCEPT !.age = HB!Older(@, MaxAge)] \in HB!Neighbor
       /\ [n EXCEPT !.age = HB!Older(@, MaxAge)].health = n.health
<1>1. /\ MaxAge \in Nat /\ MaxMissed \in Nat
      /\ 0 \in 0 .. MaxAge /\ 0 \in 0 .. MaxMissed
  BY ComponentAssumption
<1>2. HB!NewNeighbor \in HB!Neighbor /\ HB!NewNeighbor.health = "UNKNOWN"
  BY <1>1 DEF HB!NewNeighbor, HB!Neighbor, HB!Health, HB!Age
<1>3. ASSUME NEW n \in HB!Neighbor
      PROVE  HB!Heard(n) \in HB!Neighbor /\ HB!Heard(n).health = "ALIVE"
  BY <1>1 DEF HB!Heard, HB!Neighbor, HB!Health, HB!Age
<1>4. ASSUME NEW n \in HB!Neighbor
      PROVE  HB!Checked(n) \in HB!Neighbor
  <2>1. /\ n.missed_count \in 0 .. MaxMissed /\ n.age \in 0 .. MaxAge
        /\ HeartbeatPeriod \in Nat \ {0}
    BY ComponentAssumption DEF HB!Neighbor, HB!Age
  <2>2. n.age \div HeartbeatPeriod \in Nat
    BY <1>1, <2>1
  <2>3. HB!Missed(n) \in 0 .. MaxMissed
    <3> DEFINE d == n.age \div HeartbeatPeriod
    <3>1. HB!Missed(n) = IF d > n.missed_count THEN HB!Lesser(d, MaxMissed) ELSE n.missed_count
      BY DEF HB!Missed
    <3>2. d \in Nat
      BY <2>2
    <3> HIDE DEF d
    <3> QED  BY <1>1, <2>1, <3>1, <3>2 DEF HB!Lesser
  <2>4. HB!Verdict(HB!Missed(n)) \in HB!Health
    BY DEF HB!Verdict, HB!Health
  <2> QED  BY <2>3, <2>4 DEF HB!Checked, HB!Neighbor
<1>5. ASSUME NEW n \in HB!Neighbor
      PROVE  /\ [n EXCEPT !.age = HB!Older(@, MaxAge)] \in HB!Neighbor
             /\ [n EXCEPT !.age = HB!Older(@, MaxAge)].health = n.health
  <2>1. n.age \in 0 .. MaxAge
    BY DEF HB!Neighbor, HB!Age
  <2>2. HB!Older(n.age, MaxAge) \in 0 .. MaxAge
    BY <1>1, <2>1 DEF HB!Older, HB!Lesser
  <2> QED  BY <2>2 DEF HB!Neighbor, HB!Age
<1> QED  BY <1>2, <1>3, <1>4, <1>5

TableTypes ==
  /\ Tracked \subseteq Module /\ Cardinality(Tracked) <= MaxKnown
  /\ rows \in [Tracked -> HB!Neighbor]
  /\ order \in [1 .. Cardinality(Tracked) -> Tracked]
  /\ \A i, j \in DOMAIN order : order[i] = order[j] => i = j

\* The table as a sequence.
LEMMA TrackedSize ==
  ASSUME TableTypes
  PROVE  /\ IsFiniteSet(Tracked) /\ Cardinality(Tracked) \in Nat
         /\ DOMAIN order = 1 .. Cardinality(Tracked) /\ Len(order) = Cardinality(Tracked)
         /\ order \in Seq(Tracked) /\ order \in [DOMAIN order -> Module]
<1>1. IsFiniteSet(Module)
  BY ComponentAssumption
<1>2. IsFiniteSet(Tracked) /\ Cardinality(Tracked) \in Nat
  BY <1>1, FS_Subset, FS_CardinalityType DEF TableTypes
<1>3. order \in Seq(Tracked) /\ DOMAIN order = 1 .. Cardinality(Tracked)
  BY <1>2, IsASeq DEF TableTypes
<1>4. Len(order) = Cardinality(Tracked)
  BY <1>2, <1>3, LenProperties
<1> QED  BY <1>2, <1>3, <1>4 DEF TableTypes

LEMMA TrackTypes ==
  ASSUME TableTypes, NEW m \in Module, Track(m)
  PROVE  TableTypes'
<1>1. CASE UNCHANGED heartbeat
  BY <1>1 DEF heartbeat, TableTypes, Tracked
<1>2. CASE ~UNCHANGED heartbeat
  <2>1. /\ m \notin Tracked /\ Cardinality(Tracked) # MaxKnown
        /\ rows' = [q \in Tracked \union {m} |-> IF q = m THEN HB!NewNeighbor ELSE rows[q]]
        /\ order' = Append(order, m)
    BY <1>2 DEF Track
  <2> DEFINE n == Cardinality(Tracked)
  <2>2. DOMAIN rows' = Tracked \union {m} /\ Cardinality(DOMAIN rows') = n + 1
    BY <2>1, TrackedSize, FS_AddElement
  <2>3. n + 1 <= MaxKnown /\ n \in Nat
    BY <2>1, TrackedSize, ComponentAssumption DEF TableTypes
  <2>4. rows' \in [Tracked \union {m} -> HB!Neighbor]
    BY <2>1, RowTypes DEF TableTypes
  <2>5. /\ order' \in [1 .. n + 1 -> Tracked \union {m}] /\ order'[n + 1] = m
        /\ \A i \in 1 .. n : order'[i] = order[i]
    <3>1. n \in Nat /\ Len(order) = n /\ order \in [1 .. n -> Tracked]
      BY TrackedSize DEF TableTypes
    <3> HIDE DEF n
    <3> DEFINE S == Tracked \union {m}
    <3>2. order \in Seq(S) /\ m \in S
      BY <3>1, IsASeq
    <3> HIDE DEF S
    <3>3. /\ order' \in Seq(S) /\ Len(order') = n + 1 /\ order'[n + 1] = m
          /\ \A i \in 1 .. n : order'[i] = order[i]
      BY <2>1, <3>1, <3>2, AppendProperties
    <3>4. order' \in [1 .. n + 1 -> S]
      BY <3>3, LenProperties
    <3> QED  BY <3>3, <3>4 DEF S
  <2>6. ASSUME NEW i \in 1 .. n + 1, NEW j \in 1 .. n + 1, order'[i] = order'[j]
        PROVE  i = j
    <3>1. \A k \in 1 .. n : order[k] \in Tracked
      BY DEF TableTypes
    <3> HIDE DEF n
    <3> QED  BY <2>1, <2>3, <2>5, <2>6, <3>1, TrackedSize DEF TableTypes, n
  <2> HIDE DEF n
  <2>7. Cardinality(DOMAIN rows') <= MaxKnown
    BY <2>2, <2>3, ComponentAssumption
  <2> QED  BY <2>2, <2>4, <2>5, <2>6, <2>7 DEF TableTypes, Tracked
<1> QED  BY <1>1, <1>2

-----------------------------------------------------------------------------
(***************************************************************************)
(* The invariant.                                                          *)
(***************************************************************************)
OtherTypes ==
  /\ entry_health \in [Elected -> HB!Health]
  /\ sampled \subseteq Peer /\ electorate \subseteq Peer
  /\ {state, announced, told_state} \subseteq State
  /\ phase \in {"idle", "receive", "judge", "run"}
  /\ count \in Nat /\ settled \in BOOLEAN
  /\ announced_at \in [Module -> Position \union {NoPosition}]
  /\ overlooked \subseteq Module /\ sender \in Module \union {Nobody}

\* The application knows of every state it can vote in, and between the
\* election and the end of the tick the electorate is the neighbours.
StateInv ==
  /\ phase \in {"idle", "receive"} => state # "REFORMING"
  /\ phase # "idle" => state # "INIT" /\ ~settled
  /\ phase = "run" => electorate = Elected
  /\ state \in Voting => told_state = state

\* Modules found dead while they were not elected stay known, and may be
\* elected later; they are remembered as overlooked.
KnownDead ==
  \A m \in DOMAIN known \intersect Tracked : rows[m].health = "DEAD" => m \in overlooked

AnnouncedKnown ==
  \A m \in DOMAIN known : announced_at[m] \in {NoPosition, known[m]}

MInv ==
  /\ Proved!IInv /\ TableTypes /\ OtherTypes /\ StateInv /\ TickSettles
  /\ KnownDead /\ AnnouncedKnown

LEMMA TopologyFacts ==
  ASSUME Proved!IInv
  PROVE  /\ Topo!TypeOK
         /\ Elected \subseteq DOMAIN known /\ DOMAIN known \subseteq Peer
         /\ known \in [DOMAIN known -> Position]
         /\ since_discovery \in 0 .. DiscoveryPeriod
         /\ neighbors = Topo!Election(known)
<1>1. Proved!TypeOK /\ Proved!NearestElected
  BY DEF Proved!IInv
<1>2. Topo!TypeOK
  BY <1>1, SameSize DEF Proved!TypeOK, Topo!TypeOK, Proved!Elected, Topo!Elected
<1>3. neighbors = Topo!Election(known)
  BY <1>1, SameElection DEF Proved!NearestElected
<1> QED  BY <1>2, <1>3 DEF Topo!TypeOK, Topo!Elected, Elected, Peer

\* What a discovery, and a loss, do to the modules known.
LEMMA DiscoverKnown ==
  ASSUME NEW m \in Module, NEW p \in Position, Discover(m, p), DOMAIN known \subseteq Peer
  PROVE  /\ \A q \in DOMAIN known' : q # m => q \in DOMAIN known /\ known'[q] = known[q]
         /\ Admitted(m) => m \in DOMAIN known' /\ known'[m] = p
         /\ ~Admitted(m) => m \notin DOMAIN known'
<1>1. CASE Admitted(m)
  <2>1. known' = [q \in DOMAIN known \union {m} |-> IF q = m THEN p ELSE known[q]]
    BY <1>1 DEF Discover, Admitted, Topo!OnDiscovery, Topo!With
  <2> QED  BY <1>1, <2>1
<1>2. CASE ~Admitted(m)
  BY <1>2 DEF Discover, Admitted, Topo!HasRoom, Peer
<1> QED  BY <1>1, <1>2

LEMMA LoseKnown ==
  ASSUME NEW m, Lose(m)
  PROVE  /\ \A q \in DOMAIN known' : q \in DOMAIN known /\ known'[q] = known[q]
         /\ m \in Elected => m \notin DOMAIN known'
<1>1. CASE m \in Elected
  <2>1. known' = [q \in DOMAIN known \ {m} |-> known[q]]
    BY <1>1 DEF Lose, Topo!OnNeighborLost, Topo!Without
  <2> QED  BY <1>1, <2>1
<1>2. CASE m \notin Elected
  BY <1>2 DEF Lose, topology
<1> QED  BY <1>1, <1>2

\* An election keeps the healths of who was elected before.
LEMMA EntryTypes ==
  ASSUME OtherTypes, KeepEntries \/ UNCHANGED <<neighbors, entry_health>>
  PROVE  entry_health' \in [DOMAIN neighbors' -> HB!Health]
<1>1. CASE KeepEntries
  BY <1>1 DEF KeepEntries, OtherTypes, HB!Health
<1>2. CASE UNCHANGED <<neighbors, entry_health>>
  BY <1>2 DEF OtherTypes, Elected
<1> QED  BY <1>1, <1>2

LEMMA ReceiveInv ==
  ASSUME MInv, NEW m \in Module, Receive(m)
  PROVE  TableTypes' /\ OtherTypes' /\ KnownDead' /\ AnnouncedKnown'
<1>1. /\ TableTypes /\ OtherTypes /\ KnownDead /\ AnnouncedKnown
      /\ Elected \subseteq DOMAIN known /\ DOMAIN known \subseteq Peer
  BY TopologyFacts DEF MInv
<1>2. /\ UNCHANGED <<sampled, electorate, state, announced, told_state, phase, settled>>
      /\ count' = count + 1 /\ sender' = m
  BY DEF Receive
<1>3. ASSUME TableTypes',
             KeepEntries \/ UNCHANGED <<neighbors, entry_health>>,
             announced_at' \in [Module -> Position \union {NoPosition}],
             overlooked' \subseteq Module
      PROVE  TableTypes' /\ OtherTypes'
  <2>1. entry_health' \in [DOMAIN neighbors' -> HB!Health]
    BY <1>1, <1>3, EntryTypes
  <2>2. count' \in Nat /\ sender' \in Module \union {Nobody}
    BY <1>1, <1>2 DEF OtherTypes
  <2> QED  BY <1>1, <1>2, <1>3, <2>1, <2>2 DEF OtherTypes, Elected
<1>4. Origin \in Position /\ Places[m] \subseteq Position
  BY MeshAssumption
<1>5. ASSUME NEW p \in Places[m], ReceiveDiscovery(m, p)
      PROVE  TableTypes' /\ OtherTypes' /\ KnownDead' /\ AnnouncedKnown'
  <2>1. /\ Discover(m, p) /\ Track(m) /\ p \in Position
        /\ announced_at' = IF Admitted(m) THEN [announced_at EXCEPT ![m] = p]
                           ELSE announced_at
        /\ overlooked' = IF m \in Tracked /\ rows[m].health = "DEAD"
                         THEN overlooked \union {m} ELSE overlooked
    BY <1>4, <1>5 DEF ReceiveDiscovery
  <2>2. TableTypes' /\ OtherTypes'
    BY <1>1, <1>3, <2>1, TrackTypes DEF OtherTypes, Discover
  <2>3. \A q \in DOMAIN rows' : \/ q \in Tracked /\ rows'[q] = rows[q]
                                \/ rows'[q].health = "UNKNOWN"
    BY <2>1, RowTypes DEF Track, heartbeat, Tracked
  <2>4. KnownDead'
    <3>1. \A q \in DOMAIN known' : q # m => q \in DOMAIN known
      BY <1>1, <2>1, DiscoverKnown
    <3> QED  BY <1>1, <2>1, <2>3, <3>1 DEF KnownDead, Tracked
  <2>5. AnnouncedKnown'
    <3>1. ASSUME NEW q \in DOMAIN known' PROVE announced_at'[q] \in {NoPosition, known'[q]}
      <4>1. CASE q = m
        BY <1>1, <2>1, <4>1, DiscoverKnown DEF OtherTypes
      <4>2. CASE q # m
        <5>1. q \in DOMAIN known /\ known'[q] = known[q]
          BY <1>1, <2>1, <4>2, DiscoverKnown
        <5> QED  BY <1>1, <2>1, <4>2, <5>1 DEF OtherTypes, AnnouncedKnown
      <4> QED  BY <4>1, <4>2
    <3> QED  BY <3>1 DEF AnnouncedKnown
  <2> QED  BY <2>2, <2>4, <2>5
<1>6. CASE ReceiveHeartbeat(m) /\ m \notin Tracked
  <2>1. UNCHANGED <<topology, heartbeat, announced_at, overlooked>>
    BY <1>6 DEF ReceiveHeartbeat
  <2>2. TableTypes' /\ KnownDead' /\ AnnouncedKnown'
    BY <1>1, <2>1 DEF topology, heartbeat, TableTypes, Tracked, KnownDead, AnnouncedKnown
  <2> QED  BY <1>1, <1>3, <2>1, <2>2 DEF OtherTypes, topology
<1>7. CASE ReceiveHeartbeat(m) /\ m \in Tracked
  <2>1. rows' = [rows EXCEPT ![m] = HB!Heard(@)] /\ order' = order
    BY <1>7 DEF ReceiveHeartbeat
  <2>2. rows[m] \in HB!Neighbor /\ rows \in [Tracked -> HB!Neighbor]
    BY <1>1, <1>7 DEF TableTypes
  <2>3. TableTypes'
    <3>1. rows' \in [Tracked -> HB!Neighbor]
      BY <2>1, <2>2, RowTypes
    <3> QED  BY <1>1, <2>1, <3>1 DEF TableTypes, Tracked
  <2>4. /\ DOMAIN rows' = Tracked /\ rows'[m].health = "ALIVE"
        /\ \A q \in Tracked : q # m => rows'[q] = rows[q]
    BY <1>7, <2>1, <2>2, RowTypes
  <2>5. CASE rows[m].health = "ALIVE"
    <3>1. UNCHANGED <<topology, announced_at, overlooked>>
      BY <1>7, <2>5 DEF ReceiveHeartbeat
    <3>2. KnownDead' /\ AnnouncedKnown'
      BY <1>1, <2>4, <3>1 DEF topology, KnownDead, AnnouncedKnown, Tracked
    <3> QED  BY <1>1, <1>3, <2>3, <3>1, <3>2 DEF OtherTypes, topology
  <2>6. CASE rows[m].health # "ALIVE"
    <3>1. /\ Discover(m, Origin) /\ overlooked' = overlooked \ {m}
          /\ announced_at' = [announced_at EXCEPT ![m] = NoPosition]
      BY <1>7, <2>6 DEF ReceiveHeartbeat
    <3>2. \A q \in DOMAIN known' : q # m => q \in DOMAIN known /\ known'[q] = known[q]
      BY <1>1, <1>4, <3>1, DiscoverKnown
    <3>3. KnownDead'
      BY <1>1, <2>4, <3>1, <3>2 DEF KnownDead, Tracked
    <3>4. AnnouncedKnown'
      BY <1>1, <3>1, <3>2 DEF AnnouncedKnown, OtherTypes
    <3> QED  BY <1>1, <1>3, <2>3, <3>1, <3>3, <3>4 DEF OtherTypes, Discover
  <2> QED  BY <2>5, <2>6
<1> QED  BY <1>5, <1>6, <1>7 DEF Receive

LEMMA JudgeInv ==
  ASSUME MInv, Judge
  PROVE  TableTypes' /\ OtherTypes' /\ KnownDead' /\ AnnouncedKnown'
<1>1. /\ TableTypes /\ OtherTypes /\ KnownDead /\ AnnouncedKnown
  BY DEF MInv
<1> DEFINE m == order[count + 1]
           new == HB!Checked(rows[m])
<1>2. m \in Tracked /\ m \in Module
  <2>1. count \in Nat /\ count < Cardinality(Tracked) /\ Cardinality(Tracked) \in Nat
    BY <1>1, TrackedSize DEF Judge, OtherTypes
  <2> QED  BY <1>1, <2>1 DEF TableTypes
<1>3. rows[m] \in HB!Neighbor /\ new \in HB!Neighbor
  BY <1>1, <1>2, RowTypes DEF TableTypes
<1>4. /\ rows' = [rows EXCEPT ![m] = new] /\ order' = order /\ count' = count + 1
      /\ UNCHANGED <<sampled, electorate, announced, told_state, phase, settled, sender>>
      /\ IF new.health = "DEAD" /\ rows[m].health # "DEAD"
         THEN /\ Lose(m)
              /\ state' = IF state \in {"ACTIVE", "DEGRADED"} THEN "REFORMING" ELSE state
              /\ overlooked' = IF m \in Elected THEN overlooked \ {m}
                               ELSE overlooked \union {m}
              /\ announced_at' = IF m \in Elected
                                 THEN [announced_at EXCEPT ![m] = NoPosition]
                                 ELSE announced_at
         ELSE UNCHANGED <<topology, state, overlooked, announced_at>>
  BY DEF Judge
<1> HIDE DEF m, new
<1>5. TableTypes'
  BY <1>1, <1>3, <1>4 DEF TableTypes, Tracked
<1>6. /\ DOMAIN rows' = Tracked /\ rows'[m] = new
      /\ \A q \in Tracked : q # m => rows'[q] = rows[q]
  BY <1>1, <1>2, <1>4 DEF TableTypes
<1>7. OtherTypes'
  <2>1. KeepEntries \/ UNCHANGED <<neighbors, entry_health>>
    BY <1>4 DEF Lose, topology
  <2>2. entry_health' \in [DOMAIN neighbors' -> HB!Health]
    BY <1>1, <2>1, EntryTypes
  <2>3. state' \in State /\ count' \in Nat /\ overlooked' \subseteq Module
    BY <1>1, <1>2, <1>4 DEF OtherTypes, State
  <2>4. announced_at' \in [Module -> Position \union {NoPosition}]
    BY <1>1, <1>2, <1>4 DEF OtherTypes
  <2> QED  BY <1>1, <1>4, <2>2, <2>3, <2>4 DEF OtherTypes, Elected
<1>8. CASE new.health = "DEAD" /\ rows[m].health # "DEAD"
  <2>1. /\ \A q \in DOMAIN known' : q \in DOMAIN known /\ known'[q] = known[q]
        /\ m \in Elected => m \notin DOMAIN known'
    BY <1>4, <1>8, LoseKnown
  <2>2. KnownDead'
    BY <1>1, <1>4, <1>6, <1>8, <2>1 DEF KnownDead, Tracked
  <2>3. ASSUME NEW q \in DOMAIN known'
        PROVE  announced_at'[q] \in {NoPosition, known'[q]}
    <3>1. q \in Module /\ announced_at[q] \in {NoPosition, known'[q]}
      BY <1>1, <2>1, TopologyFacts DEF MInv, AnnouncedKnown, Peer
    <3>2. CASE m \in Elected
      BY <1>1, <1>2, <1>4, <1>8, <2>1, <3>1, <3>2 DEF OtherTypes
    <3>3. CASE m \notin Elected
      BY <1>4, <1>8, <3>1, <3>3
    <3> QED  BY <3>2, <3>3
  <2>4. AnnouncedKnown'
    BY <2>3 DEF AnnouncedKnown
  <2> QED  BY <1>5, <1>7, <2>2, <2>4
<1>9. CASE ~(new.health = "DEAD" /\ rows[m].health # "DEAD")
  <2>1. UNCHANGED <<topology, overlooked, announced_at>>
    BY <1>4, <1>9
  <2>2. KnownDead' /\ AnnouncedKnown'
    BY <1>1, <1>6, <1>9, <2>1 DEF KnownDead, AnnouncedKnown, Tracked, topology
  <2> QED  BY <1>5, <1>7, <2>2
<1> QED  BY <1>8, <1>9

\* The other actions.
Aside ==
  \/ Start \/ Stop \/ Propose \/ Begin \/ Received \/ ReceiveFails \/ Elect \/ Settle
  \/ UNCHANGED vars

\* NewState is a state.
LEMMA StateTypes ==
  ASSUME NEW s \in State, NEW n \in Nat
  PROVE  NewState(s, n) \in State
BY DEF NewState, State, Voting

LEMMA ElectedSize ==
  ASSUME Proved!IInv
  PROVE  Elected \subseteq Peer /\ Cardinality(Elected) \in Nat
<1>1. Elected \subseteq Peer
  BY TopologyFacts
<1>2. IsFiniteSet(Peer)
  BY ComponentAssumption, FS_RemoveElement DEF Peer
<1> QED  BY <1>1, <1>2, FS_Subset, FS_CardinalityType

\* These actions leave the tables alone.
LEMMA AsideSame ==
  ASSUME Aside
  PROVE  UNCHANGED <<known, neighbors, entry_health, heartbeat, announced_at, overlooked>>
<1>1. CASE Elect
  BY <1>1 DEF Elect, Topo!Tick, history
<1>2. CASE ~Elect
  BY <1>2 DEF Aside, Start, Stop, Propose, Begin, Received, ReceiveFails, Settle, vars,
              topology, history
<1> QED  BY <1>1, <1>2

LEMMA AsideInv ==
  ASSUME MInv, Aside
  PROVE  TableTypes' /\ OtherTypes' /\ KnownDead' /\ AnnouncedKnown'
<1>1. /\ TableTypes /\ OtherTypes /\ KnownDead /\ AnnouncedKnown
      /\ Elected \subseteq Peer /\ Cardinality(Elected) \in Nat
  BY ElectedSize DEF MInv
<1>2. UNCHANGED <<known, neighbors, entry_health, heartbeat, announced_at, overlooked>>
  BY AsideSame
<1>3. TableTypes' /\ KnownDead' /\ AnnouncedKnown'
  BY <1>1, <1>2 DEF heartbeat, TableTypes, Tracked, KnownDead, AnnouncedKnown
<1>4. /\ state' \in State /\ announced' \in State /\ told_state' \in State
      /\ phase' \in {"idle", "receive", "judge", "run"}
      /\ count' \in Nat /\ settled' \in BOOLEAN
  <2>1. NewState(state, Cardinality(Elected)) \in State
    BY <1>1, StateTypes DEF OtherTypes
  <2>2. CASE Settle
    BY <1>1, <2>1, <2>2 DEF Settle, OtherTypes
  <2>3. CASE Start \/ Stop
    BY <1>1, <2>3 DEF Start, Stop, OtherTypes, State
  <2>4. CASE Begin \/ Received \/ ReceiveFails \/ Elect
    <3>1. /\ UNCHANGED <<state, announced, told_state>> /\ count' = 0
          /\ phase' \in {"idle", "receive", "judge", "run"}
          /\ settled' = settled \/ settled' = FALSE
      BY <2>4 DEF Begin, Received, ReceiveFails, Elect
    <3> QED  BY <1>1, <3>1 DEF OtherTypes
  <2>5. CASE Propose \/ UNCHANGED vars
    BY <1>1, <2>5 DEF Propose, vars, OtherTypes
  <2> QED  BY <2>2, <2>3, <2>4, <2>5 DEF Aside
<1>5. sampled' \subseteq Peer /\ electorate' \subseteq Peer /\ sender' \in Module \union {Nobody}
  BY <1>1, ComponentAssumption
     DEF Aside, Start, Stop, Propose, Begin, Received, ReceiveFails, Elect, Settle, vars,
         OtherTypes, history
<1> QED  BY <1>1, <1>2, <1>3, <1>4, <1>5 DEF OtherTypes, Elected

LEMMA TimeInv ==
  ASSUME MInv, AdvanceTime
  PROVE  TableTypes' /\ OtherTypes' /\ KnownDead' /\ AnnouncedKnown'
<1>1. TableTypes /\ OtherTypes /\ KnownDead /\ AnnouncedKnown
  BY DEF MInv
<1>2. /\ rows' = [m \in Tracked |-> [rows[m] EXCEPT !.age = HB!Older(@, MaxAge)]]
      /\ UNCHANGED <<known, neighbors, entry_health, order, sampled, electorate, state,
                     announced, told_state, phase, count, settled, announced_at,
                     overlooked, sender>>
  BY DEF AdvanceTime, history
<1>3. /\ rows' \in [Tracked -> HB!Neighbor]
      /\ \A m \in Tracked : rows'[m].health = rows[m].health
  BY <1>1, <1>2, RowTypes DEF TableTypes
<1>4. DOMAIN rows' = Tracked
  BY <1>2
<1>5. TableTypes'
  BY <1>1, <1>2, <1>3, <1>4 DEF TableTypes, Tracked
<1>6. KnownDead' /\ AnnouncedKnown'
  BY <1>1, <1>2, <1>3, <1>4 DEF KnownDead, AnnouncedKnown, Tracked
<1> QED  BY <1>1, <1>2, <1>5, <1>6 DEF OtherTypes, Elected

-----------------------------------------------------------------------------
(***************************************************************************)
(* The state of the module.                                                *)
(***************************************************************************)
LEMMA NewStateSays ==
  ASSUME NEW n \in Nat, state \in State, state # "INIT", state' = NewState(state, n)
  PROVE  StateSays(n)' /\ state' # "REFORMING" /\ state' # "INIT"
<1>1. MinNeighbors \in Nat \ {0}
  BY ComponentAssumption, MeshAssumption
<1>2. n = 0 \/ n > 0
  OBVIOUS
<1> QED  BY <1>1, <1>2 DEF NewState, StateSays, State, Voting

\* At the end of the tick everything agrees,
LEMMA SettleState ==
  ASSUME MInv, Settle
  PROVE  StateInv' /\ TickSettles'
<1>1. /\ state \in State /\ phase = "run" /\ state # "INIT" /\ electorate = Elected
      /\ state \in Voting => told_state = state
  BY DEF MInv, OtherTypes, StateInv, Settle
<1>2. /\ state' = NewState(state, Cardinality(Elected))
      /\ told_state' = IF state' # state THEN state' ELSE told_state
      /\ announced' = state' /\ phase' = "idle" /\ settled' = TRUE
      /\ Elected' = Elected /\ electorate' = electorate
  BY DEF Settle, topology, Elected
<1>3. PICK n \in Nat : n = Cardinality(Elected)
  BY ElectedSize DEF MInv
<1>4. StateSays(n)' /\ state' # "REFORMING"
  BY <1>1, <1>2, <1>3, NewStateSays
<1>5. state' \in Voting => told_state' = state'
  BY <1>1, <1>2
<1>6. Cardinality(Elected') = n
  BY <1>2, <1>3
<1> QED  BY <1>1, <1>2, <1>4, <1>5, <1>6 DEF StateInv, TickSettles, StateSays

\* and steps in between do not undo what the next tick relies on.
LEMMA AsideState ==
  ASSUME MInv, Aside, ~Settle
  PROVE  StateInv' /\ TickSettles'
<1>1. StateInv /\ TickSettles
  BY DEF MInv
<1>2. Elected' = Elected
  BY AsideSame DEF Elected
<1>3. CASE Start
  BY <1>1, <1>2, <1>3 DEF Start, StateInv, TickSettles, StateSays, Voting
<1>4. CASE Stop
  BY <1>1, <1>2, <1>4 DEF Stop, StateInv, TickSettles, StateSays, Voting
<1>5. CASE Propose \/ UNCHANGED vars
  BY <1>1, <1>2, <1>5 DEF Propose, vars, StateInv, TickSettles, StateSays, Voting
<1>6. CASE Begin \/ Received \/ ReceiveFails \/ Elect
  BY <1>1, <1>2, <1>6
     DEF Begin, Received, ReceiveFails, Elect, StateInv, TickSettles, Voting
<1> QED  BY <1>3, <1>4, <1>5, <1>6 DEF Aside

LEMMA OtherState ==
  ASSUME MInv, Judge \/ (\E m \in Module : Receive(m)) \/ AdvanceTime
  PROVE  StateInv' /\ TickSettles'
<1>1. StateInv /\ TickSettles
  BY DEF MInv
<1>2. CASE Judge
  <2>1. /\ state' = state \/ (state' = "REFORMING" /\ state # "INIT")
        /\ phase' = "judge" /\ phase = "judge" /\ UNCHANGED <<told_state, settled>>
    BY <1>2 DEF Judge
  <2> QED  BY <1>1, <2>1 DEF StateInv, TickSettles, Voting
<1>3. CASE \E m \in Module : Receive(m)
  <2>1. phase' = "receive" /\ phase = "receive" /\ UNCHANGED <<state, told_state, settled>>
    BY <1>3 DEF Receive
  <2> QED  BY <1>1, <2>1 DEF StateInv, TickSettles, Voting
<1>4. CASE AdvanceTime
  <2>1. UNCHANGED <<neighbors, electorate, state, announced, told_state, phase, settled>>
    BY <1>4 DEF AdvanceTime
  <2> QED  BY <1>1, <2>1 DEF StateInv, TickSettles, StateSays, Elected
<1> QED  BY <1>2, <1>3, <1>4

-----------------------------------------------------------------------------
LEMMA InitMInv == Init => MInv
<1> SUFFICES ASSUME Init PROVE MInv
  OBVIOUS
<1>1. Proved!IInv /\ known = [m \in {} |-> 0] /\ neighbors = [m \in {} |-> 0]
  BY InitTopology, SameActions DEF Init, Topo!Init
<1>2. TableTypes
  <2>1. Tracked = {} /\ Cardinality(Tracked) = 0 /\ MaxKnown \in Nat
    BY FS_EmptySet, ComponentAssumption DEF Init, Tracked
  <2>2. order = << >> /\ DOMAIN order = {} /\ order \in [1 .. 0 -> {}]
    BY DEF Init
  <2> QED  BY <2>1, <2>2 DEF TableTypes, Init, Tracked
<1>3. OtherTypes
  BY <1>1, ComponentAssumption DEF Init, OtherTypes, Elected, State, Peer
<1>4. StateInv /\ TickSettles
  BY DEF Init, StateInv, TickSettles, Voting
<1>5. KnownDead /\ AnnouncedKnown
  BY <1>1 DEF KnownDead, AnnouncedKnown
<1> QED  BY <1>1, <1>2, <1>3, <1>4, <1>5 DEF MInv

\* TopologyStep, under the invariant.
LEMMA StepOfTopology ==
  ASSUME MInv, [Next]_vars
  PROVE  [Topo!Next]_(Topo!vars)
<1>1. /\ order \in [DOMAIN order -> Module] /\ DOMAIN order = 1 .. Len(order)
      /\ count \in Nat /\ since_discovery \in 0 .. DiscoveryPeriod
  BY TrackedSize, TopologyFacts DEF MInv, OtherTypes
<1> QED  BY <1>1, TopologyStep

LEMMA NextMInv == MInv /\ [Next]_vars => MInv'
<1> SUFFICES ASSUME MInv, [Next]_vars PROVE MInv'
  OBVIOUS
<1>1. Proved!IInv'
  <2>1. [Proved!Next]_(Proved!vars)
    BY StepOfTopology, SameNext DEF Topo!vars, Proved!vars
  <2> QED  BY <2>1, NextTopology DEF MInv
<1>2. Aside \/ Judge \/ (\E m \in Module : Receive(m)) \/ AdvanceTime
  BY DEF Next, Aside
<1>3. TableTypes' /\ OtherTypes' /\ KnownDead' /\ AnnouncedKnown'
  BY <1>2, AsideInv, JudgeInv, ReceiveInv, TimeInv
<1>4. StateInv' /\ TickSettles'
  BY <1>2, AsideState, SettleState, OtherState
<1> QED  BY <1>1, <1>3, <1>4 DEF MInv

LEMMA Invariance == Spec => []MInv
<1>1. Spec => Init /\ [][Next]_vars
  BY DEF Spec
<1> QED  BY <1>1, InitMInv, NextMInv, PTL

-----------------------------------------------------------------------------
(***************************************************************************)
(* Types, in whatever order the callbacks of heartbeat and topology drive  *)
(* each other.  No discovery adds a row twice: the rows of the heartbeat   *)
(* table are distinct and fit in it (ekk_module.c, ekk_heartbeat.c).       *)
(***************************************************************************)
THEOREM TypeCorrect == Spec => []TypeOK
<1>1. MInv => TypeOK
  BY TopologyFacts DEF MInv, TypeOK, TableTypes, OtherTypes
<1> QED  BY <1>1, Invariance, PTL

(***************************************************************************)
(* Each tick that comes to its end leaves state, heartbeats, electorate    *)
(* and application in agreement about the number of neighbours, whatever   *)
(* the application does between, and REFORMING is never left behind        *)
(* (ekk_module_tick, update_module_state).                                 *)
(***************************************************************************)
THEOREM TicksSettle == Spec => []TickSettles
<1>1. MInv => TickSettles
  BY DEF MInv
<1> QED  BY <1>1, Invariance, PTL

(***************************************************************************)
(* A module found dead while it was elected is not elected again before    *)
(* something is heard of it (on_neighbor_dead_cb, ekk_topology_on_         *)
(* neighbor_lost).                                                         *)
(***************************************************************************)
THEOREM DeadLeave == Spec => []DeadNotElected
<1>1. MInv => DeadNotElected
  BY TopologyFacts DEF MInv, KnownDead, DeadNotElected
<1> QED  BY <1>1, Invariance, PTL

(***************************************************************************)
(* The neighbours are the nearest by the positions announced, unless the   *)
(* alive callback moved a known module to the origin since                 *)
(* (on_neighbor_alive_cb, ekk_topology_on_discovery).                      *)
(***************************************************************************)
THEOREM NearestByAnnouncement == Spec => []NearestAnnounced
<1>1. ASSUME MInv, \A m \in DOMAIN known : announced_at[m] # NoPosition
      PROVE  neighbors = Topo!Election([m \in DOMAIN known |-> announced_at[m]])
  <2>1. /\ known \in [DOMAIN known -> Position]
        /\ neighbors = Topo!Election(known)
        /\ \A m \in DOMAIN known : announced_at[m] = known[m]
    BY <1>1, TopologyFacts DEF MInv, AnnouncedKnown
  <2>2. [m \in DOMAIN known |-> announced_at[m]] = known
    BY <2>1
  <2> QED  BY <2>1, <2>2
<1>2. MInv => NearestAnnounced
  BY <1>1 DEF NearestAnnounced
<1> QED  BY <1>2, Invariance, PTL

(***************************************************************************)
(* The mesh uses its topology only as Topology lets it be used: each step  *)
(* of the module is a step of Topology's or does not touch it.  What holds *)
(* of Topology in every behaviour, above all that the neighbours are       *)
(* always the k nearest known, therefore holds in the mesh.                *)
(***************************************************************************)
THEOREM TopologyImplemented == Spec => Topo!Init /\ [][Topo!Next]_(Topo!vars)
<1>1. Init => Topo!Init
  BY DEF Init
<1>2. MInv /\ [Next]_vars => [Topo!Next]_(Topo!vars)
  BY StepOfTopology
<1>3. Spec => Init /\ [][Next]_vars
  BY DEF Spec
<1> QED  BY <1>1, <1>2, <1>3, Invariance, PTL

\* An election never elects more than k modules.
LEMMA ElectedFew ==
  ASSUME Proved!IInv
  PROVE  Cardinality(Elected) <= K
<1>1. Proved!AsManyAsKnown
  BY TopologyAssumed, Proved!SizeFollows
<1>2. /\ Cardinality(Elected) = IF Cardinality(DOMAIN known) < K
                                THEN Cardinality(DOMAIN known) ELSE K
      /\ K \in Nat
  BY <1>1, SameSize, ComponentAssumption DEF Proved!AsManyAsKnown, Proved!Elected, Elected
<1>3. Cardinality(DOMAIN known) \in Nat
  <2>1. DOMAIN known \subseteq Peer
    BY TopologyFacts
  <2> QED  BY <2>1, ComponentAssumption, FS_RemoveElement, FS_Subset, FS_CardinalityType
           DEF Peer
<1> QED  BY <1>2, <1>3

(***************************************************************************)
(* What sync_consensus_electorate hands over fits: the electorate never    *)
(* has more than k voters, so for a k of up to EKK_K_NEIGHBORS neither it  *)
(* nor ekk_consensus_set_electorate cuts a voter off, and the module       *)
(* itself is never one, although electorates are set from callbacks in the *)
(* middle of a tick too.                                                   *)
(***************************************************************************)
ElectorateFits == Cardinality(electorate) <= K /\ Self \notin electorate

THEOREM ElectorateBound == Spec => []ElectorateFits
<1>1. Init => Cardinality(electorate) <= K
  BY FS_EmptySet, ComponentAssumption DEF Init
<1>2. MInv /\ Cardinality(electorate) <= K /\ [Next]_vars => (Cardinality(electorate) <= K)'
  <2> SUFFICES ASSUME MInv, Cardinality(electorate) <= K, [Next]_vars
               PROVE  Cardinality(electorate') <= K
    OBVIOUS
  <2>1. electorate' = electorate \/ electorate' = Elected
    BY DEF Next, vars, Start, Stop, Propose, Begin, Received, ReceiveFails, Judge, Elect,
           Settle, Receive, AdvanceTime
  <2>2. Cardinality(Elected) <= K
    BY ElectedFew DEF MInv
  <2> QED  BY <2>1, <2>2
<1>3. MInv => Self \notin electorate
  BY DEF MInv, OtherTypes, Peer
<1>4. Spec => Init /\ [][Next]_vars
  BY DEF Spec
<1> QED  BY <1>1, <1>2, <1>3, <1>4, Invariance, PTL DEF ElectorateFits
===============================================================================
