------------------------------ MODULE Topology ------------------------------
(***************************************************************************)
(* The neighbour election of ekk_topology.c.  A module collects the        *)
(* modules it has discovered and elects the k nearest as its neighbours.   *)
(*                                                                         *)
(* The arrays of the code are functions: known maps a module of            *)
(* all_known[] to its position, neighbors maps a module of neighbors[] to  *)
(* the logical_distance stored with it.  neighbors[] is always in the      *)
(* order of Before, so the set determines the array.  The health, field    *)
(* and times of a neighbour are kept or initialized by the election and    *)
(* read by nothing here; they are left out.                                *)
(***************************************************************************)
EXTENDS Integers, FiniteSets

CONSTANTS
  Module,          \* identities of modules
  Self,            \* my_id
  Position,        \* positions a discovery may carry
  Metric,          \* Metric[m][p]: ekk_topology_distance from Self to m at p
  K,               \* target neighbours: min(k_neighbors, EKK_K_NEIGHBORS)
  MaxKnown,        \* EKK_MAX_MODULES, slots of all_known[]
  MinNeighbors,    \* config.min_neighbors
  Period           \* config.discovery_period, in clock units

ASSUME TopologyAssumption ==
  /\ IsFiniteSet(Module) /\ Module \subseteq Nat
  /\ Self \in Module
  /\ Metric \in [Module -> [Position -> Nat]]
  /\ K \in Nat \ {0}
  /\ MaxKnown \in Nat
  /\ MinNeighbors \in 0 .. K
  /\ Period \in Nat \ {0}

VARIABLES
  known,           \* positions of the modules discovered
  neighbors,       \* distances of the neighbours elected
  since_discovery, \* now - last_discovery, up to Period
  told             \* neighbours named by the last changed_callback

vars == <<known, neighbors, since_discovery, told>>

Elected == DOMAIN neighbors
-----------------------------------------------------------------------------
(***************************************************************************)
(* entry_less_than: by distance, then by id.  A table is any function from *)
(* modules to distances.                                                   *)
(***************************************************************************)
Before(m, d, q, e) == d < e \/ (d = e /\ m < q)

Ahead(table, m) == {q \in DOMAIN table : Before(q, table[q], m, table[m])}

Distances(positions) == [m \in DOMAIN positions |-> Metric[m][positions[m]]]

Nearest(table) == {m \in DOMAIN table : Cardinality(Ahead(table, m)) < K}

Election(positions) ==
  [m \in Nearest(Distances(positions)) |-> Distances(positions)[m]]

(***************************************************************************)
(* ekk_topology_reelect, given the neighbours of before: the callback is   *)
(* called when the number of neighbours or the module in some place of the *)
(* array has changed.  With nothing known the neighbours are dropped       *)
(* without a word.                                                         *)
(***************************************************************************)
ChangedCount(old, new) == Cardinality(DOMAIN old) # Cardinality(DOMAIN new)  \* mutant
Changed(old, new) ==
  \/ DOMAIN old # DOMAIN new
  \/ \E m \in DOMAIN new : Cardinality(Ahead(old, m)) # Cardinality(Ahead(new, m))

Reelect(old, positions) ==
  LET new == Election(positions)
  IN  /\ neighbors' = new
      /\ told' = IF DOMAIN positions # {} /\ Changed(old, new) THEN DOMAIN new ELSE told
-----------------------------------------------------------------------------
(***************************************************************************)
(* add_to_known and remove_from_known.                                     *)
(***************************************************************************)
HasRoomLate(m) ==                 \* mutant: one module too many
  m \in DOMAIN known \/ Cardinality(DOMAIN known) <= MaxKnown
HasRoom(m) == m \in DOMAIN known \/ Cardinality(DOMAIN known) < MaxKnown

With(table, m, x) == [q \in DOMAIN table \union {m} |-> IF q = m THEN x ELSE table[q]]

Without(table, m) == [q \in DOMAIN table \ {m} |-> table[q]]

(***************************************************************************)
(* When a discovery of m at distance d calls for an election: while there  *)
(* are neighbours to be found, when a neighbour has moved, and when m      *)
(* comes before the farthest neighbour, that is before some neighbour.     *)
(***************************************************************************)
Filling == Cardinality(Elected) < K
HasMoved(m, d) == m \in Elected /\ neighbors[m] # d
BeatsWorst(m, d) ==
  m \notin Elected /\ \E n \in Elected : Before(m, d, n, neighbors[n])

CallsForElectionUnmoved(m, d) == Filling \/ BeatsWorst(m, d)     \* mutant: moves missed
CallsForElection(m, d) == Filling \/ HasMoved(m, d) \/ BeatsWorst(m, d)
-----------------------------------------------------------------------------
Init ==
  /\ known = [m \in {} |-> 0]
  /\ neighbors = [m \in {} |-> 0]
  /\ since_discovery \in {0, Period}
  /\ told = {}

(***************************************************************************)
(* ekk_topology_on_discovery: discoveries of one's own are ignored, those  *)
(* of new modules refused when the table is full.                          *)
(***************************************************************************)
OnDiscovery(m, p) ==
  /\ m # Self /\ HasRoom(m)
  /\ known' = With(known, m, p)
  /\ IF CallsForElection(m, Metric[m][p])
     THEN Reelect(neighbors, With(known, m, p))
     ELSE UNCHANGED <<neighbors, told>>
  /\ UNCHANGED since_discovery

(***************************************************************************)
(* ekk_topology_on_neighbor_lost: the neighbour leaves both tables, and    *)
(* the election compares with what is left.  A module that is known but    *)
(* not elected is not found, and stays known.                              *)
(***************************************************************************)
OnNeighborLost(m) ==
  /\ m \in Elected
  /\ known' = Without(known, m)
  /\ Reelect(Without(neighbors, m), Without(known, m))
  /\ UNCHANGED since_discovery

(***************************************************************************)
(* ekk_topology_reelect, called by the application.                        *)
(***************************************************************************)
ForceReelect ==
  /\ Reelect(neighbors, known)
  /\ UNCHANGED <<known, since_discovery>>

(***************************************************************************)
(* ekk_topology_tick: a discovery is broadcast every period, four times as *)
(* often while there are fewer than MinNeighbors.                          *)
(***************************************************************************)
DiscoveryDueNever == since_discovery > Period           \* mutant: never due
DiscoveryDue ==
  \/ since_discovery >= Period
  \/ Cardinality(Elected) < MinNeighbors /\ since_discovery >= Period \div 4

Tick ==
  /\ since_discovery' = IF DiscoveryDue THEN 0 ELSE since_discovery
  /\ UNCHANGED <<known, neighbors, told>>

AdvanceTime ==
  /\ since_discovery < Period
  /\ since_discovery' = since_discovery + 1
  /\ UNCHANGED <<known, neighbors, told>>

Next ==
  \/ \E m \in Module, p \in Position : OnDiscovery(m, p)
  \/ \E m \in Module : OnNeighborLost(m)
  \/ ForceReelect
  \/ Tick
  \/ AdvanceTime

(***************************************************************************)
(* The main loop keeps ticking, and time passes.                           *)
(***************************************************************************)
Spec == Init /\ [][Next]_vars /\ WF_vars(Tick) /\ WF_vars(AdvanceTime)
-----------------------------------------------------------------------------
(***************************************************************************)
(* Every variable holds values of its type, the table of known modules     *)
(* does not overflow, and a module never knows itself.                     *)
(***************************************************************************)
TypeOK ==
  /\ DOMAIN known \subseteq Module \ {Self}
  /\ known \in [DOMAIN known -> Position]
  /\ Cardinality(DOMAIN known) <= MaxKnown
  /\ Elected \subseteq DOMAIN known
  /\ neighbors \in [Elected -> Nat]
  /\ since_discovery \in 0 .. Period
  /\ told \subseteq Module

(***************************************************************************)
(* The neighbours are the k nearest of all modules known, at the distances *)
(* of their last discoveries, in whatever order modules were discovered,   *)
(* moved and lost, although most discoveries do not lead to an election    *)
(* (docs/KEY_COMPONENTS.md, 4.).                                           *)
(***************************************************************************)
NearestElected == neighbors = Election(known)

(***************************************************************************)
(* There are never more than k neighbours, and fewer only when fewer       *)
(* modules are known.                                                      *)
(***************************************************************************)
AsManyAsKnown ==
  Cardinality(Elected) =
    IF Cardinality(DOMAIN known) < K THEN Cardinality(DOMAIN known) ELSE K

(***************************************************************************)
(* Whoever is a neighbour was named by the last callback: no neighbour     *)
(* slips in without one.  (It may name neighbours that are lost by now.)   *)
(***************************************************************************)
NeighborsTold == Elected \subseteq told

(***************************************************************************)
(* A module goes on announcing itself, however often others are found and  *)
(* lost.                                                                   *)
(***************************************************************************)
AnnouncesForEver == []<>(since_discovery = 0)
=============================================================================
