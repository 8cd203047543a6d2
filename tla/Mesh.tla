-------------------------------- MODULE Mesh --------------------------------
(***************************************************************************)
(* How one module keeps its place in the mesh: the part of ekk_module_tick *)
(* that receives, judges its neighbours, elects, passes the result on to   *)
(* the consensus engine and settles the state of the module, with the      *)
(* callbacks by which heartbeat and topology drive each other              *)
(* (ekk_module.c).  Topology and HeartbeatRules are the components         *)
(* themselves; tasks are in Tasks, ballots in Consensus.                   *)
(*                                                                         *)
(* A tick is a sequence of steps, `phase' its program counter.  Its time   *)
(* `now' is fixed, so time passes, and messages arrive, between ticks.     *)
(* What the application does from its callbacks may come at any point.     *)
(*                                                                         *)
(* The HAL delivers a broadcast to its sender as well.  The topology does  *)
(* not take it for a discovery, but the heartbeat table does: a module may *)
(* track itself, in a row that a peer then does not have.                  *)
(***************************************************************************)
EXTENDS Integers, Sequences, FiniteSets

CONSTANTS
  Module, Self, Position, Metric, K, MaxKnown, MinNeighbors,  \* as in Topology
  DiscoveryPeriod,                                  \* Period of Topology
  HeartbeatPeriod,                                  \* Period of HeartbeatRules
  TimeoutCount, MaxMissed, MaxAge,                  \* as in HeartbeatRules
  Origin,         \* the position the alive callback discovers a module at
  NoPosition,     \* in heartbeats, which carry none
  Nobody,         \* no module: the sender when no message was received
  Places,         \* Places[m]: where m may announce itself to be
  MaxRx           \* messages received in one tick, 16 in the code

Peer == Module \ {Self}

ASSUME MeshAssumption ==
  /\ Origin \in Position /\ NoPosition \notin Position
  /\ Nobody \notin Module
  /\ Places \in [Module -> SUBSET Position]
  /\ MaxRx \in Nat \ {0}
  /\ MinNeighbors > 0

\* The assumptions of the components.
ASSUME ComponentAssumption ==
  /\ IsFiniteSet(Module) /\ Module \subseteq Nat
  /\ Self \in Module
  /\ Metric \in [Module -> [Position -> Nat]]
  /\ K \in Nat \ {0}
  /\ MaxKnown \in Nat
  /\ MinNeighbors \in 0 .. K
  /\ DiscoveryPeriod \in Nat \ {0}
  /\ HeartbeatPeriod \in Nat \ {0}
  /\ TimeoutCount \in Nat \ {0}
  /\ MaxMissed \in Nat
  /\ MaxAge \in Nat /\ MaxAge >= TimeoutCount * HeartbeatPeriod

VARIABLES
  known, neighbors, since_discovery, told,          \* the topology
  rows,           \* the heartbeat table, by module tracked
  order,          \* its rows in the order of the array
  entry_health,   \* health in the entries of topology.neighbors[]
  sampled,        \* neighbours whose fields were read for the last gradients
  electorate,     \* voters given to the consensus engine
  state,          \* mod->state
  announced,      \* the state carried by heartbeats
  told_state,     \* the state the last on_state_change came with
  phase,          \* where in the tick
  count,          \* messages received, or rows judged, in this phase
  settled,        \* whether the last tick came to its end
  announced_at,   \* history: where modules said they are, unless moved since
  overlooked,     \* history: found dead while not elected, or found again
  sender          \* history: of the message just received, else Nobody

topology == <<known, neighbors, since_discovery, told, entry_health>>
heartbeat == <<rows, order>>
history == <<announced_at, overlooked, sender>>
vars == <<topology, heartbeat, sampled, electorate, state, announced, told_state,
          phase, count, settled, history>>

Topo == INSTANCE Topology WITH Period <- DiscoveryPeriod
HB == INSTANCE HeartbeatRules WITH Period <- HeartbeatPeriod

Elected == DOMAIN neighbors
Tracked == DOMAIN rows
Voting == {"ACTIVE", "DEGRADED", "ISOLATED"}
State == Voting \union {"INIT", "DISCOVERING", "REFORMING", "SHUTDOWN"}
-----------------------------------------------------------------------------
(***************************************************************************)
(* update_module_state: the state that follows from n neighbours.          *)
(***************************************************************************)
NewStateReforming(old, n) ==      \* mutant: a module that reforms is degraded
  CASE old \in {"INIT", "SHUTDOWN"} -> old
    [] old = "DISCOVERING" -> IF n >= MinNeighbors THEN "ACTIVE" ELSE old
    [] old \in {"ACTIVE", "DEGRADED"} /\ n = 0 -> "ISOLATED"
    [] old = "REFORMING" /\ n > 0 -> "DEGRADED"
    [] OTHER -> IF n >= MinNeighbors THEN "ACTIVE"
                ELSE IF n > 0 THEN "DEGRADED" ELSE "ISOLATED"
NewState(old, n) ==
  CASE old \in {"INIT", "SHUTDOWN"} -> old
    [] old = "DISCOVERING" -> IF n >= MinNeighbors THEN "ACTIVE" ELSE old
    [] old \in {"ACTIVE", "DEGRADED"} /\ n = 0 -> "ISOLATED"
    [] OTHER -> IF n >= MinNeighbors THEN "ACTIVE"
                ELSE IF n > 0 THEN "DEGRADED" ELSE "ISOLATED"

(***************************************************************************)
(* An election keeps the entries of modules that were elected before; new  *)
(* entries start without a health.                                         *)
(***************************************************************************)
KeepEntries ==
  entry_health' = [m \in DOMAIN neighbors' |->
                     IF m \in Elected THEN entry_health[m] ELSE "UNKNOWN"]

Admitted(m) == m # Self /\ Topo!HasRoom(m)

Discover(m, p) ==
  /\ IF Admitted(m) THEN Topo!OnDiscovery(m, p)
     ELSE UNCHANGED <<known, neighbors, since_discovery, told>>
  /\ KeepEntries

(***************************************************************************)
(* on_neighbor_dead_cb: a module that is not elected is not found by the   *)
(* topology, and stays known.                                              *)
(***************************************************************************)
LoseAlways(m) == UNCHANGED topology             \* mutant: the topology is not told
Lose(m) ==
  IF m \in Elected THEN Topo!OnNeighborLost(m) /\ KeepEntries ELSE UNCHANGED topology

(***************************************************************************)
(* ekk_heartbeat_add_neighbor: a new row comes last.  Nothing keeps the    *)
(* module itself out.                                                      *)
(***************************************************************************)
TrackAgain(m) ==                  \* mutant: a row for every discovery
  /\ rows' = [q \in Tracked \union {m} |-> IF q = m THEN HB!NewNeighbor ELSE rows[q]]
  /\ order' = Append(order, m)
Track(m) ==
  IF m \in Tracked \/ Cardinality(Tracked) = MaxKnown THEN UNCHANGED heartbeat
  ELSE /\ rows' = [q \in Tracked \union {m} |-> IF q = m THEN HB!NewNeighbor ELSE rows[q]]
       /\ order' = Append(order, m)
-----------------------------------------------------------------------------
Init ==
  /\ Topo!Init
  /\ rows = [m \in {} |-> 0] /\ order = << >>
  /\ entry_health = [m \in {} |-> "UNKNOWN"]
  /\ sampled = {} /\ electorate = {}
  /\ state = "INIT" /\ announced = "INIT" /\ told_state = "INIT"
  /\ phase = "idle" /\ count = 0 /\ settled = FALSE
  /\ announced_at = [m \in Module |-> NoPosition]
  /\ overlooked = {} /\ sender = Nobody

(***************************************************************************)
(* ekk_module_start, ekk_module_stop, and the shortcuts that propose: they *)
(* refresh the electorate first.                                           *)
(***************************************************************************)
Start ==
  /\ state = "INIT"
  /\ state' = "DISCOVERING"
  /\ UNCHANGED <<topology, heartbeat, sampled, electorate, announced, told_state,
                 phase, count, settled, history>>

Stop ==
  /\ state' = "SHUTDOWN"
  /\ UNCHANGED <<topology, heartbeat, sampled, electorate, announced, told_state,
                 phase, count, settled, history>>

Propose ==
  /\ electorate' = Elected
  /\ UNCHANGED <<topology, heartbeat, sampled, state, announced, told_state,
                 phase, count, settled, history>>

(***************************************************************************)
(* ekk_module_tick, phase 1: process_rx_messages.                          *)
(***************************************************************************)
Begin ==
  /\ phase = "idle" /\ state \notin {"INIT", "SHUTDOWN"}
  /\ phase' = "receive" /\ count' = 0 /\ settled' = FALSE
  /\ UNCHANGED <<topology, heartbeat, sampled, electorate, state, announced, told_state,
                 history>>

ReceiveDiscovery(m, p) ==
  /\ Discover(m, p)
  /\ Track(m)
  /\ announced_at' = IF Admitted(m) THEN [announced_at EXCEPT ![m] = p] ELSE announced_at
  /\ overlooked' = IF m \in Tracked /\ rows[m].health = "DEAD"
                   THEN overlooked \union {m} ELSE overlooked

ReceiveHeartbeat(m) ==
  IF m \notin Tracked THEN UNCHANGED <<topology, heartbeat, announced_at, overlooked>>
  ELSE /\ rows' = [rows EXCEPT ![m] = HB!Heard(@)]
       /\ UNCHANGED order
       /\ IF rows[m].health = "ALIVE" THEN UNCHANGED <<topology, announced_at, overlooked>>
          ELSE /\ Discover(m, Origin)           \* on_neighbor_alive_cb
               /\ announced_at' = [announced_at EXCEPT ![m] = NoPosition]
               /\ overlooked' = overlooked \ {m}

Receive(m) ==
  /\ phase = "receive" /\ count < MaxRx
  /\ ReceiveHeartbeat(m) \/ \E p \in Places[m] : ReceiveDiscovery(m, p)
  /\ count' = count + 1
  /\ sender' = m
  /\ UNCHANGED <<sampled, electorate, state, announced, told_state, phase, settled>>

Received ==
  /\ phase = "receive"
  /\ phase' = "judge" /\ count' = 0
  /\ sender' = Nobody
  /\ UNCHANGED <<topology, heartbeat, sampled, electorate, state, announced, told_state,
                 settled, announced_at, overlooked>>

(***************************************************************************)
(* An error of the HAL ends the tick at once.                              *)
(***************************************************************************)
ReceiveFails ==
  /\ phase = "receive" /\ count < MaxRx
  /\ phase' = "idle" /\ count' = 0
  /\ sender' = Nobody
  /\ UNCHANGED <<topology, heartbeat, sampled, electorate, state, announced, told_state,
                 settled, announced_at, overlooked>>

(***************************************************************************)
(* Phase 2: ekk_heartbeat_tick judges the rows in the order of the table   *)
(* and calls back for each whose health changes.  A loss that comes to the *)
(* topology leads to an election at once.                                  *)
(***************************************************************************)
Judge ==
  /\ phase = "judge" /\ count < Len(order)
  /\ LET m == order[count + 1]
         new == HB!Checked(rows[m])
     IN  /\ rows' = [rows EXCEPT ![m] = new]
         /\ IF new.health = "DEAD" /\ rows[m].health # "DEAD"
            THEN /\ Lose(m)
                 /\ state' = IF state \in {"ACTIVE", "DEGRADED"} THEN "REFORMING" ELSE state
                 /\ overlooked' = IF m \in Elected THEN overlooked \ {m}
                                  ELSE overlooked \union {m}
                 /\ announced_at' = IF m \in Elected
                                    THEN [announced_at EXCEPT ![m] = NoPosition]
                                    ELSE announced_at
            ELSE UNCHANGED <<topology, state, overlooked, announced_at>>
  /\ count' = count + 1
  /\ UNCHANGED <<order, sampled, electorate, announced, told_state, phase, settled,
                 sender>>

(***************************************************************************)
(* Phases 3 and 4: ekk_topology_tick, sync_consensus_electorate, and the   *)
(* gradients, for which the field of a neighbour is read unless its entry  *)
(* says that it is dead or unknown.  (Whether the read succeeds is up to   *)
(* FieldSlot.)                                                             *)
(***************************************************************************)
Elect ==
  /\ phase = "judge" /\ count = Len(order)
  /\ Topo!Tick
  /\ electorate' = Elected
  /\ sampled' = {m \in Elected : entry_health[m] \notin {"DEAD", "UNKNOWN"}}
  /\ phase' = "run" /\ count' = 0
  /\ UNCHANGED <<entry_health, heartbeat, state, announced, told_state, settled,
                 history>>

(***************************************************************************)
(* Phase 8, when ballots and tasks are done: update_module_state, and the  *)
(* state goes into the heartbeats.                                         *)
(***************************************************************************)
Settle ==
  /\ phase = "run"
  /\ state' = NewState(state, Cardinality(Elected))
  /\ told_state' = IF state' # state THEN state' ELSE told_state
  /\ announced' = state'
  /\ phase' = "idle" /\ settled' = TRUE
  /\ UNCHANGED <<topology, heartbeat, sampled, electorate, count, history>>
-----------------------------------------------------------------------------
(***************************************************************************)
(* Time passes between ticks, which does not matter to a stopped module.   *)
(***************************************************************************)
AdvanceTime ==
  /\ phase = "idle" /\ state # "SHUTDOWN"
  /\ since_discovery' = HB!Older(since_discovery, DiscoveryPeriod)
  /\ rows' = [m \in Tracked |-> [rows[m] EXCEPT !.age = HB!Older(@, MaxAge)]]
  /\ UNCHANGED <<known, neighbors, told, entry_health, order, sampled, electorate, state,
                 announced, told_state, phase, count, settled, history>>

Next ==
  \/ Start \/ Stop \/ Propose
  \/ Begin \/ Received \/ ReceiveFails \/ Judge \/ Elect \/ Settle
  \/ \E m \in Module : Receive(m)
  \/ AdvanceTime

(***************************************************************************)
(* The main loop keeps ticking and time passes between ticks; errors of    *)
(* the HAL do not end every tick from some time on.                        *)
(***************************************************************************)
Fairness ==
  /\ WF_vars(Begin) /\ SF_vars(Received)
  /\ WF_vars(Judge) /\ WF_vars(Elect) /\ WF_vars(Settle)
  /\ SF_vars(AdvanceTime)

Spec == Init /\ [][Next]_vars /\ Fairness
-----------------------------------------------------------------------------
(***************************************************************************)
(* Every variable holds values of its type; the rows of the table are      *)
(* distinct and exactly those in order.                                    *)
(***************************************************************************)
TypeOK ==
  /\ Topo!TypeOK
  /\ Tracked \subseteq Module /\ Cardinality(Tracked) <= MaxKnown
  /\ rows \in [Tracked -> HB!Neighbor]
  /\ order \in [1 .. Cardinality(Tracked) -> Tracked]
  /\ \A i, j \in DOMAIN order : order[i] = order[j] => i = j
  /\ entry_health \in [Elected -> HB!Health]
  /\ sampled \subseteq Peer /\ electorate \subseteq Peer
  /\ {state, announced, told_state} \subseteq State
  /\ phase \in {"idle", "receive", "judge", "run"}
  /\ count \in Nat /\ settled \in BOOLEAN
  /\ announced_at \in [Module -> Position \union {NoPosition}]
  /\ overlooked \subseteq Module /\ sender \in Module \union {Nobody}

(***************************************************************************)
(* What a tick leaves behind agrees: between ticks the electorate is the   *)
(* neighbours, the state says how many there are, heartbeats carry it and  *)
(* the application was told.  REFORMING, which a dead neighbour sets in    *)
(* the middle of a tick, is never left behind, not even by an error.       *)
(***************************************************************************)
StateSays(n) ==
  CASE state = "ACTIVE" -> n >= MinNeighbors
    [] state = "DEGRADED" -> n \in 1 .. MinNeighbors - 1
    [] state = "ISOLATED" -> n = 0
    [] state = "DISCOVERING" -> n < MinNeighbors
    [] OTHER -> state = "SHUTDOWN"

TickSettles ==
  /\ phase \in {"idle", "receive"} => state # "REFORMING"
  /\ phase = "idle" /\ settled =>
       /\ StateSays(Cardinality(Elected))
       /\ state # "SHUTDOWN" => announced = state /\ electorate = Elected
       /\ state \in Voting => told_state = state

(***************************************************************************)
(* A neighbour found dead leaves the election, and comes back only after   *)
(* news of it: nobody the heartbeat holds dead is elected, except modules  *)
(* that were not elected when they were found dead, which the topology     *)
(* keeps as candidates, and modules that were discovered again.            *)
(***************************************************************************)
DeadNotElected ==
  \A m \in Elected \intersect Tracked : rows[m].health = "DEAD" => m \in overlooked

(***************************************************************************)
(* The neighbours are the nearest by the positions modules announced, as   *)
(* long as no known module was called alive since: the alive callback      *)
(* moves a module to the origin until it announces itself again.           *)
(***************************************************************************)
NearestAnnounced ==
  (\A m \in DOMAIN known : announced_at[m] # NoPosition) =>
    neighbors = Topo!Election([m \in DOMAIN known |-> announced_at[m]])

(***************************************************************************)
(* A neighbour that was heard of and from which nothing comes any more is  *)
(* elected no longer at some time, whatever else arrives, unless the       *)
(* module is stopped.                                                      *)
(***************************************************************************)
Watched(m) ==
  m \in Elected \intersect Tracked /\ rows[m].health \in {"ALIVE", "SUSPECT"}
Quiet(m) == sender # m

SilentLeaves ==
  \A m \in Peer : Watched(m) /\ []Quiet(m) ~> m \notin Elected \/ state = "SHUTDOWN"

(***************************************************************************)
(* docs/KEY_COMPONENTS.md: the tick will "sample neighbor fields" and      *)
(* "compute gradients".  The field of a neighbour that is found alive tick *)
(* after tick is read for the gradients at some time.                      *)
(***************************************************************************)
HeardNeighbor(m) ==
  m \in Elected \intersect Tracked /\ rows[m].health = "ALIVE" /\ state \in Voting

NeighborsSampled == \A m \in Peer : []<>HeardNeighbor(m) => <>(m \in sampled)
=============================================================================
