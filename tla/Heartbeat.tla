------------------------------ MODULE Heartbeat ------------------------------
(***************************************************************************)
(* The failure detector of ekk_heartbeat.c: every module broadcasts        *)
(* heartbeats and keeps a table of the modules it tracks, whose health it  *)
(* derives from how long ago their last heartbeat arrived.                 *)
(*                                                                         *)
(* Times are kept as their ages, as in HeartbeatRules: now - last_seen,    *)
(* now - last_send (up to Period); time itself is unbounded.               *)
(*                                                                         *)
(* Modules crash and restart with an empty table, and heartbeats are lost, *)
(* delayed and reordered.  In the behaviours where `timely' is TRUE they   *)
(* are not lost, take at most MaxDelay, and running modules tick at least  *)
(* every MaxGap.                                                           *)
(***************************************************************************)
EXTENDS HeartbeatRules, FiniteSets

CONSTANTS
  Module,         \* identities of modules
  Reach,          \* <<p, m>>: the broadcasts of p reach m
  MaxTracked,     \* EKK_MAX_MODULES, slots of neighbors[]
  AutoBroadcast,  \* modules configured with auto_broadcast
  MaxGap,         \* timely: the longest time between two ticks
  MaxDelay        \* timely: the longest a heartbeat is under way

ASSUME HeartbeatAssumption ==
  /\ IsFiniteSet(Module)
  /\ Reach \subseteq Module \X Module
  /\ MaxTracked \in Nat
  /\ AutoBroadcast \subseteq Module
  /\ MaxGap \in Nat \ {0}
  /\ MaxDelay \in Nat
  /\ Period + MaxGap + MaxDelay <= TimeoutCount * Period

VARIABLES
  running,        \* modules that are up
  neighbors,      \* neighbors[m]: the table of m, by module tracked
  since_send,     \* since_send[m]: now - last_send of m
  wire,           \* heartbeats under way
  told,           \* told[m][p]: the last health callback of m about p
  timely,         \* whether the timing assumption holds in this behaviour
  since_tick,     \* since_tick[m]: time since m's last tick
  trusted         \* trusted[m]: peers heard since their last restart

vars == <<running, neighbors, since_send, wire, told, timely, since_tick, trusted>>

Message == [from : Module, to : Module, age : 0 .. MaxDelay]

Tracked(m) == DOMAIN neighbors[m]
-----------------------------------------------------------------------------
(***************************************************************************)
(* set_neighbor_health: rows of m are replaced by those of `table', and    *)
(* the callback is called for each whose health has changed.               *)
(***************************************************************************)
SetQuietly(m, table) ==           \* mutant: recovery is not reported
  /\ neighbors' = [neighbors EXCEPT ![m] = table]
  /\ told' = [told EXCEPT ![m] = [p \in Module |->
       IF /\ p \in Tracked(m) /\ table[p].health # neighbors[m][p].health
          /\ neighbors[m][p].health # "SUSPECT"
       THEN table[p].health ELSE @[p]]]
SetNeighbors(m, table) ==
  /\ neighbors' = [neighbors EXCEPT ![m] = table]
  /\ told' = [told EXCEPT ![m] = [p \in Module |->
       IF p \in Tracked(m) /\ table[p].health # neighbors[m][p].health
       THEN table[p].health ELSE @[p]]]

(***************************************************************************)
(* send_heartbeat_at: when the broadcast fails, last_send keeps its value. *)
(***************************************************************************)
Heartbeats(m) == {[from |-> m, to |-> q, age |-> 0] : q \in {q \in Module : <<m, q>> \in Reach}}

SendHeartbeat(m) ==
  \/ /\ wire' = wire \union Heartbeats(m)
     /\ since_send' = [since_send EXCEPT ![m] = 0]
  \/ /\ ~timely
     /\ UNCHANGED <<wire, since_send>>

SendDueNever(m) ==                \* mutant: never due
  m \in AutoBroadcast /\ since_send[m] > Period
SendDue(m) == m \in AutoBroadcast /\ since_send[m] >= Period
-----------------------------------------------------------------------------
NoRows == [p \in {} |-> NewNeighbor]

Init ==
  /\ running = Module
  /\ neighbors = [m \in Module |-> NoRows]
  /\ since_send \in [Module -> {0, Period}]
  /\ wire = {}
  /\ told = [m \in Module |-> [p \in Module |-> "UNKNOWN"]]
  /\ timely \in BOOLEAN
  /\ since_tick = [m \in Module |-> 0]
  /\ trusted = [m \in Module |-> {}]

(***************************************************************************)
(* ekk_heartbeat_add_neighbor, called when a discovery of p arrives (a     *)
(* module is not kept from tracking itself), and                           *)
(* ekk_heartbeat_remove_neighbor.                                          *)
(***************************************************************************)
AddNeighbor(m, p) ==
  /\ m \in running
  /\ <<p, m>> \in Reach /\ p \notin Tracked(m)
  /\ Cardinality(Tracked(m)) < MaxTracked
  /\ neighbors' = [neighbors EXCEPT ![m] =
       [q \in Tracked(m) \union {p} |-> IF q = p THEN NewNeighbor ELSE @[q]]]
  /\ UNCHANGED <<running, since_send, wire, told, timely, since_tick, trusted>>

RemoveNeighbor(m, p) ==
  /\ m \in running
  /\ p \in Tracked(m)
  /\ neighbors' = [neighbors EXCEPT ![m] = [q \in Tracked(m) \ {p} |-> @[q]]]
  /\ UNCHANGED <<running, since_send, wire, told, timely, since_tick, trusted>>

(***************************************************************************)
(* ekk_heartbeat_received: heartbeats of modules not tracked are ignored.  *)
(***************************************************************************)
Receive(m, msg) ==
  /\ m \in running
  /\ msg \in wire /\ msg.to = m
  /\ wire' = wire \ {msg}
  /\ IF msg.from \in Tracked(m)
     THEN /\ SetNeighbors(m, [neighbors[m] EXCEPT ![msg.from] = Heard(@)])
          /\ trusted' = [trusted EXCEPT ![m] = @ \union ({msg.from} \intersect running)]
     ELSE UNCHANGED <<neighbors, told, trusted>>
  /\ UNCHANGED <<running, since_send, timely, since_tick>>

(***************************************************************************)
(* ekk_heartbeat_tick: every tracked module already heard of is judged;    *)
(* then a heartbeat is broadcast if the module broadcasts by itself and    *)
(* the period has passed.                                                  *)
(***************************************************************************)
Tick(m) ==
  /\ m \in running
  /\ SetNeighbors(m, [p \in Tracked(m) |-> Checked(neighbors[m][p])])
  /\ IF SendDue(m) THEN SendHeartbeat(m) ELSE UNCHANGED <<wire, since_send>>
  /\ since_tick' = [since_tick EXCEPT ![m] = 0]
  /\ UNCHANGED <<running, timely, trusted>>

(***************************************************************************)
(* ekk_heartbeat_send: the application sends a heartbeat of its own.       *)
(***************************************************************************)
SendNow(m) ==
  /\ m \in running
  /\ SendHeartbeat(m)
  /\ UNCHANGED <<running, neighbors, told, timely, since_tick, trusted>>
-----------------------------------------------------------------------------
(***************************************************************************)
(* The environment.  A restarted module begins again with                  *)
(* ekk_heartbeat_init; its last_send is 0, so its first heartbeat may be   *)
(* due at once or a period later.                                          *)
(***************************************************************************)
Crash(m) ==
  /\ m \in running
  /\ running' = running \ {m}
  /\ neighbors' = [neighbors EXCEPT ![m] = NoRows]
  /\ told' = [told EXCEPT ![m] = [p \in Module |-> "UNKNOWN"]]
  /\ trusted' = [q \in Module |-> IF q = m THEN {} ELSE trusted[q] \ {m}]
  /\ UNCHANGED <<since_send, wire, timely, since_tick>>

Restart(m) ==
  /\ m \notin running
  /\ running' = running \union {m}
  /\ since_send' \in {[since_send EXCEPT ![m] = a] : a \in {0, Period}}
  /\ since_tick' = [since_tick EXCEPT ![m] = 0]
  /\ UNCHANGED <<neighbors, wire, told, timely, trusted>>

Lose(msg) ==
  /\ msg \in wire
  /\ timely => msg.to \notin running
  /\ wire' = wire \ {msg}
  /\ UNCHANGED <<running, neighbors, since_send, told, timely, since_tick, trusted>>

OnTime ==
  /\ \A m \in running : since_tick[m] < MaxGap
  /\ \A msg \in wire : msg.to \in running => msg.age < MaxDelay

AdvanceTime ==
  /\ timely => OnTime
  /\ neighbors' = [m \in Module |-> [p \in Tracked(m) |->
       [neighbors[m][p] EXCEPT !.age = Older(@, MaxAge)]]]
  /\ since_send' = [m \in Module |-> Older(since_send[m], Period)]
  /\ since_tick' = [m \in Module |-> Older(since_tick[m], MaxGap)]
  /\ wire' = {[msg EXCEPT !.age = Older(@, MaxDelay)] : msg \in wire}
  /\ UNCHANGED <<running, told, timely, trusted>>
-----------------------------------------------------------------------------
Next ==
  \/ \E m, p \in Module : AddNeighbor(m, p) \/ RemoveNeighbor(m, p)
  \/ \E m \in Module, msg \in wire : Receive(m, msg)
  \/ \E m \in Module : Tick(m) \/ SendNow(m) \/ Crash(m) \/ Restart(m)
  \/ \E msg \in wire : Lose(msg)
  \/ AdvanceTime

(***************************************************************************)
(* A running module keeps ticking (its main loop) and reads every message  *)
(* that has arrived, and time never stops: however often messages are      *)
(* exchanged, they are not exchanged for ever in one instant.              *)
(***************************************************************************)
Fairness ==
  /\ \A m \in Module : WF_vars(Tick(m))
  /\ \A msg \in Message : WF_vars(Receive(msg.to, msg))
  /\ SF_vars(AdvanceTime)

Spec == Init /\ [][Next]_vars /\ Fairness
-----------------------------------------------------------------------------
(***************************************************************************)
(* Every variable holds values of its type; the missed count fits uint8_t. *)
(***************************************************************************)
TypeOK ==
  /\ running \subseteq Module
  /\ DOMAIN neighbors = Module
  /\ \A m \in Module :
       /\ Tracked(m) \subseteq Module
       /\ neighbors[m] \in [Tracked(m) -> Neighbor]
       /\ Cardinality(Tracked(m)) <= MaxTracked
  /\ since_send \in [Module -> 0 .. Period]
  /\ wire \subseteq Message
  /\ told \in [Module -> [Module -> Health]]
  /\ timely \in BOOLEAN
  /\ since_tick \in [Module -> 0 .. MaxGap]
  /\ trusted \in [Module -> SUBSET Module]

(***************************************************************************)
(* No verdict is passed too early: a neighbour is suspected only after a   *)
(* period of silence and dead only after timeout_count of them, counted    *)
(* from its last heartbeat, however ticks and heartbeats interleave.       *)
(***************************************************************************)
NoHastyVerdict ==
  \A m \in Module : \A p \in Tracked(m) :
    LET n == neighbors[m][p]
    IN  /\ n.health = "SUSPECT" => n.age >= Period
        /\ n.health = "DEAD" => n.age >= TimeoutCount * Period
        /\ n.missed_count * Period <= n.age

(***************************************************************************)
(* What the application was last told of a neighbour is its health in the  *)
(* table, from the first heartbeat on, also when the neighbour was removed *)
(* and added again.                                                        *)
(***************************************************************************)
CallbacksMatch ==
  \A m \in Module : \A p \in Tracked(m) :
    neighbors[m][p].health # "UNKNOWN" => told[m][p] = neighbors[m][p].health

(***************************************************************************)
(* When ticks and heartbeats are timely, a module that is up, broadcasts   *)
(* by itself and was heard since it last started is never held dead:       *)
(* timeout_count and period are large enough for a sender that broadcasts  *)
(* once a period.                                                          *)
(***************************************************************************)
LiveNeverDead ==
  timely => \A m \in Module : \A p \in Tracked(m) \intersect trusted[m] \intersect AutoBroadcast :
              neighbors[m][p].health # "DEAD"

(***************************************************************************)
(* Health follows defined edges only (docs/VERIFICATION_PLAN.md, Phase     *)
(* A1).  The first health of a neighbour is ALIVE; a heartbeat of its own  *)
(* and nothing else makes it ALIVE, first or after a suspicion; suspicion  *)
(* comes only over who was alive; and no passing of time takes a death or  *)
(* a suspicion back or forgets a neighbour.  What a heartbeat does for the *)
(* dead is not approved here: the plan wants them discovered again first,  *)
(* which the code does not ask for.                                        *)
(***************************************************************************)
HeardOf(m, p) == \E msg \in wire \ wire' : msg.from = p /\ msg.to = m

Edge(old, new) ==
  \/ old \in {"UNKNOWN", "ALIVE", "SUSPECT"} /\ new = "ALIVE"
  \/ old = "ALIVE" /\ new = "SUSPECT"
  \/ old \in {"ALIVE", "SUSPECT"} /\ new = "DEAD"

Earned(m, p) ==
  LET old == neighbors[m][p].health
      new == neighbors'[m][p].health
  IN  old # new =>
        /\ old # "DEAD" => Edge(old, new)
        /\ old = "DEAD" \/ new = "ALIVE" => HeardOf(m, p)

HealthEarned ==
  [][\A m \in Module : \A p \in Tracked(m) \intersect DOMAIN neighbors'[m] :
       Earned(m, p)]_vars

(***************************************************************************)
(* A module that has crashed, and of which no heartbeat is under way any   *)
(* more, is found dead by every module that has heard of it and tracks it, *)
(* if timeout_count is a count missed_count can reach.                     *)
(***************************************************************************)
Gone(m, p) ==
  /\ m \in running /\ p \in Tracked(m)
  /\ p \notin running /\ \A msg \in wire : msg.from = p => msg.to # m
  /\ neighbors[m][p].health # "UNKNOWN"

FoundDead(m, p) == p \in Tracked(m) /\ neighbors[m][p].health = "DEAD"
StillWatched(m, p) == m \in running /\ p \in Tracked(m)

SilentDies ==
  TimeoutCount <= MaxMissed => \A m, p \in Module :
    Gone(m, p) ~> FoundDead(m, p) \/ ~StillWatched(m, p) \/ p \in running

(***************************************************************************)
(* With timely heartbeats, a module that is up and broadcasts by itself is *)
(* found alive by every module that tracks it.                             *)
(***************************************************************************)
FoundAlive(m, p) == p \in Tracked(m) /\ neighbors[m][p].health = "ALIVE"

LiveIsFound ==
  \A m \in Module, p \in AutoBroadcast :
    timely /\ StillWatched(m, p) /\ p \in running
      ~> FoundAlive(m, p) \/ ~StillWatched(m, p) \/ p \notin running
=============================================================================
