--------------------------- MODULE HeartbeatProofs ---------------------------
(***************************************************************************)
(* Theorems about Heartbeat for every set of modules, every topology of    *)
(* broadcasts, every period, timeout count and table size.                 *)
(***************************************************************************)
EXTENDS Heartbeat, FiniteSetTheorems, TLAPS

(***************************************************************************)
(* One row of a table.  The count of missed heartbeats never runs ahead of *)
(* the silence it stands for, and the verdict follows the count.           *)
(***************************************************************************)
Aged(n) == [n EXCEPT !.age = Older(@, MaxAge)]

RowInv(n) ==
  /\ n \in Neighbor
  /\ n.missed_count * Period <= n.age
  /\ n.health = "SUSPECT" => n.missed_count >= 1
  /\ n.health = "DEAD" => n.missed_count >= TimeoutCount

LEMMA Product ==
  ASSUME NEW a \in Nat, NEW b \in Nat, a <= b, NEW p \in Nat
  PROVE  a * p <= b * p /\ a * p \in Nat /\ b * p \in Nat
<1>1. PICK c \in Nat : b = a + c
  <2>1. b - a \in Nat /\ b = a + (b - a)
    OBVIOUS
  <2> QED  BY <2>1
<1>2. b * p = a * p + c * p
  BY <1>1
<1> QED  BY <1>1, <1>2

LEMMA Periods ==
  ASSUME NEW a \in Nat
  PROVE  (a \div Period) \in Nat /\ (a \div Period) * Period <= a
BY RowAssumption

\* The operators of a row keep its invariant.
LEMMA NewRow == RowInv(NewNeighbor)
<1>1. NewNeighbor \in Neighbor /\ NewNeighbor.missed_count = 0
      /\ NewNeighbor.health = "UNKNOWN" /\ NewNeighbor.age = MaxAge
  BY RowAssumption DEF NewNeighbor, Neighbor, Health, Age
<1>2. 0 * Period = 0 /\ MaxAge \in Nat
  BY RowAssumption
<1> QED  BY <1>1, <1>2 DEF RowInv

LEMMA HeardRow ==
  ASSUME NEW n, RowInv(n)
  PROVE  /\ RowInv(Heard(n))
         /\ Heard(n).health = "ALIVE" /\ Heard(n).age = 0
<1>0. n \in Neighbor
  BY DEF RowInv
<1>1. /\ Heard(n) \in Neighbor /\ Heard(n).health = "ALIVE" /\ Heard(n).age = 0
      /\ Heard(n).missed_count = 0
  <2>1. 0 \in 0 .. MaxAge /\ 0 \in 0 .. MaxMissed
    BY RowAssumption
  <2> QED  BY <1>0, <2>1 DEF Heard, Neighbor, Health, Age
<1> QED  BY <1>1, RowAssumption DEF RowInv

LEMMA AgedRow ==
  ASSUME NEW n, RowInv(n)
  PROVE  /\ RowInv(Aged(n))
         /\ Aged(n).health = n.health /\ Aged(n).age <= n.age + 1
<1>0. n \in Neighbor
  BY DEF RowInv
<1>1. n.age \in 0 .. MaxAge /\ MaxAge \in Nat
  BY <1>0, RowAssumption DEF Neighbor, Age
<1>2. /\ Older(n.age, MaxAge) \in 0 .. MaxAge
      /\ n.age <= Older(n.age, MaxAge) /\ Older(n.age, MaxAge) <= n.age + 1
  BY <1>1 DEF Older, Lesser
<1>3. /\ Aged(n) \in Neighbor /\ Aged(n).age = Older(n.age, MaxAge)
      /\ Aged(n).health = n.health /\ Aged(n).missed_count = n.missed_count
  BY <1>0, <1>2 DEF Aged, Neighbor, Age
<1>4. n.missed_count * Period \in Nat
  BY RowAssumption, Product DEF RowInv, Neighbor
<1> QED  BY <1>1, <1>2, <1>3, <1>4 DEF RowInv

\* A check never gives a health to who was never heard.
LEMMA CheckedRow ==
  ASSUME NEW n, RowInv(n)
  PROVE  /\ RowInv(Checked(n)) /\ Checked(n).age = n.age
         /\ Checked(n).health = "UNKNOWN" <=> n.health = "UNKNOWN"
         /\ Checked(n).health = "ALIVE" => n.health = "ALIVE" \/ n.missed_count = 0
<1>0. n \in Neighbor
  BY DEF RowInv
<1>1. /\ n.age \in 0 .. MaxAge /\ MaxAge \in Nat /\ n.missed_count \in 0 .. MaxMissed
      /\ MaxMissed \in Nat /\ Period \in Nat
  BY <1>0, RowAssumption DEF Neighbor, Age
<1> DEFINE d == n.age \div Period
<1>2. d \in Nat /\ d * Period <= n.age
  BY <1>1, Periods
<1>3. /\ Missed(n) \in 0 .. MaxMissed /\ Missed(n) >= n.missed_count
      /\ Missed(n) \in {n.missed_count} \union 0 .. d
  <2>1. Missed(n) = IF d > n.missed_count THEN Lesser(d, MaxMissed) ELSE n.missed_count
    BY DEF Missed
  <2> HIDE DEF d
  <2> QED  BY <1>1, <1>2, <2>1 DEF Lesser
<1>4. Missed(n) * Period <= n.age
  <2>1. CASE Missed(n) = n.missed_count
    BY <2>1 DEF RowInv
  <2>2. CASE Missed(n) \in 0 .. d
    <3> HIDE DEF d
    <3>1. Missed(n) * Period <= d * Period /\ Missed(n) * Period \in Nat /\ d * Period \in Nat
      BY <1>1, <1>2, <2>2, Product
    <3> QED  BY <1>1, <1>2, <3>1
  <2> QED  BY <1>3, <2>1, <2>2
<1>5. CASE n.health = "UNKNOWN"
  BY <1>5 DEF Checked
<1>6. CASE n.health # "UNKNOWN"
  <2> DEFINE v == Verdict(Missed(n))
  <2>1. /\ v \in Health \ {"UNKNOWN"}
        /\ v = "ALIVE" => Missed(n) = 0
        /\ v = "SUSPECT" => Missed(n) >= 1
        /\ v = "DEAD" => Missed(n) >= TimeoutCount
    BY <1>1, <1>3, RowAssumption DEF Verdict, Health
  <2> HIDE DEF v
  <2>2. /\ Checked(n) \in Neighbor /\ Checked(n).age = n.age /\ Checked(n).health = v
        /\ Checked(n).missed_count = Missed(n)
    BY <1>0, <1>3, <1>6, <2>1 DEF Checked, Neighbor, Age, v
  <2>3. v = "ALIVE" => n.missed_count = 0
    BY <1>1, <1>3, <2>1
  <2> QED  BY <1>4, <1>6, <2>1, <2>2, <2>3 DEF RowInv
<1> QED  BY <1>5, <1>6

\* A check does not bring back the dead: the count is not taken back.
LEMMA CheckedDead ==
  ASSUME NEW n, RowInv(n), n.health = "DEAD"
  PROVE  Checked(n).health = "DEAD"
<1>1. /\ n \in Neighbor /\ n.missed_count \in Nat /\ n.missed_count >= TimeoutCount
      /\ TimeoutCount \in Nat \ {0}
  BY RowAssumption DEF RowInv, Neighbor
<1>2. Missed(n) \in Nat /\ Missed(n) >= TimeoutCount
  <2> DEFINE d == n.age \div Period
  <2>1. d \in Nat /\ MaxMissed \in Nat /\ n.missed_count <= MaxMissed
    BY <1>1, Periods, RowAssumption DEF Neighbor, Age
  <2>2. Missed(n) = IF d > n.missed_count THEN Lesser(d, MaxMissed) ELSE n.missed_count
    BY DEF Missed
  <2> HIDE DEF d
  <2> QED  BY <1>1, <2>1, <2>2 DEF Lesser
<1>3. Verdict(Missed(n)) = "DEAD"
  BY <1>1, <1>2 DEF Verdict
<1> QED  BY <1>1, <1>3 DEF Checked, Neighbor

-----------------------------------------------------------------------------
(***************************************************************************)
(* What a step does to one row: it is new, or stays as it is, or gets      *)
(* older, or a heartbeat of this neighbour is taken from the wire, or the  *)
(* row is judged; and who is told of it.                                   *)
(***************************************************************************)
Reports(m, p) ==
  told'[m][p] = IF neighbors'[m][p].health # neighbors[m][p].health
                THEN neighbors'[m][p].health ELSE told[m][p]

Begins(m, p) == p \notin Tracked(m) /\ neighbors'[m][p] = NewNeighbor

Stays(m, p) ==
  /\ p \in Tracked(m)
  /\ \/ neighbors'[m][p] = neighbors[m][p]
     \/ AdvanceTime /\ neighbors'[m][p] = Aged(neighbors[m][p])
  /\ told'[m][p] = told[m][p]

IsHeard(m, p) ==
  /\ p \in Tracked(m)
  /\ neighbors'[m][p] = Heard(neighbors[m][p])
  /\ \E msg \in wire \ wire' : msg.from = p /\ msg.to = m
  /\ Reports(m, p)

IsChecked(m, p) ==
  /\ p \in Tracked(m)
  /\ neighbors'[m][p] = Checked(neighbors[m][p])
  /\ Reports(m, p)

RowStep(m, p) == Begins(m, p) \/ Stays(m, p) \/ IsHeard(m, p) \/ IsChecked(m, p)

TableShape(m) ==
  /\ Tracked(m) \subseteq {p \in Module : <<p, m>> \in Reach}
  /\ neighbors[m] = [p \in Tracked(m) |-> neighbors[m][p]]
  /\ Cardinality(Tracked(m)) <= MaxTracked

TableStep(m) ==
  /\ TableShape(m)'
  /\ \A p \in DOMAIN neighbors'[m] : RowStep(m, p)

OtherTypes ==
  /\ running \subseteq Module
  /\ DOMAIN neighbors = Module
  /\ since_send \in [Module -> 0 .. Period]
  /\ wire \subseteq Message
  /\ told \in [Module -> [Module -> Health]]
  /\ timely \in BOOLEAN
  /\ since_tick \in [Module -> 0 .. MaxGap]
  /\ trusted \in [Module -> SUBSET Module]

TablesInv ==
  \A m \in Module : TableShape(m) /\ \A p \in Tracked(m) : RowInv(neighbors[m][p])

HInv == OtherTypes /\ TablesInv

LEMMA TableUnchanged ==
  ASSUME HInv, NEW m \in Module, neighbors'[m] = neighbors[m], told'[m] = told[m]
  PROVE  TableStep(m)
BY DEF HInv, TablesInv, TableStep, TableShape, Tracked, RowStep, Stays

\* Setting the table of n reports its changes and touches no other table.
LEMMA SetStep ==
  ASSUME HInv, NEW n \in Module, NEW table, SetNeighbors(n, table),
         table = [p \in Tracked(n) |-> table[p]],
         NEW m \in Module
  PROVE  /\ DOMAIN neighbors' = Module
         /\ m # n => TableStep(m)
         /\ m = n => /\ TableShape(m)' /\ DOMAIN neighbors'[m] = Tracked(m)
                     /\ \A p \in Tracked(m) :
                          neighbors'[m][p] = table[p] /\ Reports(m, p)
<1> DEFINE T == Tracked(n)
           calls == [p \in Module |->
             IF p \in T /\ table[p].health # neighbors[n][p].health
             THEN table[p].health ELSE told[n][p]]
<1>1. /\ neighbors' = [neighbors EXCEPT ![n] = table]
      /\ told' = [told EXCEPT ![n] = calls]
      /\ DOMAIN neighbors = Module /\ told \in [Module -> [Module -> Health]]
  BY DEF SetNeighbors, HInv, OtherTypes
<1> HIDE DEF calls
<1>2. DOMAIN neighbors' = Module
  BY <1>1
<1>3. ASSUME m # n PROVE TableStep(m)
  <2>1. neighbors'[m] = neighbors[m] /\ told'[m] = told[m]
    BY <1>1, <1>3
  <2> QED  BY <2>1, TableUnchanged
<1>4. ASSUME m = n
      PROVE  /\ TableShape(m)' /\ DOMAIN neighbors'[m] = Tracked(m)
             /\ \A p \in Tracked(m) : neighbors'[m][p] = table[p] /\ Reports(m, p)
  <2>1. neighbors'[m] = table /\ told'[m] = calls
    BY <1>1, <1>4
  <2>2. DOMAIN table = Tracked(m)
    BY <1>4
  <2>3. TableShape(m)'
    BY <2>1, <2>2, <1>4 DEF TableShape, Tracked, HInv, TablesInv
  <2>4. Tracked(m) \subseteq Module
    BY DEF HInv, TablesInv, TableShape
  <2> QED  BY <1>4, <2>1, <2>2, <2>3, <2>4 DEF Reports, calls
<1> QED  BY <1>2, <1>3, <1>4

LEMMA NeighborStep ==
  ASSUME HInv, NEW n \in Module, NEW q \in Module,
         AddNeighbor(n, q) \/ RemoveNeighbor(n, q), NEW m \in Module
  PROVE  DOMAIN neighbors' = Module /\ TableStep(m)
<1>1. DOMAIN neighbors = Module /\ told' = told
  BY DEF HInv, OtherTypes, AddNeighbor, RemoveNeighbor
<1>2. IsFiniteSet(Tracked(n)) /\ Cardinality(Tracked(n)) \in Nat
      /\ Tracked(n) \subseteq {p \in Module : <<p, n>> \in Reach}
  <2>1. Tracked(n) \subseteq {p \in Module : <<p, n>> \in Reach}
    BY DEF HInv, TablesInv, TableShape
  <2>2. IsFiniteSet(Tracked(n))
    BY <2>1, HeartbeatAssumption, FS_Subset
  <2> QED  BY <2>1, <2>2, FS_CardinalityType
<1>3. ASSUME NEW table, neighbors' = [neighbors EXCEPT ![n] = table],
             table = [p \in DOMAIN table |-> table[p]],
             DOMAIN table \subseteq {p \in Module : <<p, n>> \in Reach},
             Cardinality(DOMAIN table) <= MaxTracked,
             \A p \in DOMAIN table :
               table[p] = IF p \in Tracked(n) THEN neighbors[n][p] ELSE NewNeighbor
      PROVE  DOMAIN neighbors' = Module /\ TableStep(m)
  <2>1. DOMAIN neighbors' = Module
    BY <1>1, <1>3
  <2>2. CASE m = n
    <3>1. neighbors'[m] = table
      BY <1>1, <1>3, <2>2
    <3>2. TableShape(m)'
      BY <1>3, <2>2, <3>1 DEF TableShape, Tracked
    <3>3. \A p \in DOMAIN neighbors'[m] : RowStep(m, p)
      BY <1>1, <1>3, <2>2, <3>1 DEF RowStep, Begins, Stays
    <3> QED  BY <2>1, <3>2, <3>3 DEF TableStep
  <2>3. CASE m # n
    BY <1>1, <1>3, <2>1, <2>3, TableUnchanged
  <2> QED  BY <2>2, <2>3
<1>4. CASE AddNeighbor(n, q)
  <2> DEFINE table == [p \in Tracked(n) \union {q} |->
                         IF p = q THEN NewNeighbor ELSE neighbors[n][p]]
  <2>1. /\ neighbors' = [neighbors EXCEPT ![n] = table]
        /\ q \notin Tracked(n) /\ <<q, n>> \in Reach /\ Cardinality(Tracked(n)) < MaxTracked
    BY <1>1, <1>4 DEF AddNeighbor
  <2>2. Cardinality(Tracked(n) \union {q}) <= MaxTracked
    <3>1. Cardinality(Tracked(n) \union {q}) = Cardinality(Tracked(n)) + 1
      BY <1>2, <2>1, FS_AddElement
    <3> QED  BY <1>2, <2>1, <3>1, HeartbeatAssumption
  <2>3. /\ DOMAIN table = Tracked(n) \union {q}
        /\ table = [p \in DOMAIN table |-> table[p]]
        /\ \A p \in DOMAIN table :
               table[p] = IF p \in Tracked(n) THEN neighbors[n][p] ELSE NewNeighbor
    BY <2>1
  <2> HIDE DEF table
  <2> QED  BY <1>2, <1>3, <2>1, <2>2, <2>3
<1>5. CASE RemoveNeighbor(n, q)
  <2> DEFINE table == [p \in Tracked(n) \ {q} |-> neighbors[n][p]]
  <2>1. neighbors' = [neighbors EXCEPT ![n] = table]
    BY <1>1, <1>5 DEF RemoveNeighbor
  <2>2. Cardinality(Tracked(n) \ {q}) <= MaxTracked
    <3>1. Cardinality(Tracked(n) \ {q}) <= Cardinality(Tracked(n))
          /\ Cardinality(Tracked(n) \ {q}) \in Nat
      BY <1>2, FS_Subset, FS_CardinalityType
    <3>2. Cardinality(Tracked(n)) <= MaxTracked
      BY DEF HInv, TablesInv, TableShape
    <3> QED  BY <1>2, <3>1, <3>2, HeartbeatAssumption
  <2>3. /\ DOMAIN table = Tracked(n) \ {q}
        /\ table = [p \in DOMAIN table |-> table[p]]
        /\ \A p \in DOMAIN table :
               table[p] = IF p \in Tracked(n) THEN neighbors[n][p] ELSE NewNeighbor
    OBVIOUS
  <2> HIDE DEF table
  <2> QED  BY <1>2, <1>3, <2>1, <2>2, <2>3
<1> QED  BY <1>4, <1>5

LEMMA ReceiveStep ==
  ASSUME HInv, NEW n \in Module, NEW msg \in wire, Receive(n, msg), NEW m \in Module
  PROVE  DOMAIN neighbors' = Module /\ TableStep(m)
<1>1. CASE msg.from \in Tracked(n)
  <2> DEFINE table == [neighbors[n] EXCEPT ![msg.from] = Heard(@)]
  <2>1. SetNeighbors(n, table) /\ wire' = wire \ {msg} /\ msg.to = n
    BY <1>1 DEF Receive
  <2>2. neighbors[n] = [p \in Tracked(n) |-> neighbors[n][p]]
    BY DEF HInv, TablesInv, TableShape
  <2>3. /\ table = [p \in Tracked(n) |-> table[p]]
        /\ \A p \in Tracked(n) : table[p] = IF p = msg.from THEN Heard(neighbors[n][p])
                                            ELSE neighbors[n][p]
    BY <1>1, <2>2 DEF Tracked
  <2> HIDE DEF table
  <2>4. /\ DOMAIN neighbors' = Module
        /\ m # n => TableStep(m)
        /\ m = n => /\ TableShape(m)' /\ DOMAIN neighbors'[m] = Tracked(m)
                    /\ \A p \in Tracked(m) :
                          neighbors'[m][p] = table[p] /\ Reports(m, p)
    BY <2>1, <2>3, SetStep
  <2>5. ASSUME m = n, NEW p \in Tracked(m) PROVE RowStep(m, p)
    <3>1. CASE p = msg.from
      BY <2>1, <2>3, <2>4, <2>5, <3>1 DEF RowStep, IsHeard
    <3>2. CASE p # msg.from
      BY <2>3, <2>4, <2>5, <3>2 DEF RowStep, Stays, Reports
    <3> QED  BY <3>1, <3>2
  <2> QED  BY <2>4, <2>5 DEF TableStep
<1>2. CASE msg.from \notin Tracked(n)
  <2>1. neighbors' = neighbors /\ told' = told
    BY <1>2 DEF Receive
  <2> QED  BY <2>1, TableUnchanged DEF HInv, OtherTypes
<1> QED  BY <1>1, <1>2

LEMMA CheckStep ==
  ASSUME HInv, NEW n \in Module, Tick(n), NEW m \in Module
  PROVE  DOMAIN neighbors' = Module /\ TableStep(m)
<1> DEFINE table == [p \in Tracked(n) |-> Checked(neighbors[n][p])]
<1>1. SetNeighbors(n, table)
  BY DEF Tick
<1>2. /\ table = [p \in Tracked(n) |-> table[p]]
      /\ \A p \in Tracked(n) : table[p] = Checked(neighbors[n][p])
  OBVIOUS
<1> HIDE DEF table
<1>3. /\ DOMAIN neighbors' = Module
      /\ m # n => TableStep(m)
      /\ m = n => /\ TableShape(m)' /\ DOMAIN neighbors'[m] = Tracked(m)
                  /\ \A p \in Tracked(m) :
                       neighbors'[m][p] = table[p] /\ Reports(m, p)
  BY <1>1, <1>2, SetStep
<1>4. m = n => \A p \in Tracked(m) : RowStep(m, p)
  BY <1>2, <1>3 DEF RowStep, IsChecked
<1> QED  BY <1>3, <1>4 DEF TableStep

LEMMA CrashStep ==
  ASSUME HInv, NEW n \in Module, Crash(n), NEW m \in Module
  PROVE  DOMAIN neighbors' = Module /\ TableStep(m)
<1>1. /\ neighbors' = [neighbors EXCEPT ![n] = NoRows] /\ DOMAIN neighbors = Module
      /\ told' = [told EXCEPT ![n] = [p \in Module |-> "UNKNOWN"]]
      /\ told \in [Module -> [Module -> Health]]
  BY DEF Crash, HInv, OtherTypes
<1>2. CASE m = n
  <2>1. neighbors'[m] = NoRows /\ DOMAIN NoRows = {} /\ NoRows = [p \in {} |-> NoRows[p]]
    BY <1>1, <1>2 DEF NoRows
  <2>2. TableShape(m)'
    BY <2>1, FS_EmptySet, HeartbeatAssumption DEF TableShape, Tracked
  <2> QED  BY <1>1, <2>1, <2>2 DEF TableStep
<1>3. CASE m # n
  BY <1>1, <1>3, TableUnchanged
<1> QED  BY <1>2, <1>3

LEMMA AgeStep ==
  ASSUME HInv, AdvanceTime, NEW m \in Module
  PROVE  DOMAIN neighbors' = Module /\ TableStep(m)
<1>1. /\ told' = told
      /\ neighbors' = [n \in Module |-> [p \in Tracked(n) |-> Aged(neighbors[n][p])]]
  BY DEF AdvanceTime, Aged
<1>2. neighbors'[m] = [p \in Tracked(m) |-> Aged(neighbors[m][p])]
  BY <1>1
<1>3. DOMAIN neighbors'[m] = Tracked(m)
      /\ \A p \in Tracked(m) : neighbors'[m][p] = Aged(neighbors[m][p])
  BY <1>2
<1>4. TableShape(m)'
  BY <1>2, <1>3 DEF TableShape, Tracked, HInv, TablesInv
<1> QED  BY <1>1, <1>3, <1>4 DEF TableStep, RowStep, Stays

\* Every step changes rows only as a heartbeat, a check or time may.
LEMMA TableSteps ==
  ASSUME HInv, [Next]_vars, NEW m \in Module
  PROVE  DOMAIN neighbors' = Module /\ TableStep(m)
<1>1. ASSUME UNCHANGED <<neighbors, told>>
      PROVE  DOMAIN neighbors' = Module /\ TableStep(m)
  BY <1>1, TableUnchanged DEF HInv, OtherTypes
<1>2. CASE UNCHANGED vars
  BY <1>1, <1>2 DEF vars
<1>3. ASSUME NEW n \in Module, NEW q \in Module, AddNeighbor(n, q) \/ RemoveNeighbor(n, q)
      PROVE  DOMAIN neighbors' = Module /\ TableStep(m)
  BY <1>3, NeighborStep
<1>4. ASSUME NEW n \in Module, NEW msg \in wire, Receive(n, msg)
      PROVE  DOMAIN neighbors' = Module /\ TableStep(m)
  BY <1>4, ReceiveStep
<1>5. ASSUME NEW n \in Module, Tick(n) \/ SendNow(n) \/ Crash(n) \/ Restart(n)
      PROVE  DOMAIN neighbors' = Module /\ TableStep(m)
  BY <1>1, <1>5, CheckStep, CrashStep DEF SendNow, Restart
<1>6. ASSUME NEW msg \in wire, Lose(msg)
      PROVE  DOMAIN neighbors' = Module /\ TableStep(m)
  BY <1>1, <1>6 DEF Lose
<1> QED  BY <1>2, <1>3, <1>4, <1>5, <1>6, AgeStep DEF Next

-----------------------------------------------------------------------------
(***************************************************************************)
(* The other variables.                                                    *)
(***************************************************************************)
LEMMA InitHInv == Init => HInv
<1> SUFFICES ASSUME Init PROVE HInv
  OBVIOUS
<1>1. 0 \in 0 .. Period /\ Period \in 0 .. Period /\ 0 \in 0 .. MaxGap
  BY RowAssumption, HeartbeatAssumption
<1>2. since_send \in [Module -> 0 .. Period] /\ since_tick \in [Module -> 0 .. MaxGap]
  BY <1>1 DEF Init
<1>3. told \in [Module -> [Module -> Health]]
  BY DEF Init, Health
<1>4. OtherTypes
  BY <1>2, <1>3 DEF Init, OtherTypes
<1>5. ASSUME NEW m \in Module PROVE TableShape(m) /\ Tracked(m) = {}
  <2>1. neighbors[m] = NoRows /\ DOMAIN NoRows = {} /\ NoRows = [p \in {} |-> NoRows[p]]
    BY DEF Init, NoRows
  <2> QED  BY <2>1, FS_EmptySet, HeartbeatAssumption DEF TableShape, Tracked
<1> QED  BY <1>4, <1>5 DEF HInv, TablesInv

LEMMA OlderBound ==
  ASSUME NEW bound \in Nat, NEW a \in 0 .. bound
  PROVE  Older(a, bound) \in 0 .. bound
BY DEF Older, Lesser

LEMMA SendTypes ==
  ASSUME OtherTypes, NEW m \in Module, SendHeartbeat(m)
  PROVE  wire' \subseteq Message /\ since_send' \in [Module -> 0 .. Period]
<1>1. 0 \in 0 .. Period /\ 0 \in 0 .. MaxDelay
  BY RowAssumption, HeartbeatAssumption
<1>2. ASSUME NEW q \in Module PROVE [from |-> m, to |-> q, age |-> 0] \in Message
  BY <1>1 DEF Message
<1>3. Heartbeats(m) \subseteq Message
  BY <1>2 DEF Heartbeats
<1> QED  BY <1>1, <1>3 DEF SendHeartbeat, OtherTypes

LEMMA SetTypes ==
  ASSUME HInv, NEW n \in Module, NEW table, SetNeighbors(n, table),
         \A p \in Tracked(n) : table[p].health \in Health
  PROVE  told' \in [Module -> [Module -> Health]]
<1> DEFINE calls == [p \in Module |->
             IF p \in Tracked(n) /\ table[p].health # neighbors[n][p].health
             THEN table[p].health ELSE told[n][p]]
<1>1. told' = [told EXCEPT ![n] = calls] /\ told \in [Module -> [Module -> Health]]
  BY DEF SetNeighbors, HInv, OtherTypes
<1>2. calls \in [Module -> Health]
  BY <1>1
<1> HIDE DEF calls
<1> QED  BY <1>1, <1>2

LEMMA NextTypes ==
  ASSUME HInv, [Next]_vars, DOMAIN neighbors' = Module
  PROVE  OtherTypes'
<1>1. OtherTypes
  BY DEF HInv
<1>2. CASE UNCHANGED vars
  BY <1>1, <1>2 DEF vars, OtherTypes
<1>3. ASSUME NEW n \in Module, NEW q \in Module, AddNeighbor(n, q) \/ RemoveNeighbor(n, q)
      PROVE  OtherTypes'
  BY <1>1, <1>3 DEF OtherTypes, AddNeighbor, RemoveNeighbor
<1>4. ASSUME NEW n \in Module, NEW msg \in wire, Receive(n, msg)
      PROVE  OtherTypes'
  <2>1. told' \in [Module -> [Module -> Health]]
    <3>1. CASE msg.from \in Tracked(n)
      <4> DEFINE table == [neighbors[n] EXCEPT ![msg.from] = Heard(@)]
      <4>1. \A p \in Tracked(n) : table[p].health \in Health
        <5>1. \A p \in Tracked(n) : RowInv(neighbors[n][p])
          BY DEF HInv, TablesInv
        <5>2. \A p \in Tracked(n) : /\ neighbors[n][p].health \in Health
                                    /\ Heard(neighbors[n][p]).health \in Health
          BY <5>1, HeardRow DEF RowInv, Neighbor
        <5> QED  BY <5>2 DEF Tracked
      <4>2. SetNeighbors(n, table)
        BY <1>4, <3>1 DEF Receive
      <4> HIDE DEF table
      <4> QED  BY <4>1, <4>2, SetTypes
    <3>2. CASE msg.from \notin Tracked(n)
      BY <1>1, <1>4, <3>2 DEF Receive, OtherTypes
    <3> QED  BY <3>1, <3>2
  <2>2. trusted' \in [Module -> SUBSET Module]
    <3>1. \/ trusted' = trusted
          \/ trusted' = [trusted EXCEPT ![n] = @ \union ({msg.from} \intersect running)]
      BY <1>4 DEF Receive
    <3> QED  BY <1>1, <3>1 DEF OtherTypes
  <2> QED  BY <1>1, <1>4, <2>1, <2>2 DEF OtherTypes, Receive
<1>5. ASSUME NEW n \in Module, Tick(n)
      PROVE  OtherTypes'
  <2>1. told' \in [Module -> [Module -> Health]]
    <3> DEFINE table == [p \in Tracked(n) |-> Checked(neighbors[n][p])]
    <3>1. \A p \in Tracked(n) : table[p].health \in Health
      BY CheckedRow DEF HInv, TablesInv, RowInv, Neighbor
    <3>2. SetNeighbors(n, table)
      BY <1>5 DEF Tick
    <3> HIDE DEF table
    <3> QED  BY <3>1, <3>2, SetTypes
  <2>2. wire' \subseteq Message /\ since_send' \in [Module -> 0 .. Period]
    BY <1>1, <1>5, SendTypes DEF Tick, OtherTypes
  <2>3. since_tick' \in [Module -> 0 .. MaxGap]
    <3>1. 0 \in 0 .. MaxGap
      BY HeartbeatAssumption
    <3> QED  BY <1>1, <1>5, <3>1 DEF Tick, OtherTypes
  <2> QED  BY <1>1, <1>5, <2>1, <2>2, <2>3 DEF OtherTypes, Tick
<1>6. ASSUME NEW n \in Module, SendNow(n)
      PROVE  OtherTypes'
  BY <1>1, <1>6, SendTypes DEF OtherTypes, SendNow
<1>7. ASSUME NEW n \in Module, Crash(n)
      PROVE  OtherTypes'
  <2>1. told' \in [Module -> [Module -> Health]]
    BY <1>1, <1>7 DEF OtherTypes, Crash, Health
  <2>2. trusted' \in [Module -> SUBSET Module]
    BY <1>1, <1>7 DEF OtherTypes, Crash
  <2> QED  BY <1>1, <1>7, <2>1, <2>2 DEF OtherTypes, Crash
<1>8. ASSUME NEW n \in Module, Restart(n)
      PROVE  OtherTypes'
  <2>1. 0 \in 0 .. Period /\ Period \in 0 .. Period /\ 0 \in 0 .. MaxGap
    BY RowAssumption, HeartbeatAssumption
  <2>2. since_send' \in [Module -> 0 .. Period] /\ since_tick' \in [Module -> 0 .. MaxGap]
    BY <1>1, <1>8, <2>1 DEF OtherTypes, Restart
  <2> QED  BY <1>1, <1>8, <2>2 DEF OtherTypes, Restart
<1>9. ASSUME NEW msg \in wire, Lose(msg)
      PROVE  OtherTypes'
  BY <1>1, <1>9 DEF OtherTypes, Lose
<1>10. CASE AdvanceTime
  <2>1. since_send' \in [Module -> 0 .. Period] /\ since_tick' \in [Module -> 0 .. MaxGap]
    <3>1. Period \in Nat /\ MaxGap \in Nat
      BY RowAssumption, HeartbeatAssumption
    <3> QED  BY <1>1, <1>10, <3>1, OlderBound DEF OtherTypes, AdvanceTime
  <2>2. wire' \subseteq Message
    <3>1. ASSUME NEW msg \in wire
          PROVE  [msg EXCEPT !.age = Older(@, MaxDelay)] \in Message
      <4>1. msg \in Message
        BY <1>1 DEF OtherTypes
      <4>2. msg.age \in 0 .. MaxDelay
        BY <4>1 DEF Message
      <4>3. Older(msg.age, MaxDelay) \in 0 .. MaxDelay
        BY <4>2, OlderBound, HeartbeatAssumption
      <4> QED  BY <4>1, <4>3 DEF Message
    <3> QED  BY <1>10, <3>1 DEF AdvanceTime
  <2> QED  BY <1>1, <1>10, <2>1, <2>2 DEF OtherTypes, AdvanceTime
<1> QED  BY <1>2, <1>3, <1>4, <1>5, <1>6, <1>7, <1>8, <1>9, <1>10 DEF Next

LEMMA NextHInv ==
  ASSUME HInv, [Next]_vars
  PROVE  HInv'
<1>1. OtherTypes'
  <2>1. CASE Module = {}
    <3>1. DOMAIN neighbors' = Module
      BY <2>1 DEF Next, vars, HInv, OtherTypes, AddNeighbor, RemoveNeighbor, Receive, Tick,
                  SendNow, Crash, Restart, Lose, AdvanceTime, Message
    <3> QED  BY <3>1, NextTypes
  <2>2. CASE Module # {}
    BY <2>2, TableSteps, NextTypes
  <2> QED  BY <2>1, <2>2
<1>2. ASSUME NEW m \in Module
      PROVE  TableShape(m)' /\ \A p \in DOMAIN neighbors'[m] : RowInv(neighbors'[m][p])
  <2>1. TableStep(m)
    BY TableSteps
  <2>2. ASSUME NEW p \in DOMAIN neighbors'[m] PROVE RowInv(neighbors'[m][p])
    <3>1. RowStep(m, p) /\ (p \in Tracked(m) => RowInv(neighbors[m][p]))
      BY <2>1 DEF TableStep, HInv, TablesInv
    <3> QED  BY <3>1, NewRow, HeardRow, AgedRow, CheckedRow
             DEF RowStep, Begins, Stays, IsHeard, IsChecked
  <2> QED  BY <2>1, <2>2 DEF TableStep
<1> QED  BY <1>1, <1>2 DEF HInv, TablesInv, Tracked, RowInv

LEMMA Invariance == Spec => []HInv
<1>1. Spec => Init /\ [][Next]_vars
  BY DEF Spec
<1>2. HInv /\ [Next]_vars => HInv'
  BY NextHInv
<1> QED  BY <1>1, <1>2, InitHInv, PTL

-----------------------------------------------------------------------------
(***************************************************************************)
(* TypeOK: every variable of the failure detector holds values of its      *)
(* type, whatever the modules, the losses and the crashes; missed_count    *)
(* stays within its 8 bits.                                                *)
(***************************************************************************)
THEOREM TypeCorrect == Spec => []TypeOK
<1>1. HInv => TypeOK
  <2> SUFFICES ASSUME HInv PROVE TypeOK
    OBVIOUS
  <2>1. ASSUME NEW m \in Module
        PROVE  /\ Tracked(m) \subseteq Module
               /\ neighbors[m] \in [Tracked(m) -> Neighbor]
               /\ Cardinality(Tracked(m)) <= MaxTracked
    <3>1. TableShape(m) /\ \A p \in Tracked(m) : neighbors[m][p] \in Neighbor
      BY DEF HInv, TablesInv, RowInv
    <3> QED  BY <3>1 DEF TableShape
  <2> QED  BY <2>1 DEF HInv, OtherTypes, TypeOK
<1> QED  BY <1>1, Invariance, PTL

(***************************************************************************)
(* NoHastyVerdict: check_timeouts suspects a neighbour only after a period *)
(* of silence and holds it dead only after timeout_count of them.          *)
(***************************************************************************)
LEMMA NotHasty ==
  ASSUME NEW n, RowInv(n)
  PROVE  /\ n.health = "SUSPECT" => n.age >= Period
         /\ n.health = "DEAD" => n.age >= TimeoutCount * Period
         /\ n.missed_count * Period <= n.age
<1>1. /\ n.missed_count \in Nat /\ n.age \in Nat /\ Period \in Nat
      /\ TimeoutCount \in Nat /\ n.missed_count * Period <= n.age
  BY RowAssumption DEF RowInv, Neighbor, Age
<1>2. ASSUME NEW k \in Nat, k <= n.missed_count PROVE n.age >= k * Period
  <2>1. k * Period <= n.missed_count * Period
        /\ k * Period \in Nat /\ n.missed_count * Period \in Nat
    BY <1>1, <1>2, Product
  <2> QED  BY <1>1, <2>1
<1>3. n.health = "SUSPECT" => n.age >= 1 * Period
  BY <1>1, <1>2 DEF RowInv
<1>4. n.health = "DEAD" => n.age >= TimeoutCount * Period
  BY <1>1, <1>2 DEF RowInv
<1> QED  BY <1>1, <1>3, <1>4

(***************************************************************************)
(* No neighbour is suspected before a period of silence or held dead       *)
(* before timeout_count of them, and missed_count never counts more        *)
(* periods than have passed (ekk_heartbeat_tick).                          *)
(***************************************************************************)
THEOREM VerdictsWait == Spec => []NoHastyVerdict
<1>1. HInv => NoHastyVerdict
  BY NotHasty DEF HInv, TablesInv, NoHastyVerdict
<1> QED  BY <1>1, Invariance, PTL

(***************************************************************************)
(* CallbacksMatch: what the application was last told of a neighbour is    *)
(* the neighbour's health in the table, also after it was removed and      *)
(* added again.                                                            *)
(***************************************************************************)
LEMMA TellStep ==
  ASSUME HInv, CallbacksMatch, [Next]_vars
  PROVE  CallbacksMatch'
<1>1. ASSUME NEW m \in Module, NEW p \in DOMAIN neighbors'[m]
      PROVE  neighbors'[m][p].health # "UNKNOWN" => told'[m][p] = neighbors'[m][p].health
  <2>1. RowStep(m, p)
    BY TableSteps DEF TableStep
  <2>2. p \in Tracked(m) => /\ RowInv(neighbors[m][p])
                            /\ neighbors[m][p].health # "UNKNOWN"
                                 => told[m][p] = neighbors[m][p].health
    BY DEF HInv, TablesInv, CallbacksMatch
  <2>3. NewNeighbor.health = "UNKNOWN"
    BY DEF NewNeighbor
  <2> QED  BY <2>1, <2>2, <2>3, AgedRow
           DEF RowStep, Begins, Stays, IsHeard, IsChecked, Reports
<1> QED  BY <1>1 DEF CallbacksMatch, Tracked

(***************************************************************************)
(* The health in the table is what the last callback said of the           *)
(* neighbour, from its first heartbeat on, also when it was removed and    *)
(* added again (ekk_heartbeat_received, ekk_heartbeat_tick).               *)
(***************************************************************************)
THEOREM CallbacksAgree == Spec => []CallbacksMatch
<1>1. Init => CallbacksMatch
  BY DEF Init, CallbacksMatch, Tracked, NoRows
<1>2. HInv /\ CallbacksMatch /\ [Next]_vars => CallbacksMatch'
  BY TellStep
<1>3. Spec => Init /\ [][Next]_vars
  BY DEF Spec
<1> QED  BY <1>1, <1>2, <1>3, Invariance, PTL

(***************************************************************************)
(* HealthEarned: only a heartbeat of the neighbour itself makes it ALIVE,  *)
(* no tick judges a neighbour that was never heard of, and none takes back *)
(* a suspicion or a death, because missed_count only grows.                *)
(***************************************************************************)
LEMMA EarnedStep ==
  ASSUME HInv, [Next]_vars, NEW m \in Module,
         NEW p \in Tracked(m) \intersect DOMAIN neighbors'[m]
  PROVE  Earned(m, p)
<1>1. RowStep(m, p)
  BY TableSteps DEF TableStep
<1>2. RowInv(neighbors[m][p])
  BY DEF HInv, TablesInv
<1>3. CASE Stays(m, p)
  BY <1>2, <1>3, AgedRow DEF Stays, Earned
<1>4. CASE IsHeard(m, p)
  <2>1. neighbors[m][p].health \in Health
    BY <1>2 DEF RowInv, Neighbor
  <2>2. neighbors'[m][p].health = "ALIVE" /\ HeardOf(m, p)
    BY <1>2, <1>4, HeardRow DEF IsHeard, HeardOf
  <2> QED  BY <2>1, <2>2 DEF Earned, Edge, Health
<1>5. CASE IsChecked(m, p)
  <2>1. /\ neighbors[m][p].missed_count = 0
             => neighbors[m][p].health \notin {"SUSPECT", "DEAD"}
        /\ neighbors[m][p].health \in Health
    BY <1>2, RowAssumption DEF RowInv, Neighbor
  <2>2. /\ neighbors'[m][p].health \in Health
        /\ neighbors'[m][p].health = "UNKNOWN" <=> neighbors[m][p].health = "UNKNOWN"
        /\ neighbors'[m][p].health = "ALIVE" => neighbors[m][p].health = "ALIVE"
    BY <1>2, <1>5, <2>1, CheckedRow DEF IsChecked, RowInv, Neighbor, Health
  <2>3. neighbors[m][p].health = "DEAD" => neighbors'[m][p].health = "DEAD"
    BY <1>2, <1>5, CheckedDead DEF IsChecked
  <2> QED  BY <2>1, <2>2, <2>3 DEF Earned, Edge, Health
<1> QED  BY <1>1, <1>3, <1>4, <1>5 DEF RowStep, Begins

(***************************************************************************)
(* Health follows defined edges: a neighbour becomes alive only by a       *)
(* heartbeat of its own that arrives in this very step, leaves UNKNOWN for *)
(* nothing else, and is suspected only when it was alive; ekk_heartbeat_tick *)
(* takes neither suspicion nor death back.                                 *)
(***************************************************************************)
THEOREM HealthIsEarned == Spec => HealthEarned
<1>1. HInv /\ [Next]_vars
        => [\A m \in Module : \A p \in Tracked(m) \intersect DOMAIN neighbors'[m] :
              Earned(m, p)]_vars
  BY EarnedStep
<1>2. Spec => Init /\ [][Next]_vars
  BY DEF Spec
<1> QED  BY <1>1, <1>2, Invariance, PTL DEF HealthEarned

(***************************************************************************)
(* timeout_count has 32 bits and missed_count 8 (ekk_heartbeat.c:251), and *)
(* nobody compares the two: with a timeout_count the counter cannot reach, *)
(* no module is ever found dead, however long it has been silent.          *)
(***************************************************************************)
NobodyDead == \A m \in Module : \A p \in Tracked(m) : neighbors[m][p].health # "DEAD"

THEOREM TimeoutOutOfReach ==
  ASSUME TimeoutCount > MaxMissed PROVE Spec => []NobodyDead
<1>1. ASSUME NEW n, RowInv(n) PROVE n.health # "DEAD"
  <2>1. n.missed_count \in 0 .. MaxMissed /\ MaxMissed \in Nat /\ TimeoutCount \in Nat
    BY <1>1, RowAssumption DEF RowInv, Neighbor
  <2> QED  BY <1>1, <2>1 DEF RowInv
<1>2. HInv => NobodyDead
  BY <1>1 DEF HInv, TablesInv, NobodyDead
<1> QED  BY <1>2, Invariance, PTL

-----------------------------------------------------------------------------
(***************************************************************************)
(* Why a live neighbour is never held dead.  While its next heartbeat is   *)
(* not yet due, the row is no older than its last broadcast; once it is    *)
(* due, the sender ticks within MaxGap; and from then on a heartbeat that  *)
(* will make the row young again is on its way.                            *)
(***************************************************************************)
Fresh(m, p) ==
  LET age == neighbors[m][p].age
  IN  \/ /\ since_send[p] < Period => age <= since_send[p]
         /\ age <= Period - 1 + since_tick[p]
      \/ \E msg \in wire :
           msg.from = p /\ msg.to = m /\ age <= Period - 1 + MaxGap + msg.age

TrustInv ==
  \A m \in Module : trusted[m] \subseteq running /\ (trusted[m] # {} => m \in running)

FreshInv ==
  timely => \A m \in Module : \A p \in Tracked(m) \intersect trusted[m] \intersect AutoBroadcast :
              neighbors[m][p].health # "UNKNOWN" => Fresh(m, p)

\* Both ends of a trust run; a new one comes with a heartbeat.
LEMMA TrustStep ==
  ASSUME HInv, TrustInv, [Next]_vars, NEW m \in Module, NEW p \in trusted'[m]
  PROVE  /\ m \in running' /\ p \in running' /\ p \in Module
         /\ \/ p \in trusted[m]
            \/ \E msg \in wire : Receive(m, msg) /\ msg.from = p /\ p \in Tracked(m)
<1>1. OtherTypes /\ trusted[m] \subseteq Module
  BY DEF HInv, OtherTypes
<1>2. ASSUME trusted' = trusted, running \subseteq running'
      PROVE  /\ m \in running' /\ p \in running' /\ p \in Module
             /\ p \in trusted[m]
  BY <1>1, <1>2 DEF TrustInv
<1>3. CASE UNCHANGED vars
  BY <1>2, <1>3 DEF vars
<1>4. ASSUME NEW n \in Module, NEW q \in Module, AddNeighbor(n, q) \/ RemoveNeighbor(n, q)
      PROVE  trusted' = trusted /\ running' = running
  BY <1>4 DEF AddNeighbor, RemoveNeighbor
<1>5. ASSUME NEW n \in Module, Tick(n) \/ SendNow(n) \/ Restart(n)
      PROVE  trusted' = trusted /\ running \subseteq running'
  BY <1>5 DEF Tick, SendNow, Restart
<1>6. ASSUME NEW msg \in wire, Lose(msg)
      PROVE  trusted' = trusted /\ running' = running
  BY <1>6 DEF Lose
<1>7. AdvanceTime => trusted' = trusted /\ running' = running
  BY DEF AdvanceTime
<1>8. ASSUME NEW n \in Module, Crash(n)
      PROVE  /\ m \in running' /\ p \in running' /\ p \in Module
             /\ p \in trusted[m]
  <2>1. /\ trusted' = [q \in Module |-> IF q = n THEN {} ELSE trusted[q] \ {n}]
        /\ running' = running \ {n}
    BY <1>8 DEF Crash
  <2>2. m # n /\ p \in trusted[m] /\ p # n
    BY <2>1
  <2> QED  BY <1>1, <2>1, <2>2 DEF TrustInv
<1>9. ASSUME NEW n \in Module, NEW msg \in wire, Receive(n, msg)
      PROVE  /\ m \in running' /\ p \in running' /\ p \in Module
             /\ p \in trusted[m] \/ (Receive(m, msg) /\ msg.from = p /\ p \in Tracked(m))
  <2>1. running' = running /\ n \in running
    BY <1>9 DEF Receive
  <2>2. CASE trusted' = trusted
    BY <1>2, <2>1, <2>2
  <2>3. CASE trusted' # trusted
    <3>1. /\ msg.from \in Tracked(n)
          /\ trusted' = [trusted EXCEPT ![n] = @ \union ({msg.from} \intersect running)]
      BY <1>9, <2>3 DEF Receive
    <3>2. p \in trusted[m] \/ (m = n /\ p = msg.from /\ p \in running)
      BY <1>1, <3>1 DEF OtherTypes
    <3> QED  BY <1>1, <1>9, <2>1, <3>1, <3>2 DEF TrustInv, OtherTypes
  <2> QED  BY <2>2, <2>3
<1> QED  BY <1>2, <1>3, <1>4, <1>5, <1>6, <1>7, <1>8, <1>9 DEF Next

\* A row gets older only as time passes, and at most by one.
LEMMA RowAge ==
  ASSUME HInv, [Next]_vars, NEW m \in Module, NEW p \in DOMAIN neighbors'[m],
         neighbors'[m][p].health # "UNKNOWN"
  PROVE  /\ p \in Tracked(m) /\ neighbors[m][p].age \in Nat /\ neighbors'[m][p].age \in Nat
         /\ \/ neighbors'[m][p].age = 0
            \/ /\ neighbors[m][p].health # "UNKNOWN"
               /\ neighbors'[m][p].age <= neighbors[m][p].age + 1
               /\ neighbors'[m][p].age = neighbors[m][p].age \/ AdvanceTime
<1>1. RowStep(m, p)
  BY TableSteps DEF TableStep
<1>2. ~Begins(m, p) /\ p \in Tracked(m)
  BY <1>1 DEF Begins, NewNeighbor, RowStep, Stays, IsHeard, IsChecked
<1>3. RowInv(neighbors[m][p])
  BY <1>2 DEF HInv, TablesInv
<1>4. \A n : RowInv(n) => n.age \in Nat
  BY RowAssumption DEF RowInv, Neighbor, Age
<1>5. CASE Stays(m, p)
  BY <1>2, <1>3, <1>4, <1>5, AgedRow DEF Stays
<1>6. CASE IsHeard(m, p)
  BY <1>2, <1>3, <1>4, <1>6, HeardRow DEF IsHeard
<1>7. CASE IsChecked(m, p)
  BY <1>2, <1>3, <1>4, <1>7, CheckedRow DEF IsChecked
<1> QED  BY <1>1, <1>2, <1>5, <1>6, <1>7 DEF RowStep

LEMMA HeardNow ==
  ASSUME HInv, NEW m \in Module, NEW msg, Receive(m, msg), msg.from \in Tracked(m)
  PROVE  neighbors'[m][msg.from].age = 0
<1>1. neighbors' = [neighbors EXCEPT ![m] = [neighbors[m] EXCEPT ![msg.from] = Heard(@)]]
  BY DEF Receive, SetNeighbors
<1>2. neighbors'[m] = [neighbors[m] EXCEPT ![msg.from] = Heard(@)]
  BY <1>1 DEF HInv, OtherTypes
<1>3. neighbors'[m][msg.from] = Heard(neighbors[m][msg.from])
  BY <1>2 DEF Tracked
<1> QED  BY <1>3, HeardRow DEF HInv, TablesInv

\* Steps that are not about p, nor about its row at m, keep it fresh.
LEMMA FreshKept ==
  ASSUME NEW m \in Module, NEW p \in Module, Fresh(m, p),
         neighbors'[m][p].age = neighbors[m][p].age,
         since_send'[p] = since_send[p], since_tick'[p] = since_tick[p],
         \A msg \in wire : msg.from = p /\ msg.to = m => msg \in wire'
  PROVE  Fresh(m, p)'
BY DEF Fresh

(***************************************************************************)
(* The sender's own steps: a broadcast puts a heartbeat on the wire, and a *)
(* tick without one means that none was due.                               *)
(***************************************************************************)
LEMMA SentFresh ==
  ASSUME HInv, NEW m \in Module, NEW p \in Module, Fresh(m, p), timely,
         SendHeartbeat(p), <<p, m>> \in Reach,
         neighbors[m][p].age \in Nat, neighbors'[m][p].age = neighbors[m][p].age
  PROVE  Fresh(m, p)'
<1>1. wire' = wire \union Heartbeats(p)
  BY DEF SendHeartbeat
<1>2. CASE \E msg \in wire :
             msg.from = p /\ msg.to = m /\ neighbors[m][p].age <= Period - 1 + MaxGap + msg.age
  BY <1>1, <1>2 DEF Fresh
<1>3. CASE neighbors[m][p].age <= Period - 1 + since_tick[p]
  <2> DEFINE sent == [from |-> p, to |-> m, age |-> 0]
  <2>1. sent \in wire' /\ sent.from = p /\ sent.to = m /\ sent.age = 0
    BY <1>1 DEF Heartbeats
  <2>2. since_tick[p] \in 0 .. MaxGap /\ MaxGap \in Nat /\ Period \in Nat
    BY RowAssumption, HeartbeatAssumption DEF HInv, OtherTypes
  <2>3. neighbors[m][p].age <= Period - 1 + MaxGap + 0
    BY <1>3, <2>2
  <2> HIDE DEF sent
  <2> QED  BY <2>1, <2>3 DEF Fresh
<1> QED  BY <1>2, <1>3 DEF Fresh

\* A tick sends when the period is over, so it keeps every row fresh.
LEMMA TickFresh ==
  ASSUME HInv, NEW m \in Module, NEW p \in Module, Fresh(m, p), timely,
         NEW n \in Module, Tick(n), <<p, m>> \in Reach, p \in AutoBroadcast,
         neighbors[m][p].age \in Nat, neighbors'[m][p].age = neighbors[m][p].age
  PROVE  Fresh(m, p)'
<1>0. /\ since_send \in [Module -> 0 .. Period] /\ since_tick \in [Module -> 0 .. MaxGap]
      /\ Period \in Nat /\ MaxGap \in Nat
  BY RowAssumption, HeartbeatAssumption DEF HInv, OtherTypes
<1>1. since_tick' = [since_tick EXCEPT ![n] = 0]
  BY DEF Tick
<1>2. CASE n # p
  <2>1. wire \subseteq wire' /\ since_send'[p] = since_send[p]
    BY <1>0, <1>2 DEF Tick, SendHeartbeat
  <2>2. since_tick'[p] = since_tick[p]
    BY <1>0, <1>1, <1>2
  <2> QED  BY <2>1, <2>2, FreshKept
<1>3. CASE n = p /\ SendDue(n)
  BY <1>3, SentFresh DEF Tick
<1>4. CASE n = p /\ ~SendDue(n)
  <2>1. wire' = wire /\ since_send' = since_send
    BY <1>4 DEF Tick
  <2>2. since_send[p] < Period /\ since_tick'[p] = 0
    BY <1>0, <1>1, <1>4 DEF SendDue
  <2> QED  BY <1>0, <2>1, <2>2 DEF Fresh
<1> QED  BY <1>2, <1>3, <1>4

\* Time passes only as ticks and messages that are due allow.
LEMMA TimeFresh ==
  ASSUME HInv, NEW m \in running, NEW p \in running, Fresh(m, p), timely, AdvanceTime,
         neighbors[m][p].age \in Nat, neighbors'[m][p].age \in Nat,
         neighbors'[m][p].age <= neighbors[m][p].age + 1
  PROVE  Fresh(m, p)'
<1>0. /\ since_send \in [Module -> 0 .. Period] /\ since_tick \in [Module -> 0 .. MaxGap]
      /\ Period \in Nat /\ MaxGap \in Nat /\ MaxDelay \in Nat /\ running \subseteq Module
      /\ wire \subseteq Message
  BY RowAssumption, HeartbeatAssumption DEF HInv, OtherTypes
<1>1. since_tick[p] < MaxGap /\ \A msg \in wire : msg.to \in running => msg.age < MaxDelay
  BY DEF AdvanceTime, OnTime
<1>2. CASE /\ since_send[p] < Period => neighbors[m][p].age <= since_send[p]
           /\ neighbors[m][p].age <= Period - 1 + since_tick[p]
  <2>1. /\ since_send'[p] = Older(since_send[p], Period)
        /\ since_tick'[p] = Older(since_tick[p], MaxGap)
    BY <1>0 DEF AdvanceTime
  <2>2. since_tick'[p] = since_tick[p] + 1
    BY <1>0, <1>1, <2>1 DEF Older, Lesser
  <2>3. since_send'[p] < Period => since_send'[p] = since_send[p] + 1 /\ since_send[p] < Period
    BY <1>0, <2>1 DEF Older, Lesser
  <2> QED  BY <1>0, <1>2, <2>2, <2>3 DEF Fresh
<1>3. ASSUME NEW msg \in wire, msg.from = p, msg.to = m,
             neighbors[m][p].age <= Period - 1 + MaxGap + msg.age
      PROVE  Fresh(m, p)'
  <2> DEFINE older == [msg EXCEPT !.age = Older(@, MaxDelay)]
  <2>1. msg \in Message /\ msg.age \in 0 .. MaxDelay /\ msg.age < MaxDelay
    BY <1>0, <1>1, <1>3 DEF Message
  <2>2. Older(msg.age, MaxDelay) = msg.age + 1
    BY <1>0, <2>1 DEF Older, Lesser
  <2>3. older.from = p /\ older.to = m /\ older.age = msg.age + 1
    BY <1>3, <2>1, <2>2 DEF Message
  <2>4. older \in wire'
    BY <1>3 DEF AdvanceTime
  <2> HIDE DEF older
  <2>5. neighbors'[m][p].age <= Period - 1 + MaxGap + older.age
    BY <1>0, <1>3, <2>1, <2>3
  <2> QED  BY <2>3, <2>4, <2>5 DEF Fresh
<1> QED  BY <1>2, <1>3 DEF Fresh

\* Together: freshness is preserved by every step.
LEMMA FreshStep ==
  ASSUME HInv, TrustInv, FreshInv, [Next]_vars, timely, NEW m \in Module,
         NEW p \in DOMAIN neighbors'[m] \intersect trusted'[m] \intersect AutoBroadcast,
         neighbors'[m][p].health # "UNKNOWN", HInv'
  PROVE  Fresh(m, p)'
<1>1. /\ p \in Tracked(m) /\ neighbors[m][p].age \in Nat /\ neighbors'[m][p].age \in Nat
      /\ \/ neighbors'[m][p].age = 0
         \/ /\ neighbors[m][p].health # "UNKNOWN"
            /\ neighbors'[m][p].age <= neighbors[m][p].age + 1
            /\ neighbors'[m][p].age = neighbors[m][p].age \/ AdvanceTime
  BY RowAge
<1>2. m \in running' /\ p \in running' /\ p \in Module /\ <<p, m>> \in Reach
  BY <1>1, TrustStep DEF HInv, TablesInv, TableShape
<1>3. CASE neighbors'[m][p].age = 0
  <2>1. since_send'[p] \in Nat /\ since_tick'[p] \in Nat /\ Period \in Nat \ {0}
    BY <1>2, RowAssumption, HeartbeatAssumption DEF HInv, OtherTypes
  <2> QED  BY <1>3, <2>1 DEF Fresh
<1>4. CASE neighbors'[m][p].age # 0
  <2>1. p \in trusted[m] /\ Fresh(m, p) /\ m \in running /\ p \in running
    <3>1. p \in trusted[m]
      BY <1>4, TrustStep, HeardNow
    <3> QED  BY <1>1, <1>4, <3>1 DEF FreshInv, TrustInv
  <2>2. CASE AdvanceTime
    BY <1>1, <1>4, <2>1, <2>2, TimeFresh
  <2>3. CASE ~AdvanceTime
    <3>0. neighbors'[m][p].age = neighbors[m][p].age
      BY <1>1, <1>4, <2>3
    <3>1. CASE UNCHANGED vars
      BY <1>2, <2>1, <3>0, <3>1, FreshKept DEF vars
    <3>2. ASSUME NEW n \in Module, NEW q \in Module, AddNeighbor(n, q) \/ RemoveNeighbor(n, q)
          PROVE  Fresh(m, p)'
      BY <1>2, <2>1, <3>0, <3>2, FreshKept DEF AddNeighbor, RemoveNeighbor
    <3>3. ASSUME NEW n \in Module, NEW msg \in wire, Receive(n, msg)
          PROVE  Fresh(m, p)'
      <4>1. ~(msg.from = p /\ msg.to = m)
        BY <1>1, <1>4, <3>3, HeardNow DEF Receive
      <4> QED  BY <1>2, <2>1, <3>0, <3>3, <4>1, FreshKept DEF Receive
    <3>4. ASSUME NEW n \in Module, Tick(n)
          PROVE  Fresh(m, p)'
      BY <1>1, <1>2, <2>1, <3>0, <3>4, TickFresh
    <3>5. ASSUME NEW n \in Module, SendNow(n)
          PROVE  Fresh(m, p)'
      <4>1. CASE n = p
        BY <1>1, <1>2, <2>1, <3>0, <3>5, <4>1, SentFresh DEF SendNow
      <4>2. CASE n # p
        <5>1. wire \subseteq wire' /\ since_send'[p] = since_send[p] /\ since_tick' = since_tick
          BY <1>2, <3>5, <4>2 DEF SendNow, SendHeartbeat, HInv, OtherTypes
        <5> QED  BY <1>2, <2>1, <3>0, <5>1, FreshKept
      <4> QED  BY <4>1, <4>2
    <3>6. ASSUME NEW n \in Module, Crash(n)
          PROVE  Fresh(m, p)'
      BY <1>2, <2>1, <3>0, <3>6, FreshKept DEF Crash
    <3>7. ASSUME NEW n \in Module, Restart(n)
          PROVE  Fresh(m, p)'
      <4>1. n # p
        BY <2>1, <3>7 DEF Restart
      <4>2. wire' = wire /\ since_send'[p] = since_send[p] /\ since_tick'[p] = since_tick[p]
        BY <1>2, <3>7, <4>1 DEF Restart, HInv, OtherTypes
      <4> QED  BY <1>2, <2>1, <3>0, <4>2, FreshKept
    <3>8. ASSUME NEW msg \in wire, Lose(msg)
          PROVE  Fresh(m, p)'
      <4>1. msg.to # m
        BY <2>1, <3>8 DEF Lose
      <4> QED  BY <1>2, <2>1, <3>0, <3>8, <4>1, FreshKept DEF Lose
    <3> QED  BY <2>3, <3>1, <3>2, <3>3, <3>4, <3>5, <3>6, <3>7, <3>8 DEF Next
  <2> QED  BY <2>2, <2>3
<1> QED  BY <1>3, <1>4

(***************************************************************************)
(* LiveNeverDead: with timely ticks and heartbeats a module that is up,    *)
(* and was heard since it last started, is never held dead.                *)
(***************************************************************************)
LEMMA FreshIsNotDead ==
  ASSUME HInv, FreshInv PROVE LiveNeverDead
<1> SUFFICES ASSUME timely, NEW m \in Module, NEW p \in Tracked(m) \intersect trusted[m] \intersect AutoBroadcast,
                    neighbors[m][p].health = "DEAD"
             PROVE  FALSE
  BY DEF LiveNeverDead
<1>1. /\ neighbors[m][p].age >= TimeoutCount * Period /\ neighbors[m][p].age \in Nat
      /\ Fresh(m, p)
  BY NotHasty, RowAssumption DEF HInv, TablesInv, FreshInv, RowInv, Neighbor, Age
<1>2. p \in Module /\ since_tick[p] \in 0 .. MaxGap /\ wire \subseteq Message
  BY DEF HInv, TablesInv, TableShape, OtherTypes
<1>3. neighbors[m][p].age <= Period - 1 + MaxGap + MaxDelay
  <2>1. \A msg \in wire : msg.age \in 0 .. MaxDelay
    BY <1>2 DEF Message
  <2>2. Period \in Nat /\ MaxGap \in Nat /\ MaxDelay \in Nat
    BY RowAssumption, HeartbeatAssumption
  <2> QED  BY <1>1, <1>2, <2>1, <2>2 DEF Fresh
<1>4. /\ Period + MaxGap + MaxDelay <= TimeoutCount * Period
      /\ Period \in Nat /\ MaxGap \in Nat /\ MaxDelay \in Nat /\ TimeoutCount * Period \in Nat
  BY RowAssumption, HeartbeatAssumption, Product
<1> QED  BY <1>1, <1>3, <1>4

(***************************************************************************)
(* With timely ticks and messages, and Period + MaxGap + MaxDelay <=       *)
(* TimeoutCount * Period, no module that runs and broadcasts by itself is  *)
(* held dead by one that heard it since both started (the timeout of EKK_HEARTBEAT_TIMEOUT_COUNT *)
(* periods).                                                               *)
(***************************************************************************)
THEOREM LiveStaysUp == Spec => []LiveNeverDead
<1>1. Init => TrustInv /\ FreshInv
  BY DEF Init, TrustInv, FreshInv, Tracked, NoRows
<1>2. HInv /\ HInv' /\ TrustInv /\ FreshInv /\ [Next]_vars => TrustInv' /\ FreshInv'
  <2> SUFFICES ASSUME HInv, HInv', TrustInv, FreshInv, [Next]_vars
               PROVE  TrustInv' /\ FreshInv'
    OBVIOUS
  <2>1. TrustInv'
    BY TrustStep DEF TrustInv
  <2>2. timely' = timely
    BY DEF Next, vars, AddNeighbor, RemoveNeighbor, Receive, Tick, SendNow, Crash,
           Restart, Lose, AdvanceTime
  <2>3. FreshInv'
    BY <2>2, FreshStep DEF FreshInv, Tracked
  <2> QED  BY <2>1, <2>3
<1>3. HInv /\ FreshInv => LiveNeverDead
  BY FreshIsNotDead
<1>4. Spec => Init /\ [][Next]_vars
  BY DEF Spec
<1> QED  BY <1>1, <1>2, <1>3, <1>4, Invariance, PTL
=============================================================================
