---------------------------- MODULE TasksProofs ----------------------------
(***************************************************************************)
(* Proofs about Tasks, for any number of tasks, any priorities, periods    *)
(* and deadlines: the scan selects the task that ranks first, and a block  *)
(* holds.                                                                  *)
(***************************************************************************)
EXTENDS Tasks, SequenceTheorems, TLAPS

(***************************************************************************)
(* The invariant: within the selection, critical flags are those of this   *)
(* tick, and the best task ranks before all others that were looked at.    *)
(* The active task is not a held one, or its end would overwrite the block. *)
(***************************************************************************)
Fresh == \A i \in DOMAIN tasks : Critical(tasks[i]) <=> Urgent(tasks[i])

Seen == Runnable \intersect (1 .. scanned)

BestOfSeen ==
  IF best.task = NoTask
  THEN best = Nothing /\ \A i \in Seen : Ignored(i)
  ELSE /\ best.task \in Seen /\ ~Ignored(best.task)
       /\ best = Found(best.task)
       /\ \A i \in Seen \ {best.task} : RanksBefore(best.task, i)

Selecting ==
  IF phase = "select" THEN Fresh /\ BestOfSeen ELSE best = Nothing /\ scanned = 0

Inv == TypeOK /\ Selecting /\ BlockHolds /\ active \notin held

(***************************************************************************)
(* Sequences of tasks keep their length when entries change.               *)
(***************************************************************************)
LEMMA SameDomain ==
  ASSUME NEW S, NEW s \in Seq(S), NEW f \in [DOMAIN s -> S]
  PROVE  f \in Seq(S) /\ Len(f) = Len(s) /\ DOMAIN f = DOMAIN s
<1>1. Len(s) \in Nat /\ DOMAIN s = 1 .. Len(s)
  BY LenProperties
<1>2. f \in [1 .. Len(s) -> S]
  BY <1>1
<1>3. f \in Seq(S)
  BY <1>1, <1>2, SeqDef
<1>4. Len(f) \in Nat /\ DOMAIN f = 1 .. Len(f)
  BY <1>3, LenProperties
<1> QED
  BY <1>1, <1>2, <1>3, <1>4

LEMMA Replaced ==
  ASSUME NEW S, NEW s \in Seq(S), NEW i \in DOMAIN s, NEW t \in S
  PROVE  /\ [s EXCEPT ![i] = t] \in Seq(S)
         /\ Len([s EXCEPT ![i] = t]) = Len(s)
         /\ DOMAIN [s EXCEPT ![i] = t] = DOMAIN s
<1>1. s \in [DOMAIN s -> S]
  BY LenProperties
<1>2. [s EXCEPT ![i] = t] \in [DOMAIN s -> S]
  BY <1>1
<1> QED
  BY <1>2, SameDomain

(***************************************************************************)
(* Every step keeps the types.                                             *)
(***************************************************************************)
Rest == <<capabilities, active, phase, scanned, best, elapsed>>

LEMMA InitTypes == Init => TypeOK
<1> SUFFICES ASSUME Init PROVE TypeOK
  OBVIOUS
<1>1. tasks \in Seq(Task) /\ Len(tasks) = 0 /\ DOMAIN tasks = {}
  BY EmptySeq DEF Init
<1> QED
  BY <1>1, TasksAssumption DEF Init, TypeOK, Nothing, NoTask

LEMMA TaskTypes ==
  ASSUME TypeOK
  PROVE  /\ Len(tasks) \in Nat
         /\ DOMAIN tasks = 1 .. Len(tasks)
         /\ \A i \in DOMAIN tasks : tasks[i] \in Task
BY LenProperties DEF TypeOK

LEMMA ChangedTypes ==
  ASSUME TypeOK, NEW i \in DOMAIN tasks, NEW t \in Task,
         tasks' = [tasks EXCEPT ![i] = t],
         held' \subseteq DOMAIN tasks, UNCHANGED Rest
  PROVE  TypeOK'
<1>1. tasks' \in Seq(Task) /\ Len(tasks') = Len(tasks) /\ DOMAIN tasks' = DOMAIN tasks
  BY Replaced DEF TypeOK
<1> QED
  BY <1>1 DEF TypeOK, Rest

LEMMA CallTypes ==
  ASSUME TypeOK, Call
  PROVE  TypeOK'
<1> USE TaskTypes
<1>1. ASSUME NEW kind \in Kinds, AddTask(kind)
      PROVE  TypeOK'
  <2> DEFINE t == [state |-> "IDLE", priority |-> kind.priority, period |-> kind.period,
                   next_in |-> 0, required |-> {}, deadline |-> NoDeadline]
  <2>1. t \in Task
    BY TasksAssumption DEF Task, TaskState, Deadline, NoDeadline, Left
  <2> HIDE DEF t
  <2>2. tasks' = Append(tasks, t) /\ Len(tasks) < MaxTasks
    BY <1>1 DEF AddTask, HasRoom, t
  <2>3. /\ tasks' \in Seq(Task) /\ Len(tasks') = Len(tasks) + 1
        /\ DOMAIN tasks \subseteq DOMAIN tasks'
    BY <2>1, <2>2 DEF TypeOK
  <2>4. Len(tasks') <= MaxTasks
    BY <2>2, <2>3, TasksAssumption
  <2>5. UNCHANGED <<capabilities, active, phase, scanned, best, elapsed, held>>
    BY <1>1 DEF AddTask
  <2>6. scanned \in 0 .. Len(tasks')
    BY <2>3 DEF TypeOK
  <2> QED
    BY <2>3, <2>4, <2>5, <2>6 DEF TypeOK
<1>2. ASSUME NEW i \in DOMAIN tasks, TaskReady(i)
      PROVE  TypeOK'
  <2>1. [tasks[i] EXCEPT !.state = "READY"] \in Task
    BY DEF Task, TaskState
  <2>2. held' \subseteq DOMAIN tasks
    BY <1>2 DEF TaskReady, TypeOK
  <2> QED
    BY <1>2, <2>1, <2>2, ChangedTypes DEF TaskReady, Rest
<1>3. ASSUME NEW i \in DOMAIN tasks, TaskBlock(i)
      PROVE  TypeOK'
  <2>1. [tasks[i] EXCEPT !.state = "BLOCKED"] \in Task
    BY DEF Task, TaskState
  <2>2. held' \subseteq DOMAIN tasks
    BY <1>3 DEF TaskBlock, TypeOK
  <2> QED
    BY <1>3, <2>1, <2>2, ChangedTypes DEF TaskBlock, Rest
<1>4. ASSUME NEW i \in DOMAIN tasks, NEW left \in Left, SetTaskDeadline(i, left)
      PROVE  TypeOK'
  <2>1. [tasks[i] EXCEPT !.deadline = [has |-> TRUE, left |-> left, critical |-> FALSE]] \in Task
    BY DEF Task, Deadline
  <2>2. held' \subseteq DOMAIN tasks
    BY <1>4 DEF SetTaskDeadline, TypeOK
  <2> QED
    BY <1>4, <2>1, <2>2, ChangedTypes DEF SetTaskDeadline, Rest
<1>5. ASSUME NEW i \in DOMAIN tasks, ClearTaskDeadline(i)
      PROVE  TypeOK'
  <2>1. [tasks[i] EXCEPT !.deadline = NoDeadline] \in Task
    <3>1. NoDeadline \in Deadline
      BY TasksAssumption DEF Deadline, NoDeadline, Left
    <3> QED
      BY <3>1 DEF Task
  <2>2. held' \subseteq DOMAIN tasks
    BY <1>5 DEF ClearTaskDeadline, TypeOK
  <2> QED
    BY <1>5, <2>1, <2>2, ChangedTypes DEF ClearTaskDeadline, Rest
<1>6. ASSUME NEW i \in DOMAIN tasks, NEW caps \in SUBSET Capability,
             SetTaskCapabilities(i, caps)
      PROVE  TypeOK'
  <2>1. [tasks[i] EXCEPT !.required = caps] \in Task
    BY DEF Task
  <2>2. held' \subseteq DOMAIN tasks
    BY <1>6 DEF SetTaskCapabilities, TypeOK
  <2> QED
    BY <1>6, <2>1, <2>2, ChangedTypes DEF SetTaskCapabilities, Rest
<1>7. ASSUME NEW caps \in SUBSET Capability, SetCapabilities(caps)
      PROVE  TypeOK'
  BY <1>7 DEF SetCapabilities, TypeOK
<1> QED
  BY <1>1, <1>2, <1>3, <1>4, <1>5, <1>6, <1>7 DEF Call

LEMMA TickTypes ==
  ASSUME TypeOK, ComputeSlack \/ Consider \/ Run \/ Finish \/ AdvanceTime
  PROVE  TypeOK'
<1> USE TaskTypes, TasksAssumption
<1>1. CASE ComputeSlack
  <2>1. tasks' \in [DOMAIN tasks -> Task]
    <3>1. \A i \in DOMAIN tasks :
            [tasks[i] EXCEPT !.deadline.critical = tasks[i].deadline.left < SlackThreshold] \in Task
      <4> SUFFICES ASSUME NEW i \in DOMAIN tasks
                   PROVE  [tasks[i] EXCEPT !.deadline.critical =
                             tasks[i].deadline.left < SlackThreshold] \in Task
        OBVIOUS
      <4>1. [tasks[i].deadline EXCEPT !.critical = tasks[i].deadline.left < SlackThreshold]
              \in Deadline
        <5> DEFINE c == tasks[i].deadline.left < SlackThreshold
        <5>1. tasks[i].deadline \in Deadline /\ c \in BOOLEAN
          BY DEF Task
        <5> HIDE DEF c
        <5>2. [tasks[i].deadline EXCEPT !.critical = c] \in Deadline
          BY <5>1 DEF Deadline
        <5> QED
          BY <5>2 DEF c
      <4> QED
        BY <4>1 DEF Task
    <3> QED
      BY <1>1, <3>1 DEF ComputeSlack
  <2>2. tasks' \in Seq(Task) /\ Len(tasks') = Len(tasks) /\ DOMAIN tasks' = DOMAIN tasks
    BY <2>1, SameDomain DEF TypeOK
  <2> QED
    BY <1>1, <2>2 DEF ComputeSlack, TypeOK
<1>2. CASE Consider
  <2>1. scanned + 1 \in DOMAIN tasks
    BY <1>2 DEF Consider, TypeOK
  <2>2. Found(scanned + 1) \in [task : {NoTask} \union DOMAIN tasks,
                                priority : 0 .. LowestPriority, critical : BOOLEAN]
    BY <2>1 DEF Found, Critical, Task, Deadline
  <2> QED
    BY <1>2, <2>1, <2>2 DEF Consider, TypeOK
<1>3. CASE Run
  <2>1. CASE best.task = NoTask
    BY <1>3, <2>1 DEF Run, TypeOK, Nothing, NoTask
  <2>2. CASE best.task # NoTask
    <3>1. best.task \in DOMAIN tasks
      BY <2>2 DEF TypeOK
    <3>2. [tasks[best.task] EXCEPT !.state = "RUNNING"] \in Task
      BY <3>1 DEF Task, TaskState
    <3>3. tasks' = [tasks EXCEPT ![best.task] = [tasks[best.task] EXCEPT !.state = "RUNNING"]]
      BY <1>3, <2>2, <3>1 DEF Run
    <3>4. tasks' \in Seq(Task) /\ Len(tasks') = Len(tasks) /\ DOMAIN tasks' = DOMAIN tasks
      BY <3>1, <3>2, <3>3, Replaced DEF TypeOK
    <3> QED
      BY <1>3, <2>2, <3>1, <3>4 DEF Run, TypeOK, Nothing, NoTask
  <2> QED
    BY <2>1, <2>2
<1>4. CASE Finish
  <2>1. active \in DOMAIN tasks
    BY <1>4 DEF Finish, TypeOK
  <2> DEFINE t == tasks[active]
             u == IF t.period > 0
                  THEN [t EXCEPT !.state = "READY", !.next_in = Later(0, t.period - elapsed)]
                  ELSE [t EXCEPT !.state = "IDLE"]
  <2>2. t \in Task
    BY <2>1
  <2>3. Later(0, t.period - elapsed) \in 0 .. MaxPeriod
    <3>1. t.period \in 0 .. MaxPeriod /\ elapsed \in 0 .. MaxPeriod /\ MaxPeriod \in Nat
      BY <2>2 DEF TypeOK, Task
    <3> HIDE DEF t
    <3> QED
      BY <3>1 DEF Later
  <2>4. u \in Task
    BY <2>2, <2>3 DEF Task, TaskState
  <2>5. tasks' = [tasks EXCEPT ![active] = u]
    BY <1>4 DEF Finish
  <2> HIDE DEF t, u
  <2>6. tasks' \in Seq(Task) /\ Len(tasks') = Len(tasks) /\ DOMAIN tasks' = DOMAIN tasks
    BY <2>1, <2>4, <2>5, Replaced DEF TypeOK
  <2> QED
    BY <1>4, <2>6 DEF Finish, TypeOK, NoTask
<1>5. CASE AdvanceTime
  <2>1. ASSUME NEW i \in DOMAIN tasks
        PROVE  [tasks[i] EXCEPT !.next_in = Later(0, @ - 1),
                                !.deadline.left = Later(-1, @ - 1)] \in Task
    <3>1. tasks[i].next_in \in 0 .. MaxPeriod /\ tasks[i].deadline \in Deadline
      BY DEF Task
    <3>2. Later(0, tasks[i].next_in - 1) \in 0 .. MaxPeriod
      BY <3>1 DEF Later
    <3>3. tasks[i].deadline.left \in Left
      BY <3>1 DEF Deadline
    <3>4. Later(-1, tasks[i].deadline.left - 1) \in Left
      BY <3>3 DEF Later, Left
    <3>5. [tasks[i].deadline EXCEPT !.left = Later(-1, tasks[i].deadline.left - 1)] \in Deadline
      BY <3>1, <3>4 DEF Deadline
    <3> QED
      BY <3>2, <3>5 DEF Task
  <2>2. tasks' \in [DOMAIN tasks -> Task]
    BY <1>5, <2>1 DEF AdvanceTime
  <2>3. tasks' \in Seq(Task) /\ Len(tasks') = Len(tasks) /\ DOMAIN tasks' = DOMAIN tasks
    BY <2>2, SameDomain DEF TypeOK
  <2>4. elapsed' \in 0 .. MaxPeriod
    <3>1. elapsed \in 0 .. MaxPeriod
      BY DEF TypeOK
    <3>2. elapsed' = elapsed \/ (elapsed < MaxPeriod /\ elapsed' = elapsed + 1)
      BY <1>5 DEF AdvanceTime
    <3> QED
      BY <3>1, <3>2
  <2>5. UNCHANGED <<capabilities, active, phase, scanned, best, held>>
    BY <1>5 DEF AdvanceTime
  <2> QED
    BY <2>3, <2>4, <2>5 DEF TypeOK
<1> QED
  BY <1>1, <1>2, <1>3, <1>4, <1>5

(***************************************************************************)
(* The order of tasks that the selection respects.                         *)
(***************************************************************************)
LEMMA RankTransitive ==
  ASSUME TypeOK, NEW i \in DOMAIN tasks, NEW j \in DOMAIN tasks, NEW k \in DOMAIN tasks,
         RanksBefore(i, j), RanksBefore(j, k)
  PROVE  RanksBefore(i, k)
<1>1. /\ i \in Nat /\ j \in Nat /\ k \in Nat
      /\ tasks[i].priority \in Nat /\ tasks[j].priority \in Nat /\ tasks[k].priority \in Nat
  BY TaskTypes, TasksAssumption DEF Task
<1>2. /\ Urgent(tasks[i]) \in BOOLEAN /\ Urgent(tasks[j]) \in BOOLEAN
      /\ Urgent(tasks[k]) \in BOOLEAN
  BY DEF Urgent
<1> QED
  BY <1>1, <1>2 DEF RanksBefore

(***************************************************************************)
(* One more task looked at.                                                *)
(***************************************************************************)
LEMMA ConsiderSelects ==
  ASSUME Inv, Consider
  PROVE  Selecting'
<1> DEFINE n == scanned + 1
           t == tasks[n]
<1>1. /\ phase = "select" /\ phase' = "select" /\ tasks' = tasks /\ capabilities' = capabilities
      /\ scanned' = n /\ n \in DOMAIN tasks /\ scanned \in Nat
      /\ best' = IF MayRun(t) /\ Beats(t) THEN Found(n) ELSE best
  BY TaskTypes DEF Inv, TypeOK, Consider
<1>2. Fresh /\ BestOfSeen
  BY <1>1 DEF Inv, Selecting
<1>3. Fresh'
  BY <1>1, <1>2 DEF Fresh, Critical, Urgent
<1>4. /\ Runnable' = Runnable
      /\ \A i : Ignored(i)' <=> Ignored(i)
      /\ \A i, j : RanksBefore(i, j)' <=> RanksBefore(i, j)
      /\ \A i : Found(i)' = Found(i)
  BY <1>1 DEF Runnable, MayRun, Ignored, RanksBefore, Urgent, Found, Critical
<1>5. Seen' = IF MayRun(t) THEN Seen \union {n} ELSE Seen
  BY <1>1, <1>4 DEF Seen, Runnable
<1>6. /\ n \notin Seen /\ Seen \subseteq DOMAIN tasks
      /\ \A i \in Seen : i \in Nat /\ i < n
  BY <1>1, TaskTypes DEF Inv, Seen, Runnable
<1>7. /\ Critical(t) <=> Urgent(t)
      /\ t.priority \in 0 .. LowestPriority /\ t.deadline.critical \in BOOLEAN
      /\ t.deadline.has \in BOOLEAN
  BY <1>1, <1>2, TaskTypes DEF Fresh, Inv, Task, Deadline
<1> HIDE DEF t, n
<1>8. BestOfSeen'
  <2>1. CASE ~MayRun(t)
    BY <1>1, <1>2, <1>4, <1>5, <2>1 DEF BestOfSeen, Nothing
  <2>2. CASE MayRun(t) /\ ~Beats(t)
    <3>1. best' = best /\ Seen' = Seen \union {n}
      BY <1>1, <1>5, <2>2
    <3>2. CASE best.task = NoTask
      <4>1. best = Nothing /\ \A i \in Seen : Ignored(i)
        BY <1>2, <3>2 DEF BestOfSeen
      <4>5. /\ best.critical = FALSE /\ best.priority = LowestPriority
            /\ Critical(t) \in BOOLEAN
        BY <1>7, <4>1 DEF Nothing, Critical
      <4>2. ~Critical(t) /\ t.priority = LowestPriority
        <5>1. Critical(t) = FALSE
          BY <2>2, <4>5 DEF Beats
        <5>2. ~(t.priority < best.priority)
          BY <2>2, <4>5, <5>1 DEF Beats
        <5> QED
          BY <1>7, <4>5, <5>1, <5>2, TasksAssumption
      <4>3. Ignored(n)
        BY <1>7, <4>2 DEF Ignored, t
      <4> QED
        BY <1>4, <3>1, <3>2, <4>1, <4>3 DEF BestOfSeen, Nothing
    <3>3. CASE best.task # NoTask
      <4> DEFINE b == best.task
      <4>1. /\ b \in Seen /\ ~Ignored(b) /\ best = Found(b)
            /\ \A i \in Seen \ {b} : RanksBefore(b, i)
        BY <1>2, <3>3 DEF BestOfSeen
      <4>2. /\ Critical(tasks[b]) <=> Urgent(tasks[b])
            /\ tasks[b].priority \in 0 .. LowestPriority /\ b < n
            /\ best.priority = tasks[b].priority /\ best.critical = Critical(tasks[b])
            /\ Critical(tasks[b]) \in BOOLEAN /\ Critical(t) \in BOOLEAN
        BY <1>2, <1>6, <4>1, TaskTypes DEF Fresh, Inv, Task, Found, Critical
      <4> HIDE DEF b
      <4>3. RanksBefore(b, n)
        BY <1>7, <2>2, <4>2, TasksAssumption DEF Beats, RanksBefore, t
      <4> QED
        BY <1>4, <3>1, <3>3, <4>1, <4>3 DEF BestOfSeen, b
    <3> QED
      BY <3>2, <3>3
  <2>3. CASE MayRun(t) /\ Beats(t)
    <3>1. /\ best' = Found(n) /\ Seen' = Seen \union {n}
          /\ best'.task = n /\ n # NoTask
      BY <1>1, <1>5, <2>3 DEF Found, NoTask, n
    <3>2. ~Ignored(n) /\ \A i \in Seen : RanksBefore(n, i)
      <4>1. CASE best.task = NoTask
        <5>1. best = Nothing /\ \A i \in Seen : Ignored(i)
          BY <1>2, <4>1 DEF BestOfSeen
        <5>2. Urgent(t) \/ t.priority < LowestPriority
          BY <1>7, <2>3, <5>1 DEF Beats, Nothing
        <5>3. ~Ignored(n)
          BY <1>7, <5>2, TasksAssumption DEF Ignored, t
        <5>4. ASSUME NEW i \in Seen PROVE RanksBefore(n, i)
          <6>1. ~Urgent(tasks[i]) /\ tasks[i].priority = LowestPriority
            BY <5>1 DEF Ignored
          <6> QED
            BY <5>2, <6>1 DEF RanksBefore, t
        <5> QED
          BY <5>3, <5>4
      <4>2. CASE best.task # NoTask
        <5> DEFINE b == best.task
        <5>1. /\ b \in Seen /\ ~Ignored(b) /\ best = Found(b)
              /\ \A i \in Seen \ {b} : RanksBefore(b, i)
          BY <1>2, <4>2 DEF BestOfSeen
        <5>2. /\ Critical(tasks[b]) <=> Urgent(tasks[b])
              /\ tasks[b].priority \in 0 .. LowestPriority
              /\ best.priority = tasks[b].priority /\ best.critical = Critical(tasks[b])
              /\ Critical(tasks[b]) \in BOOLEAN /\ Critical(t) \in BOOLEAN
          BY <1>2, <1>6, <5>1, TaskTypes DEF Fresh, Inv, Task, Found, Critical
        <5> HIDE DEF b
        <5>3. /\ Urgent(t) \in BOOLEAN /\ Urgent(tasks[b]) \in BOOLEAN
              /\ \/ Urgent(t) /\ ~Urgent(tasks[b])
                 \/ (Urgent(t) <=> Urgent(tasks[b])) /\ t.priority < tasks[b].priority
          BY <1>7, <2>3, <5>2 DEF Beats, Urgent
        <5>4. RanksBefore(n, b)
          BY <5>3 DEF RanksBefore, t
        <5>5. ~Ignored(n)
          BY <1>7, <5>1, <5>2, <5>3, TasksAssumption DEF Ignored, t
        <5>6. ASSUME NEW i \in Seen PROVE RanksBefore(n, i)
          <6>1. TypeOK /\ n \in DOMAIN tasks /\ b \in DOMAIN tasks /\ i \in DOMAIN tasks
            BY <1>1, <1>6, <5>1 DEF Inv
          <6> QED
            BY <5>1, <5>4, <6>1, RankTransitive
        <5> QED
          BY <5>5, <5>6
      <4> QED
        BY <4>1, <4>2
    <3>3. \A i \in Seen' \ {n} : RanksBefore(n, i)
      BY <3>1, <3>2
    <3> QED
      BY <1>4, <3>1, <3>2, <3>3 DEF BestOfSeen
  <2> QED
    BY <2>1, <2>2, <2>3
<1> QED
  BY <1>1, <1>3, <1>8 DEF Selecting

(***************************************************************************)
(* The whole invariant is inductive.                                       *)
(***************************************************************************)
LEMMA InitInv == Init => Inv
<1> SUFFICES ASSUME Init PROVE Inv
  OBVIOUS
<1>1. TypeOK
  BY InitTypes
<1> QED
  BY <1>1 DEF Init, Inv, Selecting, BlockHolds

\* No step readies a task that is held.
LEMMA BlockStep ==
  ASSUME Inv, Next
  PROVE  BlockHolds' /\ active' \notin held'
<1> USE TaskTypes DEF Inv
<1>1. /\ held \subseteq DOMAIN tasks /\ BlockHolds /\ active \notin held
      /\ NoTask \notin DOMAIN tasks
  BY DEF TypeOK, NoTask
<1>2. CASE Call
  <2>1. ASSUME NEW kind \in Kinds, AddTask(kind)
        PROVE  BlockHolds' /\ active' \notin held'
    <3>1. /\ held' = held /\ active' = active
          /\ \A i \in DOMAIN tasks : tasks'[i] = tasks[i]
      BY <2>1 DEF AddTask, TypeOK
    <3> QED
      BY <1>1, <3>1 DEF BlockHolds
  <2>2. ASSUME NEW i \in DOMAIN tasks,
               \/ TaskReady(i) \/ TaskBlock(i)
               \/ \E left \in Left : SetTaskDeadline(i, left)
               \/ ClearTaskDeadline(i)
               \/ \E caps \in SUBSET Capability : SetTaskCapabilities(i, caps)
        PROVE  BlockHolds' /\ active' \notin held'
    <3>1. CASE TaskReady(i)
      BY <1>1, <3>1 DEF TaskReady, BlockHolds
    <3>2. CASE TaskBlock(i)
      BY <1>1, <3>2 DEF TaskBlock, BlockHolds
    <3>3. CASE \E left \in Left : SetTaskDeadline(i, left)
      BY <1>1, <3>3 DEF SetTaskDeadline, BlockHolds, Task
    <3>4. CASE ClearTaskDeadline(i)
      BY <1>1, <3>4 DEF ClearTaskDeadline, BlockHolds, Task
    <3>5. CASE \E caps \in SUBSET Capability : SetTaskCapabilities(i, caps)
      BY <1>1, <3>5 DEF SetTaskCapabilities, BlockHolds, Task
    <3> QED
      BY <2>2, <3>1, <3>2, <3>3, <3>4, <3>5
  <2>3. ASSUME NEW caps \in SUBSET Capability, SetCapabilities(caps)
        PROVE  BlockHolds' /\ active' \notin held'
    BY <1>1, <2>3 DEF SetCapabilities, BlockHolds
  <2> QED
    BY <1>2, <2>1, <2>2, <2>3 DEF Call
<1>3. CASE ComputeSlack
  BY <1>1, <1>3 DEF ComputeSlack, BlockHolds, Task
<1>4. CASE Consider
  BY <1>1, <1>4 DEF Consider, BlockHolds
<1>5. CASE Run
  <2>1. CASE best.task = NoTask
    BY <1>1, <1>5, <2>1 DEF Run, BlockHolds
  <2>2. CASE best.task # NoTask
    <3>1. best.task \in DOMAIN tasks /\ tasks[best.task].state = "READY"
      BY <1>5, <2>2 DEF Run, Selecting, BestOfSeen, Seen, Runnable, MayRun
    <3>2. best.task \notin held
      BY <1>1, <3>1 DEF BlockHolds
    <3> QED
      BY <1>1, <1>5, <2>2, <3>2 DEF Run, BlockHolds
  <2> QED
    BY <2>1, <2>2
<1>6. CASE Finish
  <2>1. /\ held' = held /\ active' = NoTask
        /\ \A i \in DOMAIN tasks \ {active} : tasks'[i] = tasks[i]
    BY <1>6 DEF Finish
  <2> QED
    BY <1>1, <2>1 DEF BlockHolds
<1>7. CASE AdvanceTime
  BY <1>1, <1>7 DEF AdvanceTime, BlockHolds, Task
<1> QED
  BY <1>2, <1>3, <1>4, <1>5, <1>6, <1>7 DEF Next

\* The candidate of the scan is the first in rank of the tasks looked at.
LEMMA SelectingStep ==
  ASSUME Inv, Next
  PROVE  Selecting'
<1> USE TaskTypes DEF Inv
<1>1. CASE Call \/ AdvanceTime
  <2>1. phase # "select" /\ phase' = phase /\ best' = best /\ scanned' = scanned
    BY <1>1 DEF Call, AddTask, TaskReady, TaskBlock, SetTaskDeadline, ClearTaskDeadline,
                SetTaskCapabilities, SetCapabilities, AdvanceTime
  <2> QED
    BY <2>1 DEF Selecting
<1>2. CASE ComputeSlack
  <2>1. /\ phase' = "select" /\ best' = Nothing /\ scanned' = 0 /\ DOMAIN tasks' = DOMAIN tasks
    BY <1>2 DEF ComputeSlack, Selecting
  <2>2. Fresh'
    <3> SUFFICES ASSUME NEW i \in DOMAIN tasks
                 PROVE  Critical(tasks'[i]) <=> Urgent(tasks'[i])
      BY <2>1 DEF Fresh, Critical, Urgent
    <3>1. tasks'[i] = IF tasks[i].deadline.has
                      THEN [tasks[i] EXCEPT !.deadline.critical =
                              tasks[i].deadline.left < SlackThreshold]
                      ELSE tasks[i]
      BY <1>2 DEF ComputeSlack
    <3>2. CASE tasks[i].deadline.has
      <4> DEFINE c == tasks[i].deadline.left < SlackThreshold
      <4>1. tasks[i].deadline \in Deadline /\ c \in BOOLEAN
        BY DEF Task
      <4>2. tasks'[i].deadline = [tasks[i].deadline EXCEPT !.critical = c]
        BY <3>1, <3>2 DEF Task
      <4> HIDE DEF c
      <4>3. /\ tasks'[i].deadline.has = tasks[i].deadline.has
            /\ tasks'[i].deadline.left = tasks[i].deadline.left
            /\ tasks'[i].deadline.critical = c
        BY <4>1, <4>2 DEF Deadline
      <4> QED
        BY <4>1, <4>3 DEF Critical, Urgent, c
    <3>3. CASE ~tasks[i].deadline.has
      BY <3>1, <3>3 DEF Critical, Urgent
    <3> QED
      BY <3>2, <3>3
  <2>3. Seen' = {}
    BY <2>1 DEF Seen
  <2>4. BestOfSeen'
    BY <2>1, <2>3 DEF BestOfSeen, Nothing
  <2> QED
    BY <2>1, <2>2, <2>4 DEF Selecting
<1>3. CASE Consider
  BY <1>3, ConsiderSelects
<1>4. CASE Run
  BY <1>4 DEF Run, Selecting
<1>5. CASE Finish
  BY <1>5 DEF Finish, Selecting
<1> QED
  BY <1>1, <1>2, <1>3, <1>4, <1>5 DEF Next

LEMMA InvStep == Inv /\ [Next]_vars => Inv'
<1> SUFFICES ASSUME Inv, [Next]_vars PROVE Inv'
  OBVIOUS
<1>1. CASE Next
  <2>1. TypeOK'
    BY <1>1, CallTypes, TickTypes DEF Inv, Next
  <2> QED
    BY <1>1, <2>1, BlockStep, SelectingStep DEF Inv
<1>2. CASE UNCHANGED vars
  BY <1>2 DEF vars, Inv, TypeOK, Selecting, Fresh, BestOfSeen, Seen, Runnable, MayRun, Ignored,
              RanksBefore, Urgent, Critical, Found, BlockHolds
<1> QED
  BY <1>1, <1>2

(***************************************************************************)
(* The invariant holds in every state, whatever the functions of the tasks *)
(* call in their runs (ekk_module_tick, run_task).                         *)
(***************************************************************************)
THEOREM Invariance == Spec => []Inv
BY InitInv, InvStep, PTL DEF Spec

(***************************************************************************)
(* Every variable holds values of its type, and a task is active exactly   *)
(* while one runs.                                                         *)
(***************************************************************************)
THEOREM TypeCorrect == Spec => []TypeOK
<1>1. Inv => TypeOK
  BY DEF Inv
<1> QED
  BY <1>1, Invariance, PTL

(***************************************************************************)
(* A task that was blocked, but not in its own run, stays blocked.         *)
(***************************************************************************)
THEOREM BlocksHold == Spec => []BlockHolds
<1>1. Inv => BlockHolds
  BY DEF Inv
<1> QED
  BY <1>1, Invariance, PTL

(***************************************************************************)
(* The scan of a tick ends with the task that ranks before all others that *)
(* may run.                                                                *)
(***************************************************************************)
Chooses ==
  phase = "select" /\ phase' # "select" =>
    IF active' = NoTask THEN \A i \in Runnable : Ignored(i)
    ELSE /\ active' \in Runnable
         /\ \A i \in Runnable \ {active'} : RanksBefore(active', i)

\* At the end of the scan that is the first of all.
LEMMA RunChooses == Inv /\ [Next]_vars => [Chooses]_vars
<1> SUFFICES ASSUME Inv, Next, phase = "select", phase' # "select" PROVE Chooses
  BY DEF Chooses
<1>1. Run
  BY DEF Next, Call, ComputeSlack, Consider, Finish, AdvanceTime
<1>2. scanned = Len(tasks) /\ BestOfSeen /\ TypeOK
  BY <1>1 DEF Run, Inv, Selecting
<1>3. Seen = Runnable
  BY <1>2, TaskTypes DEF Seen, Runnable
<1>4. CASE best.task = NoTask
  <2>1. active' = NoTask
    BY <1>1, <1>2, <1>4 DEF Run, TypeOK
  <2> QED
    BY <1>2, <1>3, <1>4, <2>1 DEF BestOfSeen, Chooses
<1>5. CASE best.task # NoTask
  <2>1. active' = best.task
    BY <1>1, <1>5 DEF Run
  <2> QED
    BY <1>2, <1>3, <1>5, <2>1 DEF BestOfSeen, Chooses
<1> QED
  BY <1>4, <1>5

(***************************************************************************)
(* Whenever a task begins to run, no task that may run ranks before it     *)
(* (ekk_module_select_task): the scan in one pass misses none.             *)
(***************************************************************************)
THEOREM BestRuns == Spec => RunsTheBest
<1>1. RunsTheBest <=> [][Chooses]_vars
  BY DEF RunsTheBest, Chooses
<1> QED
  BY <1>1, Invariance, RunChooses, PTL DEF Spec
=============================================================================
