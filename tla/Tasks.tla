------------------------------- MODULE Tasks -------------------------------
(***************************************************************************)
(* The tasks of a module (ekk_module.c): each tick computes the slack of   *)
(* the tasks with a deadline, selects one task and runs it to its end.     *)
(* While a task runs, its function may call any operation on tasks.        *)
(*                                                                         *)
(* The code only uses differences of times: next_run is kept as the time   *)
(* until then, and a deadline as the time left until the task must start.  *)
(* Both stop where no comparison changes any more.                         *)
(***************************************************************************)
EXTENDS Integers, Sequences

CONSTANTS
  Kinds,              \* the priorities and periods tasks are added with
  Capability,         \* bits of ekk_capability_t
  MaxTasks,           \* EKK_MAX_TASKS_PER_MODULE
  LowestPriority,     \* 0xFF
  SlackThreshold,     \* EKK_SLACK_THRESHOLD_US
  MaxLeft,            \* bound: the latest start a deadline may leave
  MaxPeriod           \* bound of the periods

ASSUME TasksAssumption ==
  /\ Kinds \subseteq [priority : 0 .. LowestPriority, period : 0 .. MaxPeriod]
  /\ MaxTasks \in Nat /\ LowestPriority \in Nat /\ MaxPeriod \in Nat
  /\ SlackThreshold \in 0 .. MaxLeft /\ MaxLeft \in Nat

VARIABLES
  tasks,              \* mod->tasks[], the task with id n at n + 1
  capabilities,       \* mod->capabilities
  active,             \* mod->active_task, as an index of tasks
  phase,              \* where in the tick
  scanned,            \* how many tasks the selection has looked at
  best,               \* the best of those
  elapsed,            \* since the tick that runs the active task
  held                \* history: blocked, and not by their own run

vars == <<tasks, capabilities, active, phase, scanned, best, elapsed, held>>

NoTask == 0
TaskIndex == 1 .. MaxTasks
TaskState == {"IDLE", "READY", "RUNNING", "BLOCKED"}
Left == -1 .. MaxLeft
Deadline == [has : BOOLEAN, left : Left, critical : BOOLEAN]
NoDeadline == [has |-> FALSE, left |-> -1, critical |-> FALSE]
Task == [state : TaskState, priority : 0 .. LowestPriority, period : 0 .. MaxPeriod,
         next_in : 0 .. MaxPeriod, required : SUBSET Capability, deadline : Deadline]

Later(a, b) == IF a >= b THEN a ELSE b
-----------------------------------------------------------------------------
(***************************************************************************)
(* ekk_module_select_task: which tasks may run, and which of two is taken. *)
(***************************************************************************)
MayRunBlocked(t) ==               \* mutant: only idle tasks are left out
  /\ t.state # "IDLE"
  /\ t.next_in = 0
  /\ t.required \subseteq capabilities
MayRun(t) ==
  /\ t.state = "READY"
  /\ t.next_in = 0
  /\ t.required \subseteq capabilities

Critical(t) == t.deadline.has /\ t.deadline.critical

BeatsEqual(t) ==            \* mutant: the last of equals
  IF Critical(t) = best.critical THEN t.priority <= best.priority ELSE Critical(t)
Beats(t) ==
  IF Critical(t) = best.critical THEN t.priority < best.priority ELSE Critical(t)

Nothing == [task |-> NoTask, priority |-> LowestPriority, critical |-> FALSE]
Found(n) == [task |-> n, priority |-> tasks[n].priority, critical |-> Critical(tasks[n])]
-----------------------------------------------------------------------------
Init ==
  /\ tasks = << >>
  /\ capabilities = {}
  /\ active = NoTask /\ phase = "idle" /\ elapsed = 0
  /\ scanned = 0 /\ best = Nothing
  /\ held = {}

(***************************************************************************)
(* What the application does, between ticks or in the function of a task.  *)
(***************************************************************************)
HasRoomLate == Len(tasks) <= MaxTasks       \* mutant: one task too many
HasRoom == Len(tasks) < MaxTasks

AddTask(kind) ==
  /\ HasRoom
  /\ tasks' = Append(tasks, [state |-> "IDLE", priority |-> kind.priority,
                             period |-> kind.period, next_in |-> 0, required |-> {},
                             deadline |-> NoDeadline])
  /\ UNCHANGED <<capabilities, active, phase, scanned, best, elapsed, held>>

TaskReady(i) ==
  /\ tasks' = [tasks EXCEPT ![i].state = "READY"]
  /\ held' = held \ {i}
  /\ UNCHANGED <<capabilities, active, phase, scanned, best, elapsed>>

TaskBlock(i) ==
  /\ tasks' = [tasks EXCEPT ![i].state = "BLOCKED"]
  /\ held' = IF i = active THEN held ELSE held \union {i}
  /\ UNCHANGED <<capabilities, active, phase, scanned, best, elapsed>>

SetTaskDeadline(i, left) ==
  /\ tasks' = [tasks EXCEPT ![i].deadline = [has |-> TRUE, left |-> left, critical |-> FALSE]]
  /\ UNCHANGED <<capabilities, active, phase, scanned, best, elapsed, held>>

ClearTaskDeadline(i) ==
  /\ tasks' = [tasks EXCEPT ![i].deadline = NoDeadline]
  /\ UNCHANGED <<capabilities, active, phase, scanned, best, elapsed, held>>

SetTaskCapabilities(i, caps) ==
  /\ tasks' = [tasks EXCEPT ![i].required = caps]
  /\ UNCHANGED <<capabilities, active, phase, scanned, best, elapsed, held>>

SetCapabilities(caps) ==
  /\ capabilities' = caps
  /\ UNCHANGED <<tasks, active, phase, scanned, best, elapsed, held>>

Call ==
  /\ phase \in {"idle", "running"}
  /\ \/ \E kind \in Kinds : AddTask(kind)
     \/ \E i \in DOMAIN tasks :
          \/ TaskReady(i) \/ TaskBlock(i)
          \/ \E left \in Left : SetTaskDeadline(i, left)
          \/ ClearTaskDeadline(i)
          \/ \E caps \in SUBSET Capability : SetTaskCapabilities(i, caps)
     \/ \E caps \in SUBSET Capability : SetCapabilities(caps)

(***************************************************************************)
(* ekk_module_tick, phase 5b: which deadlines are critical.                *)
(***************************************************************************)
ComputeSlack ==
  /\ phase = "idle"
  /\ tasks' = [i \in DOMAIN tasks |->
       IF tasks[i].deadline.has
       THEN [tasks[i] EXCEPT !.deadline.critical = tasks[i].deadline.left < SlackThreshold]
       ELSE tasks[i]]
  /\ phase' = "select"
  /\ UNCHANGED <<capabilities, active, scanned, best, elapsed, held>>

(***************************************************************************)
(* Phase 6: the tasks are looked at in turn, from no task and the lowest   *)
(* priority on; then the best begins to run.                               *)
(***************************************************************************)
Consider ==
  /\ phase = "select" /\ scanned < Len(tasks)
  /\ LET n == scanned + 1
     IN  /\ best' = IF MayRun(tasks[n]) /\ Beats(tasks[n]) THEN Found(n) ELSE best
         /\ scanned' = n
  /\ UNCHANGED <<tasks, capabilities, active, phase, elapsed, held>>

Run ==
  /\ phase = "select" /\ scanned = Len(tasks)
  /\ IF best.task = NoTask THEN phase' = "idle" /\ UNCHANGED <<tasks, active>>
     ELSE /\ tasks' = [tasks EXCEPT ![best.task].state = "RUNNING"]
          /\ active' = best.task
          /\ phase' = "running"
  /\ scanned' = 0 /\ best' = Nothing /\ elapsed' = 0
  /\ UNCHANGED <<capabilities, held>>

(***************************************************************************)
(* run_task, when the function returns: whatever state it gave its own     *)
(* task is overwritten.  A periodic task runs again a period after the     *)
(* tick, not after its end.                                                *)
(***************************************************************************)
Finish ==
  /\ phase = "running"
  /\ LET t == tasks[active]
     IN  tasks' = [tasks EXCEPT ![active] =
           IF t.period > 0
           THEN [t EXCEPT !.state = "READY", !.next_in = Later(0, t.period - elapsed)]
           ELSE [t EXCEPT !.state = "IDLE"]]
  /\ active' = NoTask /\ phase' = "idle" /\ elapsed' = 0
  /\ UNCHANGED <<capabilities, scanned, best, held>>

AdvanceTime ==
  /\ phase \in {"idle", "running"}
  /\ tasks' = [i \in DOMAIN tasks |->
       [tasks[i] EXCEPT !.next_in = Later(0, @ - 1),
                        !.deadline.left = Later(-1, @ - 1)]]
  /\ elapsed' = IF phase = "running" /\ elapsed < MaxPeriod THEN elapsed + 1 ELSE elapsed
  /\ UNCHANGED <<capabilities, active, phase, scanned, best, held>>

Next == Call \/ ComputeSlack \/ Consider \/ Run \/ Finish \/ AdvanceTime

(***************************************************************************)
(* The main loop keeps ticking, and task functions return.                 *)
(***************************************************************************)
Spec ==
  Init /\ [][Next]_vars
    /\ WF_vars(ComputeSlack) /\ WF_vars(Consider) /\ WF_vars(Run) /\ WF_vars(Finish)
-----------------------------------------------------------------------------
(***************************************************************************)
(* Every variable holds values of its type, and a task is active exactly   *)
(* while one runs.                                                         *)
(***************************************************************************)
TypeOK ==
  /\ tasks \in Seq(Task) /\ Len(tasks) <= MaxTasks
  /\ capabilities \subseteq Capability
  /\ active \in {NoTask} \union DOMAIN tasks
  /\ phase \in {"idle", "select", "running"}
  /\ active # NoTask <=> phase = "running"
  /\ scanned \in 0 .. Len(tasks) /\ (phase # "select" => scanned = 0)
  /\ best \in [task : {NoTask} \union DOMAIN tasks, priority : 0 .. LowestPriority,
               critical : BOOLEAN]
  /\ elapsed \in 0 .. MaxPeriod
  /\ held \subseteq DOMAIN tasks

(***************************************************************************)
(* A tick runs the task that ranks first of all that are ready, due and    *)
(* able to run, by what is left until the deadlines at this very tick: the *)
(* urgent ones before the others, then by priority, then by id.  It runs   *)
(* none only if there is none, or only tasks of the lowest priority that   *)
(* are not urgent, which never run.                                        *)
(***************************************************************************)
Urgent(t) == t.deadline.has /\ t.deadline.left < SlackThreshold
Runnable == {i \in DOMAIN tasks : MayRun(tasks[i])}
RanksBefore(i, j) ==
  LET t == tasks[i]  u == tasks[j]
  IN  \/ Urgent(t) /\ ~Urgent(u)
      \/ (Urgent(t) <=> Urgent(u)) /\ (t.priority < u.priority \/ (t.priority = u.priority /\ i < j))
Ignored(i) == ~Urgent(tasks[i]) /\ tasks[i].priority = LowestPriority

RunsTheBest ==
  [][phase = "select" /\ phase' # "select" =>
       IF active' = NoTask THEN \A i \in Runnable : Ignored(i)
       ELSE /\ active' \in Runnable
            /\ \A i \in Runnable \ {active'} : RanksBefore(active', i)]_vars

(***************************************************************************)
(* A task that was blocked, but not in its own run, stays blocked until it *)
(* is made ready, although what it is doing meanwhile - nothing - looks to *)
(* run_task like any other task.                                           *)
(***************************************************************************)
BlockHolds == \A i \in held : tasks[i].state = "BLOCKED"
=============================================================================
