------------------------------- MODULE Tasks -------------------------------
(***************************************************************************)
(* The tasks of kernel/task.c and the timer interrupt of drivers/timer.c   *)
(* that wakes sleepers.                                                    *)
(*                                                                         *)
(* Two actors share the task list: the kernel's one flow of control, which *)
(* calls the operations of task.c, and timer_handler, which may run        *)
(* between any two of its steps.  The scan of task_schedule is therefore   *)
(* one step per task, and two for a sleeper: the compiled loop loads       *)
(* sleep_ticks, and stores the decremented value later.  The other         *)
(* operations touch nothing timer_handler does not leave alone, and are    *)
(* atomic.                                                                 *)
(*                                                                         *)
(* Tasks are named by their pid.  They are only ever put at the head of    *)
(* the list and never leave it, so the list is the pids in descending      *)
(* order.  task_switch_context changes no stack and no program counter:    *)
(* the flow goes on in the caller of task_schedule, with another           *)
(* current_task.  Context, stack, page directory, parent and exit code are *)
(* not read back by any operation and are left out.                        *)
(***************************************************************************)
EXTENDS Integers

CONSTANTS
  MaxTasks,        \* bound: the code creates tasks without limit
  Priorities,
  Ticks            \* the arguments of task_sleep

ASSUME TaskAssumption ==
  /\ MaxTasks \in Nat
  /\ Priorities \subseteq Int
  /\ Ticks \subseteq Nat

NULL == 0

VARIABLES
  next_pid,
  state,
  sleep_ticks,
  priority,
  current_task,
  pc,              \* "run", "scan" and "store" (in task_schedule), or "halt"
  task,            \* `task` of task_schedule
  next_task,       \* `next_task` of task_schedule
  loaded,          \* the value of task->sleep_ticks in a register
  ticked,          \* the timer has fired since that load
  due,             \* history: timer interrupts until the task is due
  endless,         \* history: the tasks that asked to sleep for 0 ticks
  woken            \* history: the tasks made ready during this scan

vars == <<next_pid, state, sleep_ticks, priority, current_task, pc, task, next_task,
          loaded, ticked, due, endless, woken>>

taskVars == <<state, sleep_ticks, priority>>
scanVars == <<task, next_task, loaded, ticked>>

Pids == 1 .. next_pid - 1
Runnable(t) == state[t] \in {"READY", "RUNNING"}

(* task_init.                                                              *)
Init ==
  /\ next_pid = 1
  /\ state = [t \in {} |-> "READY"]
  /\ sleep_ticks = [t \in {} |-> 0]
  /\ priority = [t \in {} |-> 0]
  /\ current_task = NULL
  /\ pc = "run"
  /\ task = NULL
  /\ next_task = NULL
  /\ loaded = 0
  /\ ticked = FALSE
  /\ due = [t \in {} |-> 0]
  /\ endless = {}
  /\ woken = {}

-----------------------------------------------------------------------------
Extend(f, v) == [t \in 1 .. next_pid |-> IF t = next_pid THEN v ELSE f[t]]

(* A new task at the head of the list.                                     *)
AddTask(pri, ticks) ==
  /\ next_pid <= MaxTasks
  /\ next_pid' = next_pid + 1
  /\ state' = Extend(state, "READY")
  /\ sleep_ticks' = Extend(sleep_ticks, ticks)
  /\ priority' = Extend(priority, pri)
  /\ due' = Extend(due, 0)
  /\ UNCHANGED <<current_task, pc, scanVars, endless, woken>>

task_create(pri) == pc = "run" /\ AddTask(pri, 0)

(* The child is a copy of the parent but for its state.                    *)
task_fork ==
  /\ pc = "run"
  /\ current_task # NULL
  /\ AddTask(priority[current_task], sleep_ticks[current_task])

(* task_schedule up to its loop.                                           *)
BeginSchedule ==
  /\ pc' = "scan"
  /\ task' = next_pid - 1
  /\ next_task' = NULL
  /\ woken' = {}
  /\ UNCHANGED <<loaded, ticked>>

task_yield ==
  /\ pc = "run"
  /\ BeginSchedule
  /\ UNCHANGED <<next_pid, taskVars, current_task, due, endless>>

task_exit ==
  /\ pc = "run"
  /\ current_task # NULL
  /\ state' = [state EXCEPT ![current_task] = "ZOMBIE"]
  /\ BeginSchedule
  /\ UNCHANGED <<next_pid, sleep_ticks, priority, current_task, due, endless>>

task_sleep(n) ==
  /\ pc = "run"
  /\ current_task # NULL
  /\ sleep_ticks' = [sleep_ticks EXCEPT ![current_task] = n]
  /\ state' = [state EXCEPT ![current_task] = "SLEEPING"]
  /\ due' = [due EXCEPT ![current_task] = n]
  /\ endless' = IF n = 0 THEN endless \cup {current_task} ELSE endless \ {current_task}
  /\ BeginSchedule
  /\ UNCHANGED <<next_pid, priority, current_task>>

(* task_wake does nothing to a task that does not sleep.                   *)
task_wake(t) ==
  /\ pc = "run"
  /\ state[t] = "SLEEPING"
  /\ state' = [state EXCEPT ![t] = "READY"]
  /\ sleep_ticks' = [sleep_ticks EXCEPT ![t] = 0]
  /\ due' = [due EXCEPT ![t] = 0]
  /\ endless' = endless \ {t}
  /\ UNCHANGED <<next_pid, priority, current_task, pc, scanVars, woken>>

-----------------------------------------------------------------------------
(* The loop of task_schedule.                                              *)

AtTask == pc = "scan" /\ task # NULL

(* Mutant: of equal tasks the last one on the list is taken.               *)
VisitRunnableLast ==
  /\ AtTask
  /\ Runnable(task)
  /\ next_task' = IF next_task = NULL \/ priority[task] >= priority[next_task]
                    THEN task ELSE next_task
  /\ task' = task - 1
  /\ UNCHANGED <<next_pid, taskVars, current_task, pc, loaded, ticked, due, endless, woken>>

VisitRunnable ==
  /\ AtTask
  /\ Runnable(task)
  /\ next_task' = IF next_task = NULL \/ priority[task] > priority[next_task]
                    THEN task ELSE next_task
  /\ task' = task - 1
  /\ UNCHANGED <<next_pid, taskVars, current_task, pc, loaded, ticked, due, endless, woken>>

VisitOther ==
  /\ AtTask
  /\ ~Runnable(task)
  /\ ~(state[task] = "SLEEPING" /\ sleep_ticks[task] > 0)
  /\ task' = task - 1
  /\ UNCHANGED <<next_pid, taskVars, current_task, pc, next_task, loaded, ticked, due, endless, woken>>

LoadSleeper ==
  /\ AtTask
  /\ state[task] = "SLEEPING"
  /\ sleep_ticks[task] > 0
  /\ loaded' = sleep_ticks[task]
  /\ ticked' = FALSE
  /\ pc' = "store"
  /\ UNCHANGED <<next_pid, taskVars, current_task, task, next_task, due, endless, woken>>

EndVisit ==
  /\ pc' = "scan"
  /\ task' = task - 1
  /\ loaded' = 0
  /\ ticked' = FALSE

(* Mutant: the count reaches 0 and the task is not made ready.             *)
StoreSleeperAsleep ==
  /\ pc = "store"
  /\ sleep_ticks' = [sleep_ticks EXCEPT ![task] = loaded - 1]
  /\ EndVisit
  /\ UNCHANGED <<next_pid, state, priority, current_task, next_task, due, endless, woken>>

(* Mutant: the count is put back as it was loaded.                         *)
StoreSleeperStale ==
  /\ pc = "store"
  /\ sleep_ticks' = [sleep_ticks EXCEPT ![task] = loaded]
  /\ EndVisit
  /\ UNCHANGED <<next_pid, state, priority, current_task, next_task, due, endless, woken>>

(* A decrement timer_handler made since the load is overwritten.           *)
StoreSleeper ==
  /\ pc = "store"
  /\ sleep_ticks' = [sleep_ticks EXCEPT ![task] = loaded - 1]
  /\ IF loaded = 1
       THEN /\ state' = [state EXCEPT ![task] = "READY"]
            /\ woken' = woken \cup {task}
            /\ due' = [due EXCEPT ![task] = 0]
       ELSE UNCHANGED <<state, woken, due>>
  /\ EndVisit
  /\ UNCHANGED <<next_pid, priority, current_task, next_task, endless>>

AtEnd == pc = "scan" /\ task = NULL

(* No task was found and idle_task is null: the machine halts for good.    *)
Halt ==
  /\ AtEnd
  /\ next_task = NULL
  /\ pc' = "halt"
  /\ woken' = {}
  /\ UNCHANGED <<next_pid, taskVars, current_task, scanVars, due, endless>>

(* Mutant: the task that loses the CPU stays running.                      *)
SwitchKeepsOld ==
  /\ AtEnd
  /\ next_task # NULL
  /\ state' = IF next_task = current_task THEN state
              ELSE [state EXCEPT ![next_task] = "RUNNING"]
  /\ current_task' = next_task
  /\ pc' = "run"
  /\ next_task' = NULL
  /\ woken' = {}
  /\ UNCHANGED <<next_pid, sleep_ticks, priority, task, loaded, ticked, due, endless>>

(* The rest of task_schedule.  When the task found is the current one it   *)
(* returns at once, and that task may be ready rather than running.        *)
Switch ==
  /\ AtEnd
  /\ next_task # NULL
  /\ state' = [t \in Pids |->
                 IF next_task = current_task THEN state[t]
                 ELSE IF t = next_task THEN "RUNNING"
                 ELSE IF t = current_task /\ state[t] = "RUNNING" THEN "READY"
                 ELSE state[t]]
  /\ current_task' = next_task
  /\ pc' = "run"
  /\ next_task' = NULL
  /\ woken' = {}
  /\ UNCHANGED <<next_pid, sleep_ticks, priority, task, loaded, ticked, due, endless>>

-----------------------------------------------------------------------------
(* Mutant: the last tick of a sleeper is not counted.                      *)
TickStopsAtOne ==
  LET sleepers == { t \in Pids : state[t] = "SLEEPING" /\ sleep_ticks[t] > 1 }
  IN  /\ pc = "store" => ~ticked
      /\ sleep_ticks' = [t \in Pids |-> IF t \in sleepers THEN sleep_ticks[t] - 1 ELSE sleep_ticks[t]]
      /\ ticked' = (pc = "store")
      /\ due' = [t \in Pids |-> IF state[t] = "SLEEPING" /\ due[t] > 0 THEN due[t] - 1 ELSE due[t]]
      /\ UNCHANGED <<next_pid, state, priority, current_task, pc, task, next_task, loaded, endless, woken>>

(* Mutant: a sleeper without ticks is counted down.                        *)
TickBelowZero ==
  LET sleepers == { t \in Pids : state[t] = "SLEEPING" }
  IN  /\ pc = "store" => ~ticked
      /\ sleep_ticks' = [t \in Pids |-> IF t \in sleepers THEN sleep_ticks[t] - 1 ELSE sleep_ticks[t]]
      /\ ticked' = (pc = "store")
      /\ UNCHANGED <<next_pid, state, priority, current_task, pc, task, next_task, loaded, due, endless, woken>>

(* timer_handler.  Interrupts are 10 ms apart: no two of them fall between *)
(* the load and the store of one sleeper.                                  *)
Tick ==
  LET sleepers == { t \in Pids : state[t] = "SLEEPING" /\ sleep_ticks[t] > 0 }
      risers   == { t \in sleepers : sleep_ticks[t] = 1 }
  IN  /\ pc = "store" => ~ticked
      /\ sleep_ticks' = [t \in Pids |-> IF t \in sleepers THEN sleep_ticks[t] - 1 ELSE sleep_ticks[t]]
      /\ state' = [t \in Pids |-> IF t \in risers THEN "READY" ELSE state[t]]
      /\ ticked' = (pc = "store")
      /\ due' = [t \in Pids |-> IF t \in risers THEN 0
                                ELSE IF state[t] = "SLEEPING" /\ due[t] > 0 THEN due[t] - 1
                                ELSE due[t]]
      /\ woken' = IF pc \in {"scan", "store"} THEN woken \cup risers ELSE woken
      /\ UNCHANGED <<next_pid, priority, current_task, pc, task, next_task, loaded, endless>>

ScheduleStep ==
  VisitRunnable \/ VisitOther \/ LoadSleeper \/ StoreSleeper \/ Halt \/ Switch

Next ==
  \/ \E pri \in Priorities : task_create(pri)
  \/ task_fork
  \/ task_yield
  \/ task_exit
  \/ \E n \in Ticks : task_sleep(n)
  \/ \E t \in Pids : task_wake(t)
  \/ VisitRunnable
  \/ VisitOther
  \/ LoadSleeper
  \/ StoreSleeper
  \/ Halt
  \/ Switch
  \/ Tick

Spec == Init /\ [][Next]_vars

(* The timer keeps firing, and task_schedule, once called, goes on.  No    *)
(* task owes the kernel a call.                                            *)
FairSpec == Spec /\ WF_vars(Tick) /\ WF_vars(ScheduleStep)

-----------------------------------------------------------------------------
(* Each task has a state, unsigned tick counts and a priority; the cursors *)
(* of task_schedule are on the list.                                       *)
TaskTypeOK ==
  /\ next_pid \in 1 .. MaxTasks + 1
  /\ state \in [Pids -> {"RUNNING", "READY", "SLEEPING", "ZOMBIE"}]
  /\ sleep_ticks \in [Pids -> Nat]
  /\ priority \in [Pids -> Priorities]
  /\ due \in [Pids -> Nat]
  /\ current_task \in Pids \cup {NULL}
  /\ pc \in {"run", "scan", "store", "halt"}
  /\ task \in Pids \cup {NULL}
  /\ next_task \in Pids \cup {NULL}
  /\ loaded \in Nat
  /\ ticked \in BOOLEAN
  /\ endless \subseteq Pids
  /\ woken \subseteq Pids

(* No task but the current one is marked running, also while task_schedule *)
(* is under way and after the machine has halted.                          *)
OneRunning == \A t \in Pids : state[t] = "RUNNING" => t = current_task

(* Whenever kernel code runs, the task it runs for can run: task_exit and  *)
(* task_sleep never return to a zombie or a sleeper.                       *)
CurrentAlive == pc = "run" /\ current_task # NULL => Runnable(current_task)

(* A sleeper is never later than the timer interrupts it asked for, even   *)
(* when task_schedule overwrites what timer_handler has just stored.       *)
SleepNeverLate ==
  \A t \in Pids : state[t] = "SLEEPING" /\ t \notin endless => sleep_ticks[t] <= due[t]

(* Only a task that asked for 0 ticks sleeps without a count: no sequence  *)
(* of decrements from both sides leaves a sleeper nobody will wake.        *)
NoLostWakeup ==
  \A t \in Pids : state[t] = "SLEEPING" /\ sleep_ticks[t] = 0 => t \in endless

(* Task t beats the choice made so far.                                    *)
Beats(t, u) == priority[t] > priority[u] \/ (priority[t] = priority[u] /\ t > u)

(* task_schedule switches to the runnable task of highest priority, the    *)
(* youngest among equals; only tasks that became ready while it was        *)
(* looking may have been passed over.  It halts only if there is no other. *)
PickIsBest ==
  AtEnd => \A t \in Pids \ woken :
             Runnable(t) => next_task # NULL /\ ~Beats(t, next_task)

(* A task that has exited never runs again.                                *)
ZombieForever ==
  [][\A t \in Pids : state[t] = "ZOMBIE" => state'[t] = "ZOMBIE"]_vars

(* A sleeper with a count left wakes up, whatever the kernel does.         *)
SleeperWakes ==
  \A t \in 1 .. MaxTasks :
    (t \in Pids /\ state[t] = "SLEEPING" /\ sleep_ticks[t] > 0)
      ~> (t \in Pids /\ state[t] # "SLEEPING")

(* task_schedule prints "No tasks to run. Halting." and stops the machine  *)
(* only when there is no task to run.                                      *)
HaltOnlyWhenIdle == pc = "halt" => \A t \in Pids : ~Runnable(t)
=============================================================================
