---------------------------- MODULE TasksProofs ----------------------------
(***************************************************************************)
(* Proofs about Tasks, for any number of tasks, any priorities and any     *)
(* sleeps, with the timer interrupt between any two steps, and about       *)
(* Syscalls: what the tasks' system calls do to the scheduler and to the   *)
(* descriptor table, for any number of descriptors and paths.              *)
(***************************************************************************)
EXTENDS Syscalls, TLAPS

(* Between the load and the store of a sleeper's count at most one timer   *)
(* interrupt has decremented it, and has perhaps made the task ready.      *)
StoreWindow ==
  pc = "store" =>
    /\ task # NULL
    /\ loaded >= 1
    /\ ~ticked => state[task] = "SLEEPING" /\ sleep_ticks[task] = loaded
    /\ ticked => \/ state[task] = "SLEEPING" /\ sleep_ticks[task] = loaded - 1 /\ loaded > 1
                 \/ state[task] = "READY" /\ loaded = 1 /\ task \in woken

(* The choice made so far can run, was visited, and no visited task that   *)
(* could run before the scan beats it.                                     *)
ScanChoice ==
  pc \in {"scan", "store"} =>
    /\ next_task # NULL => Runnable(next_task) /\ next_task > task
    /\ \A t \in Pids \ woken :
         t > task /\ Runnable(t) => next_task # NULL /\ ~Beats(t, next_task)

(* The inductive invariant.  SleepNeverLate and NoLostWakeup need          *)
(* StoreWindow, CurrentAlive and PickIsBest need ScanChoice.               *)
TaskInv ==
  /\ TaskTypeOK
  /\ OneRunning
  /\ CurrentAlive
  /\ SleepNeverLate
  /\ NoLostWakeup
  /\ StoreWindow
  /\ ScanChoice

(* task_init establishes the invariant.                                    *)
LEMMA InitTaskInv == Init => TaskInv
<1> SUFFICES ASSUME Init PROVE TaskInv
  OBVIOUS
<1>1. Pids = {}
  BY DEF Init, Pids
<1>2. TaskTypeOK
  <2>1. /\ state \in [{} -> {"RUNNING", "READY", "SLEEPING", "ZOMBIE"}]
        /\ sleep_ticks \in [{} -> Nat] /\ priority \in [{} -> Priorities] /\ due \in [{} -> Nat]
    BY DEF Init
  <2>2. next_pid \in 1 .. MaxTasks + 1
    BY TaskAssumption DEF Init
  <2> QED BY <2>1, <2>2, <1>1 DEF Init, TaskTypeOK
<1> QED BY <1>1, <1>2 DEF Init, TaskInv, OneRunning, CurrentAlive, SleepNeverLate,
                         NoLostWakeup, StoreWindow, ScanChoice

(* A new task, created or forked, is ready and disturbs no other.          *)
LEMMA AddTaskInv ==
  ASSUME TaskInv, pc = "run", NEW pri \in Priorities, NEW n \in Nat, AddTask(pri, n)
  PROVE  TaskInv'
<1> USE TaskAssumption
<1> DEFINE N == next_pid
<1>1. /\ N \in Nat /\ N >= 1 /\ N <= MaxTasks /\ next_pid' = N + 1
      /\ Pids' = Pids \cup {N} /\ N \notin Pids /\ NULL \notin Pids'
      /\ pc' = "run" /\ UNCHANGED <<current_task, task, next_task, loaded, ticked, endless, woken>>
  BY DEF AddTask, TaskInv, TaskTypeOK, Pids, NULL, scanVars
<1>2. 1 .. next_pid = Pids'
  BY <1>1 DEF Pids
<1>3. /\ state' = [t \in Pids' |-> IF t = N THEN "READY" ELSE state[t]]
      /\ sleep_ticks' = [t \in Pids' |-> IF t = N THEN n ELSE sleep_ticks[t]]
      /\ priority' = [t \in Pids' |-> IF t = N THEN pri ELSE priority[t]]
      /\ due' = [t \in Pids' |-> IF t = N THEN 0 ELSE due[t]]
  BY <1>2 DEF AddTask, Extend
<1>4. TaskTypeOK'
  <2>1. /\ state' \in [Pids' -> {"RUNNING", "READY", "SLEEPING", "ZOMBIE"}]
        /\ sleep_ticks' \in [Pids' -> Nat] /\ priority' \in [Pids' -> Priorities]
        /\ due' \in [Pids' -> Nat]
    BY <1>1, <1>3 DEF TaskInv, TaskTypeOK
  <2>2. next_pid' \in 1 .. MaxTasks + 1
    BY <1>1
  <2> QED BY <2>1, <2>2, <1>1 DEF TaskInv, TaskTypeOK
<1>5. /\ \A t \in Pids : /\ state'[t] = state[t] /\ sleep_ticks'[t] = sleep_ticks[t]
                         /\ due'[t] = due[t]
      /\ state'[N] = "READY"
  BY <1>1, <1>3
<1>6. OneRunning' /\ SleepNeverLate' /\ NoLostWakeup'
  BY <1>1, <1>5 DEF TaskInv, OneRunning, SleepNeverLate, NoLostWakeup
<1>7. CurrentAlive'
  BY <1>1, <1>5 DEF TaskInv, TaskTypeOK, CurrentAlive, Runnable
<1>8. StoreWindow' /\ ScanChoice'
  BY <1>1 DEF StoreWindow, ScanChoice
<1> QED BY <1>4, <1>6, <1>7, <1>8 DEF TaskInv

(* Entering task_schedule: nothing is visited yet.                         *)
LEMMA BeginInv ==
  ASSUME TaskTypeOK', OneRunning', SleepNeverLate', NoLostWakeup',
         BeginSchedule, UNCHANGED next_pid
  PROVE  TaskInv'
<1>1. pc' = "scan" /\ task' = next_pid' - 1 /\ next_task' = NULL /\ woken' = {}
  BY DEF BeginSchedule
<1>2. \A t \in Pids' : ~(t > task')
  BY <1>1 DEF Pids, TaskTypeOK
<1>3. ScanChoice' /\ CurrentAlive' /\ StoreWindow'
  BY <1>1, <1>2 DEF ScanChoice, CurrentAlive, StoreWindow
<1> QED BY <1>3 DEF TaskInv

(* The types of the scan's variables on entering task_schedule.            *)
LEMMA BeginTypes ==
  ASSUME TaskTypeOK, BeginSchedule, UNCHANGED next_pid
  PROVE  /\ pc' = "scan" /\ task' \in Pids' \cup {NULL} /\ next_task' \in Pids' \cup {NULL}
         /\ loaded' \in Nat /\ ticked' \in BOOLEAN /\ woken' \subseteq Pids' /\ Pids' = Pids
BY TaskAssumption DEF TaskTypeOK, BeginSchedule, Pids, NULL

(* The calls that give up the CPU keep the invariant.                      *)
LEMMA CallsInv ==
  ASSUME TaskInv, \/ task_yield \/ task_exit \/ \E n \in Ticks : task_sleep(n)
  PROVE  TaskInv'
<1> USE TaskAssumption
<1>t. TaskTypeOK /\ OneRunning /\ SleepNeverLate /\ NoLostWakeup
  BY DEF TaskInv
<1>1. CASE task_yield
  <2>1. BeginSchedule /\ UNCHANGED <<next_pid, state, sleep_ticks, priority, current_task, due, endless>>
    BY <1>1 DEF task_yield, taskVars
  <2>2. TaskTypeOK'
    BY <2>1, <1>t, BeginTypes DEF TaskTypeOK
  <2>3. OneRunning' /\ SleepNeverLate' /\ NoLostWakeup'
    BY <2>1, <1>t DEF OneRunning, SleepNeverLate, NoLostWakeup, Pids
  <2> QED BY <2>1, <2>2, <2>3, BeginInv
<1>2. CASE task_exit
  <2>1. /\ BeginSchedule /\ UNCHANGED <<next_pid, sleep_ticks, priority, current_task, due, endless>>
        /\ current_task \in Pids /\ state' = [state EXCEPT ![current_task] = "ZOMBIE"]
    BY <1>2, <1>t DEF task_exit, TaskTypeOK
  <2>2. TaskTypeOK'
    BY <2>1, <1>t, BeginTypes DEF TaskTypeOK
  <2>3. OneRunning' /\ SleepNeverLate' /\ NoLostWakeup'
    BY <2>1, <1>t DEF OneRunning, SleepNeverLate, NoLostWakeup, Pids, TaskTypeOK
  <2> QED BY <2>1, <2>2, <2>3, BeginInv
<1>3. ASSUME NEW n \in Ticks, task_sleep(n) PROVE TaskInv'
  <2>1. /\ BeginSchedule /\ UNCHANGED <<next_pid, priority, current_task>>
        /\ current_task \in Pids /\ n \in Nat
        /\ state' = [state EXCEPT ![current_task] = "SLEEPING"]
        /\ sleep_ticks' = [sleep_ticks EXCEPT ![current_task] = n]
        /\ due' = [due EXCEPT ![current_task] = n]
        /\ endless' = IF n = 0 THEN endless \cup {current_task} ELSE endless \ {current_task}
    BY <1>3, <1>t DEF task_sleep, TaskTypeOK
  <2>2. TaskTypeOK'
    <3>1. /\ state' \in [Pids -> {"RUNNING", "READY", "SLEEPING", "ZOMBIE"}]
          /\ sleep_ticks' \in [Pids -> Nat] /\ due' \in [Pids -> Nat] /\ endless' \subseteq Pids
      BY <2>1, <1>t DEF TaskTypeOK
    <3> QED BY <3>1, <2>1, <1>t, BeginTypes DEF TaskTypeOK
  <2>3. /\ Pids' = Pids
        /\ state'[current_task] = "SLEEPING" /\ sleep_ticks'[current_task] = n
        /\ due'[current_task] = n /\ (n = 0 => current_task \in endless')
        /\ \A t \in Pids : t # current_task =>
             /\ state'[t] = state[t] /\ sleep_ticks'[t] = sleep_ticks[t] /\ due'[t] = due[t]
             /\ t \in endless' <=> t \in endless
    BY <2>1, <1>t DEF TaskTypeOK, Pids
  <2>4. OneRunning'
    BY <2>1, <2>3, <1>t DEF OneRunning
  <2>5. SleepNeverLate'
    BY <2>1, <2>3, <1>t DEF SleepNeverLate
  <2>6. NoLostWakeup'
    BY <2>1, <2>3, <1>t DEF NoLostWakeup
  <2> QED BY <2>1, <2>2, <2>4, <2>5, <2>6, BeginInv
<1> QED BY <1>1, <1>2, <1>3

(* task_wake: a sleeper becomes ready.                                     *)
LEMMA WakeInv ==
  ASSUME TaskInv, NEW t \in Pids, task_wake(t)
  PROVE  TaskInv'
<1>1. /\ pc = "run" /\ state[t] = "SLEEPING"
      /\ state' = [state EXCEPT ![t] = "READY"]
      /\ sleep_ticks' = [sleep_ticks EXCEPT ![t] = 0]
      /\ due' = [due EXCEPT ![t] = 0] /\ endless' = endless \ {t}
      /\ UNCHANGED <<next_pid, priority, current_task, pc, task, next_task, loaded, ticked, woken>>
  BY DEF task_wake, scanVars
<1>2. TaskTypeOK'
  BY <1>1 DEF TaskInv, TaskTypeOK, Pids
<1>3. /\ Pids' = Pids /\ state'[t] = "READY"
      /\ \A u \in Pids : u # t =>
           /\ state'[u] = state[u] /\ sleep_ticks'[u] = sleep_ticks[u] /\ due'[u] = due[u]
           /\ u \in endless' <=> u \in endless
  BY <1>1 DEF TaskInv, TaskTypeOK, Pids
<1>4. OneRunning' /\ SleepNeverLate' /\ NoLostWakeup'
  BY <1>1, <1>3 DEF TaskInv, OneRunning, SleepNeverLate, NoLostWakeup
<1>5. CurrentAlive'
  BY <1>1, <1>3 DEF TaskInv, TaskTypeOK, CurrentAlive, Runnable
<1>6. StoreWindow' /\ ScanChoice'
  BY <1>1 DEF StoreWindow, ScanChoice
<1> QED BY <1>2, <1>4, <1>5, <1>6 DEF TaskInv

(* The tasks and their comparison, as numbers.                             *)
LEMMA TaskNumbers ==
  ASSUME TaskTypeOK
  PROVE  /\ \A t \in Pids : t \in Nat /\ t # NULL /\ priority[t] \in Int
         /\ task \in Nat
         /\ task # NULL => task \in Pids /\ task - 1 \in Pids \cup {NULL} /\ task - 1 \in Nat
<1>1. \A t \in Pids : priority[t] \in Int
  BY TaskAssumption DEF TaskTypeOK
<1>2. next_pid \in Nat
  BY TaskAssumption DEF TaskTypeOK
<1>3. \A t \in Pids : t \in Nat /\ t # NULL
  BY <1>2 DEF Pids, NULL
<1>4. task \in Nat
  BY <1>3 DEF TaskTypeOK, NULL
<1>5. task # NULL => task \in Pids /\ task - 1 \in Pids \cup {NULL} /\ task - 1 \in Nat
  BY <1>2 DEF TaskTypeOK, Pids, NULL
<1> QED BY <1>1, <1>3, <1>4, <1>5

(* Visiting a runnable task keeps the best choice best.                    *)
LEMMA VisitRunnableInv ==
  ASSUME TaskInv, VisitRunnable
  PROVE  TaskInv'
<1>1. /\ pc = "scan" /\ task # NULL /\ Runnable(task) /\ task' = task - 1
      /\ next_task' = IF next_task = NULL \/ priority[task] > priority[next_task]
                        THEN task ELSE next_task
      /\ UNCHANGED <<next_pid, state, sleep_ticks, priority, current_task, pc, loaded, ticked,
                     due, endless, woken>>
  BY DEF VisitRunnable, AtTask, taskVars
<1>2. Pids' = Pids
  BY <1>1 DEF Pids
<1>n. /\ \A t \in Pids : t \in Nat /\ t # NULL /\ priority[t] \in Int
      /\ task \in Nat /\ task \in Pids /\ task - 1 \in Pids \cup {NULL} /\ task - 1 \in Nat
  BY <1>1, TaskNumbers DEF TaskInv
<1>3. TaskTypeOK'
  BY <1>1, <1>2, <1>n DEF TaskInv, TaskTypeOK
<1>4. OneRunning' /\ CurrentAlive' /\ SleepNeverLate' /\ NoLostWakeup' /\ StoreWindow'
  BY <1>1, <1>2 DEF TaskInv, OneRunning, CurrentAlive, SleepNeverLate, NoLostWakeup, StoreWindow
<1>5. ScanChoice'
  <2>1. next_task # NULL => next_task \in Pids /\ Runnable(next_task) /\ next_task > task
    BY <1>1 DEF TaskInv, TaskTypeOK, ScanChoice
  <2>c. \/ next_task' = task /\ (next_task = NULL \/ priority[task] > priority[next_task])
        \/ next_task' = next_task /\ next_task # NULL /\ ~(priority[task] > priority[next_task])
    BY <1>1
  <2>2. next_task' \in Pids /\ next_task' > task - 1 /\ Runnable(next_task')
    <3>1. CASE next_task' = task
      BY <3>1, <1>1, <1>n
    <3>2. CASE next_task' = next_task /\ next_task # NULL
      <4>1. next_task \in Pids /\ Runnable(next_task) /\ next_task > task
        BY <3>2, <2>1
      <4>2. next_task \in Nat /\ next_task > task - 1
        BY <4>1, <1>n
      <4> QED BY <3>2, <4>1, <4>2 DEF Runnable
    <3> QED BY <3>1, <3>2, <2>c
  <2>3. ASSUME NEW t \in Pids \ woken, t > task - 1, Runnable(t)
        PROVE  ~Beats(t, next_task')
    <3>1. CASE t = task
      BY <3>1, <2>1, <1>1, <1>n DEF Beats
    <3>2. CASE t # task
      <4>1. t > task
        BY <3>2, <2>3, <1>n
      <4>2. next_task # NULL /\ ~Beats(t, next_task)
        BY <4>1, <2>3, <1>1 DEF TaskInv, ScanChoice
      <4>3. priority[t] <= priority[next_task] /\ next_task \in Pids
        <5>1. next_task \in Pids
          BY <4>2, <2>1
        <5>2. priority[t] \in Int /\ priority[next_task] \in Int
          BY <5>1, <1>n
        <5> QED BY <5>1, <5>2, <4>2 DEF Beats
      <4>4. CASE next_task' = next_task
        BY <4>2, <4>4
      <4>5. CASE next_task' = task /\ priority[task] > priority[next_task]
        <5>1. priority[t] < priority[task]
          BY <4>3, <4>5, <1>n
        <5> QED BY <5>1, <4>5, <1>n DEF Beats
      <4> QED BY <4>2, <4>4, <4>5, <2>c
    <3> QED BY <3>1, <3>2
  <2> QED BY <2>2, <2>3, <1>1, <1>2, <1>n DEF ScanChoice, Runnable, Beats
<1> QED BY <1>3, <1>4, <1>5 DEF TaskInv

(* A task that cannot run, and has no count, is passed over.               *)
LEMMA VisitOtherInv ==
  ASSUME TaskInv, VisitOther
  PROVE  TaskInv'
<1>1. /\ pc = "scan" /\ task # NULL /\ ~Runnable(task) /\ task' = task - 1
      /\ UNCHANGED <<next_pid, state, sleep_ticks, priority, current_task, pc, next_task,
                     loaded, ticked, due, endless, woken>>
  BY DEF VisitOther, AtTask, taskVars
<1>2. Pids' = Pids
  BY <1>1 DEF Pids
<1>n. /\ \A t \in Pids : t \in Nat
      /\ task \in Nat /\ task - 1 \in Pids \cup {NULL} /\ task - 1 \in Nat
  BY <1>1, TaskNumbers DEF TaskInv
<1>3. TaskTypeOK'
  BY <1>1, <1>2, <1>n DEF TaskInv, TaskTypeOK
<1>4. OneRunning' /\ CurrentAlive' /\ SleepNeverLate' /\ NoLostWakeup' /\ StoreWindow'
  BY <1>1, <1>2 DEF TaskInv, OneRunning, CurrentAlive, SleepNeverLate, NoLostWakeup, StoreWindow
<1>5. ScanChoice'
  <2>1. next_task # NULL => next_task \in Pids
    BY DEF TaskInv, TaskTypeOK
  <2>2. \A t \in Pids : t > task - 1 => t = task \/ t > task
    BY <1>n
  <2>3. next_task # NULL => next_task > task - 1 /\ Runnable(next_task)
    BY <2>1, <1>1, <1>n DEF TaskInv, ScanChoice
  <2> QED BY <2>2, <2>3, <1>1, <1>2 DEF TaskInv, ScanChoice, Runnable, Beats
<1> QED BY <1>3, <1>4, <1>5 DEF TaskInv

(* The load opens the window.                                              *)
LEMMA LoadInv ==
  ASSUME TaskInv, LoadSleeper
  PROVE  TaskInv'
<1>1. /\ pc = "scan" /\ task # NULL /\ state[task] = "SLEEPING" /\ sleep_ticks[task] > 0
      /\ loaded' = sleep_ticks[task] /\ ticked' = FALSE /\ pc' = "store"
      /\ UNCHANGED <<next_pid, state, sleep_ticks, priority, current_task, task, next_task,
                     due, endless, woken>>
  BY DEF LoadSleeper, AtTask, taskVars
<1>2. Pids' = Pids
  BY <1>1 DEF Pids
<1>3. task \in Pids /\ sleep_ticks[task] \in Nat
  BY <1>1 DEF TaskInv, TaskTypeOK
<1>4. TaskTypeOK'
  BY <1>1, <1>2, <1>3 DEF TaskInv, TaskTypeOK
<1>5. StoreWindow'
  BY <1>1, <1>3 DEF StoreWindow
<1>6. OneRunning' /\ CurrentAlive' /\ SleepNeverLate' /\ NoLostWakeup'
  BY <1>1, <1>2 DEF TaskInv, OneRunning, CurrentAlive, SleepNeverLate, NoLostWakeup
<1>7. ScanChoice'
  BY <1>1, <1>2 DEF TaskInv, ScanChoice, Runnable, Beats
<1> QED BY <1>4, <1>5, <1>6, <1>7 DEF TaskInv

(* The store closes it: the count it writes is no larger than what is due, *)
(* because the loop's own decrement stands for the one it overwrites.      *)
LEMMA StoreInv ==
  ASSUME TaskInv, StoreSleeper
  PROVE  TaskInv'
<1>1. /\ pc = "store" /\ pc' = "scan" /\ task' = task - 1 /\ loaded' = 0 /\ ticked' = FALSE
      /\ sleep_ticks' = [sleep_ticks EXCEPT ![task] = loaded - 1]
      /\ UNCHANGED <<next_pid, priority, current_task, next_task, endless>>
  BY DEF StoreSleeper, EndVisit
<1>2. Pids' = Pids
  BY <1>1 DEF Pids
<1>3. task # NULL /\ loaded >= 1 /\ loaded \in Nat
  BY <1>1 DEF TaskInv, TaskTypeOK, StoreWindow
<1>n. /\ \A t \in Pids : t \in Nat
      /\ task \in Nat /\ task \in Pids /\ task - 1 \in Pids \cup {NULL} /\ task - 1 \in Nat
  BY <1>3, TaskNumbers DEF TaskInv
<1>4. /\ loaded = 1 => /\ state' = [state EXCEPT ![task] = "READY"]
                       /\ woken' = woken \cup {task} /\ due' = [due EXCEPT ![task] = 0]
      /\ loaded # 1 => UNCHANGED <<state, woken, due>>
  BY DEF StoreSleeper
<1>5. loaded # 1 => /\ state[task] = "SLEEPING" /\ sleep_ticks[task] >= loaded - 1
                    /\ loaded - 1 >= 1
  BY <1>1, <1>3 DEF TaskInv, StoreWindow
<1>6. /\ \A t \in Pids : t # task =>
           /\ state'[t] = state[t] /\ sleep_ticks'[t] = sleep_ticks[t] /\ due'[t] = due[t]
           /\ t \in woken' <=> t \in woken
      /\ sleep_ticks'[task] = loaded - 1
      /\ loaded = 1 => state'[task] = "READY" /\ task \in woken'
      /\ loaded # 1 => state'[task] = "SLEEPING" /\ due'[task] = due[task]
  BY <1>1, <1>4, <1>5, <1>n DEF TaskInv, TaskTypeOK
<1>7. TaskTypeOK'
  <2>1. /\ sleep_ticks' \in [Pids -> Nat] /\ due' \in [Pids -> Nat]
        /\ state' \in [Pids -> {"RUNNING", "READY", "SLEEPING", "ZOMBIE"}]
        /\ woken' \subseteq Pids
    <3>1. sleep_ticks' \in [Pids -> Nat]
      BY <1>1, <1>3, <1>n DEF TaskInv, TaskTypeOK
    <3>2. CASE loaded = 1
      <4>1. due' = [due EXCEPT ![task] = 0] /\ due \in [Pids -> Nat]
        BY <3>2, <1>4 DEF TaskInv, TaskTypeOK
      <4>2. /\ state' = [state EXCEPT ![task] = "READY"]
            /\ state \in [Pids -> {"RUNNING", "READY", "SLEEPING", "ZOMBIE"}]
        BY <3>2, <1>4 DEF TaskInv, TaskTypeOK
      <4>3. woken' \subseteq Pids
        BY <3>2, <1>4, <1>n DEF TaskInv, TaskTypeOK
      <4> QED BY <3>1, <4>1, <4>2, <4>3
    <3>3. CASE loaded # 1
      BY <3>1, <3>3, <1>4 DEF TaskInv, TaskTypeOK
    <3> QED BY <3>2, <3>3
  <2> QED BY <2>1, <1>1, <1>2, <1>n DEF TaskInv, TaskTypeOK
<1>8. OneRunning'
  BY <1>1, <1>2, <1>6 DEF TaskInv, OneRunning
<1>9. CurrentAlive' /\ StoreWindow'
  BY <1>1 DEF CurrentAlive, StoreWindow
<1>10. SleepNeverLate'
  <2> SUFFICES ASSUME NEW t \in Pids, state'[t] = "SLEEPING", t \notin endless
               PROVE  sleep_ticks'[t] <= due'[t]
    BY <1>1, <1>2 DEF SleepNeverLate
  <2>1. CASE t # task
    BY <2>1, <1>6 DEF TaskInv, SleepNeverLate
  <2>2. CASE t = task
    <3>1. loaded # 1
      BY <2>2, <1>6
    <3>2. sleep_ticks[task] <= due[task] /\ sleep_ticks[task] \in Nat /\ due[task] \in Nat
      BY <2>2, <3>1, <1>5, <1>n DEF TaskInv, SleepNeverLate, TaskTypeOK
    <3> QED BY <2>2, <3>1, <3>2, <1>3, <1>5, <1>6
  <2> QED BY <2>1, <2>2
<1>11. NoLostWakeup'
  <2> SUFFICES ASSUME NEW t \in Pids, state'[t] = "SLEEPING", sleep_ticks'[t] = 0
               PROVE  t \in endless
    BY <1>1, <1>2 DEF NoLostWakeup
  <2>1. CASE t # task
    BY <2>1, <1>6 DEF TaskInv, NoLostWakeup
  <2>2. CASE t = task
    BY <2>2, <1>3, <1>5, <1>6
  <2> QED BY <2>1, <2>2
<1>12. ScanChoice'
  <2>1. next_task # NULL => next_task \in Pids /\ next_task # task /\ next_task > task - 1
    BY <1>1, <1>n DEF TaskInv, TaskTypeOK, ScanChoice
  <2>2. next_task # NULL => state'[next_task] \in {"READY", "RUNNING"}
    BY <2>1, <1>1, <1>6 DEF TaskInv, ScanChoice, Runnable
  <2>3. ASSUME NEW t \in Pids \ woken', t > task - 1, state'[t] \in {"READY", "RUNNING"}
        PROVE  next_task # NULL /\ ~Beats(t, next_task)
    <3>1. t # task
      BY <2>3, <1>6
    <3>2. t > task /\ t \in Pids \ woken /\ Runnable(t)
      BY <3>1, <2>3, <1>6, <1>n DEF Runnable
    <3> QED BY <3>2, <1>1 DEF TaskInv, ScanChoice
  <2> QED BY <2>1, <2>2, <2>3, <1>1, <1>2 DEF ScanChoice, Runnable, Beats
<1> QED BY <1>7, <1>8, <1>9, <1>10, <1>11, <1>12 DEF TaskInv

(* The switch: the task chosen runs, and the one that ran is ready.        *)
LEMMA SwitchInv ==
  ASSUME TaskInv, Switch
  PROVE  TaskInv'
<1> DEFINE newstate(t) == IF next_task = current_task THEN state[t]
                          ELSE IF t = next_task THEN "RUNNING"
                          ELSE IF t = current_task /\ state[t] = "RUNNING" THEN "READY"
                          ELSE state[t]
<1>1. /\ pc = "scan" /\ next_task # NULL /\ current_task' = next_task /\ pc' = "run"
      /\ next_task' = NULL /\ woken' = {}
      /\ state' = [t \in Pids |-> newstate(t)]
      /\ UNCHANGED <<next_pid, sleep_ticks, priority, task, loaded, ticked, due, endless>>
  BY DEF Switch, AtEnd
<1>2. Pids' = Pids
  BY <1>1 DEF Pids
<1>3. next_task \in Pids /\ Runnable(next_task)
  BY <1>1 DEF TaskInv, TaskTypeOK, ScanChoice
<1>4. \A t \in Pids : state'[t] = newstate(t)
  BY <1>1
<1>5. TaskTypeOK'
  <2>1. \A t \in Pids : newstate(t) \in {"RUNNING", "READY", "SLEEPING", "ZOMBIE"}
    BY DEF TaskInv, TaskTypeOK
  <2>2. state' \in [Pids -> {"RUNNING", "READY", "SLEEPING", "ZOMBIE"}]
    BY <2>1, <1>1
  <2> HIDE DEF newstate
  <2> QED BY <2>2, <1>1, <1>2, <1>3 DEF TaskInv, TaskTypeOK
<1>6. OneRunning'
  BY <1>1, <1>2, <1>4 DEF TaskInv, OneRunning
<1>7. CurrentAlive'
  BY <1>1, <1>3, <1>4 DEF CurrentAlive, Runnable
<1>8. \A t \in Pids : state'[t] = "SLEEPING" => state[t] = "SLEEPING"
  BY <1>4
<1>9. SleepNeverLate' /\ NoLostWakeup'
  BY <1>1, <1>2, <1>8 DEF TaskInv, SleepNeverLate, NoLostWakeup
<1>10. StoreWindow' /\ ScanChoice'
  BY <1>1 DEF StoreWindow, ScanChoice
<1> QED BY <1>5, <1>6, <1>7, <1>9, <1>10 DEF TaskInv

(* The timer interrupt, in any phase: it takes one tick from every         *)
(* sleeper's count and from what is due, and a task it makes ready is      *)
(* remembered in woken.                                                    *)
LEMMA TickInv ==
  ASSUME TaskInv, Tick
  PROVE  TaskInv'
<1> DEFINE sleepers == { t \in Pids : state[t] = "SLEEPING" /\ sleep_ticks[t] > 0 }
           risers   == { t \in sleepers : sleep_ticks[t] = 1 }
<1>1. /\ pc = "store" => ~ticked
      /\ sleep_ticks' = [t \in Pids |-> IF t \in sleepers THEN sleep_ticks[t] - 1 ELSE sleep_ticks[t]]
      /\ state' = [t \in Pids |-> IF t \in risers THEN "READY" ELSE state[t]]
      /\ ticked' = (pc = "store")
      /\ due' = [t \in Pids |-> IF t \in risers THEN 0
                                ELSE IF state[t] = "SLEEPING" /\ due[t] > 0 THEN due[t] - 1
                                ELSE due[t]]
      /\ woken' = IF pc \in {"scan", "store"} THEN woken \cup risers ELSE woken
      /\ UNCHANGED <<next_pid, priority, current_task, pc, task, next_task, loaded, endless>>
  BY DEF Tick
<1>2. Pids' = Pids
  BY <1>1 DEF Pids
<1>3. \A t \in Pids : /\ state[t] \in {"RUNNING", "READY", "SLEEPING", "ZOMBIE"}
                      /\ sleep_ticks[t] \in Nat /\ due[t] \in Nat
  BY DEF TaskInv, TaskTypeOK
<1>4. \A t \in Pids :
        /\ state[t] = "SLEEPING" /\ sleep_ticks[t] = 1 =>
             state'[t] = "READY" /\ sleep_ticks'[t] = 0 /\ due'[t] = 0 /\ t \in risers
        /\ state[t] = "SLEEPING" /\ sleep_ticks[t] > 1 =>
             /\ state'[t] = "SLEEPING" /\ sleep_ticks'[t] = sleep_ticks[t] - 1
             /\ due'[t] = IF due[t] > 0 THEN due[t] - 1 ELSE due[t]
        /\ state[t] = "SLEEPING" /\ sleep_ticks[t] = 0 =>
             state'[t] = "SLEEPING" /\ sleep_ticks'[t] = 0 /\ due'[t] \in Nat
        /\ state[t] # "SLEEPING" =>
             state'[t] = state[t] /\ sleep_ticks'[t] = sleep_ticks[t] /\ t \notin risers
  BY <1>1, <1>3
<1>5. TaskTypeOK'
  <2>1. sleep_ticks' \in [Pids -> Nat]
    BY <1>1, <1>3
  <2>2. state' \in [Pids -> {"RUNNING", "READY", "SLEEPING", "ZOMBIE"}]
    BY <1>1, <1>3
  <2>3. due' \in [Pids -> Nat]
    BY <1>1, <1>3
  <2>4. woken' \subseteq Pids
    BY <1>1 DEF TaskInv, TaskTypeOK
  <2>5. ticked' \in BOOLEAN
    BY <1>1
  <2> QED BY <2>1, <2>2, <2>3, <2>4, <2>5, <1>1, <1>2 DEF TaskInv, TaskTypeOK
<1>6. \A t \in Pids : /\ state'[t] = "SLEEPING" => state[t] = "SLEEPING" /\ sleep_ticks[t] # 1
                      /\ state'[t] = "RUNNING" => state[t] = "RUNNING"
                      /\ state[t] \in {"READY", "RUNNING"} => state'[t] = state[t]
  BY <1>3, <1>4
<1>7. OneRunning'
  BY <1>1, <1>2, <1>6 DEF TaskInv, OneRunning
<1>8. CurrentAlive'
  <2>1. current_task # NULL => current_task \in Pids
    BY DEF TaskInv, TaskTypeOK
  <2> QED BY <2>1, <1>1, <1>6 DEF TaskInv, CurrentAlive, Runnable
<1>9. SleepNeverLate'
  <2> SUFFICES ASSUME NEW t \in Pids, state'[t] = "SLEEPING", t \notin endless
               PROVE  sleep_ticks'[t] <= due'[t]
    BY <1>1, <1>2 DEF SleepNeverLate
  <2>1. state[t] = "SLEEPING" /\ sleep_ticks[t] # 1 /\ sleep_ticks[t] <= due[t]
    BY <1>6 DEF TaskInv, SleepNeverLate
  <2>2. CASE sleep_ticks[t] = 0
    BY <2>1, <2>2, <1>4
  <2>3. CASE sleep_ticks[t] > 1
    BY <2>1, <2>3, <1>3, <1>4
  <2> QED BY <2>1, <2>2, <2>3, <1>3
<1>10. NoLostWakeup'
  <2> SUFFICES ASSUME NEW t \in Pids, state'[t] = "SLEEPING", sleep_ticks'[t] = 0
               PROVE  t \in endless
    BY <1>1, <1>2 DEF NoLostWakeup
  <2>1. state[t] = "SLEEPING" /\ sleep_ticks[t] = 0
    BY <1>3, <1>4, <1>6
  <2> QED BY <2>1 DEF TaskInv, NoLostWakeup
<1>11. StoreWindow'
  <2> SUFFICES ASSUME pc = "store" PROVE StoreWindow'
    BY <1>1 DEF StoreWindow
  <2>1. task \in Pids /\ task # NULL /\ loaded >= 1 /\ loaded \in Nat
        /\ state[task] = "SLEEPING" /\ sleep_ticks[task] = loaded
    BY <1>1 DEF TaskInv, TaskTypeOK, StoreWindow
  <2>2. CASE loaded = 1
    <3>1. state'[task] = "READY" /\ task \in risers
      BY <2>1, <2>2, <1>4
    <3>2. task \in woken'
      BY <3>1, <1>1
    <3> QED BY <3>1, <3>2, <2>1, <2>2, <1>1 DEF StoreWindow
  <2>3. CASE loaded > 1
    <3>1. state'[task] = "SLEEPING" /\ sleep_ticks'[task] = loaded - 1
      BY <2>1, <2>3, <1>4
    <3> QED BY <3>1, <2>1, <2>3, <1>1 DEF StoreWindow
  <2> QED BY <2>1, <2>2, <2>3
<1>12. ScanChoice'
  <2> SUFFICES ASSUME pc \in {"scan", "store"} PROVE ScanChoice'
    BY <1>1 DEF ScanChoice
  <2>1. next_task # NULL => /\ next_task \in Pids /\ state[next_task] \in {"READY", "RUNNING"}
                            /\ next_task > task
    BY DEF TaskInv, TaskTypeOK, ScanChoice, Runnable
  <2>2. next_task # NULL => state'[next_task] \in {"READY", "RUNNING"}
    BY <2>1, <1>6
  <2>3. ASSUME NEW t \in Pids \ woken', t > task, state'[t] \in {"READY", "RUNNING"}
        PROVE  next_task # NULL /\ ~Beats(t, next_task)
    <3>1. t \in Pids \ woken /\ t \notin risers
      BY <2>3, <1>1
    <3>2. Runnable(t)
      BY <3>1, <2>3, <1>3, <1>4 DEF Runnable
    <3> QED BY <3>1, <3>2, <2>3 DEF TaskInv, ScanChoice
  <2> QED BY <2>1, <2>2, <2>3, <1>1, <1>2 DEF ScanChoice, Runnable, Beats
<1> QED BY <1>5, <1>7, <1>8, <1>9, <1>10, <1>11, <1>12 DEF TaskInv

(* Every step of the kernel's flow and of the timer keeps the invariant.   *)
LEMMA TaskInductive == TaskInv /\ [Next]_vars => TaskInv'
<1> SUFFICES ASSUME TaskInv, [Next]_vars PROVE TaskInv'
  OBVIOUS
<1>1. ASSUME NEW pri \in Priorities, task_create(pri) PROVE TaskInv'
  BY <1>1, AddTaskInv DEF task_create
<1>2. CASE task_fork
  <2>1. current_task \in Pids
    BY <1>2 DEF task_fork, TaskInv, TaskTypeOK
  <2>2. priority[current_task] \in Priorities /\ sleep_ticks[current_task] \in Nat
    BY <2>1 DEF TaskInv, TaskTypeOK
  <2> QED BY <2>2, <1>2, AddTaskInv DEF task_fork
<1>3. CASE task_yield \/ task_exit \/ \E n \in Ticks : task_sleep(n)
  BY <1>3, CallsInv
<1>4. ASSUME NEW t \in Pids, task_wake(t) PROVE TaskInv'
  BY <1>4, WakeInv
<1>5. CASE VisitRunnable
  BY <1>5, VisitRunnableInv
<1>6. CASE VisitOther
  BY <1>6, VisitOtherInv
<1>7. CASE LoadSleeper
  BY <1>7, LoadInv
<1>8. CASE StoreSleeper
  BY <1>8, StoreInv
<1>9. CASE Halt
  <2>1. /\ pc' = "halt" /\ woken' = {}
        /\ UNCHANGED <<next_pid, state, sleep_ticks, priority, current_task, task, next_task,
                       loaded, ticked, due, endless>>
    BY <1>9 DEF Halt, taskVars, scanVars
  <2> QED BY <2>1 DEF TaskInv, TaskTypeOK, OneRunning, CurrentAlive, SleepNeverLate,
                      NoLostWakeup, StoreWindow, ScanChoice, Pids
<1>10. CASE Switch
  BY <1>10, SwitchInv
<1>11. CASE Tick
  BY <1>11, TickInv
<1>12. CASE UNCHANGED vars
  BY <1>12 DEF vars, TaskInv, TaskTypeOK, OneRunning, CurrentAlive, SleepNeverLate,
               NoLostWakeup, StoreWindow, ScanChoice, Pids, Runnable, Beats
<1> QED BY <1>1, <1>2, <1>3, <1>4, <1>5, <1>6, <1>7, <1>8, <1>9, <1>10, <1>11, <1>12 DEF Next

(* The invariant holds in every reachable state.                           *)
THEOREM TaskInvariant == Spec => []TaskInv
BY InitTaskInv, TaskInductive, PTL DEF Spec

(* Types, and cursors that stay on the task list.                          *)
THEOREM TaskTypes == Spec => []TaskTypeOK
BY TaskInvariant, PTL DEF TaskInv

(* At most the current task is marked running.                             *)
THEOREM AtMostOneRunning == Spec => []OneRunning
BY TaskInvariant, PTL DEF TaskInv

(* Kernel code never runs for a zombie or a sleeper.                       *)
THEOREM CurrentAlwaysAlive == Spec => []CurrentAlive
BY TaskInvariant, PTL DEF TaskInv

(* The lost update between task_schedule and timer_handler delays nobody.  *)
THEOREM SleepersNeverLate == Spec => []SleepNeverLate
BY TaskInvariant, PTL DEF TaskInv

(* No interleaving of the two leaves a sleeper without a count.            *)
THEOREM WakeupsNeverLost == Spec => []NoLostWakeup
BY TaskInvariant, PTL DEF TaskInv

(* task_schedule picks the best of the tasks that could run all along.     *)
THEOREM PicksTheBest == Spec => []PickIsBest
<1>1. TaskInv => PickIsBest
  <2> SUFFICES ASSUME TaskInv, AtEnd, NEW t \in Pids \ woken, Runnable(t)
               PROVE  next_task # NULL /\ ~Beats(t, next_task)
    BY DEF PickIsBest
  <2>1. pc = "scan" /\ task = 0 /\ t > 0
    BY DEF AtEnd, NULL, Pids, TaskInv, TaskTypeOK
  <2> QED BY <2>1 DEF TaskInv, ScanChoice
<1> QED BY <1>1, TaskInvariant, PTL

(* A zombie stays a zombie: nothing that makes a task ready or running     *)
(* acts on one.                                                            *)
THEOREM ZombiesStayDead == Spec => ZombieForever
<1>1. ASSUME TaskInv, [Next]_vars
      PROVE  [\A t \in Pids : state[t] = "ZOMBIE" => state'[t] = "ZOMBIE"]_vars
  <2> SUFFICES ASSUME Next, NEW z \in Pids, state[z] = "ZOMBIE" PROVE state'[z] = "ZOMBIE"
    BY <1>1
  <2>t. /\ state \in [Pids -> {"RUNNING", "READY", "SLEEPING", "ZOMBIE"}]
        /\ next_pid \in Nat /\ z \in 1 .. next_pid /\ z # next_pid
    BY <1>1, TaskAssumption DEF TaskInv, TaskTypeOK, Pids
  <2>1. ASSUME NEW pri, NEW n, AddTask(pri, n) PROVE state'[z] = "ZOMBIE"
    BY <2>1, <2>t DEF AddTask, Extend
  <2>2. CASE \E pri \in Priorities : task_create(pri)
    BY <2>2, <2>1 DEF task_create
  <2>3. CASE task_fork
    BY <2>3, <2>1 DEF task_fork
  <2>4. CASE task_yield \/ VisitRunnable \/ VisitOther \/ LoadSleeper \/ Halt
    BY <2>4 DEF task_yield, VisitRunnable, VisitOther, LoadSleeper, Halt, taskVars
  <2>5. CASE task_exit
    BY <2>5, <2>t DEF task_exit
  <2>6. ASSUME NEW n \in Ticks, task_sleep(n) PROVE state'[z] = "ZOMBIE"
    <3>1. z # current_task
      BY <2>6, <1>1 DEF task_sleep, TaskInv, CurrentAlive, Runnable
    <3> QED BY <3>1, <2>6, <2>t DEF task_sleep
  <2>7. ASSUME NEW t \in Pids, task_wake(t) PROVE state'[z] = "ZOMBIE"
    BY <2>7, <2>t DEF task_wake
  <2>8. CASE StoreSleeper
    <3>1. z # task
      BY <2>8, <1>1 DEF StoreSleeper, TaskInv, StoreWindow
    <3>2. state' = state \/ state' = [state EXCEPT ![task] = "READY"]
      BY <2>8 DEF StoreSleeper
    <3> QED BY <3>1, <3>2, <2>t
  <2>9. CASE Switch
    <3>1. z # next_task
      BY <2>9, <1>1 DEF Switch, AtEnd, TaskInv, ScanChoice, Runnable
    <3> QED BY <3>1, <2>9, <2>t DEF Switch
  <2>10. CASE Tick
    BY <2>10, <2>t DEF Tick
  <2> QED BY <2>2, <2>3, <2>4, <2>5, <2>6, <2>7, <2>8, <2>9, <2>10 DEF Next
<1> QED BY <1>1, TaskInvariant, PTL DEF Spec, ZombieForever

-----------------------------------------------------------------------------
(* System calls.                                                           *)

Handle == [pid : Nat, fd : Fds, resolved : BOOLEAN]

(* The inductive invariant: HandlesExact with the types it needs.          *)
FileInv ==
  /\ fd_table \in [Fds -> {NoNode, fs_root_node}]
  /\ handles \subseteq Handle
  /\ strayed \subseteq Fds
  /\ HandlesExact

-----------------------------------------------------------------------------
(* A system call does to the tasks what an operation of task.c does, or    *)
(* nothing.                                                                *)
LEMMA CallsAreTaskSteps == [SysNext]_sysVars => [Next]_vars
<1> SUFFICES ASSUME [SysNext]_sysVars PROVE [Next]_vars
  OBVIOUS
<1>1. CASE UNCHANGED sysVars
  BY <1>1 DEF sysVars
<1>2. ASSUME NEW path \in Paths, sys_open(path) PROVE [Next]_vars
  BY <1>2 DEF sys_open
<1>3. ASSUME NEW h \in handles, sys_close(h) \/ \E len \in 0 .. 1 : sys_write(h, len)
      PROVE  [Next]_vars
  BY <1>3 DEF sys_close, sys_write
<1>4. CASE BadClose \/ StubCall \/ sys_getpid
  BY <1>4 DEF BadClose, StubCall, sys_getpid
<1>5. ASSUME NEW addr \in Addrs, sys_brk(addr) PROVE [Next]_vars
  BY <1>5 DEF sys_brk
<1>6. CASE sys_fork
  BY <1>6 DEF sys_fork, Next
<1>7. CASE sys_exit
  BY <1>7 DEF sys_exit, Next
<1>8. CASE CreateTask
  BY <1>8 DEF CreateTask, Next
<1>9. CASE Schedule
  BY <1>9 DEF Schedule, Next
<1> QED BY <1>1, <1>2, <1>3, <1>4, <1>5, <1>6, <1>7, <1>8, <1>9 DEF SysNext

(* Whatever the tasks ask of the kernel, the scheduler stays within the    *)
(* behaviour its own module allows.                                        *)
THEOREM SyscallsUseTasks == SysSpec => Spec
<1>1. SysInit => Init
  BY DEF SysInit
<1> QED BY <1>1, CallsAreTaskSteps, PTL DEF SysSpec, Spec

(* So one task runs, it is alive, and sleepers wake in time, under any     *)
(* sequence of system calls.                                               *)
THEOREM TasksKeptByCalls == SysSpec => []TaskInv
BY SyscallsUseTasks, TaskInvariant, PTL

-----------------------------------------------------------------------------
(* fs_init leaves an empty table that nobody holds a part of.              *)
LEMMA FilesInitInv == SysInit => FileInv
BY DEF SysInit, fs_init, FileInv, HandlesExact, Holders, IsOpen

(* fs_open hands out a free entry, which nobody holds.                     *)
LEMMA OpenKeepsInv ==
  ASSUME TaskInv, FileInv, NEW path, sys_open(path)
  PROVE  FileInv'
<1> DEFINE node == fs_traverse(path)
<1>1. node \in {NoNode, fs_root_node} /\ NoNode # fs_root_node
  BY DEF fs_traverse, NoNode, fs_root_node
<1>2. PICK fd \in Fds \cup {-1} :
        /\ fs_open(path, fd)
        /\ handles' = IF fd = -1 THEN handles
                      ELSE handles \cup {[pid |-> current_task, fd |-> fd,
                                          resolved |-> node # NoNode]}
  BY DEF sys_open
<1>3. strayed' = strayed /\ current_task \in Nat /\ -1 \notin Fds
  BY TaskAssumption DEF sys_open, TaskInv, TaskTypeOK, Pids, NULL, Fds
<1>4. CASE fd = -1
  <2>1. UNCHANGED <<fd_table, handles, strayed>>
    BY <1>2, <1>3, <1>4 DEF fs_open, FreeFds
  <2> QED BY <2>1 DEF FileInv, HandlesExact, Holders, IsOpen
<1>5. CASE fd # -1
  <2> DEFINE new == [pid |-> current_task, fd |-> fd, resolved |-> node # NoNode]
  <2>1. /\ fd \in Fds /\ fd_table[fd] = NoNode
        /\ fd_table' = [fd_table EXCEPT ![fd] = node]
        /\ handles' = handles \cup {new}
    BY <1>2, <1>5 DEF fs_open, FreeFds
  <2>2. new \in Handle /\ new.fd = fd /\ (new.resolved <=> node # NoNode)
    BY <1>3, <2>1 DEF Handle
  <2>3. fd_table' \in [Fds -> {NoNode, fs_root_node}] /\ handles' \subseteq Handle
    BY <1>1, <2>1, <2>2 DEF FileInv
  <2>4. ASSUME NEW f \in Fds \ strayed
        PROVE  /\ IsOpen(f)' <=> Holders(f)' # {}
               /\ \A g, h \in Holders(f)' : g = h
    <3> DEFINE H == { h \in handles : h.fd = f /\ h.resolved }
               H1 == { h \in handles \cup {new} : h.fd = f /\ h.resolved }
    <3>1. (fd_table[f] # NoNode <=> H # {}) /\ \A g, h \in H : g = h
      BY <2>4 DEF FileInv, HandlesExact, Holders, IsOpen
    <3>2. CASE f = fd /\ node # NoNode
      <4>1. H = {}
        BY <3>1, <3>2, <2>1
      <4>2. H1 = {new}
        BY <4>1, <3>2, <2>2
      <4>3. fd_table'[f] # NoNode
        BY <3>2, <2>1 DEF FileInv
      <4> QED BY <2>1, <2>4, <4>2, <4>3 DEF Holders, IsOpen
    <3>3. CASE f # fd \/ node = NoNode
      <4>1. H1 = H
        BY <3>3, <2>2
      <4>2. fd_table'[f] = fd_table[f]
        BY <3>3, <2>1, <2>4 DEF FileInv
      <4> QED BY <2>1, <2>4, <3>1, <4>1, <4>2 DEF Holders, IsOpen
    <3> QED BY <3>2, <3>3
  <2> QED BY <2>3, <2>4, <1>3 DEF FileInv, HandlesExact
<1> QED BY <1>4, <1>5

(* fs_close empties the entry of the one handle that had it, or of another *)
(* task's, and then the entry is among the strayed.                        *)
LEMMA CloseKeepsInv ==
  ASSUME FileInv, NEW c \in handles, sys_close(c)
  PROVE  FileInv'
<1>1. /\ fs_close(c.fd) /\ handles' = handles \ {c}
      /\ strayed' = IF IsOpen(c.fd) /\ ~c.resolved THEN strayed \cup {c.fd} ELSE strayed
  BY DEF sys_close
<1>2. c \in Handle /\ c.fd \in Fds
  BY DEF FileInv, Handle
<1>3. /\ fd_table' \in [Fds -> {NoNode, fs_root_node}]
      /\ fd_table' = [fd_table EXCEPT ![c.fd] = NoNode]
  BY <1>1, <1>2 DEF FileInv, fs_close, IsOpen
<1>4. handles' \subseteq Handle /\ strayed' \subseteq Fds /\ strayed \subseteq strayed'
  BY <1>1, <1>2 DEF FileInv
<1>5. ASSUME NEW f \in Fds \ strayed'
      PROVE  /\ IsOpen(f)' <=> Holders(f)' # {}
             /\ \A g, h \in Holders(f)' : g = h
  <2> DEFINE H == { h \in handles : h.fd = f /\ h.resolved }
             H1 == { h \in handles \ {c} : h.fd = f /\ h.resolved }
  <2>1. (fd_table[f] # NoNode <=> H # {}) /\ \A g, h \in H : g = h
    BY <1>4, <1>5 DEF FileInv, HandlesExact, Holders, IsOpen
  <2>2. CASE f = c.fd /\ c.resolved
    <3>1. H1 = {}
      BY <2>1, <2>2
    <3>2. fd_table'[f] = NoNode
      BY <1>2, <1>3, <2>2 DEF FileInv
    <3> QED BY <1>1, <1>5, <3>1, <3>2 DEF Holders, IsOpen
  <2>3. CASE f # c.fd \/ ~c.resolved
    <3>1. H1 = H
      BY <2>3
    <3>2. fd_table'[f] = fd_table[f]
      BY <1>1, <1>2, <1>3, <1>5, <2>3 DEF FileInv, IsOpen
    <3> QED BY <1>1, <1>5, <2>1, <3>1, <3>2 DEF Holders, IsOpen
  <2> QED BY <2>2, <2>3
<1> QED BY <1>3, <1>4, <1>5 DEF FileInv, HandlesExact

(* Every call keeps the invariant.                                         *)
LEMMA FilesInductive == TaskInv /\ FileInv /\ [SysNext]_sysVars => FileInv'
<1> SUFFICES ASSUME TaskInv, FileInv, [SysNext]_sysVars PROVE FileInv'
  OBVIOUS
<1>1. ASSUME UNCHANGED fileVars PROVE FileInv'
  BY <1>1 DEF fileVars, FileInv, HandlesExact, Holders, IsOpen
<1>2. ASSUME NEW path \in Paths, sys_open(path) PROVE FileInv'
  BY <1>2, OpenKeepsInv
<1>3. ASSUME NEW h \in handles, sys_close(h) PROVE FileInv'
  BY <1>3, CloseKeepsInv
<1>4. CASE BadClose
  <2>1. -1 \notin Fds /\ FS_MAX_FDS \notin Fds
    BY FilesAssumption DEF Fds
  <2>2. UNCHANGED fileVars
    BY <1>4, <2>1 DEF BadClose, fs_close, IsOpen, fileVars
  <2> QED BY <2>2, <1>1
<1>5. ASSUME NEW h \in handles, NEW len \in 0 .. 1, sys_write(h, len) PROVE FileInv'
  BY <1>5, <1>1 DEF sys_write
<1>6. CASE StubCall \/ sys_getpid \/ \E addr \in Addrs : sys_brk(addr)
  BY <1>6, <1>1 DEF StubCall, sys_getpid, sys_brk
<1>7. CASE sys_fork \/ sys_exit \/ CreateTask \/ Schedule
  BY <1>7, <1>1 DEF sys_fork, sys_exit, CreateTask, Schedule
<1>8. CASE UNCHANGED sysVars
  BY <1>8, <1>1 DEF sysVars
<1> QED BY <1>2, <1>3, <1>4, <1>5, <1>6, <1>7, <1>8 DEF SysNext

(* The inductive invariant of the descriptor table, with the scheduler's.  *)
THEOREM FilesInvariant == SysSpec => [](TaskInv /\ FileInv)
BY TasksKeptByCalls, FilesInitInv, FilesInductive, PTL DEF SysSpec

(* No descriptor is handed out twice, closed under its owner or lost, but  *)
(* for those closed through an open that found nothing.                    *)
THEOREM HandlesAlwaysExact == SysSpec => []HandlesExact
BY FilesInvariant, PTL DEF FileInv

(* A task that exits keeps its descriptors for ever: task_exit closes none *)
(* and a zombie is never the task that calls sys_close.                    *)
THEOREM ZombiesKeepDescriptors == SysSpec => ZombieKeepsFd
<1>1. ASSUME TaskInv, FileInv, FileInv', [SysNext]_sysVars
      PROVE  [\A h \in handles :
                h.resolved /\ h.fd \notin strayed' /\ state'[h.pid] = "ZOMBIE"
                  => h \in handles' /\ fd_table'[h.fd] # NoNode]_sysVars
  <2> SUFFICES ASSUME SysNext, NEW h \in handles,
                      h.resolved, h.fd \notin strayed', state'[h.pid] = "ZOMBIE"
               PROVE  h \in handles' /\ fd_table'[h.fd] # NoNode
    BY <1>1
  <2>1. ASSUME NEW c \in handles, sys_close(c) PROVE h \in handles'
    <3>1. state[c.pid] # "ZOMBIE"
      BY <1>1, <2>1 DEF sys_close, Calling, TaskInv, CurrentAlive, Runnable
    <3>2. state' = state
      BY <2>1 DEF sys_close, vars
    <3> QED BY <3>1, <3>2, <2>1 DEF sys_close
  <2>2. ASSUME NEW path \in Paths, sys_open(path) PROVE h \in handles'
    BY <2>2 DEF sys_open
  <2>3. ASSUME NEW c \in handles, NEW len \in 0 .. 1, sys_write(c, len) PROVE h \in handles'
    BY <2>3 DEF sys_write, fileVars
  <2>4. ASSUME BadClose \/ StubCall \/ sys_getpid \/ \E addr \in Addrs : sys_brk(addr)
        PROVE  h \in handles'
    BY <2>4 DEF BadClose, StubCall, sys_getpid, sys_brk, fileVars
  <2>5. ASSUME sys_fork \/ sys_exit \/ CreateTask \/ Schedule PROVE h \in handles'
    BY <2>5 DEF sys_fork, sys_exit, CreateTask, Schedule, fileVars
  <2>6. h \in handles'
    BY <2>1, <2>2, <2>3, <2>4, <2>5 DEF SysNext
  <2>7. h \in Handle /\ h.fd \in Fds \ strayed'
    BY <1>1 DEF FileInv, Handle
  <2>8. IsOpen(h.fd)' <=> Holders(h.fd)' # {}
    BY <1>1, <2>7 DEF FileInv, HandlesExact
  <2> QED BY <2>6, <2>7, <2>8 DEF IsOpen, Holders
<1> QED BY <1>1, FilesInvariant, PTL DEF SysSpec, ZombieKeepsFd
=============================================================================
