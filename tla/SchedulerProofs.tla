-------------------------- MODULE SchedulerProofs --------------------------
(***************************************************************************)
(* The safety of the scheduler for every set of TCBs, every boot list and  *)
(* every priority, quantum and counter width.                              *)
(***************************************************************************)
EXTENDS Scheduler, Lemmas

(***************************************************************************)
(* A cleaner that is about to look at a TCB has one to look at, and the    *)
(* one it is about to destroy is not idle.  Nothing says it is still       *)
(* allocated.                                                              *)
(***************************************************************************)
CleanerOK ==
    /\ \A t \in Task : pc[t] = "scan" => loc[t].cur \in Task
    /\ \A t \in Task : pc[t] = "destroy" => loc[t].cur \in Task \ {Idle}

(* The inductive invariant.  TypeOK alone is not inductive: CleanBegin     *)
(* needs a non-empty list, CleanScan a current TCB.                        *)
IInv == /\ TypeOK
        /\ ListIsAlloc
        /\ StackInUseIsAllocated
        /\ OwnStack
        /\ RunningIsCurrent
        /\ CleanerOK

-----------------------------------------------------------------------------
(* The list.                                                               *)

\* The position of a listed task is an index of the list that holds it.
LEMMA PosLemma ==
    ASSUME task_list \in Seq(Task), NEW t \in Task, InList(t)
    PROVE  Pos(t) \in 1..Len(task_list) /\ task_list[Pos(t)] = t
  <1>1. \E i \in 1..Len(task_list) : task_list[i] = t
    BY LenProperties DEF InList, Range
  <1> QED BY <1>1 DEF Pos

\* add_task_to_list of a TCB that is not linked keeps the ring well formed.
LEMMA AddLemma ==
    ASSUME task_list \in Seq(Task), ListIsAlloc, NEW t \in Task, t \notin alloc
    PROVE  /\ AddToList(t) \in Seq(Task)
           /\ Range(AddToList(t)) = alloc \cup {t}
           /\ Distinct(AddToList(t))
  <1> DEFINE s == AddToList(t)
             n == Len(task_list)
  <1>1. /\ s \in Seq(Task)
        /\ Len(s) = n + 1
        /\ \A i \in 1..n : s[i] = task_list[i]
        /\ s[n + 1] = t
    BY AppendProperties DEF AddToList
  <1>2. n \in Nat /\ DOMAIN task_list = 1..n /\ DOMAIN s = 1..(n + 1)
    BY <1>1, LenProperties
  <1>3. Range(s) = alloc \cup {t}
    <2>1. ASSUME NEW x \in Range(s) PROVE x \in alloc \cup {t}
      BY <1>1, <1>2 DEF Range, ListIsAlloc
    <2>2. ASSUME NEW x \in alloc PROVE x \in Range(s)
      BY <1>1, <1>2 DEF Range, ListIsAlloc
    <2>3. t \in Range(s)
      BY <1>1, <1>2 DEF Range
    <2> QED BY <2>1, <2>2, <2>3
  <1>4. Distinct(s)
    <2>1. \A i \in 1..n : task_list[i] # t
      BY <1>2 DEF ListIsAlloc, Range
    <2> QED BY <1>1, <1>2, <2>1 DEF Distinct, ListIsAlloc
  <1> QED BY <1>1, <1>3, <1>4

\* remove_task_from_list keeps the ring well formed, whether the TCB is
\* linked or was unlinked before.
LEMMA RemoveLemma ==
    ASSUME task_list \in Seq(Task), ListIsAlloc, NEW t \in Task
    PROVE  /\ RemoveFromList(t) \in Seq(Task)
           /\ Range(RemoveFromList(t)) = alloc \ {t}
           /\ Distinct(RemoveFromList(t))
  <1>1. CASE ~InList(t)
    BY <1>1 DEF RemoveFromList, ListIsAlloc, InList
  <1>2. CASE InList(t)
    <2> DEFINE s == RemoveFromList(t)
               n == Len(task_list)
               p == Pos(t)
    <2>1. n \in Nat /\ DOMAIN task_list = 1..n /\ p \in 1..n /\ task_list[p] = t
      BY <1>2, PosLemma, LenProperties
    <2>2. s = [j \in 1..(n - 1) |-> IF j < p THEN task_list[j] ELSE task_list[j + 1]]
      BY <1>2 DEF RemoveFromList
    <2>3. \A j \in 1..(n - 1) : s[j] \in Task
      BY <2>1, <2>2, ElementOfSeq
    <2>4. s \in Seq(Task) /\ Len(s) = n - 1 /\ DOMAIN s = 1..(n - 1)
      <3>1. n - 1 \in Nat
        BY <2>1
      <3>2. s \in [1..(n - 1) -> Task]
        BY <2>2, <2>3
      <3>3. s \in Seq(Task)
        BY <3>1, <3>2, SeqDef
      <3> QED BY <3>1, <3>2, <3>3, LenProperties
    <2> HIDE DEF s, n, p
    <2>5. \A i \in 1..n : i # p => task_list[i] # t
      BY <2>1 DEF ListIsAlloc, Distinct, n
    <2>6. Range(s) = alloc \ {t}
      <3>1. ASSUME NEW x \in Range(s) PROVE x \in alloc \ {t}
        <4>1. PICK j \in 1..(n - 1) : x = s[j]
          BY <2>4 DEF Range
        <4>2. PICK i \in 1..n : i # p /\ x = task_list[i]
          BY <4>1, <2>1, <2>2
        <4> QED BY <4>2, <2>1, <2>5 DEF ListIsAlloc, Range
      <3>2. ASSUME NEW x \in alloc \ {t} PROVE x \in Range(s)
        <4>1. PICK i \in 1..n : x = task_list[i]
          BY <2>1 DEF ListIsAlloc, Range
        <4>2. i # p
          BY <4>1, <2>1
        <4>3. CASE i < p
          <5>1. i \in 1..(n - 1) /\ s[i] = x
            BY <4>1, <4>3, <2>1, <2>2
          <5> QED BY <5>1, <2>4 DEF Range
        <4>4. CASE i > p
          <5>1. i - 1 \in 1..(n - 1) /\ ~(i - 1 < p) /\ (i - 1) + 1 = i
            BY <4>4, <2>1
          <5>2. s[i - 1] = x
            BY <5>1, <4>1, <2>2
          <5> QED BY <5>1, <5>2, <2>4 DEF Range
        <4> QED BY <4>2, <4>3, <4>4, <2>1
      <3> QED BY <3>1, <3>2
    <2>7. Distinct(s)
      <3> SUFFICES ASSUME NEW i \in 1..(n - 1), NEW j \in 1..(n - 1), s[i] = s[j]
                   PROVE  i = j
        BY <2>4 DEF Distinct
      <3>1. /\ \A k, l \in 1..n : task_list[k] = task_list[l] => k = l
            /\ i \in Int /\ j \in Int /\ p \in Int
        BY <2>1 DEF ListIsAlloc, Distinct, n
      <3> QED BY <3>1, <2>1, <2>2
    <2> QED BY <2>4, <2>6, <2>7 DEF s
  <1> QED BY <1>1, <1>2

-----------------------------------------------------------------------------
(* Choosing and switching.                                                 *)

\* scheduler_next_task returns a task whose TCB is allocated.
LEMMA NextTaskLemma ==
    ASSUME ListIsAlloc, StackInUseIsAllocated, NEW st
    PROVE  NextTask(st) \in alloc
  <1>1. \A t \in Task : IsNext(st, t) => t \in alloc
    BY DEF IsNext, Eligible, InList, ListIsAlloc
  <1> QED BY <1>1 DEF NextTask, StackInUseIsAllocated

\* The part of the invariant a context switch can disturb.
ExecOK ==
    /\ state \in [Task -> TaskState]
    /\ time_slice \in [Task -> Nat]
    /\ current_task \in Task
    /\ cpu \in Task
    /\ ctx \in [Task -> Task]
    /\ StackInUseIsAllocated
    /\ OwnStack
    /\ RunningIsCurrent

\* Only the current task and idle are RUNNING in st.
RunningIn(st) ==
    starts = 0 => \A t \in alloc \ {Idle} : st[t] = "RUNNING" => t = current_task

\* A switch to an allocated task, once nobody but idle is RUNNING.
LEMMA SwitchLemma ==
    ASSUME IInv, alloc' = alloc, starts' = starts,
           NEW next \in alloc,
           NEW st \in [Task -> TaskState],
           NEW sl \in [Task -> Nat],
           starts = 0 => \A t \in alloc \ {Idle} : st[t] # "RUNNING",
           SwitchTo(next, st, sl)
    PROVE  ExecOK'
  <1> USE DEF IInv, TypeOK, SwitchTo, TaskState
  <1>1. next \in Task
    OBVIOUS
  <1>2. state' \in [Task -> TaskState] /\ time_slice' \in [Task -> Nat]
    BY <1>1, BoundAssumption
  <1>3. current_task' \in Task /\ cpu' \in Task /\ ctx' \in [Task -> Task]
    BY <1>1
  <1>4. StackInUseIsAllocated'
    BY DEF StackInUseIsAllocated, OwnStack
  <1>5. OwnStack'
    BY <1>1 DEF OwnStack
  <1>6. RunningIsCurrent'
    BY <1>1 DEF RunningIsCurrent
  <1> QED BY <1>2, <1>3, <1>4, <1>5, <1>6 DEF ExecOK

\* A tick that does not switch keeps the running task and its stack.
LEMMA NoSwitchLemma ==
    ASSUME IInv, alloc' = alloc, starts' = starts,
           NEW st \in [Task -> TaskState],
           NEW sl \in [Task -> Nat],
           RunningIn(st),
           NoSwitch(st, sl)
    PROVE  ExecOK'
  BY DEF IInv, TypeOK, NoSwitch, exec, RunningIn, ExecOK, StackInUseIsAllocated,
         OwnStack, RunningIsCurrent

\* After Preempted or YieldState nobody but idle is RUNNING.
LEMMA PreemptedLemma ==
    ASSUME IInv, NEW st \in [Task -> TaskState], RunningIn(st)
    PROVE  /\ Preempted(st) \in [Task -> TaskState]
           /\ YieldState(st) \in [Task -> TaskState]
           /\ starts = 0 => \A t \in alloc \ {Idle} : Preempted(st)[t] # "RUNNING"
           /\ starts = 0 => \A t \in alloc \ {Idle} : YieldState(st)[t] # "RUNNING"
  BY DEF IInv, TypeOK, TaskState, Preempted, YieldState, RunningIn

\* task_yield keeps the CPU on the stack of an allocated current task.
LEMMA YieldLemma ==
    ASSUME IInv, alloc' = alloc, starts' = starts,
           NEW st \in [Task -> TaskState],
           RunningIn(st),
           YieldWith(st)
    PROVE  ExecOK'
  <1> DEFINE next == NextTask(st)
  <1>1. next \in alloc
    BY NextTaskLemma DEF IInv
  <1>2. time_slice \in [Task -> Nat]
    BY DEF IInv, TypeOK
  <1> HIDE DEF next
  <1>3. CASE scheduler_enabled /\ next # current_task
    <2>1. SwitchTo(next, YieldState(st), time_slice)
      BY <1>3 DEF YieldWith, next
    <2> QED BY <2>1, <1>1, <1>2, PreemptedLemma, SwitchLemma
  <1>4. CASE ~(scheduler_enabled /\ next # current_task)
    <2>1. NoSwitch(st, time_slice)
      BY <1>4 DEF YieldWith, next
    <2> QED BY <2>1, <1>2, NoSwitchLemma
  <1> QED BY <1>3, <1>4

\* The tick handler, for the states and slices it computes.
LEMMA TickLemma ==
    ASSUME IInv, TimerTick
    PROVE  ExecOK'
  <1> DEFINE st == WakeSleepers(Tick)
             sl == SpendSlice(st)
             next == NextTask(st)
  <1>1. st \in [Task -> TaskState] /\ RunningIn(st)
    BY DEF IInv, TypeOK, TaskState, WakeSleepers, RunningIn, RunningIsCurrent
  <1>2. sl \in [Task -> Nat]
    BY DEF IInv, TypeOK, SpendSlice
  <1>3. next \in alloc /\ alloc' = alloc /\ starts' = starts
    BY NextTaskLemma DEF IInv, TimerTick, sched
  <1>4. state \in [Task -> TaskState] /\ time_slice \in [Task -> Nat] /\ RunningIn(state)
    BY DEF IInv, TypeOK, RunningIn, RunningIsCurrent
  <1>5. \/ SwitchTo(next, Preempted(st), sl)
        \/ NoSwitch(st, sl)
        \/ NoSwitch(state, time_slice)
    BY DEF TimerTick
  <1> HIDE DEF st, sl, next
  <1>6. CASE SwitchTo(next, Preempted(st), sl)
    BY <1>1, <1>2, <1>3, <1>6, PreemptedLemma, SwitchLemma
  <1>7. CASE NoSwitch(st, sl)
    BY <1>1, <1>2, <1>3, <1>7, NoSwitchLemma
  <1>8. CASE NoSwitch(state, time_slice)
    BY <1>3, <1>4, <1>8, NoSwitchLemma
  <1> QED BY <1>5, <1>6, <1>7, <1>8

\* What the other variables contribute to the invariant.
RestOK ==
    /\ task_list \in Seq(Task)
    /\ alloc \subseteq Task
    /\ priority \in [Task -> Nat]
    /\ sleep_until \in [Task -> Nat]
    /\ next_task_id \in Nat
    /\ task_count \in 0..(COUNT_MOD - 1)
    /\ scheduler_enabled \in BOOLEAN
    /\ ticks_since_boot \in 0..(TICK_MOD - 1)
    /\ pc \in [Task -> PC]
    /\ cleaners \subseteq Task
    /\ loc \in [Task -> LocType]
    /\ starts \in 0..MaxStarts
    /\ ListIsAlloc
    /\ CleanerOK

\* The two halves of the invariant make the whole.
LEMMA SplitLemma == ExecOK' /\ RestOK' => IInv'
  BY DEF IInv, TypeOK, ExecOK, RestOK

\* x % m is a digit of base m.
LEMMA ModLemma == \A m \in Nat \ {0} : \A x \in Int : x % m \in 0..(m - 1)
  OBVIOUS

-----------------------------------------------------------------------------
(* One lemma per group of actions.                                         *)

\* A step that leaves the list, the TCB fields other than state, and the
\* counters alone, and moves the executing thread to another point.
LEMMA RestLemma ==
    ASSUME IInv,
           UNCHANGED <<sched, priority, cleaners>>,
           sleep_until' \in [Task -> Nat],
           ticks_since_boot' \in 0..(TICK_MOD - 1),
           pc' \in [Task -> PC], loc' \in [Task -> LocType], CleanerOK'
    PROVE  RestOK'
  BY DEF IInv, TypeOK, RestOK, sched, ListIsAlloc

\* Moving the executing thread to a point outside the cleaner.
LEMMA GotoLemma ==
    ASSUME IInv, NEW l \in PC \ {"scan", "destroy"}, Goto(l), loc' = loc
    PROVE  pc' \in [Task -> PC] /\ loc' \in [Task -> LocType] /\ CleanerOK'
  BY DEF IInv, TypeOK, Goto, CleanerOK

\* Moving it nowhere.
LEMMA StayLemma ==
    ASSUME IInv, UNCHANGED <<pc, loc>>
    PROVE  pc' \in [Task -> PC] /\ loc' \in [Task -> LocType] /\ CleanerOK'
  BY DEF IInv, TypeOK, CleanerOK

\* A step that switches nothing and leaves states and slices alone.
LEMMA StillLemma ==
    ASSUME IInv, UNCHANGED <<state, time_slice, exec, alloc, starts>>
    PROVE  ExecOK'
  BY DEF IInv, TypeOK, exec, ExecOK, StackInUseIsAllocated, OwnStack, RunningIsCurrent

\* The current states and slices satisfy what the yield lemmas ask for.
LEMMA NowLemma ==
    ASSUME IInv
    PROVE  /\ state \in [Task -> TaskState] /\ RunningIn(state)
           /\ sleep_until \in [Task -> Nat]
           /\ ticks_since_boot \in 0..(TICK_MOD - 1)
           /\ cpu \in Task /\ current_task \in Task
  BY DEF IInv, TypeOK, RunningIn, RunningIsCurrent

\* scheduler_tick keeps the invariant.
LEMMA TimerTickStep ==
    ASSUME IInv, TimerTick
    PROVE  IInv'
  <1>1. ExecOK'
    BY TickLemma
  <1>2. ticks_since_boot' \in 0..(TICK_MOD - 1)
    <2>1. ticks_since_boot' = (ticks_since_boot + 1) % TICK_MOD
      BY DEF TimerTick, Tick
    <2>2. ticks_since_boot + 1 \in Int
      BY NowLemma
    <2> QED BY <2>1, <2>2, ModLemma, BoundAssumption
  <1>3. RestOK'
    BY <1>2, NowLemma, StayLemma, RestLemma DEF TimerTick
  <1> QED BY <1>1, <1>3, SplitLemma

\* task_yield keeps the invariant.
LEMMA YieldStep ==
    ASSUME IInv, Yield \/ LoopYield \/ SleepYield \/ CmdYield
    PROVE  IInv'
  <1>1. /\ YieldWith(state)
        /\ UNCHANGED <<sched, priority, sleep_until, ticks_since_boot, cleaners, loc>>
    BY DEF Yield, LoopYield, SleepYield, CmdYield
  <1>2. ExecOK'
    BY <1>1, NowLemma, YieldLemma DEF sched
  <1>3. pc' \in [Task -> PC] /\ loc' \in [Task -> LocType] /\ CleanerOK'
    <2>1. CASE Yield \/ CmdYield
      BY <2>1, <1>1, StayLemma DEF Yield, CmdYield
    <2>2. CASE LoopYield
      BY <2>2, <1>1, GotoLemma DEF LoopYield, PC
    <2>3. CASE SleepYield /\ cpu \in cleaners
      BY <2>3, <1>1, GotoLemma DEF SleepYield, PC
    <2>4. CASE SleepYield /\ cpu \notin cleaners
      BY <2>4, <1>1, GotoLemma DEF SleepYield, PC
    <2> QED BY <2>1, <2>2, <2>3, <2>4
  <1>4. RestOK'
    BY <1>1, <1>3, NowLemma, RestLemma
  <1> QED BY <1>2, <1>4, SplitLemma

\* The tick a sleeper waits for is a tick count.
LEMMA WakeTickLemma ==
    ASSUME IInv, NEW d \in 1..MaxSleep
    PROVE  (ticks_since_boot + d) % TICK_MOD \in Nat
  <1>1. ticks_since_boot + d \in Int
    BY NowLemma
  <1>2. (ticks_since_boot + d) % TICK_MOD \in 0..(TICK_MOD - 1)
    BY <1>1, ModLemma, BoundAssumption
  <1> QED BY <1>2, BoundAssumption

\* The first half of task_sleep keeps the invariant.
LEMMA SleepBeginStep ==
    ASSUME IInv, NEW d \in 1..MaxSleep, SleepBegin(d)
    PROVE  IInv'
  <1>1. ExecOK'
    BY StillLemma DEF SleepBegin, sched
  <1>3. sleep_until' \in [Task -> Nat]
    BY WakeTickLemma, NowLemma DEF SleepBegin
  <1>4. RestOK'
    BY <1>3, NowLemma, GotoLemma, RestLemma DEF SleepBegin, PC
  <1> QED BY <1>1, <1>4, SplitLemma

\* The second half of task_sleep keeps the invariant.
LEMMA SleepMarkStep ==
    ASSUME IInv, SleepMark
    PROVE  IInv'
  <1>1. ExecOK'
    <2>1. state' \in [Task -> TaskState]
      BY NowLemma DEF SleepMark, TaskState
    <2>2. RunningIsCurrent'
      BY DEF SleepMark, IInv, TypeOK, RunningIsCurrent, sched, exec
    <2> QED BY <2>1, <2>2
            DEF SleepMark, IInv, TypeOK, ExecOK, sched, exec, StackInUseIsAllocated, OwnStack
  <1>2. RestOK'
    BY NowLemma, GotoLemma, RestLemma DEF SleepMark, PC
  <1> QED BY <1>1, <1>2, SplitLemma

\* The sleep command keeps the invariant.
LEMMA CmdSleepStep ==
    ASSUME IInv, NEW d \in 1..MaxSleep, CmdSleep(d)
    PROVE  IInv'
  <1> DEFINE st == [state EXCEPT ![current_task] = "SLEEPING"]
  <1>1. st \in [Task -> TaskState] /\ RunningIn(st)
    BY NowLemma DEF TaskState, RunningIn
  <1>2. YieldWith(st) /\ alloc' = alloc /\ starts' = starts
    BY DEF CmdSleep, sched
  <1> HIDE DEF st
  <1>3. ExecOK'
    BY <1>1, <1>2, YieldLemma
  <1>4. sleep_until' \in [Task -> Nat]
    BY WakeTickLemma, NowLemma DEF CmdSleep
  <1>5. RestOK'
    BY <1>4, NowLemma, StayLemma, RestLemma DEF CmdSleep
  <1> QED BY <1>3, <1>5, SplitLemma

\* A task that leaves for ever.
LEMMA LeaveStep ==
    ASSUME IInv, NEW dead \in Dead, Leave(dead)
    PROVE  IInv'
  <1> DEFINE st == [state EXCEPT ![current_task] = dead]
  <1>1. st \in [Task -> TaskState] /\ RunningIn(st)
    BY NowLemma DEF Dead, TaskState, RunningIn
  <1>2. YieldWith(st) /\ alloc' = alloc /\ starts' = starts
    BY DEF Leave, sched
  <1> HIDE DEF st
  <1>3. ExecOK'
    BY <1>1, <1>2, YieldLemma
  <1>4. RestOK'
    BY NowLemma, GotoLemma, RestLemma DEF Leave, PC
  <1> QED BY <1>3, <1>4, SplitLemma

\* task_exit keeps the invariant.
LEMMA ExitStep ==
    ASSUME IInv, Exit \/ Fault
    PROVE  IInv'
  <1>1. CASE Fault
    BY <1>1, LeaveStep DEF Fault, Dead
  <1>2. CASE Exit /\ state[current_task] \notin Dead
    BY <1>2, LeaveStep DEF Exit, Dead
  <1>3. CASE Exit /\ state[current_task] \in Dead
    <2>1. Goto("halt") /\ UNCHANGED <<sched, tcb, exec, ticks_since_boot, cleaners, loc>>
      BY <1>3 DEF Exit
    <2>2. ExecOK'
      BY <2>1, StillLemma DEF sched, tcb
    <2>3. RestOK'
      BY <2>1, NowLemma, GotoLemma, RestLemma DEF PC, tcb
    <2> QED BY <2>2, <2>3, SplitLemma
  <1> QED BY <1>1, <1>2, <1>3

\* task_create: the new TCB is linked once, READY, with its own context.
LEMMA NewTaskStep ==
    ASSUME IInv, NEW t \in Task, NEW p \in Priority, NewTask(t, p),
           pc' \in [Task -> PC],
           \A u \in Task : pc'[u] \in {"scan", "destroy"} => pc'[u] = pc[u]
    PROVE  IInv'
  <1> USE DEF IInv, TypeOK, NewTask
  <1>1. t \notin alloc /\ t # current_task /\ t # Idle
    BY DEF StackInUseIsAllocated
  <1>2. ExecOK'
    <2>1. state' \in [Task -> TaskState] /\ time_slice' \in [Task -> Nat]
      BY BoundAssumption DEF TaskState
    <2>2. current_task' \in Task /\ cpu' \in Task /\ ctx' \in [Task -> Task]
      OBVIOUS
    <2>3. StackInUseIsAllocated'
      BY DEF StackInUseIsAllocated
    <2>4. OwnStack'
      BY DEF OwnStack
    <2>5. RunningIsCurrent'
      BY DEF RunningIsCurrent
    <2> QED BY <2>1, <2>2, <2>3, <2>4, <2>5 DEF ExecOK
  <1>3. task_list' \in Seq(Task) /\ ListIsAlloc'
    BY <1>1, AddLemma DEF ListIsAlloc
  <1>4. task_count' \in 0..(COUNT_MOD - 1)
    BY ModLemma, BoundAssumption
  <1>5. priority' \in [Task -> Nat] /\ sleep_until' \in [Task -> Nat]
    BY TaskAssumption
  <1>6. CleanerOK'
    BY DEF CleanerOK
  <1>7. RestOK'
    <2>1. alloc' \subseteq Task /\ cleaners' \subseteq Task /\ next_task_id' \in Nat
      OBVIOUS
    <2>2. /\ scheduler_enabled' \in BOOLEAN
          /\ ticks_since_boot' \in 0..(TICK_MOD - 1)
          /\ loc' \in [Task -> LocType] /\ starts' \in 0..MaxStarts
      OBVIOUS
    <2> QED BY <1>3, <1>4, <1>5, <1>6, <2>1, <2>2 DEF RestOK
  <1> QED BY <1>2, <1>7, SplitLemma

\* task_create keeps the invariant.
LEMMA CreateStep ==
    ASSUME IInv, CreateCheck \/ Create \/ CmdCreate
    PROVE  IInv'
  <1>1. ASSUME NEW l \in {"create", "run"}, Goto(l),
               UNCHANGED <<sched, tcb, exec, ticks_since_boot, cleaners, loc>>
        PROVE  IInv'
    <2>1. ExecOK'
      BY <1>1, StillLemma DEF sched, tcb
    <2>2. RestOK'
      BY <1>1, NowLemma, GotoLemma, RestLemma DEF PC, tcb
    <2> QED BY <2>1, <2>2, SplitLemma
  <1>2. ASSUME NEW t \in Task, NEW p \in Priority, NewTask(t, p),
               \/ pc' = [pc EXCEPT ![cpu] = "run", ![t] = "run"]
               \/ pc' = [pc EXCEPT ![t] = "run"]
        PROVE  IInv'
    <2>1. pc' \in [Task -> PC]
      BY <1>2 DEF IInv, TypeOK, PC
    <2>2. \A u \in Task : pc'[u] \in {"scan", "destroy"} => pc'[u] = pc[u]
      BY <1>2 DEF IInv, TypeOK
    <2> QED BY <1>2, <2>1, <2>2, NewTaskStep
  <1>3. CASE CreateCheck
    BY <1>3, <1>1 DEF CreateCheck
  <1>4. CASE Create
    BY <1>4, <1>1, <1>2 DEF Create
  <1>5. CASE CmdCreate
    BY <1>5, <1>2 DEF CmdCreate
  <1> QED BY <1>3, <1>4, <1>5

\* task_destroy of a TCB that is neither idle nor current: freed or not.
LEMMA DestroyStep ==
    ASSUME IInv, NEW t \in Task, t # current_task, t # Idle, Destroy(t),
           pc' \in [Task -> PC], loc' \in [Task -> LocType], CleanerOK'
    PROVE  IInv'
  <1> USE DEF IInv, TypeOK, Destroy, exec
  <1>1. ExecOK'
    <2>1. state' \in [Task -> TaskState]
      BY DEF TaskState
    <2>2. StackInUseIsAllocated'
      BY DEF StackInUseIsAllocated, OwnStack
    <2>3. OwnStack'
      BY DEF OwnStack
    <2>4. RunningIsCurrent'
      BY DEF RunningIsCurrent
    <2> QED BY <2>1, <2>2, <2>3, <2>4 DEF ExecOK
  <1>2. task_list' \in Seq(Task) /\ ListIsAlloc'
    BY RemoveLemma DEF ListIsAlloc
  <1>3. task_count' \in 0..(COUNT_MOD - 1)
    BY ModLemma, BoundAssumption
  <1>4. RestOK'
    BY <1>2, <1>3 DEF RestOK
  <1> QED BY <1>1, <1>4, SplitLemma

\* The kill command keeps the invariant.
LEMMA CmdKillStep ==
    ASSUME IInv, CmdKill
    PROVE  IInv'
  <1>1. PICK t \in Task : t # current_task /\ t # Idle /\ Destroy(t)
    BY DEF CmdKill
  <1> QED BY <1>1, DestroyStep, StayLemma DEF CmdKill

\* stop_scheduler changes nothing the invariant speaks of.
LEMMA CmdStopStep ==
    ASSUME IInv, CmdStop
    PROVE  IInv'
  <1>1. ExecOK'
    BY StillLemma DEF CmdStop, tcb
  <1>2. RestOK'
    BY StayLemma DEF CmdStop, tcb, IInv, TypeOK, RestOK, ListIsAlloc
  <1> QED BY <1>1, <1>2, SplitLemma

\* The task scheduler_start chooses is allocated.
LEMMA FirstTaskLemma ==
    ASSUME IInv
    PROVE  FirstTask \in alloc
  <1> DEFINE R == {t \in Task : Eligible(state, t)}
  <1>1. CASE R = {}
    BY <1>1 DEF FirstTask, IInv, StackInUseIsAllocated
  <1>2. CASE R # {}
    <2> DEFINE P == {Pos(t) : t \in R}
    <2>1. \A t \in R : t \in alloc /\ InList(t)
      BY DEF Eligible, InList, IInv, ListIsAlloc
    <2>2. \A t \in R : Pos(t) \in Nat
      <3> SUFFICES ASSUME NEW t \in R PROVE Pos(t) \in Nat
        OBVIOUS
      <3>1. Len(task_list) \in Nat /\ Pos(t) \in 1..Len(task_list)
        BY <2>1, PosLemma, LenProperties DEF IInv, TypeOK
      <3> QED BY <3>1
    <2>3. P \in SUBSET Nat /\ P # {}
      BY <1>2, <2>2
    <2>4. PICK p \in P : \A q \in P : p <= q
      BY <2>3, LeastNat
    <2>5. \E t \in R : \A u \in R : Pos(t) <= Pos(u)
      BY <2>4
    <2>6. FirstTask \in R
      BY <1>2, <2>5 DEF FirstTask
    <2> QED BY <2>1, <2>6
  <1> QED BY <1>1, <1>2

\* start_scheduler: either the current task stays, or the promises about its
\* stack end here.
LEMMA CmdStartStep ==
    ASSUME IInv, CmdStart
    PROVE  IInv'
  <1>1. FirstTask \in alloc /\ FirstTask \in Task
    BY FirstTaskLemma DEF IInv, TypeOK
  <1>2. starts' \in 0..MaxStarts /\ (starts' = 0 => starts = 0 /\ FirstTask = current_task)
    BY BoundAssumption DEF CmdStart, IInv, TypeOK
  <1>3. state' \in [Task -> TaskState] /\ time_slice' \in [Task -> Nat]
    BY <1>1, BoundAssumption DEF CmdStart, IInv, TypeOK, TaskState
  <1>4. current_task' = FirstTask /\ UNCHANGED <<cpu, ctx, alloc>>
    BY DEF CmdStart
  <1>5. StackInUseIsAllocated'
    BY <1>1, <1>2, <1>4 DEF IInv, StackInUseIsAllocated
  <1>6. OwnStack'
    BY <1>2, <1>4 DEF IInv, OwnStack
  <1>7. RunningIsCurrent'
    BY <1>1, <1>2, <1>4 DEF CmdStart, IInv, TypeOK, RunningIsCurrent
  <1>8. ExecOK'
    BY <1>1, <1>3, <1>4, <1>5, <1>6, <1>7 DEF ExecOK, IInv, TypeOK
  <1>9. RestOK'
    BY <1>2, StayLemma DEF CmdStart, IInv, TypeOK, RestOK, ListIsAlloc
  <1> QED BY <1>8, <1>9, SplitLemma

\* A write of READY to any TCB, freed or not, while idle or a sender runs.
LEMMA WakeStep ==
    ASSUME IInv, MessageWake \/ IdleWake
    PROVE  IInv'
  <1>1. PICK t : state' = [state EXCEPT ![t] = "READY"]
    BY DEF MessageWake, IdleWake
  <1>2. UNCHANGED <<sched, exec, priority, time_slice, ticks_since_boot, cleaners>>
    BY DEF MessageWake, IdleWake
  <1>3. ExecOK'
    <2>1. state' \in [Task -> TaskState]
      BY <1>1, NowLemma DEF TaskState
    <2>2. RunningIsCurrent'
      BY <1>1, <1>2 DEF IInv, TypeOK, RunningIsCurrent, sched, exec
    <2> QED BY <2>1, <2>2, <1>2
            DEF IInv, TypeOK, ExecOK, sched, exec, StackInUseIsAllocated, OwnStack
  <1>4. sleep_until' \in [Task -> Nat]
    BY NowLemma DEF MessageWake, IdleWake
  <1>5. pc' \in [Task -> PC] /\ loc' \in [Task -> LocType] /\ CleanerOK'
    <2>1. CASE MessageWake
      BY <2>1, StayLemma DEF MessageWake
    <2>2. CASE IdleWake
      <3>1. NoLocals \in LocType
        BY DEF NoLocals, LocType, Ptr
      <3>2. loc' \in [Task -> LocType] /\ pc' \in [Task -> PC]
        BY <2>2, <3>1 DEF IdleWake, Goto, IInv, TypeOK, PC
      <3>3. CleanerOK'
        BY <2>2 DEF IdleWake, Goto, IInv, TypeOK, CleanerOK
      <3> QED BY <3>2, <3>3
    <2> QED BY <2>1, <2>2
  <1>6. RestOK'
    BY <1>2, <1>4, <1>5, NowLemma, RestLemma
  <1> QED BY <1>3, <1>6, SplitLemma

\* The pointers the cleaner goes on with are TCBs or NULL.
LEMMA AdvanceLemma ==
    ASSUME IInv, NEW next \in Ptr, NEW start \in Ptr, Advance(next, start)
    PROVE  pc' \in [Task -> PC] /\ loc' \in [Task -> LocType] /\ CleanerOK'
  <1> DEFINE more == next \notin {NULL, start}
  <1>1. NoLocals \in LocType
    BY DEF NoLocals, LocType, Ptr
  <1>2. CASE more
    <2>1. next \in Task /\ [cur |-> next, next |-> NULL, start |-> start] \in LocType
      BY <1>2 DEF LocType, Ptr
    <2>2. /\ loc' = [loc EXCEPT ![cpu] = [cur |-> next, next |-> NULL, start |-> start]]
          /\ pc' = [pc EXCEPT ![cpu] = "scan"]
      BY <1>2 DEF Advance, Goto
    <2> QED BY <2>1, <2>2 DEF IInv, TypeOK, PC, CleanerOK
  <1>3. CASE ~more
    <2>1. /\ loc' = [loc EXCEPT ![cpu] = NoLocals]
          /\ \/ pc' = [pc EXCEPT ![cpu] = "chk"]
             \/ pc' = [pc EXCEPT ![cpu] = "nap"]
      BY <1>3 DEF Advance, Goto
    <2>2. pc' \in [Task -> PC] /\ loc' \in [Task -> LocType]
      BY <1>1, <2>1 DEF IInv, TypeOK, PC
    <2>3. CleanerOK'
      BY <2>1 DEF IInv, TypeOK, CleanerOK
    <2> QED BY <2>2, <2>3
  <1> QED BY <1>2, <1>3

\* t->next is a TCB, or NULL once t is unlinked.
LEMMA NextOfLemma ==
    ASSUME task_list \in Seq(Task), NEW t \in Task
    PROVE  NextOf(t) \in Ptr
  <1>1. CASE ~InList(t)
    BY <1>1 DEF NextOf, Ptr
  <1>2. CASE InList(t)
    <2> DEFINE n == Len(task_list)
    <2>1. n \in Nat /\ Pos(t) \in 1..n
      BY <1>2, PosLemma, LenProperties
    <2>2. Pos(t) % n \in 0..(n - 1)
      <3>1. n \in Nat \ {0} /\ Pos(t) \in Int
        BY <2>1
      <3> HIDE DEF n
      <3> QED BY <3>1, ModLemma
    <2>3. (Pos(t) % n) + 1 \in 1..n
      BY <2>1, <2>2
    <2>4. task_list[(Pos(t) % n) + 1] \in Task
      BY <2>3, ElementOfSeq
    <2> QED BY <1>2, <2>4 DEF NextOf, Ptr
  <1> QED BY <1>1, <1>2

\* The start of task_cleanup_zombies keeps the invariant.
LEMMA CleanBeginStep ==
    ASSUME IInv, CleanBegin
    PROVE  IInv'
  <1>1. Head(task_list) \in Task
    <2>1. Idle \in Range(task_list)
      BY DEF IInv, ListIsAlloc, StackInUseIsAllocated
    <2>2. Len(task_list) \in Nat /\ Len(task_list) # 0
      BY <2>1, LenProperties DEF Range, IInv, TypeOK
    <2> QED BY <2>2, ElementOfSeq DEF IInv, TypeOK
  <1>2. ExecOK'
    BY StillLemma DEF CleanBegin, sched, tcb
  <1>3. [cur |-> Head(task_list), next |-> NULL, start |-> Head(task_list)] \in LocType
    BY <1>1 DEF LocType, Ptr
  <1>4. pc' \in [Task -> PC] /\ loc' \in [Task -> LocType] /\ CleanerOK'
    BY <1>1, <1>3 DEF CleanBegin, Goto, IInv, TypeOK, PC, CleanerOK
  <1>5. RestOK'
    BY <1>4, NowLemma, RestLemma DEF CleanBegin, tcb
  <1> QED BY <1>2, <1>5, SplitLemma

\* Its search for the next zombie keeps the invariant.
LEMMA CleanScanStep ==
    ASSUME IInv, CleanScan
    PROVE  IInv'
  <1> DEFINE c == loc[cpu].cur
  <1>1. c \in Task /\ NextOf(c) \in Ptr /\ loc[cpu] \in LocType
    BY NextOfLemma DEF CleanScan, IInv, TypeOK, CleanerOK
  <1>2. ExecOK'
    BY StillLemma DEF CleanScan, sched, tcb
  <1>3. pc' \in [Task -> PC] /\ loc' \in [Task -> LocType] /\ CleanerOK'
    <2>1. CASE state[c] \in Dead /\ c # Idle
      <3>1. loc' = [loc EXCEPT ![cpu].next = NextOf(c)] /\ pc' = [pc EXCEPT ![cpu] = "destroy"]
        BY <2>1 DEF CleanScan, Goto
      <3>2. /\ [loc[cpu] EXCEPT !.next = NextOf(c)] \in LocType
            /\ [loc[cpu] EXCEPT !.next = NextOf(c)].cur = c
        BY <1>1 DEF LocType
      <3>3. loc' = [loc EXCEPT ![cpu] = [loc[cpu] EXCEPT !.next = NextOf(c)]]
        BY <3>1
      <3> HIDE DEF c
      <3> QED BY <3>1, <3>2, <3>3, <1>1, <2>1 DEF IInv, TypeOK, PC, CleanerOK
    <2>2. CASE ~(state[c] \in Dead /\ c # Idle)
      <3>1. Advance(NextOf(c), loc[cpu].start)
        BY <2>2 DEF CleanScan
      <3>2. loc[cpu].start \in Ptr
        BY <1>1 DEF LocType
      <3> QED BY <3>1, <3>2, <1>1, AdvanceLemma
    <2> QED BY <2>1, <2>2
  <1>4. RestOK'
    BY <1>3, NowLemma, RestLemma DEF CleanScan, tcb
  <1> QED BY <1>2, <1>4, SplitLemma

\* Its task_destroy keeps the invariant.
LEMMA CleanDestroyStep ==
    ASSUME IInv, CleanDestroy
    PROVE  IInv'
  <1> DEFINE l == loc[cpu]
  <1>1. l.cur \in Task /\ l.cur # Idle /\ l.next \in Ptr /\ l.start \in Ptr
    BY DEF CleanDestroy, IInv, TypeOK, CleanerOK, LocType
  <1>2. CASE l.cur = current_task
    BY <1>2, LeaveStep DEF CleanDestroy, Dead
  <1>3. CASE l.cur # current_task
    <2>1. Destroy(l.cur) /\ Advance(l.next, IF l.cur = l.start THEN l.next ELSE l.start)
      BY <1>3 DEF CleanDestroy
    <2> HIDE DEF l
    <2>2. (IF l.cur = l.start THEN l.next ELSE l.start) \in Ptr
      BY <1>1
    <2>3. pc' \in [Task -> PC] /\ loc' \in [Task -> LocType] /\ CleanerOK'
      BY <2>1, <2>2, <1>1, AdvanceLemma
    <2> QED BY <2>1, <2>3, <1>1, <1>3, DestroyStep
  <1> QED BY <1>2, <1>3

\* The idle loop's look at its own state keeps the invariant.
LEMMA IdleCheckStep ==
    ASSUME IInv, IdleCheck
    PROVE  IInv'
  <1>1. ExecOK'
    BY StillLemma DEF IdleCheck, sched, tcb
  <1>2. pc' \in [Task -> PC] /\ loc' \in [Task -> LocType] /\ CleanerOK'
    <2>1. CASE Goto("top") /\ UNCHANGED loc
      BY <2>1, GotoLemma DEF PC
    <2>2. CASE Goto("yld") /\ UNCHANGED loc
      BY <2>2, GotoLemma DEF PC
    <2>3. ASSUME NEW t \in Task, Goto("wake"), loc' = [loc EXCEPT ![cpu].cur = t]
          PROVE  pc' \in [Task -> PC] /\ loc' \in [Task -> LocType] /\ CleanerOK'
      <3>1. [loc[cpu] EXCEPT !.cur = t] \in LocType
        BY DEF IInv, TypeOK, LocType, Ptr
      <3>2. loc' = [loc EXCEPT ![cpu] = [loc[cpu] EXCEPT !.cur = t]]
        BY <2>3
      <3> QED BY <2>3, <3>1, <3>2 DEF Goto, IInv, TypeOK, PC, CleanerOK
    <2> QED BY <2>1, <2>2, <2>3 DEF IdleCheck
  <1>3. RestOK'
    BY <1>2, NowLemma, RestLemma DEF IdleCheck, tcb
  <1> QED BY <1>1, <1>3, SplitLemma

\* Nothing changes.
LEMMA StutterStep ==
    ASSUME IInv, UNCHANGED vars
    PROVE  IInv'
  BY DEF IInv, TypeOK, vars, ListIsAlloc, StackInUseIsAllocated, OwnStack,
         RunningIsCurrent, CleanerOK

-----------------------------------------------------------------------------
(* The theorems.                                                           *)

\* The boot of cmain establishes the invariant.
LEMMA InitLemma == Init => IInv
  <1> SUFFICES ASSUME Init PROVE IInv
    OBVIOUS
  <1> USE DEF Init
  <1>1. Len(BootList) \in Nat /\ DOMAIN BootList = 1..Len(BootList)
    BY TaskAssumption, LenProperties
  <1>2. BootList[1] = Idle /\ 1 \in DOMAIN BootList /\ 2 \in DOMAIN BootList
    BY <1>1, BootAssumption
  <1>3. BootList[2] \in Task /\ Range(BootList) \subseteq Task
    BY <1>1, <1>2, TaskAssumption, ElementOfSeq DEF Range
  <1>4. StackInUseIsAllocated
    BY <1>2 DEF StackInUseIsAllocated, Range
  <1>5. ListIsAlloc
    BY BootAssumption DEF ListIsAlloc
  <1>6. OwnStack
    BY <1>3 DEF OwnStack
  <1>7. RunningIsCurrent
    BY <1>3 DEF RunningIsCurrent
  <1>8. CleanerOK
    BY DEF CleanerOK
  <1>9. TypeOK
    <2>1. NoLocals \in LocType
      BY DEF NoLocals, LocType, Ptr
    <2>2. task_count \in 0..(COUNT_MOD - 1) /\ next_task_id \in Nat
      BY <1>1, BoundAssumption
    <2>3. ticks_since_boot \in 0..(TICK_MOD - 1) /\ starts \in 0..MaxStarts
      BY BoundAssumption
    <2>4. state \in [Task -> TaskState]
      BY DEF TaskState
    <2>5. time_slice \in [Task -> Nat] /\ sleep_until \in [Task -> Nat]
      BY BoundAssumption
    <2>6. cleaners \subseteq Task /\ pc \in [Task -> PC]
      BY <1>3, TaskAssumption DEF PC
    <2> QED BY <1>3, <2>1, <2>2, <2>3, <2>4, <2>5, <2>6, TaskAssumption DEF TypeOK
  <1> QED BY <1>4, <1>5, <1>6, <1>7, <1>8, <1>9 DEF IInv

\* Every step of the kernel preserves it.
LEMMA NextLemma == IInv /\ [Next]_vars => IInv'
  <1> SUFFICES ASSUME IInv, [Next]_vars PROVE IInv'
    OBVIOUS
  <1>1. CASE TimerTick
    BY <1>1, TimerTickStep
  <1>2. CASE Yield \/ LoopYield \/ SleepYield \/ CmdYield
    BY <1>2, YieldStep
  <1>3. CASE \E d \in 1..MaxSleep : SleepBegin(d)
    BY <1>3, SleepBeginStep
  <1>4. CASE SleepMark
    BY <1>4, SleepMarkStep
  <1>5. CASE Exit \/ Fault
    BY <1>5, ExitStep
  <1>6. CASE CreateCheck \/ Create \/ CmdCreate
    BY <1>6, CreateStep
  <1>7. CASE CmdKill
    BY <1>7, CmdKillStep
  <1>8. CASE MessageWake \/ IdleWake
    BY <1>8, WakeStep
  <1>9. CASE CleanBegin
    BY <1>9, CleanBeginStep
  <1>10. CASE CleanScan
    BY <1>10, CleanScanStep
  <1>11. CASE CleanDestroy
    BY <1>11, CleanDestroyStep
  <1>12. CASE IdleCheck
    BY <1>12, IdleCheckStep
  <1>13. CASE Halted \/ UNCHANGED vars
    BY <1>13, StutterStep DEF Halted
  <1>14. CASE \E d \in 1..MaxSleep : CmdSleep(d)
    BY <1>14, CmdSleepStep
  <1>15. CASE CmdStop \/ CmdStart
    BY <1>15, CmdStopStep, CmdStartStep
  <1> QED BY <1>1, <1>2, <1>3, <1>4, <1>5, <1>6, <1>7, <1>8, <1>9, <1>10, <1>11,
             <1>12, <1>13, <1>14, <1>15 DEF Next, ThreadStep, Command

\* The inductive invariant holds in every reachable state of the scheduler,
\* whatever is interrupted and however many tasks there are.
THEOREM Invariance == Spec => []IInv
  BY InitLemma, NextLemma, PTL DEF Spec

\* Every variable keeps its type.
THEOREM TypeCorrect == Spec => []TypeOK
  <1>1. IInv => TypeOK
    BY DEF IInv
  <1> QED BY <1>1, Invariance, PTL

\* The ring links exactly the allocated TCBs, each once, whatever the two
\* cleaners, "kill" and task_create do to it in between.
THEOREM RingWellFormed == Spec => []ListIsAlloc
  <1>1. IInv => ListIsAlloc
    BY DEF IInv
  <1> QED BY <1>1, Invariance, PTL

\* Until start_scheduler changes the current task the executing thread is the one
\* current_task names; the stacks of current_task and of idle are never freed.
THEOREM ExecutesOwnStack == Spec => [](OwnStack /\ StackInUseIsAllocated)
  <1>1. IInv => OwnStack /\ StackInUseIsAllocated
    BY DEF IInv
  <1> QED BY <1>1, Invariance, PTL

\* Until start_scheduler changes the current task, at most one task besides idle is
\* RUNNING, the current one.
THEOREM OneRunning == Spec => []RunningIsCurrent
  <1>1. IInv => RunningIsCurrent
    BY DEF IInv
  <1> QED BY <1>1, Invariance, PTL

-----------------------------------------------------------------------------
(* The choice of the next task.                                            *)

\* Along the ring every listed task is at a distance less than its length.
LEMMA DistType ==
    ASSUME IInv, NEW t \in Task, InList(t)
    PROVE  Dist(t) \in 0..(Len(task_list) - 1)
  <1>1. Len(task_list) \in Nat /\ Pos(t) \in 1..Len(task_list)
    BY PosLemma, LenProperties DEF IInv, TypeOK
  <1>2. Pos(current_task) \in 1..Len(task_list)
    BY PosLemma DEF IInv, TypeOK, StackInUseIsAllocated, ListIsAlloc, InList
  <1> DEFINE x == Pos(t) - Pos(current_task) - 1
             n == Len(task_list)
  <1>3. x \in Int /\ n \in Nat \ {0}
    BY <1>1, <1>2
  <1> HIDE DEF x, n
  <1>4. x % n \in 0..(n - 1)
    BY <1>3, ModLemma
  <1> QED BY <1>4 DEF Dist, x, n

\* When a task is READY the scan finds one: the priorities and then the
\* distances have a least element.
LEMMA NextExists ==
    ASSUME IInv, NEW st, \E t \in Task : Eligible(st, t)
    PROVE  \E t \in Task : IsNext(st, t)
  <1> DEFINE E == {t \in Task : Eligible(st, t)}
             P == {priority[t] : t \in E}
  <1>1. P \in SUBSET Nat /\ P # {}
    BY DEF IInv, TypeOK
  <1>2. PICK p \in P : \A q \in P : p <= q
    BY <1>1, LeastNat
  <1> DEFINE B == {t \in E : priority[t] = p}
             D == {Dist(t) : t \in B}
  <1>3. \A t \in E : Dist(t) \in Nat /\ priority[t] \in Nat
    <2> SUFFICES ASSUME NEW t \in E PROVE Dist(t) \in Nat /\ priority[t] \in Nat
      OBVIOUS
    <2>1. t \in Task /\ InList(t)
      BY DEF Eligible
    <2>2. Dist(t) \in 0..(Len(task_list) - 1)
      BY <2>1, DistType
    <2>3. priority[t] \in Nat
      BY <2>1 DEF IInv, TypeOK
    <2> QED BY <2>2, <2>3
  <1>4. D \in SUBSET Nat /\ D # {}
    BY <1>2, <1>3
  <1>5. PICK d \in D : \A e \in D : d <= e
    BY <1>4, LeastNat
  <1>6. PICK t \in B : Dist(t) = d
    BY <1>5
  <1>7. ASSUME NEW u \in Task, Eligible(st, u)
        PROVE  \/ priority[t] < priority[u]
               \/ priority[t] = priority[u] /\ Dist(t) <= Dist(u)
    <2>1. u \in E /\ p <= priority[u] /\ priority[u] \in Nat /\ p \in Nat
      BY <1>1, <1>2, <1>3, <1>7
    <2>2. CASE p < priority[u]
      BY <2>2, <1>6
    <2>3. CASE p = priority[u]
      <3>1. Dist(u) \in D
        BY <2>1, <2>3
      <3> QED BY <3>1, <2>3, <1>5, <1>6
    <2> QED BY <2>1, <2>2, <2>3
  <1>8. t \in Task /\ Eligible(st, t)
    BY <1>6
  <1> QED BY <1>7, <1>8 DEF IsNext

\* What scheduler_next_task returns when it can choose: a READY task, or
\* idle when there is none.
LEMMA NextTaskReady ==
    ASSUME IInv, NEW st, task_count # 0
    PROVE  /\ NextTask(st) # Idle => Eligible(st, NextTask(st))
           /\ NextTask(st) = Idle => \A t \in Task : ~Eligible(st, t)
  <1>1. CASE \E t \in Task : Eligible(st, t)
    <2>1. \E t \in Task : IsNext(st, t)
      BY <1>1, NextExists
    <2>2. IsNext(st, NextTask(st))
      BY <2>1 DEF NextTask
    <2>3. Eligible(st, NextTask(st))
      BY <2>2 DEF IsNext
    <2> QED BY <2>3 DEF Eligible
  <1>2. CASE \A t \in Task : ~Eligible(st, t)
    <2>1. \A t \in Task : ~IsNext(st, t)
      BY <1>2 DEF IsNext
    <2> QED BY <1>2, <2>1 DEF NextTask
  <1> QED BY <1>1, <1>2

\* idle never dies, and never waits for a tick: when start_scheduler has put it in
\* the place of a task that was falling asleep, the next tick wakes it.
IdleOK == state[Idle] \notin Dead /\ sleep_until[Idle] = 0

\* task_yield does not kill idle.
LEMMA YieldIdle ==
    ASSUME IInv, NEW st \in [Task -> TaskState], st[Idle] \notin Dead,
           YieldWith(st)
    PROVE  state'[Idle] \notin Dead
  <1>1. CASE NoSwitch(st, time_slice)
    BY <1>1 DEF NoSwitch
  <1>2. ASSUME NEW next, SwitchTo(next, YieldState(st), time_slice)
        PROVE  state'[Idle] \notin Dead
    <2>1. YieldState(st) \in [Task -> TaskState] /\ YieldState(st)[Idle] \notin Dead
      BY TaskAssumption DEF IInv, TypeOK, TaskState, Dead, YieldState, Preempted
    <2> QED BY <2>1, <1>2, TaskAssumption DEF SwitchTo, Dead
  <1> QED BY <1>1, <1>2 DEF YieldWith

\* Every step keeps idle alive.
LEMMA IdleStep == IInv /\ IdleOK /\ [Next]_vars => IdleOK'
  <1> SUFFICES ASSUME IInv, IdleOK, [Next]_vars PROVE IdleOK'
    OBVIOUS
  <1> USE TaskAssumption
  <1>0. /\ state \in [Task -> TaskState] /\ sleep_until \in [Task -> Nat]
        /\ cpu \in Task /\ current_task \in Task /\ Idle \in alloc
    BY DEF IInv, TypeOK, StackInUseIsAllocated
  <1>1. CASE TimerTick
    <2> DEFINE st == WakeSleepers(Tick)
    <2>1. st \in [Task -> TaskState] /\ st[Idle] \notin Dead
      BY <1>0 DEF IdleOK, WakeSleepers, TaskState, Dead
    <2>2. /\ Preempted(st) \in [Task -> TaskState]
          /\ Preempted(st)[Idle] \notin Dead
      BY <1>0, <2>1 DEF Preempted, TaskState, Dead
    <2> HIDE DEF st
    <2>3. state'[Idle] \notin Dead
      BY <1>1, <2>1, <2>2, <1>0 DEF TimerTick, SwitchTo, NoSwitch, IdleOK, st, Dead
    <2> QED BY <2>3, <1>1 DEF TimerTick, IdleOK
  <1>2. CASE Yield \/ LoopYield \/ SleepYield \/ CmdYield
    <2>1. state'[Idle] \notin Dead
      BY <1>0, <1>2, YieldIdle DEF Yield, LoopYield, SleepYield, CmdYield, IdleOK
    <2> QED BY <2>1, <1>2 DEF Yield, LoopYield, SleepYield, CmdYield, IdleOK
  <1>3. CASE \E d \in 1..MaxSleep : SleepBegin(d)
    BY <1>0, <1>3 DEF SleepBegin, IdleOK
  <1>4. CASE SleepMark
    BY <1>0, <1>4 DEF SleepMark, IdleOK, Dead
  <1>5. ASSUME NEW dead, current_task # Idle, Leave(dead), dead \in TaskState
        PROVE  IdleOK'
    <2> DEFINE st == [state EXCEPT ![current_task] = dead]
    <2>1. st \in [Task -> TaskState] /\ st[Idle] \notin Dead
      BY <1>0, <1>5 DEF IdleOK
    <2>2. YieldWith(st)
      BY <1>5 DEF Leave
    <2> HIDE DEF st
    <2>3. state'[Idle] \notin Dead
      BY <2>1, <2>2, YieldIdle
    <2> QED BY <2>3, <1>0, <1>5 DEF Leave, IdleOK
  <1>6. CASE Exit \/ Fault
    <2>1. CASE state[current_task] \in Dead /\ Exit
      BY <1>0, <2>1 DEF Exit, tcb, IdleOK
    <2> QED BY <2>1, <1>5, <1>6 DEF Exit, Fault, TaskState
  <1>7. CASE CreateCheck \/ Create \/ CmdCreate
    <2>1. ASSUME NEW t \in Task, NEW p \in Priority, NewTask(t, p)
          PROVE  IdleOK'
      BY <1>0, <2>1 DEF NewTask, IdleOK
    <2> QED BY <1>0, <1>7, <2>1 DEF CreateCheck, Create, CmdCreate, tcb, IdleOK
  <1>8. CASE CmdKill
    BY <1>0, <1>8 DEF CmdKill, Destroy, IdleOK
  <1>9. CASE MessageWake
    BY <1>0, <1>9 DEF MessageWake, IdleOK, Dead
  <1>10. CASE IdleWake
    BY <1>0, <1>10 DEF IdleWake, IdleOK, Dead
  <1>11. CASE CleanBegin \/ CleanScan \/ IdleCheck
    BY <1>0, <1>11 DEF CleanBegin, CleanScan, IdleCheck, tcb, IdleOK
  <1>12. CASE CleanDestroy
    <2>1. loc[cpu].cur # Idle
      BY <1>0, <1>12 DEF CleanDestroy, IInv, CleanerOK
    <2>2. CASE loc[cpu].cur = current_task
      BY <1>5, <1>12, <2>1, <2>2 DEF CleanDestroy, TaskState
    <2>3. CASE loc[cpu].cur # current_task
      BY <1>0, <1>12, <2>1, <2>3 DEF CleanDestroy, Destroy, IdleOK
    <2> QED BY <2>2, <2>3
  <1>13. CASE Halted \/ UNCHANGED vars
    BY <1>13 DEF Halted, vars, IdleOK
  <1>14. CASE \E d \in 1..MaxSleep : CmdSleep(d)
    <2> DEFINE st == [state EXCEPT ![current_task] = "SLEEPING"]
    <2>1. PICK d \in 1..MaxSleep : CmdSleep(d)
      BY <1>14
    <2>2. st \in [Task -> TaskState] /\ st[Idle] \notin Dead
      BY <1>0, <2>1 DEF CmdSleep, IdleOK, TaskState
    <2>3. YieldWith(st)
      BY <2>1 DEF CmdSleep
    <2> HIDE DEF st
    <2>4. state'[Idle] \notin Dead
      BY <2>2, <2>3, YieldIdle
    <2> QED BY <2>1, <2>4, <1>0 DEF CmdSleep, IdleOK
  <1>15. CASE CmdStop \/ CmdStart
    BY <1>0, <1>15 DEF CmdStop, CmdStart, tcb, IdleOK, Dead
  <1> QED BY <1>1, <1>2, <1>3, <1>4, <1>6, <1>7, <1>8, <1>9, <1>10, <1>11, <1>12, <1>13,
             <1>14, <1>15 DEF Next, ThreadStep, Command

\* What one timer tick does, from the invariants.
LEMMA TickRuns ==
    ASSUME IInv, IdleOK, TimerTick, task_count # 0, scheduler_enabled
    PROVE  /\ current_task' = Idle => \A t \in alloc \ {Idle, current_task} : state'[t] # "READY"
           /\ state'[current_task'] \in {"READY", "RUNNING"}
  <1> USE TaskAssumption
  <1> DEFINE st == WakeSleepers(Tick)
             sl == SpendSlice(st)
             next == NextTask(st)
  <1>1. /\ st \in [Task -> TaskState] /\ st[Idle] \in {"READY", "RUNNING"}
        /\ alloc \subseteq Task /\ current_task \in Task /\ next \in alloc
    <2>1. st \in [Task -> TaskState]
      BY DEF IInv, TypeOK, WakeSleepers, TaskState
    <2>2. Tick \in 0..(TICK_MOD - 1)
      <3>1. ticks_since_boot + 1 \in Int
        BY NowLemma
      <3> QED BY <3>1, ModLemma, BoundAssumption DEF Tick
    <2>3. Tick >= sleep_until[Idle] /\ InList(Idle)
      BY <2>2, BoundAssumption DEF IdleOK, IInv, InList, ListIsAlloc, StackInUseIsAllocated
    <2>4. st[Idle] \in {"READY", "RUNNING"}
      BY <2>3 DEF WakeSleepers, Due, IdleOK, IInv, TypeOK, TaskState, Dead
    <2> QED BY <2>1, <2>4, NextTaskLemma DEF IInv, TypeOK
  <1>2. \A t \in alloc \ {Idle} : Eligible(st, t) <=> st[t] = "READY"
    BY DEF IInv, ListIsAlloc, Eligible, InList
  <1>3. next = Idle => \A t \in alloc \ {Idle} : st[t] # "READY"
    BY <1>1, <1>2, NextTaskReady
  <1>4. next # Idle => st[next] = "READY"
    BY <1>1, <1>2, NextTaskReady
  <1>5. IF ShouldSwitch(st, sl) /\ next # current_task
        THEN SwitchTo(next, Preempted(st), sl) ELSE NoSwitch(st, sl)
    BY DEF TimerTick, IdleOK
  <1> HIDE DEF st, sl, next
  <1>6. CASE SwitchTo(next, Preempted(st), sl)
    <2>1. \A t \in Task \ {current_task} : Preempted(st)[t] = st[t]
      BY <1>1 DEF Preempted
    <2>2. Preempted(st) \in [Task -> TaskState] /\ next \in Task
      BY <1>1 DEF Preempted, TaskState
    <2>3. current_task' = next /\ state' = [Preempted(st) EXCEPT ![next] = "RUNNING"]
      BY <1>6 DEF SwitchTo
    <2>4. state'[current_task'] = "RUNNING"
      BY <2>2, <2>3
    <2>5. ASSUME current_task' = Idle, NEW t \in alloc \ {Idle, current_task}
          PROVE  state'[t] # "READY"
      BY <1>1, <1>3, <2>1, <2>2, <2>3, <2>5
    <2> QED BY <2>4, <2>5
  <1>7. CASE NoSwitch(st, sl) /\ ShouldSwitch(st, sl) /\ next = current_task
    BY <1>1, <1>3, <1>4, <1>7 DEF NoSwitch, exec
  <1>8. CASE NoSwitch(st, sl) /\ ~ShouldSwitch(st, sl)
    BY <1>1, <1>2, <1>8 DEF NoSwitch, exec, ShouldSwitch
  <1> QED BY <1>5, <1>6, <1>7, <1>8

\* A timer tick leaves the CPU to idle only when no other task is READY, and
\* never to a task that is dead or asleep.
THEOREM TickChoosesRunnable == Spec => TickLeavesRunnable
  <1> DEFINE A == ticks_since_boot' # ticks_since_boot /\ task_count # 0 /\ scheduler_enabled =>
                    /\ current_task' = Idle =>
                          \A t \in alloc \ {Idle, current_task} : state'[t] # "READY"
                    /\ state'[current_task'] \in {"READY", "RUNNING"}
  <1>1. Init => IdleOK
    BY InitLemma, TaskAssumption, BootAssumption
       DEF Init, IdleOK, IInv, StackInUseIsAllocated, Dead
  <1>2. IInv /\ IdleOK /\ [Next]_vars => [A]_vars
    <2> SUFFICES ASSUME IInv, IdleOK, Next, ticks_since_boot' # ticks_since_boot PROVE A
      BY DEF vars
    <2>1. TimerTick
      BY DEF Next, ThreadStep, Command, Yield, LoopYield, SleepBegin, SleepMark, SleepYield,
             Exit, Fault, Leave, CreateCheck, Create, CmdCreate, NewTask, MessageWake,
             CleanBegin, CleanScan, CleanDestroy, Destroy, IdleCheck, IdleWake, CmdKill,
             CmdYield, CmdSleep, CmdStop, CmdStart, Halted, vars
    <2> QED BY <2>1, TickRuns
  <1> QED BY <1>1, <1>2, Invariance, IdleStep, PTL DEF Spec, TickLeavesRunnable

-----------------------------------------------------------------------------
(* The loop of scheduler_next_task and the task it finds.                  *)

\* The loop visits the tasks in the order of their distance from the
\* current one, each once.
LEMMA ScanOrder ==
    ASSUME IInv
    PROVE  /\ Len(task_list) \in Nat \ {0}
           /\ \A i \in 1..Len(task_list) :
                 ScanAt(i) \in Task /\ InList(ScanAt(i)) /\ Dist(ScanAt(i)) = i - 1
           /\ \A t \in Task : InList(t) => t = ScanAt(Dist(t) + 1) /\ Dist(t) + 1 \in 1..Len(task_list)
  <1> DEFINE n == Len(task_list)
             p == Pos(current_task)
  <1>1. /\ n \in Nat /\ DOMAIN task_list = 1..n
        /\ \A i \in 1..n : task_list[i] \in Task /\ InList(task_list[i])
        /\ \A i, j \in 1..n : task_list[i] = task_list[j] => i = j
    BY LenProperties, ElementOfSeq DEF IInv, TypeOK, ListIsAlloc, Distinct, InList, Range
  <1>2. p \in 1..n
    BY PosLemma DEF IInv, TypeOK, StackInUseIsAllocated, ListIsAlloc, InList
  <1>3. n \in Nat \ {0}
    BY <1>1, <1>2
  <1>4. \A t \in Task : InList(t) => Pos(t) \in 1..n /\ task_list[Pos(t)] = t
    BY PosLemma DEF IInv, TypeOK
  <1>5. \A i \in 1..n : Pos(task_list[i]) = i
    BY <1>1, <1>4
  <1> DEFINE Q(i) == ((p + i - 1) % n) + 1
             D(q) == (q - p - 1) % n
  <1>6. \A i \in 1..n : ScanAt(i) = task_list[Q(i)]
    BY DEF ScanAt
  <1>7. \A t \in Task : Dist(t) = D(Pos(t))
    BY DEF Dist
  <1> HIDE DEF n, p
  <1>8. ASSUME NEW i \in 1..n PROVE Q(i) \in 1..n /\ D(Q(i)) = i - 1
    <2>1. i \in Int /\ p \in Int
      BY <1>2, <1>3
    <2>2. CASE p + i - 1 < n
      <3>1. (p + i - 1) % n = p + i - 1
        BY <2>1, <2>2, <1>2, <1>3, <1>8
      <3>2. (i - 1) % n = i - 1
        BY <2>1, <1>3, <1>8
      <3>3. Q(i) = p + i /\ (p + i) - p - 1 = i - 1
        BY <3>1, <2>1
      <3> QED BY <3>2, <3>3, <2>1, <2>2, <1>2, <1>3, <1>8
    <2>3. CASE p + i - 1 >= n
      <3>1. (p + i - 1) % n = p + i - 1 - n
        BY <2>1, <2>3, <1>2, <1>3, <1>8
      <3>2. (i - 1 - n) % n = (i - 1 - n) + n
        BY <2>1, <1>3, <1>8
      <3>3. Q(i) = p + i - n /\ (p + i - n) - p - 1 = i - 1 - n
        BY <3>1, <2>1, <1>3
      <3> QED BY <3>2, <3>3, <2>1, <2>3, <1>2, <1>3, <1>8
    <2> QED BY <2>2, <2>3, <2>1, <1>3
  <1>9. ASSUME NEW q \in 1..n PROVE D(q) + 1 \in 1..n /\ Q(D(q) + 1) = q
    <2>1. q \in Int /\ p \in Int
      BY <1>2, <1>3
    <2>2. CASE q > p
      <3>1. (q - p - 1) % n = q - p - 1
        BY <2>1, <2>2, <1>2, <1>3, <1>9
      <3>2. (q - 1) % n = q - 1
        BY <2>1, <1>3, <1>9
      <3>3. D(q) + 1 = q - p /\ p + (q - p) - 1 = q - 1
        BY <3>1, <2>1
      <3> QED BY <3>2, <3>3, <2>1, <2>2, <1>2, <1>3, <1>9
    <2>3. CASE q <= p
      <3>1. (q - p - 1) % n = q - p - 1 + n
        BY <2>1, <2>3, <1>2, <1>3, <1>9
      <3>2. (q - 1 + n) % n = (q - 1 + n) - n
        BY <2>1, <1>3, <1>9
      <3>3. D(q) + 1 = q - p + n /\ p + (q - p + n) - 1 = q - 1 + n
        BY <3>1, <2>1, <1>3
      <3> QED BY <3>2, <3>3, <2>1, <2>3, <1>2, <1>3, <1>9
    <2> QED BY <2>2, <2>3, <2>1
  <1>10. ASSUME NEW i \in 1..n
         PROVE  ScanAt(i) \in Task /\ InList(ScanAt(i)) /\ Dist(ScanAt(i)) = i - 1
    BY <1>1, <1>5, <1>6, <1>7, <1>8 DEF n
  <1>11. ASSUME NEW t \in Task, InList(t)
         PROVE  t = ScanAt(Dist(t) + 1) /\ Dist(t) + 1 \in 1..n
    BY <1>4, <1>6, <1>7, <1>9, <1>11 DEF n
  <1> QED BY <1>3, <1>10, <1>11 DEF n

\* The loop's variable is well defined: each turn is computed from the last.
LEMMA ScanBestDef ==
    ASSUME Len(task_list) \in Nat
    PROVE  ScanBest = [i \in 0..Len(task_list) |->
                         IF i = 0 THEN NULL ELSE ScanStep(ScanBest[i - 1], ScanAt(i))]
  <1> DEFINE n == Len(task_list)
             Sol(m, g) == g = [i \in 0..m |-> IF i = 0 THEN NULL ELSE ScanStep(g[i - 1], ScanAt(i))]
             Bad == {m \in Nat : ~\E g : Sol(m, g)}
  <1>1. Bad = {}
    <2> SUFFICES ASSUME Bad # {} PROVE FALSE
      OBVIOUS
    <2>1. PICK m \in Bad : \A k \in Bad : m <= k
      BY LeastNat
    <2>2. Sol(0, [i \in 0..0 |-> NULL])
      OBVIOUS
    <2>3. m # 0
      BY <2>1, <2>2
    <2>4. m - 1 \in Nat /\ m - 1 \notin Bad
      <3>1. m \in Nat
        OBVIOUS
      <3> HIDE DEF Bad
      <3> QED BY <3>1, <2>1, <2>3
    <2>5. PICK g : Sol(m - 1, g)
      BY <2>4
    <2> DEFINE h == [i \in 0..m |-> IF i = m THEN ScanStep(g[m - 1], ScanAt(m)) ELSE g[i]]
    <2>6. \A i \in 0..m : h[i] = IF i = 0 THEN NULL ELSE ScanStep(h[i - 1], ScanAt(i))
      <3> SUFFICES ASSUME NEW i \in 0..m
                   PROVE  h[i] = IF i = 0 THEN NULL ELSE ScanStep(h[i - 1], ScanAt(i))
        OBVIOUS
      <3>1. CASE i = m
        <4>1. h[i] = ScanStep(g[m - 1], ScanAt(m))
          BY <3>1, <2>1
        <4>2. h[i - 1] = g[m - 1]
          BY <3>1, <2>1, <2>3
        <4> QED BY <4>1, <4>2, <3>1, <2>3
      <3>2. CASE i # m
        <4>1. i \in 0..(m - 1) /\ h[i] = g[i]
          BY <3>2, <2>1
        <4>2. g[i] = IF i = 0 THEN NULL ELSE ScanStep(g[i - 1], ScanAt(i))
          BY <4>1, <2>5
        <4>3. i # 0 => h[i - 1] = g[i - 1]
          BY <4>1, <2>1
        <4> QED BY <4>1, <4>2, <4>3
      <3> QED BY <3>1, <3>2
    <2>7. Sol(m, h)
      <3> HIDE DEF h
      <3>1. h = [i \in 0..m |-> h[i]]
        BY DEF h
      <3> QED BY <3>1, <2>6
    <2> QED BY <2>7, <2>1
  <1>2. \E g : Sol(n, g)
    BY <1>1
  <1>3. ScanBest = CHOOSE g : Sol(n, g)
    BY DEF ScanBest
  <1> QED BY <1>2, <1>3

\* The loop's invariant: after i turns the best is the first of the READY
\* tasks met so far with the smallest number, idle or none if there is none.
Met(i) == {j \in 1..i : Eligible(state, ScanAt(j))}
BestOf(i, j) ==
    /\ j \in Met(i)
    /\ \A k \in Met(i) : \/ priority[ScanAt(j)] < priority[ScanAt(k)]
                         \/ priority[ScanAt(j)] = priority[ScanAt(k)] /\ j <= k
ScanInv(i) ==
    IF Met(i) = {} THEN ScanBest[i] \in {NULL, Idle}
    ELSE \E j \in 1..i : BestOf(i, j) /\ ScanBest[i] = ScanAt(j)

\* One turn of the loop keeps its invariant.
LEMMA ScanTurn ==
    ASSUME IInv, NEW i \in 1..Len(task_list), ScanInv(i - 1)
    PROVE  ScanInv(i)
  <1> USE TaskAssumption
  <1> DEFINE t == ScanAt(i)
             b == ScanBest[i - 1]
  <1>0. Len(task_list) \in Nat /\ i \in Nat /\ i # 0 /\ i - 1 \in Nat
    BY ScanOrder
  <1>1. \A j \in 1..i : ScanAt(j) \in Task /\ InList(ScanAt(j)) /\ priority[ScanAt(j)] \in Nat
    <2>1. \A j \in 1..i : ScanAt(j) \in Task /\ InList(ScanAt(j))
      BY <1>0, ScanOrder
    <2>2. priority \in [Task -> Nat]
      BY DEF IInv, TypeOK
    <2> QED BY <2>1, <2>2
  <1>2. ScanBest[i] = ScanStep(b, t)
    BY <1>0, ScanBestDef
  <1>3. Met(i) = IF Eligible(state, t) THEN Met(i - 1) \cup {i} ELSE Met(i - 1)
    BY <1>0 DEF Met
  <1>4. i \notin Met(i - 1) /\ Met(i - 1) \subseteq 1..(i - 1)
    BY <1>0 DEF Met
  <1>5. t \in Task /\ InList(t) /\ priority[t] \in Nat
    BY <1>1, <1>0
  <1> HIDE DEF t, b
  <1>6. CASE ~Eligible(state, t)
    <2>1. Met(i) = Met(i - 1)
      BY <1>3, <1>6
    <2>2. \/ ScanBest[i] = b
          \/ b = NULL /\ ScanBest[i] = Idle
      <3>1. CASE state[t] # "READY"
        BY <3>1, <1>2 DEF ScanStep
      <3>2. CASE state[t] = "READY" /\ t = Idle
        BY <3>2, <1>2 DEF ScanStep
      <3> QED BY <1>5, <1>6, <3>1, <3>2 DEF Eligible
    <2>3. CASE Met(i - 1) = {}
      BY <2>1, <2>2, <2>3 DEF ScanInv, b
    <2>4. CASE Met(i - 1) # {}
      <3>1. PICK j \in 1..(i - 1) : BestOf(i - 1, j) /\ b = ScanAt(j)
        BY <2>4 DEF ScanInv, b
      <3>2. j \in 1..i /\ b # NULL
        BY <3>1, <1>0, <1>1
      <3>3. BestOf(i, j)
        BY <3>1, <2>1 DEF BestOf
      <3> QED BY <3>1, <3>2, <3>3, <2>1, <2>2, <2>4 DEF ScanInv
    <2> QED BY <2>3, <2>4
  <1>7. CASE Eligible(state, t)
    <2>1. Met(i) = Met(i - 1) \cup {i} /\ Met(i) # {}
      BY <1>3, <1>7
    <2>2. state[t] = "READY" /\ t # Idle
      BY <1>7 DEF Eligible
    <2>3. ScanBest[i] = IF b \in {NULL, Idle} THEN t
                        ELSE IF priority[t] < priority[b] THEN t ELSE b
      BY <2>2, <1>2 DEF ScanStep
    <2>4. CASE Met(i - 1) = {}
      <3>1. ScanBest[i] = ScanAt(i)
        BY <2>3, <2>4 DEF ScanInv, b, t
      <3>2. BestOf(i, i)
        BY <2>1, <2>4, <1>0, <1>1 DEF BestOf
      <3> QED BY <3>1, <3>2, <2>1, <1>0 DEF ScanInv
    <2>5. CASE Met(i - 1) # {}
      <3>1. PICK j \in 1..(i - 1) : BestOf(i - 1, j) /\ b = ScanAt(j)
        BY <2>5 DEF ScanInv, b
      <3>2. b \notin {NULL, Idle} /\ j \in 1..i
        BY <3>1, <1>0, <1>1 DEF BestOf, Met, Eligible
      <3>3. CASE priority[t] < priority[b]
        <4>1. BestOf(i, i)
          <5>1. ASSUME NEW k \in Met(i - 1) PROVE priority[ScanAt(i)] < priority[ScanAt(k)]
            <6>1. priority[b] < priority[ScanAt(k)] \/ priority[b] = priority[ScanAt(k)]
              BY <3>1, <5>1 DEF BestOf
            <6>2. k \in 1..i
              BY <1>0, <1>4, <5>1
            <6>3. priority[ScanAt(k)] \in Nat /\ priority[b] \in Nat
              BY <6>2, <1>1, <3>1, <3>2
            <6> QED BY <6>1, <6>3, <3>3, <1>5 DEF t
          <5> QED BY <5>1, <2>1, <1>0 DEF BestOf
        <4> QED BY <4>1, <2>1, <2>3, <3>2, <3>3, <1>0 DEF ScanInv, t
      <3>4. CASE ~(priority[t] < priority[b])
        <4>1. BestOf(i, j)
          <5>1. priority[b] <= priority[ScanAt(i)]
            BY <3>1, <3>2, <3>4, <1>1, <1>5 DEF t
          <5>2. priority[b] < priority[ScanAt(i)] \/ (priority[b] = priority[ScanAt(i)] /\ j <= i)
            BY <5>1, <3>1, <3>2, <1>0, <1>1
          <5> QED BY <5>2, <3>1, <2>1 DEF BestOf
        <4> QED BY <4>1, <2>1, <2>3, <3>1, <3>2, <3>4 DEF ScanInv
      <3> QED BY <3>3, <3>4
    <2> QED BY <2>4, <2>5
  <1> QED BY <1>6, <1>7

\* The loop ends with its invariant.
LEMMA ScanEnds ==
    ASSUME IInv
    PROVE  ScanInv(Len(task_list))
  <1> DEFINE n == Len(task_list)
             Bad == {i \in 0..n : ~ScanInv(i)}
  <1>1. n \in Nat
    BY ScanOrder
  <1>2. Bad = {}
    <2> SUFFICES ASSUME Bad # {} PROVE FALSE
      OBVIOUS
    <2>1. Bad \in SUBSET Nat
      BY <1>1
    <2>2. PICK i \in Bad : \A k \in Bad : i <= k
      BY <2>1, LeastNat
    <2>3. ScanInv(0)
      <3>1. Met(0) = {}
        BY DEF Met
      <3>2. ScanBest[0] = NULL
        BY <1>1, ScanBestDef
      <3> QED BY <3>1, <3>2 DEF ScanInv
    <2>4. i \in 1..n
      BY <2>2, <2>3, <1>1
    <2>5. i - 1 \in 0..n /\ ~(i <= i - 1)
      BY <2>4, <1>1
    <2>6. ScanInv(i - 1)
      BY <2>2, <2>5
    <2> QED BY <2>2, <2>4, <2>6, ScanTurn
  <1> QED BY <1>1, <1>2

\* The READY task of highest priority that comes first round robin is unique.
LEMMA NextUnique ==
    ASSUME IInv, NEW t \in Task, NEW u \in Task, IsNext(state, t), IsNext(state, u)
    PROVE  t = u
  <1>1. /\ InList(t) /\ InList(u) /\ priority[t] \in Nat /\ priority[u] \in Nat
        /\ Eligible(state, t) /\ Eligible(state, u)
    BY DEF IsNext, Eligible, IInv, TypeOK
  <1>2. Dist(t) \in Int /\ Dist(u) \in Int
    BY <1>1, DistType
  <1>3. Dist(t) = Dist(u)
    BY <1>1, <1>2 DEF IsNext
  <1> QED BY <1>1, <1>3, ScanOrder

\* In every reachable state the loop of scheduler_next_task returns the READY
\* task of highest priority that comes first round robin after the current
\* one, and idle only when there is none.
THEOREM LoopFindsNext == Spec => []ScanAgrees
  <1>1. IInv => ScanAgrees
    <2> SUFFICES ASSUME IInv PROVE ScanAgrees
      OBVIOUS
    <2> USE TaskAssumption
    <2> DEFINE n == Len(task_list)
    <2>1. n \in Nat \ {0} /\ ScanInv(n)
      BY ScanOrder, ScanEnds
    <2>2. \A t \in Task : Eligible(state, t) => Dist(t) + 1 \in Met(n) /\ t = ScanAt(Dist(t) + 1)
      BY ScanOrder DEF Met, Eligible
    <2>3. CASE Met(n) = {}
      <3>1. \A t \in Task : ~IsNext(state, t)
        BY <2>2, <2>3 DEF IsNext
      <3>2. NextTask(state) = Idle
        BY <3>1 DEF NextTask
      <3>3. ScanLoop = Idle
        BY <2>1, <2>3 DEF ScanLoop, ScanInv
      <3> QED BY <3>2, <3>3 DEF ScanAgrees
    <2>4. CASE Met(n) # {}
      <3>1. PICK j \in 1..n : BestOf(n, j) /\ ScanBest[n] = ScanAt(j)
        BY <2>1, <2>4 DEF ScanInv
      <3> DEFINE t == ScanAt(j)
      <3>2. t \in Task /\ Eligible(state, t) /\ t # NULL /\ Dist(t) = j - 1 /\ InList(t)
        BY <3>1, ScanOrder DEF BestOf, Met
      <3>3. ASSUME NEW u \in Task, Eligible(state, u)
            PROVE  \/ priority[t] < priority[u]
                   \/ priority[t] = priority[u] /\ Dist(t) <= Dist(u)
        <4>1. /\ Dist(u) + 1 \in Met(n) /\ u = ScanAt(Dist(u) + 1)
              /\ j \in Int /\ Dist(u) + 1 \in Int
          BY <2>1, <2>2, <3>3 DEF Met
        <4>2. InList(u) /\ Dist(u) \in Int
          BY <3>3, <2>1, DistType DEF Eligible
        <4> HIDE DEF t
        <4>3. \/ priority[t] < priority[u]
              \/ priority[t] = priority[u] /\ j <= Dist(u) + 1
          BY <3>1, <4>1 DEF BestOf, t
        <4> QED BY <3>2, <4>1, <4>2, <4>3
      <3>4. IsNext(state, t)
        BY <3>2, <3>3 DEF IsNext
      <3> HIDE DEF t
      <3>5. \A u \in Task : IsNext(state, u) => u = t
        BY <3>2, <3>4, NextUnique
      <3>6. task_count # 0 => NextTask(state) = t
        BY <3>2, <3>4, <3>5 DEF NextTask
      <3>7. ScanLoop = IF task_count = 0 THEN Idle ELSE t
        BY <3>1, <3>2 DEF ScanLoop, t
      <3> QED BY <3>6, <3>7 DEF ScanAgrees, NextTask
    <2> QED BY <2>3, <2>4
  <1> QED BY <1>1, Invariance, PTL

\* No destroyer ever frees the stack in use or idle's TCB.
THEOREM StackKept == Spec => []StackInUseIsAllocated
  <1>1. IInv => StackInUseIsAllocated
    BY DEF IInv
  <1> QED BY <1>1, Invariance, PTL
=============================================================================
