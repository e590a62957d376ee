----------------------------- MODULE Scheduler -----------------------------
(***************************************************************************)
(* The AlvOS task scheduler (task.c, the zombie cleaner of task_utils.c,   *)
(* the timer interrupt of irq.c and the task commands of terminal.c).      *)
(*                                                                         *)
(* One CPU executes one thread of control at a time.  A thread is named    *)
(* after the TCB it was created with; "cpu" is the thread that really      *)
(* executes and "current_task" what scheduler.current_task says.  A        *)
(* context switch stores the executing thread in the TCB current_task      *)
(* points to and resumes the thread stored in the chosen one (ctx).        *)
(*                                                                         *)
(* Atomicity: code between cli and popf is one step; elsewhere a thread    *)
(* may be interrupted (a timer tick or a keyboard command) between two     *)
(* accesses to shared state, and its program counter pc shows where.       *)
(*                                                                         *)
(* Once start_scheduler has made another task current (starts > 0) a       *)
(* thread may outlive its TCB; when that is handed out again the two       *)
(* share a stack, and here a name: the thread goes on as the new one.      *)
(***************************************************************************)
EXTENDS Integers, Sequences, FiniteSets, Functions

CONSTANTS
    Task,           \* the addresses kernel_malloc may return for a TCB
    Idle,           \* the TCB of the idle task
    BootList,       \* the TCBs cmain creates, in creation order
    BootPriority,   \* their priorities
    BootCleaners,   \* idle and cleanupd: they run task_cleanup_zombies
    Priority,       \* the priorities a later task_create may be given
    MAX_TASKS,      \* limit tested by task_create
    QUANTUM,        \* scheduler.quantum_ticks
    MaxSleep,       \* longest sleep, in ticks
    TICK_MOD,       \* ticks_since_boot is a uint32_t: it wraps here
    COUNT_MOD,      \* task_count is a uint32_t: it wraps here
    MaxId,          \* bound on the task ids ever given out
    MaxStarts,      \* bound on the start_scheduler commands that change current_task;
                    \* with 0 the scheduler is not stopped either
    NULL

Distinct(s) == \A i, j \in 1..Len(s) : s[i] = s[j] => i = j

ASSUME TaskAssumption ==
    /\ Idle \in Task
    /\ NULL \notin Task
    /\ BootList \in Seq(Task)
    /\ BootPriority \in [Task -> Nat]
    /\ Priority \subseteq Nat
    /\ BootCleaners \subseteq Range(BootList)

\* Idle is created first (task_init), every TCB once, and cmain stops the
\* boot when "main_loop" cannot be created: a task other than idle exists.
ASSUME BootAssumption ==
    /\ Len(BootList) >= 2
    /\ BootList[1] = Idle
    /\ Distinct(BootList)

ASSUME BoundAssumption ==
    /\ MAX_TASKS \in Nat
    /\ QUANTUM \in Nat
    /\ MaxSleep \in Nat \ {0}
    /\ TICK_MOD \in Nat \ {0}
    /\ COUNT_MOD \in Nat \ {0}
    /\ Len(BootList) < COUNT_MOD
    /\ MaxId \in Nat
    /\ MaxStarts \in Nat

VARIABLES
    task_list,          \* circular list, head first, as a sequence
    alloc,              \* TCBs the heap has handed out
    state, priority, time_slice, sleep_until,   \* fields of each TCB
    current_task, next_task_id, task_count, scheduler_enabled,
    ticks_since_boot,
    cpu,                \* the thread that executes
    ctx,                \* the thread saved in each TCB's context
    pc,                 \* where each thread is
    cleaners,           \* threads whose entry point runs the zombie cleaner
    loc,                \* locals of task_cleanup_zombies / the idle loop
    starts              \* history: how often start_scheduler put another task in charge

tcb   == <<state, priority, time_slice, sleep_until>>
sched == <<task_list, alloc, next_task_id, task_count, scheduler_enabled, starts>>
exec  == <<current_task, cpu, ctx>>
vars  == <<task_list, alloc, state, priority, time_slice, sleep_until,
           current_task, next_task_id, task_count, scheduler_enabled, ticks_since_boot,
           cpu, ctx, pc, cleaners, loc, starts>>

TaskState == {"READY", "RUNNING", "SLEEPING", "FINISHED", "ZOMBIE"}
Dead      == {"FINISHED", "ZOMBIE"}
Ptr       == Task \cup {NULL}
NoLocals  == [cur |-> NULL, next |-> NULL, start |-> NULL]

(***************************************************************************)
(* Where a thread may be:                                                  *)
(*   run     in its own code                                               *)
(*   create  in task_create, past the MAX_TASKS test, before its cli       *)
(*   slp1    in task_sleep, wake tick computed                             *)
(*   slp2    in task_sleep, state SLEEPING set, before task_yield          *)
(*   top     at the top of the idle or cleanupd loop                       *)
(*   scan    in task_cleanup_zombies, at the top of its loop               *)
(*   destroy in task_cleanup_zombies, dead task seen, task_destroy not yet *)
(*   nap     cleanupd, before task_sleep                                   *)
(*   chk     idle, looking for a ready task                                *)
(*   wake    idle, in task_is_ready: a due sleeper seen, READY not written *)
(*   yld     idle or cleanupd, before task_yield                           *)
(*   halt    past the last task_yield of task_exit or task_destroy: if it  *)
(*           executes again it halts the machine with interrupts off       *)
(***************************************************************************)
PC == {"run", "create", "slp1", "slp2", "top", "scan", "destroy", "nap",
       "chk", "wake", "yld", "halt"}

-----------------------------------------------------------------------------
(* The circular list.                                                      *)

InList(t) == t \in Range(task_list)
Pos(t)    == CHOOSE i \in 1..Len(task_list) : task_list[i] = t

\* t->next: deleted TCBs have it cleared, and keep it so until reused.
NextOf(t) == IF InList(t) THEN task_list[(Pos(t) % Len(task_list)) + 1] ELSE NULL

\* add_task_to_list: before the head of the circular list, i.e. at the end.
AddToList(t) == Append(task_list, t)

\* Fault: the successor is unlinked in place of t.
RemoveSuccessor(t) ==
    IF ~InList(t) THEN task_list
    ELSE [j \in 1..(Len(task_list) - 1) |->
             IF j <= Pos(t) THEN task_list[j] ELSE task_list[j + 1]]

\* remove_task_from_list; a head that goes leaves its successor as head.
RemoveFromList(t) ==
    IF ~InList(t) THEN task_list
    ELSE [j \in 1..(Len(task_list) - 1) |->
             IF j < Pos(t) THEN task_list[j] ELSE task_list[j + 1]]

-----------------------------------------------------------------------------
(* scheduler_next_task, for the task states st.                            *)

Eligible(st, t) == t # Idle /\ InList(t) /\ st[t] = "READY"

\* Fault: the scan starts at the head of the list.
DistFromHead(t) == Pos(t)

\* How far t is from current_task->next along the ring; current_task is last.
Dist(t) == (Pos(t) - Pos(current_task) - 1) % Len(task_list)

\* The scan keeps the first READY task with the strictly smallest number.
IsNext(st, t) ==
    /\ Eligible(st, t)
    /\ \A u \in Task : Eligible(st, u) =>
          \/ priority[t] < priority[u]
          \/ priority[t] = priority[u] /\ Dist(t) <= Dist(u)

NextTask(st) ==
    IF task_count # 0 /\ \E t \in Task : IsNext(st, t)
    THEN CHOOSE t \in Task : IsNext(st, t)
    ELSE Idle

\* Fault: current_task is assigned before the switch reads it.
SwitchAfterAssign(next, st, sl) ==
    /\ state' = [st EXCEPT ![next] = "RUNNING"]
    /\ time_slice' = [sl EXCEPT ![next] = QUANTUM]
    /\ current_task' = next
    /\ ctx' = [ctx EXCEPT ![next] = cpu]
    /\ cpu' = cpu

(* The tail of task_yield and scheduler_tick: "next" becomes current.  st  *)
(* and sl are the states and slices so far.                                *)
SwitchTo(next, st, sl) ==
    /\ state' = [st EXCEPT ![next] = "RUNNING"]
    /\ time_slice' = [sl EXCEPT ![next] = QUANTUM]
    /\ current_task' = next
    /\ ctx' = [ctx EXCEPT ![current_task] = cpu]
    /\ cpu' = ctx[next]

NoSwitch(st, sl) ==
    /\ state' = st
    /\ time_slice' = sl
    /\ UNCHANGED exec

\* The task that leaves is READY again if it was RUNNING; an idle task that
\* yields keeps RUNNING (task_yield excludes it, scheduler_tick does not).
Preempted(st)  == IF st[current_task] = "RUNNING"
                  THEN [st EXCEPT ![current_task] = "READY"] ELSE st
\* Fault: the task that yields keeps its state.
YieldKeepsState(st) == st
YieldState(st) == IF current_task # Idle THEN Preempted(st) ELSE st

\* task_yield, when the caller has already brought the states to st.
YieldWith(st) ==
    LET next == NextTask(st)
    IN  IF scheduler_enabled /\ next # current_task
        THEN SwitchTo(next, YieldState(st), time_slice)
        ELSE NoSwitch(st, time_slice)

Goto(l) == pc' = [pc EXCEPT ![cpu] = l]

\* Interrupts reach the CPU unless it sits in a "cli; hlt" loop.
InterruptsOn == pc[cpu] # "halt"

-----------------------------------------------------------------------------
(* timer_irq_handler, scheduler_tick and task_update_sleep_states.         *)

\* Fault: a counter that does not wrap.
TickNoWrap == ticks_since_boot + 1

Tick == (ticks_since_boot + 1) % TICK_MOD

\* Fault: a sleeper is due only after its tick.
DueLate(now, t) == state[t] = "SLEEPING" /\ now > sleep_until[t]

\* Not wrap-safe: the comparison is between unsigned tick counts.
Due(now, t) == state[t] = "SLEEPING" /\ now >= sleep_until[t]

WakeSleepers(now) ==
    [t \in Task |-> IF InList(t) /\ Due(now, t) THEN "READY" ELSE state[t]]

\* Fault: the last tick of a slice is never spent.
SpendAllButLast(st) ==
    IF current_task # Idle /\ st[current_task] = "RUNNING" /\ time_slice[current_task] > 1
    THEN [time_slice EXCEPT ![current_task] = @ - 1]
    ELSE time_slice

SpendSlice(st) ==
    IF current_task # Idle /\ st[current_task] = "RUNNING" /\ time_slice[current_task] > 0
    THEN [time_slice EXCEPT ![current_task] = @ - 1]
    ELSE time_slice

\* Fault: only an expired slice takes the CPU from a task.
SwitchOnSlice(st, sl) ==
    IF current_task # Idle THEN sl[current_task] = 0
    ELSE \E t \in Task : Eligible(st, t)

ShouldSwitch(st, sl) ==
    IF st[current_task] # "RUNNING" THEN TRUE
    ELSE IF current_task # Idle THEN sl[current_task] = 0
    ELSE \E t \in Task : Eligible(st, t)

TimerTick ==
    /\ InterruptsOn
    /\ ticks_since_boot' = Tick
    /\ IF scheduler_enabled
       THEN LET st   == WakeSleepers(Tick)
                sl   == SpendSlice(st)
                next == NextTask(st)
            IN  IF ShouldSwitch(st, sl) /\ next # current_task
                THEN SwitchTo(next, Preempted(st), sl)
                ELSE NoSwitch(st, sl)
       ELSE NoSwitch(state, time_slice)
    /\ UNCHANGED <<sched, priority, sleep_until, pc, cleaners, loc>>

-----------------------------------------------------------------------------
(* task_yield, task_sleep, task_exit by the executing thread.              *)

Yield ==
    /\ pc[cpu] = "run"
    /\ YieldWith(state)
    /\ UNCHANGED <<sched, priority, sleep_until, ticks_since_boot, pc, cleaners, loc>>

\* The yield that ends an iteration of the idle and cleanupd loops.
LoopYield ==
    /\ pc[cpu] = "yld"
    /\ Goto("top")
    /\ YieldWith(state)
    /\ UNCHANGED <<sched, priority, sleep_until, ticks_since_boot, cleaners, loc>>

\* d is the sleep rounded up to ticks, at least one.
SleepBegin(d) ==
    /\ pc[cpu] \in {"run", "nap"}
    /\ current_task # Idle
    /\ sleep_until' = [sleep_until EXCEPT ![current_task] = (ticks_since_boot + d) % TICK_MOD]
    /\ Goto("slp1")
    /\ UNCHANGED <<sched, exec, state, priority, time_slice, ticks_since_boot, cleaners, loc>>

SleepMark ==
    /\ pc[cpu] = "slp1"
    /\ state' = [state EXCEPT ![current_task] = "SLEEPING"]
    /\ Goto("slp2")
    /\ UNCHANGED <<sched, exec, priority, time_slice, sleep_until, ticks_since_boot, cleaners, loc>>

\* task_sleep returns to its caller; cleanupd goes on with a task_yield.
SleepYield ==
    /\ pc[cpu] = "slp2"
    /\ Goto(IF cpu \in cleaners THEN "yld" ELSE "run")
    /\ YieldWith(state)
    /\ UNCHANGED <<sched, priority, sleep_until, ticks_since_boot, cleaners, loc>>

\* Mark the current task dead and give the CPU away for ever.
Leave(dead) ==
    /\ Goto("halt")
    /\ YieldWith([state EXCEPT ![current_task] = dead])
    /\ UNCHANGED <<sched, priority, sleep_until, ticks_since_boot, cleaners, loc>>

\* task_exit, also reached when a task's function returns.  A task that is
\* already dead stops the machine at once.
Exit ==
    /\ pc[cpu] = "run"
    /\ current_task # Idle
    /\ IF state[current_task] \in Dead
       THEN Goto("halt") /\ UNCHANGED <<sched, tcb, exec, ticks_since_boot, cleaners, loc>>
       ELSE Leave("FINISHED")

\* An exception in user mode destroys the current task.
Fault ==
    /\ pc[cpu] = "run"
    /\ current_task # Idle
    /\ Leave("ZOMBIE")

-----------------------------------------------------------------------------
(* task_create.                                                            *)

\* allocate_task ... task->state = TASK_READY, under cli.
NewTask(t, p) ==
    /\ t \notin alloc
    /\ next_task_id <= MaxId
    /\ next_task_id' = next_task_id + 1
    /\ alloc' = alloc \cup {t}
    /\ task_list' = AddToList(t)
    /\ task_count' = (task_count + 1) % COUNT_MOD
    /\ state' = [state EXCEPT ![t] = "READY"]
    /\ priority' = [priority EXCEPT ![t] = p]
    /\ time_slice' = [time_slice EXCEPT ![t] = QUANTUM]
    /\ sleep_until' = [sleep_until EXCEPT ![t] = 0]
    /\ ctx' = [ctx EXCEPT ![t] = t]
    /\ cleaners' = cleaners \ {t}
    /\ UNCHANGED <<scheduler_enabled, starts, current_task, cpu, ticks_since_boot, loc>>

\* The limit is tested with interrupts on.
CreateCheck ==
    /\ pc[cpu] = "run"
    /\ task_count < MAX_TASKS
    /\ Goto("create")
    /\ UNCHANGED <<sched, tcb, exec, ticks_since_boot, cleaners, loc>>

\* With interrupts off; kernel_malloc may fail.
Create ==
    /\ pc[cpu] = "create"
    /\ \/ \E t \in Task, p \in Priority :
             /\ NewTask(t, p)
             /\ pc' = [pc EXCEPT ![cpu] = "run", ![t] = "run"]
       \/ /\ Goto("run")
          /\ UNCHANGED <<sched, tcb, exec, ticks_since_boot, cleaners, loc>>

\* A terminal command that starts a task runs inside the keyboard interrupt.
CmdCreate ==
    /\ InterruptsOn
    /\ task_count < MAX_TASKS
    /\ \E t \in Task, p \in Priority :
          NewTask(t, p) /\ pc' = [pc EXCEPT ![t] = "run"]

-----------------------------------------------------------------------------
(* task_destroy of a task other than the current one, and its callers.     *)

\* A TCB that is not in the list (destroyed a second time through a stale
\* pointer) has no neighbours left to relink and its memory is already free,
\* but the count still goes down.
Destroy(t) ==
    /\ state' = [state EXCEPT ![t] = "ZOMBIE"]
    /\ task_list' = RemoveFromList(t)
    /\ alloc' = alloc \ {t}
    /\ task_count' = (task_count - 1) % COUNT_MOD
    /\ UNCHANGED <<next_task_id, scheduler_enabled, starts, priority, time_slice, sleep_until,
                   exec, ticks_since_boot, cleaners>>

\* Fault: "kill" accepts the idle task.
CmdKillAny ==
    /\ InterruptsOn
    /\ \E t \in Task : InList(t) /\ t # current_task /\ Destroy(t)
    /\ UNCHANGED <<pc, loc>>

\* The "kill" command.
CmdKill ==
    /\ InterruptsOn
    /\ \E t \in Task : /\ InList(t)
                       /\ t # current_task
                       /\ t # Idle
                       /\ Destroy(t)
    /\ UNCHANGED <<pc, loc>>

\* The "yield" command, on whatever thread was interrupted.
CmdYield ==
    /\ InterruptsOn
    /\ YieldWith(state)
    /\ UNCHANGED <<sched, priority, sleep_until, ticks_since_boot, pc, cleaners, loc>>

\* The "sleep" command puts the interrupted task to sleep, all inside the interrupt.
CmdSleep(d) ==
    /\ InterruptsOn
    /\ current_task # Idle
    /\ sleep_until' = [sleep_until EXCEPT ![current_task] = (ticks_since_boot + d) % TICK_MOD]
    /\ YieldWith([state EXCEPT ![current_task] = "SLEEPING"])
    /\ UNCHANGED <<sched, priority, ticks_since_boot, pc, cleaners, loc>>

\* The "stop_scheduler" command.
CmdStop ==
    /\ InterruptsOn
    /\ MaxStarts > 0
    /\ scheduler_enabled' = FALSE
    /\ UNCHANGED <<task_list, alloc, next_task_id, task_count, starts, tcb, exec,
                   ticks_since_boot, pc, cleaners, loc>>

\* scheduler_start picks the first READY task of the list, idle if there is
\* none, and makes it current; no context switch follows.
FirstTask ==
    LET ready == { t \in Task : Eligible(state, t) }
    IN  IF ready = {} THEN Idle
        ELSE CHOOSE t \in ready : \A u \in ready : Pos(t) <= Pos(u)

\* The "start_scheduler" command.  The thread that was interrupted goes on, but as
\* the task that is now current: the next switch saves its stack pointer there.
CmdStart ==
    /\ InterruptsOn
    /\ task_count # 0
    /\ FirstTask = current_task \/ starts < MaxStarts
    /\ state' = [state EXCEPT ![FirstTask] = "RUNNING"]
    /\ time_slice' = [time_slice EXCEPT ![FirstTask] = QUANTUM]
    /\ current_task' = FirstTask
    /\ scheduler_enabled' = TRUE
    /\ starts' = IF FirstTask = current_task THEN starts ELSE starts + 1
    /\ UNCHANGED <<task_list, alloc, next_task_id, task_count, priority, sleep_until,
                   cpu, ctx, ticks_since_boot, pc, cleaners, loc>>

\* message_send wakes the task it sends to, with interrupts off.
MessageWake ==
    /\ pc[cpu] = "run"
    /\ \E t \in Task :
          /\ InList(t)
          /\ state[t] = "SLEEPING"
          /\ state' = [state EXCEPT ![t] = "READY"]
          /\ sleep_until' = [sleep_until EXCEPT ![t] = 0]
    /\ UNCHANGED <<sched, exec, priority, time_slice, ticks_since_boot, pc, cleaners, loc>>

-----------------------------------------------------------------------------
(* task_cleanup_zombies, run by idle and by cleanupd without any lock.     *)

\* idle comes here when an interrupt, of any device, ends its hlt.
CleanBegin ==
    /\ pc[cpu] = "top"
    /\ loc' = [loc EXCEPT ![cpu] = [cur |-> Head(task_list), next |-> NULL,
                                     start |-> Head(task_list)]]
    /\ Goto("scan")
    /\ UNCHANGED <<sched, tcb, exec, ticks_since_boot, cleaners>>

\* current = next; while (current && current != start).
Advance(next, start) ==
    LET more == next \notin {NULL, start}
    IN  /\ loc' = [loc EXCEPT ![cpu] =
                      IF more THEN [cur |-> next, next |-> NULL, start |-> start]
                      ELSE NoLocals]
        /\ Goto(IF more THEN "scan" ELSE IF cpu = Idle THEN "chk" ELSE "nap")

\* The loop's reads of next and of state, which follow each other, are one step.
CleanScan ==
    /\ pc[cpu] = "scan"
    /\ LET c == loc[cpu].cur
       IN  IF state[c] \in Dead /\ c # Idle
           THEN loc' = [loc EXCEPT ![cpu].next = NextOf(c)] /\ Goto("destroy")
           ELSE Advance(NextOf(c), loc[cpu].start)
    /\ UNCHANGED <<sched, tcb, exec, ticks_since_boot, cleaners>>

CleanDestroy ==
    /\ pc[cpu] = "destroy"
    /\ LET l == loc[cpu]
       IN  IF l.cur = current_task
           THEN Leave("ZOMBIE")
           ELSE /\ Destroy(l.cur)
                /\ Advance(l.next, IF l.cur = l.start THEN l.next ELSE l.start)

-----------------------------------------------------------------------------
(* The rest of the idle loop.                                              *)

\* The first task in list order for which task_is_ready would say yes.
Awake(t) == t # Idle /\ InList(t) /\ (state[t] = "READY" \/ Due(ticks_since_boot, t))
FirstAwake(t) == Awake(t) /\ \A u \in Task : Awake(u) => Pos(t) <= Pos(u)

\* The walk happens at most every ten ticks; when is left open.
IdleCheck ==
    /\ pc[cpu] = "chk"
    /\ \/ Goto("top") /\ UNCHANGED loc
       \/ \E t \in Task : FirstAwake(t) /\
             IF state[t] = "READY"
             THEN Goto("yld") /\ UNCHANGED loc
             ELSE Goto("wake") /\ loc' = [loc EXCEPT ![cpu].cur = t]
    /\ UNCHANGED <<sched, tcb, exec, ticks_since_boot, cleaners>>

\* task_is_ready's own write, after its tests.
IdleWake ==
    /\ pc[cpu] = "wake"
    /\ state' = [state EXCEPT ![loc[cpu].cur] = "READY"]
    /\ loc' = [loc EXCEPT ![cpu] = NoLocals]
    /\ Goto("yld")
    /\ UNCHANGED <<sched, exec, priority, time_slice, sleep_until, ticks_since_boot, cleaners>>

\* while (1) cli; hlt
Halted == pc[cpu] = "halt" /\ UNCHANGED vars

-----------------------------------------------------------------------------
(* cmain: every boot task READY, the first one that is not idle RUNNING.   *)

Init ==
    /\ task_list = BootList
    /\ alloc = Range(BootList)
    /\ current_task = BootList[2]
    /\ cpu = current_task
    /\ state = [t \in Task |-> IF t \notin alloc THEN "ZOMBIE"
                               ELSE IF t = current_task THEN "RUNNING" ELSE "READY"]
    /\ priority = BootPriority
    /\ time_slice = [t \in Task |-> QUANTUM]
    /\ sleep_until = [t \in Task |-> 0]
    /\ next_task_id = Len(BootList) + 1
    /\ task_count = Len(BootList)
    /\ scheduler_enabled = TRUE
    /\ ticks_since_boot = 0
    /\ ctx = [t \in Task |-> t]
    /\ pc = [t \in Task |-> IF t \in BootCleaners THEN "top" ELSE "run"]
    /\ cleaners = BootCleaners
    /\ loc = [t \in Task |-> NoLocals]
    /\ starts = 0

ThreadStep ==
    \/ Yield \/ LoopYield
    \/ \E d \in 1..MaxSleep : SleepBegin(d)
    \/ SleepMark \/ SleepYield
    \/ Exit \/ Fault
    \/ CreateCheck \/ Create
    \/ MessageWake
    \/ CleanBegin \/ CleanScan \/ CleanDestroy
    \/ IdleCheck \/ IdleWake

Command ==
    \/ CmdCreate \/ CmdKill \/ CmdYield
    \/ \E d \in 1..MaxSleep : CmdSleep(d)
    \/ CmdStop \/ CmdStart

Next == TimerTick \/ ThreadStep \/ Command \/ Halted

Spec == Init /\ [][Next]_vars

\* The timer keeps interrupting: the only progress the hardware promises.  A
\* thread may run for ever without yielding.
LiveSpec == Spec /\ WF_vars(TimerTick)

-----------------------------------------------------------------------------
LocType == [cur : Ptr, next : Ptr, start : Ptr]

\* Every variable holds a value of the C type it stands for.
TypeOK ==
    /\ task_list \in Seq(Task)
    /\ alloc \subseteq Task
    /\ state \in [Task -> TaskState]
    /\ priority \in [Task -> Nat]
    /\ time_slice \in [Task -> Nat]
    /\ sleep_until \in [Task -> Nat]
    /\ current_task \in Task
    /\ next_task_id \in Nat
    /\ task_count \in 0..(COUNT_MOD - 1)
    /\ scheduler_enabled \in BOOLEAN
    /\ ticks_since_boot \in 0..(TICK_MOD - 1)
    /\ cpu \in Task
    /\ ctx \in [Task -> Task]
    /\ pc \in [Task -> PC]
    /\ cleaners \subseteq Task
    /\ loc \in [Task -> LocType]
    /\ starts \in 0..MaxStarts

-----------------------------------------------------------------------------
(* Safety.                                                                 *)

\* Until a start_scheduler command changes the current task, at most one task
\* besides idle is RUNNING, and it is the one scheduler.current_task names:
\* task_yield and scheduler_tick always put the task they leave in another state,
\* whatever was interrupted.  (idle keeps RUNNING when it yields; scheduler_start
\* leaves the interrupted task RUNNING.)
RunningIsCurrent ==
    starts = 0 => \A t \in alloc \ {Idle} : state[t] = "RUNNING" => t = current_task

\* Until a start_scheduler command changes the current task without a switch, the
\* CPU executes on the stack of the task scheduler.current_task names, and every
\* other TCB holds its own thread: ticks, yields, exits and kills never resume a
\* thread under another task's identity.
OwnStack ==
    starts = 0 => /\ cpu = current_task
                  /\ \A t \in alloc : ctx[t] = t

\* No destroyer (cleaner, kill, exception) ever releases the TCB and the stack of
\* the current task, nor those of idle; until a start_scheduler command changes the
\* current task, that is the stack the CPU is on.
StackInUseIsAllocated ==
    /\ current_task \in alloc /\ Idle \in alloc
    /\ starts = 0 => cpu \in alloc

\* The ring links exactly the allocated TCBs, each once: every walk of it
\* terminates and meets no freed TCB, even after a TCB is destroyed twice.
ListIsAlloc ==
    /\ Range(task_list) = alloc
    /\ Distinct(task_list)

\* The i-th TCB of one turn of the ring from current_task->next.
ScanAt(i) == task_list[((Pos(current_task) + i - 1) % Len(task_list)) + 1]

\* One step of the loop: the best so far, and TCB t.
ScanStep(best, t) ==
    CASE state[t] # "READY" -> best
      [] state[t] = "READY" /\ t = Idle -> IF best = NULL THEN Idle ELSE best
      [] OTHER -> IF best \in {NULL, Idle} THEN t
                  ELSE IF priority[t] < priority[best] THEN t
                  ELSE best

\* The best after i steps.
ScanBest[i \in 0..Len(task_list)] ==
    IF i = 0 THEN NULL ELSE ScanStep(ScanBest[i - 1], ScanAt(i))

\* scheduler_next_task's loop, as written: one turn of the ring.
ScanLoop ==
    LET best == ScanBest[Len(task_list)]
    IN  IF task_count = 0 \/ best = NULL THEN Idle ELSE best

\* The loop of scheduler_next_task finds the READY task of highest priority
\* that comes first round-robin after the current one, and idle only when no
\* other task is READY, in every state the scheduler can be in.
ScanAgrees == ScanLoop = NextTask(state)

\* After a timer tick of a scheduler that is not stopped, idle has the CPU only if
\* no other task is READY, except the one the tick has just preempted (RUNNING, so
\* not seen by the scan); and no tick leaves the CPU to a task that is dead or asleep.
TickLeavesRunnable ==
    [][ticks_since_boot' # ticks_since_boot /\ task_count # 0 /\ scheduler_enabled =>
          /\ current_task' = Idle => \A t \in alloc \ {Idle, current_task} : state'[t] # "READY"
          /\ state'[current_task'] \in {"READY", "RUNNING"}]_vars

\* task_destroy, after the yield of a task that destroys itself: "codigo
\* inalcanzable si el scheduler funciona bien".  No thread that gave the CPU
\* away for ever gets it back.
FinalYieldNeverReturns == pc[cpu] # "halt"

-----------------------------------------------------------------------------
(* Liveness, unless a thread got past its final yield (interrupts are off  *)
(* for good), the count drifted to 0 (only idle is chosen) or the          *)
(* scheduler was stopped.                                                  *)

Crippled == pc[cpu] = "halt" \/ task_count = 0 \/ ~scheduler_enabled

\* A sleeping task wakes: the timer reaches its tick even across the wrap of
\* ticks_since_boot.
SleepTerminates ==
    \A t \in Task \ {Idle} : (state[t] = "SLEEPING") ~> (state[t] # "SLEEPING" \/ Crippled)

TopReady(t) ==
    /\ t \in alloc \ {Idle}
    /\ state[t] = "READY"
    /\ \A u \in alloc \ {Idle} : priority[t] <= priority[u]

\* Round robin among the tasks of the highest priority: a READY one gets the
\* CPU even when the others never yield.
TopPriorityRuns ==
    \A t \in Task \ {Idle} : TopReady(t) ~> (current_task = t \/ ~TopReady(t) \/ Crippled)
=============================================================================
