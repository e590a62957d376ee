-------------------------- MODULE SchedulerControl --------------------------
(***************************************************************************)
(* The shutdown command, which stops the scheduler and destroys the tasks  *)
(* (acpi_reboot begins in the same way).  It runs inside the keyboard      *)
(* interrupt, on top of whatever thread it interrupted, so it is one step. *)
(***************************************************************************)
EXTENDS Scheduler

VARIABLES
    mounted,    \* file systems that vfs_list_mounts has not yet unmounted
    down        \* shutdown() has run as far as it ever will

control == <<mounted, down>>

\* The tasks shutdown's loop destroys: those of the list up to the current one,
\* whose own task_destroy never returns (the scheduler is already stopped, so
\* its task_yield does, and a hlt loop follows).
Doomed ==
    { t \in Range(task_list) \ {Idle} :
        current_task = Idle \/ Pos(t) < Pos(current_task) }

\* shutdown(): stop the scheduler, destroy the tasks, and only then unmount,
\* release the drivers and turn the machine off.
CmdShutdown ==
    /\ InterruptsOn
    /\ scheduler_enabled' = FALSE
    /\ task_list' = SelectSeq(task_list, LAMBDA t : t \notin Doomed)
    /\ alloc' = alloc \ Doomed
    /\ task_count' = (task_count - Cardinality(Doomed)) % COUNT_MOD
    /\ state' = [t \in Task |->
                    IF t \in Doomed \/ (t = current_task /\ t # Idle) THEN "ZOMBIE"
                    ELSE state[t]]
    /\ mounted' = IF current_task = Idle THEN {} ELSE mounted
    /\ down' = TRUE
    /\ Goto("halt")
    /\ UNCHANGED <<next_task_id, starts, priority, time_slice, sleep_until, exec,
                   ticks_since_boot, cleaners, loc>>

ControlInit ==
    /\ Init
    /\ mounted = {"/", "/dev", "/ramfs", "/sys", "/home"}
    /\ down = FALSE

ControlNext ==
    \/ Next /\ UNCHANGED control
    \/ CmdShutdown

ControlSpec == ControlInit /\ [][ControlNext]_<<vars, control>>

-----------------------------------------------------------------------------
\* shutdown's comment on its step 4: the file systems are unmounted before the
\* drivers go, "para poder flashear caches".  A machine that shutdown stopped
\* has no file system mounted.
ShutdownUnmounts == down => mounted = {}
=============================================================================
