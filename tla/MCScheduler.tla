---------------------------- MODULE MCScheduler ----------------------------
EXTENDS Scheduler
CONSTANTS idle, cleanupd, a, b
MCBootList == <<idle, a, cleanupd>>
IdleAndA == <<idle, a>>
TwoWorkers == <<idle, a, b>>
MCPriority == [t \in Task |-> IF t \in {idle, a, b} THEN 0 ELSE 7]

\* What is saved in the current TCB is overwritten by the next switch, unless
\* start_scheduler makes another TCB current before that.
Saved   == IF starts < MaxStarts THEN alloc ELSE alloc \ {current_task}
Threads == {cpu} \cup { ctx[t] : t \in Saved }

\* What the rest of a behaviour can depend on.
PtrView(t) ==
    CASE pc[t] = "scan"    -> <<loc[t].cur, loc[t].start>>
      [] pc[t] = "destroy" -> <<loc[t].cur, loc[t].next, loc[t].start>>
      [] pc[t] = "wake"    -> <<loc[t].cur>>
      [] OTHER             -> << >>
View ==
    <<task_list, alloc, current_task, next_task_id, task_count, scheduler_enabled,
      ticks_since_boot, cpu, starts, time_slice[current_task],
      [t \in alloc |-> <<priority[t], IF t \in Saved THEN ctx[t] ELSE NULL>>],
      [t \in Threads |-> <<pc[t], t \in cleaners, PtrView(t)>>],
      [t \in Task |-> IF t \in alloc \/ \E c \in cleaners \cap Threads :
                            \/ pc[c] \in {"scan", "destroy", "wake"} /\ loc[c].cur = t
                            \/ pc[c] = "destroy" /\ loc[c].next = t
                      THEN state[t] ELSE NULL],
      [t \in alloc |-> IF \/ state[t] = "SLEEPING"
                          \/ \E u \in Threads : pc[u] = "slp1" /\ (u = t \/ starts > 0)
                       THEN sleep_until[t] ELSE 0]>>
=============================================================================
