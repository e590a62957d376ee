------------------------ MODULE MCSchedulerControl ------------------------
EXTENDS SchedulerControl
CONSTANTS idle, cleanupd, a
MCBootList == <<idle, a, cleanupd>>
MCPriority == [t \in Task |-> IF t \in {idle, a} THEN 0 ELSE 7]
=============================================================================
