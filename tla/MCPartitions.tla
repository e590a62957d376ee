---------------------------- MODULE MCPartitions ----------------------------
EXTENDS Partitions, TLC
Fat(start, count) == [type |-> "fat", start |-> start, count |-> count]
MCFirst == {[sig |-> TRUE, fat |-> FALSE,
             tab |-> (1 :> Fat(2, 2)) @@ (3 :> Fat(5, 2)) @@ NoTable]}
=============================================================================
