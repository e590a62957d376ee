----------------------------- MODULE ClusterPool -----------------------------
(***************************************************************************)
(* What the cluster allocator of a FAT volume promises, without sectors,   *)
(* caches or failures: clusters form disjoint chains; a chain grows at its *)
(* end by clusters nobody had, and shrinks from its front.                 *)
(***************************************************************************)
EXTENDS Naturals

CONSTANTS
    Cluster,    \* the data clusters
    First,      \* the first cluster of the root directory
    Free, End   \* a cluster nobody owns, the last cluster of a chain

VARIABLE link   \* link[c]: the cluster after c in its chain, Free or End

Used(l) == { c \in Cluster : l[c] # Free }

\* Every link leads to a used cluster, and no two lead to the same one.
Chains(l) ==
    /\ \A c \in Cluster : l[c] \in Cluster => l[c] \in Used(l)
    /\ \A c, d \in Cluster : l[c] \in Cluster /\ l[c] = l[d] => c = d

\* A cluster that stays in use keeps its successor, unless it was the last of
\* its chain and is now followed by a cluster that was free.
Grows(l, m) ==
    \A c \in Used(l) \cap Used(m) :
        l[c] # m[c] => l[c] = End /\ m[c] \in Cluster \ Used(l)

\* A cluster is given back only when no cluster before it in its chain stays.
Shrinks(l, m) ==
    \A c \in Used(l) \ Used(m), d \in Used(l) : l[d] = c => d \notin Used(m)

Init == link = [c \in Cluster |-> IF c = First THEN End ELSE Free]

\* Everything but the root directory is given back at once.
Reset == link' = [c \in Cluster |-> IF c = First THEN End ELSE Free]

Change ==
    /\ link' \in [Cluster -> Cluster \cup {Free, End}]
    /\ Chains(link')
    /\ Grows(link, link')
    /\ Shrinks(link, link')

Next == Change \/ Reset

Spec == Init /\ [][Next]_link
=============================================================================
