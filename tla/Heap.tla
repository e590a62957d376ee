-------------------------------- MODULE Heap --------------------------------
(***************************************************************************)
(* The kernel heap of memory.c: kernel_malloc, kernel_free,                *)
(* kernel_realloc, heap_defragment.                                        *)
(*                                                                         *)
(* Addresses and sizes are in units of 8 bytes, the finest alignment the   *)
(* code uses (ALIGN8 of kernel_realloc): a header takes two units, and a   *)
(* payload handed out by kernel_malloc is aligned to two units.  A block   *)
(* is named by the address of its header; its payload starts HDR later.    *)
(* kernel_malloc, kernel_free and heap_defragment work with interrupts     *)
(* off, so each is one step.  kernel_realloc does not: interrupted while   *)
(* it grows a block it is Malloc now and KernelFree later; while it        *)
(* shrinks one it writes only inside that block until it calls kernel_free.*)
(***************************************************************************)
EXTENDS Integers, SequencesExt

CONSTANTS
    HEAP,           \* size of the heap
    MaxRequest,     \* largest request
    BIG             \* requests above it use best fit (4096 bytes)

HDR       == 2      \* sizeof(heap_block_t)
MIN_BLOCK == 3      \* MIN_BLOCK_SIZE = sizeof(heap_block_t) + 8

ASSUME HeapAssumption ==
    /\ HEAP \in Nat /\ HEAP >= HDR + MIN_BLOCK /\ HEAP % 2 = 0
    /\ MaxRequest \in Nat
    /\ BIG \in Nat

VARIABLES
    size,       \* the size field of every block's header
    magic,      \* its magic number (and free flag): "FREE" or "HEAP"
    free_list,  \* the list through the next fields, first block first
    held        \* the payload pointers the rest of the kernel has

HeapVars == <<size, magic, free_list, held>>

Blocks     == DOMAIN size
End(sz, b) == b + HDR + sz[b]

\* Sizes rounded up.  The code's sum wraps for a size within 16 of 2^32; such
\* requests are not modelled.
Align16(n) == n + (n % 2)

\* The fields of the headers once block b (now v) is split and a block starts
\* at rest (with w).
Split(f, b, v, rest, w) ==
    [x \in DOMAIN f \cup {rest} |-> IF x = b THEN v ELSE IF x = rest THEN w ELSE f[x]]

\* The state of the heap as the operations pass it on.
Now == [size |-> size, magic |-> magic, list |-> free_list]

-----------------------------------------------------------------------------
(* kernel_malloc.                                                          *)

\* Indices of the free blocks large enough, in list order.
Fits(h, n) == { i \in 1..Len(h.list) : h.size[h.list[i]] >= n }

FirstFit(h, n) == CHOOSE i \in Fits(h, n) : \A j \in Fits(h, n) : i <= j

BestFit(h, n) ==
    CHOOSE i \in Fits(h, n) : \A j \in Fits(h, n) :
        \/ h.size[h.list[i]] < h.size[h.list[j]]
        \/ h.size[h.list[i]] = h.size[h.list[j]] /\ i <= j

Pick(h, n) == IF n > BIG THEN BestFit(h, n) ELSE FirstFit(h, n)

\* Fault: a rest that holds only a header is split off.
TakeTooMuch(h, i, n) ==
    LET b    == h.list[i]
        rest == b + HDR + n
    IN  IF h.size[b] >= n + HDR
        THEN [size  |-> Split(h.size, b, n, rest, h.size[b] - n - HDR),
              magic |-> Split(h.magic, b, "HEAP", rest, "FREE"),
              list  |-> [h.list EXCEPT ![i] = rest]]
        ELSE [size  |-> h.size,
              magic |-> [h.magic EXCEPT ![b] = "HEAP"],
              list  |-> RemoveAt(h.list, i)]

\* Fault: the rest's own header is not subtracted from its size.
TakeForgetsHeader(h, i, n) ==
    LET b    == h.list[i]
        rest == b + HDR + n
    IN  IF h.size[b] >= n + HDR + MIN_BLOCK
        THEN [size  |-> Split(h.size, b, n, rest, h.size[b] - n),
              magic |-> Split(h.magic, b, "HEAP", rest, "FREE"),
              list  |-> [h.list EXCEPT ![i] = rest]]
        ELSE [size  |-> h.size,
              magic |-> [h.magic EXCEPT ![b] = "HEAP"],
              list  |-> RemoveAt(h.list, i)]

\* Take block i of the list for n units: keep the rest as a free block in its
\* place if it can hold a header and MIN_BLOCK.
Take(h, i, n) ==
    LET b    == h.list[i]
        rest == b + HDR + n
    IN  IF h.size[b] >= n + HDR + MIN_BLOCK
        THEN [size  |-> Split(h.size, b, n, rest, h.size[b] - n - HDR),
              magic |-> Split(h.magic, b, "HEAP", rest, "FREE"),
              list  |-> [h.list EXCEPT ![i] = rest]]
        ELSE [size  |-> h.size,
              magic |-> [h.magic EXCEPT ![b] = "HEAP"],
              list  |-> RemoveAt(h.list, i)]

-----------------------------------------------------------------------------
(* kernel_free.                                                            *)

\* Where block b goes in the list: after the blocks below it.
InsertBlock(list, b) ==
    IF list = << >> \/ b < list[1] THEN <<b>> \o list
    ELSE LET k == CHOOSE k \in 1..Len(list) :
                     /\ k = Len(list) \/ ~(list[k + 1] < b)
                     /\ \A j \in 2..k : list[j] < b
         IN  InsertAt(list, k + 1, b)

\* One turn of the walk: the last block kept grows by the block b that it
\* touches, or b is kept too.
JoinNext(g, b) ==
    LET t == g.list[Len(g.list)]
    IN  IF End(g.size, t) = b
        THEN [size  |-> Restrict([g.size EXCEPT ![t] = @ + HDR + g.size[b]], DOMAIN g.size \ {b}),
              magic |-> Restrict(g.magic, DOMAIN g.magic \ {b}),
              list  |-> g.list]
        ELSE [size |-> g.size, magic |-> g.magic, list |-> Append(g.list, b)]

\* Walk the list, joining each block with the next while they touch.
Coalesce(h) ==
    LET upto[i \in 1..Len(h.list)] ==
            IF i = 1 THEN [size |-> h.size, magic |-> h.magic, list |-> <<h.list[1]>>]
            ELSE JoinNext(upto[i - 1], h.list[i])
    IN  IF h.list = << >> THEN h ELSE upto[Len(h.list)]

\* A pointer that is not 16-aligned, or whose header does not say HEAP, is
\* refused without a word.
FreePtr(h, p) ==
    LET b == p - HDR
    IN  IF p % 2 # 0 \/ b \notin DOMAIN h.size THEN h
        ELSE IF h.magic[b] # "HEAP" THEN h
        ELSE Coalesce([size |-> h.size, magic |-> [h.magic EXCEPT ![b] = "FREE"],
                       list |-> InsertBlock(h.list, b)])

-----------------------------------------------------------------------------
(* The operations.                                                         *)

Becomes(h) == size' = h.size /\ magic' = h.magic /\ free_list' = h.list

\* kernel_malloc(n); nothing happens when no block fits.
Malloc(n) ==
    /\ Fits(Now, Align16(n)) # {}
    /\ LET i == Pick(Now, Align16(n))
       IN  /\ Becomes(Take(Now, i, Align16(n)))
           /\ held' = held \cup {free_list[i] + HDR}

KernelFree(p) ==
    /\ Becomes(FreePtr(Now, p))
    /\ held' = held \ {p}

\* kernel_realloc to a smaller size: the rest becomes a block of its own,
\* marked in use, and is given to kernel_free.
ReallocShrink(p, n) ==
    LET b    == p - HDR
        rest == p + n
    IN  /\ n < size[b]
        /\ size[b] - n >= MIN_BLOCK + HDR
        /\ Becomes(FreePtr([size  |-> Split(size, b, n, rest, size[b] - n - HDR),
                            magic |-> Split(magic, b, magic[b], rest, "HEAP"),
                            list  |-> free_list], rest + HDR))
        /\ UNCHANGED held

\* kernel_realloc to a larger size: always a new block, then the copy, then
\* the old block is freed.
ReallocGrow(p, n) ==
    LET i == Pick(Now, Align16(n))
    IN  /\ n > size[p - HDR]
        /\ Fits(Now, Align16(n)) # {}
        /\ Becomes(FreePtr(Take(Now, i, Align16(n)), p))
        /\ held' = (held \ {p}) \cup {free_list[i] + HDR}

\* heap_defragment joins free neighbours, pass after pass.
Defragment == Becomes(Coalesce(Now)) /\ UNCHANGED held

\* memory_defrag_task looks every five seconds; how fragmented a heap of this
\* size counts as is left open.
DefragTask == Defragment

HeapInit ==
    /\ size = [b \in {0} |-> HEAP - HDR]
    /\ magic = [b \in {0} |-> "FREE"]
    /\ free_list = <<0>>
    /\ held = {}

HeapNext ==
    \/ \E n \in 1..MaxRequest : Malloc(n)
    \/ \E p \in held : KernelFree(p)
    \/ \E p \in held, n \in 1..MaxRequest : ReallocShrink(p, n) \/ ReallocGrow(p, n)
    \/ DefragTask

HeapSpec == HeapInit /\ [][HeapNext]_HeapVars

-----------------------------------------------------------------------------
\* Every header is inside the heap and every field has its type.
HeapTypeOK ==
    /\ DOMAIN magic = Blocks
    /\ \A b \in Blocks : /\ b \in 0..(HEAP - 1)
                         /\ size[b] \in 1..HEAP
                         /\ magic[b] \in {"FREE", "HEAP"}
    /\ free_list \in Seq(Blocks)
    /\ held \subseteq 0..HEAP

\* The blocks tile the heap: the one after each block starts where it ends.
\* heap_stats, which steps from header to header, reaches the end and meets
\* every block, and no two payloads overlap.
Tiling ==
    /\ 0 \in Blocks
    /\ \A b \in Blocks : End(size, b) = HEAP \/ End(size, b) \in Blocks
    /\ \A b, c \in Blocks : b < c => End(size, b) <= c

\* The free list holds exactly the blocks marked FREE, in address order, so
\* one pass of kernel_free's loop sees all neighbours.
FreeListExact ==
    /\ Range(free_list) = { b \in Blocks : magic[b] = "FREE" }
    /\ \A i, j \in 1..Len(free_list) : i < j => free_list[i] < free_list[j]

\* No two free blocks touch: kernel_free leaves nothing for the defragmenter
\* to join, and a request fails only if no single gap is large enough.
FullyCoalesced ==
    \A b, c \in Blocks : magic[b] = "FREE" /\ magic[c] = "FREE" => End(size, b) # c

\* Every pointer handed out is 16-aligned and leads to a block in use.
HeldIsValid ==
    \A p \in held : p % 2 = 0 /\ p - HDR \in Blocks /\ magic[p - HDR] = "HEAP"

\* A block in use that nobody can free is the misaligned remnant of a shrink:
\* no other operation loses memory.
OnlyShrinkLeaks ==
    \A b \in Blocks : magic[b] = "HEAP" => b + HDR \in held \/ b % 2 = 1

\* The heap is sound: blocks tile it, the free list is exact and coalesced,
\* pointers in use are valid and only a shrink loses memory (memory.c).
HeapSound == Tiling /\ FreeListExact /\ FullyCoalesced /\ HeldIsValid /\ OnlyShrinkLeaks

=============================================================================
