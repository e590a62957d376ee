------------------------------- MODULE Paging --------------------------------
(***************************************************************************)
(* Physical pages (pmm.c), the page tables (mmu.c) and address spaces       *)
(* (vmm.c).  Addresses count pages.  Virtual pages are, in order: the user  *)
(* part, the window at KERNEL_VIRTUAL_BASE that shows frame p at Direct(p), *)
(* and the alternative window mmu_ensure_physical_accessible falls back to. *)
(* The tables are one global structure: mmu_map_page writes it whichever    *)
(* page directory CR3 holds.                                                *)
(***************************************************************************)
EXTENDS Integers, Sequences, FiniteSets, SequencesExt, FiniteSetsExt

CONSTANTS
    Frames,      \* number of physical page addresses
    UserPages,   \* user virtual pages; the heap starts at HeapStart
    HeapStart,
    AltPages,    \* size of the alternative window
    MemoryMaps,  \* sets of usable frames the boot loader may report
    KernelHeap,  \* frames of the kernel's heap
    BitmapPages, \* pages of the bitmap
    Devices,     \* frames of device registers and tables
    MmioFrame,   \* a frame whose direct address shows something else
    Spaces       \* address spaces

ASSUME PagingAssumption ==
    /\ Frames \in Nat /\ BitmapPages \in Nat \ {0} /\ AltPages \in Nat
    /\ UserPages \in Nat \ {0, 1} /\ HeapStart \in 0 .. UserPages - 1
    /\ MemoryMaps \subseteq SUBSET (0 .. Frames - 1)
    /\ KernelHeap \cup Devices \cup {MmioFrame} \subseteq 0 .. Frames - 1

VARIABLES
    pmm,      \* mem_regions, the index of each page, pmm_bitmap (set bits: free), where it lies
    pt,       \* page_tables: virtual page -> frame, or None
    space,    \* address spaces: page directory, regions and break
    grants,   \* history: <<virtual, frame>> windows given to drivers
    crossed   \* history: a run of pages went over the end of a region

PagingVars == <<pmm, pt, space, grants, crossed>>

None == 0 - 1
Direct(p) == UserPages + p
Alt(i) == UserPages + Frames + i
Virtual == 0 .. UserPages + Frames + AltPages - 1
-----------------------------------------------------------------------------
(* pmm_init: usable entries are sorted and merged into maximal regions. *)
Regions(usable) ==
    {r \in [base : usable, len : 1 .. Frames] :
        /\ r.base .. r.base + r.len - 1 \subseteq usable
        /\ r.base - 1 \notin usable /\ r.base + r.len \notin usable}

(* The bitmap goes to the end of the first region twice its size. *)
BitmapHome(usable) ==
    LET large == {r \in Regions(usable) : r.len >= 2 * BitmapPages}
    IN  CHOOSE r \in large : \A q \in large : r.base <= q.base

(* pmm_exclude_kernel_heap *)
ExcludeHeap(frames) == frames \ KernelHeap

(* The pages of all regions are counted in order.  The bits of the bitmap's *)
(* own pages are counted from the start of the region it lies in, not from  *)
(* the first region's.                                                      *)
Booted(usable) ==
    LET home == BitmapHome(usable)
        first == home.len - BitmapPages
        bitmap == home.base + first .. home.base + home.len - 1
        pages == ExcludeHeap(usable \ bitmap)
    IN  [index |-> [f \in pages |-> Cardinality({g \in pages : g < f})],
         total |-> Cardinality(usable),
         free |-> (0 .. Cardinality(usable) - 1) \ (first .. first + BitmapPages - 1),
         bitmap |-> bitmap]

(* An index past the regions has no address (0). *)
Address(p, idx) ==
    LET at == {f \in DOMAIN p.index : p.index[f] = idx} IN IF at = {} THEN 0 ELSE Min(at)

(* pmm_free_page takes an address it does not know for index 0. *)
Index(p, addr) == IF addr \in DOMAIN p.index THEN p.index[addr] ELSE 0

(* pmm_alloc_pages: the first run of n set bits whose first page has an     *)
(* address other than 0.  pmm_alloc_page is the case n = 1.                 *)
Scan(p, n) ==
    LET none == [run |-> 0, start |-> 0]
        scan[k \in 0 .. p.total] ==
            IF k = 0 THEN none
            ELSE LET acc == scan[k - 1]
                     start == IF acc.run = 0 THEN k - 1 ELSE acc.start
                 IN  IF acc.run = n THEN acc
                     ELSE IF k - 1 \notin p.free \/ (acc.run + 1 = n /\ Address(p, start) = 0) THEN none
                     ELSE [run |-> acc.run + 1, start |-> start]
    IN  scan[p.total]

Found(p, n) == Scan(p, n).run = n
FirstIdx(p, n) == Scan(p, n).start

(* Fault: only the first page of the run is marked. *)
TakenFault(p, n) == [p EXCEPT !.free = @ \ {FirstIdx(p, n)}]

Taken(p, n) == [p EXCEPT !.free = @ \ (FirstIdx(p, n) .. FirstIdx(p, n) + n - 1)]

(* The run's pages, and whether their addresses leave the first one's region. *)
RunOf(p, n) == LET a == Address(p, FirstIdx(p, n)) IN a .. a + n - 1
Crosses(p, n) ==
    \E j \in 1 .. n - 1 : Address(p, FirstIdx(p, n) + j) # Address(p, FirstIdx(p, n)) + j

(* pmm_free_pages *)
Freed(p, frames) ==
    [p EXCEPT !.free = @ \cup {i \in {Index(p, f) : f \in frames} : i < p.total}]
-----------------------------------------------------------------------------
(* mmu_map_page over a run: it stops at a page that shows another frame. *)
Conflict(t, v, base, n) == {j \in 0 .. n - 1 : t[v + j] \notin {None, base + j}}
MapRun(t, v, base, n) ==
    LET stop == IF Conflict(t, v, base, n) = {} THEN n ELSE Min(Conflict(t, v, base, n)) IN
    [x \in Virtual |-> IF x \in v .. v + stop - 1 THEN base + x - v ELSE t[x]]

(* mmu_unmap_page over a set of pages. *)
UnmapRun(t, vs) == [x \in Virtual |-> IF x \in vs THEN None ELSE t[x]]

NoSpace == [pd |-> None, regions |-> {}, brk |-> HeapStart, heap |-> FALSE]
Region(v, base, n) == [v |-> v, base |-> base, n |-> n]
FramesOf(r) == r.base .. r.base + r.n - 1
Overlaps(s, v, n) == v = 0 \/ \E r \in space[s].regions : v < r.v + r.n /\ r.v < v + n

(* vmm_create_address_space: the directory's frame is shown in the window   *)
(* and stays there; the first page is reserved.                             *)
CreateSpace(s) ==
    /\ space[s].pd = None /\ Found(pmm, 1)
    /\ LET f == Address(pmm, FirstIdx(pmm, 1)) IN
       /\ pt' = IF pt[Direct(f)] = None THEN [pt EXCEPT ![Direct(f)] = f] ELSE pt
       /\ space' = [space EXCEPT ![s] = [NoSpace EXCEPT !.pd = f]]
    /\ pmm' = Taken(pmm, 1)
    /\ UNCHANGED <<grants, crossed>>

(* vmm_map_region, vmm_allocate_stack and vmm_allocate_heap.  When a page   *)
(* is taken the frames go back but the pages mapped before it stay mapped;  *)
(* when the region overlaps another it is unmapped again.  heap and brk are  *)
(* what the caller leaves in the address space when it worked.              *)
MapRegion(s, v, n, heap, brk) ==
    /\ space[s].pd # None /\ v + n <= UserPages /\ Found(pmm, n)
    /\ LET f == Address(pmm, FirstIdx(pmm, n))
           taken == Taken(pmm, n)
           conflict == Conflict(pt, v, f, n) # {}
       IN
       \/ /\ conflict
          /\ pt' = MapRun(pt, v, f, n) /\ pmm' = Freed(taken, RunOf(pmm, n))
          /\ UNCHANGED space
       \/ /\ ~conflict /\ Overlaps(s, v, n)
          /\ pt' = UnmapRun(pt, v .. v + n - 1) /\ pmm' = Freed(taken, RunOf(pmm, n))
          /\ UNCHANGED space
       \/ /\ ~conflict /\ ~Overlaps(s, v, n)
          /\ pt' = MapRun(pt, v, f, n) /\ pmm' = taken
          /\ space' = [space EXCEPT ![s].regions = @ \cup {Region(v, f, n)},
                                    ![s].heap = heap, ![s].brk = brk]
    /\ crossed' = (crossed \/ Crosses(pmm, n))
    /\ UNCHANGED grants

AllocateStack(s, n) == MapRegion(s, UserPages - n, n, space[s].heap, space[s].brk)
AllocateHeap(s, n) == MapRegion(s, HeapStart, n, TRUE, HeapStart)

(* vmm_brk: a growing break maps the pages between; a shrinking one         *)
(* returns as if it had worked.                                             *)
Brk(s, to) == /\ space[s].heap /\ to > space[s].brk
              /\ MapRegion(s, space[s].brk, to - space[s].brk, TRUE, to)

(* vmm_unmap_region removes the whole region that holds the address. *)
UnmapRegion(s, v) ==
    /\ \E r \in space[s].regions :
          /\ v \in r.v .. r.v + r.n - 1
          /\ pt' = UnmapRun(pt, r.v .. r.v + r.n - 1)
          /\ pmm' = Freed(pmm, FramesOf(r))
          /\ space' = [space EXCEPT ![s].regions = @ \ {r}]
    /\ UNCHANGED <<grants, crossed>>

(* vmm_destroy_address_space: the frames go back, the tables stay. *)
DestroySpace(s) ==
    /\ space[s].pd # None
    /\ pmm' = Freed(pmm, {space[s].pd} \cup UNION {FramesOf(r) : r \in space[s].regions})
    /\ space' = [space EXCEPT ![s] = NoSpace]
    /\ UNCHANGED <<pt, grants, crossed>>
-----------------------------------------------------------------------------
(* mmu_find_virtual_for_physical: the direct address, or any other in the   *)
(* windows.                                                                 *)
FindVirtual(t, p) ==
    LET vs == {v \in Virtual : v >= UserPages /\ t[v] = p}
    IN  IF t[Direct(p)] = p THEN Direct(p) ELSE IF vs = {} THEN None ELSE Min(vs)

Shows(t, v, p, n) == \A j \in 0 .. n - 1 : v + j \in Virtual /\ t[v + j] = p + j

AltRoom(t, n) == {Alt(i) : i \in {k \in 0 .. AltPages - n : \A j \in 0 .. n - 1 : t[Alt(k + j)] = None}}

(* Where mmu_ensure_physical_accessible maps n frames from p: the direct    *)
(* window unless one of its pages shows something else.                     *)
Target(t, p, n) ==
    IF \A j \in 0 .. n - 1 : t[Direct(p + j)] \in {None, p + j} THEN Direct(p)
    ELSE IF AltRoom(t, n) = {} THEN None ELSE Min(AltRoom(t, n))

(* mmu_ensure_physical_accessible: a frame already shown must be followed   *)
(* by the others, or the call fails.                                        *)
Access(t, p, n) ==
    LET found == FindVirtual(t, p)
        v == Target(t, p, n)
    IN  IF found # None THEN [ok |-> Shows(t, found, p, n), v |-> found, pt |-> t]
        ELSE IF v = None THEN [ok |-> FALSE, v |-> None, pt |-> t]
        ELSE [ok |-> TRUE, v |-> v, pt |-> [x \in Virtual |-> IF x \in v .. v + n - 1 THEN p + x - v ELSE t[x]]]

Granted(a, p, n) == IF a.ok THEN {<<a.v + j, p + j>> : j \in 0 .. n - 1} ELSE {}

EnsureAccessible(p, n) ==
    /\ p + n <= Frames
    /\ pt' = Access(pt, p, n).pt
    /\ grants' = grants \cup Granted(Access(pt, p, n), p, n)
    /\ UNCHANGED <<pmm, space, crossed>>

PagingInit ==
    /\ \E usable \in MemoryMaps : pmm = Booted(usable)
    /\ pt = [v \in Virtual |-> IF v = Direct(MmioFrame) THEN Frames ELSE None]
    /\ space = [s \in Spaces |-> NoSpace]
    /\ grants = {} /\ crossed = FALSE

PagingNext ==
    \/ \E s \in Spaces :
          \/ CreateSpace(s) \/ DestroySpace(s)
          \/ \E n \in 1 .. 2 : AllocateStack(s, n) \/ AllocateHeap(s, n)
          \/ \E v \in 0 .. UserPages - 1 : Brk(s, v) \/ UnmapRegion(s, v)
    \/ \E p \in Devices, n \in 1 .. 2 : EnsureAccessible(p, n)
-----------------------------------------------------------------------------
PagingTypeOK ==
    /\ pmm.free \subseteq 0 .. pmm.total - 1
    /\ \A v \in Virtual : pt[v] \in {None} \cup (IF v < UserPages THEN Nat ELSE 0 .. Frames)

(* Unless a run of pages crossed the end of a region, no frame belongs to   *)
(* two owners: page directories, regions, the kernel's heap and the bitmap  *)
(* are disjoint, and no frame in use is free for the next allocation.       *)
FramesOwned ==
    ~crossed =>
      LET Owns(s, f) == f = space[s].pd \/ \E r \in space[s].regions : f \in FramesOf(r)
          owned == {o \in Spaces \X (0 .. Frames - 1) : Owns(o[1], o[2])}
          free == {Address(pmm, i) : i \in pmm.free} \ {0}
      IN  /\ \A a, b \in owned : a[2] = b[2] => a = b
          /\ \A s \in Spaces : \A q, r \in space[s].regions : q # r => FramesOf(q) \cap FramesOf(r) = {}
          /\ {a[2] : a \in owned} \cap (free \cup KernelHeap \cup pmm.bitmap) = {}

(* A window handed to a driver keeps showing the frames it was given for.   *)
GrantsHold == \A g \in grants : pt[g[1]] = g[2]

\* Frames have one owner and what was granted stays mapped (pmm.c, vmm.c).
PagingSound == FramesOwned /\ GrantsHold

=============================================================================
