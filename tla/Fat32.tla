-------------------------------- MODULE Fat32 --------------------------------
(***************************************************************************)
(* The FAT32 driver of fat32.c, from fat32_format and fat32_mount to       *)
(* fat32_unmount, over a disk whose accesses may fail and whose power may  *)
(* be cut in the middle of an operation.                                   *)
(*                                                                         *)
(* An operation of the driver runs inside a system call or a terminal      *)
(* command, which start with interrupts off: it is one action.  That is    *)
(* not what happens when interrupts are on all the same - the command wget *)
(* saves its file after arp.c has done sti, and so does the driver of an   *)
(* IDE disk - and a task switch falls in the middle of an operation while  *)
(* another task enters the driver; those interleavings are not in the      *)
(* model.  The parts of an operation are operators that take the driver's  *)
(* state s and return the next one, like the functions of the C source;    *)
(* s.v is the cluster such a function returns, s.ok is "VFS_OK".  What a   *)
(* function does after a call is an operator of its own when it is long;   *)
(* its first argument is what the call returned.  Disk accesses are        *)
(* numbered in s.io: access number s.bad fails, and what is written after  *)
(* access number s.cut never reaches the disk.                             *)
(*                                                                         *)
(* A cluster has one sector, sizes are in clusters, a directory entry and  *)
(* its long-name entries take one slot, the slots of ".", ".." and the     *)
(* volume label are left out, and kernel_malloc does not fail (Heap is     *)
(* about that).                                                            *)
(***************************************************************************)
EXTENDS Integers, FiniteSetsExt, TLC

CONSTANTS
    N,          \* number of data clusters: 2 .. N + 1
    PerSector,  \* FAT entries in a sector
    Slots,      \* directory entries in a cluster
    Dirs,       \* names of directories below the root
    Paths,      \* the files: <<directory, name>>, directory "/" or in Dirs
    Sfn,        \* Sfn[n]: the 8.3 name fat32_generate_sfn makes of name n
    Handle,     \* open files
    MaxSize,    \* largest size of a file
    MaxFaults,  \* failed accesses and power cuts in a behaviour
    MaxOps      \* operations in a behaviour

ASSUME Fat32Assumption ==
    /\ N \in Nat \ {0} /\ PerSector \in Nat \ {0} /\ Slots \in Nat \ {0}
    /\ \A p \in Paths : p[1] \in Dirs \cup {"/"} /\ p[2] \in DOMAIN Sfn \ Dirs
    /\ Dirs \subseteq DOMAIN Sfn

Cluster == 2..(N + 1)
Entry   == 1..(N + 1)          \* entry 1 of the FAT holds the volume's flags
ROOT    == 2
FREE    == 0                   \* FAT32_FREE_CLUSTER
BAD     == N + 2               \* FAT32_BAD_CLUSTER
EOC     == N + 3               \* FAT32_EOC
HRD     == 1                   \* FAT32_HRD_ERR_BIT_MASK: no errors met
CLN     == 2                   \* FAT32_CLN_SHUT_BIT_MASK: cleanly unmounted
NONE    == -1                  \* no sector cached (0xFFFFFFFF)

\* A directory slot: never used (0x00), deleted (0xE5) or an entry.
EndSlot == [st |-> "end", name |-> "", first |-> 0, size |-> 0, dir |-> FALSE]
NewEntry(n, f, d) == [st |-> "used", name |-> n, first |-> f, size |-> 0, dir |-> d]

\* A cluster holds directory slots or a file's data (abstracted to the path it
\* was written through); zeroed it is both.
Zero    == [ents |-> [i \in 1..Slots |-> EndSlot], val |-> <<>>]
Data(p) == [Zero EXCEPT !.val = p]

VARIABLES
    disk,       \* [boot, fat, bak, dat, info]: boot sector, the two FATs, clusters, FSInfo
    mem,        \* the driver's state while the volume is mounted, else NotMounted
    handle,     \* the open files: vnode and file offset, or Closed
    faults,     \* failed accesses and power cuts so far
    ops,        \* operations so far
    lost,       \* history: what the driver could not write (see Run)
    formatted   \* history: the last fat32_format ran to its end

vars == <<disk, mem, handle, faults, ops, lost, formatted>>

NotMounted == [on |-> FALSE]
Closed     == [open |-> FALSE]
NoInfo     == [free |-> NONE, next |-> NONE]     \* no FSInfo signature

\* What a freshly allocated fat32_fs_t holds.
FreshMem == [on |-> FALSE, fc |-> NONE, fv |-> [e \in {} |-> 0], fdirty |-> FALSE,
             dc |-> NONE, dv |-> Zero, ddirty |-> FALSE, info |-> NoInfo, err |-> FALSE]

\* The state an operation starts from: the disk, the driver, the open files,
\* and the local variables of the functions it calls.
Start(b, c, j) ==
    [d |-> disk, hs |-> handle, io |-> 0, bad |-> b, cut |-> c, junk |-> j,
     ok |-> TRUE, v |-> 0, cur |-> 0, go |-> FALSE, slot |-> 0, ent |-> EndSlot,
     cnt |-> 0, calc |-> NoInfo, lost |-> FALSE, hang |-> FALSE] @@
    (IF mem.on THEN mem ELSE FreshMem)

\* A result used more than once; the next call unless this one failed; and the
\* same with has_errors set by the failure.
Fail(s)       == [s EXCEPT !.ok = FALSE, !.err = TRUE]
With(x, F(_)) == F(x)
Then(r, F(_)) == IF r.ok THEN F(r) ELSE r
Try(r, F(_))  == IF r.ok THEN F(r) ELSE Fail(r)

\* The loop "while (s.go) s = Body(s)".  No chain without a cycle keeps it busy
\* for more than MaxChain rounds: after those it hangs.
MaxChain == N + 2
While(s, Body(_)) ==
    LET f[k \in 0..MaxChain] ==
            IF k = 0 THEN s
            ELSE With(f[k - 1], LAMBDA p : IF p.go THEN Body(p) ELSE p)
    IN  With(f[MaxChain], LAMBDA r : [r EXCEPT !.hang = @ \/ r.go, !.go = FALSE])

-----------------------------------------------------------------------------
(* The disk: disk_read_dispatch and disk_write_dispatch.                   *)

Read(s) == [s EXCEPT !.io = @ + 1, !.ok = (s.io + 1 # s.bad)]

Write(s, d) ==
    With(Read(s), LAMBDA t :
        IF t.ok /\ (s.cut = 0 \/ t.io <= s.cut) THEN [t EXCEPT !.d = d] ELSE t)

-----------------------------------------------------------------------------
(* The FAT and the sector of it that is cached.                            *)

Sector(e)   == e \div PerSector
InSector(k) == { e \in Entry : Sector(e) = k }

\* fat32_flush_fat_cache: the primary FAT, then the backup, whose failure only
\* sets has_errors.
FlushFat(s) ==
    IF ~s.fdirty \/ s.fc = NONE THEN [s EXCEPT !.ok = TRUE]
    ELSE Try(Write(s, [s.d EXCEPT !.fat = s.fv @@ @]), LAMBDA a :
             With(Write(a, [a.d EXCEPT !.bak = s.fv @@ @]), LAMBDA b :
                  [b EXCEPT !.err = @ \/ ~b.ok, !.fdirty = FALSE, !.ok = TRUE]))

\* The part fat32_get_fat_entry and fat32_set_fat_entry share: bring the sector
\* of entry e into the cache, writing back what the cache holds.
LoadFat(s, e) ==
    IF s.fc = Sector(e) THEN [s EXCEPT !.ok = TRUE]
    ELSE Then(FlushFat(s), LAMBDA a :
              Try(Read(a), LAMBDA r :
                  [r EXCEPT !.fc = Sector(e),
                            !.fv = [x \in InSector(Sector(e)) |-> r.d.fat[x]]]))

\* fat32_get_fat_entry.  Entry 1 is reported clean and without errors when the
\* driver has met none, whatever the disk says.
Get(s, e) ==
    IF e \notin Entry THEN [Fail(s) EXCEPT !.v = BAD]
    ELSE With(LoadFat(s, e), LAMBDA l :
              [l EXCEPT !.v = IF ~l.ok THEN BAD
                              ELSE IF e # 1 THEN l.fv[e]
                              ELSE IF l.err THEN l.fv[e] - (l.fv[e] % 2)
                              ELSE CLN + HRD])

\* fat32_set_fat_entry
Set(s, e, x) ==
    IF e \notin Entry THEN Fail(s)
    ELSE Then(LoadFat(s, e), LAMBDA l : [l EXCEPT !.fv[e] = x, !.fdirty = TRUE])

\* Fault: the hint is the cluster after the first free one.
CalcFreeNextFault(s) ==
    LET Count(g, c) ==
            IF g.v # FREE THEN g
            ELSE [g EXCEPT !.calc = [free |-> @.free + 1,
                                     next |-> IF @.next = 2 THEN c + 1 ELSE @.next]]
        f[c \in 1..(N + 1)] ==
            IF c = 1 THEN [s EXCEPT !.calc = [free |-> 0, next |-> 2]]
            ELSE Count(Get(f[c - 1], c), c)
    IN  f[N + 1]

\* fat32_calculate_free_clusters, in s.calc.  An entry that cannot be read is
\* not counted.
CalcFree(s) ==
    LET Count(g, c) ==
            IF g.v # FREE THEN g
            ELSE [g EXCEPT !.calc = [free |-> @.free + 1,
                                     next |-> IF @.next = 2 THEN c ELSE @.next]]
        f[c \in 1..(N + 1)] ==
            IF c = 1 THEN [s EXCEPT !.calc = [free |-> 0, next |-> 2]]
            ELSE Count(Get(f[c - 1], c), c)
    IN  f[N + 1]

\* fat32_update_fsinfo: recomputed by a scan of the FAT, then written to the
\* FSInfo sector and to its backup, which nothing reads.
WriteInfo(c) ==
    Try(Write([c EXCEPT !.info = c.calc], [c.d EXCEPT !.info = c.calc]), LAMBDA w :
        [Write(w, w.d) EXCEPT !.ok = TRUE])
UpdateFsinfo(s) == WriteInfo(CalcFree(s))

\* fat32_flush_fat_cache, then fat32_update_fsinfo.
FsinfoAfter(f)      == IF f.ok THEN UpdateFsinfo(f) ELSE f
Save(s)             == FsinfoAfter(FlushFat(s))
SaveUnlessFailed(s) == IF s.ok THEN Save(s) ELSE s

\* The body of fat32_allocate_cluster once cluster c is found free; s.v is the
\* cluster, or BAD.
Saved(u, c) == IF u.ok THEN [u EXCEPT !.v = c]
               ELSE [Set(u, c, FREE) EXCEPT !.v = BAD, !.ok = FALSE]
Mark(a, c)  == IF a.ok THEN Saved(Save(a), c) ELSE [Fail(a) EXCEPT !.v = BAD]
Take(s, c) == Mark(Set(s, c, EOC), c)

\* fat32_allocate_cluster: the first free cluster at or after the hint, round
\* the end of the volume.
After(c) == IF c = N + 1 THEN 2 ELSE c + 1
TryCluster(p, g, hint) ==
    IF g.v = FREE THEN [Take(g, p.cur) EXCEPT !.go = FALSE]
    ELSE IF After(p.cur) = hint THEN [Fail(g) EXCEPT !.v = BAD, !.go = FALSE]
    ELSE [g EXCEPT !.cur = After(p.cur)]
Allocate(s) ==
    LET hint == IF s.info.next \in Cluster THEN s.info.next ELSE 2
    IN  While([s EXCEPT !.cur = hint, !.go = TRUE], LAMBDA p : TryCluster(p, Get(p, p.cur), hint))

\* Fault: a chain of two is freed from its end.
FreeChainTailFault(s, c) ==
    With(Get(s, c), LAMBDA g :
        UpdateFsinfo(FlushFat(Set(IF g.v \in Cluster THEN Set(g, g.v, FREE) ELSE g, c, FREE))))

\* Fault: the head of a longer chain is kept.
FreeChainHeadFault(s, c) ==
    With(Get(s, c), LAMBDA g :
        UpdateFsinfo(FlushFat(Set(g, IF g.v \in Cluster THEN g.v ELSE c, FREE))))

\* fat32_free_cluster_chain: from the head on, until the end of the chain or
\* the first entry that cannot be read.
Freed(z, next) == IF z.ok THEN [z EXCEPT !.go = next \in Cluster, !.cur = next]
                  ELSE [Fail(z) EXCEPT !.go = FALSE]
FreeLink(p, g) == IF g.v = BAD THEN [Fail(g) EXCEPT !.go = FALSE]
                  ELSE Freed(Set(g, p.cur, FREE), g.v)
FreeChain(s, c) ==
    IF c \notin Cluster THEN Fail(s)
    ELSE SaveUnlessFailed(While([s EXCEPT !.cur = c, !.go = TRUE], LAMBDA p : FreeLink(p, Get(p, p.cur))))

\* fat32_count_clusters_in_chain, in s.cnt.  MAX_CLUSTERS is MaxChain.
CountClusters(s, c) ==
    LET Step(p) == With(Get(p, p.cur), LAMBDA g :
            [g EXCEPT !.cnt = @ + 1, !.cur = g.v, !.go = g.v \in Cluster /\ p.cnt + 1 < MaxChain])
    IN  While([s EXCEPT !.cnt = 0, !.cur = c, !.go = c \in Cluster], Step)

-----------------------------------------------------------------------------
(* Clusters, and the directory sector that is cached.                      *)

\* fat32_read_cluster, fat32_write_cluster
ReadCluster(s, c) ==
    IF c \notin Cluster THEN Fail(s) ELSE Try(Read(s), LAMBDA r : r)

WriteCluster(s, c, x) ==
    IF c \notin Cluster THEN Fail(s)
    ELSE Try(Write(s, [s.d EXCEPT !.dat[c] = x]), LAMBDA w : w)

\* fat32_flush_dir_cache
FlushDir(s) ==
    IF ~s.ddirty \/ s.dc = NONE THEN [s EXCEPT !.ok = TRUE]
    ELSE Try(Write(s, IF s.dc = 0 THEN s.d ELSE [s.d EXCEPT !.dat[s.dc] = s.dv]), LAMBDA w :
             [w EXCEPT !.ddirty = FALSE])

\* fat32_read_dir_sector: the cached sector is written back first, and dropped
\* even when that fails.  A cluster number out of range is sector 0 (see
\* fat32_cluster_to_sector), where no name is found.
ReadDir(s, cl) ==
    LET c == IF cl \in Cluster THEN cl ELSE 0
    IN  IF s.dc = c THEN [s EXCEPT !.ok = TRUE]
        ELSE With(FlushDir(s), LAMBDA f :
             Then(Read([f EXCEPT !.lost = @ \/ ~f.ok]), LAMBDA r :
                  [r EXCEPT !.dc = c, !.dv = IF c = 0 THEN Zero ELSE r.d.dat[c]]))

\* The buffer a caller that does not look at the result goes on with: when the
\* sector could not be read it is whatever the stack held.
DirBuffer(r) == IF r.ok THEN r.dv ELSE r.junk

\* fat32_write_dir_sector: into the cache only.
WriteDir(s, c, x) ==
    With(IF s.dc # c THEN FlushDir(s) ELSE [s EXCEPT !.ok = TRUE], LAMBDA f :
        [f EXCEPT !.lost = @ \/ ~f.ok, !.dc = c, !.dv = x, !.ddirty = TRUE, !.ok = TRUE])
-----------------------------------------------------------------------------
(* Directories.                                                            *)

Slot     == 1..Slots
Least(S) == IF S = {} THEN 0 ELSE Min(S)

\* The first slot of ents that satisfies P, if it lies before the end mark.
Find(ents, P(_)) ==
    LET k == Least({ i \in Slot : ents[i].st = "end" \/ (ents[i].st = "used" /\ P(ents[i])) })
    IN  IF k # 0 /\ ents[k].st = "used" THEN k ELSE 0
HasEnd(ents) == \E i \in Slot : ents[i].st = "end"

\* The 8.3 name stored for n and read back from its entry: n itself when it fits
\* (fat32_parse_short_name, fat32_format_short_name), else fat32_generate_sfn's.
ShortName(n) == Sfn[n]

\* A name is compared with the long name and with the 8.3 name of an entry.
Matches(e, n) == e.name = n \/ ShortName(e.name) = n

\* The search of fat32_lookup and of fat32_unlink: the entry in s.ent, its place
\* in s.cur and s.slot.  An entry of the FAT that cannot be read leads to sector
\* 0, which ends the search.  Only fat32_lookup gives up on a sector that cannot
\* be read, and leaves its loop at a cluster number below 2.
Goes(c, lookup)  == IF lookup THEN c \in Cluster \cup {BAD} ELSE c # EOC
Onward(g, lookup) == [g EXCEPT !.cur = g.v, !.go = Goes(g.v, lookup), !.ok = FALSE]
SearchEntries(r, x, k, lookup) ==
    IF ~r.ok /\ lookup THEN [r EXCEPT !.go = FALSE]
    ELSE IF k # 0 THEN [r EXCEPT !.go = FALSE, !.slot = k, !.ent = x[k],
                                 !.lost = @ \/ ~r.ok, !.ok = TRUE]
    ELSE IF HasEnd(x) THEN [r EXCEPT !.go = FALSE, !.ok = FALSE]
    ELSE Onward(Get(r, r.cur), lookup)
SearchSector(r, n, lookup) ==
    SearchEntries(r, DirBuffer(r).ents, Find(DirBuffer(r).ents, LAMBDA e : Matches(e, n)), lookup)
Search(s, dir, n, lookup) ==
    While([s EXCEPT !.cur = dir, !.go = Goes(dir, lookup), !.ok = FALSE],
          LAMBDA p : SearchSector(ReadDir(p, p.cur), n, lookup))

\* fat32_lookup
Lookup(s, dir, n) == Search(s, dir, n, TRUE)

\* fat32_find_free_dir_entry, in s.v and s.slot.  It reads the disk, not the
\* cached sector.  A full directory gets one more cluster; nothing that is done
\* for that is checked.
Unused(r, c)  == Least({ i \in Slot : r.d.dat[c].ents[i].st # "used" })
NextSector(g) == [g EXCEPT !.cur = g.v, !.go = g.v \in Cluster \cup {BAD}]
FreeSlotIn(r, c) ==
    IF ~r.ok THEN [r EXCEPT !.go = FALSE]
    ELSE IF Unused(r, c) # 0 THEN [r EXCEPT !.go = FALSE, !.v = c, !.slot = Unused(r, c)]
    ELSE NextSector([Get(r, c) EXCEPT !.slot = 0, !.cnt = c])
Zeroed(e, c, bad) == With(WriteCluster(e, c, Zero), LAMBDA z :
    [z EXCEPT !.v = c, !.slot = 1, !.ok = TRUE, !.lost = @ \/ bad \/ ~e.ok \/ ~z.ok])
Linked(l, c)    == Zeroed(Set(l, c, EOC), c, ~l.ok)
Grown(a, last)  == IF a.v = BAD THEN a ELSE Linked(Set(a, last, a.v), a.v)
GrowIfFull(w)   == IF w.slot # 0 \/ ~w.ok THEN w ELSE Grown(Allocate(w), w.cnt)
FindFree(s, dir) ==
    IF dir \notin Cluster THEN Fail(s)
    ELSE GrowIfFull(While([s EXCEPT !.cur = dir, !.cnt = dir, !.go = TRUE, !.slot = 0],
                          LAMBDA p : FreeSlotIn(ReadCluster(p, p.cur), p.cur)))

\* fat32_create_dir_entry
EnterSlot(r, f, e) == WriteDir([r EXCEPT !.lost = @ \/ ~r.ok], f.v,
                               [DirBuffer(r) EXCEPT !.ents[f.slot] = e])
EnterAt(f, e)      == IF f.ok THEN EnterSlot(ReadDir(f, f.v), f, e) ELSE f
CreateDirEntry(s, dir, n, first, isdir) ==
    EnterAt(FindFree(s, dir), NewEntry(n, first, isdir))

\* The loop fat32_update_dir_entry and fat32_extend_and_update share: find the
\* 8.3 name of n on the disk, not in the cached sector, and replace the entry.
\* An entry that is still only in the cached sector is not found, and of two
\* files whose names have the same 8.3 name the first is: if that is not n, the
\* entry of another file is replaced (s.lost).
Rewrite(s, dir, n, New(_)) ==
    LET In(r, c, x, k) ==
            IF k # 0 THEN [WriteCluster(r, c, [x EXCEPT !.ents[k] = New(@)])
                              EXCEPT !.go = FALSE, !.lost = @ \/ x.ents[k].name # n]
            ELSE IF HasEnd(x.ents) THEN [Fail(r) EXCEPT !.go = FALSE]
            ELSE NextSector([Get(r, c) EXCEPT !.ok = FALSE])
        Found(x) == Find(x.ents, LAMBDA e : ShortName(e.name) = ShortName(n))
        Step(p) == With(ReadCluster(p, p.cur), LAMBDA r :
            IF r.ok THEN In(r, p.cur, r.d.dat[p.cur], Found(r.d.dat[p.cur]))
            ELSE [r EXCEPT !.go = FALSE])
    IN  While([s EXCEPT !.cur = dir, !.go = TRUE], Step)

\* fat32_update_dir_entry, for the vnode h.
UpdateEntryOf(g, h) ==
    IF g.v = FREE THEN Fail(g)
    ELSE Try(Rewrite(g, h.parent, h.path[2], LAMBDA e : [e EXCEPT !.first = h.first, !.size = h.size]),
             LAMBDA r : r)
UpdateDirEntry(s, h) ==
    IF h.parent = 0 THEN [s EXCEPT !.ok = TRUE]
    ELSE UpdateEntryOf(IF h.first >= 2 THEN Get(s, h.first) ELSE [s EXCEPT !.v = EOC], h)

\* fat32_release: both caches are written back, the FAT to its first copy only,
\* and marked clean whatever comes of it.
Release(s) ==
    With(IF s.fdirty /\ s.fc # NONE
         THEN Write(s, [s.d EXCEPT !.fat = s.fv @@ @]) ELSE [s EXCEPT !.ok = TRUE], LAMBDA f :
        With(FlushDir(f), LAMBDA d :
            [d EXCEPT !.fdirty = FALSE, !.ddirty = FALSE, !.ok = s.ok,
                      !.err = s.err, !.lost = @ \/ ~f.ok \/ ~d.ok]))

\* fat32_is_directory_empty, in s.ok.  An entry of the FAT that cannot be read
\* leaves its loop at sector 0 for ever.
CountUsed(r, c) ==
    LET x == IF c \in Cluster THEN r.d.dat[c].ents ELSE Zero.ents
        Counted(g) == [g EXCEPT !.cur = g.v, !.go = g.v # EOC,
                                !.cnt = @ + (IF Find(x, LAMBDA e : TRUE) # 0 THEN 1 ELSE 0)]
    IN  IF r.ok THEN Counted(Get(r, c)) ELSE [Fail(r) EXCEPT !.go = FALSE, !.cnt = 1]
IsDirectoryEmpty(s, c) ==
    With(While([s EXCEPT !.cur = c, !.go = TRUE, !.cnt = 0], LAMBDA p : CountUsed(Read(p), p.cur)),
         LAMBDA r : [r EXCEPT !.ok = (r.cnt = 0)])

\* fat32_unlink: the entry is marked deleted in the cached sector, the clusters
\* are given back on the disk.
MarkDeleted(r, l) == WriteDir([r EXCEPT !.lost = @ \/ ~r.ok], l.cur,
                              [DirBuffer(r) EXCEPT !.ents[l.slot].st = "del"])
GiveBack(w, c)    == IF c >= 2 THEN [FreeChain(w, c) EXCEPT !.ok = TRUE] ELSE w
UnlinkEmpty(e, l) == IF ~l.ok \/ ~e.ok \/ e.hang THEN [e EXCEPT !.ok = FALSE]
                     ELSE GiveBack(MarkDeleted(ReadDir(e, l.cur), l), l.ent.first)
UnlinkFound(l)    == UnlinkEmpty(IF l.ent.dir THEN IsDirectoryEmpty(l, l.ent.first) ELSE l, l)
UnlinkEntry(s, dir, n) == UnlinkFound(Search(s, dir, n, FALSE))

\* fat32_mkdir
DirEntered(x, c) == IF x.ok THEN [FlushDir(FlushFat(x)) EXCEPT !.ok = TRUE]
                    ELSE [FreeChain(x, c) EXCEPT !.ok = FALSE]
DirZeroed(z, c, dir, n) ==
    DirEntered(CreateDirEntry([z EXCEPT !.lost = @ \/ ~z.ok], dir, n, c, TRUE), c)
DirAllocated(a, dir, n) ==
    IF a.v = BAD THEN [a EXCEPT !.ok = FALSE]
    ELSE DirZeroed(Write(a, [a.d EXCEPT !.dat[a.v] = Zero]), a.v, dir, n)
MakeUnlessFound(l, dir, n) ==
    IF l.ok THEN [Release(l) EXCEPT !.ok = FALSE] ELSE DirAllocated(Allocate(l), dir, n)
MakeDir(s, dir, n) == MakeUnlessFound(Lookup(s, dir, n), dir, n)
-----------------------------------------------------------------------------
(* Files.  s.hs[h] is the vnode an operation works on, with its offset.    *)

\* The last cluster of the chain of c, in s.v; s.ok is FALSE when the chain does
\* not end with EOC (the first loop of fat32_extend_cluster_chain).
LastCluster(s, c) ==
    LET Step(p) == With(Get(p, p.cur), LAMBDA g :
            IF g.v = EOC THEN [g EXCEPT !.go = FALSE, !.v = p.cur]
            ELSE IF g.v \in Cluster THEN [g EXCEPT !.cur = g.v]
            ELSE [g EXCEPT !.go = FALSE, !.ok = FALSE])
    IN  While([s EXCEPT !.cur = c, !.go = TRUE], Step)

\* A new cluster, filled with zeros: in fat32_write and in the second loop of
\* fat32_extend_cluster_chain.
KeepNew(z, c) == IF z.ok THEN [z EXCEPT !.v = c] ELSE [FreeChain(z, c) EXCEPT !.ok = FALSE]
ZeroNew(a)    == IF a.v = BAD THEN a ELSE KeepNew(WriteCluster(a, a.v, Zero), a.v)
NewCluster(s) == ZeroNew(Allocate(s))

\* fat32_extend_cluster_chain by n clusters (fewer than 8: the FAT is flushed
\* once, at the end).
EndAt(t, c)       == IF t.ok THEN [Set(t, c, EOC) EXCEPT !.v = c]
                     ELSE [FreeChain(t, c) EXCEPT !.ok = FALSE]
LinkNew(c, last)  == IF c.ok THEN EndAt(Set(c, last, c.v), c.v) ELSE c
AddCluster(p)     == IF p.ok THEN LinkNew(NewCluster(p), p.v) ELSE p
Extend(s, first, n) ==
    LET f[k \in 0..n] == IF k = 0 THEN LastCluster(s, first) ELSE AddCluster(f[k - 1])
    IN  IF n = 0 \/ first < 2 THEN [s EXCEPT !.ok = FALSE]
        ELSE Then(f[n], FlushFat)

\* fat32_extend_and_update: then the size in the entry of name n of directory dir.
SizeUpdated(x, dir, name, size) ==
    IF ~x.ok THEN x
    ELSE With(Rewrite(x, dir, name, LAMBDA e : [e EXCEPT !.size = size]), LAMBDA r :
              [r EXCEPT !.ok = r.ok \/ r.cur \in {EOC, FREE}])
ExtendAndUpdate(s, first, n, dir, name, size) == SizeUpdated(Extend(s, first, n), dir, name, size)

\* The cluster of the chain of c after n links, in s.v: the loop that fat32_read
\* and fat32_write start with.
Nth(s, c, n) ==
    LET f[k \in 0..n] ==
            IF k = 0 THEN [s EXCEPT !.v = c]
            ELSE With(f[k - 1], LAMBDA p : IF p.v \in {EOC, FREE} THEN p ELSE Get(p, p.v))
    IN  f[n]

\* fat32_write of one cluster at the offset of file h, and vfs_write.  The result of
\* updating the directory entry and of both flushes is ignored.
Need(node) == IF node.off + 1 > node.size THEN node.off + 1 ELSE node.size
Lengthened(c, node) == IF Need(node) > c.cnt THEN Extend(c, node.first, Need(node) - c.cnt)
                       ELSE [c EXCEPT !.ok = TRUE]
Flushed(b, h, update, done) ==
    [FlushDir(FlushFat(IF update THEN UpdateDirEntry(b, b.hs[h]) ELSE b)) EXCEPT !.ok = done]
Written(w, n, h, fresh) ==
    LET node == n.hs[h]
    IN  IF n.v \in Cluster /\ w.ok
        THEN Flushed([w EXCEPT !.hs[h].size = Need(node), !.hs[h].off = @ + 1], h,
                     fresh \/ Need(node) # node.size, TRUE)
        ELSE Flushed(IF n.v \in Cluster THEN w ELSE n, h, fresh, FALSE)
WriteAt(n, h, fresh) ==
    IF n.v \in {EOC, FREE} THEN [n EXCEPT !.ok = FALSE]
    ELSE Written(WriteCluster(n, n.v, Data(n.hs[h].path)), n, h, fresh)
WriteLong(e, h, fresh)  == IF e.ok THEN WriteAt(Nth(e, e.hs[h].first, e.hs[h].off), h, fresh) ELSE e
WriteChain(s, h, fresh) ==
    WriteLong(Lengthened(CountClusters(s, s.hs[h].first), s.hs[h]), h, fresh)
WriteNew(a, h) == IF a.v = BAD \/ ~a.ok THEN a
                  ELSE WriteChain([a EXCEPT !.hs[h].first = a.v], h, TRUE)
WriteFile(s, h) ==
    IF s.hs[h].first = 0 THEN WriteNew(NewCluster(s), h) ELSE WriteChain(s, h, FALSE)

\* fat32_read of one cluster.
ReadAt(n, h) ==
    IF n.v \in {EOC, FREE} THEN [n EXCEPT !.ok = FALSE]
    ELSE Then(ReadCluster(n, n.v), LAMBDA r : [Get(r, n.v) EXCEPT !.ok = TRUE, !.hs[h].off = @ + 1])
ReadFile(s, h) ==
    LET node == s.hs[h]
    IN  IF node.off >= node.size THEN [s EXCEPT !.ok = FALSE]
        ELSE ReadAt(Nth(s, node.first, node.off), h)

\* fat32_readdir reads the sectors of a directory up to the end mark.
ListSector(r, c) == IF ~r.ok \/ HasEnd(r.dv.ents) THEN [r EXCEPT !.go = FALSE]
                    ELSE NextSector(Get(r, c))
ReadDirectory(s, dir) ==
    While([s EXCEPT !.cur = dir, !.go = dir >= 2], LAMBDA p : ListSector(ReadDir(p, p.cur), p.cur))

-----------------------------------------------------------------------------
(* Path names: resolve_path_to_vnode releases every vnode but the last, and  *)
(* the root is never released.                                             *)

\* The directory d of a path, in s.v.
ResolveDir(s, d) ==
    IF d = "/" THEN [s EXCEPT !.v = ROOT, !.ok = TRUE]
    ELSE With(Lookup(s, ROOT, d), LAMBDA a : [a EXCEPT !.v = a.ent.first])

LeaveDir(s, d) == IF d = "/" THEN s ELSE Release(s)

\* The entry of the file at path p, in s.ent.
ResolveIn(a, p) ==
    IF ~a.ok THEN a
    ELSE IF p[1] # "/" /\ ~a.ent.dir THEN [Release(a) EXCEPT !.ok = FALSE]
    ELSE [LeaveDir(Lookup(a, a.v, p[2]), p[1]) EXCEPT !.cnt = a.v]
Resolve(s, p) == ResolveIn(ResolveDir(s, p[1]), p)
-----------------------------------------------------------------------------
(* Mounting: fat32_validate_filesystem repairs the entries of the root       *)
(* directory, in a buffer s.buf of the sector of cluster s.at.              *)

\* disk_write_dispatch of the buffer.
WriteBuffer(s) ==
    Try(Write(s, [s.d EXCEPT !.dat[s.at].ents = s.buf]), LAMBDA w : [w EXCEPT !.cnt = @ + 1])

\* fat32_validate_cluster_chain: the length in s.n, s.ok unless a link is bad.
ValidateChain(s, c) ==
    LET Step(p) == With(Get(p, p.cur), LAMBDA g :
            IF g.v = FREE THEN [g EXCEPT !.go = FALSE, !.ok = FALSE]
            ELSE IF g.v = BAD THEN [g EXCEPT !.go = FALSE, !.ok = FALSE, !.n = @ + 1]
            ELSE IF p.n + 1 >= MaxChain THEN [g EXCEPT !.go = FALSE, !.ok = FALSE]
            ELSE [g EXCEPT !.n = @ + 1, !.cur = g.v, !.go = g.v # EOC])
    IN  While([s EXCEPT !.cur = c, !.n = 0, !.go = TRUE], Step)

\* The entry in slot i names a free cluster: give it a new one with the same
\* content, or none.
AllocateAfter(t)    == IF t.ok THEN Allocate(t) ELSE [t EXCEPT !.v = BAD]
CopyRead(r, c, new) == WriteBuffer(IF r.ok THEN WriteCluster(r, new, r.d.dat[c]) ELSE r)
CopyTo(e, c, new)   == IF e.ok THEN CopyRead(ReadCluster(e, c), c, new)
                       ELSE [FreeChain(e, new) EXCEPT !.ok = FALSE]
Reattach(a, i, c) ==
    IF a.v = BAD THEN WriteBuffer([a EXCEPT !.buf[i].first = 0, !.buf[i].size = 0])
    ELSE CopyTo(Set([a EXCEPT !.buf[i].first = a.v], a.v, EOC), c, a.v)
Recover(s, i) == Reattach(AllocateAfter(ReadCluster(s, s.buf[i].first)), i, s.buf[i].first)

\* The chain of the entry in slot i has a bad link: cut it.  last_valid_cluster
\* (s.v) trails one cluster behind the one whose link is bad, and valid_length
\* (s.n) starts at 1.
CutLink(p, g) ==
    IF g.v \in {FREE, BAD}
    THEN [Then(Set(g, p.v, EOC), FlushFat) EXCEPT !.v = p.v, !.go = FALSE]
    ELSE [g EXCEPT !.n = @ + 1, !.v = p.cur, !.cur = g.v, !.go = g.v # EOC]
CutChain(s, i) ==
    LET c == s.buf[i].first
    IN  While([s EXCEPT !.cur = c, !.v = c, !.n = 1, !.go = TRUE], LAMBDA p : CutLink(p, Get(p, p.cur)))

\* A file is longer than its chain: from the cluster s.v of a chain of length
\* s.n, add what is missing.
Lengthen(s, i, from) ==
    LET e == s.buf[i]
    IN  ExtendAndUpdate(s, from, e.size - s.n, s.at, e.name, e.size)

TooLong(s, i) == ~s.buf[i].dir /\ s.buf[i].size > s.n

\* What fat32_validate_filesystem does with an entry, by its chain.
EndHere(n)      == Set(n, n.v, EOC)
Refilled(x, r, i) == IF x.ok THEN EndHere(Nth(x, r.v, r.buf[i].size - r.n))
                     ELSE [x EXCEPT !.buf[i].size = r.n]
CheckCut(r, i)  == IF ~r.ok THEN Fail(r)
                   ELSE IF TooLong(r, i)
                   THEN WriteBuffer([Refilled(Lengthen(r, i, r.v), r, i) EXCEPT !.cnt = r.cnt])
                   ELSE r
EndIfOpen(g, c) == IF g.v = EOC THEN g ELSE Set(g, c, EOC)
Confirm(l)      == IF l.v \in {EOC, FREE} THEN l ELSE EndIfOpen(Get(Get(l, l.v), l.v), l.v)
Longer(z, c, i, first) ==
    IF z.ok THEN [Confirm(Nth(CountClusters(z, first), first, c.buf[i].size - 1))
                     EXCEPT !.cnt = c.cnt + 1, !.ok = TRUE]
    ELSE [z EXCEPT !.cnt = c.cnt, !.ok = TRUE]
CheckChain(c, i, first) ==
    IF ~c.ok THEN CheckCut(CutChain(c, i), i)
    ELSE IF TooLong(c, i) THEN Longer(Lengthen(c, i, first), c, i, first)
    ELSE c
CheckFirst(g, i, first) ==
    IF g.v = FREE THEN Recover(g, i) ELSE CheckChain(ValidateChain(g, first), i, first)

\* Fault: an entry with a free first cluster passes.
CheckEntryTrustFault(s, i) == [s EXCEPT !.ok = TRUE]

\* The body of the loop of fat32_validate_filesystem over the entries.  After a
\* cut the buffer is written over what fat32_extend_and_update wrote.
CheckEntry(s, i) ==
    LET first == s.buf[i].first
    IN  IF s.buf[i].st # "used" \/ first \notin Cluster THEN s
        ELSE CheckFirst(Get(s, first), i, first)

\* All entries of one sector of the root directory, up to the end mark.  As in
\* fat32_is_directory_empty, an unreadable entry of the FAT leaves the loop at
\* sector 0 for ever.
CheckUnlessEnded(p, i) ==
    IF ~p.ok \/ (\E j \in 1..i : p.buf[j].st = "end") THEN p ELSE CheckEntry(p, i)
CheckEntries(r, c) ==
    LET f[i \in 0..Slots] ==
            IF i = 0 THEN [r EXCEPT !.buf = IF c \in Cluster THEN r.d.dat[c].ents ELSE Zero.ents]
            ELSE CheckUnlessEnded(f[i - 1], i)
    IN  IF r.ok THEN f[Slots] ELSE Fail(r)
CheckRest(e, c) == IF e.ok THEN [NextSector(Get(e, c)) EXCEPT !.ok = TRUE]
                   ELSE [e EXCEPT !.go = FALSE]
CheckSector(s) == CheckRest(CheckEntries(Read([s EXCEPT !.at = s.cur]), s.cur), s.cur)

\* The first pass of fat32_validate_filesystem.  fat32_get_fat_entry lets no value
\* out of range through, so it only reads.
ScanFat(s) ==
    LET f[c \in 1..(N + 1)] == IF c = 1 THEN s ELSE Get(f[c - 1], c)
    IN  f[N + 1]

\* The rest of it.  Nothing sets the clean flag of a volume with errors.
Cleaned(u)       == IF ~u.ok \/ u.err THEN u ELSE FlushFat(Set(u, 1, CLN + HRD))
Recounted(d, r)  == IF d.ok /\ r.cnt > 0 THEN UpdateFsinfo(d) ELSE d
Validated(r)     == IF r.ok THEN Cleaned(Recounted(FlushDir(r), r)) ELSE r
Validate(m) ==
    Validated(While([ScanFat(m @@ [buf |-> Zero.ents, at |-> 0, n |-> 0])
                        EXCEPT !.cur = ROOT, !.cnt = 0, !.go = TRUE, !.ok = TRUE], CheckSector))

\* The boot sector and the FSInfo sector, as fat32_mount reads them.
InfoSector(i) == IF ~i.ok \/ i.d.info = NoInfo THEN [i EXCEPT !.ok = FALSE]
                 ELSE [i EXCEPT !.info = i.d.info]
BootSector(b) == IF ~b.ok \/ ~b.d.boot THEN [b EXCEPT !.ok = FALSE] ELSE InfoSector(Read(b))
Volume(s)     == BootSector(Read(s))

MountChecked(q) == IF q.ok THEN With(Validate(q), LAMBDA v : [v EXCEPT !.on = v.ok]) ELSE q

\* Fault: the volume is not marked dirty.
MountUnmarkedFault(s) ==
    With(Volume(s), LAMBDA i :
        IF ~i.ok THEN i ELSE MountChecked([Get(i, 1) EXCEPT !.err = TRUE]))

\* fat32_mount.  The test of entry 1 compares its top four bits with
\* 0x0FFFFFFF, so it always fails: has_errors is set, the entry is reset, and
\* then marked dirty.
Hinted(n)  == IF n.info.next \in Cluster THEN n
              ELSE With(CalcFree(n), LAMBDA x : [x EXCEPT !.info = x.calc])
Flagged(i) ==
    IF ~i.ok THEN i
    ELSE Then(Then(Then(Set([Get(Hinted(i), 1) EXCEPT !.err = TRUE], 1, CLN + HRD), FlushFat),
                   LAMBDA z : Set(z, 1, HRD)), FlushFat)
MountFs(s) == MountChecked(Flagged(Volume(s)))

\* fat32_unmount: has_errors is forgotten first; whatever fails from there on
\* keeps the volume from being marked free of errors.
UnmountFs(s) ==
    LET Count(c) == IF c.calc # c.info THEN UpdateFsinfo(c) ELSE c
        Last(y) == Then(Set(y, 1, IF y.err THEN CLN ELSE CLN + HRD), FlushFat)
    IN  [Last(Then(Set(Get(Count(CalcFree(FlushDir(FlushFat([s EXCEPT !.err = FALSE])))), 1),
                       1, CLN + HRD), FlushFat)) EXCEPT !.on = FALSE]

\* fat32_write_boot_sector: a test pattern, the boot sector, once more if that
\* failed, and the backup, which nothing reads.
WriteBoot(s) ==
    LET Put(p) == Write(p, [p.d EXCEPT !.boot = TRUE])
        Retry(b) == IF b.ok THEN b ELSE Put(b)
    IN  Then(Then(Write(s, [s.d EXCEPT !.boot = FALSE]), LAMBDA p : Retry(Put(p))), LAMBDA r :
             [Write(r, r.d) EXCEPT !.ok = TRUE])

\* fat32_initialize_fat: every sector of the first FAT, then of the second.
EmptyFat == [e \in Entry |-> IF e = 1 THEN CLN + HRD ELSE IF e = ROOT THEN EOC ELSE FREE]
InitializeFat(s) ==
    LET last == Sector(N + 1)
        Copy(k, t) == [e \in Entry |-> IF Sector(e) = k THEN EmptyFat[e] ELSE t[e]]
        f[k \in 0..(last + 1)] ==
            IF k = 0 THEN s
            ELSE Then(f[k - 1], LAMBDA p : Write(p, [p.d EXCEPT !.fat = Copy(k - 1, @)]))
        h[k \in 0..(last + 1)] ==
            IF k = 0 THEN f[last + 1]
            ELSE Then(h[k - 1], LAMBDA p : Write(p, [p.d EXCEPT !.bak = Copy(k - 1, @)]))
    IN  h[last + 1]

\* fat32_write_fsinfo_sector, given all clusters but the root's as free and
\* cluster 2, which is the root's, as the next free one.
WriteFsinfo(s) == Write(s, [s.d EXCEPT !.info = [free |-> N - 1, next |-> 2]])

\* fat32_initialize_root_directory: one empty cluster.
InitializeRoot(s) == Write(s, [s.d EXCEPT !.dat[ROOT] = Zero])

\* fat32_write_volume_label: a sector is read, changed and written, and every
\* failure ignored.  The label's own slot is left out.
WriteVolumeLabel(s) == [Then(Read(s), LAMBDA l : Write(l, l.d)) EXCEPT !.ok = TRUE]

\* fat32_format_with_params.
Format(s) ==
    Then(Then(Then(Then(WriteBoot(s), WriteFsinfo), InitializeFat), InitializeRoot),
         WriteVolumeLabel)
-----------------------------------------------------------------------------
(* The operations, as the VFS calls them.                                  *)

Node(s, p) == [open |-> TRUE, path |-> p, first |-> s.ent.first, size |-> s.ent.size,
               parent |-> s.cnt, off |-> 0, gone |-> FALSE]

\* vfs_open of a file that exists.
OpenFile(s, h, p) == Then(Resolve(s, p), LAMBDA r : [r EXCEPT !.hs[h] = Node(r, p)])

\* vfs_open with VFS_O_CREAT, and fat32_create.
CreateIn(x, h, p, d) ==
    IF x.ok THEN [x EXCEPT !.hs[h] = Node([x EXCEPT !.ent = EndSlot, !.cnt = d], p)] ELSE x
CreateNew(l, h, p, d) ==
    IF l.ok \/ (p[1] # "/" /\ ~d.ent.dir) THEN [LeaveDir(Release(l), p[1]) EXCEPT !.ok = FALSE]
    ELSE CreateIn(LeaveDir(CreateDirEntry(l, d.v, p[2], 0, FALSE), p[1]), h, p, d.v)
CreateUnder(d, h, p) == IF d.ok THEN CreateNew(Lookup(d, d.v, p[2]), h, p, d) ELSE d
CreateUnlessFound(r, h, p) ==
    IF r.ok THEN [Release(r) EXCEPT !.ok = FALSE] ELSE CreateUnder(ResolveDir(r, p[1]), h, p)
CreateFile(s, h, p) == CreateUnlessFound(Resolve(s, p), h, p)

\* vfs_close
CloseFile(s, h) == Release([s EXCEPT !.hs[h] = Closed])

\* vfs_unlink: it does not look whether the file is open.
UnlinkIn(d, p) ==
    LET Gone(k) == IF k.open /\ k.path = p THEN [k EXCEPT !.gone = TRUE] ELSE k
    IN  IF ~d.ok THEN d
        ELSE IF p[1] # "/" /\ ~d.ent.dir THEN Release(d)
        ELSE [LeaveDir(UnlinkEntry(d, d.v, p[2]), p[1])
                 EXCEPT !.hs = [h \in Handle |-> Gone(@[h])]]
UnlinkFile(s, p) == UnlinkIn(ResolveDir(s, p[1]), p)

\* vfs_mkdir in the root.
MkdirUnlessFound(l, n) == IF l.ok THEN l ELSE MakeDir(l, ROOT, n)
MkdirAt(s, n) == MkdirUnlessFound(Lookup(s, ROOT, n), n)

\* Which of the n accesses of the next operation fails, after which one power is
\* cut, and what an uninitialised sector buffer holds.
Faults(n) ==
    {<<0, 0, Zero>>} \cup
    (IF faults = MaxFaults THEN {}
     ELSE { <<b, 0, j>> : b \in 1..n, j \in {Zero} \cup (IF mem.on THEN {mem.dv} ELSE {}) }
          \cup { <<0, c, Zero>> : c \in 1..(n - 1) })

\* The end of an operation.  lost is "no" as long as all that was written has
\* reached the disk or is in a dirty cache, no write went through a vnode whose
\* file had been unlinked, and no write replaced the entry of another file with
\* the same 8.3 name; "cut" from a power cut to the first operation after the
\* next mount; "yes" afterwards.  A driver that hangs is switched off.
Commit(s, format, mount) ==
    LET off == s.cut > 0 \/ s.hang
        drop == s.lost \/ (~off /\ ~s.on /\ (s.fdirty \/ s.ddirty))
    IN  /\ ops' = ops + 1
        /\ disk' = s.d
        /\ mem' = IF off \/ ~s.on THEN NotMounted ELSE [x \in DOMAIN FreshMem |-> s[x]]
        /\ handle' = IF off THEN [h \in Handle |-> Closed] ELSE s.hs
        /\ faults' = faults + (IF s.bad + s.cut > 0 THEN 1 ELSE 0)
        /\ formatted' = IF format THEN s.ok /\ ~off ELSE formatted
        /\ lost' = IF format /\ formatted' THEN "no"
                   ELSE IF lost = "yes" \/ drop \/ (lost = "cut" /\ ~mount) THEN "yes"
                   ELSE IF off THEN "cut" ELSE lost

Perform(F(_), format, mount) ==
    /\ ops < MaxOps
    /\ \E f \in Faults(F(Start(0, 0, Zero)).io) :
            Commit(F(Start(f[1], f[2], f[3])), format, mount)
Run(F(_)) == Perform(F, FALSE, FALSE)

FormatDisk == ~mem.on /\ Perform(Format, TRUE, FALSE)

Mount == ~mem.on /\ Perform(MountFs, FALSE, TRUE)

\* vfs_unmount refuses while a file of the volume is open.
Unmount ==
    /\ mem.on
    /\ \A h \in Handle : ~handle[h].open
    /\ Run(UnmountFs)

Open(h, p) ==
    /\ mem.on /\ ~handle[h].open
    /\ Run(LAMBDA s : OpenFile(s, h, p))

Create(h, p) ==
    /\ mem.on /\ ~handle[h].open
    /\ Run(LAMBDA s : CreateFile(s, h, p))

WriteOp(h) ==
    /\ mem.on /\ handle[h].open /\ handle[h].off < MaxSize
    /\ Run(LAMBDA s : [WriteFile(s, h) EXCEPT !.lost = @ \/ handle[h].gone])

ReadOp(h) ==
    /\ mem.on /\ handle[h].open
    /\ Run(LAMBDA s : ReadFile(s, h))

Close(h) ==
    /\ mem.on /\ handle[h].open
    /\ Run(LAMBDA s : CloseFile(s, h))

Unlink(p) ==
    /\ mem.on
    /\ Run(LAMBDA s : UnlinkFile(s, p))

Mkdir(n) ==
    /\ mem.on
    /\ Run(LAMBDA s : MkdirAt(s, n))

ListDir(r, d) == IF r.ok THEN LeaveDir(ReadDirectory(r, r.v), d) ELSE r

Readdir(d) ==
    /\ mem.on
    /\ Run(LAMBDA s : ListDir(ResolveDir(s, d), d))

\* Power is cut between two operations.
PowerCut ==
    /\ mem.on /\ faults < MaxFaults
    /\ mem' = NotMounted
    /\ handle' = [h \in Handle |-> Closed]
    /\ faults' = faults + 1
    /\ lost' = IF lost = "yes" THEN "yes" ELSE "cut"
    /\ UNCHANGED <<disk, ops, formatted>>

\* A disk of zeros.
Init ==
    /\ disk = [boot |-> FALSE, fat |-> [e \in Entry |-> FREE], bak |-> [e \in Entry |-> FREE],
               dat |-> [c \in Cluster |-> Zero], info |-> NoInfo]
    /\ mem = NotMounted
    /\ handle = [h \in Handle |-> Closed]
    /\ faults = 0 /\ ops = 0 /\ lost = "no" /\ formatted = FALSE

Next ==
    \/ FormatDisk
    \/ Mount
    \/ Unmount
    \/ \E h \in Handle, p \in Paths : Open(h, p)
    \/ \E h \in Handle, p \in Paths : Create(h, p)
    \/ \E h \in Handle : WriteOp(h)
    \/ \E h \in Handle : ReadOp(h)
    \/ \E h \in Handle : Close(h)
    \/ \E p \in Paths \cup ({"/"} \X Dirs) : Unlink(p)
    \/ \E n \in Dirs : Mkdir(n)
    \/ \E d \in Dirs \cup {"/"} : Readdir(d)
    \/ PowerCut

Spec == Init /\ [][Next]_vars

-----------------------------------------------------------------------------
(* What the volume holds, as the driver sees it: the cached sectors are in   *)
(* front of the disk.                                                      *)

FatView    == IF mem.on /\ mem.fdirty THEN mem.fv @@ disk.fat ELSE disk.fat
DirView(c) == IF mem.on /\ mem.dc = c THEN mem.dv.ents ELSE disk.dat[c].ents

Chain(fat, c) ==
    LET f[k \in 0..N] == IF k = 0 THEN {c} \cap Cluster
                         ELSE f[k - 1] \cup ({ fat[d] : d \in f[k - 1] } \cap Cluster)
    IN  f[N]

EntriesOf(c) == { e \in { DirView(d)[i] : d \in Chain(FatView, c), i \in Slot } : e.st = "used" }

\* The places <<cluster, slot>> of the live entries of the root and its directories.
Live ==
    LET In(c) == { x \in Chain(FatView, c) \X Slot : DirView(x[1])[x[2]].st = "used" }
    IN  In(ROOT) \cup UNION { In(e.first) : e \in { k \in EntriesOf(ROOT) : k.dir } }
At(x) == DirView(x[1])[x[2]]

Sound(fat) ==
    /\ \A c \in Cluster : fat[c] \in Cluster => fat[fat[c]] # FREE
    /\ \A c, d \in Cluster : fat[c] \in Cluster /\ fat[c] = fat[d] => c = d

-----------------------------------------------------------------------------
(* Properties *)

TypeOK ==
    /\ disk.boot \in BOOLEAN
    /\ \A f \in {disk.fat, disk.bak} : /\ f[1] \in 0..3
                                       /\ \A c \in Cluster : f[c] \in {FREE, EOC} \cup Cluster
    /\ disk.info = NoInfo \/ (disk.info.free \in 0..N /\ disk.info.next \in Cluster)
    /\ mem.on => /\ mem.fc \in {NONE} \cup 0..Sector(N + 1)
                 /\ mem.dc \in {NONE, 0} \cup Cluster
    /\ \A h \in Handle : handle[h].open => /\ mem.on
                                           /\ handle[h].first \in {0} \cup Cluster
                                           /\ handle[h].size <= MaxSize
    /\ faults \in 0..MaxFaults /\ lost \in {"no", "cut", "yes"} /\ formatted \in BOOLEAN

\* However an operation of the driver ends, by its last line, by an error path or
\* by a power cut in the middle of fat32_allocate_cluster, fat32_extend_cluster_chain
\* or fat32_free_cluster_chain, no chain on the disk leads into a free cluster, and
\* no two clusters lead to the same one.
FatSound == formatted /\ lost # "yes" => Sound(disk.fat) /\ Sound(FatView)

\* Until something is lost (see Commit), two directory entries never name the same
\* first cluster, and the first cluster of an entry is allocated and in the middle
\* of no chain: what fat32_create, fat32_write, fat32_mkdir and fat32_unlink do
\* through the cached directory sector and behind its back never makes two files
\* share a cluster, though it may lose the entry of a file just created, or leave
\* one without its clusters.
EntriesDisjoint ==
    formatted /\ lost = "no" =>
        \A x \in Live : At(x).first \in Cluster =>
            /\ FatView[At(x).first] # FREE
            /\ \A c \in Cluster : FatView[c] # At(x).first
            /\ \A y \in Live : At(y).first = At(x).first => x = y

\* Until something is lost, the clusters that an entry names hold what was written
\* through the entry's own name, or zeros: a cluster that fat32_allocate_cluster
\* hands out again never shows what the file that gave it back had in it.  Not all
\* that was written need be there: fat32_update_dir_entry does not find an entry
\* that is still in the cached sector.
OwnData ==
    formatted /\ lost = "no" /\ mem.on =>
        \A x \in Live : ~At(x).dir =>
            \A c \in Chain(FatView, At(x).first) : disk.dat[c].val \in {<<>>} \cup
                { p \in Paths : p[2] = At(x).name }

\* After a power cut at any point, a mount that succeeds leaves no entry of the
\* root directory whose first cluster is free (fat32_validate_filesystem).
Recovered ==
    formatted /\ lost = "cut" /\ mem.on =>
        \A e \in EntriesOf(ROOT) : e.first \in Cluster => FatView[e.first] # FREE

\* When no access failed, a volume that fat32_unmount (or fat32_format) marked
\* clean and free of errors is not mounted, and the free count of its FSInfo
\* sector is that of its FAT.  (fat32_unmount compares the count with the one in
\* memory, so it does not repair an FSInfo sector that could not be written.)
CleanIsHonest ==
    formatted /\ faults = 0 /\ disk.fat[1] = CLN + HRD =>
        /\ ~mem.on
        /\ disk.info.free = Cardinality({ c \in Cluster : disk.fat[c] = FREE })

\* The driver implements a pool of clusters, step by step, until something is lost:
\* chains only grow at their end by clusters nobody had and shrink from their front.
Pool == INSTANCE ClusterPool WITH
            Cluster <- Cluster, First <- ROOT, Free <- FREE, End <- EOC,
            link <- [c \in Cluster |-> IF formatted /\ lost = "no" THEN FatView[c] ELSE EmptyFat[c]]
PoolRefined == Pool!Spec

\* The FAT is sound and no two entries share a cluster, until a write fails for
\* good, goes through the vnode of an unlinked file or replaces the entry of
\* another file with the same 8.3 name (fat32.c).
VolumeSound == FatSound /\ EntriesDisjoint

\* Up to the same point no file shows what was written to another one, and after a
\* power cut the check at the next mount leaves no entry of the root directory with
\* a free first cluster (fat32.c).
FilesKept == OwnData /\ Recovered

=============================================================================
