----------------------------- MODULE Partitions -----------------------------
(***************************************************************************)
(* The partition table of the main disk (partition.c, partition_manager.c):  *)
(* sector 0, the copy the partition manager keeps of it, and the "part"      *)
(* commands that edit both.                                                  *)
(*                                                                           *)
(* The copy holds the table twice: the four MBR entries, by slot, and the    *)
(* parsed partitions, by position, of which only the first partition_count   *)
(* are valid.  The commands read sometimes the one and sometimes the other.  *)
(* They run to completion with interrupts disabled, so each is one step.     *)
(* LBAs are counted in units of half a megabyte: ALIGN units are the 2048    *)
(* sectors to which "max" partitions are aligned.  The boot code, the CHS    *)
(* fields and the bootable flag are left out.                                *)
(***************************************************************************)
EXTENDS Integers, FiniteSetsExt

CONSTANTS
    Sectors,       \* disk->sector_count
    ALIGN,         \* 2048 sectors, one megabyte
    LbaWidth,      \* lba_start and sector_count of an entry are uint32_t
    Sizes,         \* the sizes, in megabytes, given to "part create"
    FirstSectors   \* what sector 0 may hold when the system is installed

VARIABLES
    sector0,   \* [sig, fat, tab]: signature, a FAT32 boot sector, the entries
    pt,        \* managed_disks[0].partition_table
    managed,   \* disk_count is 1
    original   \* history: what sector 0 held at first

PartitionVars == <<sector0, pt, managed, original>>

EntrySlots == 1..4

\* PART_TYPE_EMPTY; an entry that was zeroed.
Empty == [type |-> "empty", start |-> 0, count |-> 0]

NoTable == [s \in EntrySlots |-> Empty]
NoInfo == [index |-> 1, type |-> "empty", start |-> 0, count |-> 0]
NoInfos == [i \in EntrySlots |-> NoInfo]

Info(s, e) == [index |-> s, type |-> e.type, start |-> e.start, count |-> e.count]
EntryOf(i) == [type |-> i.type, start |-> i.start % LbaWidth, count |-> i.count % LbaWidth]

Used(tab) == {s \in EntrySlots : tab[s].type # "empty"}
Sized(tab) == {s \in Used(tab) : tab[s].count > 0}

Entries == [type : {"empty", "fat"}, start : 0..LbaWidth - 1, count : 0..LbaWidth - 1]

ClearOf(a, b) == a.start >= b.start + b.count \/ b.start >= a.start + a.count

\* The partitions of a table other than those of X lie on the disk, and apart
\* from every other one.
TableFits(tab, X) ==
    \A s \in Sized(tab) :
        \/ tab[s] \in X
        \/ /\ tab[s].start + tab[s].count <= Sectors
           /\ \A t \in Sized(tab) \ {s} : ClearOf(tab[s], tab[t])

ASSUME PartitionsAssumption ==
    /\ ALIGN \in Nat \ {0} /\ Sizes \subseteq Nat \ {0}
    /\ LbaWidth \in Nat /\ Sectors \in 1..LbaWidth - 1

\* Whatever was written on the disk before.
ASSUME FirstAssumption ==
    FirstSectors \subseteq [sig : BOOLEAN, fat : BOOLEAN, tab : [EntrySlots -> Entries]]

\* The i-th of the slots ss.
Nth(ss, i) == CHOOSE s \in ss : Cardinality({t \in ss : t <= s}) = i

\* The infos of the entries ss, in slot order, over what the array held.
Parsed(tab, ss, infos) ==
    [i \in EntrySlots |-> IF i <= Cardinality(ss) THEN Info(Nth(ss, i), tab[Nth(ss, i)]) ELSE infos[i]]

---------------------------------------------------------------------------
(* Reading and writing sector 0.                                           *)

\* A FAT32 boot sector whose signature is damaged, or whose table is all
\* zeroes, is one partition that covers the disk.  It takes the first entry;
\* the others stay what they were.
WholeDisk(tab) ==
    LET e == [type |-> "fat", start |-> 0, count |-> Sectors]
    IN  [tab |-> [tab EXCEPT ![1] = e], infos |-> [NoInfos EXCEPT ![1] = Info(1, e)], count |-> 1]

\* partition_read_table, once the sector is read: the parsed table, or {}
\* when it reports INVALID_MBR or NO_PARTITIONS.
ReadTable(s) ==
    CASE ~s.sig \/ s.tab = NoTable -> IF s.fat THEN {WholeDisk(s.tab)} ELSE {}
      [] OTHER -> IF Sized(s.tab) = {}
                  THEN {}
                  ELSE {[tab |-> s.tab, infos |-> Parsed(s.tab, Sized(s.tab), NoInfos),
                         count |-> Cardinality(Sized(s.tab))]}

\* partition_write_table zeroes the slots from partition_count on before it
\* writes.
Trimmed(p) == [p EXCEPT !.tab = [s \in EntrySlots |-> IF s > p.count THEN Empty ELSE p.tab[s]]]

\* The outcomes of the write with its three read-back attempts: written and
\* verified, not written, or written and reported as failed because the sector
\* could not be read back.
WriteTable(p) ==
    LET written == [sector0 EXCEPT !.sig = TRUE, !.tab = Trimmed(p).tab]
    IN  {[ok |-> TRUE, disk |-> written], [ok |-> FALSE, disk |-> sector0],
         [ok |-> FALSE, disk |-> written]}

---------------------------------------------------------------------------
(* Where a new partition goes.                                             *)

\* The ends of the entries, added up in 32 bits.
Ends(tab) == {(tab[s].start + tab[s].count) % LbaWidth : s \in Sized(tab)}

\* partition_calculate_next_start_lba: after the last entry, aligned up.
NextStart(tab) ==
    LET last == Max(Ends(tab) \cup {ALIGN})
    IN  ((last + ALIGN - 1) \div ALIGN) * ALIGN

\* The end of the last partition before position k of the parsed ones.
Reached(p, k) ==
    LET before == {i \in 1 .. k - 1 : p.infos[i].type # "empty"}
    IN  IF before = {} THEN ALIGN ELSE p.infos[Max(before)].start + p.infos[Max(before)].count

\* partition_find_free_space: the first gap between the parsed partitions, in
\* array order, that is large enough, or the space after the last of them; 0
\* when there is none.  A partition that starts before the position reached
\* makes the unsigned gap enormous, and the position is returned.
FindFree(p, size) ==
    LET gaps == {k \in 1 .. p.count :
                    /\ p.infos[k].type # "empty"
                    /\ \/ p.infos[k].start < Reached(p, k)
                       \/ p.infos[k].start - Reached(p, k) >= size}
        last == Reached(p, p.count + 1)
    IN  IF gaps # {} THEN Reached(p, Min(gaps)) ELSE IF last + size <= Sectors THEN last ELSE 0

\* The start and size part_create_command asks for: the rest of the disk, or
\* `mb` megabytes where they fit.  {} when the command refuses.
Requested(p, mb) ==
    LET next == NextStart(p.tab)
        size == mb * ALIGN
    IN  IF mb = 0
        THEN {r \in {[start |-> next, count |-> Sectors - next]} : r.count >= ALIGN}
        ELSE {r \in {[start |-> FindFree(p, size), count |-> size]} :
                 size <= Sectors /\ r.start # 0}

---------------------------------------------------------------------------
(* part create.                                                            *)

\* Fault: the start of the new partition is not looked for in the old one
OverlapsFault(r, i) ==
    LET iEnd == i.start + i.count
        rEnd == r.start + r.count
    IN  \/ rEnd > i.start /\ rEnd <= iEnd
        \/ r.start <= i.start /\ rEnd >= iEnd

\* The three comparisons of partition_manager_create_partition.
Overlaps(r, i) ==
    LET iEnd == i.start + i.count
        rEnd == r.start + r.count
    IN  \/ r.start >= i.start /\ r.start < iEnd
        \/ rEnd > i.start /\ rEnd <= iEnd
        \/ r.start <= i.start /\ rEnd >= iEnd

\* The checks of partition_manager_create_partition: the slots before it are
\* in use, the range is on the disk and free.
MayCreate(p, slot, r) ==
    /\ \A s \in 1..(slot - 1) : p.tab[s].type # "empty"
    /\ r.start < Sectors
    /\ r.start + r.count <= Sectors
    /\ \A i \in 1..p.count : p.infos[i].type # "empty" => ~Overlaps(r, p.infos[i])

\* The exchange sort by index of the first n infos: each i with each j > i.
Exchange(infos, n, i, j) ==
    IF j <= n /\ infos[i].index > infos[j].index
    THEN [infos EXCEPT ![i] = infos[j], ![j] = infos[i]] ELSE infos

ByIndex(infos, n) ==
    LET first == Exchange(Exchange(Exchange(infos, n, 1, 2), n, 1, 3), n, 1, 4)
        second == Exchange(Exchange(first, n, 2, 3), n, 2, 4)
    IN  Exchange(second, n, 3, 4)

\* The copy with the partition in slot `slot`: its parsed entry is the one
\* with that index, or a new one while there is room; they are then sorted.
WithPartition(p, slot, i) ==
    LET same == {k \in 1..p.count : p.infos[k].index = slot}
        n    == IF same = {} /\ p.count < 4 THEN p.count + 1 ELSE p.count
        at   == IF same # {} THEN Min(same) ELSE n
        infos == IF same = {} /\ p.count = 4 THEN p.infos ELSE [p.infos EXCEPT ![at] = i]
    IN  [tab |-> [p.tab EXCEPT ![slot] = EntryOf(i)], infos |-> ByIndex(infos, n), count |-> n]

\* part_create_command and partition_manager_create_partition.  When the write
\* fails the copy keeps the partition.
PartCreate ==
    /\ managed
    /\ \E slot \in EntrySlots, mb \in Sizes \cup {0} :
         \E r \in Requested(pt, mb) :
           /\ MayCreate(pt, slot, r)
           /\ LET i == [index |-> slot, type |-> "fat", start |-> r.start, count |-> r.count]
                  p == WithPartition(pt, slot, i)
              IN  \E w \in WriteTable(p) : /\ sector0' = w.disk
                                           /\ pt' = Trimmed(p)
    /\ UNCHANGED <<managed, original>>

---------------------------------------------------------------------------
(* part delete.                                                            *)

\* The parsed partition of a slot, by its index; {} when there is none or it
\* is empty.
InfoOf(p, slot) ==
    LET same == {k \in 1..p.count : p.infos[k].index = slot}
    IN  {k \in same : k = Min(same) /\ p.infos[k].type # "empty"}

\* The copy without the partition: the entry and its info are cleared where
\* they are, and the entries that remain are counted.
WithoutPartition(p, slot) ==
    LET tab == [p.tab EXCEPT ![slot] = Empty]
    IN  [tab   |-> tab,
         infos |-> [k \in EntrySlots |-> IF k \in InfoOf(p, slot)
                                    THEN [NoInfo EXCEPT !.index = slot] ELSE p.infos[k]],
         count |-> Cardinality(Used(tab))]

\* The write failed three times: the entries come from the backup, the parsed
\* partitions are made anew from them.
RolledBack(p, q) ==
    [tab |-> p.tab, infos |-> Parsed(p.tab, Used(p.tab), q.infos),
     count |-> Cardinality(Used(p.tab))]

\* partition_manager_delete_partition.  A slot that is not among the parsed
\* partitions is looked up on the disk, in a buffer that holds anything when
\* the read fails.
PartDelete ==
    /\ managed
    /\ \E slot \in EntrySlots, readable \in BOOLEAN :
         /\ \/ InfoOf(pt, slot) # {}
            \/ readable => sector0.tab[slot].type # "empty"
         /\ LET q == WithoutPartition(pt, slot)
            IN  \E w \in WriteTable(q) :
                  /\ sector0' = w.disk
                  /\ pt' = IF w.ok THEN Trimmed(q) ELSE RolledBack(pt, q)
    /\ UNCHANGED <<managed, original>>

---------------------------------------------------------------------------
(* part fix-order, part format, scanning.                                  *)

\* part_fix_order_command: the entries are moved to the first slots.
PartFixOrder ==
    /\ managed
    /\ LET n   == Cardinality(Used(pt.tab))
           tab == [s \in EntrySlots |-> IF s <= n THEN pt.tab[Nth(Used(pt.tab), s)] ELSE Empty]
           p   == [tab |-> tab, infos |-> Parsed(tab, Used(tab), pt.infos), count |-> n]
       IN  \E w \in WriteTable(p) : sector0' = w.disk /\ pt' = Trimmed(p)
    /\ UNCHANGED <<managed, original>>

\* What a format of the parsed partition at position n leaves in sector 0: it
\* starts with a new boot sector in the first sector of the partition, which is
\* sector 0 of a disk without table, and may fail before or after that write.
Formatted(n) ==
    IF pt.infos[n].start = 0
    THEN {sector0, [sig |-> TRUE, fat |-> TRUE, tab |-> NoTable]}
    ELSE {sector0}

\* part_format_command: partition_manager_get_partition takes the number as a
\* position among the parsed partitions.  A failed format is tried once more.
PartFormat ==
    /\ managed
    /\ \E n \in EntrySlots : pt.infos[n].type # "empty" /\ sector0' \in Formatted(n)
    /\ UNCHANGED <<pt, managed, original>>

\* partition_manager_scan_disk, at boot and as "part scan": a disk without a
\* table, or that cannot be read, stays unmanaged.
ScanDisk ==
    /\ ~managed
    /\ \E p \in ReadTable(sector0) : pt' = p
    /\ managed' = TRUE
    /\ UNCHANGED <<sector0, original>>

\* The machine is restarted: partition_manager_init.
Restart ==
    /\ managed
    /\ managed' = FALSE
    /\ pt' = [tab |-> NoTable, infos |-> NoInfos, count |-> 0]
    /\ UNCHANGED <<sector0, original>>

---------------------------------------------------------------------------
PartitionsInit ==
    /\ sector0 \in FirstSectors
    /\ pt = [tab |-> NoTable, infos |-> NoInfos, count |-> 0]
    /\ managed = FALSE
    /\ original = sector0

PartitionsNext ==
    \/ ScanDisk
    \/ PartCreate
    \/ PartDelete
    \/ PartFixOrder
    \/ PartFormat
    \/ Restart

PartitionsSpec == PartitionsInit /\ [][PartitionsNext]_PartitionVars

---------------------------------------------------------------------------
PartitionsTypeOK ==
    /\ sector0 \in [sig : BOOLEAN, fat : BOOLEAN, tab : [EntrySlots -> Entries]]
    /\ pt.tab \in [EntrySlots -> Entries]
    /\ \A i \in EntrySlots : pt.infos[i].index \in EntrySlots
    /\ pt.count \in 0..4
    /\ managed \in BOOLEAN

\* Every entry in use of a table found is among the parsed ones, but for an
\* empty one in the first slot.
Legible(f) == Used(f.tab) \subseteq (IF f.sig THEN Sized(f.tab) ELSE {}) \cup {1}

\* The partitions of a table found overlapping or too large for the disk.
Excused(f) == IF TableFits(f.tab, {}) THEN {} ELSE {f.tab[s] : s \in EntrySlots}

\* No sequence of part commands, of write failures and of restarts leaves a
\* table on the disk whose partitions overlap or reach past its end, although
\* the overlap check reads the parsed partitions and the disk gets the entries
\* (partition_manager_create_partition, partition_write_table).  When the
\* table found was not sound, this is so of every partition made since.  It
\* needs that the table found was parsed whole: entries with a type and no
\* sectors, and those behind a damaged signature, are overlooked.
TableSound == Legible(original) => TableFits(sector0.tab, Excused(original))

\* What "part delete" says of itself: it deletes the partition it names.  An
\* entry other than the one deleted is still on the disk after the command.
DeletesOnlyOne ==
    [][PartDelete => Cardinality(Used(sector0.tab) \ Used(sector0'.tab)) <= 1]_PartitionVars
=============================================================================
