-------------------------------- MODULE Vfs --------------------------------
(***************************************************************************)
(* The mount table of vfs.c, the superblocks and open files it keeps       *)
(* alive, and the partition auto-mounter of partition_manager.c.           *)
(*                                                                         *)
(* System calls run with interrupts off (syscall_entry) and terminal       *)
(* commands inside the keyboard interrupt, so every operation is one step; *)
(* the auto-mounter takes one step per partition, and nothing else runs    *)
(* meanwhile.  A path is the sequence of its components; what a directory  *)
(* holds is left out, so a lookup or a mkdir may always fail.              *)
(***************************************************************************)
EXTENDS Integers, FiniteSets, SequencesExt

CONSTANTS
    Task, Fd,       \* tasks and the indices of their fd_table
    Sb, Disk,       \* addresses kernel_malloc may return for a superblock, a disk_t
    Partitions,     \* FAT partitions of disk 0, in table order
    PartMounts,     \* mount points "part mount" may be given
    OpenPaths,      \* paths tasks open
    MaxMounts,      \* bound on the length of the mount list
    NULL

Part == Range(Partitions)
Home == <<"home">>
MntOf(p) == <<"mnt", p>>        \* /mnt/sdaN

\* The components of the paths in play.
Name == {"home", "mnt"} \cup Part \cup UNION {Range(mp.path) : mp \in PartMounts}
        \cup UNION {Range(path) : path \in OpenPaths}

ASSUME VfsAssumption ==
    /\ NULL \notin Sb \cup Disk \cup Part
    /\ Cardinality(Sb) >= 2
    /\ MaxMounts \in Nat
    /\ Partitions \in Seq(Part)
    /\ \A i, j \in DOMAIN Partitions : Partitions[i] = Partitions[j] => i = j
    /\ \A mp \in PartMounts : mp.path \in Seq(Name) /\ mp.normal \in BOOLEAN
                             /\ mp = [path |-> mp.path, normal |-> mp.normal]
    /\ \A path \in OpenPaths : path \in Seq(Name)
    /\ Fd \subseteq Nat

(***************************************************************************)
(* A mount point is the text it was mounted with: a path, and whether that *)
(* text is already in the form vfs_normalize_path gives ("/a" and not      *)
(* "/a/").                                                                 *)
(***************************************************************************)
Text(path) == [path |-> path, normal |-> TRUE]

VARIABLES
    mount_list,     \* newest first: mountpoint, superblock, the partition meant
    sb,             \* the superblocks in memory; root: its tree is there
    disk,           \* the disk_t in memory and the partition each describes
    fd_table,       \* the superblock of each task's open files
    auto            \* the auto-mounter: next partition, choice for /home

vars == <<mount_list, sb, disk, fd_table, auto>>

\* f with the new address x, which holds v.
Plus(f, x, v) == [y \in DOMAIN f \cup {x} |-> IF y = x THEN v ELSE f[y]]

NoAuto == [i |-> 0, home |-> NULL, disk |-> NULL]

-----------------------------------------------------------------------------
(* find_mount_for_path.                                                    *)

Under(e, path) == IsPrefix(e.mp.path, path)

\* Fault: of two equally long mount points the older wins.
FindOldest(ml, path) ==
    LET best[i \in 0..Len(ml)] ==
          IF i = 0 THEN 0
          ELSE LET b == best[i - 1]
               IN  IF /\ Under(ml[i], path)
                      /\ b = 0 \/ Len(ml[i].mp.path) >= Len(ml[b].mp.path)
                   THEN i ELSE b
    IN  best[Len(ml)]

\* The index of the first entry with the longest matching mount point; 0 if
\* no entry matches.
FindMount(ml, path) ==
    LET best[i \in 0..Len(ml)] ==
          IF i = 0 THEN 0
          ELSE LET b == best[i - 1]
               IN  IF /\ Under(ml[i], path)
                      /\ b = 0 \/ Len(ml[i].mp.path) > Len(ml[b].mp.path)
                   THEN i ELSE b
    IN  best[Len(ml)]

-----------------------------------------------------------------------------
(* vfs_mount of a fat32 device: the possible results from mount list ml    *)
(* and superblocks sbs, a failure that changes nothing among them.         *)

MountedOn(ml, sbs, d) == { i \in DOMAIN ml : sbs[ml[i].sb].device = d }

\* The mount point is compared as text, and its directory has to be found, or
\* made, in the tree of the file system it lies on.
MayMount(ml, sbs, mp) ==
    /\ \A i \in DOMAIN ml : ml[i].mp # mp
    /\ \E i \in {FindMount(ml, mp.path)} \ {0} : sbs[ml[i].sb].root
    /\ Len(ml) < MaxMounts

Failed(ml, sbs) == [ok |-> FALSE, ml |-> ml, sbs |-> sbs]

\* Fault: a shared superblock is not counted again.
ShareUncounted(ml, sbs, mp, d, p) ==
    IF MountedOn(ml, sbs, d) # {}
    THEN LET s == ml[Min(MountedOn(ml, sbs, d))].sb
         IN  { [ok |-> TRUE, ml |-> <<[mp |-> mp, sb |-> s, part |-> p]>> \o ml, sbs |-> sbs] }
    ELSE { [ok |-> TRUE, ml |-> <<[mp |-> mp, sb |-> s, part |-> p]>> \o ml,
            sbs |-> Plus(sbs, s, [refcount |-> 1, fs |-> "fat32", device |-> d,
                                  part |-> p, root |-> TRUE])] :
              s \in Sb \ DOMAIN sbs }

\* A device that is already mounted shares its superblock.
ShareOrCreate(ml, sbs, mp, d, p) ==
    IF MountedOn(ml, sbs, d) # {}
    THEN LET s == ml[Min(MountedOn(ml, sbs, d))].sb
         IN  { [ok |-> TRUE, ml |-> <<[mp |-> mp, sb |-> s, part |-> p]>> \o ml,
                sbs |-> [sbs EXCEPT ![s].refcount = @ + 1]] }
    ELSE { [ok |-> TRUE, ml |-> <<[mp |-> mp, sb |-> s, part |-> p]>> \o ml,
            sbs |-> Plus(sbs, s, [refcount |-> 1, fs |-> "fat32", device |-> d,
                                  part |-> p, root |-> TRUE])] :
              s \in Sb \ DOMAIN sbs }

VfsMount(ml, sbs, mp, d, p) ==
    {Failed(ml, sbs)} \cup (IF MayMount(ml, sbs, mp) THEN ShareOrCreate(ml, sbs, mp, d, p) ELSE {})

-----------------------------------------------------------------------------
(* vfs_unmount.                                                            *)

\* The entry is looked for by its normalised text.
MountIndex(ml, path) == { i \in DOMAIN ml : ml[i].mp = Text(path) }

\* Open files of any task on superblock s.
OpenOn(fdt, s) == { x \in Task \X Fd : fdt[x[1]][x[2]] = s }

Unmounted(ml, i, sbs) == [ok |-> TRUE, ml |-> RemoveAt(ml, i), sbs |-> sbs]

\* Fault: a failed unmount frees the superblock the entry still uses.
LastUnmountFrees(ml, sbs, i) ==
    LET s    == ml[i].sb
        rest == Restrict(sbs, DOMAIN sbs \ {s})
    IN  {Unmounted(ml, i, rest), Failed(ml, rest)}

\* fat32_unmount frees the tree whether or not its flushes work, but not the
\* superblock; a second call finds no tree and fails.  Other file systems have
\* no unmount function, and the superblock is freed here.
LastUnmount(ml, sbs, i) ==
    LET s == ml[i].sb
    IN  CASE sbs[s].fs # "fat32" -> {Unmounted(ml, i, Restrict(sbs, DOMAIN sbs \ {s}))}
          [] sbs[s].fs = "fat32" /\ ~sbs[s].root -> {Failed(ml, sbs)}
          [] sbs[s].fs = "fat32" /\ sbs[s].root ->
                {Unmounted(ml, i, [sbs EXCEPT ![s] = [@ EXCEPT !.refcount = 0, !.root = FALSE]]),
                 Failed(ml, [sbs EXCEPT ![s].root = FALSE])}

\* Fault: open files are not looked for.
UnmountWhileOpen(ml, sbs, fdt, path) ==
    IF MountIndex(ml, path) = {} THEN {Failed(ml, sbs)}
    ELSE LET i == Min(MountIndex(ml, path))
             s == ml[i].sb
         IN  IF sbs[s].refcount = 1 THEN LastUnmount(ml, sbs, i)
             ELSE {Unmounted(ml, i, [sbs EXCEPT ![s].refcount = @ - 1])}

VfsUnmount(ml, sbs, fdt, path) ==
    IF MountIndex(ml, path) = {} THEN {Failed(ml, sbs)}
    ELSE LET i == Min(MountIndex(ml, path))
             s == ml[i].sb
         IN  IF OpenOn(fdt, s) # {} THEN {Failed(ml, sbs)}
             ELSE IF sbs[s].refcount = 1 THEN LastUnmount(ml, sbs, i)
             ELSE {Unmounted(ml, i, [sbs EXCEPT ![s].refcount = @ - 1])}

\* close_fds_for_mount: only the current task's files.
CloseFor(fdt, t, s) ==
    [fdt EXCEPT ![t] = [f \in Fd |-> IF fdt[t][f] = s THEN NULL ELSE fdt[t][f]]]

-----------------------------------------------------------------------------
(* partition_manager_auto_mount_all, at boot and as a command.             *)

AutoBegin ==
    /\ auto.i = 0
    /\ auto' = [NoAuto EXCEPT !.i = 1]
    /\ UNCHANGED <<mount_list, sb, disk, fd_table>>

\* One partition: a disk_t for it, mounted on /mnt.  The first one mounted is
\* kept for /home; the disk_t of any other is freed, mounted or not.
AutoPart ==
    /\ auto.i \in DOMAIN Partitions
    /\ \E d \in Disk \ DOMAIN disk :
         LET p == Partitions[auto.i]
         IN  \E r \in VfsMount(mount_list, sb, Text(MntOf(p)), d, p) :
               /\ mount_list' = r.ml
               /\ sb' = r.sbs
               /\ IF r.ok /\ auto.home = NULL
                  THEN /\ disk' = Plus(disk, d, p)
                       /\ auto' = [i |-> auto.i + 1, home |-> p, disk |-> d]
                  ELSE /\ UNCHANGED disk
                       /\ auto' = [auto EXCEPT !.i = @ + 1]
    /\ UNCHANGED fd_table

\* No memory for the disk_t, or its boot sector cannot be read.
AutoSkip ==
    /\ auto.i \in DOMAIN Partitions
    /\ auto' = [auto EXCEPT !.i = @ + 1]
    /\ UNCHANGED <<mount_list, sb, disk, fd_table>>

\* The chosen partition replaces what is mounted on /home; on failure its
\* /mnt mount point is tried again, which is taken.
AutoHome ==
    /\ auto.i > Len(Partitions)
    /\ auto' = NoAuto
    /\ IF auto.home = NULL
       THEN UNCHANGED <<mount_list, sb, fd_table>>
       ELSE \E t \in Task :
              LET taken == MountIndex(mount_list, Home)
                  fdt   == IF taken = {} THEN fd_table
                           ELSE CloseFor(fd_table, t, mount_list[Min(taken)].sb)
              IN  /\ fd_table' = fdt
                  /\ \E u \in VfsUnmount(mount_list, sb, fdt, Home) :
                       \E r \in VfsMount(u.ml, u.sbs, Text(Home), auto.disk, auto.home) :
                          mount_list' = r.ml /\ sb' = r.sbs
    /\ UNCHANGED disk

-----------------------------------------------------------------------------
(* Commands and system calls.                                              *)

\* "part mount": a new disk_t, freed again if the mount fails.
PartMount(p, mp) ==
    /\ auto.i = 0
    /\ \E d \in Disk \ DOMAIN disk :
         \E r \in VfsMount(mount_list, sb, mp, d, p) :
            /\ r.ok
            /\ mount_list' = r.ml
            /\ sb' = r.sbs
            /\ disk' = Plus(disk, d, p)
    /\ UNCHANGED <<fd_table, auto>>

\* "umount".
Umount(path) ==
    /\ auto.i = 0
    /\ \E r \in VfsUnmount(mount_list, sb, fd_table, path) :
          mount_list' = r.ml /\ sb' = r.sbs
    /\ UNCHANGED <<disk, fd_table, auto>>

\* vfs_open: the first free descriptor; a superblock without a root fails.
Open(t, path) ==
    /\ auto.i = 0
    /\ \E i \in {FindMount(mount_list, path)} \ {0} :
         LET s    == mount_list[i].sb
             free == { f \in Fd : fd_table[t][f] = NULL }
         IN  /\ sb[s].root
             /\ free # {}
             /\ fd_table' = [fd_table EXCEPT ![t][Min(free)] = s]
    /\ UNCHANGED <<mount_list, sb, disk, auto>>

Close(t, f) ==
    /\ auto.i = 0
    /\ fd_table[t][f] # NULL
    /\ fd_table' = [fd_table EXCEPT ![t][f] = NULL]
    /\ UNCHANGED <<mount_list, sb, disk, auto>>

\* task_destroy closes every file of the task.
DestroyTask(t) ==
    /\ auto.i = 0
    /\ fd_table' = [fd_table EXCEPT ![t] = [f \in Fd |-> NULL]]
    /\ UNCHANGED <<mount_list, sb, disk, auto>>

-----------------------------------------------------------------------------
\* cmain mounts tmpfs on / and on /home (/dev, /ramfs and /sys are like them),
\* then runs the auto-mounter.
Init ==
    \E r, h \in Sb :
       /\ r # h
       /\ LET tmpfs == [refcount |-> 1, fs |-> "tmpfs", device |-> NULL,
                        part |-> NULL, root |-> TRUE]
          IN  sb = [s \in {r, h} |-> tmpfs]
       /\ mount_list = <<[mp |-> Text(Home), sb |-> h, part |-> NULL],
                         [mp |-> Text(<< >>), sb |-> r, part |-> NULL]>>
       /\ disk = << >>
       /\ fd_table = [t \in Task |-> [f \in Fd |-> NULL]]
       /\ auto = [NoAuto EXCEPT !.i = 1]

Next ==
    \/ AutoBegin \/ AutoPart \/ AutoSkip \/ AutoHome
    \/ \E p \in Part, mp \in PartMounts : PartMount(p, mp)
    \/ \E i \in DOMAIN mount_list : Umount(mount_list[i].mp.path)
    \/ \E t \in Task : \/ \E path \in OpenPaths : Open(t, path)
                       \/ \E f \in Fd : Close(t, f)
                       \/ DestroyTask(t)

Spec == Init /\ [][Next]_vars

-----------------------------------------------------------------------------
\* Every variable holds a value of the C type it stands for.
TypeOK ==
    /\ \A i \in DOMAIN mount_list : mount_list[i].sb \in DOMAIN sb
    /\ DOMAIN sb \subseteq Sb
    /\ \A s \in DOMAIN sb : /\ sb[s].refcount \in Nat
                            /\ sb[s].device \in Disk \cup {NULL}
                            /\ sb[s].part \in Part \cup {NULL}
                            /\ sb[s].root \in BOOLEAN
    /\ DOMAIN disk \subseteq Disk
    /\ fd_table \in [Task -> [Fd -> Sb \cup {NULL}]]
    /\ auto.i \in 0..(Len(Partitions) + 1)

\* sb->refcount is the number of mounts that share the superblock, through
\* shared mounts, failed mounts and failed unmounts: a superblock is released
\* by the unmount of its last mount point and by no other.
RefcountIsMounts ==
    /\ \A i \in DOMAIN mount_list : mount_list[i].sb \in DOMAIN sb
    /\ \A s \in DOMAIN sb :
          sb[s].refcount = Cardinality({ i \in DOMAIN mount_list : mount_list[i].sb = s })

\* An open file keeps its file system mounted: whichever of its mount points
\* is unmounted, and whichever task has the file open, the superblock and its
\* tree stay in memory until the file is closed.
OpenFilesPinned ==
    \A t \in Task, f \in Fd : fd_table[t][f] # NULL =>
        /\ fd_table[t][f] \in DOMAIN sb
        /\ sb[fd_table[t][f]].root
        /\ \E i \in DOMAIN mount_list : mount_list[i].sb = fd_table[t][f]

\* The one pass of find_mount_for_path finds the deepest mount point above a
\* path, and of two with the same path (mounted under different spellings) the
\* newer, whatever the order mounts came and went in.
FindsDeepest ==
    \A path \in OpenPaths :
        LET above == { i \in DOMAIN mount_list : Under(mount_list[i], path) }
            b     == FindMount(mount_list, path)
        IN  IF above = {} THEN b = 0
            ELSE /\ b \in above
                 /\ \A i \in above \ {b} :
                       \/ Len(mount_list[i].mp.path) < Len(mount_list[b].mp.path)
                       \/ mount_list[i].mp.path = mount_list[b].mp.path /\ b < i

\* vfs_mount on reusing a superblock: "Verificar si es el mismo dispositivo".
\* A mount shows the partition it was asked for.
MountShowsPartition ==
    \A i \in DOMAIN mount_list : mount_list[i].part # NULL =>
        sb[mount_list[i].sb].part = mount_list[i].part

=============================================================================
