-------------------------------- MODULE Exec ---------------------------------
(***************************************************************************)
(* The program loader of exec.c: exec_load_and_run reads a whole file into  *)
(* a kernel buffer, puts its segments (or the flat image) at virtual        *)
(* addresses that are mapped one to one, and creates a user task whose      *)
(* stack is a block of the kernel heap.  The kernel image and its heap are  *)
(* mapped low, below every base handed out, and the kernel again above      *)
(* KernelBase; nothing keeps a linked program off them.  Nothing is         *)
(* unmapped when the task ends.  The command that loads a program runs to   *)
(* its end before any program continues.  Addresses count pages and file    *)
(* sizes count half chunks.                                                 *)
(***************************************************************************)
EXTENDS Integers, FiniteSets

CONSTANTS
    Programs,      \* files: [kind, size, pages, entry, sound]; the pages are
                   \* those that its segments and its relocations name
    CHUNK,         \* size of one vfs_read
    EXEC_MAX_SIZE, \* largest buffer
    EXEC_CODE_BASE,
    FirstBase,     \* next_auto_base at boot
    SLOT,          \* and its step
    KernelImage,   \* pages of the kernel, from 0x100000 on
    KernelHeapPages, \* those of kernel_heap among them
    KernelBase,    \* KERNEL_VIRTUAL_BASE: the kernel again, the framebuffer
    LastPage,
    LowestCode,    \* lowest address task_create_user takes
    StackPages,    \* USER_STACK_SIZE
    MaxLoads       \* bound on the programs loaded

ASSUME ExecAssumption ==
    /\ CHUNK \in Nat \ {0} /\ SLOT \in Nat \ {0} /\ MaxLoads \in Nat
    /\ EXEC_CODE_BASE \in Nat /\ FirstBase \in Nat
    /\ KernelBase \in Nat /\ LastPage \in Nat /\ KernelBase <= LastPage + 1
    /\ KernelImage \subseteq 0 .. LastPage /\ \A v \in KernelImage : v < FirstBase
    /\ KernelHeapPages \subseteq KernelImage
    /\ LowestCode \in Nat /\ StackPages \in Nat
    /\ Programs # {}
    /\ \A p \in Programs :
          /\ p.kind \in {"exec", "dyn", "flat"} /\ p.size \in Nat /\ p.pages \subseteq Nat
          /\ p.entry \in Nat /\ (p.kind = "flat" => p.entry = 0)

VARIABLES
    load,       \* the load in progress
    owned,       \* file descriptors and buffers that exec_load_and_run has
    image,      \* page -> the load that wrote it last
    user_page,  \* pages with PAGE_USER
    next_auto_base,
    programs,   \* tasks created: [id, base, prog, stack]
    stray,      \* history: pages a load wrote outside a slot of its own
    lent        \* history: pages opened to a program as its stack or its entry

ExecVars == <<load, owned, image, user_page, next_auto_base, programs, stray, lent>>

Idle(id) == [pc |-> "idle", prog |-> CHOOSE p \in Programs : TRUE, id |-> id, read |-> 0, alloc |-> 0]

(* The load in progress goes on with what was read and what is allocated. *)
Loading(pc, read, alloc) ==
    [pc |-> pc, prog |-> load.prog, id |-> load.id, read |-> read, alloc |-> alloc]
Kernel == 0 - 1

(* What the kernel keeps to itself when it boots: mmu_init maps all of it   *)
(* without PAGE_USER (the area of user code at 0x200000 too, which lies in  *)
(* the image and so is mapped already).                                     *)
Reserved == KernelImage \cup KernelBase .. LastPage
-----------------------------------------------------------------------------
(* load_file_from_disk.  A file or a buffer that cannot be had leaves       *)
(* nothing behind (the file and its directory are opened and closed again   *)
(* to tell why).                                                            *)
OpenFile(p) ==
    /\ load.pc = "idle" /\ load.id < MaxLoads
    /\ load' = [pc |-> "read", prog |-> p, id |-> load.id + 1, read |-> 0, alloc |-> CHUNK]
    /\ owned' = [owned EXCEPT !.fd = @ + 1, !.buf = @ + 1]
    /\ UNCHANGED <<image, user_page, next_auto_base, programs, stray, lent>>

Fail(h) == /\ load' = Idle(load.id)
           /\ owned' = h

NeedsRoom(read, alloc) == read + CHUNK > alloc

(* One vfs_read that returned n bytes, and the buffer doubled when the next *)
(* chunk may not fit: past EXEC_MAX_SIZE, or without memory, the load ends. *)
ReadChunk(n) ==
    /\ load.pc = "read" /\ load.read + n <= load.prog.size
    /\ LET total == load.read + n
           double == 2 * load.alloc
       IN
       \/ /\ ~NeedsRoom(total, load.alloc)
          /\ load' = Loading("read", total, load.alloc) /\ UNCHANGED owned
       \/ /\ NeedsRoom(total, load.alloc) /\ double <= EXEC_MAX_SIZE
          /\ load' = Loading("read", total, double) /\ UNCHANGED owned
       \/ /\ NeedsRoom(total, load.alloc)
          /\ Fail([fd |-> owned.fd - 1, buf |-> owned.buf - 1])
    /\ UNCHANGED <<image, user_page, next_auto_base, programs, stray, lent>>

(* vfs_read returned 0 or an error: what was read is the program.  The      *)
(* buffer is cut to the size, when that works.                              *)
EndOfFile ==
    /\ load.pc = "read"
    /\ IF load.read = 0 THEN Fail([fd |-> owned.fd - 1, buf |-> owned.buf - 1])
       ELSE load' = Loading("place", load.read, load.read) /\ owned' = [owned EXCEPT !.fd = @ - 1]
    /\ UNCHANGED <<image, user_page, next_auto_base, programs, stray, lent>>
-----------------------------------------------------------------------------
(* map_user_pages: pages already mapped, the kernel's too, become user      *)
(* pages; others are mapped one to one.  The pages stay as they are when a  *)
(* later step fails.                                                        *)
MapUserPages(pages) == user_page' = user_page \cup pages

Written(pages) == [v \in 0 .. LastPage |-> IF v \in pages THEN load.id ELSE image[v]]

(* Where the program goes: a position independent one at the next base, a   *)
(* linked one where it says, a flat image at EXEC_CODE_BASE.                *)
Base(p) == CASE p.kind = "dyn" -> next_auto_base
             [] p.kind = "exec" -> 0
             [] OTHER -> EXEC_CODE_BASE
PagesOf(p, base) == {(base + v) % (LastPage + 1) : v \in p.pages}

(* The slot of 16 MB that a position independent program is given, and the  *)
(* pages it has in it.  All other pages of a load lie where another load,   *)
(* or the kernel, may be: the code compares them with nothing.              *)
OwnPages(p, base) ==
    IF p.kind = "dyn" /\ base + SLOT <= KernelBase
    THEN PagesOf(p, base) \cap base .. base + SLOT - 1
    ELSE {}
Strays(p) == stray' = stray \cup (PagesOf(p, Base(p)) \ OwnPages(p, Base(p)))

(* Fault: the base moves on only when the program before still runs. *)
AdvanceFault(p) ==
    next_auto_base' = IF p.kind = "dyn" /\ programs # {} THEN next_auto_base + SLOT ELSE next_auto_base

Advance(p) == next_auto_base' = IF p.kind = "dyn" THEN next_auto_base + SLOT ELSE next_auto_base

(* The program is refused after its pages were mapped (its file is shorter  *)
(* than a segment says, the copy does not verify, or a page table cannot be *)
(* had): the buffer is freed.                                               *)
Refused == Fail([owned EXCEPT !.buf = @ - 1])

(* elf_check_header, elf_load_segments with elf_apply_relocations, or       *)
(* map_user_pages with copy_code_to_user; then the buffer is freed.  A flat *)
(* image that a read error cut short is taken for the program.              *)
PlaceProgram ==
    /\ load.pc = "place"
    /\ LET p == load.prog
           pages == PagesOf(p, Base(p))
       IN  /\ Advance(p)
           /\ MapUserPages(pages)
           /\ Strays(p)
           /\ \/ Refused /\ image' \in {image, Written(pages)}
              \/ /\ p.kind # "flat" => p.sound /\ load.read = p.size
                 /\ image' = Written(pages)
                 /\ owned' = [owned EXCEPT !.buf = @ - 1]
                 /\ load' = Loading("create", load.read, Base(p))
    /\ UNCHANGED <<programs, lent>>

EntryPage == (load.alloc + load.prog.entry) % (LastPage + 1)
EntryTaken == /\ EntryPage \in LowestCode .. KernelBase - 1
              /\ EntryPage \in Reserved \cup user_page

(* A block that kernel_malloc gives for a stack: its guard page, then       *)
(* StackPages pages and, when it does not start on a page, a part of one    *)
(* more.  It may share its first and last page with other blocks.           *)
StackBlocks ==
    {s \in [first : KernelHeapPages, last : KernelHeapPages] :
        /\ s.last - s.first \in {StackPages, StackPages + 1}
        /\ s.first .. s.last \subseteq KernelHeapPages
        /\ \A t \in programs : s.last <= t.stack.first \/ t.stack.last <= s.first}

OpenToUser(pages) == /\ user_page' = user_page \cup pages
                     /\ lent' = lent \cup pages

(* task_create_user: the entry page becomes a user page, whoever owns it,   *)
(* and so does every page of the stack but the guard page.  They stay user  *)
(* pages when there is no memory for the stack, or no task.                 *)
CreateTask ==
    /\ load.pc = "create"
    /\ Fail(owned)
    /\ \/ ~EntryTaken /\ UNCHANGED <<user_page, lent, programs>>
       \/ EntryTaken /\ OpenToUser({EntryPage}) /\ UNCHANGED programs
       \/ /\ EntryTaken
          /\ \E s \in StackBlocks :
                /\ OpenToUser({EntryPage} \cup (s.first + 1 .. s.last))
                /\ programs' \in {programs,
                        programs \cup {[id |-> load.id, base |-> load.alloc, prog |-> load.prog, stack |-> s]}}
    /\ UNCHANGED <<image, next_auto_base, stray>>

(* A program ends and its stack is freed (task_destroy): its pages stay     *)
(* mapped and written, and those of its stack user pages.                   *)
ProgramExits(t) ==
    /\ load.pc = "idle"
    /\ programs' = programs \ {t}
    /\ UNCHANGED <<load, owned, image, user_page, next_auto_base, stray, lent>>

ExecInit ==
    /\ load = Idle(0) /\ owned = [fd |-> 0, buf |-> 0]
    /\ image = [v \in 0 .. LastPage |-> IF v \in Reserved THEN Kernel ELSE 0]
    /\ user_page = {} /\ next_auto_base = FirstBase /\ programs = {}
    /\ stray = {} /\ lent = {}

ExecNext ==
    \/ \E p \in Programs : OpenFile(p)
    \/ \E n \in 1 .. CHUNK : ReadChunk(n)
    \/ EndOfFile
    \/ PlaceProgram
    \/ CreateTask
    \/ \E t \in programs : ProgramExits(t)

ExecSpec == ExecInit /\ [][ExecNext]_ExecVars
-----------------------------------------------------------------------------
ExecTypeOK ==
    /\ load.pc \in {"idle", "read", "place", "create"} /\ load.prog \in Programs
    /\ user_page \subseteq 0 .. LastPage
    /\ \A t \in programs : t.id \in 1 .. MaxLoads

(* The file buffer: a chunk of any length fits behind what was read, and    *)
(* whichever way the load ends (too large, empty, cut short, no memory, no  *)
(* task) neither it nor the file descriptor stays behind.                   *)
LoadBuffer ==
    /\ load.pc = "read" => load.read + CHUNK <= load.alloc
    /\ owned = [fd |-> IF load.pc = "read" THEN 1 ELSE 0,
               buf |-> IF load.pc \in {"read", "place"} THEN 1 ELSE 0]

(* Until a load writes over the kernel (a program linked below its end, or  *)
(* one past the last slot: nothing bounds next_auto_base), each running     *)
(* position independent program keeps the code and data in its slot,        *)
(* whatever is loaded, refused or ended after it, save the pages that       *)
(* another load put there without a slot; and of the kernel's pages only    *)
(* those lent as stacks and entries are open to programs.                   *)
OwnImage ==
    stray \cap Reserved = {} =>
        /\ \A t \in programs : \A v \in OwnPages(t.prog, t.base) \ stray : image[v] = t.id
        /\ \A v \in Reserved : image[v] = Kernel /\ (v \in user_page => v \in lent)

\* The loader keeps its file in its buffer, and each program and the kernel
\* keep their own pages (exec.c, task_create_user).
ExecSound == LoadBuffer /\ OwnImage

=============================================================================
