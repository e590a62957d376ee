# AlvOS-32: a TLA+ model of the kernel

AlvOS is a 32-bit x86 kernel for one CPU. These modules model its scheduler, its
memory, its file systems and disks, its network stack, its system calls, its
console and its drivers, check them with TLC and prove the scheduler's main
invariants with TLAPS. `PROJECT.json` maps every definition to the source lines
it stands for; paths below are relative to `src/`.

## 1. The system

| component | state | operations | interacts through | module |
|---|---|---|---|---|
| task scheduler (`task.c`, `task_switch.s`, `irq.c`, `task_utils.c`) | circular list of TCBs, `current_task`, tick counter, saved contexts | create, destroy, yield, sleep, exit, tick, start/stop, zombie cleaning | the timer interrupt; everything that sleeps or creates tasks | `Scheduler`, `SchedulerControl` |
| messages, mutexes, disk daemon (`task_utils.c`, `disk_io_daemon.c`) | 16 queues, mutex owner, requests | send, receive, lock, unlock, request, answer | wakes sleepers in the scheduler | `Ipc` |
| heap (`memory.c`) | block headers, free list | malloc, free, realloc, defragment | every component | `Heap` |
| physical memory, paging (`pmm.c`, `mmu.c`, `vmm.c`) | page bitmap, regions, page tables, address spaces | alloc, free, map, unmap, brk, windows | loader, drivers, ACPI | `Paging` |
| power (`acpi.c`, `kernel.c`) | table list, mapping cache, PM registers | find and parse tables, enable, power off, reset, shutdown | page tables; scheduler, VFS, drivers | `Acpi`, `SchedulerControl` |
| program loader (`exec.c`) | `next_auto_base`, the image buffer | load, map, relocate, start | VFS, page tables, scheduler | `Exec` |
| system calls, keyboard (`syscalls.c`, `keyboard.c`) | key ring, per-task descriptors, kernel buffers | read, gets, open, connect, send, close | keyboard interrupt, VFS, TCP | `Syscalls` |
| VFS (`vfs.c`) | mount list, superblock counts, descriptors | mount, unmount, open, close | terminal, file systems | `Vfs` |
| FAT32 (`fat32.c`) | FAT, directory cache, FAT cache, FSInfo | format, mount with check, create, read, write, mkdir, unlink, unmount | VFS, block layer | `Fat32`, `ClusterPool` |
| tmpfs, devfs, character devices | tree, device table, reference counts | lookup, create, unlink, open, read | VFS, heap | `MemFs` |
| partitions (`partition_manager.c`, `partition.c`) | MBR entries, parsed table, `disk_t` wrappers | scan, create, delete, repair, undo, auto-mount | VFS, block layer | `Partitions`, `Vfs` |
| block layer (`disk.c`, `ide.c`, `atapi.c`) | drive list, `main_disk` | detect, read, write, flush, shut down | FAT32, partitions | `BlockLayer` |
| AHCI and SATA (`ahci.c`, `sata_disk.c`, `dma.c`) | command slots, DMA pool | start, issue, poll, recover | block layer, the HBA | `Ahci` |
| network card (`e1000.c`) | two descriptor rings | send, receive, reset, link | network daemon, the card | `NetCard` |
| network stack (`tcp.c`, `dhcp.c`, `arp.c`, `dns.c`, `network_*.c`, `http.c`) | control blocks, lease, ARP cache, pending query | connect, input, receive, tick, resolve | card, system calls, terminal | `Tcp`, `NetConfig`, `Arp`, `Dns` |
| terminal (`terminal.c`) | ring of lines, window, cursor, input line, history | output, scroll, keys, resize | every component prints | `Console` |
| editor (`text_editor.c`) | lines, cursor, modes, dirty rows | keys, load, save, draw | keyboard interrupt, VFS, terminal | `Editor` |
| driver system, keyboard layouts (`driver_system.c`, `keyboard.c`) | types, instances, layouts | register, create, start, load, clean up | boot, ioctl | `Drivers` |
| serial ports (`serial.c`) | two rings, transmitter state | write, interrupt, read | logging of every component | `Serial` |
| interrupts (`isr.c`, `idt.c`, `gdt.c`, `apic.c`) | tables | timer, exceptions | scheduler | part of `Scheduler` |
| USB, installer, module loader, mouse, clock, display, library code | | | | none (section 6) |

What is hard here:

- *Concurrency.* One CPU, but the timer may switch threads between any two
  instructions outside `cli`/`popf`, and a terminal command runs inside the
  keyboard interrupt on top of any thread. System calls run with interrupts off
  and give the CPU away only where they sleep.
- *Devices beside the driver.* Network card, AHCI ports and UART work through
  shared memory or registers at their own pace; commands time out and finish
  later all the same.
- *Shared structures without a lock.* Idle, cleanupd and `kill` all destroy
  tasks; three kinds of reader share the key ring; `tcp_receive` moves a buffer
  the network daemon appends to.
- *Addresses and indexes reused.* TCBs, superblocks, `disk_t`, tmpfs nodes, TCP
  blocks and DNS ids are compared after what they named is gone.
- *Failure.* A disk access fails or the power goes at any write; packets are
  lost, repeated and late; an operation of several steps stops in the middle.
- *Limits and widths.* Rings that are full, counters that wrap, runs of pages
  that cross the end of a region.

What makes each part correct is stated by the properties of section 4.
`PROJECT.json` lists the hazards line by line.

## 2. Plan

Done, in order: `Scheduler` (with `SchedulerProofs`), `SchedulerControl`, `Heap`,
`Vfs`; then `Fat32` with its abstract specification `ClusterPool`; the network
(`NetCard`, `Tcp`, `NetConfig`, `Arp`, `Dns`); the kernel's services (`Paging`,
`Acpi`, `Exec`, `Syscalls`, `Ipc`, `MemFs`); storage and devices (`BlockLayer`,
`Ahci`, `Partitions`, `Console`, `Editor`, `Drivers`, `Serial`).

Proofs so far: `SchedulerProofs`, `ProcessProofs` (queues, mutexes, the disk daemon,
system calls, the keyboard, tmpfs and devices), `VfsProofs` (mounts), `KernelProofs`
(heap, loader, paging and ACPI), `DevicesProofs` (AHCI, serial ports, the block layer, drivers and
keyboard layouts, partition tables), `TerminalProofs` (terminal and editor), `NetProofs` (card, TCP,
DHCP, ARP, DNS), on `Lemmas`.

Left to do:

1. The composition of `Scheduler` with `Heap` (a stack freed twice may by then
   belong to somebody else).

## 3. Modules and how they correspond to the code

**`Scheduler`.** The ring is a sequence (`task_list`, head first), TCB fields are
functions on TCB addresses, `alloc` is the set of TCBs the heap has handed out. A
thread is named after the TCB it was created with: `cpu` is the thread that
executes, `ctx[t]` the thread whose registers TCB `t` holds, so that a switch that
saved or loaded the wrong one would show. `pc` says where a thread is inside the
routines that can be interrupted between two accesses to shared state:
`task_create` (after the limit test), `task_sleep` (three steps),
`task_cleanup_zombies` (read, destroy, advance, with its local pointers in `loc`)
and the idle loop (the read and the write of `task_is_ready`). All else is one
step, because it runs between `cli` and `popf` or inside an interrupt.

| actions | code |
|---|---|
| `TimerTick` | `timer_irq_handler`, `scheduler_tick`, `task_update_sleep_states` |
| `Yield`, `LoopYield`, `CmdYield` | `task_yield`, from a task, a system loop, the terminal |
| `SleepBegin`, `SleepMark`, `SleepYield` | `task_sleep` |
| `Exit`, `Fault` | `task_exit`; a user-mode exception |
| `CreateCheck`, `Create`, `CmdCreate` | `task_create`, from a task, from the terminal |
| `CmdKill`, `CmdSleep` | the `kill` and `sleep` commands |
| `CmdStop`, `CmdStart` | the `stop_scheduler` and `start_scheduler` commands |
| `MessageWake` | the wake-up in `message_send` |
| `CleanBegin`, `CleanScan`, `CleanDestroy` | `task_cleanup_zombies` |
| `IdleCheck`, `IdleWake` | the rest of the idle loop |
| `Halted` | the `cli; hlt` loops |

Abstractions. A freed TCB keeps its contents until it is handed out again
(`kernel_free` writes only the header); that its memory may be given to something
else than a TCB is left out. Page 0 is mapped, so a NULL next pointer does not
fault. Idle's "every ten ticks" is a free choice. Any device interrupt ends `hlt`.
`next_task_id` is capped by `MaxId`, which bounds the number of creations. Two walks
are coarser than the code, whose single reads a tick may separate: `IdleCheck` finds the
first task that is awake or due in one step (its write is another), and
`CleanScan` reads a task's `next` and `state` in one.

`start_scheduler` given while the scheduler runs (`task.c:440-482`) makes the first
READY task RUNNING and current and returns to the thread it interrupted. That thread
then goes on under the other task's name, and the next switch saves its stack pointer
there. `starts` counts these commands. One RUNNING task (`RunningIsCurrent`) and the
CPU on its own stack (`OwnStack`) are false from the first of them on and are stated
up to it; the ring, the TCBs and what a tick chooses are checked and proved beyond
it. `MaxStarts` bounds their number; with 0 the scheduler is not stopped either.

**`SchedulerControl`** adds `shutdown` (with which `acpi_reboot` begins too), which
acts on the scheduler from the keyboard interrupt.

**`Heap`.** Blocks are headers at addresses in units of 8 bytes; `Take`,
`InsertBlock`, `Coalesce` and `FreePtr` are the pieces of `kernel_malloc` and
`kernel_free`, and `held` is what the rest of the kernel owns (only owned pointers
are freed or reallocated). Sizes are far below 2^32, so the wrap of `size + 15` in
`kernel_malloc` for a size near 2^32 is not in the model.

**`Paging`.** Addresses count pages. `pmm` is the page bitmap with the index that the
regions give each page; `pt` is the one global page table, which `mmu_map_page` writes
whichever directory CR3 holds; `space` the address spaces of `vmm.c`. `Access` is
`mmu_ensure_physical_accessible` with its direct and its alternative window. Page
flags are left out. `grants` and `crossed` are history.

**`Acpi`** extends `Paging`. `firmware` is what the machine came with: where the
RSDP is, which tables the RSDT and XSDT list, which checksums and signatures are
wrong. Each step of `acpi_init` maps through `Cached`, the cache of windows that
looks only at the first page of a hit. Afterwards `AcpiEnable`, `PowerOff` and the
end of `acpi_reboot` use what was found. A table's contents are its signature and
whether its sum is right. A table of two pages is passed over when only its first
page is mapped: the header's window is found and the next page is not behind it.

**`Exec`.** One action per stage of `exec_load_and_run` (buffer, read, check, base,
map, copy, start), each with its failures; `image[v]` is who wrote page `v` last. The
kernel image and its heap are mapped from 0x100000 on, below the bases the loader
hands out, and again from 0xC0000000 on. Programs are linked anywhere: one linked
low, which `task_create_user` takes from 0x200000 on, is copied over the kernel, and
nothing bounds `next_auto_base`. `stray` holds the pages written outside a slot.
`CreateTask` takes the user stack from the kernel heap and makes its pages user
pages, but for the guard page below it, which it only leaves as it is (it may be a
user page already, from an earlier stack); they stay user pages when the task has
ended. `lent` holds the pages opened to programs in this way. `OwnImage` is stated up
to the first load that writes over the kernel, and of the kernel's pages excepts the
lent ones.

**`Syscalls`.** `kbd` is the ring with its count, `ucall[t]` where a task is inside a
call that sleeps. The interrupt, blocking calls and the `top` command, which tests
the count with interrupts on, share the ring. Descriptors lead to files or TCP
blocks. A block is lost when its descriptor is closed (`closed`), when `tcp_connect`
cannot send its first SYN and leaves it in SYN_SENT, or when its task is killed while
it connects (`stuck`).

**`Ipc`.** Clients of the disk daemon send, wait with a limit, give up, and ask
again; mutexes with their time-out. Whether a limit has passed is left open.

**`MemFs`.** tmpfs nodes are heap blocks that are used again; handles are vnodes that
outlive unlinked nodes. A write through such a vnode goes into memory that is freed or
somebody else's (`TmpWriteFreed`); what it does there is not modelled, `scribbled`
records it and the tree is stated up to it. Character devices are reference-counted
through devfs.

**`Vfs`.** `mount_list` (newest first), the superblocks with their counts and
whether their tree is in memory, the `disk_t` in memory, and each task's
descriptors reduced to the superblock they pin. A mount point is a path and
whether its text was normalised, since `vfs_mount` compares text and
`vfs_unmount` looks for the normalised form. Directory contents are left out: a
lookup, a `mkdir` or an allocation may fail at any time, so every mount may. The
auto-mounter takes one step per partition. `mp.part` in a mount entry records which
partition the caller meant, for the property only.

**`Fat32`.** An operation of the driver is one action, because system calls and
commands run with interrupts off. They do not always: `wget` saves its file after the
`sti` of `arp.c:292`, and the legacy IDE driver executes `sti` (`disk.c:596`), also
between filling `fat_cache` and setting `fat_cache_sector` (`fat32.c:1595`, 1604).
What another task does in the driver at such a moment is not modelled. The actions
are built from operators that pass the driver's state along as the C functions do, with the
FAT cache of one sector, the directory cache of one sector, FSInfo, both FATs and
the flags in entry 1. Disk accesses are numbered: one of them may fail, or power
goes after one of them. File data is the path it was written through; names are
compared with their 8.3 form. `fat32_generate_sfn` ends every shortened name in `~1`,
so that two long names of a directory may have one 8.3 name, and the instance has
such a pair; a write that updates the other file's entry is recorded (`lost`) and
ends what `VolumeSound` and `FilesKept` say, like a write that fails for good or that
goes through the vnode of an unlinked file. An entry that is only in the directory
cache is not found by `fat32_update_dir_entry`, which reads the disk: what was
written need not be in the file, so `FilesKept` says that a file shows nothing that
was written to another. **`ClusterPool`** is what the allocator promises
without caches and failures: disjoint chains that grow at their end and shrink
from their front. `PoolRefined` says that `Fat32` implements it, through the FAT
as the driver sees it (`FatView`), until a fault loses something.

**`Partitions`.** Sector 0, and the manager's copy in its two forms: entries by slot
and parsed partitions by position. `part` commands, failed writes, restarts. The
sorts and searches over the four slots are written out: `ByIndex` is the code's
exchange sort, `FindFree` the first gap its loop meets. The table found on a disk
(`FirstSectors`, kept in `original`) is anything: partitions may overlap or reach past
the end, and `Excused` excepts those. One condition is left (`Legible`): that the
manager sees every entry with a type. It overlooks an entry with a type and no
sectors, and those behind a damaged signature, whose slots `partition_read_table`
leaves as they were. With such entries besides a partition, a scan, a delete and a
create may make a partition that overlaps the one overlooked.

**`BlockLayer`.** A transfer is the set of (buffer sector, unit, disk sector) it
moved, so that wrong offsets, dropped chunks and repeated ones show. Detection,
handles of partitions, the four drivers with their retries, flush and shutdown.
The second pass of `sata_disk_init`, which asks every port again when none answered,
finds disks only: a device of another type aborts IDENTIFY DEVICE. `disk health`
reads the first IDE disk even when `main_disk` is a SATA disk (`terminal.c:2028`), and
`RightSectors` leaves that read out.

**`Ahci`.** Command slots with the table they hold, the HBA's own view of what it
executes, and the DMA pool. Ports are assumed numbered without gaps.

**`NetCard`.** Descriptor rings, head and tail registers and the card's own steps;
frames are numbered, so order, loss and repetition show.

**`Tcp`** with its users `http_download` and the socket calls; a received byte is
its connection and number. `tcp_receive` takes three steps, since the daemon may run
between them. `due` is what was acknowledged and not read; `torn` says that the
daemon did append in between, from when on bytes are lost (`tcp_stream`).
**`NetConfig`**: DHCP, the daemon's tick, static configuration. **`Arp`**,
**`Dns`**: resolutions wait with interrupts on, so the calls in progress nest; the
cache, the clock and the static variables of the files are shared.

**`Console`.** A line is the set of columns that hold a character; `shown` is what
was painted. A key, a command and a system call run with interrupts off and draw in
the same step. The main loop (`Blink`) and the kernel's tasks (`TaskPrints`) draw with
interrupts on: `DrawStart`, then `NextRow` and `DrawLine` for each marked row. A step
of another between the first pixel of a row and the clearing of its mark may leave
that row stale, with its mark lost (`terminal.c:1113`, 1192); such rows are in `raced`
until they are painted again.

**`Editor`.** A line is its length; `shown` is the line each row was last given. Keys
come in the interrupt while the editor's task draws and the main loop clears the same
marks. `Drawn` is `editor_render` as it is: the `terminal_puts` of the first row's
number draws the terminal, which clears `needs_full_redraw` and all the marks, so that
one render writes one row and passes over the others, the `~` rows included. A change
of mode clears the screen, and the help screen stays blank, since its text is printed
only when the mode is not the one just stored. `stale` holds the rows left behind in
one of these ways. The tail of a longer line that stays on its row is not modelled.

**`Drivers`.** The
type registry, instances and keyboard layouts, with every allocation counted.

**`Serial`.** Both rings of a port, the UART's holding register and receive FIFO, the
writers that wait for room with the `next_head` they computed before they yielded,
and the polled path that goes past the ring. `DumpStatus` is `serialtest`: its read of
IIR (`serial.c:648`) acknowledges a pending interrupt of the transmitter. The writers
then only fill the ring, until a polled character is sent; `flow.taken` records it.

*The MC modules.* `MCKernel`, `MCServices` and `MCNet` each check several components
in one run: `focus` is chosen initially, a behaviour takes the steps of that
component and leaves the others unchanged. This is sound for properties of one
component, and it is where components that do share state are kept together
(`Acpi` steps the page tables of `Paging`, `Syscalls` holds keyboard and calls).

Definitions whose comment begins with "Fault:" are wrong versions of the
definition that follows them. No specification uses them; each property is known
to fail when one of them takes its original's place (`PROJECT.json`, "mutants").

## 4. Runs

| run | states | shows |
|---|---|---|
| `sched` | 1,370,000 | with idle, cleanupd, a worker that is destroyed and created again, and a `start_scheduler` in the middle: one RUNNING task, the CPU on its own stack, no live stack freed, an exact ring, the scan's loop equal to its definition, ticks that never leave a dead or sleeping task on the CPU |
| `sched_live` | 156,000 | every sleep ends; equals of the highest priority share the CPU |
| `vfs` | 254,000 | reference counts, open files pin their file system, deepest mount found |
| `fat32` | 333,000 | chains and entries stay sound, no file shows another's data, the check at mount repairs after a power cut, the clean flag is honest, the driver implements a pool of clusters |
| `net` | 574,000 | the card is two queues; what TCP acknowledges is in the buffer or was read, until the daemon breaks into a read, and belongs to its connection; addresses (DHCP, ARP, DNS) are the ones last given by their owner; every DHCP exchange ends |
| `kernel` | 775,000 | heap, frames, windows and ACPI tables, loaded programs, keyboard ring, resources of calls, messages and mutexes, tmpfs and devices stay sound |
| `services` | 885,000 | transfers touch the right sectors and report success only when complete; AHCI commands and DMA buffers; partition tables; terminal; editor; drivers; serial rings |
| `sched_final_yield` | violated | an exited task is scheduled again and halts the machine |
| `sched_shutdown` | violated | shutdown stops before it unmounts |
| `vfs_alias` | violated | a mount shows another partition |
| `tcp_stream` | violated | bytes of a TCP stream are lost on a perfect network |
| `part_delete` | violated | deleting a partition wipes a later one |

Several properties are conjunctions of named parts (`HeapSound`, `MappingSound`,
`IpcSound`, ...), whose comments say what each part means. Some except a case that
the code does get wrong, and say so: a `start_scheduler` while the scheduler runs
(`RunningIsCurrent`, `OwnStack`), a second file with the same 8.3 name (`VolumeSound`,
`FilesKept`), a run of pages that crosses a region (`FramesOwned`), a program loaded
over the kernel and the stacks lent from its heap (`OwnImage`), a key taken between
`top`'s test and its read (`KeyboardFifo`), connections lost by a close or a SYN not
sent (`CallResources`), a write through a freed tmpfs node (`MemFsSound`), segments
that arrive inside `tcp_receive` (`BufferIsDue`), an ATAPI copy beyond its buffer and a
sector counted before the drive refused it (`SuccessIsComplete`), entries the partition
manager overlooks (`TableSound`), a terminal whose ring is full (`OutputAtEnd`), a row
marked while it is painted (`ScreenCurrent`), the rows `editor_render` passes over
(`RowsShown`), a serial writer overtaken while it waited and an interrupt taken by
`serialtest` (`SerialSound`). These cases are not caught by the property that excepts
them; what it says is that nothing else goes wrong.

*Bounds.* `sched`: three TCBs, of which one can be freed and reused while both
cleaners hold pointers to it; quantum and sleep of one tick, ticks modulo 2, so the
counter wraps within a sleep; one `start_scheduler` that changes the current task;
the count modulo 5 wraps too. `View` leaves out the fields no later step can read
(locals of a thread that is not in a walk, slices of tasks that are not current,
wake ticks of tasks that do not sleep). `sched_live`: idle and two workers, no
cleanupd, no `stop_scheduler`. `vfs`: two partitions, three `disk_t` addresses, four
superblock addresses, five mounts, a mount point spelled `/home/`, and one below
another mount; addresses and tasks are symmetric. `fat32`: four clusters, two FAT
entries to a sector and two slots to a directory cluster, so that the caches are
replaced, directories grow and the volume fills up; eight operations, enough for
format, mount, a file that grows, a fault, and the mount after it. `net`: rings of
three, two TCP blocks and connections, two servers, retries of one or two, a cache
of two with three hosts. `kernel`: a heap of 32 units holds up to six blocks, and
requests up to 9 with best fit above 4 reach both policies, every split and odd
remainders; programs that fit a slot, spill out of it or are linked over the kernel
or into a slot; two memory maps, one with a gap; 28 firmwares, with sound and
unsound roots and tables, and a window cache of two that is replaced. `services`:
transfers of up to three sectors with chunks of two, four-entry tables on seven
units of disk, found empty, sound, overlapping or without a signature, a terminal of
two by two with rings of three and four lines, an editor of three lines, rings of
three characters with six written. Its `View` leaves out what the terminal has
painted once its ring dropped a line (only a clear undoes that, and it paints every
row) and the place in a history that is not being browsed. `MaxOps`, `MaxWritten`,
`MaxKeys` and the like end behaviours; that is why `kernel`, `services`, `net` and
`fat32` do not check for deadlock. The scheduler's and the VFS's runs do; a halted
machine is there the explicit step `Halted`.

*Fairness.* `sched_live` assumes only `WF(TimerTick)`: the hardware timer keeps
interrupting. No thread is assumed to make progress: a task may loop for ever, and
preemption must do the work. Both its properties except a machine that is already
halted (as in `sched_final_yield`) or whose task count drifted to 0 (each
`task_destroy` of the same TCB counts it out again, `task.c:363`), because those
would otherwise hide everything else. `net` assumes `WF(DaemonTicks)`: the network
daemon is a task of top priority that calls the stack's tick for ever, as
`TopPriorityRuns` justifies. Packets need not arrive.

### Findings

- `task_is_ready` (`task.c:995`): idle's test and write are not atomic; an exited
  task becomes READY again and halts the machine.
- `shutdown` (`kernel.c:108`), and `acpi_reboot` alike: the loop destroys the task
  it runs on, and that call never returns.
- auto-mount (`partition_manager.c:928`): the `disk_t` of a mounted partition is
  freed and its address taken for the same device later.
- `tcp_receive` (`tcp.c:221`): the buffer is moved down with interrupts on, over
  bytes the daemon appends meanwhile.
- `partition_delete` (`partition.c:287`): the write-back clears every slot from the
  reduced count on.

## 5. Proofs

Each proof module EXTENDS the modules it is about and proves, for every value of
the constants their assumptions allow, what the runs check on small instances. The
theorems a run's property appears in are named in `PROJECT.json`, "theorems".

The shape is the same everywhere: the state predicate the run checks is not
inductive, so an invariant is stated that is; one lemma per action shows that it is
kept, one that it holds initially, one that it implies the property; the theorem
combines them. Properties of operators that walk over data are proved without an
induction principle for operators: `Lemmas` states that a nonempty set of naturals
has a least element (and a bounded one a greatest), and a proof looks at the least
index at which a loop would go wrong. `Lemmas` also holds what the other modules
need about sequences (append, remove, insert, order and range).

**`SchedulerProofs`.** `IInv` is the conjunction of the type invariant, the ring
(`ListIsAlloc`), `StackInUseIsAllocated`, `OwnStack`, `RunningIsCurrent` and
`CleanerOK`. The conjuncts need each other: the task the scan chooses is allocated
only because the ring holds exactly the allocated TCBs; a switch keeps `cpu =
current_task` only because the chosen TCB holds its own thread; at most one task is
RUNNING only because the one that leaves is current; and the ring survives a cleaner
only because of `CleanerOK`, which says that the pointers a cleaner works on name a
TCB and that the one it is about to destroy is not idle. `OwnStack` and
`RunningIsCurrent` are conjuncts with their condition `starts = 0`. From it follow
`TypeCorrect`, `RingWellFormed`, `ExecutesOwnStack`, `OneRunning` and `StackKept`;
the action property `TickChoosesRunnable`, with a second invariant `IdleOK` (idle
never ends or sleeps, so there is always something to choose); and `LoopFindsNext`,
that the loop of `scheduler_next_task` over the ring finds the task its definition
describes. Its loop invariant `ScanInv` says that after `i` steps the candidate is
the best of the tasks met so far, the earlier of equals. Assumptions: idle is
created first, every boot TCB is created once, at least one task besides idle exists
(cmain halts otherwise), NULL is no TCB, and the counters can hold the boot tasks.

**`ProcessProofs`.** *Messages.* `MutexInv` gives `OneHolder`. `QueueInv` gives
`IpcCorrect`: as long as no two tasks took one queue slot and no request number was
drawn twice, a client's queue holds answers to its own requests only, each of a
request that was performed, whose number was drawn and is not newer than the
client's current call. The last clause is what a late answer would break: without it
the number comparison in the client proves nothing. The two exceptions are states of
the code, recorded in `ihist`, and part of the property.

*System calls.* `RingInv`: unless the `top` command has spoiled the count, the
ring holds the queue of unread keys from head to tail, so that "full", "empty" and the
wrap-around are one statement (`Holds`). `CallInv` relates allocated buffers to the
places of tasks inside their calls, `SocketInv` connections to descriptors and to the
calls that are connecting.
Assumptions: the count is wider than the ring, tasks are finitely many.

*tmpfs and devices.* `MemFsInv`: every node in use is the child of exactly one directory under one
name, no freed node is anybody's child, and a vnode that was not orphaned leads to a
node in use whose number it remembers. Numbers are needed because `tmp_unlink` frees
a block that the next `tmp_create` gets again. Assumptions: vnodes are finitely many,
and no device is called like the two other kinds of vnode.

*All services.* `ProcessProofs` extends `MCKernel` and `KernelProofs`.
`KernelTypeCorrect` is the type invariant of the run `kernel`, from those of its
components: by the lemma `KernelComposes` the run's specification implies each of
theirs, which is a matter of how the run is put together and says nothing of the
code. `ServicesTypeCorrect` with the lemma `ServicesCompose` (in `TerminalProofs`,
which extends `MCServices` and `DevicesProofs`) is the same for the run `services`.

**`VfsProofs`.** `VfsInv`: the types; every count is the number of mounts of that
superblock; whoever holds a descriptor pins a superblock that is in memory and is
counted. A failing unmount and the sharing of a superblock by two mounts are why
count and pins go together. `FindMountRight` is about the loop of
`find_mount_for_path` over a list of any length.

**`KernelProofs`.** *Heap.* `HeapInv`: blocks tile the heap without gap, the free
list is sorted and holds exactly the unused blocks, no two neighbours are both free
(`Settled`), and what the kernel holds are used blocks. Tiling alone is not
inductive: `kernel_free` finds its neighbours through the sorted list, and joining
them keeps the tiling only because they are adjacent. `Coalesce` is proved as a loop.
*Loader.* `LoadInv` ties buffer, file and place in the code together and gives
`LoaderCleansUp`, for all programs. `LoaderSound` adds `ImageInv`, that slots given
out lie below `next_auto_base`, so that a program's pages are written by another load
only when they are `stray`, and that a page of the kernel which is not stray holds the
kernel and is a user page only if it was lent. Nothing is assumed of where programs
are linked or how large they are.
*Frames, windows and ACPI.* `AcpiSpec` lets the steps of `Acpi` and of `Paging` happen
in any order, which is more than the run does. `AcpiInv` has two halves. `Memory`: no
two pages have one index (pages are counted in order), and, unless a run crossed the
end of a region, the directories and regions of all address spaces lie apart and none
of their pages has its bit set (`OwnedBy`). That a run of set bits is a run of frames
is what `crossed` decides; the search itself is proved as a loop (`Scan`). `Shown`:
above the user's part a page that shows something shows it for ever (`Grows`), so
windows granted, cached or kept with a table stay whole although `mmu_unmap_page`,
a failed `vmm_map_region` and `vmm_destroy_address_space` run in between; a cached
entry that a hit trusts after looking at one page is right for that reason only.
Assumptions: frames of the memory maps, the heap, the devices and the firmware's
tables lie in the physical memory, and there are at least two user pages
(`PagingAssumption`, `AcpiAssumption`).

**`DevicesProofs`.** *AHCI.* `AhciInv`: the driver's table for a slot is what was issued as
long as the HBA may execute it, every buffer belongs to one owner, a call that is
still starting a port keeps its buffers apart from all others, and a poll returns to
the place that issued the command. *Serial ports.* `SerialInv` says that each ring of a serial port
holds its history from tail to head (`RingHolds`, with distances in place of the
code's modulo), for the output ring unless a waiting writer was overtaken. Two further
clauses make it inductive: no queued character is the 0 that stands for an empty
register, and an enabled interrupt over an empty register is pending; otherwise a
character queued just after the register emptied could wait for ever. Between
`serialtest` and the next character sent by polling the second is replaced by
`flow.taken`.
*Block layer.* `BlkInv`: until shutdown, a handle that is open leads to the drive its
driver's table names and only a partition's handle has an offset; before the boot is
over nothing is open and nothing was moved; and the two properties about the last
transfer. The work is in the loops: `LoopState`
says that after any number of turns the sectors done are a prefix of the range and
those, and no others, have met their place on the disk, unless one was lost; it is
kept by a turn that succeeds, fails or is retried, for each of the four drivers.
`BlkTyped` has the types, and that no position is entered twice into
`detected_devices`: the second pass of the scan skips what the first has found, so
the two passes are disjoint and four entries are enough.
*Drivers.* `DriversInv` adds to `LayoutsOwned` that a layout table exists only while
there is a keyboard instance, of which there is at most one, since the clean-up of
that instance is what frees it, and that the table begins with the built-in layout.
The clean-up frees the layouts other than that one, which are one fewer than all
because names are distinct.
*Partition tables.* `PartInv`: if the manager saw the first table whole, the entries on
the disk lie on it and apart, but for those excused, and so do those of the manager's
copy; every entry of the copy that has sectors is among its
first `partition_count` parsed partitions, no later than at the position of its slot,
with the same start and size (`Mirrored`); and the parsed indices are distinct, so
that creating in a free slot adds a partition and replaces none. The overlap check
looks at the parsed partitions only, and is enough because of `Mirrored`; the
write-back that clears slots above the count keeps it because it clears entries only.
The lemmas under it count slots (`CountSlots`, `NthSlot`) and show that the exchange
sort yields the same partitions in order (`ByIndexSorts`).
Assumptions: the sizes are positive, and a call moves no more sectors than
the drivers' counters hold (`SizesAssumption`); at least one layout fits the table
(`DriversAssumption`); the disk's sectors can be numbered in 32 bits
(`PartitionsAssumption`); of its first table only the type is assumed
(`FirstAssumption`).

**`TerminalProofs`.** *Terminal.* `ConsoleInv` says that the ring's lines are in order
(`Term`), that as long as the ring has room the window is filled and
the cursor stands on a line that exists, that every row not marked for painting and
not raced shows its line (`Fresh`), and that without a stray step the cursor's line is the newest
(`AtEnd`). `ConsoleSound` needs all of it: a row stays right when the window scrolls
only because the row above it was right, and the loop that adds lines until the
cursor's exists ends only because adding a line with room to spare brings it nearer.
Output is proved character by character (`PutChar`), then for a line of input, the
history and the prompt as recursive functions of the number of characters.
*Editor.* `EditorInv`: the types; a row is right, marked or stale (`Painted`);
while a drawing is under way and no key came in between, none is marked only
(`AllShown`); and the two properties. A key that changes lines below the cursor marks them all,
which is why `Painted` survives; the exceptions recorded in `excused` are those of
`EditorSound`. Assumptions: all sizes are positive, the screen has no more rows than
the ring may have lines (`ConsoleAssumption`), a file is a sequence of line lengths
(`EditorAssumption`).

**`NetProofs`** extends `MCNet`, so its theorems are about the composed
specification of the run `net`. `ArpInv`: an address has at most one valid entry,
and that entry says what was heard last; the first clause makes the first match the
newest. `DnsInv`: nested resolutions each know their own name. `ConfigInv`: offers
and requests in flight belong to the exchange they name. `TcpInv`: for every block
the counters agree with the buffer, which until it is torn is what is due, an
unanswered connection is empty, a FIN was accepted only in order; a reader between
the copy and the move took no more than is there; segments in flight carry bytes of
their own connection. `CardInv` says where in the card's rings the frames are: the
transmit ring holds the frames accepted and not yet sent, from the card's head on,
with the number of them deciding between empty and full when head and tail meet; the
receive ring is filled from `curr` on, and one descriptor is never the card's.
Together they give `NetTypeCorrect`, `CardQueues`, `StreamKept` and
`AddressesCorrect`.

*Only model-checked.* The liveness properties (`SleepTerminates`, `TopPriorityRuns`,
`DhcpEnds`), because fairness is outside the prover's reach. The invariants of
`Fat32` and its refinement `PoolRefined`: the driver's loops (along a chain, over
the entries of a sector, over the FAT) are recursive functions of the loop's body,
so every fact about an operation rests on an induction whose step is an operator,
which the library's induction theorems cannot be instantiated for. All other
invariants the passing runs check are theorems.

## 6. Not modelled

*Not reached by any code path.* The USB stack (`usb_driver_create` is never called),
the installer and `mbr.c` (`module_loader_init` is never called, so `install`
returns at once), the module loader, the mouse driver (never created), formatting,
boot flag and sync through the partition manager, `perform_context_switch`,
`fat32_update_dir_entry_size`, detection by IDENTIFY in `disk.c`, `sata_disk_write`
outside its self test, `acpi_disable`, `acpi_parse_dsdt_for_s5`, bind mounts.
`vmm_map_region` and the other operations of `vmm.c` but `vmm_init`, and with them
`pmm_alloc_pages`, are not called from outside `vmm.c` either; `Paging` has them
(`MapRegion`, `FramesOwned`), so that part of `MappingSound` is about code that is
ready and not yet used. The editor and the disk daemon are modelled although no
command starts the one and `cmain` has the other's start commented out.
`serial_create_devfs_nodes` runs before a file system is mounted and fails.

*Data.* Register layouts, header formats and checksums, pixels, fonts, page flags,
number formatting, PCI and CPUID probing, the PIT, the clock, `sysfs` reports, the
boot image in `core_img.h`. `getcwd`, `chdir` (one global buffer), `seek`, `uname`,
`ioctl` and the validation of user pointers are not modelled. The test suites and
self tests only call what is modelled.
