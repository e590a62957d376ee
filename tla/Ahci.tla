-------------------------------- MODULE Ahci --------------------------------
(***************************************************************************)
(* The AHCI driver and the SATA disks above it: buffers from the DMA pool,  *)
(* command slots, and a host bus adapter (HBA) that works on commands by    *)
(* itself while the driver polls.  Calls are serial (interrupts are off or  *)
(* the caller is an interrupt); only the HBA runs beside them.              *)
(*                                                                         *)
(* A command is its table's contents: what to do, where, and which memory   *)
(* it uses.  Registers are reduced to CI, the task-file error bit of IS and *)
(* whether the port has stopped over an error.                              *)
(***************************************************************************)
EXTENDS Integers, Sequences, FiniteSets, FiniteSetsExt

CONSTANTS
    HbaPorts,  \* implemented ports
    CmdSlots,  \* slots of a port (32 in the code)
    PoolSize,  \* MAX_DMA_BUFFERS (128)
    Lbas       \* sectors read and written

ASSUME AhciAssumption ==
    /\ HbaPorts \subseteq Nat /\ HbaPorts # {}
    /\ CmdSlots \in Nat \ {0} /\ PoolSize \in Nat \ {0} /\ Lbas # {}

VARIABLES
    dpool,   \* dma_buffer_pool: the indices allocated
    ahci,    \* the driver's record of each port
    hba,     \* each port as the adapter sees it
    table,   \* the command tables, shared memory
    issued,  \* history: each table as it was when its bit of CI was set
    sata,    \* sata_disks
    call     \* the driver's control: where it is and the command it waits for

AhciVars == <<dpool, ahci, hba, table, issued, sata, call>>

Slots == 0 .. CmdSlots - 1
PerPort == 2 + CmdSlots        \* command list, received FIS, one table per slot
Tries == 3

NoCmd == [op |-> "none", lba |-> "none", buf |-> "none"]
Command(op, lba, buf) == [op |-> op, lba |-> lba, buf |-> buf]

NoPort == [present |-> FALSE, type |-> "none", init |-> FALSE, bufs |-> {}, busy |-> {}]

At(st, port) == [call EXCEPT !.st = st, !.port = port, !.tries = 0]
-----------------------------------------------------------------------------
(* The DMA buffer pool. *)

FreeBuffers == (1 .. PoolSize) \ dpool

(* The n lowest free entries, which is what n calls of dma_alloc_buffer take. *)
Lowest(n) == {i \in FreeBuffers : Cardinality({j \in FreeBuffers : j <= i}) <= n}

(* n buffers, unless the pool or the heap runs out. *)
AllocBuffers(n) ==
    IF Cardinality(FreeBuffers) < n THEN {}
    ELSE {[pool |-> dpool \cup Lowest(n), bufs |-> Lowest(n)]}

FreeBuffer(P, bufs) == P \ bufs
-----------------------------------------------------------------------------
(* Initialisation of ports. *)

(* ahci_detect_controller: the tables of known devices and the PCI class. *)
DetectController == BOOLEAN

(* The first half of ahci_initialize_controller: its registers are found,  *)
(* mapped and taken over from the firmware, and AHCI mode sticks, or not.   *)
MapController == BOOLEAN

(* Its second half: the ports are those the controller names or, when it   *)
(* names none, those that show a signature; HbaPorts stands for either.     *)
FirstPort == Min(HbaPorts)

ControllerInit ==
    /\ call.st = "start"
    /\ \E found \in DetectController, mapped \in MapController :
          call' = At(IF found /\ mapped THEN "init" ELSE "off", FirstPort)
    /\ UNCHANGED <<dpool, ahci, hba, table, issued, sata>>

(* What the signature and the link state of a port lead to. *)
PortDevice(p) == IF hba[p].dev = "none" THEN {"none"} ELSE {hba[p].dev, "none"}

(* ahci_start_port: stops the port, whatever comes of it, and starts the    *)
(* two engines one after the other, each with a time limit.                 *)
StartPort(p) == BOOLEAN

(* Started a second time if the first fails, then watched until both       *)
(* engines are seen running.                                                *)
Started(p) == {(a \/ b) /\ stable : a, b \in StartPort(p), stable \in BOOLEAN}

(* ahci_initialize_port.  When the buffers run out those it got are freed,  *)
(* and the port record still points at them; when the port does not start  *)
(* they stay allocated.                                                     *)
InitializePort ==
    LET p == call.port
        Set(rec) == ahci' = [ahci EXCEPT ![p] = rec]
    IN
    /\ call.st = "init"
    /\ \E dev \in PortDevice(p) :
          IF dev = "none" THEN Set(NoPort) /\ UNCHANGED <<dpool, hba>>
          ELSE \/ \E k \in 0 .. PerPort - 1 :
                     /\ Cardinality(FreeBuffers) >= k
                     /\ Set([NoPort EXCEPT !.present = TRUE, !.type = dev, !.bufs = Lowest(k)])
                     /\ UNCHANGED <<dpool, hba>>
               \/ \E a \in AllocBuffers(PerPort), ok \in Started(p) :
                     /\ dpool' = a.pool
                     /\ Set([NoPort EXCEPT !.present = TRUE, !.type = dev, !.init = ok,
                                           !.bufs = a.bufs])
                     /\ hba' = [hba EXCEPT ![p].run = ok]
    /\ call' = IF \E q \in HbaPorts : q > p
               THEN At("init", Min({q \in HbaPorts : q > p}))
               ELSE At("setup", FirstPort)
    /\ UNCHANGED <<table, issued, sata>>
-----------------------------------------------------------------------------
(* Commands. *)

(* Fault: slots whose bit of CI is still set are not skipped. *)
FindCmdslotFault(p) ==
    LET free == Slots \ ahci[p].busy IN IF free = {} THEN -1 ELSE Min(free)

FindCmdslot(p) ==
    LET free == Slots \ (hba[p].ci \cup ahci[p].busy) IN
    IF free = {} THEN -1 ELSE Min(free)

(* ahci_send_command up to the write of CI; the driver then waits. *)
SendCommand(p, slot, cmd, then) ==
    /\ table' = [table EXCEPT ![p][slot] = cmd]
    /\ ahci' = [ahci EXCEPT ![p].busy = @ \cup {slot}]
    /\ hba' = [hba EXCEPT ![p].ci = @ \cup {slot}]
    /\ issued' = IF slot \in hba[p].ci THEN issued ELSE [issued EXCEPT ![p][slot] = cmd]
    /\ call' = [call EXCEPT !.st = "poll", !.slot = slot, !.then = then]
    /\ UNCHANGED <<dpool, sata>>

(* The end of the wait: the driver's flag is cleared in every case; IS only *)
(* when the bit of CI was seen clear.                                       *)
Waited(ok) ==
    /\ ahci' = [ahci EXCEPT ![call.port].busy = @ \ {call.slot}]
    /\ hba' = IF ok THEN [hba EXCEPT ![call.port].tfes = FALSE] ELSE hba
    /\ call' = [call EXCEPT !.st = call.then, !.ok = ok, !.slot = 0, !.then = "none"]
    /\ UNCHANGED <<dpool, table, issued, sata>>

PollDone == call.st = "poll" /\ call.slot \notin hba[call.port].ci /\ Waited(TRUE)

PollError ==
    /\ call.st = "poll" /\ call.slot \in hba[call.port].ci /\ hba[call.port].tfes
    /\ Waited(FALSE)

PollTimeout == call.st = "poll" /\ call.slot \in hba[call.port].ci /\ Waited(FALSE)

(* The adapter finishes a command.  What the table of an idle slot holds is *)
(* of no interest and is forgotten.                                         *)
HbaComplete(p, s) ==
    /\ s \in hba[p].ci /\ hba[p].run
    /\ hba' = [hba EXCEPT ![p].ci = @ \ {s}]
    /\ table' = [table EXCEPT ![p][s] = NoCmd]
    /\ issued' = [issued EXCEPT ![p][s] = NoCmd]
    /\ UNCHANGED <<dpool, ahci, sata, call>>

(* The device reports an error: the port stops and waits for a restart     *)
(* that ahci_send_command never does.                                       *)
HbaError(p, s) ==
    /\ s \in hba[p].ci /\ hba[p].run
    /\ hba' = [hba EXCEPT ![p].run = FALSE, ![p].tfes = TRUE]
    /\ UNCHANGED <<dpool, ahci, table, issued, sata, call>>
-----------------------------------------------------------------------------
(* sata_disk_init and sata_disk_setup. *)

(* The next port, or the second pass when the first has found no disk. *)
NextPort(disks) ==
    LET later == {q \in HbaPorts : q > call.port} IN
    IF later # {} THEN At("setup", Min(later))
    ELSE IF disks = <<>> /\ call.pass = 1 THEN [At("setup", FirstPort) EXCEPT !.pass = 2]
    ELSE At("run", call.port)

(* The first pass takes SATA drives, the second, when there are none,      *)
(* whatever is initialised.                                                 *)
SetupPort ==
    LET r == ahci[call.port] IN
    /\ call.st = "setup"
    /\ call' = IF r.present /\ (call.pass = 2 \/ r.type = "disk") /\ r.init
               THEN At("spin", call.port) ELSE NextPort(sata)
    /\ UNCHANGED <<dpool, ahci, hba, table, issued, sata>>

(* ahci_spin_up_device: a link that is not active is sent a command; the   *)
(* result is not looked at.                                                 *)
SpinUp ==
    LET slot == FindCmdslot(call.port)
        then == IF call.tries = Tries THEN "giveup" ELSE "alloc"
    IN
    /\ call.st = "spin"
    /\ \/ call' = [call EXCEPT !.st = then]
          /\ UNCHANGED <<dpool, ahci, hba, table, issued, sata>>
       \/ slot # -1 /\ SendCommand(call.port, slot, Command("idle", "none", "none"), then)

AllocIoBuffer ==
    /\ call.st = "alloc"
    /\ \/ \E a \in AllocBuffers(1) :
             /\ dpool' = a.pool
             /\ call' = [call EXCEPT !.st = "identify", !.buf = a.bufs]
       \/ dpool' = dpool /\ call' = NextPort(sata)
    /\ UNCHANGED <<ahci, hba, table, issued, sata>>

(* ahci_identify_device, up to three times. *)
Identify ==
    LET slot == FindCmdslot(call.port) IN
    /\ call.st = "identify"
    /\ IF slot # -1
       THEN SendCommand(call.port, slot, Command("identify", "none", "io"), "identified")
       ELSE /\ call' = [call EXCEPT !.st = "identified", !.ok = FALSE]
            /\ UNCHANGED <<dpool, ahci, hba, table, issued, sata>>

(* After each attempt: a disk, the next attempt, or (after the third) one   *)
(* more spin-up and out.  A disk's data may also be implausible.            *)
Identified ==
    /\ call.st = "identified"
    /\ \/ /\ call.ok
          /\ sata' = Append(sata, [port |-> call.port, buf |-> call.buf])
          /\ call' = NextPort(sata')
       \/ call.ok /\ call' = [call EXCEPT !.st = "giveup"] /\ sata' = sata
       \/ /\ ~call.ok
          /\ call' = [call EXCEPT !.tries = @ + 1,
                                  !.st = IF call.tries + 1 = Tries THEN "spin" ELSE "identify"]
          /\ sata' = sata
    /\ UNCHANGED <<dpool, ahci, hba, table, issued>>

GiveUp ==
    /\ call.st = "giveup"
    /\ dpool' = FreeBuffer(dpool, call.buf)
    /\ call' = NextPort(sata)
    /\ UNCHANGED <<ahci, hba, table, issued, sata>>
-----------------------------------------------------------------------------
(* The running system. *)

(* ahci_read_sectors and ahci_write_sectors on behalf of a SATA disk: a     *)
(* read goes through the disk's buffer, a write takes the caller's.         *)
Transfer(d, op, lba) ==
    LET p == d.port
        slot == FindCmdslot(p)
    IN
    /\ call.st = "run" /\ ahci[p].type = "disk" /\ slot # -1
    /\ SendCommand(p, slot, Command(op, lba, IF op = "read" THEN "io" ELSE "caller"), "ret")

(* ahci_list_devices identifies every drive again, into a buffer it frees. *)
ListDevices(p) ==
    LET slot == FindCmdslot(p) IN
    /\ call.st = "run" /\ ahci[p].init /\ ahci[p].type = "disk" /\ slot # -1
    /\ SendCommand(p, slot, Command("identify", "none", "caller"), "ret")

(* A call picks its port. *)
Select(p) ==
    /\ call.st = "run" /\ call.port # p
    /\ call' = [call EXCEPT !.port = p]
    /\ UNCHANGED <<dpool, ahci, hba, table, issued, sata>>

ReturnToCaller ==
    /\ call.st = "ret"
    /\ call' = [call EXCEPT !.st = "run"]
    /\ UNCHANGED <<dpool, ahci, hba, table, issued, sata>>

(* ahci_cleanup frees every buffer a port record points at, whether or not  *)
(* it is still the port's.                                                  *)
PortBuffers == UNION {ahci[p].bufs : p \in HbaPorts}

(* sata_disk_cleanup: the disks' buffers, then the ports'.  When no disk     *)
(* was found there is no driver to clean up.                                *)
Cleanup ==
    /\ call.st = "run"
    /\ dpool' = IF sata = <<>> THEN dpool
                ELSE FreeBuffer(dpool, UNION {sata[i].buf : i \in DOMAIN sata} \cup PortBuffers)
    /\ sata' = <<>>
    /\ call' = [call EXCEPT !.st = "off"]
    /\ UNCHANGED <<ahci, hba, table, issued>>

(* dma_cleanup, the last step of shutdown, frees what is still allocated. *)
DmaCleanup ==
    /\ call.st = "off" /\ dpool # {}
    /\ dpool' = FreeBuffer(dpool, 1 .. PoolSize)
    /\ UNCHANGED <<ahci, hba, table, issued, sata, call>>

AhciInit ==
    /\ dpool = {}
    /\ ahci = [p \in HbaPorts |-> NoPort]
    /\ hba \in [HbaPorts -> [dev : {"none", "disk", "cd"}, run : {FALSE}, tfes : {FALSE}, ci : {{}}]]
    /\ table = [p \in HbaPorts |-> [s \in Slots |-> NoCmd]]
    /\ issued = table
    /\ sata = <<>>
    /\ call = [st |-> "start", port |-> FirstPort, slot |-> 0, then |-> "none",
               tries |-> 0, pass |-> 1, ok |-> FALSE, buf |-> {}]

AhciNext ==
    \/ ControllerInit \/ InitializePort
    \/ SetupPort \/ SpinUp \/ AllocIoBuffer \/ Identify \/ Identified \/ GiveUp
    \/ PollDone \/ PollError \/ PollTimeout
    \/ \E p \in HbaPorts, s \in Slots : HbaComplete(p, s) \/ HbaError(p, s)
    \/ \E i \in DOMAIN sata, lba \in Lbas, op \in {"read", "write"} :
          call.port = sata[i].port /\ Transfer(sata[i], op, lba)
    \/ call.port \in HbaPorts /\ ListDevices(call.port)
    \/ \E p \in HbaPorts : Select(p)
    \/ ReturnToCaller
    \/ Cleanup \/ DmaCleanup

AhciSpec == AhciInit /\ [][AhciNext]_AhciVars
-----------------------------------------------------------------------------
(* Properties. *)

AhciTypeOK ==
    /\ dpool \subseteq 1 .. PoolSize
    /\ \A p \in HbaPorts : hba[p].ci \subseteq Slots /\ ahci[p].busy \subseteq Slots
    /\ call.st \in {"start", "init", "setup", "spin", "alloc", "identify", "identified", "giveup",
                    "poll", "run", "ret", "off"}

(* The adapter executes the commands it was given: a command table is not  *)
(* rewritten while its bit of CI is set, even when the driver has given the *)
(* slot up after a timeout or an error (ahci_find_cmdslot).                 *)
TableIsIssued ==
    \A p \in HbaPorts : \A s \in hba[p].ci : table[p][s] = issued[p][s]

(* Whoever works with DMA buffers has them allocated and alone, through     *)
(* ports that fail to start, disks that fail to identify and buffers that   *)
(* run out (dma_alloc_buffer, ahci_initialize_port, sata_disk_setup).       *)
Ready == {p \in HbaPorts : ahci[p].init}
BuffersOwned ==
    call.st # "off" =>
        /\ \A p \in Ready : /\ ahci[p].bufs \subseteq dpool
                            /\ \A q \in Ready \ {p} : ahci[p].bufs \cap ahci[q].bufs = {}
        /\ \A i \in DOMAIN sata :
              /\ sata[i].buf \subseteq dpool
              /\ \A p \in Ready : sata[i].buf \cap ahci[p].bufs = {}
              /\ \A j \in DOMAIN sata \ {i} : sata[i].buf \cap sata[j].buf = {}

\* What the port executes is what was issued, and every buffer has an owner
\* (ahci.c).
CommandsSound == TableIsIssued /\ BuffersOwned

=============================================================================
