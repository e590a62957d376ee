----------------------------- MODULE BlockLayer -----------------------------
(***************************************************************************)
(* The block device layer: detection of IDE, SATA and ATAPI drives at boot,*)
(* the choice of main_disk, partition handles made from it, and the        *)
(* dispatch of reads, writes and flushes to the ide, sata and atapi drivers *)
(* or to the legacy port loops of disk.c.                                   *)
(*                                                                         *)
(* A transfer is described by what it moved: the set of <<i, u, s>> such    *)
(* that sector i of the caller's buffer met sector s of unit u.  Sector     *)
(* contents are not kept: a transfer is right when it moves the right pairs.*)
(* Registers, status bits and delays are abstracted to the outcome of each  *)
(* wait; every wait may end well or badly, independently.                   *)
(***************************************************************************)
EXTENDS Integers, Sequences, FiniteSets, FiniteSetsExt, SequencesExt

CONSTANTS
    Size,        \* sectors of every hard disk
    Blocks,      \* blocks of a disc
    PerBlock,    \* 512-byte sectors in a block of a disc (4 in the code)
    MaxChunk,    \* sectors of one PIO command (255 in the code)
    Retries,     \* DISK_RETRIES, IDE_RETRIES (3)
    IoChunk,     \* sectors in a SATA disk's DMA buffer (256 in the code)
    CountMod,    \* sectors a 28-bit DMA command can name (256 in the code)
    MaxN,        \* bound: sectors of one transfer
    PartStart, PartSize,   \* the partition of main_disk that is used
    IdeLayouts   \* what may be found at the four IDE positions

ASSUME SizesAssumption ==
    /\ {Size, Blocks, PerBlock, MaxChunk, Retries, IoChunk, CountMod, MaxN}
           \subseteq Nat \ {0}
    /\ MaxN <= CountMod \* no caller moves more than 256 sectors in one call
    /\ PartStart \in Nat /\ PartSize \in Nat \ {0}
    /\ IdeLayouts \subseteq [0 .. 3 -> {"none", "disk", "cdrom"}]

VARIABLES
    hw,    \* the machine: drives at the four IDE positions, SATA ports, disc inserted
    drv,   \* the tables of the three drivers
    main,  \* main_disk
    part,  \* the disk_t of a partition of main_disk
    seen,  \* detected_devices
    phase, \* how far cmain has come
    last,  \* history: the last transfer
    unit   \* history: the unit main_disk was opened for

BlkVars == <<hw, drv, main, part, seen, phase, last, unit>>

Positions == 0 .. 3        \* bus * 2 + drive

NoDisk == [type |-> "none", drive |-> 0, init |-> FALSE, size |-> 0,
           part |-> FALSE, off |-> 0, phys |-> 0]

NoDrivers == [sata |-> <<>>, sataInit |-> FALSE, atapi |-> <<>>, atapiInit |-> FALSE,
              ide |-> [p \in Positions |-> FALSE], ideCount |-> 0]

Quiet == phase = "run" /\ last.op = "none"

NoTransfer == [op |-> "none", disk |-> NoDisk, lba |-> 0, n |-> 0, res |-> "ok",
               moved |-> {}, path |-> "none", lost |-> FALSE]
-----------------------------------------------------------------------------
(* Detection at boot. *)

(* What was found, in the order in which the loops try the positions. *)
InOrder(found) ==
    LET At(p) == IF p \in found THEN <<p>> ELSE <<>>
    IN  At(0) \o At(1) \o At(2) \o At(3)

(* sata_disk_init: every port whose device answers becomes the next disk.  *)
(* When none does, a second pass asks every port again, whatever its type: *)
(* the disks may answer now, while a device of another type aborts the     *)
(* IDENTIFY, so that both passes leave some of the disks.                  *)
SataTable(ok) ==
    [drv EXCEPT !.sata = InOrder(ok), !.sataInit = ok # {}]

SataInit ==
    /\ phase = "boot"
    /\ \E ok \in SUBSET hw.sata : drv' = SataTable(ok)
    /\ phase' = "sata"
    /\ UNCHANGED <<hw, main, part, seen, last, unit>>

(* atapi_identify: the drive answers IDENTIFY PACKET in time, or not. *)
AtapiIdentify(p) == BOOLEAN

(* atapi_detect_device: only a drive with the packet signature is asked. *)
AtapiDetect(p) == IF hw.ide[p] = "cdrom" THEN AtapiIdentify(p) ELSE {FALSE}

(* atapi_init tries the four positions; a drive that does not identify     *)
(* itself leaves its slot to the next.                                     *)
AtapiInit ==
    /\ phase = "sata"
    /\ \E ok \in {o \in SUBSET Positions : \A p \in Positions : (p \in o) \in AtapiDetect(p)} :
          drv' = [drv EXCEPT !.atapi = [i \in 1 .. Len(InOrder(ok)) |->
                                 [pos |-> InOrder(ok)[i], media |-> FALSE]],
                             !.atapiInit = TRUE]
    /\ phase' = "atapi"
    /\ UNCHANGED <<hw, main, part, seen, last, unit>>

(* ide_detect_device_type: by the signature after a reset. *)
IdeDetectType(p) ==
    CASE hw.ide[p] = "disk"  -> "pata"
      [] hw.ide[p] = "cdrom" -> "patapi"
      [] OTHER               -> "none"

(* ide_identify_device: each of its waits may end badly. *)
IdeIdentify(p) == BOOLEAN

(* ide_detect_disk: a disk that fails IDENTIFY is reset and asked again. *)
IdeDetectDisk(p) ==
    IF IdeDetectType(p) # "pata" THEN {FALSE}
    ELSE {first \/ second : first \in IdeIdentify(p), second \in IdeIdentify(p)}

(* ide_driver_init: disks[] is indexed by position, disk_count counts. *)
IdeDriverInit ==
    /\ phase = "atapi"
    /\ \E ok \in {o \in SUBSET Positions : \A p \in Positions : (p \in o) \in IdeDetectDisk(p)} :
          drv' = [drv EXCEPT !.ide = [p \in Positions |-> p \in ok],
                             !.ideCount = Cardinality(ok)]
    /\ phase' = "ide"
    /\ UNCHANGED <<hw, main, part, seen, last, unit>>

(* The search of ide_get_disk_info for i < ide_get_disk_count(): a disk is *)
(* found only when its position is below the count.                        *)
IdeFinds(d, drive) == drive < d.ideCount /\ d.ide[drive]

(* enhanced_disk_detect: the AHCI port of that number comes first. *)
Detect(p) ==
    IF p \in hw.sata THEN "sata" ELSE IdeDetectType(p)

PataDisk(p) == [NoDisk EXCEPT !.type = "pata", !.drive = p, !.init = TRUE, !.size = Size]

(* perform_ide_initialization: one IDENTIFY, which fills the handle. *)
PerformIdeInit(p) == {PataDisk(p), [NoDisk EXCEPT !.type = "pata", !.drive = p]}

(* disk_check_presence: the IDE driver's entry, else an IDENTIFY of its own. *)
DiskCheckPresence(p) ==
    IF Detect(p) # "pata" THEN {NoDisk}
    ELSE IF IdeFinds(drv, p) THEN {PataDisk(p)}
    ELSE PerformIdeInit(p)

(* disk_init: a disk the IDE driver does not know is asked once more       *)
(* through the primary ports, with three attempts; their failure leaves    *)
(* the handle marked initialised.                                          *)
DiskInit(p) ==
    IF IdeFinds(drv, p) THEN {<<PataDisk(p), "ok">>}
    ELSE UNION {IF d.init THEN {<<d, "ok">>, <<d, "ata">>} ELSE {<<d, "not_present">>} :
                   d \in DiskCheckPresence(p)}

(* disk_init_atapi: TEST UNIT READY carries no data, so atapi_send_packet  *)
(* reports success whatever the drive answered; the capacity does not.     *)
AtapiDisk(sectors) == [NoDisk EXCEPT !.type = "atapi", !.init = TRUE, !.size = sectors]

DiskInitAtapi ==
    {AtapiDisk(0)} \cup IF hw.media THEN {AtapiDisk(Blocks * PerBlock)} ELSE {}

SataDisk(id) == [NoDisk EXCEPT !.type = "sata", !.drive = id, !.init = TRUE, !.size = Size]

(* cmain: SATA disk 0, else IDE drive 0, else the first CD drive. *)
OpenMain ==
    /\ phase = "ide"
    /\ IF drv.sataInit /\ drv.sata # <<>>
       THEN main' = SataDisk(0) /\ drv' = drv
       ELSE \E r \in DiskInit(0) :
              IF r[2] = "ok" \/ drv.atapi = <<>>
              THEN main' = r[1] /\ drv' = drv
              ELSE /\ main' \in DiskInitAtapi
                   /\ drv' = [drv EXCEPT !.atapi[1].media = TRUE]
    /\ unit' = CASE main'.type = "sata"  -> <<"sata", drv.sata[1]>>
                 [] main'.type = "pata"  -> <<"ide", 0>>
                 [] main'.type = "atapi" -> <<"cd", 0>>
                 [] OTHER                -> <<"none", 0>>
    /\ phase' = "open"
    /\ UNCHANGED <<hw, part, seen, last>>

(* disk_scan_all_buses: first the IDE driver's disks, then every position  *)
(* not yet seen; only a device that was recognised advances the count, so  *)
(* the entry of an empty position is overwritten by the next one.          *)
FromIde == {p \in Positions : IdeFinds(drv, p)}

(* Fault: the second pass does not skip what the first has found. *)
ScanTwiceFault ==
    /\ phase = "open"
    /\ seen' = InOrder(FromIde) \o InOrder({p \in Positions : Detect(p) # "none"})
    /\ phase' = "run"
    /\ UNCHANGED <<hw, drv, main, part, last, unit>>

DiskScanAllBuses ==
    /\ phase = "open"
    /\ seen' = InOrder(FromIde) \o InOrder({p \in Positions \ FromIde : Detect(p) # "none"})
    /\ phase' = "run"
    /\ UNCHANGED <<hw, drv, main, part, last, unit>>

(* disk_init_from_partition copies the physical handle. *)
InitFromPartition ==
    /\ Quiet /\ main.init /\ ~part.init
    /\ part' = [main EXCEPT !.part = TRUE, !.off = PartStart, !.size = PartSize,
                            !.phys = main.size]
    /\ UNCHANGED <<hw, drv, main, seen, phase, last, unit>>
-----------------------------------------------------------------------------
(* Transfers. *)

(* One turn of the retry loop of ide_read_sectors, ide_write_sectors and   *)
(* the legacy loops of disk.c.  fate.how is where it breaks off: the       *)
(* command is not accepted, the drive does not ask for sector fate.at, or  *)
(* (writes) it refuses the sector it was given, which has been counted by  *)
(* then.  fate.fine: the flush and the final check go well.                 *)
IdeFates(write) ==
    [how : {"prepare", "drq", "none"} \cup IF write THEN {"refuse"} ELSE {},
     at : 0 .. MaxChunk - 1, fine : BOOLEAN]

(* disk_wait_ready, disk_wait_drq, disk_check_error: the same, by a clock. *)
LegacyFates(write) == IdeFates(write)

(* Fault: a turn that breaks off counts the whole chunk as done. *)
TurnChunkFault(s, n, u, lba, fate) ==
    LET chunk == Min({n - s.done, MaxChunk})
        stop == IF fate.how \in {"drq", "refuse"} THEN Min({fate.at, chunk}) ELSE chunk
    IN [done |-> s.done + chunk,
        moved |-> s.moved \cup {<<s.done + i, u, lba + s.done + i>> : i \in 0 .. stop - 1},
        ok |-> s.done + chunk = n /\ fate.fine,
        lost |-> s.lost \/ fate.how = "refuse"]

Turn(s, n, u, lba, fate) ==
    LET chunk == Min({n - s.done, MaxChunk})
        stop == IF fate.how \in {"drq", "refuse"} THEN Min({fate.at, chunk}) ELSE chunk
        refused == fate.how = "refuse" /\ fate.at < chunk
        done == s.done + stop + IF refused THEN 1 ELSE 0
    IN IF fate.how = "prepare" THEN s
       ELSE [done |-> done,
             moved |-> s.moved \cup {<<s.done + i, u, lba + s.done + i>> :
                                        i \in 0 .. stop - 1},
             ok |-> done = n /\ fate.fine,
             lost |-> s.lost \/ refused]

(* All the states the loop can end in after k turns. *)
PioLoop(fates, n, u, lba) ==
    LET Step(S) == UNION {IF s.ok \/ s.done >= n THEN {s}
                          ELSE {Turn(s, n, u, lba, f) : f \in fates} : s \in S}
        loop[k \in 0 .. Retries] ==
            IF k = 0 THEN {[done |-> 0, moved |-> {}, ok |-> FALSE, lost |-> FALSE]}
            ELSE LET p == loop[k - 1] IN Step(p)
    IN loop[Retries]

(* What a transfer ended in, for the caller and for the medium. *)
Outcome(res, moved, path, lost) == [res |-> res, moved |-> moved, path |-> path, lost |-> lost]
Refused(res) == {Outcome(res, {}, "none", FALSE)}

(* ide_read_sectors and ide_write_sectors. *)
IdeTransfer(write, u, lba, n) ==
    {Outcome(IF s.ok THEN "ok" ELSE "ata", s.moved, "ide", s.lost) :
        s \in PioLoop(IdeFates(write), n, u, lba)}

(* The legacy loops: all sectors done counts as success, whatever the      *)
(* flush or the final check said.                                          *)
LegacyTransfer(write, u, lba, n) ==
    {Outcome(IF s.ok \/ s.done = n THEN "ok" ELSE "ata", s.moved, "legacy",
             s.lost \/ ~s.ok) : s \in PioLoop(LegacyFates(write), n, u, lba)}

(* The drive select byte of the legacy path keeps one bit of the number    *)
(* and always goes to the primary bus.                                     *)
LegacyUnit(d) == <<"ide", d.drive % 2>>

(* The limits of the legacy path. *)
Legacy(write, d, lba, n) ==
    LET limit == IF d.part THEN d.phys ELSE d.size IN
    IF n = 0 THEN Refused("invalid")
    ELSE IF lba + n > limit THEN Refused("range")
    ELSE LegacyTransfer(write, LegacyUnit(d), lba, n)

(* A PATA disk is read and written through the IDE driver when it has it. *)
PataTransfer(t, write, d, lba, n) ==
    IF IdeFinds(t, d.drive)
    THEN IF lba + n > Size THEN Refused("range")
         ELSE IF n = 0 THEN Refused("ata")
         ELSE IdeTransfer(write, <<"ide", d.drive>>, lba, n)
    ELSE Legacy(write, d, lba, n)

(* The sectors one 28-bit DMA command moves: its count field has 8 bits. *)
DmaCount(n) == IF n % CountMod = 0 THEN CountMod ELSE n % CountMod

Pairs(u, lba, from, len) == {<<i, u, lba + i>> : i \in from .. from + len - 1}

(* sata_disk_read: one DMA command per buffer, until one fails. *)
SataRead(t, d, lba, n) ==
    IF ~t.sataInit \/ d.drive >= Len(t.sata) \/ n = 0 THEN Refused("invalid")
    ELSE IF lba + n > Size THEN Refused("range")
    ELSE LET u == <<"sata", t.sata[d.drive + 1]>>
             chunks == (n + IoChunk - 1) \div IoChunk
             Moved(c) == Min({n, c * IoChunk})
         IN {Outcome(IF c = chunks THEN "ok" ELSE "ata", Pairs(u, lba, 0, Moved(c)), "sata", FALSE) :
                c \in 0 .. chunks}

(* sata_to_legacy_disk_write: a single command from the caller's buffer. *)
SataWrite(t, d, lba, n) ==
    IF d.drive >= Len(t.sata) THEN Refused("invalid")
    ELSE IF lba + n > Size THEN Refused("range")
    ELSE IF n = 0 THEN Refused("ata")
    ELSE LET u == <<"sata", t.sata[d.drive + 1]>> IN
         {Outcome("ok", Pairs(u, lba, 0, DmaCount(n)), "sata", FALSE)}
         \cup {Outcome("ata", Pairs(u, lba, 0, k), "sata", FALSE) : k \in 0 .. n - 1}

(* atapi_wait_not_busy, atapi_wait_ready, atapi_wait_drq: each ends or not. *)
AtapiWaits == {"ok", "timeout"}

(* atapi_send_packet: a packet without data never sees the drive's error.  *)
SendPacket(data) == AtapiWaits \cup IF data THEN {"io"} ELSE {}

(* atapi_test_unit_ready: so a drive without a disc is "ready" too. *)
TestUnitReady == SendPacket(FALSE)

(* atapi_read_sectors of whole blocks. *)
AtapiReadSectors(first, blocks) ==
    IF blocks = 0 THEN {"invalid"}
    ELSE {r \in SendPacket(TRUE) : r = "ok" => hw.media /\ first + blocks <= Blocks}

(* disk_read_dispatch of a disc: whole blocks are read into a buffer of    *)
(* ceil(n / PerBlock) blocks and the sectors wanted are copied from the     *)
(* offset of the first one; what lies behind the buffer is the heap's.      *)
AtapiRead(lba, n) ==
    LET blocks == (n + PerBlock - 1) \div PerBlock
        first == lba \div PerBlock
        off == lba % PerBlock
        Copied(i) == IF off + i < blocks * PerBlock
                     THEN <<i, <<"cd", 0>>, first * PerBlock + off + i>>
                     ELSE <<i, <<"heap", 0>>, off + i>>
        Result(r) == CASE r = "ok" -> Outcome("ok", {Copied(i) : i \in 0 .. n - 1}, "atapi", FALSE)
                       [] r = "timeout" -> Outcome("timeout", {}, "atapi", FALSE)
                       [] OTHER -> Outcome("atapi", {}, "atapi", FALSE)
    IN {Result(r) : r \in AtapiReadSectors(first, blocks)}
       \cup {Result("media") : r \in TestUnitReady \ {"ok"}}

OutOfPartition(d, lba, n) == d.part /\ lba + n > d.size

(* disk_read_dispatch. *)
ReadDispatch(t, d, lba, n) ==
    LET at == IF d.part THEN lba + d.off ELSE lba IN
    IF OutOfPartition(d, lba, n) THEN Refused("range")
    ELSE CASE d.type = "atapi" -> AtapiRead(at, n)
           [] d.type = "sata"  -> SataRead(t, d, at, n)
           [] d.type = "pata"  -> PataTransfer(t, FALSE, d, at, n)

(* disk_write_dispatch: discs cannot be written; a SATA disk whose driver  *)
(* is gone is written through the legacy ports.                            *)
WriteDispatch(t, d, lba, n) ==
    LET at == IF d.part THEN lba + d.off ELSE lba IN
    IF OutOfPartition(d, lba, n) \/ (d.part /\ lba >= d.size) THEN Refused("range")
    ELSE IF d.part /\ at + n > d.phys THEN Refused("range")
    ELSE CASE d.type = "atapi" -> Refused("atapi")
           [] d.type = "pata"  -> PataTransfer(t, TRUE, d, at, n)
           [] d.type = "sata"  -> IF t.sataInit THEN SataWrite(t, d, at, n)
                                  ELSE Legacy(TRUE, d, at, n)

(* disk_flush_dispatch: only PATA disks have a command for it. *)
FlushDispatch(d) ==
    IF d.type = "pata" THEN Refused("ok") \cup Refused("ata") ELSE Refused("ok")

Record(op, d, lba, n, o) ==
    [op |-> op, disk |-> d, lba |-> lba, n |-> n, res |-> o.res, moved |-> o.moved,
     path |-> o.path, lost |-> o.lost]
-----------------------------------------------------------------------------
(* The running system.  Calls run with interrupts off or inside an         *)
(* interrupt: one is over before the next begins.                          *)

Return ==
    /\ last.op # "none" /\ phase = "run"
    /\ last' = NoTransfer
    /\ UNCHANGED <<hw, drv, main, part, seen, phase, unit>>

(* A read through a handle; checking a disc also marks it present. *)
ReadSectors(d, lba, n) ==
    /\ Quiet /\ d.init
    /\ \E o \in ReadDispatch(drv, d, lba, n) : last' = Record("read", d, lba, n, o)
    /\ drv' = IF d.type = "atapi" THEN [drv EXCEPT !.atapi[1].media = TRUE] ELSE drv
    /\ UNCHANGED <<hw, main, part, seen, phase, unit>>

WriteSectors(d, lba, n) ==
    /\ Quiet /\ d.init
    /\ \E o \in WriteDispatch(drv, d, lba, n) : last' = Record("write", d, lba, n, o)
    /\ UNCHANGED <<hw, drv, main, part, seen, phase, unit>>

FlushCache(d) ==
    /\ Quiet /\ d.init
    /\ \E o \in FlushDispatch(d) : last' = Record("flush", d, 0, 0, o)
    /\ UNCHANGED <<hw, drv, main, part, seen, phase, unit>>

(* 'disk health' and 'disk' read sector 0 with disk_read, which knows only *)
(* the primary ports.                                                      *)
ShowDiskHealth ==
    /\ Quiet /\ main.init
    /\ \E o \in (IF 1 > main.size THEN Refused("range")
                 ELSE LegacyTransfer(FALSE, LegacyUnit(main), 0, 1)) :
          last' = Record("health", main, 0, 1, o)
    /\ UNCHANGED <<hw, drv, main, part, seen, phase, unit>>

(* atapi_eject through the driver's ioctl; the second packet may time out. *)
Eject ==
    /\ Quiet /\ drv.atapi # <<>>
    /\ \/ /\ drv' = [drv EXCEPT !.atapi[1].media = FALSE]
          /\ hw' = [hw EXCEPT !.media = FALSE]
       \/ UNCHANGED <<drv, hw>>
    /\ UNCHANGED <<main, part, seen, phase, last, unit>>

(* The user changes the disc. *)
ChangeDisc ==
    /\ Quiet /\ drv.atapi # <<>>
    /\ hw' = [hw EXCEPT !.media = ~@]
    /\ UNCHANGED <<drv, main, part, seen, phase, last, unit>>

(* driver_system_cleanup: sata_disk_cleanup, atapi_cleanup, ide_driver_cleanup. *)
CleanDrivers(d) == NoDrivers

(* Fault: the drivers are cleaned up before the file systems are unmounted. *)
ShutdownDriversFirst(d, lba) ==
    /\ Quiet /\ d.init
    /\ \E o \in WriteDispatch(CleanDrivers(drv), d, lba, 1) :
          last' = Record("write", d, lba, 1, o)
    /\ drv' = CleanDrivers(drv)
    /\ phase' = "off"
    /\ UNCHANGED <<hw, main, part, seen, unit>>

(* shutdown and acpi_reboot: the mounts are flushed first, "antes de        *)
(* limpiar drivers para poder flashear caches", then the drivers go.       *)
Shutdown(d, lba) ==
    /\ Quiet /\ d.init
    /\ \E o \in WriteDispatch(drv, d, lba, 1) : last' = Record("write", d, lba, 1, o)
    /\ drv' = CleanDrivers(drv)
    /\ phase' = "off"
    /\ UNCHANGED <<hw, main, part, seen, unit>>

Machines ==
    [ide : IdeLayouts, sata : SUBSET {0, 2}, media : BOOLEAN]

BlkInit ==
    /\ hw \in Machines
    /\ drv = NoDrivers
    /\ main = NoDisk /\ part = NoDisk
    /\ seen = <<>>
    /\ phase = "boot"
    /\ last = NoTransfer
    /\ unit = <<"none", 0>>

BlkNext ==
    \/ SataInit
    \/ AtapiInit
    \/ IdeDriverInit
    \/ OpenMain
    \/ DiskScanAllBuses
    \/ InitFromPartition
    \/ \E d \in {main, part}, lba \in 0 .. Size, n \in 0 .. MaxN :
          ReadSectors(d, lba, n) \/ WriteSectors(d, lba, n)
    \/ \E d \in {main, part} : FlushCache(d)
    \/ Return
    \/ ShowDiskHealth
    \/ Eject
    \/ ChangeDisc
    \/ \E d \in {main, part}, lba \in 0 .. Size : Shutdown(d, lba)

BlkSpec == BlkInit /\ [][BlkNext]_BlkVars
-----------------------------------------------------------------------------
(* Properties. *)

Disks == [type : {"none", "pata", "sata", "atapi"}, drive : {0}, init : BOOLEAN,
          size : {0, Size, Blocks * PerBlock, PartSize}, part : BOOLEAN, off : {0, PartStart},
          phys : {0, Size, Blocks * PerBlock}]

(* Every table keeps its type; disk_scan_all_buses never writes past the   *)
(* four entries of detected_devices.                                       *)
BlkTypeOK ==
    /\ hw \in Machines
    /\ main \in Disks /\ part \in Disks
    /\ phase \in {"boot", "sata", "atapi", "ide", "open", "run", "off"}
    /\ Len(drv.sata) <= 2 /\ Len(drv.atapi) <= 4 /\ drv.ideCount \in 0 .. 4
    /\ Len(seen) <= 4 /\ IsInjective(seen)
    /\ last.op \in {"none", "read", "write", "flush", "health"}

(* What a transfer should move: sector i of the buffer and sector i of its *)
(* range, on the unit main_disk was opened for.                            *)
Wanted(t) == Pairs(unit, t.lba + t.disk.off, 0, t.n)

(* A read of a disc that needs more blocks than it allocates: the copy     *)
(* runs past the end of the buffer.                                        *)
OverrunsBuffer(t) ==
    /\ t.disk.type = "atapi"
    /\ ((t.lba + t.disk.off) % PerBlock) + t.n
          > ((t.n + PerBlock - 1) \div PerBlock) * PerBlock

(* Through detection, partition offsets, four drivers, retries after any   *)
(* fault and shutdown, a transfer touches no sector of any disk but the    *)
(* ones its handle, partition and range name (disk_read_dispatch,          *)
(* disk_write_dispatch).  The exceptions are the copy from a disc that     *)
(* overruns its buffer, and 'disk health', which reads the first IDE disk  *)
(* whatever main_disk is.                                                  *)
RightSectors ==
    last.op \in {"read", "write"} /\ ~OverrunsBuffer(last) => last.moved \subseteq Wanted(last)

(* A transfer that reports success has moved every sector, unless the      *)
(* drive refused a sector after taking it: ide_write_sectors and the       *)
(* legacy loops have counted that one as written and never retry it.       *)
SuccessIsComplete ==
    last.op \in {"read", "write"} /\ last.res = "ok" /\ ~last.lost /\ ~OverrunsBuffer(last)
        => last.moved = Wanted(last)
=============================================================================
