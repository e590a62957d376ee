-------------------------------- MODULE Acpi ---------------------------------
(***************************************************************************)
(* The ACPI tables (acpi.c): found and checked while booting through        *)
(* windows that a small cache remembers, used later to switch the machine   *)
(* off or to reset it.  Firmware is a record of what it left in memory: a   *)
(* table has a signature, pages, and a checksum that is right or not.       *)
(***************************************************************************)
EXTENDS Paging

CONSTANTS
    Firmwares,        \* what the firmware may have left
    LowFrame,         \* BIOS data area and EBDA
    RomFrame,         \* BIOS ROM
    CacheSize,        \* entries of mapping_cache
    MAX_ACPI_TABLES

(* A table, wherever it lies, lies in memory. *)
InMemory(t) == t.p \in Nat /\ t.n \in Nat \ {0} /\ t.p + t.n <= Frames

ASSUME AcpiAssumption ==
    /\ CacheSize \in Nat \ {0} /\ MAX_ACPI_TABLES \in Nat
    /\ {LowFrame, RomFrame} \subseteq 0 .. Frames - 1
    /\ \A f \in Firmwares :
          /\ InMemory(f.rsdt) /\ InMemory(f.xsdt) /\ f.resetAt \in 0 .. Frames - 1
          /\ \A l \in {f.rsdt.list, f.xsdt.list} :
                l \in Seq(ToSet(l)) /\ \A t \in ToSet(l) : InMemory(t)

VARIABLES
    firmware,
    acpi,             \* acpi_info and how far acpi_init has come
    mapping_cache, cache_index,
    power             \* the PM1 control register and the machine's end

AcpiVars == <<firmware, acpi, mapping_cache, cache_index, power>>

NoEntry == [valid |-> FALSE, p |-> 0, v |-> 0, n |-> 0]
EmptyCache == [i \in 0 .. CacheSize - 1 |-> NoEntry]
NoTables == [at |-> "boot", list |-> <<>>, wide |-> FALSE, tables |-> <<>>, fadt |-> 0,
             initialized |-> FALSE, pm1a |-> FALSE, enabled |-> FALSE]
-----------------------------------------------------------------------------
(* State of the mappings while a routine runs: page tables and the cache. *)
Mappings == [ok |-> TRUE, v |-> None, pt |-> pt, cache |-> mapping_cache, idx |-> cache_index, given |-> {}]

Covers(e, p, n) == e.valid /\ e.p <= p /\ e.p + e.n >= p + n
Verified(m, e, p) == m.pt[e.v + p - e.p] = p

(* mmu_ensure_physical_accessible_cached: the first entry that covers the   *)
(* range and whose first page still shows it; the ones before it that do    *)
(* not are struck out.  Otherwise a window is made and remembered.          *)
Hits(m, p, n) == {i \in DOMAIN m.cache : Covers(m.cache[i], p, n) /\ Verified(m, m.cache[i], p)}
Stale(m, p, n, i) ==
    /\ Covers(m.cache[i], p, n) /\ ~Verified(m, m.cache[i], p)
    /\ \A h \in Hits(m, p, n) : i < h
Struck(m, p, n) ==
    [i \in DOMAIN m.cache |-> IF Stale(m, p, n, i) THEN [m.cache[i] EXCEPT !.valid = FALSE] ELSE m.cache[i]]

Cached(m, p, n) ==
    LET hits == Hits(m, p, n)
        cache == Struck(m, p, n)
        a == Access(m.pt, p, n)
    IN  IF hits # {}
        THEN [m EXCEPT !.ok = TRUE, !.cache = cache, !.v = m.cache[Min(hits)].v + p - m.cache[Min(hits)].p]
        ELSE IF a.ok
        THEN [ok |-> TRUE, v |-> a.v, pt |-> a.pt, idx |-> (m.idx + 1) % CacheSize,
              cache |-> [cache EXCEPT ![m.idx] = [valid |-> TRUE, p |-> p, v |-> a.v, n |-> n]],
              given |-> m.given \cup Granted(a, p, n)]
        ELSE [m EXCEPT !.ok = FALSE, !.cache = cache]

(* A table is read in two calls: its header, which says how long it is, and *)
(* the whole of it.                                                         *)
Mapped(m, t) == LET h == Cached(m, t.p, 1) IN IF h.ok THEN Cached(h, t.p, t.n) ELSE h

Leaves(m) ==
    /\ pt' = m.pt /\ mapping_cache' = m.cache /\ cache_index' = m.idx
    /\ grants' = grants \cup m.given
    /\ UNCHANGED <<pmm, space, crossed>>
-----------------------------------------------------------------------------
(* acpi_find_rsdp: the EBDA, when its pointer can be read, then the ROM; an *)
(* RSDP whose checksum is wrong is passed over.                             *)
FindRsdp ==
    /\ acpi.at = "boot"
    /\ LET bda == Cached(Mappings, LowFrame, 1)
           ebda == IF bda.ok THEN Cached(bda, LowFrame, 1) ELSE bda
           inEbda == ebda.ok /\ firmware.rsdp = "ebda" /\ firmware.sound
           rom == IF inEbda THEN ebda ELSE Cached(ebda, RomFrame, 1)
           found == inEbda \/ (rom.ok /\ firmware.rsdp = "rom" /\ firmware.sound)
       IN  /\ Leaves(rom)
           /\ acpi' = [acpi EXCEPT !.at = IF found THEN "root" ELSE "none"]
    /\ UNCHANGED <<firmware, power>>

(* acpi_parse_rsdt up to its loop. *)
Rsdt(m) ==
    LET r == firmware.rsdt
        header == Cached(m, r.p, 1)
        whole == IF header.ok /\ r.sig THEN Cached(header, r.p, r.n) ELSE header
    IN  [m |-> whole, wide |-> FALSE, list |-> IF whole.ok /\ r.sig /\ r.sum THEN r.list ELSE <<>>]

(* acpi_parse_tables: the XSDT of an ACPI 2 machine, when there is one;     *)
(* the RSDT also stands in for an XSDT that is out of reach or wrong, but   *)
(* not for one that cannot be mapped.                                       *)
RootTable ==
    LET x == firmware.xsdt
        header == Cached(Mappings, x.p, 1)
        whole == Cached(header, x.p, x.n)
        lost(m) == [m |-> m, wide |-> TRUE, list |-> <<>>]
    IN  IF firmware.version < 2 \/ ~x.there \/ x.high THEN Rsdt(Mappings)
        ELSE IF ~header.ok THEN lost(header)
        ELSE IF ~x.sig THEN Rsdt(header)
        ELSE IF ~whole.ok THEN lost(whole)
        ELSE IF ~x.sum THEN Rsdt(whole)
        ELSE [m |-> whole, wide |-> TRUE, list |-> x.list]

ParseTables ==
    /\ acpi.at = "root"
    /\ Leaves(RootTable.m)
    /\ acpi' = [acpi EXCEPT !.at = "tables", !.list = RootTable.list, !.wide = RootTable.wide]
    /\ UNCHANGED <<firmware, power>>

(* The loop of acpi_parse_rsdt and acpi_parse_xsdt: a table that cannot be  *)
(* mapped or whose checksum is wrong is passed over.                        *)
ParseEntry ==
    /\ acpi.at = "tables" /\ acpi.list # <<>> /\ Len(acpi.tables) < MAX_ACPI_TABLES
    /\ LET t == Head(acpi.list)
           high == acpi.wide /\ t.high
           m == IF high THEN Mappings ELSE Mapped(Mappings, t)
           kept == ~high /\ m.ok /\ t.sum
       IN  /\ Leaves(m)
           /\ acpi' = [acpi EXCEPT !.list = Tail(@),
                                   !.tables = IF kept THEN Append(@, [t |-> t, v |-> m.v]) ELSE @]
    /\ UNCHANGED <<firmware, power>>

(* acpi_init: acpi_find_table answers nothing before acpi_info.initialized  *)
(* is set, so the search goes over the tables kept.                         *)
Facp == {i \in 1 .. Len(acpi.tables) :
           /\ acpi.tables[i].t.sig = "FACP" /\ acpi.tables[i].t.sum
           /\ Shows(pt, acpi.tables[i].v, acpi.tables[i].t.p, acpi.tables[i].t.n)}

(* acpi_parse_fadt: the checks it repeats hold for a table of Facp; it      *)
(* takes over the registers the FADT names.                                 *)
ParseFadt(a, i) == [a EXCEPT !.fadt = i, !.pm1a = firmware.pm1a]

(* The end of acpi_init.  Without a FADT the cache is emptied; without any  *)
(* table ACPI is not supported.                                             *)
FindFadt ==
    /\ acpi.at = "tables" /\ (acpi.list = <<>> \/ Len(acpi.tables) >= MAX_ACPI_TABLES)
    /\ IF acpi.tables = <<>> THEN acpi' = [acpi EXCEPT !.at = "none"]
       ELSE LET a == IF Facp = {} THEN acpi ELSE ParseFadt(acpi, Min(Facp)) IN
            acpi' = [a EXCEPT !.at = "up", !.initialized = TRUE]
    /\ IF acpi.tables # <<>> /\ Facp = {}
       THEN mapping_cache' = EmptyCache /\ cache_index' = 0
       ELSE UNCHANGED <<mapping_cache, cache_index>>
    /\ UNCHANGED <<firmware, power, PagingVars>>
-----------------------------------------------------------------------------
(* acpi_enable: already on, on through the SMI port, or directly; each of   *)
(* the two may fail to show.  on: ACPI is enabled when the caller goes on.  *)
CanEnable == acpi.initialized /\ acpi.fadt # 0 /\ acpi.pm1a
Enables(on) ==
    /\ on \in BOOLEAN /\ (acpi.enabled => on)
    /\ IF CanEnable THEN power.sci => on ELSE on = acpi.enabled
Powered(on, end) == [sci |-> power.sci \/ on, touched |-> power.touched \/ CanEnable, end |-> end]

AcpiEnable ==
    /\ acpi.at \in {"up", "none"} /\ ~acpi.enabled /\ power.end = "on"
    /\ \E on \in BOOLEAN :
          Enables(on) /\ acpi' = [acpi EXCEPT !.enabled = on] /\ power' = Powered(on, "on")
    /\ UNCHANGED <<firmware, mapping_cache, cache_index, PagingVars>>

(* acpi_power_off: S5 through the PM1 register when ACPI is or can be       *)
(* enabled, and the emulators' ports in any case.                           *)
PowerOff ==
    /\ acpi.at \in {"up", "none"} /\ power.end = "on"
    /\ \E on \in BOOLEAN :
          /\ Enables(on) /\ acpi' = [acpi EXCEPT !.enabled = on]
          /\ power' = Powered(on, IF acpi.pm1a /\ on THEN "S5" ELSE "ports")
    /\ UNCHANGED <<firmware, mapping_cache, cache_index, PagingVars>>

(* The end of acpi_reboot: the reset register of an ACPI 2 FADT, in memory  *)
(* through a window, else the keyboard controller and a triple fault.  A    *)
(* failed acpi_enable does not stop the attempt.                            *)
CanReset == acpi.initialized /\ acpi.fadt # 0 /\ firmware.version >= 2 /\ firmware.reset # "none"

Reset ==
    /\ acpi.at \in {"up", "none"} /\ power.end = "on"
    /\ LET byMemory == CanReset /\ firmware.reset = "memory"
           m == IF byMemory THEN Cached(Mappings, firmware.resetAt, 1) ELSE Mappings
           done == CanReset /\ (firmware.reset = "io" \/ (byMemory /\ m.ok))
           end == IF done THEN "reset" ELSE "legacy"
       IN  /\ Leaves(m)
           /\ \/ /\ CanReset
                 /\ \E on \in BOOLEAN :
                       Enables(on) /\ acpi' = [acpi EXCEPT !.enabled = on] /\ power' = Powered(on, end)
              \/ ~CanReset /\ power' = [power EXCEPT !.end = end] /\ UNCHANGED acpi
    /\ UNCHANGED firmware

AcpiInit ==
    /\ firmware \in Firmwares
    /\ acpi = NoTables /\ mapping_cache = EmptyCache /\ cache_index = 0
    /\ \E sci \in BOOLEAN : power = [sci |-> sci, touched |-> FALSE, end |-> "on"]

(* Windows other drivers ask for before and after acpi_init, and page        *)
(* directories.                                                             *)
OtherWindows ==
    /\ power.end = "on" /\ acpi.at \in {"boot", "up", "none"}
    /\ \/ \E p \in Devices, n \in 1 .. 2 : EnsureAccessible(p, n)
       \/ \E s \in Spaces : CreateSpace(s) \/ DestroySpace(s)
    /\ UNCHANGED AcpiVars

AcpiNext ==
    FindRsdp \/ ParseTables \/ ParseEntry \/ FindFadt \/ AcpiEnable \/ PowerOff \/ Reset \/ OtherWindows

(* Programs and their address spaces come and go at any time. *)
AcpiSpec ==
    /\ PagingInit /\ AcpiInit
    /\ [][AcpiNext \/ (PagingNext /\ UNCHANGED AcpiVars)]_<<PagingVars, AcpiVars>>
-----------------------------------------------------------------------------
AcpiTypeOK ==
    /\ Len(acpi.tables) <= MAX_ACPI_TABLES /\ acpi.fadt \in 0 .. Len(acpi.tables)
    /\ cache_index \in 0 .. CacheSize - 1
    /\ power.end \in {"on", "S5", "ports", "reset", "legacy"}

(* The windows of the cache show all the pages they were made for, although *)
(* a hit looks at the first only; the tables kept can still be read whole   *)
(* and are sound, and the power register is only touched when the FADT is   *)
(* one of them.                                                             *)
TablesShown ==
    /\ \A i \in DOMAIN mapping_cache : LET e == mapping_cache[i] IN e.valid => Shows(pt, e.v, e.p, e.n)
    /\ \A i \in 1 .. Len(acpi.tables) : LET e == acpi.tables[i] IN e.t.sum /\ Shows(pt, e.v, e.t.p, e.t.n)
    /\ power.touched => acpi.fadt # 0 /\ acpi.tables[acpi.fadt].t.sig = "FACP"

(* Frames have one owner, what was granted stays mapped, and ACPI's cached  *)
(* windows show what they were made for (pmm.c, vmm.c, mmu.c, acpi.c).      *)
MappingSound == PagingSound /\ TablesShown
=============================================================================
