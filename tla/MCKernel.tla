------------------------------ MODULE MCKernel ------------------------------
(* The kernel's services to tasks share a run: a behaviour exercises one of   *)
(* them and leaves the others in an initial state.                            *)
EXTENDS Heap, Acpi, Exec, Syscalls, Ipc, MemFs, TLC
VARIABLE focus
Prog(k, s, p, e, ok) == [kind |-> k, size |-> s, pages |-> p, entry |-> e, sound |-> ok]
\* Programs that fit a slot; one cut short; one that is too large; one that
\* spills out of its slot; one linked over the kernel image; one linked where
\* the first slot lies, with an entry point in the kernel heap; an empty file.
MCPrograms == {Prog("dyn", 2, {0, 1}, 0, TRUE), Prog("dyn", 5, {0}, 0, FALSE), Prog("flat", 9, {0}, 0, TRUE),
               Prog("dyn", 3, {0, 2}, 5, TRUE), Prog("exec", 3, {1}, 1, TRUE), Prog("exec", 2, {8}, 3, TRUE),
               Prog("flat", 0, {0}, 0, TRUE)}
MCRequests == ("c" :> 2) @@ ("d" :> 1)
AcpiTable(sig, p, n, sum) == [sig |-> sig, p |-> p, n |-> n, sum |-> sum, high |-> FALSE]
Above4G == [sig |-> "SSDT", p |-> 6, n |-> 1, sum |-> TRUE, high |-> TRUE]
Facp1 == AcpiTable("FACP", 8, 1, TRUE)
MCTables == {<<Facp1>>, <<AcpiTable("APIC", 7, 2, TRUE), Facp1>>,
             <<Above4G, AcpiTable("APIC", 6, 1, FALSE), Facp1, Facp1>>, <<AcpiTable("HPET", 6, 1, TRUE)>>}
MCRsdt(ok, list) == [p |-> 6, n |-> 2, sig |-> ok, sum |-> TRUE, list |-> list]
MCXsdt(high, sig, sum, list) ==
    [there |-> TRUE, high |-> high, p |-> 7, n |-> 1, sig |-> sig, sum |-> sum, list |-> list]
FirmwareLeft(rsdp, v, rsdt, xsdt, reset) ==
    [rsdp |-> rsdp, sound |-> rsdp # "none", version |-> v, rsdt |-> rsdt, xsdt |-> xsdt,
     pm1a |-> reset # "other", reset |-> reset, resetAt |-> 8]
MCFirmwares ==
    {FirmwareLeft("ebda", 1, MCRsdt(ok, l), MCXsdt(FALSE, FALSE, FALSE, <<>>), "none") : l \in MCTables, ok \in BOOLEAN}
    \cup {FirmwareLeft("rom", 2, MCRsdt(TRUE, l), MCXsdt(FALSE, TRUE, TRUE, l), r) :
              l \in MCTables, r \in {"none", "io", "memory", "other"}}
    \cup {FirmwareLeft("rom", 2, MCRsdt(TRUE, <<Facp1>>), x, "memory") :
              x \in {MCXsdt(TRUE, TRUE, TRUE, <<>>), MCXsdt(FALSE, FALSE, TRUE, <<>>), MCXsdt(FALSE, TRUE, FALSE, <<>>)}}
NoFirmware == FirmwareLeft("none", 1, MCRsdt(FALSE, <<>>), MCXsdt(FALSE, FALSE, FALSE, <<>>), "none")
MCAllFirmwares == MCFirmwares \cup {NoFirmware}
vars == <<HeapVars, PagingVars, AcpiVars, ExecVars, SyscallVars, IpcVars, MemFsVars, focus>>
Init ==
    /\ focus \in {"heap", "paging", "acpi", "exec", "keyboard", "calls", "queues", "mutex", "tree", "dev"}
    /\ HeapInit /\ PagingInit /\ AcpiInit /\ ExecInit /\ SyscallsInit /\ IpcInit /\ MemFsInit
    /\ focus # "paging" => pmm = Booted({1, 2, 4, 5})
    /\ focus # "acpi" => firmware = NoFirmware /\ ~power.sci
    /\ focus # "queues" => Other \notin {owner[s] : s \in QueueSlots}
Others(own) ==
    /\ own # "heap" => UNCHANGED HeapVars
    /\ own \notin {"paging", "acpi"} => UNCHANGED PagingVars
    /\ own # "acpi" => UNCHANGED AcpiVars
    /\ own # "exec" => UNCHANGED ExecVars
    /\ own # "calls" => UNCHANGED SyscallVars
    /\ own # "ipc" => UNCHANGED IpcVars
    /\ own # "memfs" => UNCHANGED MemFsVars
Next ==
    /\ UNCHANGED focus
    /\ \/ focus = "heap" /\ HeapNext /\ Others("heap")
       \/ focus = "paging" /\ PagingNext /\ Others("paging")
       \/ focus = "acpi" /\ AcpiNext /\ Others("acpi")
       \/ focus = "exec" /\ ExecNext /\ Others("exec")
       \/ focus = "keyboard" /\ KeyboardNext /\ Others("calls")
       \/ focus = "calls" /\ DescriptorNext /\ Others("calls")
       \/ focus = "queues" /\ QueueNext /\ Others("ipc")
       \/ focus = "mutex" /\ MutexNext /\ Others("ipc")
       \/ focus = "tree" /\ TreeNext /\ Others("memfs")
       \/ focus = "dev" /\ DevNext /\ Others("memfs")
Spec == Init /\ [][Next]_vars
TypeOK ==
    /\ HeapTypeOK /\ PagingTypeOK /\ AcpiTypeOK
    /\ ExecTypeOK /\ SyscallsTypeOK /\ IpcTypeOK /\ MemFsTypeOK
=============================================================================
