----------------------------- MODULE MCServices -----------------------------
(* Disks, partition tables, the terminal, the editor, the drivers and the     *)
(* serial ports share a run: a behaviour exercises one of them and leaves the others in one        *)
(* initial state.                                                             *)
EXTENDS BlockLayer, Ahci, Partitions, Console, Editor, Drivers, Serial, TLC
VARIABLE focus
Layout(a, b, c) == (0 :> a) @@ (1 :> b) @@ (2 :> c) @@ (3 :> "none")
MCLayouts == {Layout("disk", "none", "none"), Layout("disk", "cdrom", "disk"),
              Layout("cdrom", "none", "disk"), Layout("none", "disk", "none")}
Fat(start, count) == [type |-> "fat", start |-> start, count |-> count]
Table(entries) == [sig |-> TRUE, fat |-> FALSE, tab |-> entries @@ NoTable]
SuperFloppy == [sig |-> FALSE, fat |-> TRUE, tab |-> NoTable]
MCFirst == {SuperFloppy, Table(1 :> Fat(1, 3)), Table((1 :> Fat(2, 2)) @@ (3 :> Fat(5, 2))),
            Table((1 :> Fat(0, 0)) @@ (2 :> Fat(4, 2))), Table((1 :> Fat(3, 3)) @@ (2 :> Fat(5, 12))),
            [SuperFloppy EXCEPT !.tab[2] = Fat(2, 2)]}
MCFiles == {<<1, 0>>, <<3, 1, 0, 1>>}
MCDevices == <<"pci", "keyboard", "serial", "net", "ide">>
MCLayoutFiles == {[name |-> n, magic |-> m] : n \in {"es", "fr"}, m \in BOOLEAN}
                     \cup {[name |-> "us", magic |-> TRUE]}
Others(own) ==
    /\ own # "blk" => UNCHANGED BlkVars
    /\ own # "ahci" => UNCHANGED AhciVars
    /\ own # "part" => UNCHANGED PartitionVars
    /\ own # "console" => UNCHANGED ConsoleVars
    /\ own # "editor" => UNCHANGED EditorVars
    /\ own # "drivers" => UNCHANGED DriverVars
    /\ own # "serial" => UNCHANGED SerialVars
Init ==
    /\ focus \in {"blk", "ahci", "part", "console", "editor", "drivers", "serial"}
    /\ BlkInit /\ AhciInit /\ PartitionsInit /\ ConsoleInit /\ EditorInit /\ DriversInit /\ SerialInit
    /\ focus # "blk" => hw = [ide |-> Layout("none", "disk", "none"), sata |-> {}, media |-> FALSE]
    /\ focus # "ahci" => \A p \in HbaPorts : hba[p].dev = "none"
    /\ focus # "part" => sector0 = SuperFloppy
    /\ focus # "editor" => file = <<1, 0>> /\ ~excused /\ ed.last = "none"
Next ==
    /\ UNCHANGED focus
    /\ \/ focus = "blk" /\ BlkNext /\ Others("blk")
       \/ focus = "ahci" /\ AhciNext /\ Others("ahci")
       \/ focus = "part" /\ PartitionsNext /\ Others("part")
       \/ focus = "console" /\ ConsoleNext /\ Others("console")
       \/ focus = "editor" /\ EditorNext /\ Others("editor")
       \/ focus = "drivers" /\ DriversNext /\ Others("drivers")
       \/ focus = "serial" /\ SerialNext /\ Others("serial")
vars == <<BlkVars, AhciVars, PartitionVars, ConsoleVars, EditorVars, DriverVars, SerialVars, focus>>
Spec == Init /\ [][Next]_vars
\* The terminal's fields that no later step or property reads: what is painted once
\* the ring has dropped a line, which only a clear undoes, and it paints every row;
\* and where the history stood before it is browsed.
SeenCon == IF con.b.wrapped THEN [con EXCEPT !.shown = {}, !.raced = {}] ELSE con
SeenLine == IF line.browsing THEN line ELSE [line EXCEPT !.saved = 0, !.current = 0]
View == IF focus = "console" THEN <<focus, SeenCon, paint, SeenLine, strayed>> ELSE vars
TypeOK ==
    /\ BlkTypeOK /\ AhciTypeOK /\ PartitionsTypeOK
    /\ ConsoleTypeOK /\ EditorTypeOK /\ DriversTypeOK /\ SerialTypeOK
=============================================================================
