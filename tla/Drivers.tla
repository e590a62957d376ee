------------------------------ MODULE Drivers ------------------------------
(***************************************************************************)
(* The driver system (driver_system.c): the registry of driver types, the    *)
(* list of instances with their life cycle, the loading of data files, and   *)
(* the keyboard driver's layouts (keyboard.c), the one driver that loads     *)
(* them.                                                                     *)
(*                                                                           *)
(* The boot code creates each driver once; later calls come from the         *)
(* keyboard interrupt and from SYSCALL_IOCTL, with interrupts disabled, so   *)
(* each is one step.  Allocations are counted the way the code makes and     *)
(* returns them on each of its paths; files are read and closed within a     *)
(* step.                                                                     *)
(***************************************************************************)
EXTENDS Integers, Sequences, SequencesExt, FiniteSets

CONSTANTS
    Devices,              \* drivers the boot code creates, in this order
    LateTypes,            \* drivers whose type kernel.c registers itself
    DRIVER_MAX_TYPES,
    KEYBOARD_MAX_LAYOUTS,
    LayoutFiles           \* layout files: [name, magic] of each

ASSUME DriversAssumption ==
    /\ Devices \in Seq(STRING)
    /\ DRIVER_MAX_TYPES \in Nat
    /\ KEYBOARD_MAX_LAYOUTS \in Nat \ {0}

VARIABLES
    registry,   \* type_registry: the registered types
    instances,  \* driver_list, newest first: [type, state]
    kbd,        \* the keyboard driver's data, and the pointer cached to it
    live,       \* allocations not yet freed
    booted      \* how many of Devices the boot code has dealt with

DriverVars == <<registry, instances, kbd, live, booted>>

Default == "us"
NoData == [cached |-> FALSE, list |-> FALSE, layouts |-> <<>>, current |-> "none"]

Kinds == {Devices[i] : i \in 1..Len(Devices)}
Find(type) == SelectInSeq(instances, LAMBDA d : d.type = type)

---------------------------------------------------------------------------
(* Types and instances.                                                    *)

\* driver_register_type refuses a full registry and a type it knows.
RegisterType(types, t) ==
    IF Len(types) >= DRIVER_MAX_TYPES \/ t \in ToSet(types) THEN types ELSE Append(types, t)

\* driver_system_init registers the built-in types.
DriversInit ==
    LET reg[i \in 0..Len(Devices)] ==
            IF i = 0 THEN <<>>
            ELSE LET known == reg[i - 1]
                 IN  IF Devices[i] \in LateTypes THEN known ELSE RegisterType(known, Devices[i])
    IN  /\ registry = reg[Len(Devices)]
        /\ instances = <<>> /\ kbd = NoData /\ live = 0 /\ booted = 0

\* The states an instance may be in after driver_init and driver_start, each
\* of which may fail.
DriverStates == {"ACTIVE", "ERROR"}

\* keyboard_driver_init: the table of layouts with the default in it, or no
\* table at all.
KeyboardData(ok) ==
    [cached |-> TRUE, list |-> ok, layouts |-> IF ok THEN <<Default>> ELSE <<>>,
     current |-> IF ok THEN Default ELSE "none"]

\* driver_create, driver_init and driver_start: a type that is known, a name
\* that is new, the instance and its private data allocated; what fails after
\* that leaves the instance in the list.
CreateAndStart(type) ==
    /\ type \in ToSet(registry') /\ Find(type) = 0
    /\ \E state \in DriverStates :
          LET table == type = "keyboard" /\ state = "ACTIVE" IN
          /\ instances' = <<[type |-> type, state |-> state]>> \o instances
          /\ kbd' = IF type = "keyboard" THEN KeyboardData(state = "ACTIVE") ELSE kbd
          /\ live' = live + 2 + (IF table THEN 1 ELSE 0)

\* The boot code deals with its next driver; an allocation may fail.
BootDriver ==
    /\ booted < Len(Devices)
    /\ LET type == Devices[booted + 1] IN
       /\ registry' = IF type \in LateTypes THEN RegisterType(registry, type) ELSE registry
       /\ CreateAndStart(type) \/ UNCHANGED <<instances, live, kbd>>
    /\ booted' = booted + 1

---------------------------------------------------------------------------
(* Layouts.                                                                *)

\* add_layout: a free place and a name of its own.
MayAdd(name) ==
    /\ kbd.list
    /\ Len(kbd.layouts) < KEYBOARD_MAX_LAYOUTS
    /\ name \notin ToSet(kbd.layouts)

\* Fault: a layout that is refused is not freed.
LoadPathsFault(f) ==
    {[kept |-> FALSE, live |-> 0]}
    \cup IF f.magic THEN {[kept |-> MayAdd(f.name), live |-> 1]} ELSE {}

\* driver_load_binary_file reads the file twice, once for its size, and
\* keyboard_load_layout_from_data checks the magic number, copies the layout
\* and adds it.  What each path leaves allocated, and whether the layout is
\* in the table: a read, an allocation or a check may fail on the way.
LoadPaths(f) ==
    {[kept |-> FALSE, live |-> 0]}
    \cup IF f.magic
         THEN {[kept |-> MayAdd(f.name), live |-> IF MayAdd(f.name) THEN 1 ELSE 0]}
         ELSE {}

\* keyboard_load_layout (and KBD_IOCTL_LOAD_LAYOUT, which does not select the
\* layout).
LoadLayout ==
    /\ kbd.cached /\ booted <= Len(Devices)
    /\ \E f \in LayoutFiles : \E p \in LoadPaths(f), select \in BOOLEAN :
          /\ live' = live + p.live
          /\ kbd' = IF ~p.kept THEN kbd
                    ELSE [kbd EXCEPT !.layouts = Append(@, f.name),
                                     !.current = IF select THEN f.name ELSE @]
    /\ UNCHANGED <<registry, instances, booted>>

\* keyboard_driver_set_layout: only a layout in the table.
SetLayout(name) ==
    /\ name \in ToSet(kbd.layouts)
    /\ kbd' = [kbd EXCEPT !.current = name]

ChooseLayout ==
    /\ kbd.cached /\ booted <= Len(Devices)
    /\ \E f \in LayoutFiles \cup {[name |-> Default, magic |-> TRUE]} : SetLayout(f.name)
    /\ UNCHANGED <<registry, instances, live, booted>>

\* Any keyboard call that finds no instance creates one (get_keyboard_driver).
CreateKeyboard ==
    /\ ~kbd.cached /\ booted = Len(Devices)
    /\ UNCHANGED <<registry, booted>>
    /\ CreateAndStart("keyboard")

\* What the clean-up of an instance frees: the driver's own memory, its
\* private data and the instance.  The default layout is not allocated.
FreedByCleanup(d) ==
    2 + (IF d.type = "keyboard"
         THEN Cardinality({i \in 1..Len(kbd.layouts) : kbd.layouts[i] # Default})
              + (IF kbd.list THEN 1 ELSE 0)
         ELSE 0)

\* driver_system_cleanup, when the machine is switched off: every instance is
\* stopped, cleaned up and freed and the registry emptied.  The keyboard's
\* cached pointer stays.
DriverCleanup ==
    /\ booted = Len(Devices)
    /\ LET freed[i \in 0..Len(instances)] ==
              IF i = 0 THEN 0 ELSE freed[i - 1] + FreedByCleanup(instances[i])
       IN  live' = live - freed[Len(instances)]
    /\ instances' = <<>> /\ registry' = <<>>
    /\ kbd' = [NoData EXCEPT !.cached = kbd.cached]
    /\ booted' = Len(Devices) + 1

DriversNext == BootDriver \/ LoadLayout \/ ChooseLayout \/ CreateKeyboard \/ DriverCleanup

DriversSpec == DriversInit /\ [][DriversNext]_DriverVars

---------------------------------------------------------------------------
(* Properties.                                                             *)

DriversTypeOK ==
    /\ registry \in Seq(Kinds) /\ Len(registry) <= DRIVER_MAX_TYPES
    /\ \A i \in 1..Len(instances) : instances[i].type \in Kinds /\ instances[i].state \in DriverStates
    /\ Len(kbd.layouts) <= KEYBOARD_MAX_LAYOUTS
    /\ live \in Nat /\ booted \in 0..(Len(Devices) + 1)

\* The layout the keyboard interrupt maps its scancodes with is one of the
\* table, whose names are distinct, and every allocation belongs to an
\* instance, the table or a layout in it: a load that fails half-way leaves
\* nothing behind, and the clean-up gives everything back (driver_create,
\* keyboard_load_layout_from_data, driver_system_cleanup).
LayoutsOwned ==
    /\ IF kbd.list THEN kbd.current \in ToSet(kbd.layouts) ELSE kbd.current = "none"
    /\ IsInjective(kbd.layouts)
    /\ live = 2 * Len(instances)
              + (IF kbd.list THEN Len(kbd.layouts) ELSE 0)

=============================================================================
