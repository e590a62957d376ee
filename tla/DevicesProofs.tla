---------------------------- MODULE DevicesProofs ----------------------------
(***************************************************************************)
(* Proofs about the devices: the AHCI driver with its disks and its buffers *)
(* (Ahci), for any number of ports, slots, buffers and sectors, the serial  *)
(* ports (Serial), for any sizes of their rings, the block device layer     *)
(* (BlockLayer), for any drives, sizes, chunks and partition, the driver     *)
(* system with the keyboard layouts (Drivers), for any devices and files,    *)
(* and the partition tables (Partitions), for any disk, alignment and sizes. *)
(***************************************************************************)
EXTENDS Ahci, Serial, BlockLayer, Drivers, Partitions, Lemmas

CmdSet == [op : {"none", "idle", "identify", "read", "write"}, lba : Lbas \cup {"none"},
           buf : {"none", "io", "caller"}]
PortRec == [present : BOOLEAN, type : {"none", "disk", "cd"}, init : BOOLEAN,
            bufs : SUBSET (1 .. PoolSize), busy : SUBSET Slots]
HbaRec == [dev : {"none", "disk", "cd"}, run : BOOLEAN, tfes : BOOLEAN, ci : SUBSET Slots]
Phases == {"start", "init", "setup", "spin", "alloc", "identify", "identified", "giveup",
           "poll", "run", "ret", "off", "none"}
CallRec == [st : Phases \ {"none"}, port : HbaPorts, slot : Slots, then : Phases \ {"off"}, tries : Nat,
            pass : {1, 2}, ok : BOOLEAN, buf : SUBSET (1 .. PoolSize)]
DiskRec == [port : HbaPorts, buf : SUBSET (1 .. PoolSize)]

AhciTyped ==
    /\ dpool \subseteq 1 .. PoolSize
    /\ ahci \in [HbaPorts -> PortRec]
    /\ hba \in [HbaPorts -> HbaRec]
    /\ table \in [HbaPorts -> [Slots -> CmdSet]]
    /\ issued \in [HbaPorts -> [Slots -> CmdSet]]
    /\ sata \in Seq(DiskRec)
    /\ call \in CallRec

(* Buffers that are allocated and nobody's yet. *)
Apart(b) ==
    /\ b \subseteq dpool
    /\ \A p \in Ready : b \cap ahci[p].bufs = {}
    /\ \A i \in DOMAIN sata : b \cap sata[i].buf = {}

(* The setup of a disk holds a buffer from its allocation until the disk is *)
(* entered or given up, the waits in between included.                      *)
Pending ==
    \/ call.st \in {"identify", "identified", "giveup"}
    \/ call.st = "spin" /\ call.tries = Tries
    \/ call.st = "poll" /\ call.then \in {"identified", "giveup"}

AhciInv ==
    /\ AhciTyped
    /\ TableIsIssued
    /\ call.st = "poll" => call.then \in {"alloc", "giveup", "identified", "ret"}
    /\ BuffersOwned
    /\ Pending => Apart(call.buf)

(* The slots are some numbers, 0 among them. *)
LEMMA SlotsFacts == Slots \subseteq Nat /\ 0 \in Slots /\ -1 \notin Slots
BY AhciAssumption DEF Slots

(* The next port is a port. *)
LEMMA MinPort == ASSUME NEW S \in SUBSET HbaPorts, S # {} PROVE Min(S) \in S
BY AhciAssumption, MinNat

(* A slot that is found is idle on the adapter's side. *)
LEMMA SlotFound ==
    ASSUME NEW p, FindCmdslot(p) # -1
    PROVE  FindCmdslot(p) \in Slots /\ FindCmdslot(p) \notin hba[p].ci
<1> DEFINE free == Slots \ (hba[p].ci \cup ahci[p].busy)
<1>1. free # {} /\ FindCmdslot(p) = Min(free)
  BY DEF FindCmdslot
<1>2. Min(free) \in free
  BY <1>1, SlotsFacts, MinNat
<1> QED BY <1>1, <1>2

(* The records of calls: what an assignment to some fields leaves. *)
LEMMA AtFields ==
    ASSUME call \in CallRec, NEW st \in Phases \ {"none"}, NEW port \in HbaPorts
    PROVE  /\ At(st, port) \in CallRec
           /\ At(st, port).st = st /\ At(st, port).tries = 0 /\ At(st, port).then = call.then
<1> HIDE DEF Phases
<1> QED BY DEF At, CallRec

(* The same for the phase alone. *)
LEMMA StFields ==
    ASSUME call \in CallRec, NEW st \in Phases \ {"none"}
    PROVE  /\ [call EXCEPT !.st = st] \in CallRec
           /\ [call EXCEPT !.st = st].st = st /\ [call EXCEPT !.st = st].then = call.then
           /\ [call EXCEPT !.st = st].buf = call.buf
<1> HIDE DEF Phases
<1>2. [call EXCEPT !.st = st] \in CallRec
  BY DEF CallRec
<1>3. /\ [call EXCEPT !.st = st].st = st /\ [call EXCEPT !.st = st].then = call.then
      /\ [call EXCEPT !.st = st].buf = call.buf
  BY DEF CallRec
<1> QED BY <1>2, <1>3

(* Going on to the next port. *)
LEMMA NextPortLemma ==
    ASSUME call \in CallRec, NEW disks
    PROVE  /\ NextPort(disks) \in CallRec /\ NextPort(disks).st \in {"setup", "run"}
           /\ NextPort(disks).then = call.then
<1> DEFINE later == {q \in HbaPorts : q > call.port}
<1>0. call.port \in HbaPorts
  BY DEF CallRec
<1>1. CASE later # {}
  <2>1. Min(later) \in HbaPorts
    BY <1>1, MinPort
  <2>2. NextPort(disks) = At("setup", Min(later))
    BY <1>1 DEF NextPort
  <2>3. "setup" \in Phases \ {"none"}
    BY DEF Phases
  <2>4. /\ At("setup", Min(later)) \in CallRec /\ At("setup", Min(later)).st = "setup"
        /\ At("setup", Min(later)).then = call.then
    BY <2>1, <2>3, AtFields
  <2> QED BY <2>2, <2>4
<1>2. CASE later = {} /\ disks = <<>> /\ call.pass = 1
  <2> DEFINE c == At("setup", FirstPort)
  <2>1. FirstPort \in HbaPorts
    BY AhciAssumption, MinPort DEF FirstPort
  <2>2. NextPort(disks) = [c EXCEPT !.pass = 2]
    BY <1>2 DEF NextPort
  <2>3. c \in CallRec /\ c.st = "setup" /\ c.then = call.then
    BY <2>1, AtFields DEF Phases
  <2> HIDE DEF c
  <2>4. [c EXCEPT !.pass = 2] \in CallRec /\ [c EXCEPT !.pass = 2].st = c.st /\ [c EXCEPT !.pass = 2].then = c.then
    BY <2>3 DEF CallRec
  <2> QED BY <2>2, <2>3, <2>4
<1>3. CASE later = {} /\ ~(disks = <<>> /\ call.pass = 1)
  <2>1. NextPort(disks) = At("run", call.port)
    BY <1>3 DEF NextPort
  <2>3. "run" \in Phases \ {"none"}
    BY DEF Phases
  <2>4. /\ At("run", call.port) \in CallRec /\ At("run", call.port).st = "run"
        /\ At("run", call.port).then = call.then
    BY <1>0, <2>3, AtFields
  <2> QED BY <2>1, <2>4
<1> QED BY <1>1, <1>2, <1>3

(* The buffers n calls of dma_alloc_buffer return were free. *)
LEMMA LowestFree == \A n : Lowest(n) \subseteq 1 .. PoolSize /\ Lowest(n) \cap dpool = {}
BY DEF Lowest, FreeBuffers

(* A step that leaves the buffers where they are. *)
LEMMA SameBuffers ==
    ASSUME AhciInv, dpool' = dpool, sata' = sata, call.st = "off" => call'.st = "off",
           \A p \in HbaPorts : ahci'[p].init = ahci[p].init /\ ahci'[p].bufs = ahci[p].bufs
    PROVE  BuffersOwned' /\ \A b : Apart(b) => Apart(b)'
<1>1. Ready' = Ready
  BY DEF Ready
<1>2. \A p \in Ready : p \in HbaPorts /\ ahci'[p].bufs = ahci[p].bufs
  BY DEF Ready
<1>3. BuffersOwned'
  BY <1>1, <1>2 DEF BuffersOwned, AhciInv
<1>4. ASSUME NEW b, Apart(b) PROVE Apart(b)'
  BY <1>1, <1>2, <1>4 DEF Apart
<1> QED BY <1>3, <1>4

(* Boot. *)
LEMMA InitAhci == AhciInit => AhciInv
<1> SUFFICES ASSUME AhciInit PROVE AhciInv
  OBVIOUS
<1>1. FirstPort \in HbaPorts
  BY AhciAssumption, MinPort DEF FirstPort
<1>2. call.st = "start" /\ call.then = "none"
  BY DEF AhciInit
<1>3. call \in CallRec
  BY <1>1, SlotsFacts DEF AhciInit, CallRec, Phases
<1>4. NoCmd \in CmdSet
  BY DEF NoCmd, CmdSet
<1>5. table \in [HbaPorts -> [Slots -> CmdSet]] /\ issued = table
  BY <1>4 DEF AhciInit
<1>6. NoPort \in PortRec /\ NoPort.init = FALSE
  BY DEF NoPort, PortRec
<1>7. ahci \in [HbaPorts -> PortRec] /\ Ready = {}
  BY <1>6 DEF AhciInit, Ready
<1>8. hba \in [HbaPorts -> HbaRec]
  BY DEF AhciInit, HbaRec
<1>9. sata = <<>> /\ sata \in Seq(DiskRec) /\ dpool = {}
  BY DEF AhciInit
<1>10. AhciTyped
  BY <1>3, <1>5, <1>7, <1>8, <1>9 DEF AhciTyped
<1>11. TableIsIssued
  BY <1>5 DEF TableIsIssued
<1>12. BuffersOwned
  BY <1>7, <1>9 DEF BuffersOwned
<1> QED BY <1>2, <1>10, <1>11, <1>12 DEF AhciInv, Pending

(* A command is sent: the slot is idle, so no table the adapter works on is *)
(* touched, and the buffers stay where they are.                            *)
LEMMA SendStep ==
    ASSUME AhciInv, NEW p \in HbaPorts, FindCmdslot(p) # -1, NEW cmd \in CmdSet,
           NEW then \in {"alloc", "giveup", "identified", "ret"}, SendCommand(p, FindCmdslot(p), cmd, then),
           then \in {"identified", "giveup"} => Pending, call.st # "off"
    PROVE  AhciInv'
<1>1. PICK slot : slot = FindCmdslot(p)
  OBVIOUS
<1>2. slot \in Slots /\ slot \notin hba[p].ci
  BY <1>1, SlotFound
<1>3. SendCommand(p, slot, cmd, then)
  BY <1>1
<1>4. /\ table' = [table EXCEPT ![p][slot] = cmd] /\ issued' = [issued EXCEPT ![p][slot] = cmd]
      /\ ahci' = [ahci EXCEPT ![p].busy = @ \cup {slot}]
      /\ hba' = [hba EXCEPT ![p].ci = @ \cup {slot}]
      /\ call' = [call EXCEPT !.st = "poll", !.slot = slot, !.then = then]
      /\ dpool' = dpool /\ sata' = sata
  BY <1>2, <1>3 DEF SendCommand
<1>t. AhciTyped
  BY DEF AhciInv
<1>5. table' \in [HbaPorts -> [Slots -> CmdSet]] /\ issued' \in [HbaPorts -> [Slots -> CmdSet]]
  BY <1>2, <1>4, <1>t DEF AhciTyped
<1>6. \A q \in HbaPorts : \A j \in Slots : (q = p /\ j = slot) \/ (table'[q][j] = table[q][j] /\ issued'[q][j] = issued[q][j])
  BY <1>2, <1>4, <1>t DEF AhciTyped
<1>7. table'[p][slot] = issued'[p][slot]
  BY <1>2, <1>4, <1>t DEF AhciTyped
<1>8. hba' \in [HbaPorts -> HbaRec]
  BY <1>2, <1>4, <1>t DEF AhciTyped, HbaRec
<1>8a. hba'[p].ci = hba[p].ci \cup {slot} /\ \A q \in HbaPorts : q # p => hba'[q].ci = hba[q].ci
  BY <1>4, <1>t DEF AhciTyped, HbaRec
<1>8b. \A q \in HbaPorts : hba'[q].ci \subseteq Slots
  BY <1>8 DEF HbaRec
<1>9a. ahci' \in [HbaPorts -> PortRec]
  BY <1>2, <1>4, <1>t DEF AhciTyped, PortRec
<1>9. \A q \in HbaPorts : ahci'[q].init = ahci[q].init /\ ahci'[q].bufs = ahci[q].bufs
  BY <1>4, <1>t DEF AhciTyped, PortRec
<1>10. call' \in CallRec /\ call'.st = "poll" /\ call'.then = then /\ call'.buf = call.buf
  <2>1. "poll" \in Phases \ {"none"} /\ then \in Phases \ {"off"}
    BY DEF Phases
  <2> HIDE DEF Phases
  <2>2. call' \in CallRec
    BY <2>1, <1>2, <1>4, <1>t DEF AhciTyped, CallRec
  <2>3. call'.st = "poll" /\ call'.then = then /\ call'.buf = call.buf
    BY <1>4, <1>t DEF AhciTyped, CallRec
  <2> QED BY <2>2, <2>3
<1>11. AhciTyped'
  BY <1>4, <1>5, <1>8, <1>9a, <1>10, <1>t DEF AhciTyped
<1>12. TableIsIssued'
  <2> SUFFICES ASSUME NEW q \in HbaPorts, NEW j \in hba'[q].ci PROVE table'[q][j] = issued'[q][j]
    BY DEF TableIsIssued
  <2>1. j \in Slots
    BY <1>8b
  <2>2. CASE q = p /\ j = slot
    BY <2>2, <1>7
  <2>3. CASE ~(q = p /\ j = slot)
    <3>1. j \in hba[q].ci
      BY <2>3, <1>8a
    <3>2. table[q][j] = issued[q][j]
      BY <3>1 DEF AhciInv, TableIsIssued
    <3> QED BY <3>2, <2>1, <2>3, <1>6
  <2> QED BY <2>2, <2>3
<1>13. BuffersOwned' /\ \A b : Apart(b) => Apart(b)'
  BY <1>4, <1>9, SameBuffers
<1>14. Pending' => Pending
  BY <1>10 DEF Pending
<1>15. Pending' => Apart(call.buf)'
  BY <1>10, <1>13, <1>14 DEF AhciInv
<1> QED BY <1>10, <1>11, <1>12, <1>13, <1>15 DEF AhciInv

(* The wait ends, whatever the reason. *)
LEMMA WaitStep ==
    ASSUME AhciInv, NEW ok \in BOOLEAN, call.st = "poll", Waited(ok)
    PROVE  AhciInv'
<1>t. AhciTyped
  BY DEF AhciInv
<1>0. call.port \in HbaPorts /\ call.slot \in Slots
  BY <1>t DEF AhciTyped, CallRec
<1>n. call.then \in {"alloc", "giveup", "identified", "ret"} /\ call.then \in Phases \ {"none"}
  BY DEF AhciInv, Phases
<1>1. /\ ahci' = [ahci EXCEPT ![call.port].busy = @ \ {call.slot}]
      /\ call' = [call EXCEPT !.st = call.then, !.ok = ok, !.slot = 0, !.then = "none"]
      /\ table' = table /\ issued' = issued /\ dpool' = dpool /\ sata' = sata
  BY DEF Waited
<1>2a. ahci' \in [HbaPorts -> PortRec]
  <2>1. PICK p \in HbaPorts, B \in SUBSET Slots :
          p = call.port /\ B = ahci[call.port].busy \ {call.slot}
    BY <1>0, <1>t DEF AhciTyped, PortRec
  <2>2. ahci' = [ahci EXCEPT ![p].busy = B]
    BY <1>1, <2>1
  <2>3. B \in SUBSET Slots
    BY <2>1, <1>t DEF AhciTyped, PortRec
  <2> QED BY <2>2, <2>3, <1>t DEF AhciTyped, PortRec
<1>2. \A q \in HbaPorts : ahci'[q].init = ahci[q].init /\ ahci'[q].bufs = ahci[q].bufs
  BY <1>0, <1>1, <1>t DEF AhciTyped, PortRec
<1>3. hba' \in [HbaPorts -> HbaRec] /\ \A q \in HbaPorts : hba'[q].ci = hba[q].ci
  <2>1. CASE ok
    <3>1. hba' = [hba EXCEPT ![call.port].tfes = FALSE]
      BY <2>1 DEF Waited
    <3>2. hba' \in [HbaPorts -> HbaRec]
      BY <3>1, <1>0, <1>t DEF AhciTyped, HbaRec
    <3>3. \A q \in HbaPorts : hba'[q].ci = hba[q].ci
      BY <3>1, <1>0, <1>t DEF AhciTyped, HbaRec
    <3> QED BY <3>2, <3>3
  <2>2. CASE ~ok
    BY <2>2, <1>t DEF Waited, AhciTyped
  <2> QED BY <2>1, <2>2
<1>4. call' \in CallRec /\ call'.st = call.then /\ call'.then = "none" /\ call'.buf = call.buf
  <2>1. "none" \in Phases \ {"off"} /\ 0 \in Slots
    BY SlotsFacts DEF Phases
  <2> HIDE DEF Phases
  <2>2. call' \in CallRec
    BY <2>1, <1>0, <1>n, <1>1, <1>t DEF AhciTyped, CallRec
  <2>3. call'.st = call.then /\ call'.then = "none" /\ call'.buf = call.buf
    BY <1>1, <1>t DEF AhciTyped, CallRec
  <2> QED BY <2>2, <2>3
<1>5. AhciTyped'
  BY <1>1, <1>2a, <1>3, <1>4, <1>t DEF AhciTyped
<1>6. TableIsIssued'
  BY <1>1, <1>3 DEF AhciInv, TableIsIssued
<1>7. BuffersOwned' /\ \A b : Apart(b) => Apart(b)'
  BY <1>1, <1>2, SameBuffers
<1>8. Pending' => Pending
  BY <1>4, <1>n DEF Pending
<1>9. Pending' => Apart(call.buf)'
  BY <1>4, <1>7, <1>8 DEF AhciInv
<1> QED BY <1>4, <1>5, <1>6, <1>7, <1>9 DEF AhciInv

(* The adapter completes a command or stops over an error. *)
LEMMA HbaStep ==
    ASSUME AhciInv, NEW p \in HbaPorts, NEW s \in Slots, HbaComplete(p, s) \/ HbaError(p, s)
    PROVE  AhciInv'
<1>t. AhciTyped
  BY DEF AhciInv
<1>0. dpool' = dpool /\ ahci' = ahci /\ sata' = sata /\ call' = call
  BY DEF HbaComplete, HbaError
<1>1. BuffersOwned' /\ \A b : Apart(b) => Apart(b)'
  BY <1>0, SameBuffers
<1>2. Pending' => Apart(call.buf)'
  BY <1>0, <1>1 DEF AhciInv, Pending
<1>3. CASE HbaComplete(p, s)
  <2>0. /\ hba' = [hba EXCEPT ![p].ci = @ \ {s}]
        /\ table' = [table EXCEPT ![p][s] = NoCmd]
        /\ issued' = [issued EXCEPT ![p][s] = NoCmd]
    BY <1>3 DEF HbaComplete
  <2>1. hba' \in [HbaPorts -> HbaRec]
    <3>1. PICK C : C = hba[p].ci \ {s}
      OBVIOUS
    <3>2. hba' = [hba EXCEPT ![p].ci = C]
      BY <2>0, <3>1
    <3>3. C \in SUBSET Slots
      BY <3>1, <1>t DEF AhciTyped, HbaRec
    <3> QED BY <3>2, <3>3, <1>t DEF AhciTyped, HbaRec
  <2>2. hba'[p].ci = hba[p].ci \ {s} /\ \A q \in HbaPorts : q # p => hba'[q].ci = hba[q].ci
    BY <2>0, <1>t DEF AhciTyped, HbaRec
  <2>3. NoCmd \in CmdSet
    BY DEF NoCmd, CmdSet
  <2>4. table' \in [HbaPorts -> [Slots -> CmdSet]] /\ issued' \in [HbaPorts -> [Slots -> CmdSet]]
    BY <2>0, <2>3, <1>t DEF AhciTyped
  <2>5. \A q \in HbaPorts : \A j \in Slots :
          (q = p /\ j = s) \/ (table'[q][j] = table[q][j] /\ issued'[q][j] = issued[q][j])
    BY <2>0, <2>3, <1>t DEF AhciTyped
  <2>6. \A q \in HbaPorts : hba'[q].ci \subseteq Slots
    BY <2>1 DEF HbaRec
  <2>7. TableIsIssued'
    <3> SUFFICES ASSUME NEW q \in HbaPorts, NEW j \in hba'[q].ci PROVE table'[q][j] = issued'[q][j]
      BY DEF TableIsIssued
    <3>1. j \in hba[q].ci /\ ~(q = p /\ j = s)
      BY <2>2
    <3>2. table[q][j] = issued[q][j] /\ j \in Slots
      BY <3>1, <2>6 DEF AhciInv, TableIsIssued
    <3> QED BY <3>1, <3>2, <2>5
  <2>8. AhciTyped'
    BY <2>1, <2>4, <1>0, <1>t DEF AhciTyped
  <2> QED BY <2>7, <2>8, <1>0, <1>1, <1>2 DEF AhciInv
<1>4. CASE HbaError(p, s)
  <2>0. hba' = [hba EXCEPT ![p].run = FALSE, ![p].tfes = TRUE] /\ table' = table /\ issued' = issued
    BY <1>4 DEF HbaError
  <2>1. hba' \in [HbaPorts -> HbaRec]
    BY <2>0, <1>t DEF AhciTyped, HbaRec
  <2>2. \A q \in HbaPorts : hba'[q].ci = hba[q].ci
    BY <2>0, <1>t DEF AhciTyped, HbaRec
  <2>3. AhciTyped'
    BY <2>0, <2>1, <1>0, <1>t DEF AhciTyped
  <2>4. TableIsIssued'
    BY <2>0, <2>2 DEF AhciInv, TableIsIssued
  <2> QED BY <2>3, <2>4, <1>0, <1>1, <1>2 DEF AhciInv
<1> QED BY <1>3, <1>4

(* A step of the driver's control alone. *)
LEMMA ControlStep ==
    ASSUME AhciInv, UNCHANGED <<dpool, ahci, hba, table, issued, sata>>,
           call' \in CallRec, call'.st # "poll", call.st = "off" => call'.st = "off",
           Pending' => Pending /\ call'.buf = call.buf
    PROVE  AhciInv'
<1>1. AhciTyped'
  BY DEF AhciInv, AhciTyped
<1>2. TableIsIssued'
  BY DEF AhciInv, TableIsIssued
<1>3. BuffersOwned' /\ \A b : Apart(b) => Apart(b)'
  BY SameBuffers
<1>4. Pending' => Apart(call.buf)'
  BY <1>3 DEF AhciInv
<1> QED BY <1>1, <1>2, <1>3, <1>4 DEF AhciInv

(* A port is initialised, or not. *)
LEMMA InitializeStep == ASSUME AhciInv, InitializePort PROVE AhciInv'
<1> DEFINE later == {q \in HbaPorts : q > call.port}
<1>t. AhciTyped
  BY DEF AhciInv
<1> DEFINE p == call.port
<1>p. p \in HbaPorts
  BY <1>t DEF AhciTyped, CallRec
<1>d. PICK dev \in PortDevice(p) :
        \/ (ahci' = [ahci EXCEPT ![p] = NoPort] /\ dpool' = dpool /\ hba' = hba)
        \/ \E k \in 0 .. PerPort - 1 :
             /\ ahci' = [ahci EXCEPT ![p] = [NoPort EXCEPT !.present = TRUE, !.type = dev, !.bufs = Lowest(k)]]
             /\ dpool' = dpool /\ hba' = hba
        \/ \E a \in AllocBuffers(PerPort), ok \in Started(p) :
             /\ dpool' = a.pool
             /\ ahci' = [ahci EXCEPT ![p] = [NoPort EXCEPT !.present = TRUE, !.type = dev, !.init = ok,
                                                           !.bufs = a.bufs]]
             /\ hba' = [hba EXCEPT ![p].run = ok]
  BY Zenon DEF InitializePort
<1>0. call.st = "init" /\ table' = table /\ issued' = issued /\ sata' = sata
  BY DEF InitializePort
<1>1. call' \in CallRec /\ call'.st \in {"init", "setup"} /\ call'.then = call.then /\ call'.tries = 0
  <2>1. CASE later # {}
    <3>1. call' = At("init", Min(later))
      BY <2>1 DEF InitializePort
    <3>2. Min(later) \in HbaPorts /\ "init" \in Phases \ {"none"}
      BY <2>1, MinPort DEF Phases
    <3>3. call' \in CallRec /\ call'.st = "init" /\ call'.then = call.then /\ call'.tries = 0
      BY <3>1, <3>2, <1>t, AtFields DEF AhciTyped
    <3> QED BY <3>3
  <2>2. CASE later = {}
    <3>1. call' = At("setup", FirstPort)
      BY <2>2 DEF InitializePort
    <3>2. FirstPort \in HbaPorts /\ "setup" \in Phases \ {"none"}
      BY AhciAssumption, MinPort DEF Phases, FirstPort
    <3>3. call' \in CallRec /\ call'.st = "setup" /\ call'.then = call.then /\ call'.tries = 0
      BY <3>1, <3>2, <1>t, AtFields DEF AhciTyped
    <3> QED BY <3>3
  <2> QED BY <2>1, <2>2
<1> HIDE DEF p
<1> DEFINE Good(rec) ==
        /\ rec \in PortRec /\ ahci' = [ahci EXCEPT ![p] = rec]
        /\ dpool' \subseteq 1 .. PoolSize /\ dpool \subseteq dpool'
        /\ rec.init => (rec.bufs \subseteq dpool' /\ rec.bufs \cap dpool = {})
        /\ hba' \in [HbaPorts -> HbaRec] /\ \A q \in HbaPorts : hba'[q].ci = hba[q].ci
<1>2. PICK rec : Good(rec)
  <2>2. dev \in {"none", "disk", "cd"}
    BY <1>t, <1>p DEF PortDevice, AhciTyped, HbaRec
  <2>3. CASE ahci' = [ahci EXCEPT ![p] = NoPort] /\ dpool' = dpool /\ hba' = hba
    <3>1. NoPort \in PortRec /\ NoPort.init = FALSE
      BY DEF NoPort, PortRec
    <3>2. Good(NoPort)
      BY <3>1, <2>3, <1>t, <1>p DEF AhciTyped
    <3> QED BY <3>2
  <2>4. ASSUME NEW k \in 0 .. PerPort - 1,
               ahci' = [ahci EXCEPT ![p] = [NoPort EXCEPT !.present = TRUE, !.type = dev, !.bufs = Lowest(k)]],
               dpool' = dpool, hba' = hba
        PROVE  \E rec : Good(rec)
    <3>1. PICK B : B = Lowest(k)
      OBVIOUS
    <3>2. B \in SUBSET (1 .. PoolSize)
      BY <3>1, LowestFree
    <3>3. PICK rec : rec = [NoPort EXCEPT !.present = TRUE, !.type = dev, !.bufs = B]
      OBVIOUS
    <3>4. rec \in PortRec /\ rec.init = FALSE
      BY <3>2, <3>3, <2>2 DEF NoPort, PortRec
    <3>5. ahci' = [ahci EXCEPT ![p] = rec]
      BY <3>1, <3>3, <2>4
    <3>6. Good(rec)
      BY <3>4, <3>5, <2>4, <1>t, <1>p DEF AhciTyped
    <3> QED BY <3>6
  <2>5. ASSUME NEW a \in AllocBuffers(PerPort), NEW ok \in Started(p),
               dpool' = a.pool,
               ahci' = [ahci EXCEPT ![p] = [NoPort EXCEPT !.present = TRUE, !.type = dev, !.init = ok,
                                                          !.bufs = a.bufs]],
               hba' = [hba EXCEPT ![p].run = ok]
        PROVE  \E rec : Good(rec)
    <3>0. ok \in BOOLEAN
      BY DEF Started, StartPort
    <3>1. PICK B : B = Lowest(PerPort)
      OBVIOUS
    <3>2. a.pool = dpool \cup B /\ a.bufs = B
      BY <3>1 DEF AllocBuffers
    <3>3. B \in SUBSET (1 .. PoolSize) /\ B \cap dpool = {}
      BY <3>1, LowestFree
    <3>4. PICK rec : rec = [NoPort EXCEPT !.present = TRUE, !.type = dev, !.init = ok, !.bufs = B]
      OBVIOUS
    <3>5. rec \in PortRec /\ rec.bufs = B
      BY <3>0, <3>3, <3>4, <2>2 DEF NoPort, PortRec
    <3>6. ahci' = [ahci EXCEPT ![p] = rec]
      BY <3>2, <3>4, <2>5
    <3>7. hba' \in [HbaPorts -> HbaRec]
      BY <3>0, <2>5, <1>t, <1>p DEF AhciTyped, HbaRec
    <3>8. \A q \in HbaPorts : hba'[q].ci = hba[q].ci
      BY <3>0, <2>5, <1>t, <1>p DEF AhciTyped, HbaRec
    <3>9. Good(rec)
      BY <3>2, <3>3, <3>5, <3>6, <3>7, <3>8, <2>5, <1>t, <1>p DEF AhciTyped
    <3> QED BY <3>9
  <2> QED BY <1>d, <2>3, <2>4, <2>5, Zenon
<1>3. AhciTyped'
  BY <1>0, <1>1, <1>2, <1>t, <1>p DEF AhciTyped
<1>4. TableIsIssued'
  BY <1>0, <1>2 DEF AhciInv, TableIsIssued
<1>5. ahci'[p] = rec /\ \A q \in HbaPorts : q # p => ahci'[q] = ahci[q]
  BY <1>2, <1>t, <1>p DEF AhciTyped
<1>6. BuffersOwned
  BY DEF AhciInv
<1>7. \A q \in Ready' : /\ q \in HbaPorts
                        /\ q = p => (rec.init /\ ahci'[q].bufs = rec.bufs)
                        /\ q # p => (q \in Ready /\ ahci'[q].bufs = ahci[q].bufs)
  BY <1>5 DEF Ready
<1>8. \A q \in Ready : ahci[q].bufs \subseteq dpool
  BY <1>0, <1>6 DEF BuffersOwned
<1>9. \A q \in Ready, q2 \in Ready : q # q2 => ahci[q].bufs \cap ahci[q2].bufs = {}
  BY <1>0, <1>6 DEF BuffersOwned
<1>10. \A i \in DOMAIN sata : sata[i].buf \subseteq dpool
  BY <1>0, <1>6 DEF BuffersOwned
<1>11. \A q \in Ready' : ahci'[q].bufs \subseteq dpool'
  BY <1>2, <1>7, <1>8
<1>12. ASSUME NEW q \in Ready', NEW q2 \in Ready', q # q2 PROVE ahci'[q].bufs \cap ahci'[q2].bufs = {}
  <2>1. CASE q = p
    BY <2>1, <1>2, <1>7, <1>8, <1>12
  <2>2. CASE q2 = p
    BY <2>2, <1>2, <1>7, <1>8, <1>12
  <2>3. CASE q # p /\ q2 # p
    BY <2>3, <1>7, <1>9, <1>12
  <2> QED BY <2>1, <2>2, <2>3
<1>13. ASSUME NEW i \in DOMAIN sata, NEW q \in Ready' PROVE sata[i].buf \cap ahci'[q].bufs = {}
  <2>1. CASE q = p
    BY <2>1, <1>2, <1>7, <1>10
  <2>2. CASE q # p
    <3>1. \A q2 \in Ready : sata[i].buf \cap ahci[q2].bufs = {}
      BY <1>0, <1>6 DEF BuffersOwned
    <3> QED BY <2>2, <3>1, <1>7
  <2> QED BY <2>1, <2>2
<1>14. \A i \in DOMAIN sata, j \in DOMAIN sata : i # j => sata[i].buf \cap sata[j].buf = {}
  BY <1>0, <1>6 DEF BuffersOwned
<1>15. \A i \in DOMAIN sata : sata[i].buf \subseteq dpool'
  BY <1>2, <1>10
<1>16. BuffersOwned'
  BY <1>0, <1>11, <1>12, <1>13, <1>14, <1>15 DEF BuffersOwned
<1> QED BY <1>1, <1>3, <1>4, <1>16 DEF AhciInv, Pending

(* A buffer is allocated for a disk, or there is none. *)
LEMMA AllocStep == ASSUME AhciInv, AllocIoBuffer PROVE AhciInv'
<1>t. AhciTyped
  BY DEF AhciInv
<1>0. call.st = "alloc" /\ UNCHANGED <<ahci, hba, table, issued, sata>>
  BY DEF AllocIoBuffer
<1>1. CASE dpool' = dpool /\ call' = NextPort(sata)
  <2>1. call' \in CallRec /\ call'.st \in {"setup", "run"}
    BY <1>1, <1>t, NextPortLemma DEF AhciTyped
  <2>2. ~Pending'
    BY <2>1 DEF Pending
  <2> QED BY <1>0, <1>1, <2>1, <2>2, ControlStep
<1>2. ASSUME NEW a \in AllocBuffers(1), dpool' = a.pool, call' = [call EXCEPT !.st = "identify", !.buf = a.bufs]
      PROVE  AhciInv'
  <2>1. PICK B : B = Lowest(1)
    OBVIOUS
  <2>2. a.pool = dpool \cup B /\ a.bufs = B
    BY <2>1 DEF AllocBuffers
  <2>3. B \in SUBSET (1 .. PoolSize) /\ B \cap dpool = {}
    BY <2>1, LowestFree
  <2>4. call' = [call EXCEPT !.st = "identify", !.buf = B] /\ dpool' = dpool \cup B
    BY <1>2, <2>2
  <2>5. "identify" \in Phases \ {"none"}
    BY DEF Phases
  <2>6. call' \in CallRec
    <3> HIDE DEF Phases
    <3> QED BY <2>3, <2>4, <2>5, <1>t DEF AhciTyped, CallRec
  <2>7. call'.st = "identify" /\ call'.buf = B
    BY <2>4, <1>t DEF AhciTyped, CallRec
  <2>8. AhciTyped'
    BY <2>3, <2>4, <2>6, <1>0, <1>t DEF AhciTyped
  <2>9. TableIsIssued'
    BY <1>0 DEF AhciInv, TableIsIssued
  <2>10. Ready' = Ready
    BY <1>0 DEF Ready
  <2>11. BuffersOwned
    BY DEF AhciInv
  <2>12. (\A p \in Ready : ahci[p].bufs \subseteq dpool) /\ \A i \in DOMAIN sata : sata[i].buf \subseteq dpool
    BY <2>11, <1>0 DEF BuffersOwned
  <2>13. BuffersOwned'
    BY <2>4, <2>10, <2>11, <2>12, <1>0 DEF BuffersOwned
  <2>14. Apart(call.buf)'
    BY <2>3, <2>4, <2>7, <2>10, <2>12, <1>0 DEF Apart
  <2> QED BY <2>7, <2>8, <2>9, <2>13, <2>14 DEF AhciInv
<1> QED BY <1>1, <1>2 DEF AllocIoBuffer

(* The disk is given up and its buffer freed: it was nobody else's. *)
LEMMA GiveUpStep == ASSUME AhciInv, GiveUp PROVE AhciInv'
<1>t. AhciTyped
  BY DEF AhciInv
<1>0. /\ call.st = "giveup" /\ UNCHANGED <<ahci, hba, table, issued, sata>>
      /\ dpool' = dpool \ call.buf /\ call' = NextPort(sata)
  BY DEF GiveUp, FreeBuffer
<1>1. call' \in CallRec /\ call'.st \in {"setup", "run"}
  BY <1>0, <1>t, NextPortLemma DEF AhciTyped
<1>2. ~Pending'
  BY <1>1 DEF Pending
<1>3. Apart(call.buf) /\ BuffersOwned
  BY <1>0 DEF AhciInv, Pending
<1>4. AhciTyped'
  BY <1>0, <1>1, <1>t DEF AhciTyped
<1>5. TableIsIssued'
  BY <1>0 DEF AhciInv, TableIsIssued
<1>6. Ready' = Ready
  BY <1>0 DEF Ready
<1>7. \A p \in Ready : ahci[p].bufs \subseteq dpool'
  BY <1>0, <1>3 DEF Apart, BuffersOwned
<1>8. \A i \in DOMAIN sata : sata[i].buf \subseteq dpool'
  BY <1>0, <1>3 DEF Apart, BuffersOwned
<1>9. BuffersOwned'
  BY <1>0, <1>3, <1>6, <1>7, <1>8 DEF BuffersOwned
<1> QED BY <1>1, <1>2, <1>4, <1>5, <1>9 DEF AhciInv

(* An attempt to identify has ended. *)
LEMMA IdentifiedStep == ASSUME AhciInv, Identified PROVE AhciInv'
<1>t. AhciTyped
  BY DEF AhciInv
<1>0. call.st = "identified" /\ UNCHANGED <<dpool, ahci, hba, table, issued>>
  BY DEF Identified
<1>P. Pending
  BY <1>0 DEF Pending
<1>1. CASE call' = [call EXCEPT !.st = "giveup"] /\ sata' = sata
  <2>1. "giveup" \in Phases \ {"none"}
    BY DEF Phases
  <2>2. call' \in CallRec /\ call'.st = "giveup" /\ call'.buf = call.buf
    BY <2>1, <1>1, <1>t, StFields DEF AhciTyped
  <2> QED BY <2>2, <1>0, <1>1, <1>P, ControlStep
<1>2. CASE /\ call' = [call EXCEPT !.tries = @ + 1,
                                   !.st = IF call.tries + 1 = Tries THEN "spin" ELSE "identify"]
           /\ sata' = sata
  <2>1. PICK st \in {"spin", "identify"} : st = IF call.tries + 1 = Tries THEN "spin" ELSE "identify"
    OBVIOUS
  <2>2. PICK n \in Nat : n = call.tries + 1
    BY <1>t DEF AhciTyped, CallRec
  <2>3. call' = [call EXCEPT !.tries = n, !.st = st]
    BY <2>1, <2>2, <1>2
  <2>4. st \in Phases \ {"none"}
    BY DEF Phases
  <2>5. call' \in CallRec
    <3> HIDE DEF Phases
    <3> QED BY <2>3, <2>4, <1>t DEF AhciTyped, CallRec
  <2>6. call'.st = st /\ call'.buf = call.buf
    BY <2>3, <1>t DEF AhciTyped, CallRec
  <2> QED BY <2>5, <2>6, <1>0, <1>2, <1>P, ControlStep
<1>3. CASE sata' = Append(sata, [port |-> call.port, buf |-> call.buf]) /\ call' = NextPort(sata')
  <2> DEFINE d == [port |-> call.port, buf |-> call.buf]
             n == Len(sata)
  <2>1. call' \in CallRec /\ call'.st \in {"setup", "run"}
    BY <1>3, <1>t, NextPortLemma DEF AhciTyped
  <2>2. ~Pending'
    BY <2>1 DEF Pending
  <2>3. d \in DiskRec /\ d.buf = call.buf
    BY <1>t DEF AhciTyped, CallRec, DiskRec
  <2> HIDE DEF d
  <2>4. sata' \in Seq(DiskRec) /\ n \in Nat /\ Len(sata') = n + 1 /\ sata'[n + 1] = d
        /\ \A i \in 1 .. n : sata'[i] = sata[i]
    BY <2>3, <1>3, <1>t DEF AhciTyped, d
  <2>5. DOMAIN sata' = 1 .. n + 1 /\ DOMAIN sata = 1 .. n
    BY <2>4, <1>t DEF AhciTyped
  <2> HIDE DEF n
  <2>6. AhciTyped'
    BY <2>1, <2>4, <1>0, <1>t DEF AhciTyped
  <2>7. TableIsIssued'
    BY <1>0 DEF AhciInv, TableIsIssued
  <2>8. Ready' = Ready
    BY <1>0 DEF Ready
  <2>9. Apart(call.buf) /\ BuffersOwned
    BY <1>P DEF AhciInv
  <2>10. ASSUME NEW i \in DOMAIN sata'
         PROVE  \/ i \in DOMAIN sata /\ sata'[i] = sata[i]
                \/ i = n + 1 /\ sata'[i].buf = call.buf
    BY <2>3, <2>4, <2>5
  <2>11. \A i \in DOMAIN sata' : sata'[i].buf \subseteq dpool /\ \A p \in Ready : sata'[i].buf \cap ahci[p].bufs = {}
    BY <2>9, <2>10, <1>0 DEF Apart, BuffersOwned
  <2>12. ASSUME NEW i \in DOMAIN sata', NEW j \in DOMAIN sata', i # j
         PROVE  sata'[i].buf \cap sata'[j].buf = {}
    <3>1. CASE i \in DOMAIN sata /\ j \in DOMAIN sata
      <4>1. sata'[i] = sata[i] /\ sata'[j] = sata[j]
        BY <3>1, <2>4, <2>5
      <4> QED BY <3>1, <4>1, <2>9, <2>12, <1>0 DEF BuffersOwned
    <3>2. CASE i \in DOMAIN sata /\ j \notin DOMAIN sata
      BY <3>2, <2>9, <2>10 DEF Apart
    <3>3. CASE i \notin DOMAIN sata /\ j \in DOMAIN sata
      BY <3>3, <2>9, <2>10 DEF Apart
    <3>4. CASE i \notin DOMAIN sata /\ j \notin DOMAIN sata
      BY <3>4, <2>10, <2>12
    <3> QED BY <3>1, <3>2, <3>3, <3>4
  <2>13. BuffersOwned'
    BY <2>8, <2>9, <2>11, <2>12, <1>0 DEF BuffersOwned
  <2> QED BY <2>1, <2>2, <2>6, <2>7, <2>13 DEF AhciInv
<1> QED BY <1>1, <1>2, <1>3 DEF Identified

(* Every step of the driver and of the adapter. *)
LEMMA AhciStep == AhciInv /\ [AhciNext]_AhciVars => AhciInv'
<1> SUFFICES ASSUME AhciInv, [AhciNext]_AhciVars PROVE AhciInv'
  OBVIOUS
<1>t. AhciTyped
  BY DEF AhciInv
<1>p. call.port \in HbaPorts /\ call \in CallRec
  BY <1>t DEF AhciTyped, CallRec
<1>f. FirstPort \in HbaPorts
  BY AhciAssumption, MinPort DEF FirstPort
<1>c. ASSUME NEW op \in {"idle", "identify", "read", "write"}, NEW lba \in Lbas \cup {"none"},
             NEW buf \in {"none", "io", "caller"}
      PROVE  Command(op, lba, buf) \in CmdSet
  BY DEF Command, CmdSet
<1>1. CASE ControllerInit
  <2>1. PICK st \in {"init", "off"} : call' = At(st, FirstPort)
    BY <1>1 DEF ControllerInit
  <2>2. st \in Phases \ {"none"}
    BY DEF Phases
  <2>3. call' \in CallRec /\ call'.st = st
    BY <2>1, <2>2, <1>f, <1>p, AtFields
  <2>4. ~Pending' /\ call.st = "start"
    BY <2>3, <1>1 DEF Pending, ControllerInit
  <2> QED BY <1>1, <2>3, <2>4, ControlStep DEF ControllerInit
<1>2. CASE InitializePort
  BY <1>2, InitializeStep
<1>3. CASE SetupPort
  <2>1. call' = At("spin", call.port) \/ call' = NextPort(sata)
    BY <1>3 DEF SetupPort
  <2>2. CASE call' = At("spin", call.port)
    <3>1. "spin" \in Phases \ {"none"}
      BY DEF Phases
    <3>2. call' \in CallRec /\ call'.st = "spin" /\ call'.tries = 0
      BY <2>2, <3>1, <1>p, AtFields
    <3>3. ~Pending'
      BY <3>2 DEF Pending, Tries
    <3> QED BY <1>3, <3>2, <3>3, ControlStep DEF SetupPort
  <2>3. CASE call' = NextPort(sata)
    <3>1. call' \in CallRec /\ call'.st \in {"setup", "run"}
      BY <2>3, <1>p, NextPortLemma
    <3>2. ~Pending'
      BY <3>1 DEF Pending
    <3> QED BY <1>3, <3>1, <3>2, ControlStep DEF SetupPort
  <2> QED BY <2>1, <2>2, <2>3
<1>4. CASE SpinUp
  <2>1. PICK then \in {"giveup", "alloc"} :
          /\ then = IF call.tries = Tries THEN "giveup" ELSE "alloc"
          /\ \/ call' = [call EXCEPT !.st = then] /\ UNCHANGED <<dpool, ahci, hba, table, issued, sata>>
             \/ /\ FindCmdslot(call.port) # -1
                /\ SendCommand(call.port, FindCmdslot(call.port), Command("idle", "none", "none"), then)
    BY <1>4 DEF SpinUp
  <2>2. call.st = "spin" /\ (then = "giveup" => Pending)
    BY <1>4, <2>1 DEF SpinUp, Pending
  <2>3. CASE call' = [call EXCEPT !.st = then] /\ UNCHANGED <<dpool, ahci, hba, table, issued, sata>>
    <3>1. then \in Phases \ {"none"}
      BY DEF Phases
    <3>2. call' \in CallRec /\ call'.st = then /\ call'.buf = call.buf
      BY <2>3, <3>1, <1>p, StFields
    <3>3. Pending' => Pending
      BY <2>2, <3>2 DEF Pending
    <3> QED BY <2>2, <2>3, <3>2, <3>3, ControlStep
  <2>4. CASE /\ FindCmdslot(call.port) # -1
             /\ SendCommand(call.port, FindCmdslot(call.port), Command("idle", "none", "none"), then)
    <3>1. Command("idle", "none", "none") \in CmdSet
      BY <1>c
    <3> QED BY <3>1, <2>2, <2>4, <1>p, SendStep
  <2> QED BY <2>1, <2>3, <2>4
<1>5. CASE AllocIoBuffer
  BY <1>5, AllocStep
<1>6. CASE Identify
  <2>1. call.st = "identify" /\ Pending
    BY <1>6 DEF Identify, Pending
  <2>2. CASE FindCmdslot(call.port) # -1
    <3>1. Command("identify", "none", "io") \in CmdSet
      BY <1>c
    <3>2. SendCommand(call.port, FindCmdslot(call.port), Command("identify", "none", "io"), "identified")
      BY <1>6, <2>2 DEF Identify
    <3> QED BY <3>1, <3>2, <2>1, <2>2, <1>p, SendStep
  <2>3. CASE FindCmdslot(call.port) = -1
    <3>1. call' = [call EXCEPT !.st = "identified", !.ok = FALSE] /\ UNCHANGED <<dpool, ahci, hba, table, issued, sata>>
      BY <1>6, <2>3 DEF Identify
    <3>2. "identified" \in Phases \ {"none"}
      BY DEF Phases
    <3>3. call' \in CallRec
      <4> HIDE DEF Phases
      <4> QED BY <3>1, <3>2, <1>p DEF CallRec
    <3>4. call'.st = "identified" /\ call'.buf = call.buf
      BY <3>1, <1>p DEF CallRec
    <3> QED BY <3>1, <3>3, <3>4, <2>1, ControlStep
  <2> QED BY <2>2, <2>3
<1>7. CASE Identified
  BY <1>7, IdentifiedStep
<1>8. CASE GiveUp
  BY <1>8, GiveUpStep
<1>9. CASE PollDone
  BY <1>9, WaitStep DEF PollDone
<1>10. CASE PollError \/ PollTimeout
  BY <1>10, WaitStep DEF PollError, PollTimeout
<1>11. ASSUME NEW p \in HbaPorts, NEW s \in Slots, HbaComplete(p, s) \/ HbaError(p, s) PROVE AhciInv'
  BY <1>11, HbaStep
<1>12. ASSUME NEW i \in DOMAIN sata, NEW lba \in Lbas, NEW op \in {"read", "write"},
              call.port = sata[i].port, Transfer(sata[i], op, lba)
       PROVE  AhciInv'
  <2>1. PICK buf \in {"io", "caller"} :
          /\ call.st = "run" /\ FindCmdslot(call.port) # -1
          /\ SendCommand(call.port, FindCmdslot(call.port), Command(op, lba, buf), "ret")
    BY <1>12 DEF Transfer
  <2>2. Command(op, lba, buf) \in CmdSet
    BY <1>c
  <2> QED BY <2>1, <2>2, <1>p, SendStep
<1>13. CASE ListDevices(call.port)
  <2>1. Command("identify", "none", "caller") \in CmdSet
    BY <1>c
  <2>2. /\ call.st = "run" /\ FindCmdslot(call.port) # -1
        /\ SendCommand(call.port, FindCmdslot(call.port), Command("identify", "none", "caller"), "ret")
    BY <1>13 DEF ListDevices
  <2> QED BY <2>1, <2>2, <1>p, SendStep
<1>14. ASSUME NEW p \in HbaPorts, Select(p) PROVE AhciInv'
  <2>1. call' = [call EXCEPT !.port = p] /\ call.st = "run"
    BY <1>14 DEF Select
  <2>2. call' \in CallRec
    <3> HIDE DEF Phases
    <3> QED BY <2>1, <1>p DEF CallRec
  <2>3. call'.st = "run"
    BY <2>1, <1>p DEF CallRec
  <2>4. ~Pending'
    BY <2>3 DEF Pending
  <2> QED BY <1>14, <2>1, <2>2, <2>3, <2>4, ControlStep DEF Select
<1>15. CASE ReturnToCaller
  <2>1. "run" \in Phases \ {"none"}
    BY DEF Phases
  <2>2. call' \in CallRec /\ call'.st = "run" /\ call.st = "ret"
    BY <1>15, <2>1, <1>p, StFields DEF ReturnToCaller
  <2>3. ~Pending'
    BY <2>2 DEF Pending
  <2> QED BY <1>15, <2>2, <2>3, ControlStep DEF ReturnToCaller
<1>16. CASE Cleanup
  <2>1. "off" \in Phases \ {"none"}
    BY DEF Phases
  <2>2. call' \in CallRec /\ call'.st = "off"
    BY <1>16, <2>1, <1>p, StFields DEF Cleanup
  <2>3. dpool' \subseteq 1 .. PoolSize /\ sata' \in Seq(DiskRec)
    BY <1>16, <1>t DEF Cleanup, FreeBuffer, AhciTyped
  <2>4. AhciTyped' /\ TableIsIssued'
    BY <1>16, <2>2, <2>3, <1>t DEF Cleanup, AhciTyped, AhciInv, TableIsIssued
  <2> QED BY <2>2, <2>4 DEF AhciInv, BuffersOwned, Pending
<1>17. CASE DmaCleanup
  <2>1. call' = call /\ call.st = "off" /\ dpool' \subseteq 1 .. PoolSize
    BY <1>17, <1>t DEF DmaCleanup, FreeBuffer, AhciTyped
  <2>2. AhciTyped' /\ TableIsIssued'
    BY <1>17, <2>1, <1>t DEF DmaCleanup, AhciTyped, AhciInv, TableIsIssued
  <2> QED BY <2>1, <2>2 DEF AhciInv, BuffersOwned, Pending
<1>18. CASE UNCHANGED AhciVars
  BY <1>18 DEF AhciVars, AhciInv, AhciTyped, TableIsIssued, BuffersOwned, Ready, Pending, Apart
<1> QED BY <1>1, <1>2, <1>3, <1>4, <1>5, <1>6, <1>7, <1>8, <1>9, <1>10, <1>11, <1>12, <1>13, <1>14,
           <1>15, <1>16, <1>17, <1>18 DEF AhciNext

(* For any number of ports, slots and buffers: the adapter executes what it *)
(* was given, and every DMA buffer in use is allocated and has one owner    *)
(* (ahci.c, sata_disk.c, dma.c).                                            *)
THEOREM AhciCorrect == AhciSpec => []CommandsSound
<1>1. AhciInv => CommandsSound
  BY DEF AhciInv, CommandsSound
<1> QED BY <1>1, InitAhci, AhciStep, PTL DEF AhciSpec

(* The driver's tables keep their types. *)
THEOREM AhciTypeCorrect == AhciSpec => []AhciTypeOK
<1>1. ASSUME AhciInv PROVE AhciTypeOK
  <2>1. AhciTyped
    BY <1>1 DEF AhciInv
  <2>2. \A p \in HbaPorts : hba[p].ci \subseteq Slots /\ ahci[p].busy \subseteq Slots
    BY <2>1 DEF AhciTyped, HbaRec, PortRec
  <2>3. call.st \in Phases \ {"none"}
    BY <2>1 DEF AhciTyped, CallRec
  <2> QED BY <2>1, <2>2, <2>3 DEF AhciTyped, AhciTypeOK, Phases
<1> QED BY <1>1, InitAhci, AhciStep, PTL DEF AhciSpec
-----------------------------------------------------------------------------
(* The rings of a serial port.  A ring of N places with the indices t and h *)
(* holds the sequence s between them.                                       *)

Place(N, t, i) == IF t + i < N THEN t + i ELSE t + i - N
Dist(N, t, h) == IF h >= t THEN h - t ELSE h - t + N

RingHolds(N, q, t, h, s) ==
    /\ Len(s) = Dist(N, t, h)
    /\ \A i \in 1 .. Len(s) : q[Place(N, t, i - 1)] = s[i]

(* r is s without its first n characters; p is q with the characters of g   *)
(* from place h on.                                                         *)
Rest(s, n, r) == Len(r) = Len(s) - n /\ \A i \in 1 .. Len(r) : r[i] = s[i + n]
Filling(N, q, h, g, p) ==
    /\ \A k \in 0 .. N - 1 : \A i \in 1 .. Len(g) : (h + i - 1) % N = k => p[k] = g[i]
    /\ \A k \in 0 .. N - 1 : (\A i \in 1 .. Len(g) : (h + i - 1) % N # k) => p[k] = q[k]

(* The indices of the code, which count modulo N. *)
LEMMA PlaceMod ==
    ASSUME NEW N \in Nat \ {0, 1}, NEW t \in 0 .. N - 1, NEW i \in 0 .. N
    PROVE  (t + i) % N = Place(N, t, i) /\ Place(N, t, i) \in 0 .. N - 1
<1>1. PICK y \in 0 .. 2 * N - 1 : y = t + i
  OBVIOUS
<1>2. y % N = IF y < N THEN y ELSE y - N
  BY ModOnce
<1> QED BY <1>1, <1>2 DEF Place

(* The distance of the code. *)
LEMMA DistMod ==
    ASSUME NEW N \in Nat \ {0, 1}, NEW t \in 0 .. N - 1, NEW h \in 0 .. N - 1
    PROVE  (h - t + N) % N = Dist(N, t, h) /\ Dist(N, t, h) \in 0 .. N - 1
<1>1. PICK y \in 0 .. 2 * N - 1 : y = h - t + N
  OBVIOUS
<1>2. y % N = IF y < N THEN y ELSE y - N
  BY ModOnce
<1>3. y % N = Dist(N, t, h)
  BY <1>1, <1>2 DEF Dist
<1> QED BY <1>1, <1>3 DEF Dist

(* More in the ring. *)
LEMMA DistPlus ==
    ASSUME NEW N \in Nat \ {0, 1}, NEW t \in 0 .. N - 1, NEW h \in 0 .. N - 1, NEW n \in 0 .. N - 1,
           Dist(N, t, h) + n < N
    PROVE  Dist(N, t, Place(N, h, n)) = Dist(N, t, h) + n
<1>1. CASE h + n < N
  BY <1>1 DEF Dist, Place
<1>2. CASE h + n >= N
  BY <1>2 DEF Dist, Place
<1> QED BY <1>1, <1>2

(* One more. *)
LEMMA DistNext ==
    ASSUME NEW N \in Nat \ {0, 1}, NEW t \in 0 .. N - 1, NEW h \in 0 .. N - 1, NEW u,
           u = IF h = N - 1 THEN 0 ELSE h + 1, u # t
    PROVE  Dist(N, t, u) = Dist(N, t, h) + 1
<1>1. CASE h = N - 1
  BY <1>1 DEF Dist
<1>2. CASE h # N - 1
  BY <1>2 DEF Dist
<1> QED BY <1>1, <1>2

(* What Between shows is what the ring holds. *)
LEMMA BetweenIs ==
    ASSUME NEW N \in Nat \ {0, 1}, NEW r, NEW t \in 0 .. N - 1, NEW h \in 0 .. N - 1,
           t = r.tail, h = r.head, NEW s \in Seq(Nat), RingHolds(N, r.q, t, h, s)
    PROVE  Between(r, N) = s
<1>1. PICK m \in 0 .. N - 1 : m = (h - t + N) % N /\ m = Dist(N, t, h)
  BY DistMod
<1>0. m = Len(s) /\ \A i \in 1 .. m : r.q[Place(N, t, i - 1)] = s[i]
  BY <1>1 DEF RingHolds
<1>2. Between(r, N) = [i \in 1 .. m |-> r.q[(t + i - 1) % N]]
  BY <1>1 DEF Between
<1>3. ASSUME NEW i \in 1 .. m PROVE r.q[(t + i - 1) % N] = s[i]
  <2>2. i - 1 \in 0 .. N /\ t + i - 1 = t + (i - 1)
    BY <1>1
  <2>3. (t + (i - 1)) % N = Place(N, t, i - 1)
    BY <2>2, PlaceMod
  <2> QED BY <2>2, <2>3, <1>0
<1>4. s = [i \in 1 .. m |-> s[i]]
  BY <1>0
<1> QED BY <1>2, <1>3, <1>4

(* A character behind the last. *)
LEMMA RingPut ==
    ASSUME NEW N \in Nat \ {0, 1}, NEW t \in 0 .. N - 1, NEW h \in 0 .. N - 1, NEW q \in [0 .. N - 1 -> Nat],
           NEW s \in Seq(Nat), RingHolds(N, q, t, h, s), NEW c \in Nat, (h + 1) % N # t
    PROVE  RingHolds(N, [q EXCEPT ![h] = c], t, (h + 1) % N, Append(s, c))
<1>0. (h + 1) % N = Place(N, h, 1)
  BY PlaceMod
<1>1. PICK m \in 0 .. N - 1 : m = Dist(N, t, h)
  BY DistMod
<1>2. m = Len(s) /\ \A i \in 1 .. m : q[Place(N, t, i - 1)] = s[i]
  BY <1>1 DEF RingHolds
<1>3. Dist(N, t, Place(N, h, 1)) = m + 1 /\ Place(N, t, m) = h
  <2>1. Place(N, t, m) = h
    BY <1>1 DEF Dist, Place
  <2>2. Place(N, h, 1) # t
    BY <1>0
  <2>3. Place(N, h, 1) = IF h = N - 1 THEN 0 ELSE h + 1
    BY DEF Place
  <2>4. Dist(N, t, Place(N, h, 1)) = m + 1
    BY <2>2, <2>3, <1>1, DistNext
  <2> QED BY <2>1, <2>4
<1>4. /\ Len(Append(s, c)) = m + 1 /\ Append(s, c)[m + 1] = c
      /\ \A i \in 1 .. m : Append(s, c)[i] = s[i]
  BY <1>2, AppendProperties
<1>5. ASSUME NEW i \in 1 .. m PROVE Place(N, t, i - 1) \in 0 .. N - 1 /\ Place(N, t, i - 1) # h
  <2>1. Place(N, t, i - 1) \in 0 .. N - 1 /\ Place(N, t, i - 1) # Place(N, t, m)
    BY DEF Place
  <2> QED BY <2>1, <1>3
<1>6. ASSUME NEW i \in 1 .. m + 1 PROVE [q EXCEPT ![h] = c][Place(N, t, i - 1)] = Append(s, c)[i]
  <2>1. CASE i = m + 1
    <3>1. i - 1 = m
      BY <2>1
    <3> QED BY <2>1, <3>1, <1>3, <1>4
  <2>2. CASE i # m + 1
    <3>1. i \in 1 .. m
      BY <2>2
    <3>2. [q EXCEPT ![h] = c][Place(N, t, i - 1)] = q[Place(N, t, i - 1)]
      BY <3>1, <1>5
    <3> QED BY <2>2, <3>1, <3>2, <1>2, <1>4
  <2> QED BY <2>1, <2>2
<1> QED BY <1>0, <1>3, <1>4, <1>6 DEF RingHolds

(* Characters taken from the front. *)
LEMMA RingTake ==
    ASSUME NEW N \in Nat \ {0, 1}, NEW t \in 0 .. N - 1, NEW h \in 0 .. N - 1, NEW q,
           NEW s \in Seq(Nat), RingHolds(N, q, t, h, s), NEW n \in 0 .. Len(s),
           NEW r \in Seq(Nat), Rest(s, n, r), NEW z, z = (t + n) % N
    PROVE  RingHolds(N, q, z, h, r) /\ z \in 0 .. N - 1
<1>1. PICK m \in 0 .. N - 1 : m = Dist(N, t, h)
  BY DistMod
<1>2. m = Len(s) /\ \A i \in 1 .. m : q[Place(N, t, i - 1)] = s[i]
  BY <1>1 DEF RingHolds
<1>3. n \in 0 .. m /\ n \in 0 .. N /\ Len(r) = m - n /\ \A i \in 1 .. m - n : r[i] = s[i + n]
  <2>1. n \in 0 .. m
    BY <1>2
  <2>2. n \in 0 .. N
    BY <2>1, <1>1
  <2>3. Len(r) = Len(s) - n /\ \A i \in 1 .. Len(r) : r[i] = s[i + n]
    BY DEF Rest
  <2>4. Len(r) = m - n
    BY <2>3, <1>2
  <2> QED BY <2>1, <2>2, <2>3, <2>4
<1>4. (t + n) % N = Place(N, t, n) /\ Place(N, t, n) \in 0 .. N - 1
  BY <1>3, PlaceMod
<1>5. Dist(N, Place(N, t, n), h) = m - n
  <2>1. PICK k \in Nat : k = n /\ k <= m
    BY <1>3
  <2>2. CASE t + k < N
    BY <1>1, <2>1, <2>2 DEF Dist, Place
  <2>3. CASE ~(t + k < N)
    BY <1>1, <2>1, <2>3 DEF Dist, Place
  <2> QED BY <2>2, <2>3
<1>6. ASSUME NEW i \in 1 .. m - n PROVE q[Place(N, Place(N, t, n), i - 1)] = r[i]
  <2>1. i + n \in 1 .. m
    <3>1. PICK k \in Nat : k = n /\ k <= m
      BY <1>3
    <3>2. i \in 1 .. m - k
      BY <3>1
    <3>3. i + k \in 1 .. m
      BY <3>1, <3>2
    <3> QED BY <3>1, <3>3
  <2>2. Place(N, Place(N, t, n), i - 1) = Place(N, t, (i + n) - 1)
    <3>1. n \in 0 .. N - 1 /\ i \in 1 .. N - 1 /\ (i + n) - 1 < N - 1
      <4>1. PICK k \in 0 .. N - 1 : k = n
        BY <1>3, <1>1
      <4>2. PICK j \in Nat : j = i /\ j >= 1
        OBVIOUS
      <4>3. j + k \in 1 .. m
        BY <4>1, <4>2, <2>1
      <4>4. j \in 1 .. N - 1 /\ (j + k) - 1 < N - 1
        BY <4>1, <4>2, <4>3, <1>1
      <4> QED BY <4>1, <4>2, <4>4
    <3>2. CASE t + n < N
      BY <3>1, <3>2 DEF Place
    <3>3. CASE t + n >= N
      BY <3>1, <3>3 DEF Place
    <3> QED BY <3>1, <3>2, <3>3
  <2>3. q[Place(N, t, (i + n) - 1)] = s[i + n]
    BY <2>1, <1>2
  <2> QED BY <2>2, <2>3, <1>3
<1> QED BY <1>3, <1>4, <1>5, <1>6 DEF RingHolds

(* Characters of f put behind the last, as many as there is room for. *)
LEMMA RingFill ==
    ASSUME NEW N \in Nat \ {0, 1}, NEW t \in 0 .. N - 1, NEW h \in 0 .. N - 1, NEW q, NEW p,
           NEW s \in Seq(Nat), RingHolds(N, q, t, h, s), NEW g \in Seq(Nat), Len(s) + Len(g) < N,
           Filling(N, q, h, g, p), NEW z, z = (h + Len(g)) % N
    PROVE  RingHolds(N, p, t, z, s \o g) /\ z \in 0 .. N - 1
<1>1. PICK m \in 0 .. N - 1 : m = Dist(N, t, h)
  BY DistMod
<1>2. m = Len(s) /\ \A i \in 1 .. m : q[Place(N, t, i - 1)] = s[i]
  BY <1>1 DEF RingHolds
<1>3. PICK n \in 0 .. N - 1 : n = Len(g) /\ m + n < N
  <2>1. Len(g) \in Nat /\ m + Len(g) < N
    BY <1>2
  <2>2. Len(g) \in 0 .. N - 1
    BY <2>1
  <2> QED BY <2>1, <2>2
<1>4. (h + n) % N = Place(N, h, n) /\ Place(N, h, n) \in 0 .. N - 1
  <2>1. n \in 0 .. N
    OBVIOUS
  <2> QED BY <2>1, PlaceMod
<1>5. Dist(N, t, Place(N, h, n)) = m + n
  BY <1>1, <1>3, DistPlus
<1>6. ASSUME NEW i \in 1 .. n PROVE (h + i - 1) % N = Place(N, t, m + i - 1)
  <2>1. i - 1 \in 0 .. N /\ h + (i - 1) = h + i - 1
    OBVIOUS
  <2>2. (h + (i - 1)) % N = Place(N, h, i - 1)
    BY <2>1, PlaceMod
  <2>3. Place(N, h, i - 1) = Place(N, t, m + i - 1)
    BY <1>1, <1>3 DEF Place, Dist
  <2> QED BY <2>1, <2>2, <2>3
<1>7. PICK r : r = s \o g
  OBVIOUS
<1>8. Len(r) = m + n /\ \A i \in 1 .. m + n : r[i] = IF i <= m THEN s[i] ELSE g[i - m]
  BY <1>2, <1>3, <1>7, ConcatProperties
<1>9. ASSUME NEW i \in 1 .. m + n PROVE p[Place(N, t, i - 1)] = r[i]
  <2>0. Place(N, t, i - 1) \in 0 .. N - 1
    BY <1>3 DEF Place
  <2>1. CASE i <= m
    <3>1. ASSUME NEW j \in 1 .. n PROVE (h + j - 1) % N # Place(N, t, i - 1)
      <4>1. Place(N, t, m + j - 1) # Place(N, t, i - 1)
        BY <2>1, <1>3 DEF Place
      <4> QED BY <4>1, <1>6
    <3>2. p[Place(N, t, i - 1)] = q[Place(N, t, i - 1)]
      BY <3>1, <2>0, <1>3 DEF Filling
    <3>3. i \in 1 .. m
      BY <2>1
    <3> QED BY <2>1, <3>2, <3>3, <1>2, <1>8
  <2>2. CASE ~(i <= m)
    <3>1. i - m \in 1 .. n /\ m + (i - m) - 1 = i - 1
      BY <2>2, <1>3
    <3>2. (h + (i - m) - 1) % N = Place(N, t, m + (i - m) - 1)
      BY <3>1, <1>6
    <3>3. p[Place(N, t, i - 1)] = g[i - m]
      <4>1. PICK j \in 1 .. Len(g) : j = i - m
        BY <3>1, <1>3
      <4>2. (h + j - 1) % N = Place(N, t, i - 1)
        BY <3>1, <3>2, <4>1
      <4>3. p[Place(N, t, i - 1)] = g[j]
        BY <4>2, <2>0 DEF Filling
      <4> QED BY <4>1, <4>3
    <3> QED BY <3>3, <2>2, <1>8
  <2> QED BY <2>1, <2>2
<1> QED BY <1>3, <1>4, <1>5, <1>7, <1>8, <1>9 DEF RingHolds

(* Of the places from h on, each is counted once. *)
LEMMA SlotOnce ==
    ASSUME NEW N \in Nat \ {0, 1}, NEW h \in 0 .. N - 1, NEW i \in 1 .. N - 1, NEW j \in 1 .. N - 1,
           (h + i - 1) % N = (h + j - 1) % N
    PROVE  i = j
<1>1. i - 1 \in 0 .. N /\ j - 1 \in 0 .. N /\ h + (i - 1) = h + i - 1 /\ h + (j - 1) = h + j - 1
  OBVIOUS
<1>2. (h + (i - 1)) % N = Place(N, h, i - 1)
  BY <1>1, PlaceMod
<1>3. (h + (j - 1)) % N = Place(N, h, j - 1)
  BY <1>1, PlaceMod
<1>4. Place(N, h, i - 1) = Place(N, h, j - 1)
  BY <1>1, <1>2, <1>3
<1> QED BY <1>4 DEF Place
-----------------------------------------------------------------------------
(* The invariant of a serial port.  While no writer was overtaken, the      *)
(* output ring holds the backlog of characters, none of them the 0 that     *)
(* stands for an empty register; an enabled interrupt over an empty         *)
(* register is pending, unless a status command took it, which is why        *)
(* enabling it again loses none.                                            *)

UartTyped == uart \in [thr : Nat, thre : BOOLEAN, pending : BOOLEAN, fifo : Seq(Nat)] /\ Len(uart.fifo) <= UartFifo
TxTyped ==
    tx \in [q : [0 .. SERIAL_TX_QUEUE_SIZE - 1 -> Nat], head : 0 .. SERIAL_TX_QUEUE_SIZE - 1,
            tail : 0 .. SERIAL_TX_QUEUE_SIZE - 1, busy : BOOLEAN]
RxTyped ==
    rx \in [q : [0 .. SERIAL_RX_QUEUE_SIZE - 1 -> Nat], head : 0 .. SERIAL_RX_QUEUE_SIZE - 1,
            tail : 0 .. SERIAL_RX_QUEUE_SIZE - 1]
WaitTyped == next_head \in [SerialWriters -> {NoRoom} \cup 0 .. SERIAL_TX_QUEUE_SIZE - 1]
FlowTyped ==
    flow \in [written : Nat, arrived : Nat, backlog : Seq(Nat), received : Seq(Nat),
              overtaken : BOOLEAN, taken : BOOLEAN]

RxFifo == RingHolds(SERIAL_RX_QUEUE_SIZE, rx.q, rx.tail, rx.head, flow.received)

TxFifo ==
    ~flow.overtaken =>
      /\ RingHolds(SERIAL_TX_QUEUE_SIZE, tx.q, tx.tail, tx.head, flow.backlog)
      /\ \A i \in 1 .. Len(flow.backlog) : flow.backlog[i] # 0
      /\ uart.thre /\ uart.thr = 0 => uart.pending \/ flow.taken
      /\ Len(flow.backlog) # 0 => tx.busy /\ uart.thre

SerialInv == UartTyped /\ TxTyped /\ RxTyped /\ WaitTyped /\ FlowTyped /\ RxFifo /\ TxFifo

(* Nothing happens at the input. *)
LEMMA RxSame ==
    ASSUME RxTyped, RxFifo, rx' = rx, flow'.received = flow.received PROVE RxTyped' /\ RxFifo'
  BY DEF RxTyped, RxFifo

(* A character is sent or queued, behind the last. *)
LEMMA QueueStep ==
    ASSUME SerialInv, NEW c \in Nat \ {0}, NEW next \in 0 .. SERIAL_TX_QUEUE_SIZE - 1, next # tx.tail, Queue(c, next)
    PROVE  UartTyped' /\ TxTyped' /\ FlowTyped' /\ flow'.received = flow.received /\ TxFifo'
<1> USE DEF UartTyped, TxTyped, FlowTyped
<1>0. UartTyped /\ TxTyped /\ FlowTyped /\ TxFifo /\ SERIAL_TX_QUEUE_SIZE \in Nat \ {0, 1} /\ UartFifo \in Nat
  BY SerialAssumption DEF SerialInv
<1>1. CASE ~tx.busy /\ uart.thr = 0
  <2>1. /\ uart' = EnableThre(Transmit(uart, c))
        /\ tx' = [tx EXCEPT !.busy = TRUE]
        /\ flow' = [flow EXCEPT !.written = c, !.overtaken = @ \/ next # TxNext(tx.head)]
    BY <1>1 DEF Queue
  <2>2. /\ UartTyped' /\ uart'.thr = c
    BY <2>1, <1>0 DEF EnableThre, Transmit
  <2>3. TxTyped' /\ tx'.q = tx.q /\ tx'.head = tx.head /\ tx'.tail = tx.tail /\ tx'.busy
    BY <2>1, <1>0
  <2>4. /\ FlowTyped' /\ flow'.received = flow.received /\ flow'.backlog = flow.backlog
        /\ flow.overtaken => flow'.overtaken
    BY <2>1, <1>0
  <2>5. TxFifo'
    BY <2>2, <2>3, <2>4, <1>0, <1>1 DEF TxFifo
  <2> QED BY <2>2, <2>3, <2>4, <2>5
<1>2. CASE ~(~tx.busy /\ uart.thr = 0)
  <2>1. /\ uart' = EnableThre(uart)
        /\ tx' = [tx EXCEPT !.busy = TRUE, !.q[tx.head] = c, !.head = next]
        /\ flow' = [flow EXCEPT !.written = c, !.backlog = Append(@, c),
                                !.overtaken = @ \/ next # TxNext(tx.head)]
    BY <1>2 DEF Queue
  <2>2. /\ UartTyped' /\ uart'.thr = uart.thr /\ uart'.thre
        /\ uart'.pending <=> uart.pending \/ (~uart.thre /\ uart.thr = 0)
    BY <2>1, <1>0 DEF EnableThre
  <2>3. TxTyped' /\ tx'.q = [tx.q EXCEPT ![tx.head] = c] /\ tx'.head = next /\ tx'.tail = tx.tail /\ tx'.busy
    BY <2>1, <1>0
  <2>4. /\ FlowTyped' /\ flow'.received = flow.received /\ flow'.backlog = Append(flow.backlog, c) /\ flow'.taken = flow.taken
        /\ ~flow'.overtaken => ~flow.overtaken /\ next = TxNext(tx.head)
    <3>1. Append(flow.backlog, c) \in Seq(Nat)
      BY <1>0, AppendProperties
    <3> QED BY <2>1, <1>0, <3>1
  <2>5. ASSUME ~flow'.overtaken PROVE TxFifo'
    <3>1. ~flow.overtaken /\ next = (tx.head + 1) % SERIAL_TX_QUEUE_SIZE
      BY <2>4, <2>5 DEF TxNext
    <3>2. PICK b \in Seq(Nat) : b = flow.backlog
      BY <1>0
    <3>3. RingHolds(SERIAL_TX_QUEUE_SIZE, tx.q, tx.tail, tx.head, b)
      BY <3>1, <3>2, <1>0 DEF TxFifo
    <3>4. RingHolds(SERIAL_TX_QUEUE_SIZE, [tx.q EXCEPT ![tx.head] = c], tx.tail,
                    (tx.head + 1) % SERIAL_TX_QUEUE_SIZE, Append(b, c))
      <4>1. tx.tail \in 0 .. SERIAL_TX_QUEUE_SIZE - 1 /\ tx.head \in 0 .. SERIAL_TX_QUEUE_SIZE - 1
            /\ tx.q \in [0 .. SERIAL_TX_QUEUE_SIZE - 1 -> Nat]
        BY <1>0
      <4>2. (tx.head + 1) % SERIAL_TX_QUEUE_SIZE # tx.tail
        BY <3>1
      <4> QED BY <4>1, <4>2, <3>3, <1>0, RingPut
    <3>5. \A i \in 1 .. Len(Append(b, c)) : Append(b, c)[i] # 0
      <4>1. \A i \in 1 .. Len(b) : b[i] # 0
        BY <3>1, <3>2, <1>0 DEF TxFifo
      <4> QED BY <4>1, AppendProperties
    <3>6. uart'.thr = 0 => uart'.pending \/ flow'.taken
      BY <3>1, <2>2, <2>4, <1>0 DEF TxFifo
    <3> QED BY <3>1, <3>2, <3>4, <3>5, <3>6, <2>2, <2>3, <2>4 DEF TxFifo
  <2>6. TxFifo'
    BY <2>5 DEF TxFifo
  <2> QED BY <2>2, <2>3, <2>4, <2>6
<1> QED BY <1>1, <1>2

(* A writer finds room, or waits for it. *)
LEMMA WriteStep ==
    ASSUME SerialInv, NEW w \in SerialWriters, WriteChar(w) \/ WriteResumes(w)
    PROVE  SerialInv'
<1>0. /\ SERIAL_TX_QUEUE_SIZE \in Nat \ {0, 1}
      /\ tx.tail \in 0 .. SERIAL_TX_QUEUE_SIZE - 1 /\ tx.head \in 0 .. SERIAL_TX_QUEUE_SIZE - 1
      /\ flow.written \in Nat /\ next_head \in [SerialWriters -> {NoRoom} \cup 0 .. SERIAL_TX_QUEUE_SIZE - 1]
  BY SerialAssumption DEF SerialInv, TxTyped, FlowTyped, WaitTyped
<1>1. flow.written + 1 \in Nat \ {0} /\ TxNext(tx.head) \in 0 .. SERIAL_TX_QUEUE_SIZE - 1
  BY <1>0 DEF TxNext
<1>2. CASE WriteChar(w)
  <2>1. CASE TxNext(tx.head) = tx.tail
    <3>1. next_head' = [next_head EXCEPT ![w] = TxNext(tx.head)] /\ UNCHANGED <<uart, tx, flow, rx>>
      BY <1>2, <2>1 DEF WriteChar
    <3>2. next_head' \in [SerialWriters -> {NoRoom} \cup 0 .. SERIAL_TX_QUEUE_SIZE - 1]
      BY <3>1, <1>0, <1>1
    <3> QED BY <3>1, <3>2
         DEF SerialInv, UartTyped, TxTyped, RxTyped, WaitTyped, FlowTyped, RxFifo, TxFifo
  <2>2. CASE TxNext(tx.head) # tx.tail
    <3>1. Queue(flow.written + 1, TxNext(tx.head)) /\ UNCHANGED next_head /\ rx' = rx
      BY <1>2, <2>2 DEF WriteChar
    <3>2. UartTyped' /\ TxTyped' /\ FlowTyped' /\ flow'.received = flow.received /\ TxFifo'
      BY <3>1, <2>2, <1>1, QueueStep
    <3>3. RxTyped' /\ RxFifo'
      BY <3>1, <3>2, RxSame DEF SerialInv
    <3> QED BY <3>1, <3>2, <3>3 DEF SerialInv, WaitTyped
  <2> QED BY <2>1, <2>2
<1>3. CASE WriteResumes(w)
  <2>1. next_head[w] \in 0 .. SERIAL_TX_QUEUE_SIZE - 1 /\ next_head[w] # tx.tail
    BY <1>3, <1>0 DEF WriteResumes
  <2>2. Queue(flow.written + 1, next_head[w]) /\ next_head' = [next_head EXCEPT ![w] = NoRoom] /\ rx' = rx
    BY <1>3 DEF WriteResumes
  <2>3. UartTyped' /\ TxTyped' /\ FlowTyped' /\ flow'.received = flow.received /\ TxFifo'
    BY <2>1, <2>2, <1>1, QueueStep
  <2>4. RxTyped' /\ RxFifo'
    BY <2>2, <2>3, RxSame DEF SerialInv
  <2>5. WaitTyped'
    BY <2>2, <1>0 DEF WaitTyped
  <2> QED BY <2>3, <2>4, <2>5 DEF SerialInv
<1> QED BY <1>2, <1>3

(* A character straight to the UART, or dropped, and one that the line      *)
(* takes.                                                                   *)
LEMMA LineStep ==
    ASSUME SerialInv, WritePolled \/ UartSends \/ DumpStatus
    PROVE  SerialInv'
<1>0. UartTyped /\ TxTyped /\ FlowTyped /\ TxFifo /\ RxTyped /\ RxFifo /\ WaitTyped /\ UartFifo \in Nat
  BY SerialAssumption DEF SerialInv
<1>1. CASE WritePolled
  <2>1. /\ (uart.thr = 0 /\ uart' = Transmit(uart, flow.written + 1)) \/ uart' = uart
        /\ flow' = [flow EXCEPT !.written = @ + 1] /\ tx' = tx /\ rx' = rx /\ next_head' = next_head
    BY <1>1 DEF WritePolled
  <2>2. /\ FlowTyped' /\ flow'.received = flow.received /\ flow'.backlog = flow.backlog
        /\ flow'.overtaken = flow.overtaken /\ flow'.taken = flow.taken /\ flow.written + 1 \in Nat \ {0}
    <3>1. flow.written + 1 \in Nat \ {0}
      BY <1>0 DEF FlowTyped
    <3>2. flow' = [flow EXCEPT !.written = flow.written + 1]
      BY <2>1
    <3> QED BY <3>1, <3>2, <1>0 DEF FlowTyped
  <2>3. UartTyped' /\ uart'.thre = uart.thre /\ (uart' = uart \/ uart'.thr # 0)
    BY <2>1, <2>2, <1>0 DEF UartTyped, Transmit
  <2>4. TxFifo'
    BY <2>1, <2>2, <2>3, <1>0 DEF TxFifo
  <2>5. RxTyped' /\ RxFifo'
    BY <2>1, <2>2, <1>0, RxSame
  <2> QED BY <2>1, <2>2, <2>3, <2>4, <2>5, <1>0 DEF SerialInv, TxTyped, WaitTyped
<1>2. CASE UartSends
  <2>1. /\ uart' = [uart EXCEPT !.thr = 0, !.pending = uart.thre]
        /\ tx' = tx /\ rx' = rx /\ next_head' = next_head /\ flow' = [flow EXCEPT !.taken = FALSE]
    BY <1>2 DEF UartSends
  <2>2. UartTyped' /\ uart'.thre = uart.thre /\ uart'.pending = uart.thre
    BY <2>1, <1>0 DEF UartTyped
  <2>3. /\ FlowTyped' /\ flow'.received = flow.received /\ flow'.backlog = flow.backlog
        /\ flow'.overtaken = flow.overtaken
    BY <2>1, <1>0 DEF FlowTyped
  <2>4. TxFifo'
    BY <2>1, <2>2, <2>3, <1>0 DEF TxFifo
  <2>5. RxTyped' /\ RxFifo'
    BY <2>1, <2>3, <1>0, RxSame
  <2> QED BY <2>1, <2>2, <2>3, <2>4, <2>5, <1>0 DEF SerialInv, TxTyped, WaitTyped
<1>3. CASE DumpStatus
  <2>1. /\ uart' = [uart EXCEPT !.pending = FALSE]
        /\ tx' = tx /\ rx' = rx /\ next_head' = next_head /\ flow' = [flow EXCEPT !.taken = TRUE]
    BY <1>3 DEF DumpStatus
  <2>2. UartTyped' /\ uart'.thre = uart.thre
    BY <2>1, <1>0 DEF UartTyped
  <2>3. /\ FlowTyped' /\ flow'.received = flow.received /\ flow'.backlog = flow.backlog
        /\ flow'.overtaken = flow.overtaken /\ flow'.taken = TRUE
    BY <2>1, <1>0 DEF FlowTyped
  <2>4. TxFifo'
    BY <2>1, <2>2, <2>3, <1>0 DEF TxFifo
  <2>5. RxTyped' /\ RxFifo'
    BY <2>1, <2>3, <1>0, RxSame
  <2> QED BY <2>1, <2>2, <2>3, <2>4, <2>5, <1>0 DEF SerialInv, TxTyped, WaitTyped
<1> QED BY <1>1, <1>2, <1>3

(* The interrupt takes the oldest character, and switches itself off when   *)
(* that was the last one.                                                   *)
LEMMA ThreStep ==
    ASSUME SerialInv, ThreEmpty
    PROVE  SerialInv'
<1>0. UartTyped /\ TxTyped /\ FlowTyped /\ TxFifo /\ RxTyped /\ RxFifo /\ WaitTyped /\ UartFifo \in Nat
  BY SerialAssumption DEF SerialInv
<1>1. /\ SERIAL_TX_QUEUE_SIZE \in Nat \ {0, 1} /\ tx.q \in [0 .. SERIAL_TX_QUEUE_SIZE - 1 -> Nat]
      /\ tx.tail \in 0 .. SERIAL_TX_QUEUE_SIZE - 1 /\ tx.head \in 0 .. SERIAL_TX_QUEUE_SIZE - 1
  BY <1>0, SerialAssumption DEF TxTyped
<1>2. PICK b \in Seq(Nat) : b = flow.backlog
  BY <1>0 DEF FlowTyped
<1>3. rx' = rx /\ next_head' = next_head
  BY DEF ThreEmpty
<1>4. CASE tx.head = tx.tail
  <2>1. /\ uart' = [uart EXCEPT !.pending = FALSE, !.thre = FALSE]
        /\ tx' = [tx EXCEPT !.busy = FALSE] /\ flow' = flow
    BY <1>4 DEF ThreEmpty
  <2>2. UartTyped' /\ ~uart'.thre
    BY <2>1, <1>0 DEF UartTyped
  <2>3. TxTyped' /\ tx'.q = tx.q /\ tx'.head = tx.head /\ tx'.tail = tx.tail
    BY <2>1, <1>0 DEF TxTyped
  <2>4. ~flow.overtaken => Len(b) = 0
    <3>1. Dist(SERIAL_TX_QUEUE_SIZE, tx.tail, tx.head) = 0
      BY <1>1, <1>4 DEF Dist
    <3> QED BY <3>1, <1>0, <1>2 DEF TxFifo, RingHolds
  <2>5. TxFifo'
    BY <2>1, <2>2, <2>3, <2>4, <1>0, <1>2 DEF TxFifo
  <2> QED BY <2>1, <2>2, <2>3, <2>5, <1>0, <1>3 DEF SerialInv, WaitTyped, RxTyped, RxFifo, FlowTyped
<1>5. CASE tx.head # tx.tail
  <2> DEFINE ends == TxNext(tx.tail) = tx.head
  <2>1. /\ uart' = [Transmit(uart, tx.q[tx.tail]) EXCEPT !.thre = ~ends]
        /\ tx' = [tx EXCEPT !.tail = TxNext(@), !.busy = ~ends]
        /\ flow' = [flow EXCEPT !.backlog = IF @ = <<>> THEN @ ELSE Tail(@)]
    BY <1>5 DEF ThreEmpty
  <2>2. ends \in BOOLEAN /\ TxNext(tx.tail) \in 0 .. SERIAL_TX_QUEUE_SIZE - 1 /\ tx.q[tx.tail] \in Nat
    BY <1>1 DEF TxNext
  <2> HIDE DEF ends
  <2>3. UartTyped' /\ uart'.thre = ~ends /\ uart'.thr = tx.q[tx.tail]
    BY <2>1, <2>2, <1>0 DEF UartTyped, Transmit
  <2>4. TxTyped' /\ tx'.q = tx.q /\ tx'.head = tx.head /\ tx'.tail = TxNext(tx.tail) /\ tx'.busy = ~ends
    BY <2>1, <2>2, <1>0 DEF TxTyped
  <2>5. /\ FlowTyped' /\ flow'.received = flow.received /\ flow'.overtaken = flow.overtaken
        /\ flow'.backlog = IF b = <<>> THEN b ELSE Tail(b)
    <3>1. b # <<>> => Tail(b) \in Seq(Nat)
      BY HeadTailProperties
    <3> QED BY <3>1, <2>1, <1>0, <1>2 DEF FlowTyped
  <2>6. ASSUME ~flow.overtaken PROVE TxFifo'
    <3>1. RingHolds(SERIAL_TX_QUEUE_SIZE, tx.q, tx.tail, tx.head, b) /\ \A i \in 1 .. Len(b) : b[i] # 0
      BY <2>6, <1>0, <1>2 DEF TxFifo
    <3>2. /\ Dist(SERIAL_TX_QUEUE_SIZE, tx.tail, tx.head) \in Nat \ {0}
          /\ Place(SERIAL_TX_QUEUE_SIZE, tx.tail, 0) = tx.tail
      BY <1>1, <1>5 DEF Dist, Place
    <3>3. Len(b) \in Nat \ {0} /\ Len(b) = Dist(SERIAL_TX_QUEUE_SIZE, tx.tail, tx.head)
      BY <3>1, <3>2 DEF RingHolds
    <3>4. tx.q[tx.tail] # 0
      <4>1. 1 \in 1 .. Len(b) /\ 1 - 1 = 0
        BY <3>3
      <4>2. tx.q[Place(SERIAL_TX_QUEUE_SIZE, tx.tail, 1 - 1)] = b[1] /\ b[1] # 0
        BY <4>1, <3>1 DEF RingHolds
      <4> QED BY <4>1, <4>2, <3>2
    <3>5. PICK r \in Seq(Nat) : r = Tail(b) /\ Len(r) = Len(b) - 1 /\ \A i \in 1 .. Len(r) : r[i] = b[i + 1]
      <4>1. b # <<>>
        BY <3>3
      <4>2. Tail(b) \in Seq(Nat) /\ Len(Tail(b)) = Len(b) - 1 /\ \A i \in 1 .. Len(Tail(b)) : Tail(b)[i] = b[i + 1]
        BY <4>1, HeadTailProperties
      <4> QED BY <4>2
    <3>6. flow'.backlog = r
      BY <3>3, <3>5, <2>5
    <3>7. 1 \in 0 .. Len(b)
      BY <3>3
    <3>8. RingHolds(SERIAL_TX_QUEUE_SIZE, tx.q, TxNext(tx.tail), tx.head, r)
      <4>1. PICK z : z = (tx.tail + 1) % SERIAL_TX_QUEUE_SIZE
        OBVIOUS
      <4>2. Rest(b, 1, r)
        BY <3>5 DEF Rest
      <4>3. RingHolds(SERIAL_TX_QUEUE_SIZE, tx.q, z, tx.head, r)
        BY <4>1, <4>2, <3>1, <3>7, <1>1, RingTake
      <4> QED BY <4>1, <4>3 DEF TxNext
    <3>9. \A i \in 1 .. Len(r) : r[i] # 0
      BY <3>1, <3>3, <3>5
    <3>10. Len(r) # 0 => ~ends
      <4>1. TxNext(tx.tail) = tx.head => Len(r) = 0
        BY <3>8, <1>1 DEF RingHolds, Dist
      <4> QED BY <4>1 DEF ends
    <3> QED BY <3>4, <3>6, <3>8, <3>9, <3>10, <2>2, <2>3, <2>4 DEF TxFifo
  <2>7. TxFifo'
    BY <2>5, <2>6 DEF TxFifo
  <2>8. RxTyped' /\ RxFifo'
    BY <2>5, <1>0, <1>3, RxSame
  <2> QED BY <2>3, <2>4, <2>5, <2>7, <2>8, <1>0, <1>3 DEF SerialInv, WaitTyped
<1> QED BY <1>4, <1>5

(* What the output keeps when only the input moves. *)
LEMMA TxSame ==
    ASSUME TxTyped, TxFifo, WaitTyped, tx' = tx, next_head' = next_head,
           uart'.thr = uart.thr, uart'.thre = uart.thre, uart'.pending = uart.pending,
           flow'.backlog = flow.backlog, flow'.overtaken = flow.overtaken, flow'.taken = flow.taken
    PROVE  TxTyped' /\ TxFifo' /\ WaitTyped'
  BY DEF TxTyped, TxFifo, WaitTyped

(* A character arrives at the UART. *)
LEMMA ArriveStep ==
    ASSUME SerialInv, UartReceives
    PROVE  SerialInv'
<1>0. UartTyped /\ TxTyped /\ FlowTyped /\ TxFifo /\ RxTyped /\ RxFifo /\ WaitTyped /\ UartFifo \in Nat
  BY SerialAssumption DEF SerialInv
<1>1. /\ uart' = [uart EXCEPT !.fifo = IF Len(@) < UartFifo THEN Append(@, flow.arrived + 1) ELSE @]
      /\ flow' = [flow EXCEPT !.arrived = @ + 1] /\ tx' = tx /\ rx' = rx /\ next_head' = next_head
  BY DEF UartReceives
<1>2. /\ FlowTyped' /\ flow'.received = flow.received /\ flow'.backlog = flow.backlog
      /\ flow'.overtaken = flow.overtaken /\ flow'.taken = flow.taken /\ flow.arrived + 1 \in Nat
  <2>1. flow.arrived + 1 \in Nat
    BY <1>0 DEF FlowTyped
  <2>2. flow' = [flow EXCEPT !.arrived = flow.arrived + 1]
    BY <1>1
  <2> QED BY <2>1, <2>2, <1>0 DEF FlowTyped
<1>3. PICK f \in Seq(Nat) : f = uart.fifo
  BY <1>0 DEF UartTyped
<1>4. Append(f, flow.arrived + 1) \in Seq(Nat) /\ Len(Append(f, flow.arrived + 1)) = Len(f) + 1
  BY <1>2, AppendProperties
<1>5. UartTyped' /\ uart'.thr = uart.thr /\ uart'.thre = uart.thre /\ uart'.pending = uart.pending
  <2>1. CASE Len(f) < UartFifo
    <3>1. uart' = [uart EXCEPT !.fifo = Append(f, flow.arrived + 1)]
      BY <1>1, <1>3, <2>1
    <3>2. Len(f) + 1 <= UartFifo
      BY <2>1, <1>0
    <3> QED BY <3>1, <3>2, <1>0, <1>4 DEF UartTyped
  <2>2. CASE ~(Len(f) < UartFifo)
    <3>1. uart' = uart
      BY <1>0, <1>1, <1>3, <2>2 DEF UartTyped
    <3> QED BY <3>1, <1>0 DEF UartTyped
  <2> QED BY <2>1, <2>2
<1>6. TxTyped' /\ TxFifo' /\ WaitTyped'
  BY <1>0, <1>1, <1>2, <1>5, TxSame
<1>7. RxTyped' /\ RxFifo'
  BY <1>0, <1>1, <1>2, RxSame
<1> QED BY <1>2, <1>5, <1>6, <1>7 DEF SerialInv

(* The interrupt moves what the UART holds into the ring, as far as there   *)
(* is room.                                                                 *)
LEMMA DataStep ==
    ASSUME SerialInv, DataAvailable
    PROVE  SerialInv'
<1>0. UartTyped /\ TxTyped /\ FlowTyped /\ TxFifo /\ RxTyped /\ RxFifo /\ WaitTyped /\ UartFifo \in Nat
  BY SerialAssumption DEF SerialInv
<1>1. PICK N \in Nat \ {0, 1} : N = SERIAL_RX_QUEUE_SIZE
  BY SerialAssumption
<1>2. rx.q \in [0 .. N - 1 -> Nat] /\ rx.tail \in 0 .. N - 1 /\ rx.head \in 0 .. N - 1
  BY <1>0, <1>1 DEF RxTyped
<1>3. PICK s \in Seq(Nat), f \in Seq(Nat) : s = flow.received /\ f = uart.fifo
  BY <1>0 DEF FlowTyped, UartTyped
<1>4. RingHolds(N, rx.q, rx.tail, rx.head, s)
  BY <1>0, <1>1, <1>3 DEF RxFifo
<1>5. RxHeld = s
  BY <1>1, <1>2, <1>4, BetweenIs DEF RxHeld
<1>6. Len(s) \in 0 .. N - 1
  <2>1. Dist(N, rx.tail, rx.head) \in 0 .. N - 1
    BY <1>2, DistMod
  <2> QED BY <2>1, <1>4 DEF RingHolds
<1>7. PICK n \in 0 .. Len(f) :
        /\ n = IF Len(f) < N - 1 - Len(s) THEN Len(f) ELSE N - 1 - Len(s)
        /\ Len(s) + n < N
  <2>1. Len(f) \in Nat /\ Len(s) \in Nat
    OBVIOUS
  <2>2. CASE Len(f) < N - 1 - Len(s)
    <3>1. Len(f) \in 0 .. Len(f) /\ Len(s) + Len(f) < N
      BY <2>1, <2>2
    <3> QED BY <2>2, <3>1
  <2>3. CASE ~(Len(f) < N - 1 - Len(s))
    <3>1. N - 1 - Len(s) \in 0 .. Len(f) /\ Len(s) + (N - 1 - Len(s)) < N
      BY <2>1, <2>3, <1>6
    <3> QED BY <2>3, <3>1
  <2> QED BY <2>2, <2>3
<1> DEFINE slot(i) == (rx.head + i - 1) % N
           p == [k \in 0 .. N - 1 |-> IF \E i \in 1 .. n : slot(i) = k
                                      THEN f[CHOOSE i \in 1 .. n : slot(i) = k] ELSE rx.q[k]]
<1>8. /\ rx' = [rx EXCEPT !.q = p, !.head = (rx.head + n) % N]
      /\ flow' = [flow EXCEPT !.received = s \o SubSeq(f, 1, n)]
      /\ uart' = [uart EXCEPT !.fifo = <<>>] /\ tx' = tx /\ next_head' = next_head
  <2>1. DOMAIN rx.q = 0 .. N - 1
    BY <1>2
  <2> QED BY <2>1, <1>1, <1>3, <1>5, <1>7 DEF DataAvailable
<1>9. PICK g \in Seq(Nat) : g = SubSeq(f, 1, n) /\ Len(g) = n /\ \A i \in 1 .. n : g[i] = f[i]
  <2>1. n <= Len(f) /\ n \in Nat
    OBVIOUS
  <2>2. SubSeq(f, 1, n) \in Seq(Nat) /\ Len(SubSeq(f, 1, n)) = n
        /\ \A i \in 1 .. n : SubSeq(f, 1, n)[i] = f[1 + i - 1]
    BY <2>1, SubSeqProperties
  <2>3. \A i \in 1 .. n : 1 + i - 1 = i
    OBVIOUS
  <2>4. \A i \in 1 .. n : SubSeq(f, 1, n)[i] = f[i]
    BY <2>2, <2>3
  <2> QED BY <2>2, <2>4
<1>10. ASSUME NEW k \in 0 .. N - 1, NEW i \in 1 .. n, slot(i) = k
       PROVE  p[k] = f[i]
  <2>1. PICK j : j = CHOOSE x \in 1 .. n : slot(x) = k
    OBVIOUS
  <2>2. j \in 1 .. n /\ slot(j) = k
    BY <2>1, <1>10
  <2>3. i \in 1 .. N - 1 /\ j \in 1 .. N - 1
    BY <2>2, <1>6, <1>7
  <2>4. i = j
    BY <2>2, <2>3, <1>2, <1>10, SlotOnce
  <2> QED BY <2>1, <2>4, <1>10
<1>11. \A k \in 0 .. N - 1 : (\A i \in 1 .. n : slot(i) # k) => p[k] = rx.q[k]
  OBVIOUS
<1>12. p \in [0 .. N - 1 -> Nat]
  <2>1. ASSUME NEW k \in 0 .. N - 1 PROVE p[k] \in Nat
    <3>1. CASE \E i \in 1 .. n : slot(i) = k
      <4>1. PICK i \in 1 .. n : slot(i) = k
        BY <3>1
      <4>2. p[k] = f[i]
        BY <4>1, <1>10
      <4>3. f[i] \in Nat
        BY <1>7
      <4> QED BY <4>2, <4>3
    <3>2. CASE ~ \E i \in 1 .. n : slot(i) = k
      BY <3>2, <1>2, <1>11
    <3> QED BY <3>1, <3>2
  <2> QED BY <2>1
<1> HIDE DEF p
<1>13. RingHolds(N, p, rx.tail, (rx.head + n) % N, s \o g) /\ (rx.head + n) % N \in 0 .. N - 1
  <2>1. \A k \in 0 .. N - 1 : \A i \in 1 .. Len(g) : (rx.head + i - 1) % N = k => p[k] = g[i]
    BY <1>9, <1>10
  <2>2. \A k \in 0 .. N - 1 : (\A i \in 1 .. Len(g) : (rx.head + i - 1) % N # k) => p[k] = rx.q[k]
    BY <1>9, <1>11
  <2>3. Len(s) + Len(g) < N
    BY <1>7, <1>9
  <2>4. /\ RingHolds(N, p, rx.tail, (rx.head + Len(g)) % N, s \o g)
        /\ (rx.head + Len(g)) % N \in 0 .. N - 1
    <3>1. PICK t \in 0 .. N - 1, h \in 0 .. N - 1, q \in [0 .. N - 1 -> Nat] : t = rx.tail /\ h = rx.head /\ q = rx.q
      BY <1>2
    <3>2. RingHolds(N, q, t, h, s)
      BY <3>1, <1>4
    <3>4. Filling(N, q, h, g, p)
      BY <2>1, <2>2, <3>1 DEF Filling
    <3>5. PICK z : z = (h + Len(g)) % N
      OBVIOUS
    <3>6. RingHolds(N, p, t, z, s \o g) /\ z \in 0 .. N - 1
      BY <3>2, <3>4, <3>5, <2>3, RingFill
    <3> QED BY <3>1, <3>5, <3>6
  <2> QED BY <2>4, <1>9
<1>14. s \o g \in Seq(Nat)
  BY ConcatProperties
<1>15. RxTyped' /\ rx'.q = p /\ rx'.tail = rx.tail /\ rx'.head = (rx.head + n) % N
  <2>1. PICK z \in 0 .. N - 1 : z = (rx.head + n) % N
    BY <1>13
  <2>2. rx' = [rx EXCEPT !.q = p, !.head = z]
    BY <1>8, <2>1
  <2>3. RxTyped' /\ rx'.q = p /\ rx'.tail = rx.tail /\ rx'.head = z
    BY <2>2, <1>0, <1>1, <1>12 DEF RxTyped
  <2> QED BY <2>1, <2>3
<1>16. /\ FlowTyped' /\ flow'.received = s \o g
       /\ flow'.backlog = flow.backlog /\ flow'.overtaken = flow.overtaken /\ flow'.taken = flow.taken
  BY <1>0, <1>8, <1>9, <1>14 DEF FlowTyped
<1>17. RxFifo'
  BY <1>1, <1>13, <1>15, <1>16 DEF RxFifo
<1>18. UartTyped' /\ uart'.thr = uart.thr /\ uart'.thre = uart.thre /\ uart'.pending = uart.pending
  <2>1. PICK e \in Seq(Nat) : e = <<>> /\ Len(e) <= UartFifo
    <3>1. <<>> \in Seq(Nat) /\ Len(<<>>) = 0 /\ 0 <= UartFifo
      BY <1>0
    <3> QED BY <3>1
  <2>2. uart' = [uart EXCEPT !.fifo = e]
    BY <2>1, <1>8
  <2> QED BY <2>1, <2>2, <1>0 DEF UartTyped
<1>19. TxTyped' /\ TxFifo' /\ WaitTyped'
  BY <1>0, <1>8, <1>16, <1>18, TxSame
<1> QED BY <1>15, <1>16, <1>17, <1>18, <1>19 DEF SerialInv

(* Characters are read: the first n of them. *)
LEMMA ReadN ==
    ASSUME SerialInv, NEW n \in Nat, n <= Len(flow.received), uart' = uart, tx' = tx, next_head' = next_head,
           rx' = [rx EXCEPT !.tail = (rx.tail + n) % SERIAL_RX_QUEUE_SIZE],
           NEW r \in Seq(Nat), Rest(flow.received, n, r), flow' = [flow EXCEPT !.received = r]
    PROVE  SerialInv'
<1>0. UartTyped /\ TxTyped /\ FlowTyped /\ TxFifo /\ RxTyped /\ RxFifo /\ WaitTyped
  BY DEF SerialInv
<1>1. PICK N \in Nat \ {0, 1} : N = SERIAL_RX_QUEUE_SIZE
  BY SerialAssumption
<1>2. rx.q \in [0 .. N - 1 -> Nat] /\ rx.tail \in 0 .. N - 1 /\ rx.head \in 0 .. N - 1
  BY <1>0, <1>1 DEF RxTyped
<1>3. PICK s \in Seq(Nat) : s = flow.received
  BY <1>0 DEF FlowTyped
<1>4. RingHolds(N, rx.q, rx.tail, rx.head, s)
  BY <1>0, <1>1, <1>3 DEF RxFifo
<1>5. n \in 0 .. Len(s) /\ Rest(s, n, r)
  BY <1>3
<1>6. RingHolds(N, rx.q, (rx.tail + n) % N, rx.head, r) /\ (rx.tail + n) % N \in 0 .. N - 1
  <2>1. PICK t \in 0 .. N - 1, h \in 0 .. N - 1, q \in [0 .. N - 1 -> Nat] : t = rx.tail /\ h = rx.head /\ q = rx.q
    BY <1>2
  <2>2. RingHolds(N, q, t, h, s)
    BY <2>1, <1>4
  <2>3. PICK z : z = (t + n) % N
    OBVIOUS
  <2>4. RingHolds(N, q, z, h, r) /\ z \in 0 .. N - 1
    BY <2>2, <2>3, <1>5, RingTake
  <2> QED BY <2>1, <2>3, <2>4
<1>7. PICK z \in 0 .. N - 1 : z = (rx.tail + n) % N
  BY <1>6
<1>8. rx' = [rx EXCEPT !.tail = z]
  BY <1>1, <1>7
<1>9. RxTyped' /\ rx'.q = rx.q /\ rx'.head = rx.head /\ rx'.tail = z
  BY <1>0, <1>1, <1>8 DEF RxTyped
<1>10. /\ FlowTyped' /\ flow'.received = r
       /\ flow'.backlog = flow.backlog /\ flow'.overtaken = flow.overtaken /\ flow'.taken = flow.taken
  BY <1>0 DEF FlowTyped
<1>11. RxFifo'
  BY <1>1, <1>6, <1>7, <1>9, <1>10 DEF RxFifo
<1>12. TxTyped' /\ TxFifo' /\ WaitTyped'
  BY <1>0, <1>10, TxSame
<1> QED BY <1>0, <1>9, <1>10, <1>11, <1>12 DEF SerialInv, UartTyped

(* What the two rings hold is what the history says. *)
LEMMA HeldIs ==
    ASSUME SerialInv
    PROVE  RxHeld = flow.received /\ (~flow.overtaken => TxHeld = flow.backlog)
<1>0. TxTyped /\ FlowTyped /\ TxFifo /\ RxTyped /\ RxFifo
  BY DEF SerialInv
<1>1. SERIAL_TX_QUEUE_SIZE \in Nat \ {0, 1} /\ SERIAL_RX_QUEUE_SIZE \in Nat \ {0, 1}
  BY SerialAssumption
<1>2. flow.received \in Seq(Nat) /\ flow.backlog \in Seq(Nat)
  BY <1>0 DEF FlowTyped
<1>3. RxHeld = flow.received
  <2>1. rx.tail \in 0 .. SERIAL_RX_QUEUE_SIZE - 1 /\ rx.head \in 0 .. SERIAL_RX_QUEUE_SIZE - 1
    BY <1>0 DEF RxTyped
  <2>2. RingHolds(SERIAL_RX_QUEUE_SIZE, rx.q, rx.tail, rx.head, flow.received)
    BY <1>0 DEF RxFifo
  <2> QED BY <2>1, <2>2, <1>1, <1>2, BetweenIs DEF RxHeld
<1>4. ASSUME ~flow.overtaken PROVE TxHeld = flow.backlog
  <2>1. tx.tail \in 0 .. SERIAL_TX_QUEUE_SIZE - 1 /\ tx.head \in 0 .. SERIAL_TX_QUEUE_SIZE - 1
    BY <1>0 DEF TxTyped
  <2>2. RingHolds(SERIAL_TX_QUEUE_SIZE, tx.q, tx.tail, tx.head, flow.backlog)
    BY <1>0, <1>4 DEF TxFifo
  <2> QED BY <2>1, <2>2, <1>1, <1>2, BetweenIs DEF TxHeld
<1> QED BY <1>3, <1>4

(* The three ways to read. *)
LEMMA ReadStep ==
    ASSUME SerialInv, (\E size \in 1 .. 2 : ChardevRead(size)) \/ DevRead \/ ClearRxQueue
    PROVE  SerialInv'
<1>0. FlowTyped /\ RxTyped /\ RxFifo
  BY DEF SerialInv
<1>1. PICK s \in Seq(Nat) : s = flow.received
  BY <1>0 DEF FlowTyped
<1>2. RxHeld = s
  BY <1>1, HeldIs
<1>3. PICK N \in Nat \ {0, 1} : N = SERIAL_RX_QUEUE_SIZE
  BY SerialAssumption
<1>4. rx.tail \in 0 .. N - 1 /\ rx.head \in 0 .. N - 1
  BY <1>0, <1>3 DEF RxTyped
<1>5. Len(s) = Dist(N, rx.tail, rx.head)
  BY <1>0, <1>1, <1>3 DEF RxFifo, RingHolds
<1>6. ASSUME NEW size \in 1 .. 2, ChardevRead(size) PROVE SerialInv'
  <2>1. PICK n \in Nat : n = (IF Len(s) < size THEN Len(s) ELSE size) /\ n <= Len(s)
    <3>1. CASE Len(s) < size
      BY <3>1
    <3>2. CASE ~(Len(s) < size)
      <4>1. size \in Nat /\ size <= Len(s)
        BY <3>2
      <4> QED BY <3>2, <4>1
    <3> QED BY <3>1, <3>2
  <2>2. /\ rx' = [rx EXCEPT !.tail = (rx.tail + n) % SERIAL_RX_QUEUE_SIZE]
        /\ flow' = [flow EXCEPT !.received = SubSeq(s, n + 1, Len(s))]
        /\ uart' = uart /\ tx' = tx /\ next_head' = next_head
    BY <1>1, <1>2, <1>6, <2>1 DEF ChardevRead
  <2>3. PICK r \in Seq(Nat) : r = SubSeq(s, n + 1, Len(s)) /\ Rest(s, n, r)
    <3>1. n + 1 \in 1 .. Len(s) + 1 /\ Len(s) \in Nat
      BY <2>1
    <3>2. /\ SubSeq(s, n + 1, Len(s)) \in Seq(Nat)
          /\ Len(SubSeq(s, n + 1, Len(s))) = Len(s) - n
          /\ \A i \in 1 .. Len(s) - n : SubSeq(s, n + 1, Len(s))[i] = s[i + n]
      <4> DEFINE a == n + 1
      <4>1. /\ a \in 1 .. Len(s) + 1 /\ Len(s) \in a - 1 .. Len(s)
            /\ (IF a <= Len(s) THEN Len(s) - a + 1 ELSE 0) = Len(s) - n
            /\ \A i \in 1 .. Len(s) - n : a + i - 1 = i + n
        <5>1. a = n + 1 /\ a \in Nat /\ n <= Len(s) /\ Len(s) \in Nat
          BY <2>1, <3>1
        <5> HIDE DEF a
        <5>2. \A i \in 1 .. Len(s) - n : a + i - 1 = i + n
          BY <5>1
        <5>3. a \in 1 .. Len(s) + 1 /\ Len(s) \in a - 1 .. Len(s)
          BY <5>1
        <5>4. (IF a <= Len(s) THEN Len(s) - a + 1 ELSE 0) = Len(s) - n
          BY <5>1
        <5> QED BY <5>2, <5>3, <5>4
      <4> HIDE DEF a
      <4>2. /\ SubSeq(s, a, Len(s)) \in Seq(Nat)
            /\ Len(SubSeq(s, a, Len(s))) = IF a <= Len(s) THEN Len(s) - a + 1 ELSE 0
            /\ \A i \in 1 .. Len(s) - a + 1 : SubSeq(s, a, Len(s))[i] = s[a + i - 1]
        BY <4>1, SubSeqProperties
      <4>3. \A i \in 1 .. Len(s) - n : SubSeq(s, a, Len(s))[i] = s[i + n]
        <5>1. Len(s) - a + 1 = Len(s) - n
          BY <2>1, <3>1 DEF a
        <5> QED BY <4>1, <4>2, <5>1
      <4> QED BY <4>1, <4>2, <4>3 DEF a
    <3> QED BY <3>2 DEF Rest
  <2> QED BY <1>1, <2>1, <2>2, <2>3, ReadN
<1>7. CASE DevRead
  <2>1. /\ rx' = [rx EXCEPT !.tail = (rx.tail + 1) % SERIAL_RX_QUEUE_SIZE]
        /\ flow' = [flow EXCEPT !.received = Tail(s)]
        /\ uart' = uart /\ tx' = tx /\ next_head' = next_head
    BY <1>1, <1>7 DEF DevRead, RxNext
  <2>2. 1 \in Nat /\ 1 <= Len(s)
    <3>1. Dist(N, rx.tail, rx.head) >= 1
      BY <1>4, <1>7 DEF DevRead, Dist
    <3> QED BY <3>1, <1>5
  <2>3. PICK r \in Seq(Nat) : r = Tail(s) /\ Rest(s, 1, r)
    <3>1. s # <<>>
      BY <2>2
    <3>2. Tail(s) \in Seq(Nat) /\ Len(Tail(s)) = Len(s) - 1 /\ \A i \in 1 .. Len(Tail(s)) : Tail(s)[i] = s[i + 1]
      BY <3>1, HeadTailProperties
    <3> QED BY <3>2 DEF Rest
  <2> QED BY <1>1, <2>1, <2>2, <2>3, ReadN
<1>8. CASE ClearRxQueue
  <2>1. /\ rx' = [rx EXCEPT !.tail = rx.head]
        /\ flow' = [flow EXCEPT !.received = <<>>]
        /\ uart' = uart /\ tx' = tx /\ next_head' = next_head
    BY <1>8 DEF ClearRxQueue
  <2>2. rx' = [rx EXCEPT !.tail = (rx.tail + Len(s)) % SERIAL_RX_QUEUE_SIZE]
    <3>1. Len(s) \in 0 .. N
      <4>1. Dist(N, rx.tail, rx.head) \in 0 .. N - 1
        BY <1>4, DistMod
      <4> QED BY <4>1, <1>5
    <3>2. (rx.tail + Len(s)) % N = Place(N, rx.tail, Len(s))
      BY <3>1, <1>4, PlaceMod
    <3>3. Place(N, rx.tail, Len(s)) = rx.head
      BY <1>4, <1>5 DEF Place, Dist
    <3> QED BY <2>1, <3>2, <3>3, <1>3
  <2>3. PICK r \in Seq(Nat) : r = <<>> /\ Len(r) = 0
    <3>1. <<>> \in Seq(Nat) /\ Len(<<>>) = 0
      OBVIOUS
    <3> QED BY <3>1
  <2>4. Len(s) \in Nat /\ Len(s) <= Len(flow.received) /\ Rest(flow.received, Len(s), r)
    BY <2>3, <1>1 DEF Rest
  <2> QED BY <2>1, <2>2, <2>3, <2>4, ReadN
<1> QED BY <1>6, <1>7, <1>8

(* Both rings are empty at first. *)
LEMMA InitSerial == SerialInit => SerialInv
<1> SUFFICES ASSUME SerialInit PROVE SerialInv
  OBVIOUS
<1>1. SERIAL_TX_QUEUE_SIZE \in Nat \ {0, 1} /\ SERIAL_RX_QUEUE_SIZE \in Nat \ {0, 1} /\ UartFifo \in Nat
  BY SerialAssumption
<1>2. <<>> \in Seq(Nat) /\ Len(<<>>) = 0
  OBVIOUS
<1>3. UartTyped
  BY <1>1, <1>2 DEF SerialInit, UartTyped
<1>4. TxTyped
  BY <1>1 DEF SerialInit, TxTyped
<1>5. RxTyped
  BY <1>1 DEF SerialInit, RxTyped
<1>6. WaitTyped
  BY <1>1 DEF SerialInit, WaitTyped
<1>7. FlowTyped
  BY <1>2 DEF SerialInit, FlowTyped
<1>8. RxFifo
  <2>1. Dist(SERIAL_RX_QUEUE_SIZE, 0, 0) = 0
    BY DEF Dist
  <2>2. rx.tail = 0 /\ rx.head = 0 /\ flow.received = <<>>
    BY DEF SerialInit
  <2> QED BY <2>1, <2>2, <1>2 DEF RxFifo, RingHolds
<1>9. TxFifo
  <2>1. Dist(SERIAL_TX_QUEUE_SIZE, 0, 0) = 0
    BY DEF Dist
  <2>2. tx.tail = 0 /\ tx.head = 0 /\ flow.backlog = <<>> /\ ~uart.thre
    BY DEF SerialInit
  <2> QED BY <2>1, <2>2, <1>2 DEF TxFifo, RingHolds
<1> QED BY <1>3, <1>4, <1>5, <1>6, <1>7, <1>8, <1>9 DEF SerialInv

(* The invariant is kept by every step of a port. *)
LEMMA SerialStep == SerialInv /\ [SerialNext]_SerialVars => SerialInv'
<1> SUFFICES ASSUME SerialInv, [SerialNext]_SerialVars PROVE SerialInv'
  OBVIOUS
<1>1. CASE UNCHANGED SerialVars
  BY <1>1 DEF SerialVars, SerialInv, UartTyped, TxTyped, RxTyped, WaitTyped, FlowTyped, RxFifo, TxFifo
<1>2. CASE \E w \in SerialWriters : WriteChar(w) \/ WriteResumes(w)
  BY <1>2, WriteStep
<1>3. CASE WritePolled \/ UartSends \/ DumpStatus
  BY <1>3, LineStep
<1>4. CASE ThreEmpty
  BY <1>4, ThreStep
<1>5. CASE UartReceives
  BY <1>5, ArriveStep
<1>6. CASE DataAvailable
  BY <1>6, DataStep
<1>7. CASE (\E size \in 1 .. 2 : ChardevRead(size)) \/ DevRead \/ ClearRxQueue
  BY <1>7, ReadStep
<1> QED BY <1>1, <1>2, <1>3, <1>4, <1>5, <1>6, <1>7 DEF SerialNext

(* What the port promises follows. *)
LEMMA SerialImplies == SerialInv => SerialSound /\ SerialTypeOK
<1> SUFFICES ASSUME SerialInv PROVE SerialSound /\ SerialTypeOK
  OBVIOUS
<1>0. UartTyped /\ TxTyped /\ FlowTyped /\ TxFifo /\ RxTyped /\ WaitTyped
  BY DEF SerialInv
<1>1. SerialTypeOK
  BY <1>0 DEF SerialTypeOK, UartTyped, TxTyped, RxTyped, WaitTyped
<1>2. RxHeld = flow.received
  BY HeldIs
<1>3. ASSUME ~flow.overtaken
      PROVE  /\ TxHeld = flow.backlog
             /\ TxHeld # <<>> => tx.busy /\ uart.thre /\ (uart.pending \/ uart.thr # 0 \/ flow.taken)
             /\ ~tx.busy => TxHeld = <<>>
  <2>1. TxHeld = flow.backlog
    BY <1>3, HeldIs
  <2>2. Len(flow.backlog) = 0 <=> flow.backlog = <<>>
    BY <1>0 DEF FlowTyped
  <2>3. /\ uart.thre /\ uart.thr = 0 => uart.pending \/ flow.taken
        /\ Len(flow.backlog) # 0 => tx.busy /\ uart.thre
    BY <1>0, <1>3 DEF TxFifo
  <2> QED BY <2>1, <2>2, <2>3
<1>4. SerialSound
  BY <1>2, <1>3 DEF SerialSound
<1> QED BY <1>1, <1>4

(* Both rings are queues and output does not stall as long as no writer     *)
(* overtook a waiting one and no status command took the last interrupt,    *)
(* for any sizes of the rings and of the UART's FIFO and any writers        *)
(* (serial_write_char, serial_irq_handler_line, serial_chardev_read,        *)
(* serial_dump_status).                                                     *)
THEOREM SerialCorrect == SerialSpec => []SerialSound
  BY InitSerial, SerialStep, SerialImplies, PTL DEF SerialSpec

(* The indices stay inside their rings and the UART inside its FIFO. *)
THEOREM SerialTypeCorrect == SerialSpec => []SerialTypeOK
  BY InitSerial, SerialStep, SerialImplies, PTL DEF SerialSpec

-----------------------------------------------------------------------------
(* The block device layer. *)

(* A transfer that meets only the sectors it should, and all of them when it *)
(* reports success and nothing was lost.                                    *)
Good(o, u, at, n) ==
    /\ o.moved \subseteq Pairs(u, at, 0, n)
    /\ o.res = "ok" /\ ~o.lost => o.moved = Pairs(u, at, 0, n)

(* A transfer that was refused has met nothing. *)
LEMMA RefusedGood ==
    ASSUME NEW res, res # "ok", NEW u, NEW at, NEW n, NEW o \in Refused(res)
    PROVE  Good(o, u, at, n)
BY DEF Refused, Outcome, Good

(* Fewer sectors meet less. *)
LEMMA PairsMonotone ==
    ASSUME NEW u, NEW at \in Nat, NEW n \in Nat, NEW m \in 0 .. n
    PROVE  Pairs(u, at, 0, m) \subseteq Pairs(u, at, 0, n)
  <1>1. ASSUME NEW p \in Pairs(u, at, 0, m) PROVE p \in Pairs(u, at, 0, n)
    <2>0. m \in Nat /\ m <= n
      OBVIOUS
    <2>1. PICK i \in 0 .. 0 + m - 1 : p = <<i, u, at + i>>
      BY DEF Pairs
    <2>2. i \in 0 .. 0 + n - 1
      BY <2>0, <2>1
    <2> QED BY <2>1, <2>2 DEF Pairs
  <1> QED BY <1>1

(* A state of the retry loop: so many sectors are done, and those, and no    *)
(* others, have met their sectors of the disk unless one was refused.       *)
LoopState(s, n, u, lba) ==
    /\ s.done \in 0 .. n
    /\ s.moved \subseteq Pairs(u, lba, 0, s.done)
    /\ ~s.lost => s.moved = Pairs(u, lba, 0, s.done)
    /\ s.ok => s.done = n

(* The smaller of two numbers. *)
LEMMA MinTwo ==
    ASSUME NEW a \in Nat, NEW b \in Nat
    PROVE  Min({a, b}) \in Nat /\ Min({a, b}) \in {a, b} /\ Min({a, b}) <= a /\ Min({a, b}) <= b
BY MinNat

Stretch(u, lba, d, k) == {<<d + i, u, lba + d + i>> : i \in 0 .. k - 1}

(* The sectors of a stretch follow the ones before it. *)
LEMMA PairsExtend ==
    ASSUME NEW u, NEW lba \in Nat, NEW d \in Nat, NEW k \in Nat
    PROVE  Pairs(u, lba, 0, d) \cup Stretch(u, lba, d, k) = Pairs(u, lba, 0, d + k)
  <1> DEFINE A == {<<i, u, lba + i>> : i \in 0 .. d - 1}
             B == {<<d + i, u, lba + d + i>> : i \in 0 .. k - 1}
             C == {<<i, u, lba + i>> : i \in 0 .. d + k - 1}
  <1>1. ASSUME NEW x \in A PROVE x \in C
    BY <1>1
  <1>2. ASSUME NEW x \in B PROVE x \in C
    <2>1. PICK i \in 0 .. k - 1 : x = <<d + i, u, lba + d + i>>
      BY <1>2
    <2>2. d + i \in 0 .. d + k - 1 /\ lba + d + i = lba + (d + i)
      OBVIOUS
    <2> QED BY <2>1, <2>2
  <1>3. ASSUME NEW x \in C PROVE x \in A \cup B
    <2>1. PICK i \in 0 .. d + k - 1 : x = <<i, u, lba + i>>
      BY <1>3
    <2>2. CASE i < d
      BY <2>1, <2>2
    <2>3. CASE i >= d
      <3>1. i - d \in 0 .. k - 1 /\ d + (i - d) = i /\ lba + d + (i - d) = lba + i
        BY <2>3
      <3> QED BY <2>1, <3>1
    <2> QED BY <2>2, <2>3
  <1>4. A \cup B = C
    BY <1>1, <1>2, <1>3
  <1>5. Pairs(u, lba, 0, d) = A
    BY DEF Pairs
  <1>6. Pairs(u, lba, 0, d + k) = C
    BY DEF Pairs
  <1>7. Stretch(u, lba, d, k) = B
    BY DEF Stretch
  <1> HIDE DEF A, B, C
  <1> QED BY <1>4, <1>5, <1>6, <1>7

(* A turn of the retry loop keeps what a state says. *)
LEMMA TurnLemma ==
    ASSUME NEW n \in Nat, NEW u, NEW lba \in Nat, NEW w \in BOOLEAN, NEW fate \in IdeFates(w),
           NEW s, LoopState(s, n, u, lba)
    PROVE  LoopState(Turn(s, n, u, lba, fate), n, u, lba)
  <1> DEFINE chunk == Min({n - s.done, MaxChunk})
             stop == IF fate.how \in {"drq", "refuse"} THEN Min({fate.at, chunk}) ELSE chunk
             refused == fate.how = "refuse" /\ fate.at < chunk
             one == IF refused THEN 1 ELSE 0
             done == s.done + stop + one
             B == Stretch(u, lba, s.done, stop)
  <1>0. s.done \in Nat /\ n - s.done \in Nat /\ MaxChunk \in Nat /\ fate.at \in Nat
    BY SizesAssumption DEF IdeFates, LoopState
  <1>1. chunk \in Nat /\ chunk <= n - s.done
    BY <1>0, MinTwo
  <1>2. stop \in Nat /\ stop <= chunk /\ (refused => stop < chunk)
    <2> HIDE DEF chunk
    <2>1. Min({fate.at, chunk}) \in Nat /\ Min({fate.at, chunk}) <= chunk /\ Min({fate.at, chunk}) <= fate.at
      BY <1>0, <1>1, MinTwo
    <2> QED BY <2>1, <1>1, <1>0
  <1>3. one \in {0, 1} /\ (refused <=> one = 1)
    OBVIOUS
  <1> DEFINE r == Turn(s, n, u, lba, fate)
  <1>4. CASE fate.how = "prepare"
    <2>1. r = s
      BY <1>4 DEF Turn
    <2> QED BY <2>1
  <1>5. CASE fate.how # "prepare"
    <2>1. r = [done |-> done, moved |-> s.moved \cup B, ok |-> (done = n /\ fate.fine),
               lost |-> (s.lost \/ refused)]
      BY <1>5 DEF Turn, Stretch
    <2> HIDE DEF done, B, refused
    <2> HIDE DEF r, chunk, stop, one
    <2>2. r.done = done /\ r.moved = s.moved \cup B /\ (r.ok => done = n) /\ (r.lost = (s.lost \/ refused))
      <3>1. r.done = done /\ r.moved = s.moved \cup B
        BY <2>1
      <3>2. r.ok = (done = n /\ fate.fine)
        BY <2>1, Zenon
      <3>3. r.lost = (s.lost \/ refused)
        BY <2>1, Zenon
      <3> QED BY <3>1, <3>2, <3>3
    <2>3. Pairs(u, lba, 0, s.done) \cup B = Pairs(u, lba, 0, s.done + stop)
      BY <1>0, <1>2, PairsExtend DEF B
    <2>4. done \in 0 .. n /\ s.done + stop \in 0 .. done
      BY <1>0, <1>1, <1>2, <1>3 DEF done
    <2>5. Pairs(u, lba, 0, s.done + stop) \subseteq Pairs(u, lba, 0, done)
      BY <2>4, PairsMonotone
    <2>6. r.moved \subseteq Pairs(u, lba, 0, done)
      BY <2>2, <2>3, <2>5 DEF LoopState
    <2>7. ASSUME ~r.lost PROVE r.moved = Pairs(u, lba, 0, done)
      <3>1. ~s.lost /\ ~refused
        BY <2>7, <2>2
      <3>2. done = s.done + stop
        BY <3>1, <1>3, <1>0, <1>2 DEF done
      <3>3. s.moved = Pairs(u, lba, 0, s.done)
        BY <3>1 DEF LoopState
      <3> QED BY <2>2, <2>3, <3>2, <3>3
    <2>8. LoopState(r, n, u, lba)
      BY <2>2, <2>4, <2>6, <2>7 DEF LoopState
    <2> QED BY <2>8 DEF r
  <1> QED BY <1>4, <1>5

LoopStep(fates, n, u, lba, S) ==
    UNION {IF s.ok \/ s.done >= n THEN {s} ELSE {Turn(s, n, u, lba, f) : f \in fates} : s \in S}

LoopStart == {[done |-> 0, moved |-> {}, ok |-> FALSE, lost |-> FALSE]}

IsLoop(fates, n, u, lba, m, g) ==
    g = [k \in 0 .. m |-> IF k = 0 THEN LoopStart ELSE LoopStep(fates, n, u, lba, g[k - 1])]

(* Each turn of the retry loop is computed from the one before. *)
LEMMA LoopExists ==
    ASSUME NEW fates, NEW n, NEW u, NEW lba, NEW t \in Nat
    PROVE  \E g : IsLoop(fates, n, u, lba, t, g)
  <1> DEFINE Step(S) == LoopStep(fates, n, u, lba, S)
             Bad == {m \in Nat : ~\E g : IsLoop(fates, n, u, lba, m, g)}
  <1>1. Bad = {}
    <2> SUFFICES ASSUME Bad # {} PROVE FALSE
      OBVIOUS
    <2>1. PICK m \in Bad : \A k \in Bad : m <= k
      BY LeastNat
    <2>2. IsLoop(fates, n, u, lba, 0, [k \in 0 .. 0 |-> LoopStart])
      BY DEF IsLoop
    <2>3. m # 0
      BY <2>1, <2>2
    <2>4. m - 1 \in Nat /\ m - 1 \notin Bad /\ m \in Nat
      <3>1. m \in Nat
        OBVIOUS
      <3> HIDE DEF Bad
      <3> QED BY <3>1, <2>1, <2>3
    <2>5. PICK g : IsLoop(fates, n, u, lba, m - 1, g)
      BY <2>4
    <2> HIDE DEF Step
    <2> DEFINE h == [k \in 0 .. m |-> IF k = m THEN Step(g[m - 1]) ELSE g[k]]
    <2>6. \A k \in 0 .. m - 1 : g[k] = IF k = 0 THEN LoopStart ELSE Step(g[k - 1])
      BY <2>5, Zenon DEF IsLoop, Step
    <2>7. ASSUME NEW k \in 0 .. m PROVE h[k] = IF k = 0 THEN LoopStart ELSE Step(h[k - 1])
      <3>1. CASE k = m
        <4>1. h[k] = Step(g[m - 1])
          BY <3>1, <2>4
        <4>2. h[k - 1] = g[m - 1]
          BY <3>1, <2>4, <2>3
        <4> QED BY <4>1, <4>2, <3>1, <2>3
      <3>2. CASE k # m
        <4>1. k \in 0 .. m - 1 /\ h[k] = g[k]
          BY <3>2, <2>4
        <4>2. k # 0 => h[k - 1] = g[k - 1]
          BY <4>1, <2>4
        <4> QED BY <4>1, <4>2, <2>6
      <3> QED BY <3>1, <3>2
    <2>8. h = [k \in 0 .. m |-> h[k]]
      OBVIOUS
    <2>9. IsLoop(fates, n, u, lba, m, h)
      <3> HIDE DEF h
      <3> QED BY <2>7, <2>8, Zenon DEF IsLoop, Step
    <2> QED BY <2>1, <2>9
  <1> QED BY <1>1

(* However the turns of a retry loop end, its last state is sound. *)
LEMMA LoopLemma ==
    ASSUME NEW n \in Nat, NEW u, NEW lba \in Nat, NEW w \in BOOLEAN,
           NEW s \in PioLoop(IdeFates(w), n, u, lba)
    PROVE  LoopState(s, n, u, lba)
  <1> DEFINE F == IdeFates(w)
  <1>0. Retries \in Nat
    BY SizesAssumption
  <1> DEFINE g == CHOOSE f : IsLoop(F, n, u, lba, Retries, f)
  <1>1. IsLoop(F, n, u, lba, Retries, g)
    <2> HIDE DEF F
    <2> QED BY <1>0, LoopExists
  <1>2. PioLoop(F, n, u, lba) = g[Retries]
    BY DEF PioLoop, IsLoop, LoopStep, LoopStart
  <1> HIDE DEF g
  <1>3. \A k \in 0 .. Retries : g[k] = IF k = 0 THEN LoopStart ELSE LoopStep(F, n, u, lba, g[k - 1])
    BY <1>1, Zenon DEF IsLoop
  <1> DEFINE Sound(k) == \A r \in g[k] : LoopState(r, n, u, lba)
             Bad == {k \in 0 .. Retries : ~Sound(k)}
  <1>4. Bad = {}
    <2> SUFFICES ASSUME Bad # {} PROVE FALSE
      OBVIOUS
    <2>1. Bad \in SUBSET Nat
      BY <1>0
    <2>2. PICK m \in Bad : \A k \in Bad : m <= k
      BY <2>1, LeastNat
    <2>3. m \in 0 .. Retries /\ ~Sound(m)
      BY <2>2
    <2>4. m # 0
      <3>1. Sound(0)
        <4>1. g[0] = LoopStart
          BY <1>0, <1>3
        <4>2. Pairs(u, lba, 0, 0) = {}
          BY DEF Pairs
        <4>3. \A r \in LoopStart : r.done = 0 /\ r.moved = {} /\ r.ok = FALSE
          BY DEF LoopStart
        <4>4. 0 \in 0 .. n
          OBVIOUS
        <4>5. \A r \in LoopStart : LoopState(r, n, u, lba)
          BY <4>2, <4>3, <4>4 DEF LoopState
        <4> QED BY <4>1, <4>5
      <3> QED BY <2>3, <3>1
    <2>5. m - 1 \in 0 .. Retries /\ m - 1 \notin Bad
      <3> HIDE DEF Bad
      <3> QED BY <1>0, <2>2, <2>3, <2>4
    <2>6. Sound(m - 1)
      BY <2>5
    <2>7. g[m] = LoopStep(F, n, u, lba, g[m - 1])
      BY <1>3, <2>3, <2>4
    <2>8. ASSUME NEW r \in g[m] PROVE LoopState(r, n, u, lba)
      <3>1. PICK q \in g[m - 1] : r \in IF q.ok \/ q.done >= n THEN {q}
                                       ELSE {Turn(q, n, u, lba, f) : f \in F}
        BY <2>7, <2>8, Zenon DEF LoopStep
      <3>2. LoopState(q, n, u, lba)
        BY <2>6
      <3>3. r = q \/ \E f \in F : r = Turn(q, n, u, lba, f)
        BY <3>1
      <3> QED BY <3>2, <3>3, TurnLemma
    <2> QED BY <2>3, <2>8
  <1>5. Sound(Retries)
    BY <1>0, <1>4
  <1> QED BY <1>2, <1>5

(* Quotient and remainder. *)
LEMMA DivMod ==
    ASSUME NEW a \in Nat, NEW b \in Nat \ {0}
    PROVE  /\ a \div b \in Nat /\ a % b \in 0 .. b - 1
           /\ a = (a \div b) * b + (a % b)
OBVIOUS

(* Enough chunks are taken for all the sectors, and none for no sector. *)
LEMMA CeilDiv ==
    ASSUME NEW n \in Nat, NEW b \in Nat \ {0}
    PROVE  /\ (n + b - 1) \div b \in Nat
           /\ n <= ((n + b - 1) \div b) * b
           /\ n = 0 => (n + b - 1) \div b = 0
  <1> DEFINE q == (n + b - 1) \div b
             r == (n + b - 1) % b
  <1>1. n + b - 1 \in Nat
    OBVIOUS
  <1>2. q \in Nat /\ r \in 0 .. b - 1 /\ n + b - 1 = q * b + r
    BY <1>1, DivMod
  <1>3. n = 0 => q = 0
    OBVIOUS
  <1> HIDE DEF q, r
  <1>4. PICK p \in Int : p = q * b
    BY <1>2
  <1>5. n <= q * b
    BY <1>2, <1>4
  <1> QED BY <1>2, <1>3, <1>5 DEF q

(* ide_read_sectors and ide_write_sectors are good transfers. *)
LEMMA IdeGood ==
    ASSUME NEW w \in BOOLEAN, NEW u, NEW lba \in Nat, NEW n \in Nat,
           NEW o \in IdeTransfer(w, u, lba, n)
    PROVE  Good(o, u, lba, n)
  <1>1. PICK s \in PioLoop(IdeFates(w), n, u, lba) :
           o = Outcome(IF s.ok THEN "ok" ELSE "ata", s.moved, "ide", s.lost)
    BY DEF IdeTransfer
  <1>2. LoopState(s, n, u, lba)
    BY LoopLemma
  <1>3. o.moved = s.moved /\ o.lost = s.lost /\ (o.res = "ok" => s.ok)
    BY <1>1 DEF Outcome
  <1>4. s.done \in 0 .. n /\ Pairs(u, lba, 0, s.done) \subseteq Pairs(u, lba, 0, n)
    BY <1>2, PairsMonotone DEF LoopState
  <1>5. o.res = "ok" /\ ~o.lost => o.moved = Pairs(u, lba, 0, n)
    BY <1>2, <1>3 DEF LoopState
  <1> QED BY <1>2, <1>3, <1>4, <1>5 DEF LoopState, Good

(* So are the legacy loops, whose success says less than the IDE driver's. *)
LEMMA LegacyGood ==
    ASSUME NEW w \in BOOLEAN, NEW d, d.drive = 0, NEW lba \in Nat, NEW n \in Nat,
           NEW o \in Legacy(w, d, lba, n)
    PROVE  Good(o, <<"ide", 0>>, lba, n)
  <1> DEFINE u == <<"ide", 0>>
  <1>1. LegacyUnit(d) = u
    BY DEF LegacyUnit
  <1>2. o \in Refused("invalid") \/ o \in Refused("range") \/ o \in LegacyTransfer(w, u, lba, n)
    BY <1>1 DEF Legacy
  <1> HIDE DEF u
  <1>3. CASE o \in LegacyTransfer(w, u, lba, n)
    <2>1. PICK s \in PioLoop(IdeFates(w), n, u, lba) :
             o = Outcome(IF s.ok \/ s.done = n THEN "ok" ELSE "ata", s.moved, "legacy",
                         s.lost \/ ~s.ok)
      BY <1>3 DEF LegacyTransfer, LegacyFates
    <2>2. LoopState(s, n, u, lba)
      BY LoopLemma
    <2>3. o.moved = s.moved
      BY <2>1 DEF Outcome
    <2>4. o.lost = (s.lost \/ ~s.ok)
      BY <2>1, Zenon DEF Outcome
    <2>5. s.done \in 0 .. n /\ Pairs(u, lba, 0, s.done) \subseteq Pairs(u, lba, 0, n)
      BY <2>2, PairsMonotone DEF LoopState
    <2>6. ASSUME ~o.lost PROVE o.moved = Pairs(u, lba, 0, n)
      <3>1. ~s.lost /\ s.ok
        BY <2>4, <2>6, Zenon
      <3> QED BY <2>2, <2>3, <3>1 DEF LoopState
    <2> QED BY <2>2, <2>3, <2>5, <2>6 DEF LoopState, Good, u
  <1> QED BY <1>2, <1>3, RefusedGood DEF u

(* A PATA disk at position 0, with or without the IDE driver. *)
LEMMA PataGood ==
    ASSUME NEW t, NEW w \in BOOLEAN, NEW d, d.drive = 0, NEW lba \in Nat, NEW n \in Nat,
           NEW o \in PataTransfer(t, w, d, lba, n)
    PROVE  Good(o, <<"ide", 0>>, lba, n)
  <1>1. \/ o \in Refused("range") \/ o \in Refused("ata")
        \/ o \in IdeTransfer(w, <<"ide", 0>>, lba, n)
        \/ o \in Legacy(w, d, lba, n)
    BY DEF PataTransfer
  <1> QED BY <1>1, RefusedGood, IdeGood, LegacyGood

(* A SATA disk is read buffer by buffer. *)
LEMMA SataReadGood ==
    ASSUME NEW t, NEW d, d.drive = 0, NEW lba \in Nat, NEW n \in Nat,
           NEW o \in SataRead(t, d, lba, n)
    PROVE  Good(o, <<"sata", t.sata[1]>>, lba, n)
  <1> DEFINE u == <<"sata", t.sata[d.drive + 1]>>
             chunks == (n + IoChunk - 1) \div IoChunk
  <1>0. IoChunk \in Nat \ {0}
    BY SizesAssumption
  <1>1. \/ o \in Refused("invalid") \/ o \in Refused("range")
        \/ \E c \in 0 .. chunks :
              o = Outcome(IF c = chunks THEN "ok" ELSE "ata",
                          Pairs(u, lba, 0, Min({n, c * IoChunk})), "sata", FALSE)
    BY Zenon DEF SataRead
  <1>2. chunks \in Nat /\ n <= chunks * IoChunk
    BY <1>0, CeilDiv
  <1> HIDE DEF chunks, u
  <1>3. ASSUME NEW c \in 0 .. chunks,
               o = Outcome(IF c = chunks THEN "ok" ELSE "ata",
                           Pairs(u, lba, 0, Min({n, c * IoChunk})), "sata", FALSE)
        PROVE  Good(o, u, lba, n)
    <2>1. PICK k \in Nat : k = c * IoChunk
      BY <1>0, <1>2
    <2>2. Min({n, k}) \in 0 .. n /\ (n <= k => Min({n, k}) = n)
      BY MinTwo
    <2>3. o.moved = Pairs(u, lba, 0, Min({n, k})) /\ (o.res = "ok" => c = chunks)
      BY <1>3, <2>1 DEF Outcome
    <2>4. o.moved \subseteq Pairs(u, lba, 0, n)
      BY <2>2, <2>3, PairsMonotone
    <2>5. c = chunks => n <= k
      BY <1>2, <2>1
    <2> QED BY <2>2, <2>3, <2>4, <2>5 DEF Good
  <1>4. Good(o, u, lba, n)
    BY <1>1, <1>3, RefusedGood
  <1> QED BY <1>4 DEF u

(* A SATA disk is written with one command, whose count has room for it. *)
LEMMA SataWriteGood ==
    ASSUME NEW t, NEW d, d.drive = 0, NEW lba \in Nat, NEW n \in 0 .. MaxN,
           NEW o \in SataWrite(t, d, lba, n)
    PROVE  Good(o, <<"sata", t.sata[1]>>, lba, n)
  <1> DEFINE u == <<"sata", t.sata[d.drive + 1]>>
  <1>0. CountMod \in Nat \ {0} /\ MaxN \in Nat /\ MaxN <= CountMod
    BY SizesAssumption
  <1>1. \/ o \in Refused("invalid") \/ o \in Refused("range") \/ o \in Refused("ata")
        \/ n # 0 /\ o = Outcome("ok", Pairs(u, lba, 0, DmaCount(n)), "sata", FALSE)
        \/ n # 0 /\ \E k \in 0 .. n - 1 : o = Outcome("ata", Pairs(u, lba, 0, k), "sata", FALSE)
    BY Zenon DEF SataWrite
  <1> HIDE DEF u
  <1>2. n # 0 => DmaCount(n) = n
    <2> SUFFICES ASSUME n # 0 PROVE DmaCount(n) = n
      OBVIOUS
    <2>1. CASE n = CountMod
      <3>1. n % CountMod = 0
        BY <2>1, <1>0
      <3> QED BY <3>1, <2>1 DEF DmaCount
    <2>2. CASE n < CountMod
      <3>1. n % CountMod = n
        BY <2>2, <1>0
      <3> QED BY <3>1 DEF DmaCount
    <2> QED BY <1>0, <2>1, <2>2
  <1>3. ASSUME n # 0, o = Outcome("ok", Pairs(u, lba, 0, DmaCount(n)), "sata", FALSE)
        PROVE  Good(o, u, lba, n)
    <2>1. o.moved = Pairs(u, lba, 0, n)
      BY <1>2, <1>3 DEF Outcome
    <2> QED BY <2>1 DEF Good
  <1>4. ASSUME n # 0, NEW k \in 0 .. n - 1, o = Outcome("ata", Pairs(u, lba, 0, k), "sata", FALSE)
        PROVE  Good(o, u, lba, n)
    <2>1. o.moved = Pairs(u, lba, 0, k) /\ o.res # "ok"
      BY <1>4 DEF Outcome
    <2>2. Pairs(u, lba, 0, k) \subseteq Pairs(u, lba, 0, n)
      BY <1>0, PairsMonotone
    <2> QED BY <2>1, <2>2 DEF Good
  <1>5. Good(o, u, lba, n)
    BY <1>1, <1>3, <1>4, RefusedGood
  <1> QED BY <1>5 DEF u

(* A disc is read in whole blocks; a copy that stays within the buffer finds *)
(* the sectors asked for.                                                   *)
LEMMA AtapiGood ==
    ASSUME NEW lba \in Nat, NEW n \in Nat,
           (lba % PerBlock) + n <= ((n + PerBlock - 1) \div PerBlock) * PerBlock,
           NEW o \in AtapiRead(lba, n)
    PROVE  Good(o, <<"cd", 0>>, lba, n)
  <1> DEFINE blocks == (n + PerBlock - 1) \div PerBlock
             first == lba \div PerBlock
             off == lba % PerBlock
             cd == <<"cd", 0>>
             Copied(i) == IF off + i < blocks * PerBlock
                          THEN <<i, cd, first * PerBlock + off + i>>
                          ELSE <<i, <<"heap", 0>>, off + i>>
  <1>0. PerBlock \in Nat \ {0}
    BY SizesAssumption
  <1>1. \/ o = Outcome("ok", {Copied(i) : i \in 0 .. n - 1}, "atapi", FALSE)
        \/ o = Outcome("timeout", {}, "atapi", FALSE)
        \/ o = Outcome("atapi", {}, "atapi", FALSE)
    BY DEF AtapiRead
  <1>2. first \in Nat /\ off \in Nat /\ lba = first * PerBlock + off
    <2>1. first \in Nat /\ off \in 0 .. PerBlock - 1 /\ lba = first * PerBlock + off
      <3> HIDE DEF blocks
      <3> QED BY <1>0, DivMod
    <2> QED BY <2>1, <1>0
  <1>3. blocks \in Nat
    BY <1>0, CeilDiv
  <1>4. PICK a \in Nat, b \in Nat : a = first * PerBlock /\ b = blocks * PerBlock
    BY <1>0, <1>2, <1>3
  <1>5. off + n <= b
    BY <1>4
  <1> HIDE DEF first, off, blocks, cd
  <1>6. \A i \in 0 .. n - 1 : Copied(i) = <<i, cd, lba + i>>
    BY <1>2, <1>4, <1>5
  <1>7. {Copied(i) : i \in 0 .. n - 1} = Pairs(cd, lba, 0, n)
    <2> HIDE DEF Copied
    <2>1. {Copied(i) : i \in 0 .. n - 1} = {<<i, cd, lba + i>> : i \in 0 .. n - 1}
      BY <1>6
    <2> QED BY <2>1 DEF Pairs
  <1> DEFINE all == {Copied(i) : i \in 0 .. n - 1}
  <1> HIDE DEF all
  <1>8. CASE o = Outcome("ok", all, "atapi", FALSE)
    BY <1>8, <1>7 DEF Good, Outcome, cd, all
  <1>9. CASE o = Outcome("timeout", {}, "atapi", FALSE) \/ o = Outcome("atapi", {}, "atapi", FALSE)
    BY <1>9 DEF Good, Outcome
  <1> QED BY <1>1, <1>8, <1>9 DEF all

(* A handle that is open is for one of the three kinds of drive, as its first *)
(* unit; only a partition's has an offset.                                    *)
Handle == [type : {"none", "pata", "sata", "atapi"}, drive : {0}, init : BOOLEAN, size : Nat,
           part : BOOLEAN, off : Nat, phys : Nat]

(* The unit a handle names, with these driver tables. *)
UnitOf(d, t) ==
    CASE d.type = "sata"  -> <<"sata", t.sata[1]>>
      [] d.type = "pata"  -> <<"ide", 0>>
      [] d.type = "atapi" -> <<"cd", 0>>
      [] OTHER            -> <<"none", 0>>

OpenHandle(d) ==
    /\ d \in Handle
    /\ d.init => d.type # "none"
    /\ d.part \/ d.off = 0
    /\ d.init /\ phase # "off" => unit = UnitOf(d, drv) /\ (d.type = "sata" => drv.sataInit)

(* The tables of the drivers are one record. *)
Tables(t) == DOMAIN t = {"sata", "sataInit", "atapi", "atapiInit", "ide", "ideCount"}

BlkInv ==
    /\ Tables(drv)
    /\ OpenHandle(main) /\ OpenHandle(part)
    /\ main.part = FALSE
    /\ phase \notin {"run", "off"} => last = NoTransfer /\ part = NoDisk
    /\ phase \in {"boot", "sata", "atapi", "ide"} => main = NoDisk
    /\ RightSectors
    /\ SuccessIsComplete

(* The sector of the disk that a handle's sector is. *)
SectorAt(d, lba) == lba + d.off

(* A copy from a disc that would overrun its buffer. *)
Overruns(d, lba, n) ==
    /\ d.type = "atapi"
    /\ (SectorAt(d, lba) % PerBlock) + n > ((n + PerBlock - 1) \div PerBlock) * PerBlock

(* disk_read_dispatch meets the sectors its handle, partition and range name. *)
LEMMA ReadGood ==
    ASSUME NEW t, NEW d \in Handle, d.type # "none", d.part \/ d.off = 0, NEW lba \in Nat, NEW n \in Nat,
           ~Overruns(d, lba, n), NEW o \in ReadDispatch(t, d, lba, n)
    PROVE  Good(o, UnitOf(d, t), SectorAt(d, lba), n)
  <1> DEFINE at == IF d.part THEN lba + d.off ELSE lba
  <1>1. at = SectorAt(d, lba) /\ SectorAt(d, lba) \in Nat /\ d.drive = 0
    BY DEF SectorAt, Handle
  <1>2. d.type \in {"pata", "sata", "atapi"}
    BY DEF Handle
  <1>3. \/ o \in Refused("range")
        \/ d.type = "atapi" /\ o \in AtapiRead(at, n)
        \/ d.type = "sata" /\ o \in SataRead(t, d, at, n)
        \/ d.type = "pata" /\ o \in PataTransfer(t, FALSE, d, at, n)
    BY <1>2 DEF ReadDispatch
  <1> HIDE DEF at
  <1>4. CASE o \in Refused("range")
    BY <1>4, RefusedGood
  <1>5. CASE d.type = "atapi" /\ o \in AtapiRead(at, n)
    <2>1. PerBlock \in Nat \ {0}
      BY SizesAssumption
    <2>2. PICK q \in Nat : q = (n + PerBlock - 1) \div PerBlock
      BY <2>1, CeilDiv
    <2>3. PICK r \in Nat : r = at % PerBlock
      BY <1>1, <2>1, DivMod
    <2>4. PICK p \in Nat : p = q * PerBlock
      BY <2>1
    <2>5. r + n <= p
      BY <1>1, <1>5, <2>2, <2>3, <2>4 DEF Overruns
    <2>6. (at % PerBlock) + n <= ((n + PerBlock - 1) \div PerBlock) * PerBlock
      BY <2>2, <2>3, <2>4, <2>5
    <2>7. Good(o, <<"cd", 0>>, at, n)
      BY <1>1, <1>5, <2>6, AtapiGood
    <2>8. UnitOf(d, t) = <<"cd", 0>>
      BY <1>5 DEF UnitOf
    <2> QED BY <1>1, <2>7, <2>8
  <1>6. CASE d.type = "sata" /\ o \in SataRead(t, d, at, n)
    <2>1. UnitOf(d, t) = <<"sata", t.sata[1]>>
      BY <1>6 DEF UnitOf
    <2> QED BY <1>1, <1>6, <2>1, SataReadGood
  <1>7. CASE d.type = "pata" /\ o \in PataTransfer(t, FALSE, d, at, n)
    <2>1. UnitOf(d, t) = <<"ide", 0>>
      BY <1>7 DEF UnitOf
    <2> QED BY <1>1, <1>7, <2>1, PataGood
  <1> QED BY <1>3, <1>4, <1>5, <1>6, <1>7

(* So does disk_write_dispatch while the driver of a SATA disk is there. *)
LEMMA WriteGood ==
    ASSUME NEW t, NEW d \in Handle, d.type # "none", d.part \/ d.off = 0, NEW lba \in Nat,
           NEW n \in 0 .. MaxN, d.type = "sata" => t.sataInit,
           NEW o \in WriteDispatch(t, d, lba, n)
    PROVE  Good(o, UnitOf(d, t), SectorAt(d, lba), n)
  <1> DEFINE at == IF d.part THEN lba + d.off ELSE lba
  <1>0. n \in Nat
    BY SizesAssumption
  <1>1. at = SectorAt(d, lba) /\ SectorAt(d, lba) \in Nat /\ d.drive = 0
    BY DEF SectorAt, Handle
  <1>2. d.type \in {"pata", "sata", "atapi"}
    BY DEF Handle
  <1>3. \/ o \in Refused("range")
        \/ o \in Refused("atapi")
        \/ d.type = "sata" /\ o \in SataWrite(t, d, at, n)
        \/ d.type = "pata" /\ o \in PataTransfer(t, TRUE, d, at, n)
    BY <1>2 DEF WriteDispatch
  <1> HIDE DEF at
  <1>4. CASE o \in Refused("range") \/ o \in Refused("atapi")
    BY <1>4, RefusedGood
  <1>6. CASE d.type = "sata" /\ o \in SataWrite(t, d, at, n)
    <2>1. UnitOf(d, t) = <<"sata", t.sata[1]>>
      BY <1>6 DEF UnitOf
    <2> QED BY <1>1, <1>6, <2>1, SataWriteGood
  <1>7. CASE d.type = "pata" /\ o \in PataTransfer(t, TRUE, d, at, n)
    <2>1. UnitOf(d, t) = <<"ide", 0>>
      BY <1>7 DEF UnitOf
    <2> QED BY <1>0, <1>1, <1>7, <2>1, PataGood
  <1> QED BY <1>3, <1>4, <1>6, <1>7

(* A good transfer that is recorded keeps what the properties say. *)
LEMMA RecordStep ==
    ASSUME NEW op, NEW d, NEW lba, NEW n, NEW o, last' = Record(op, d, lba, n, o), unit' = unit,
           op \in {"read", "write"} /\ ~Overruns(d, lba, n) => Good(o, unit, SectorAt(d, lba), n)
    PROVE  RightSectors' /\ SuccessIsComplete'
  <1>1. /\ last'.op = op /\ last'.disk = d /\ last'.lba = lba /\ last'.n = n
        /\ last'.res = o.res /\ last'.moved = o.moved
    BY DEF Record
  <1>2. last'.lost = o.lost
    BY DEF Record
  <1>3. OverrunsBuffer(last') <=> Overruns(d, lba, n)
    BY <1>1 DEF OverrunsBuffer, Overruns, SectorAt
  <1>4. Wanted(last)' = Pairs(unit, SectorAt(d, lba), 0, n)
    BY <1>1 DEF Wanted, SectorAt
  <1>5. OverrunsBuffer(last)' <=> OverrunsBuffer(last')
    BY DEF OverrunsBuffer
  <1>6. RightSectors'
    BY <1>1, <1>3, <1>4, <1>5 DEF RightSectors, Good
  <1>7. SuccessIsComplete'
    BY <1>1, <1>2, <1>3, <1>4, <1>5 DEF SuccessIsComplete, Good
  <1> QED BY <1>6, <1>7

(* Nothing is said of a step that records no transfer. *)
LEMMA LastSame ==
    ASSUME RightSectors, SuccessIsComplete, last' = last, unit' = unit \/ last.op = "none"
    PROVE  RightSectors' /\ SuccessIsComplete'
  <1>1. CASE last.op = "none"
    BY <1>1 DEF RightSectors, SuccessIsComplete
  <1>2. CASE unit' = unit
    BY <1>2 DEF RightSectors, SuccessIsComplete, Wanted, OverrunsBuffer
  <1> QED BY <1>1, <1>2

(* The handles stay open when neither they nor what they name change. *)
LEMMA OpenedSame ==
    ASSUME NEW d, OpenHandle(d), unit' = unit, phase' = "off" \/ (phase # "off" /\ drv'.sata = drv.sata
           /\ drv'.sataInit = drv.sataInit)
    PROVE  d \in Handle /\ (d.init => d.type # "none") /\ (d.part \/ d.off = 0)
           /\ (d.init /\ phase' # "off" => unit' = UnitOf(d, drv') /\ (d.type = "sata" => drv'.sataInit))
BY DEF OpenHandle, UnitOf

(* Before anything is opened. *)
LEMMA ClosedOpened == OpenHandle(NoDisk)
BY DEF OpenHandle, NoDisk, Handle

(* The first state. *)
LEMMA InitBlk == BlkInit => BlkInv
BY ClosedOpened DEF BlkInit, BlkInv, NoDrivers, Tables, NoTransfer, RightSectors, SuccessIsComplete, NoDisk

(* Detection fills the tables; nothing is open yet. *)
LEMMA DetectStep ==
    ASSUME BlkInv, SataInit \/ AtapiInit \/ IdeDriverInit
    PROVE  BlkInv'
  <1>1. phase \in {"boot", "sata", "atapi"} /\ phase' \in {"sata", "atapi", "ide"}
    BY DEF SataInit, AtapiInit, IdeDriverInit
  <1>2. UNCHANGED <<main, part, last, unit>>
    BY DEF SataInit, AtapiInit, IdeDriverInit
  <1>3. Tables(drv')
    <2>1. CASE SataInit
      BY <2>1 DEF SataInit, SataTable, Tables, BlkInv
    <2>2. CASE AtapiInit
      BY <2>2 DEF AtapiInit, Tables, BlkInv
    <2>3. CASE IdeDriverInit
      BY <2>3 DEF IdeDriverInit, Tables, BlkInv
    <2> QED BY <2>1, <2>2, <2>3
  <1>4. main = NoDisk /\ part = NoDisk /\ last = NoTransfer
    BY <1>1 DEF BlkInv
  <1>5. RightSectors' /\ SuccessIsComplete'
    BY <1>2, <1>4, LastSame DEF BlkInv
  <1>6. OpenHandle(main)' /\ OpenHandle(part)'
    BY <1>2, <1>4 DEF OpenHandle, NoDisk, Handle
  <1>7. Tables(drv)'
    BY <1>3 DEF Tables
  <1> QED BY <1>1, <1>2, <1>4, <1>5, <1>6, <1>7 DEF BlkInv, NoDisk, NoTransfer

Plain(x) == x \in Handle /\ (x.init => x.type # "none") /\ x.off = 0 /\ x.part = FALSE

NoAnswer == [NoDisk EXCEPT !.type = "pata", !.drive = 0]

(* The handles that the detection can make; one of them is a SATA disk's. *)
LEMMA MadeHandles ==
    /\ Plain(NoDisk) /\ NoDisk.type = "none"
    /\ Plain(SataDisk(0))
    /\ Plain(PataDisk(0)) /\ PataDisk(0).type = "pata"
    /\ Plain(NoAnswer) /\ NoAnswer.type = "pata"
    /\ \A s \in Nat : Plain(AtapiDisk(s)) /\ AtapiDisk(s).type = "atapi"
  <1>1. Size \in Nat
    BY SizesAssumption
  <1>2. Plain(NoDisk) /\ NoDisk.type = "none"
    BY DEF NoDisk, Plain, Handle
  <1>3. Plain(SataDisk(0)) /\ SataDisk(0).type = "sata"
    BY <1>1 DEF NoDisk, SataDisk, Plain, Handle
  <1>4. Plain(PataDisk(0)) /\ PataDisk(0).type = "pata"
    BY <1>1 DEF NoDisk, PataDisk, Plain, Handle
  <1>5. Plain(NoAnswer) /\ NoAnswer.type = "pata"
    BY DEF NoDisk, NoAnswer, Plain, Handle
  <1>6. ASSUME NEW s \in Nat PROVE Plain(AtapiDisk(s)) /\ AtapiDisk(s).type = "atapi"
    BY DEF NoDisk, AtapiDisk, Plain, Handle
  <1> QED BY <1>2, <1>3, <1>4, <1>5, <1>6

(* cmain opens main_disk for the unit that it names. *)
LEMMA OpenStep ==
    ASSUME BlkInv, OpenMain
    PROVE  BlkInv'
  <1>1. phase = "ide" /\ phase' = "open" /\ part' = part /\ last' = last
    BY DEF OpenMain
  <1>2. part = NoDisk /\ last = NoTransfer /\ Tables(drv)
    BY <1>1 DEF BlkInv
  <1>3. drv' = drv \/ drv' = [drv EXCEPT !.atapi[1].media = TRUE]
    BY DEF OpenMain
  <1>4. Tables(drv)' /\ drv'.sata = drv.sata /\ drv'.sataInit = drv.sataInit
    BY <1>2, <1>3 DEF Tables
  <1>5. Plain(main') /\ (main'.type = "sata" => drv.sataInit)
    <2>1. CASE drv.sataInit /\ drv.sata # <<>>
      <3>1. main' = SataDisk(0)
        BY <2>1 DEF OpenMain
      <3> QED BY <2>1, <3>1, MadeHandles
    <2>2. CASE ~(drv.sataInit /\ drv.sata # <<>>)
      <3>1. PICK r \in DiskInit(0) : main' = r[1] \/ main' \in DiskInitAtapi
        BY <2>2 DEF OpenMain
      <3>2. r[1] \in {NoDisk, PataDisk(0), NoAnswer}
        BY DEF DiskInit, DiskCheckPresence, PerformIdeInit, NoAnswer
      <3>3. Blocks * PerBlock \in Nat
        BY SizesAssumption
      <3>4. \/ main' \in {NoDisk, PataDisk(0), NoAnswer}
            \/ \E s \in Nat : main' = AtapiDisk(s)
        BY <3>1, <3>2, <3>3 DEF DiskInitAtapi
      <3> QED BY <3>4, MadeHandles
    <2> QED BY <2>1, <2>2
  <1>8. unit' = UnitOf(main', drv')
    BY <1>4 DEF OpenMain, UnitOf
  <1>9. OpenHandle(main)'
    BY <1>4, <1>5, <1>8 DEF OpenHandle, UnitOf, Plain
  <1>10. OpenHandle(part)'
    BY <1>1, <1>2 DEF OpenHandle, NoDisk, Handle
  <1>11. RightSectors' /\ SuccessIsComplete'
    BY <1>1, <1>2, LastSame DEF BlkInv, NoTransfer
  <1> QED BY <1>1, <1>2, <1>4, <1>5, <1>9, <1>10, <1>11 DEF BlkInv, NoDisk, NoTransfer, Plain

(* A step of the running system that leaves the handles alone, and the tables *)
(* in what the handles need of them, keeps the invariant if what it records    *)
(* does.                                                                       *)
LEMMA RunStep ==
    ASSUME BlkInv, phase = "run", phase' \in {"run", "off"}, UNCHANGED <<main, part, unit>>,
           Tables(drv'),
           phase' = "off" \/ (drv'.sata = drv.sata /\ drv'.sataInit = drv.sataInit),
           RightSectors', SuccessIsComplete'
    PROVE  BlkInv'
  <1>1. OpenHandle(main)' /\ OpenHandle(part)'
    BY OpenedSame DEF BlkInv, OpenHandle
  <1>2. Tables(drv)'
    BY DEF Tables
  <1> QED BY <1>1, <1>2 DEF BlkInv

(* What a transfer through an open handle needs. *)
LEMMA HandleFacts ==
    ASSUME BlkInv, Quiet, NEW d \in {main, part}, d.init
    PROVE  /\ d \in Handle /\ d.type # "none" /\ (d.part \/ d.off = 0)
           /\ unit = UnitOf(d, drv) /\ (d.type = "sata" => drv.sataInit)
BY DEF BlkInv, OpenHandle, Quiet

(* Any transfer keeps the invariant. *)
LEMMA BlkReadStep ==
    ASSUME BlkInv, NEW d \in {main, part}, NEW lba \in Nat, NEW n \in Nat, ReadSectors(d, lba, n)
    PROVE  BlkInv'
  <1>1. /\ phase = "run" /\ phase' = "run" /\ UNCHANGED <<main, part, unit>> /\ Quiet /\ d.init
        /\ drv' = IF d.type = "atapi" THEN [drv EXCEPT !.atapi[1].media = TRUE] ELSE drv
    BY DEF ReadSectors, Quiet
  <1>2. Tables(drv') /\ drv'.sata = drv.sata /\ drv'.sataInit = drv.sataInit
    BY <1>1 DEF Tables, BlkInv
  <1>3. PICK o \in ReadDispatch(drv, d, lba, n) : last' = Record("read", d, lba, n, o)
    BY DEF ReadSectors
  <1>4. ~Overruns(d, lba, n) => Good(o, unit, SectorAt(d, lba), n)
    BY <1>1, HandleFacts, ReadGood
  <1>5. RightSectors' /\ SuccessIsComplete'
    BY <1>1, <1>3, <1>4, RecordStep
  <1> QED BY <1>1, <1>2, <1>5, RunStep

(* A write, in the running system or as the last one before shutdown. *)
LEMMA WriteKept ==
    ASSUME BlkInv, Quiet, NEW d \in {main, part}, d.init, NEW lba \in Nat, NEW n \in 0 .. MaxN,
           NEW o \in WriteDispatch(drv, d, lba, n), last' = Record("write", d, lba, n, o), unit' = unit
    PROVE  RightSectors' /\ SuccessIsComplete'
  <1>1. Good(o, unit, SectorAt(d, lba), n)
    BY HandleFacts, WriteGood
  <1> QED BY <1>1, RecordStep

(* The steps of the running system other than reads. *)
LEMMA OtherSteps ==
    ASSUME BlkInv,
           \/ \E d \in {main, part}, lba \in 0 .. Size, n \in 0 .. MaxN : WriteSectors(d, lba, n)
           \/ \E d \in {main, part} : FlushCache(d)
           \/ Return
           \/ ShowDiskHealth
           \/ Eject
           \/ ChangeDisc
           \/ \E d \in {main, part}, lba \in 0 .. Size : Shutdown(d, lba)
    PROVE  BlkInv'
  <1>0. Size \in Nat /\ 1 \in 0 .. MaxN
    BY SizesAssumption
  <1>1. ASSUME NEW d \in {main, part}, NEW lba \in 0 .. Size, NEW n \in 0 .. MaxN, WriteSectors(d, lba, n)
        PROVE  BlkInv'
    <2>1. /\ Quiet /\ d.init /\ phase = "run" /\ phase' = "run" /\ UNCHANGED <<drv, main, part, unit>>
      BY <1>1 DEF WriteSectors, Quiet
    <2>2. PICK o \in WriteDispatch(drv, d, lba, n) : last' = Record("write", d, lba, n, o)
      BY <1>1 DEF WriteSectors
    <2>3. RightSectors' /\ SuccessIsComplete'
      BY <1>0, <2>1, <2>2, WriteKept
    <2> QED BY <2>1, <2>3, RunStep DEF BlkInv
  <1>2. ASSUME NEW d \in {main, part}, FlushCache(d) PROVE BlkInv'
    <2>1. /\ phase = "run" /\ phase' = "run" /\ UNCHANGED <<drv, main, part, unit>>
      BY <1>2 DEF FlushCache, Quiet
    <2>2. PICK o \in FlushDispatch(d) : last' = Record("flush", d, 0, 0, o)
      BY <1>2 DEF FlushCache
    <2>3. RightSectors' /\ SuccessIsComplete'
      BY <2>1, <2>2, RecordStep
    <2> QED BY <2>1, <2>3, RunStep DEF BlkInv
  <1>3. CASE Return
    <2>1. /\ phase = "run" /\ phase' = "run" /\ UNCHANGED <<drv, main, part, unit>> /\ last' = NoTransfer
      BY <1>3 DEF Return
    <2>2. RightSectors' /\ SuccessIsComplete'
      BY <2>1 DEF RightSectors, SuccessIsComplete, NoTransfer
    <2> QED BY <2>1, <2>2, RunStep DEF BlkInv
  <1>4. CASE ShowDiskHealth
    <2>1. /\ phase = "run" /\ phase' = "run" /\ UNCHANGED <<drv, main, part, unit>>
      BY <1>4 DEF ShowDiskHealth, Quiet
    <2>2. \E o : last' = Record("health", main, 0, 1, o)
      BY <1>4 DEF ShowDiskHealth
    <2>3. RightSectors' /\ SuccessIsComplete'
      BY <2>1, <2>2, RecordStep
    <2> QED BY <2>1, <2>3, RunStep DEF BlkInv
  <1>5. CASE Eject \/ ChangeDisc
    <2>1. /\ phase = "run" /\ phase' = "run" /\ UNCHANGED <<main, part, unit, last>>
          /\ drv' = drv \/ drv' = [drv EXCEPT !.atapi[1].media = FALSE]
      BY <1>5 DEF Eject, ChangeDisc, Quiet
    <2>2. Tables(drv') /\ drv'.sata = drv.sata /\ drv'.sataInit = drv.sataInit
      BY <2>1 DEF Tables, BlkInv
    <2>3. RightSectors' /\ SuccessIsComplete'
      BY <2>1, LastSame DEF BlkInv
    <2> QED BY <2>1, <2>2, <2>3, RunStep
  <1>6. ASSUME NEW d \in {main, part}, NEW lba \in 0 .. Size, Shutdown(d, lba) PROVE BlkInv'
    <2>1. /\ Quiet /\ d.init /\ phase = "run" /\ phase' = "off" /\ UNCHANGED <<main, part, unit>>
          /\ drv' = NoDrivers
      BY <1>6 DEF Shutdown, Quiet, CleanDrivers
    <2>2. PICK o \in WriteDispatch(drv, d, lba, 1) : last' = Record("write", d, lba, 1, o)
      BY <1>6 DEF Shutdown
    <2>3. RightSectors' /\ SuccessIsComplete'
      BY <1>0, <2>1, <2>2, WriteKept
    <2>4. Tables(drv')
      BY <2>1 DEF Tables, NoDrivers
    <2> QED BY <2>1, <2>3, <2>4, RunStep
  <1> QED BY <1>1, <1>2, <1>3, <1>4, <1>5, <1>6

(* A partition's handle is main_disk's with an offset. *)
LEMMA PartitionStep ==
    ASSUME BlkInv, InitFromPartition
    PROVE  BlkInv'
  <1>1. /\ phase = "run" /\ phase' = "run" /\ main.init /\ UNCHANGED <<drv, main, last, unit>>
        /\ part' = [main EXCEPT !.part = TRUE, !.off = PartStart, !.size = PartSize, !.phys = main.size]
    BY DEF InitFromPartition, Quiet
  <1>2. PartStart \in Nat /\ PartSize \in Nat
    BY SizesAssumption
  <1>3. OpenHandle(main)
    BY DEF BlkInv
  <1>4. part' \in Handle /\ part'.type = main.type /\ part'.init = main.init /\ part'.part
    BY <1>1, <1>2, <1>3 DEF OpenHandle, Handle
  <1>5. OpenHandle(part)'
    BY <1>1, <1>3, <1>4 DEF OpenHandle, UnitOf
  <1>6. RightSectors' /\ SuccessIsComplete'
    BY <1>1, LastSame DEF BlkInv
  <1> QED BY <1>1, <1>3, <1>5, <1>6 DEF BlkInv, OpenHandle, Tables

(* Every step keeps the invariant. *)
LEMMA BlkStep == BlkInv /\ [BlkNext]_BlkVars => BlkInv'
  <1> SUFFICES ASSUME BlkInv, [BlkNext]_BlkVars PROVE BlkInv'
    OBVIOUS
  <1>0. Size \in Nat /\ MaxN \in Nat
    BY SizesAssumption
  <1>1. ASSUME NEW d \in {main, part}, NEW lba \in 0 .. Size, NEW n \in 0 .. MaxN, ReadSectors(d, lba, n)
        PROVE  BlkInv'
    BY <1>0, <1>1, BlkReadStep
  <1>2. CASE DiskScanAllBuses
    <2>1. phase = "open" /\ phase' = "run" /\ UNCHANGED <<drv, main, part, last, unit>>
      BY <1>2 DEF DiskScanAllBuses
    <2>2. RightSectors' /\ SuccessIsComplete'
      BY <2>1, LastSame DEF BlkInv
    <2> QED BY <2>1, <2>2 DEF BlkInv, OpenHandle, Tables
  <1>3. CASE UNCHANGED BlkVars
    <2>1. UNCHANGED <<drv, main, part, last, unit, phase>>
      BY <1>3 DEF BlkVars
    <2>2. RightSectors' /\ SuccessIsComplete'
      BY <2>1, LastSame DEF BlkInv
    <2> QED BY <2>1, <2>2 DEF BlkInv, OpenHandle, Tables
  <1> QED BY <1>1, <1>2, <1>3, DetectStep, OpenStep, PartitionStep, OtherSteps DEF BlkNext

(* Theorem: through detection, partition offsets, the four drivers, retries  *)
(* after any fault and shutdown, no transfer meets a sector that its handle, *)
(* partition and range do not name, for any sizes and any drives.            *)
THEOREM TransfersRight == BlkSpec => []RightSectors
BY InitBlk, BlkStep, PTL DEF BlkSpec, BlkInv

(* Theorem: a transfer that reports success has moved every sector, unless    *)
(* the drive refused one it had taken (ide_write_sectors, the legacy loops).  *)
THEOREM TransfersComplete == BlkSpec => []SuccessIsComplete
BY InitBlk, BlkStep, PTL DEF BlkSpec, BlkInv

-----------------------------------------------------------------------------
(* The tables of the block layer. *)

Rising(s) == \A i, j \in 1 .. Len(s) : i < j => s[i] < s[j]
One(found, p) == IF p \in found THEN 1 ELSE 0

(* A position that comes after all the ones so far. *)
LEMMA NextPosition ==
    ASSUME NEW found, NEW p \in Positions, NEW s \in Seq(Positions), Rising(s),
           \A i \in 1 .. Len(s) : s[i] \in found /\ s[i] < p
    PROVE  LET r == s \o (IF p \in found THEN <<p>> ELSE <<>>) IN
           /\ r \in Seq(Positions) /\ Rising(r) /\ Len(r) = Len(s) + One(found, p)
           /\ \A i \in 1 .. Len(r) : r[i] \in found /\ r[i] < p + 1
  <1> DEFINE t == IF p \in found THEN <<p>> ELSE <<>>
             r == s \o t
  <1>0. Len(s) \in Nat /\ \A i \in 1 .. Len(s) : s[i] \in Positions
    BY LenProperties
  <1>1. /\ t \in Seq(Positions) /\ Len(t) = One(found, p)
        /\ \A i \in 1 .. Len(t) : i = 1 /\ t[i] = p /\ p \in found
    BY DEF One
  <1>2. Len(t) \in {0, 1}
    BY <1>1 DEF One
  <1> HIDE DEF t
  <1>3. /\ r \in Seq(Positions) /\ Len(r) = Len(s) + Len(t)
        /\ \A i \in 1 .. Len(s) + Len(t) : r[i] = IF i <= Len(s) THEN s[i] ELSE t[i - Len(s)]
    BY <1>1, ConcatProperties
  <1> HIDE DEF r
  <1>4. ASSUME NEW i \in 1 .. Len(r), i > Len(s) PROVE i = Len(s) + 1 /\ r[i] = p /\ p \in found
    <2>1. i - Len(s) \in 1 .. Len(t) /\ r[i] = t[i - Len(s)]
      BY <1>0, <1>2, <1>3, <1>4
    <2> QED BY <2>1, <1>0, <1>1
  <1>5. ASSUME NEW i \in 1 .. Len(r), i <= Len(s) PROVE i \in 1 .. Len(s) /\ r[i] = s[i]
    BY <1>0, <1>2, <1>3, <1>5
  <1>6. p \in Int /\ \A x \in Positions : x \in Int
    BY DEF Positions
  <1>7. ASSUME NEW i \in 1 .. Len(r) PROVE r[i] \in found /\ r[i] < p + 1
    <2>1. CASE i > Len(s)
      BY <1>4, <1>6, <2>1
    <2>2. CASE i <= Len(s)
      <3>1. i \in 1 .. Len(s) /\ r[i] = s[i]
        BY <1>5, <2>2
      <3>2. s[i] \in found /\ s[i] < p /\ s[i] \in Int
        BY <1>0, <1>6, <3>1
      <3> QED BY <1>6, <3>1, <3>2
    <2>3. i \in Int
      BY <1>0, <1>2, <1>3
    <2> QED BY <1>0, <2>1, <2>2, <2>3
  <1>8. Rising(r)
    <2> SUFFICES ASSUME NEW i \in 1 .. Len(r), NEW j \in 1 .. Len(r), i < j PROVE r[i] < r[j]
      BY DEF Rising
    <2>1. Len(r) \in Nat
      BY <1>0, <1>2, <1>3
    <2>2. CASE j <= Len(s)
      BY <1>0, <1>5, <2>1, <2>2 DEF Rising
    <2>3. CASE j > Len(s)
      BY <1>0, <1>4, <1>5, <2>1, <2>3
    <2> QED BY <1>0, <2>1, <2>2, <2>3
  <1> QED BY <1>1, <1>3, <1>7, <1>8 DEF t, r

(* The loops over the positions find each of them once. *)
LEMMA FoundInOrder ==
    ASSUME NEW found
    PROVE  /\ InOrder(found) \in Seq(Positions)
           /\ Len(InOrder(found)) = One(found, 0) + One(found, 1) + One(found, 2) + One(found, 3)
           /\ Rising(InOrder(found))
           /\ \A i \in 1 .. Len(InOrder(found)) : InOrder(found)[i] \in found
  <1> DEFINE e == <<>>
             Here(p) == IF p \in found THEN <<p>> ELSE <<>>
             a == e \o Here(0)
             b == a \o Here(1)
             c == b \o Here(2)
             d == c \o Here(3)
  <1>0. Positions = {0, 1, 2, 3}
    BY DEF Positions
  <1>1. e \in Seq(Positions) /\ Len(e) = 0 /\ Rising(e) /\ 1 .. Len(e) = {}
    BY DEF Rising
  <1> HIDE DEF e
  <1>2. /\ a \in Seq(Positions) /\ Rising(a) /\ Len(a) = Len(e) + One(found, 0)
        /\ \A i \in 1 .. Len(a) : a[i] \in found /\ a[i] < 0 + 1
    <2>1. \A i \in 1 .. Len(e) : e[i] \in found /\ e[i] < 0
      BY <1>1
    <2>2. 0 \in Positions
      BY <1>0
    <2> QED BY <1>1, <2>1, <2>2, NextPosition
  <1>3. a = Here(0)
    BY <1>0 DEF e
  <1> HIDE DEF a
  <1>4. /\ b \in Seq(Positions) /\ Rising(b) /\ Len(b) = Len(a) + One(found, 1)
        /\ \A i \in 1 .. Len(b) : b[i] \in found /\ b[i] < 2
    BY <1>0, <1>2, NextPosition
  <1> HIDE DEF b
  <1>5. /\ c \in Seq(Positions) /\ Rising(c) /\ Len(c) = Len(b) + One(found, 2)
        /\ \A i \in 1 .. Len(c) : c[i] \in found /\ c[i] < 3
    BY <1>0, <1>4, NextPosition
  <1> HIDE DEF c
  <1>6. /\ d \in Seq(Positions) /\ Rising(d) /\ Len(d) = Len(c) + One(found, 3)
        /\ \A i \in 1 .. Len(d) : d[i] \in found /\ d[i] < 4
    BY <1>0, <1>5, NextPosition
  <1>7. InOrder(found) = d
    BY <1>3 DEF InOrder, b, c
  <1> HIDE DEF d
  <1> QED BY <1>1, <1>2, <1>4, <1>5, <1>6, <1>7 DEF One

(* disk_scan_all_buses finds no position twice, and so no more than four. *)
LEMMA ScanFinds ==
    ASSUME NEW F, NEW G, F \cap G = {}
    PROVE  LET s == InOrder(F) \o InOrder(G) IN
           s \in Seq(Positions) /\ Len(s) <= 4 /\ IsInjective(s)
  <1> DEFINE f == InOrder(F)
             g == InOrder(G)
             s == f \o g
  <1>1. /\ f \in Seq(Positions) /\ g \in Seq(Positions) /\ Rising(f) /\ Rising(g)
        /\ \A i \in 1 .. Len(f) : f[i] \in F
        /\ \A i \in 1 .. Len(g) : g[i] \in G
    BY FoundInOrder
  <1>2. Len(f) \in Nat /\ Len(g) \in Nat /\ Len(f) + Len(g) <= 4
    <2>1. \A p \in Positions : One(F, p) + One(G, p) <= 1 /\ One(F, p) \in {0, 1} /\ One(G, p) \in {0, 1}
      BY DEF One
    <2>2. Positions = {0, 1, 2, 3}
      BY DEF Positions
    <2>3. /\ Len(f) = One(F, 0) + One(F, 1) + One(F, 2) + One(F, 3)
          /\ Len(g) = One(G, 0) + One(G, 1) + One(G, 2) + One(G, 3)
      BY FoundInOrder
    <2> HIDE DEF f, g
    <2> QED BY <2>1, <2>2, <2>3
  <1> HIDE DEF f, g
  <1>3. /\ s \in Seq(Positions) /\ Len(s) = Len(f) + Len(g)
        /\ \A i \in 1 .. Len(f) + Len(g) : s[i] = IF i <= Len(f) THEN f[i] ELSE g[i - Len(f)]
    BY <1>1, ConcatProperties
  <1> HIDE DEF s
  <1>4. DOMAIN s = 1 .. Len(f) + Len(g)
    BY <1>3, LenProperties
  <1>5. ASSUME NEW x, Rising(x), x \in Seq(Positions), NEW i \in 1 .. Len(x), NEW j \in 1 .. Len(x), x[i] = x[j]
        PROVE  i = j
    <2>1. x[i] \in Int /\ x[j] \in Int /\ Len(x) \in Nat
      BY <1>5, LenProperties DEF Positions
    <2> QED BY <1>5, <2>1 DEF Rising
  <1>6. ASSUME NEW i \in 1 .. Len(f) + Len(g), NEW j \in 1 .. Len(f) + Len(g), s[i] = s[j], i <= j
        PROVE  i = j
    <2>1. CASE j <= Len(f)
      <3>1. i \in 1 .. Len(f) /\ j \in 1 .. Len(f) /\ f[i] = f[j]
        BY <1>2, <1>3, <1>6, <2>1
      <3> QED BY <1>1, <1>5, <3>1
    <2>2. CASE i > Len(f)
      <3>1. /\ i - Len(f) \in 1 .. Len(g) /\ j - Len(f) \in 1 .. Len(g)
            /\ g[i - Len(f)] = g[j - Len(f)]
        BY <1>2, <1>3, <1>6, <2>2
      <3>2. i - Len(f) = j - Len(f)
        BY <1>1, <1>5, <3>1
      <3> QED BY <1>2, <3>2
    <2>3. CASE i <= Len(f) /\ j > Len(f)
      <3>1. i \in 1 .. Len(f) /\ j - Len(f) \in 1 .. Len(g) /\ f[i] = g[j - Len(f)]
        BY <1>2, <1>3, <1>6, <2>3
      <3>2. f[i] \in F /\ f[i] \in G
        BY <1>1, <3>1
      <3> QED BY <3>2
    <2> QED BY <1>2, <2>1, <2>2, <2>3
  <1>7. IsInjective(s)
    <2> SUFFICES ASSUME NEW i \in 1 .. Len(f) + Len(g), NEW j \in 1 .. Len(f) + Len(g), s[i] = s[j]
                 PROVE  i = j
      BY <1>4, Zenon DEF IsInjective
    <2>1. i <= j \/ j <= i
      BY <1>2
    <2> QED BY <1>6, <2>1
  <1> QED BY <1>2, <1>3, <1>7 DEF f, g, s

(* atapi_init's table, whose first drive is marked as it is used. *)
AtapiRec == [pos : Positions, media : BOOLEAN]

LEMMA MediaMarked ==
    ASSUME NEW s \in Seq(AtapiRec), NEW b \in BOOLEAN
    PROVE  [s EXCEPT ![1].media = b] \in Seq(AtapiRec) /\ Len([s EXCEPT ![1].media = b]) = Len(s)
  <1> DEFINE r == [s EXCEPT ![1].media = b]
             n == Len(s)
  <1>1. n \in Nat /\ s \in [1 .. n -> AtapiRec]
    BY LenProperties
  <1> HIDE DEF n
  <1>2. r \in [1 .. n -> AtapiRec]
    BY <1>1 DEF AtapiRec
  <1> HIDE DEF r
  <1>3. r \in Seq(AtapiRec)
    BY <1>1, <1>2, SeqDef
  <1>4. Len(r) = n
    BY <1>1, <1>2, <1>3, LenProperties
  <1> QED BY <1>3, <1>4 DEF r, n

Recorded == {"none", "read", "write", "flush", "health"}

BlkTyped ==
    /\ hw \in Machines
    /\ main \in Disks /\ part \in Disks /\ main.size \in {0, Size, Blocks * PerBlock}
    /\ phase \in {"boot", "sata", "atapi", "ide", "open", "run", "off"}
    /\ drv.sata \in Seq(Positions) /\ Len(drv.sata) <= 2
    /\ drv.atapi \in Seq(AtapiRec) /\ Len(drv.atapi) <= 4
    /\ drv.ideCount \in 0 .. 4
    /\ seen \in Seq(Positions) /\ Len(seen) <= 4 /\ IsInjective(seen)
    /\ last.op \in Recorded

LEMMA InitTyped == BlkInit => BlkTyped
  <1> SUFFICES ASSUME BlkInit PROVE BlkTyped
    OBVIOUS
  <1> DEFINE e == <<>>
  <1>1. e \in Seq(Positions) /\ e \in Seq(AtapiRec) /\ Len(e) = 0 /\ DOMAIN e = {}
    OBVIOUS
  <1>2. seen = e /\ drv.sata = e /\ drv.atapi = e /\ drv.ideCount = 0
    BY DEF BlkInit, NoDrivers
  <1> HIDE DEF e
  <1>3. NoDisk \in Disks /\ NoDisk.size = 0 /\ NoTransfer.op = "none"
    BY DEF NoDisk, Disks, NoTransfer
  <1> QED BY <1>1, <1>2, <1>3 DEF BlkInit, BlkTyped, Recorded, IsInjective

(* Detection at boot. *)
LEMMA DetectTyped ==
    ASSUME BlkInv, BlkTyped, SataInit \/ AtapiInit \/ IdeDriverInit
    PROVE  BlkTyped'
  <1>0. /\ phase' \in {"sata", "atapi", "ide"} /\ UNCHANGED <<hw, main, part, seen, last>>
    BY DEF SataInit, AtapiInit, IdeDriverInit
  <1>t. Tables(drv)
    BY DEF BlkInv
  <1>1. CASE SataInit
    <2>1. PICK ok \in SUBSET hw.sata : drv' = SataTable(ok)
      BY <1>1 DEF SataInit
    <2>2. drv'.sata = InOrder(ok) /\ drv'.atapi = drv.atapi /\ drv'.ideCount = drv.ideCount
      BY <1>t, <2>1 DEF SataTable, Tables
    <2>3. 1 \notin ok /\ 3 \notin ok
      BY DEF BlkTyped, Machines
    <2>4. Len(InOrder(ok)) <= 2
      BY <2>3, FoundInOrder DEF One
    <2> QED BY <1>0, <2>2, <2>4, FoundInOrder DEF BlkTyped
  <1>2. CASE AtapiInit
    <2>1. PICK ok \in SUBSET Positions :
             drv' = [drv EXCEPT !.atapi = [i \in 1 .. Len(InOrder(ok)) |->
                                              [pos |-> InOrder(ok)[i], media |-> FALSE]],
                                !.atapiInit = TRUE]
      BY <1>2 DEF AtapiInit
    <2> DEFINE o == InOrder(ok)
               a == [i \in 1 .. Len(o) |-> [pos |-> o[i], media |-> FALSE]]
    <2>2. drv'.sata = drv.sata /\ drv'.atapi = a /\ drv'.ideCount = drv.ideCount
      BY <1>t, <2>1 DEF Tables
    <2>3. o \in Seq(Positions) /\ Len(o) \in Nat /\ Len(o) <= 4 /\ o \in [1 .. Len(o) -> Positions]
      BY FoundInOrder, LenProperties DEF One
    <2> HIDE DEF o
    <2>4. a \in [1 .. Len(o) -> AtapiRec]
      BY <2>3 DEF AtapiRec
    <2> HIDE DEF a
    <2>5. a \in Seq(AtapiRec)
      BY <2>3, <2>4, SeqDef
    <2>6. Len(a) = Len(o)
      BY <2>3, <2>4, <2>5, LenProperties
    <2> QED BY <1>0, <2>2, <2>3, <2>5, <2>6 DEF BlkTyped
  <1>3. CASE IdeDriverInit
    <2>1. PICK ok \in SUBSET Positions :
             drv' = [drv EXCEPT !.ide = [p \in Positions |-> p \in ok], !.ideCount = Cardinality(ok)]
      BY <1>3 DEF IdeDriverInit
    <2>2. drv'.sata = drv.sata /\ drv'.atapi = drv.atapi /\ drv'.ideCount = Cardinality(ok)
      BY <1>t, <2>1 DEF Tables
    <2>3. Cardinality(ok) \in 0 .. 4
      <3>1. IsFiniteSet(0 .. 3) /\ Cardinality(0 .. 3) = 4
        <4>1. 0 \in Int /\ 3 \in Int
          OBVIOUS
        <4>2. IsFiniteSet(0 .. 3) /\ Cardinality(0 .. 3) = IF 0 > 3 THEN 0 ELSE 3 - 0 + 1
          BY <4>1, FS_Interval, Zenon
        <4> QED BY <4>2
      <3>2. IsFiniteSet(ok) /\ Cardinality(ok) <= Cardinality(0 .. 3)
        BY <3>1, FS_Subset DEF Positions
      <3> QED BY <3>1, <3>2, FS_CardinalityType
    <2> QED BY <1>0, <2>2, <2>3 DEF BlkTyped
  <1> QED BY <1>1, <1>2, <1>3

(* A mark on the first CD drive leaves the tables as long as they were. *)
LEMMA MarkTyped ==
    ASSUME Tables(drv), drv.atapi \in Seq(AtapiRec), NEW b \in BOOLEAN,
           drv' = [drv EXCEPT !.atapi[1].media = b]
    PROVE  /\ drv'.sata = drv.sata /\ drv'.ideCount = drv.ideCount
           /\ drv'.atapi \in Seq(AtapiRec) /\ Len(drv'.atapi) = Len(drv.atapi)
  <1>1. drv'.sata = drv.sata /\ drv'.ideCount = drv.ideCount /\ drv'.atapi = [drv.atapi EXCEPT ![1].media = b]
    BY DEF Tables
  <1> QED BY <1>1, MediaMarked

(* The handles of cmain. *)
LEMMA HandlesTyped ==
    \A d \in {NoDisk, SataDisk(0), PataDisk(0), NoAnswer, AtapiDisk(0), AtapiDisk(Blocks * PerBlock)} :
        d \in Disks /\ d.size \in {0, Size, Blocks * PerBlock}
  <1> DEFINE Fits(d) == d \in Disks /\ d.size \in {0, Size, Blocks * PerBlock}
  <1>1. Fits(NoDisk) /\ Fits(NoAnswer)
    BY DEF NoDisk, NoAnswer, Disks
  <1>2. Fits(SataDisk(0)) /\ Fits(PataDisk(0))
    BY DEF NoDisk, SataDisk, PataDisk, Disks
  <1>3. ASSUME NEW s \in {0, Blocks * PerBlock} PROVE Fits(AtapiDisk(s))
    BY DEF NoDisk, AtapiDisk, Disks
  <1> HIDE DEF Fits
  <1>4. \A d \in {NoDisk, SataDisk(0), PataDisk(0), NoAnswer, AtapiDisk(0), AtapiDisk(Blocks * PerBlock)} : Fits(d)
    BY <1>1, <1>2, <1>3
  <1> QED BY <1>4 DEF Fits

LEMMA OpenTyped ==
    ASSUME BlkInv, BlkTyped, OpenMain
    PROVE  BlkTyped'
  <1>0. phase' = "open" /\ UNCHANGED <<hw, part, seen, last>>
    BY DEF OpenMain
  <1>1. drv' = drv \/ drv' = [drv EXCEPT !.atapi[1].media = TRUE]
    BY DEF OpenMain
  <1>2. /\ drv'.sata = drv.sata /\ drv'.ideCount = drv.ideCount
        /\ drv'.atapi \in Seq(AtapiRec) /\ Len(drv'.atapi) = Len(drv.atapi)
    BY <1>1, MarkTyped DEF BlkInv, BlkTyped
  <1>3. main' \in Disks /\ main'.size \in {0, Size, Blocks * PerBlock}
    <2>1. CASE drv.sataInit /\ drv.sata # <<>>
      BY <2>1, HandlesTyped DEF OpenMain
    <2>2. CASE ~(drv.sataInit /\ drv.sata # <<>>)
      <3>1. PICK r \in DiskInit(0) : main' = r[1] \/ main' \in DiskInitAtapi
        BY <2>2 DEF OpenMain
      <3>2. r[1] \in {NoDisk, PataDisk(0), NoAnswer}
        BY DEF DiskInit, DiskCheckPresence, PerformIdeInit, NoAnswer
      <3>3. DiskInitAtapi \subseteq {AtapiDisk(0), AtapiDisk(Blocks * PerBlock)}
        BY DEF DiskInitAtapi
      <3> QED BY <3>1, <3>2, <3>3, HandlesTyped
    <2> QED BY <2>1, <2>2
  <1> QED BY <1>0, <1>2, <1>3 DEF BlkTyped

(* The scan of the buses. *)
LEMMA ScanTyped ==
    ASSUME BlkTyped, DiskScanAllBuses
    PROVE  BlkTyped'
  <1> DEFINE rest == {p \in Positions \ FromIde : Detect(p) # "none"}
  <1>1. seen' = InOrder(FromIde) \o InOrder(rest) /\ phase' = "run" /\ UNCHANGED <<hw, drv, main, part, last>>
    BY DEF DiskScanAllBuses
  <1>2. FromIde \cap rest = {}
    OBVIOUS
  <1> HIDE DEF rest
  <1>3. seen' \in Seq(Positions) /\ Len(seen') <= 4 /\ IsInjective(seen')
    BY <1>1, <1>2, ScanFinds
  <1>4. IsInjective(seen)'
    BY <1>3 DEF IsInjective
  <1> QED BY <1>1, <1>3, <1>4 DEF BlkTyped

LEMMA RecordOp ==
    ASSUME NEW op, NEW d, NEW lba, NEW n, NEW o
    PROVE  Record(op, d, lba, n, o).op = op
BY DEF Record

(* A step of the running system. *)
LEMMA RunTyped ==
    ASSUME BlkTyped, UNCHANGED <<main, part, seen>>, phase' \in {"run", "off"}, hw' \in Machines,
           drv'.sata \in Seq(Positions), Len(drv'.sata) <= 2, drv'.ideCount \in {drv.ideCount, 0},
           drv'.atapi \in Seq(AtapiRec), Len(drv'.atapi) <= 4, last'.op \in Recorded
    PROVE  BlkTyped'
  <1>1. IsInjective(seen)'
    BY DEF BlkTyped, IsInjective
  <1>2. drv'.ideCount \in 0 .. 4
    BY DEF BlkTyped
  <1> QED BY <1>1, <1>2 DEF BlkTyped

(* Every step keeps the types. *)
LEMMA TypedStep == BlkInv /\ BlkTyped /\ [BlkNext]_BlkVars => BlkTyped'
  <1> SUFFICES ASSUME BlkInv, BlkTyped, [BlkNext]_BlkVars PROVE BlkTyped'
    OBVIOUS
  <1>0. /\ Tables(drv) /\ hw \in Machines /\ drv.atapi \in Seq(AtapiRec) /\ Len(drv.atapi) <= 4
        /\ last.op \in Recorded /\ drv.sata \in Seq(Positions) /\ Len(drv.sata) <= 2
    BY DEF BlkInv, BlkTyped
  <1>1. ASSUME NEW d \in {main, part}, NEW lba \in 0 .. Size, NEW n \in 0 .. MaxN,
               ReadSectors(d, lba, n) \/ WriteSectors(d, lba, n)
        PROVE  BlkTyped'
    <2>1. /\ phase' = "run" /\ UNCHANGED <<hw, main, part, seen>>
          /\ drv' = drv \/ drv' = [drv EXCEPT !.atapi[1].media = TRUE]
      BY <1>1 DEF ReadSectors, WriteSectors, Quiet
    <2>2. \E o : last' = Record("read", d, lba, n, o) \/ last' = Record("write", d, lba, n, o)
      BY <1>1 DEF ReadSectors, WriteSectors
    <2>3. last'.op \in Recorded
      BY <2>2, RecordOp DEF Recorded
    <2>4. /\ drv'.sata = drv.sata /\ drv'.ideCount = drv.ideCount
          /\ drv'.atapi \in Seq(AtapiRec) /\ Len(drv'.atapi) = Len(drv.atapi)
      BY <1>0, <2>1, MarkTyped
    <2> QED BY <1>0, <2>1, <2>3, <2>4, RunTyped
  <1>2. CASE (\E d \in {main, part} : FlushCache(d)) \/ ShowDiskHealth \/ Return
    <2>1. phase' = "run" /\ UNCHANGED <<hw, drv, main, part, seen>>
      BY <1>2 DEF FlushCache, ShowDiskHealth, Return, Quiet
    <2>2. \/ \E d, o : last' = Record("flush", d, 0, 0, o) \/ last' = Record("health", d, 0, 1, o)
          \/ last' = NoTransfer
      BY <1>2 DEF FlushCache, ShowDiskHealth, Return
    <2>3. last'.op \in Recorded
      BY <2>2, RecordOp DEF Recorded, NoTransfer
    <2> QED BY <1>0, <2>1, <2>3, RunTyped
  <1>3. CASE Eject \/ ChangeDisc
    <2>1. /\ phase' = "run" /\ UNCHANGED <<main, part, seen, last>>
          /\ drv' = drv \/ drv' = [drv EXCEPT !.atapi[1].media = FALSE]
          /\ hw' \in {hw, [hw EXCEPT !.media = FALSE], [hw EXCEPT !.media = ~hw.media]}
      BY <1>3 DEF Eject, ChangeDisc, Quiet
    <2>2. hw' \in Machines
      BY <1>0, <2>1 DEF Machines
    <2>3. /\ drv'.sata = drv.sata /\ drv'.ideCount = drv.ideCount
          /\ drv'.atapi \in Seq(AtapiRec) /\ Len(drv'.atapi) = Len(drv.atapi)
      BY <1>0, <2>1, MarkTyped
    <2> QED BY <1>0, <2>1, <2>2, <2>3, RunTyped
  <1>4. ASSUME NEW d \in {main, part}, NEW lba \in 0 .. Size, Shutdown(d, lba) PROVE BlkTyped'
    <2>1. phase' = "off" /\ UNCHANGED <<hw, main, part, seen>> /\ drv' = NoDrivers
      BY <1>4 DEF Shutdown, CleanDrivers
    <2>2. \E o : last' = Record("write", d, lba, 1, o)
      BY <1>4 DEF Shutdown
    <2>3. last'.op \in Recorded
      BY <2>2, RecordOp DEF Recorded
    <2>4. drv'.sata = <<>> /\ drv'.ideCount = 0 /\ drv'.atapi = <<>>
      BY <2>1 DEF NoDrivers
    <2>5. /\ drv'.atapi \in Seq(AtapiRec) /\ Len(drv'.atapi) <= 4
          /\ drv'.sata \in Seq(Positions) /\ Len(drv'.sata) <= 2
      BY <2>4
    <2> QED BY <1>0, <2>1, <2>3, <2>4, <2>5, RunTyped
  <1>5. CASE InitFromPartition
    <2>1. /\ part' = [main EXCEPT !.part = TRUE, !.off = PartStart, !.size = PartSize, !.phys = main.size]
          /\ UNCHANGED <<hw, drv, main, seen, phase, last>>
      BY <1>5 DEF InitFromPartition
    <2>2. main.part = FALSE /\ main \in Disks /\ main.size \in {0, Size, Blocks * PerBlock}
      BY DEF BlkInv, BlkTyped
    <2>3. part' \in Disks
      BY <2>1, <2>2 DEF Disks
    <2> QED BY <2>1, <2>3 DEF BlkTyped, IsInjective
  <1>6. CASE UNCHANGED BlkVars
    BY <1>6 DEF BlkVars, BlkTyped, IsInjective
  <1> QED BY <1>1, <1>2, <1>3, <1>4, <1>5, <1>6, DetectTyped, OpenTyped, ScanTyped DEF BlkNext

(* Theorem: the tables of the drivers and the handles keep their types, and   *)
(* disk_scan_all_buses enters no position twice and never goes past the four  *)
(* entries of detected_devices.                                               *)
THEOREM BlkTypeCorrect == BlkSpec => []BlkTypeOK
  <1>1. BlkTyped => BlkTypeOK
    BY DEF BlkTyped, BlkTypeOK, Recorded
  <1> QED BY <1>1, InitBlk, BlkStep, InitTyped, TypedStep, PTL DEF BlkSpec

-----------------------------------------------------------------------------
(* The driver system. *)

Names == {f.name : f \in LayoutFiles} \cup {Default}
KbdRec == [cached : BOOLEAN, list : BOOLEAN, layouts : Seq(Names), current : Names \cup {"none"}]

\* The instances: at most one is a keyboard.
Instances(s) ==
    /\ s \in Seq([type : Kinds, state : DriverStates])
    /\ \A i, j \in 1..Len(s) : s[i].type = "keyboard" /\ s[j].type = "keyboard" => i = j

HasKeyboard(s) == \E i \in 1..Len(s) : s[i].type = "keyboard"

\* The table of layouts begins with the default, or is not there.
LayoutTable(k) ==
    /\ k \in KbdRec
    /\ ~k.list => k.layouts = <<>> /\ k.current = "none"
    /\ k.list => /\ Len(k.layouts) \in 1..KEYBOARD_MAX_LAYOUTS
                 /\ k.layouts[1] = Default
                 /\ k.current \in ToSet(k.layouts)
    /\ \A a, b \in 1..Len(k.layouts) : k.layouts[a] = k.layouts[b] => a = b

Owned(k) == IF k.list THEN Len(k.layouts) ELSE 0

Registry(r) == r \in Seq(Kinds) /\ Len(r) <= DRIVER_MAX_TYPES

DriversInv ==
    /\ Registry(registry)
    /\ Instances(instances)
    /\ LayoutTable(kbd)
    /\ kbd.list => HasKeyboard(instances)
    /\ live = 2 * Len(instances) + Owned(kbd)
    /\ booted \in 0..(Len(Devices) + 1)

\* The devices are numbered.
LEMMA DevicesFacts ==
    /\ Len(Devices) \in Nat
    /\ \A i \in 1..Len(Devices) : Devices[i] \in Kinds
    /\ DRIVER_MAX_TYPES \in Nat /\ KEYBOARD_MAX_LAYOUTS \in Nat /\ KEYBOARD_MAX_LAYOUTS >= 1
  BY DriversAssumption, LenProperties DEF Kinds

\* driver_register_type keeps the registry within its bound.
LEMMA RegisterLemma ==
    ASSUME NEW r, Registry(r), NEW t \in Kinds
    PROVE  Registry(RegisterType(r, t))
  <1>1. CASE RegisterType(r, t) = r
    BY <1>1
  <1>2. CASE RegisterType(r, t) # r
    <2>1. RegisterType(r, t) = Append(r, t) /\ ~(Len(r) >= DRIVER_MAX_TYPES)
      BY <1>2 DEF RegisterType
    <2>2. Append(r, t) \in Seq(Kinds) /\ Len(Append(r, t)) = Len(r) + 1 /\ Len(r) \in Nat
      BY AppendProperties, LenProperties DEF Registry
    <2> QED BY <2>1, <2>2, DevicesFacts DEF Registry
  <1> QED BY <1>1, <1>2

RegStep(r, i) == IF Devices[i] \in LateTypes THEN r ELSE RegisterType(r, Devices[i])
IsReg(m, g) == g = [i \in 0..m |-> IF i = 0 THEN <<>> ELSE RegStep(g[i - 1], i)]

\* Each registration is made after the one before.
LEMMA RegExists ==
    ASSUME NEW t \in Nat
    PROVE  \E g : IsReg(t, g)
  <1> DEFINE Bad == {m \in Nat : ~\E g : IsReg(m, g)}
  <1>1. Bad = {}
    <2> SUFFICES ASSUME Bad # {} PROVE FALSE
      OBVIOUS
    <2>1. PICK m \in Bad : \A k \in Bad : m <= k
      BY LeastNat
    <2>2. IsReg(0, [k \in 0..0 |-> <<>>])
      BY DEF IsReg
    <2>3. m # 0
      BY <2>1, <2>2
    <2>4. m - 1 \in Nat /\ m - 1 \notin Bad /\ m \in Nat
      <3>1. m \in Nat
        OBVIOUS
      <3> HIDE DEF Bad
      <3> QED BY <3>1, <2>1, <2>3
    <2>5. PICK g : IsReg(m - 1, g)
      BY <2>4
    <2> DEFINE h == [k \in 0..m |-> IF k = m THEN RegStep(g[m - 1], m) ELSE g[k]]
    <2>6. \A k \in 0..m - 1 : g[k] = IF k = 0 THEN <<>> ELSE RegStep(g[k - 1], k)
      BY <2>5, Zenon DEF IsReg
    <2>7. ASSUME NEW k \in 0..m PROVE h[k] = IF k = 0 THEN <<>> ELSE RegStep(h[k - 1], k)
      <3>1. CASE k = m
        <4>1. h[k] = RegStep(g[m - 1], m)
          BY <3>1, <2>4
        <4>2. h[k - 1] = g[m - 1]
          BY <3>1, <2>4, <2>3
        <4> QED BY <4>1, <4>2, <3>1, <2>3
      <3>2. CASE k # m
        <4>1. k \in 0..m - 1 /\ h[k] = g[k]
          BY <3>2, <2>4
        <4>2. k # 0 => h[k - 1] = g[k - 1]
          BY <4>1, <2>4
        <4> QED BY <4>1, <4>2, <2>6
      <3> QED BY <3>1, <3>2
    <2>8. h = [k \in 0..m |-> h[k]]
      OBVIOUS
    <2>9. IsReg(m, h)
      <3> HIDE DEF h
      <3> QED BY <2>7, <2>8, Zenon DEF IsReg
    <2> QED BY <2>1, <2>9
  <1> QED BY <1>1

\* The registry after driver_system_init.
LEMMA InitDrivers == DriversInit => DriversInv
  <1> SUFFICES ASSUME DriversInit PROVE DriversInv
    OBVIOUS
  <1> DEFINE n == Len(Devices)
             g == CHOOSE f : IsReg(n, f)
  <1>0. n \in Nat
    BY DevicesFacts
  <1>1. IsReg(n, g)
    BY <1>0, RegExists
  <1>2. registry = g[n]
    BY DEF DriversInit, IsReg, RegStep
  <1> HIDE DEF g
  <1>3. \A k \in 0..n : g[k] = IF k = 0 THEN <<>> ELSE RegStep(g[k - 1], k)
    BY <1>1, Zenon DEF IsReg
  <1> DEFINE Bad == {k \in 0..n : ~Registry(g[k])}
  <1>4. Bad = {}
    <2> SUFFICES ASSUME Bad # {} PROVE FALSE
      OBVIOUS
    <2>1. Bad \in SUBSET Nat
      BY <1>0
    <2>2. PICK m \in Bad : \A k \in Bad : m <= k
      BY <2>1, LeastNat
    <2>3. m \in 0..n /\ ~Registry(g[m])
      BY <2>2
    <2>4. m # 0
      <3>1. <<>> \in Seq(Kinds) /\ Len(<<>>) = 0
        OBVIOUS
      <3>2. g[0] = <<>>
        BY <1>0, <1>3
      <3>3. Registry(g[0])
        BY <3>1, <3>2, DevicesFacts DEF Registry
      <3> QED BY <2>3, <3>3
    <2>5. m - 1 \in 0..n /\ m - 1 \notin Bad /\ m \in 1..n
      <3> HIDE DEF Bad
      <3> QED BY <1>0, <2>2, <2>3, <2>4
    <2>6. Registry(g[m - 1])
      BY <2>5
    <2>7. g[m] = RegStep(g[m - 1], m)
      BY <1>3, <2>3, <2>4
    <2>8. Devices[m] \in Kinds
      BY <2>5, DevicesFacts
    <2>9. Registry(g[m])
      BY <2>6, <2>7, <2>8, RegisterLemma DEF RegStep
    <2> QED BY <2>3, <2>9
  <1>5. Registry(registry)
    BY <1>0, <1>2, <1>4
  <1>6. instances = <<>> /\ kbd = NoData /\ live = 0 /\ booted = 0
    BY DEF DriversInit
  <1>7. Instances(<<>>)
    <2>1. <<>> \in Seq([type : Kinds, state : DriverStates]) /\ Len(<<>>) = 0
      OBVIOUS
    <2> QED BY <2>1 DEF Instances
  <1>8. LayoutTable(NoData)
    <2>1. <<>> \in Seq(Names) /\ Len(<<>>) = 0
      OBVIOUS
    <2> QED BY <2>1 DEF LayoutTable, NoData, KbdRec
  <1>9. NoData.list = FALSE /\ Len(<<>>) = 0
    BY DEF NoData
  <1> QED BY <1>0, <1>5, <1>6, <1>7, <1>8, <1>9 DEF DriversInv, Owned

\* driver_find sees every instance of a type.
LEMMA FindNone ==
    ASSUME Instances(instances), NEW type, Find(type) = 0
    PROVE  \A i \in 1..Len(instances) : instances[i].type # type
  <1> DEFINE I == {i \in 1..Len(instances) : instances[i].type = type}
  <1>0. Len(instances) \in Nat
    BY LenProperties DEF Instances
  <1>1. Find(type) = IF I # {} THEN Min(I) ELSE 0
    BY DEF Find, SelectInSeq
  <1>2. I \in SUBSET Nat /\ 0 \notin I
    BY <1>0
  <1> HIDE DEF I
  <1>3. I = {}
    BY <1>1, <1>2, MinNat
  <1> QED BY <1>3 DEF I

\* keyboard_driver_init.
LEMMA KeyboardDataLemma ==
    ASSUME NEW ok \in BOOLEAN
    PROVE  /\ LayoutTable(KeyboardData(ok)) /\ KeyboardData(ok).list = ok
           /\ Owned(KeyboardData(ok)) = IF ok THEN 1 ELSE 0
  <1>1. Default \in Names
    BY DEF Names
  <1>2. CASE ok
    <2>1. KeyboardData(ok) = [cached |-> TRUE, list |-> TRUE, layouts |-> <<Default>>, current |-> Default]
      BY <1>2 DEF KeyboardData
    <2>2. <<Default>> \in Seq(Names) /\ Len(<<Default>>) = 1 /\ <<Default>>[1] = Default
      BY <1>1
    <2> DEFINE q == <<Default>>
    <2>3. q \in Seq(Names) /\ Len(q) = 1 /\ q[1] = Default /\ DOMAIN q = 1..1
      BY <2>2
    <2>4. KeyboardData(ok) = [cached |-> TRUE, list |-> TRUE, layouts |-> q, current |-> Default]
      BY <2>1
    <2> HIDE DEF q
    <2> DEFINE k == KeyboardData(ok)
    <2>5. k \in KbdRec /\ k.list = TRUE /\ k.layouts = q /\ k.current = Default
      BY <1>1, <2>3, <2>4 DEF KbdRec
    <2> HIDE DEF k
    <2>6. k.current \in ToSet(k.layouts)
      BY <2>3, <2>5 DEF ToSet
    <2>a. \A a, b \in 1..Len(k.layouts) : k.layouts[a] = k.layouts[b] => a = b
      <3>1. Len(q) = 1
        BY <2>3
      <3>2. \A a, b \in 1..Len(q) : a = b
        BY <3>1
      <3> QED BY <2>5, <3>2, Zenon
    <2>b. Len(k.layouts) \in 1..KEYBOARD_MAX_LAYOUTS /\ k.layouts[1] = Default
      <3>1. Len(q) = 1
        BY <2>3
      <3>2. Len(q) \in 1..KEYBOARD_MAX_LAYOUTS
        BY <3>1, DevicesFacts
      <3> QED BY <2>3, <2>5, <3>2, Zenon
    <2>7. LayoutTable(k) /\ Owned(k) = 1
      BY <2>3, <2>5, <2>6, <2>a, <2>b DEF LayoutTable, Owned
    <2> QED BY <1>2, <2>5, <2>7 DEF k
  <1>3. CASE ~ok
    <2>1. KeyboardData(ok) = [cached |-> TRUE, list |-> FALSE, layouts |-> <<>>, current |-> "none"]
      BY <1>3 DEF KeyboardData
    <2>2. <<>> \in Seq(Names) /\ Len(<<>>) = 0
      OBVIOUS
    <2> DEFINE k == KeyboardData(ok)
    <2>3. k \in KbdRec /\ k.list = FALSE /\ k.layouts = <<>> /\ k.current = "none"
      BY <2>1, <2>2 DEF KbdRec
    <2> HIDE DEF k
    <2>4. LayoutTable(k) /\ Owned(k) = 0
      BY <2>2, <2>3 DEF LayoutTable, Owned
    <2> QED BY <1>3, <2>3, <2>4 DEF k
  <1> QED BY <1>2, <1>3

\* A new instance at the head of the list.
LEMMA NewInstance ==
    ASSUME NEW s, Instances(s), NEW type \in Kinds, NEW state \in DriverStates,
           \A i \in 1..Len(s) : s[i].type # type
    PROVE  LET r == <<[type |-> type, state |-> state]>> \o s IN
           /\ Instances(r) /\ Len(r) = Len(s) + 1
           /\ HasKeyboard(s) => HasKeyboard(r)
           /\ type = "keyboard" => HasKeyboard(r)
  <1> DEFINE d == [type |-> type, state |-> state]
             S == [type : Kinds, state : DriverStates]
             r == <<d>> \o s
  <1>1. d \in S /\ d.type = type
    OBVIOUS
  <1>2. s \in Seq(S)
    BY DEF Instances
  <1> HIDE DEF d, S
  <1>3. /\ r \in Seq(S) /\ Len(s) \in Nat /\ Len(r) = Len(s) + 1 /\ r[1] = d
        /\ \A i \in 2..Len(s) + 1 : r[i] = s[i - 1]
    BY <1>1, <1>2, ConsLemma
  <1> HIDE DEF r
  <1>4. ASSUME NEW i \in 1..Len(r), NEW j \in 1..Len(r), r[i].type = "keyboard", r[j].type = "keyboard"
        PROVE  i = j
    <2>1. CASE i = 1 /\ j # 1
      <3>1. j - 1 \in 1..Len(s) /\ j \in 2..Len(s) + 1
        BY <1>3, <2>1
      <3>2. s[j - 1].type = "keyboard" /\ type = "keyboard"
        BY <1>1, <1>3, <1>4, <2>1, <3>1
      <3> QED BY <3>1, <3>2
    <2>2. CASE i # 1 /\ j = 1
      <3>1. i - 1 \in 1..Len(s) /\ i \in 2..Len(s) + 1
        BY <1>3, <2>2
      <3>2. s[i - 1].type = "keyboard" /\ type = "keyboard"
        BY <1>1, <1>3, <1>4, <2>2, <3>1
      <3> QED BY <3>1, <3>2
    <2>3. CASE i # 1 /\ j # 1
      <3>1. i - 1 \in 1..Len(s) /\ i \in 2..Len(s) + 1 /\ j - 1 \in 1..Len(s) /\ j \in 2..Len(s) + 1
        BY <1>3, <2>3
      <3>2. s[i - 1].type = "keyboard" /\ s[j - 1].type = "keyboard"
        BY <1>3, <1>4, <3>1
      <3>3. i - 1 = j - 1
        BY <3>1, <3>2 DEF Instances
      <3> QED BY <3>1, <3>3
    <2> QED BY <2>1, <2>2, <2>3
  <1>5. Instances(r)
    BY <1>3, <1>4 DEF Instances, S
  <1>6. ASSUME HasKeyboard(s) PROVE HasKeyboard(r)
    <2>1. PICK i \in 1..Len(s) : s[i].type = "keyboard"
      BY <1>6 DEF HasKeyboard
    <2>2. i + 1 \in 2..Len(s) + 1 /\ i + 1 \in 1..Len(r) /\ i + 1 - 1 = i
      BY <1>3
    <2>3. r[i + 1].type = "keyboard"
      BY <1>3, <2>1, <2>2
    <2> QED BY <2>2, <2>3 DEF HasKeyboard
  <1>7. type = "keyboard" => HasKeyboard(r)
    <2>1. 1 \in 1..Len(r)
      BY <1>3
    <2> QED BY <1>1, <1>3, <2>1 DEF HasKeyboard
  <1> QED BY <1>3, <1>5, <1>6, <1>7 DEF r, d

\* driver_create, driver_init and driver_start.
LEMMA CreateStep ==
    ASSUME DriversInv, Registry(registry'), booted' \in 0..(Len(Devices) + 1), NEW type, CreateAndStart(type)
    PROVE  DriversInv'
  <1>1. type \in Kinds
    <2>1. type \in ToSet(registry') /\ registry' \in Seq(Kinds)
      BY DEF CreateAndStart, Registry
    <2>2. PICK i \in DOMAIN registry' : type = registry'[i]
      BY <2>1 DEF ToSet
    <2>3. i \in 1..Len(registry')
      BY <2>1, <2>2, LenProperties
    <2> QED BY <2>1, <2>2, <2>3, ElementOfSeq
  <1>2. \A i \in 1..Len(instances) : instances[i].type # type
    BY FindNone DEF CreateAndStart, DriversInv
  <1>3. PICK state \in DriverStates :
           /\ instances' = <<[type |-> type, state |-> state]>> \o instances
           /\ kbd' = IF type = "keyboard" THEN KeyboardData(state = "ACTIVE") ELSE kbd
           /\ live' = live + 2 + (IF type = "keyboard" /\ state = "ACTIVE" THEN 1 ELSE 0)
    BY DEF CreateAndStart
  <1>4. Instances(instances') /\ Len(instances') = Len(instances) + 1
        /\ (HasKeyboard(instances) => HasKeyboard(instances'))
        /\ (type = "keyboard" => HasKeyboard(instances'))
    BY <1>1, <1>2, <1>3, NewInstance DEF DriversInv
  <1>5. Len(instances) \in Nat /\ Owned(kbd) \in Nat
    BY LenProperties DEF DriversInv, Instances, Owned, LayoutTable, KbdRec
  <1>6. CASE type = "keyboard"
    <2> DEFINE ok == state = "ACTIVE"
    <2>1. kbd' = KeyboardData(ok) /\ live' = live + 2 + (IF ok THEN 1 ELSE 0)
      BY <1>3, <1>6
    <2>2. ok \in BOOLEAN
      OBVIOUS
    <2> HIDE DEF ok
    <2>3. LayoutTable(kbd') /\ Owned(kbd') = IF ok THEN 1 ELSE 0
      BY <2>1, <2>2, KeyboardDataLemma
    <2>4. ~kbd.list
      BY <1>2, <1>6 DEF DriversInv, HasKeyboard
    <2>5. live = 2 * Len(instances)
      BY <1>5, <2>4 DEF DriversInv, Owned
    <2>6. live' = 2 * Len(instances') + Owned(kbd')
      BY <1>4, <1>5, <2>1, <2>3, <2>5
    <2>7. LayoutTable(kbd)' /\ Instances(instances)' /\ HasKeyboard(instances)' /\ Registry(registry)' /\ Owned(kbd)' = Owned(kbd')
      BY <1>4, <1>6, <2>3 DEF LayoutTable, Instances, HasKeyboard, Registry, Owned
    <2> QED BY <2>6, <2>7 DEF DriversInv
  <1>7. CASE type # "keyboard"
    <2>1. kbd' = kbd /\ live' = live + 2
      BY <1>3, <1>7, <1>5 DEF DriversInv
    <2>2. live' = 2 * Len(instances') + Owned(kbd)
      BY <1>4, <1>5, <2>1 DEF DriversInv
    <2>3. LayoutTable(kbd)' /\ Instances(instances)' /\ Registry(registry)' /\ Owned(kbd)' = Owned(kbd)
      BY <1>4, <2>1 DEF LayoutTable, Instances, Registry, DriversInv, Owned
    <2>4. kbd'.list => HasKeyboard(instances)'
      BY <1>4, <2>1 DEF DriversInv, HasKeyboard
    <2> QED BY <2>2, <2>3, <2>4 DEF DriversInv
  <1> QED BY <1>6, <1>7

\* The boot code's next driver.
LEMMA BootStep == ASSUME DriversInv, BootDriver PROVE DriversInv'
  <1> DEFINE type == Devices[booted + 1]
  <1>1. booted \in Nat /\ booted < Len(Devices) /\ booted' = booted + 1 /\ booted + 1 \in 1..Len(Devices)
    BY DevicesFacts DEF BootDriver, DriversInv
  <1>2. booted' \in 0..(Len(Devices) + 1)
    BY <1>1, DevicesFacts
  <1>3. type \in Kinds
    BY <1>1, DevicesFacts
  <1>4. registry' = IF type \in LateTypes THEN RegisterType(registry, type) ELSE registry
    BY DEF BootDriver
  <1>5. CreateAndStart(type) \/ UNCHANGED <<instances, live, kbd>>
    BY DEF BootDriver
  <1> HIDE DEF type
  <1>6. Registry(registry')
    BY <1>3, <1>4, RegisterLemma DEF DriversInv
  <1>7. CASE CreateAndStart(type)
    BY <1>2, <1>6, <1>7, CreateStep
  <1>8. CASE UNCHANGED <<instances, live, kbd>>
    <2>1. LayoutTable(kbd)' /\ Instances(instances)' /\ Registry(registry)' /\ Owned(kbd)' = Owned(kbd)
          /\ (HasKeyboard(instances)' <=> HasKeyboard(instances))
      BY <1>6, <1>8 DEF LayoutTable, Instances, Registry, DriversInv, Owned, HasKeyboard
    <2> QED BY <1>2, <1>8, <2>1 DEF DriversInv
  <1> QED BY <1>5, <1>7, <1>8

\* The frame of a step that only changes the keyboard's table.
LEMMA KbdFrame ==
    ASSUME DriversInv, UNCHANGED <<registry, instances, booted>>, LayoutTable(kbd'), kbd'.list = kbd.list,
           live' - Owned(kbd') = live - Owned(kbd), live' \in Int, Owned(kbd') \in Int
    PROVE  DriversInv'
  <1>1. Len(instances) \in Nat /\ Owned(kbd) \in Nat
    BY LenProperties DEF DriversInv, Instances, Owned, LayoutTable, KbdRec
  <1>2. live = 2 * Len(instances) + Owned(kbd)
    BY DEF DriversInv
  <1>3. live' = 2 * Len(instances) + Owned(kbd')
    BY <1>1, <1>2
  <1>4. LayoutTable(kbd)' /\ Instances(instances)' /\ Registry(registry)' /\ Owned(kbd)' = Owned(kbd')
        /\ (HasKeyboard(instances)' <=> HasKeyboard(instances))
    BY DEF LayoutTable, Instances, Registry, DriversInv, Owned, HasKeyboard
  <1> QED BY <1>3, <1>4 DEF DriversInv

\* keyboard_load_layout: what is allocated is what is kept.
LEMMA LoadStep == ASSUME DriversInv, LoadLayout PROVE DriversInv'
  <1>0. LayoutTable(kbd) /\ kbd \in KbdRec /\ live \in Int /\ Owned(kbd) \in Nat
    BY LenProperties DEF DriversInv, LayoutTable, Instances, Owned, KbdRec
  <1>f. PICK f \in LayoutFiles : \E p \in LoadPaths(f), select \in BOOLEAN :
          /\ live' = live + p.live
          /\ kbd' = IF ~p.kept THEN kbd
                    ELSE [kbd EXCEPT !.layouts = Append(@, f.name),
                                     !.current = IF select THEN f.name ELSE @]
    BY DEF LoadLayout
  <1>1. PICK p \in LoadPaths(f), select \in BOOLEAN :
          /\ live' = live + p.live
          /\ kbd' = IF ~p.kept THEN kbd
                    ELSE [kbd EXCEPT !.layouts = Append(@, f.name),
                                     !.current = IF select THEN f.name ELSE @]
    BY <1>f
  <1>2. \/ ~p.kept /\ p.live = 0
        \/ p.kept /\ MayAdd(f.name) /\ p.live = 1
    BY DEF LoadPaths
  <1>3. UNCHANGED <<registry, instances, booted>>
    BY DEF LoadLayout
  <1>4. CASE ~p.kept /\ p.live = 0
    <2>1. kbd' = kbd /\ live' = live
      BY <1>0, <1>1, <1>4
    <2> QED BY <1>0, <1>3, <2>1, KbdFrame
  <1>5. CASE p.kept /\ MayAdd(f.name) /\ p.live = 1
    <2> DEFINE q == Append(kbd.layouts, f.name)
               n == Len(kbd.layouts)
               c == IF select THEN f.name ELSE kbd.current
               k == [kbd EXCEPT !.layouts = q, !.current = c]
    <2>1. kbd.list /\ n < KEYBOARD_MAX_LAYOUTS /\ f.name \notin ToSet(kbd.layouts)
      BY <1>5 DEF MayAdd
    <2>2. f.name \in Names /\ kbd.layouts \in Seq(Names) /\ n \in Nat /\ n >= 1
          /\ kbd.layouts[1] = Default /\ kbd.current \in ToSet(kbd.layouts)
      BY <1>0, <2>1 DEF Names, LayoutTable, KbdRec
    <2>3. /\ q \in Seq(Names) /\ Len(q) = n + 1
          /\ \A i \in 1..n : q[i] = kbd.layouts[i]
          /\ q[n + 1] = f.name
      BY <2>2, AppendProperties
    <2>4. kbd' = k /\ live' = live + 1
      BY <1>0, <1>1, <1>5 DEF KbdRec
    <2>n. f.name \notin {kbd.layouts[i] : i \in 1..n} /\ \E i \in 1..n : kbd.current = kbd.layouts[i]
      BY <2>1, <2>2, LenProperties DEF ToSet
    <2> HIDE DEF q
    <2>5. c \in ToSet(q)
      <3>1. DOMAIN q = 1..(n + 1)
        BY <2>2, <2>3, LenProperties
      <3>2. CASE c = f.name
        BY <2>2, <2>3, <3>1, <3>2 DEF ToSet
      <3>3. CASE c = kbd.current
        <4>1. PICK i \in 1..n : kbd.current = kbd.layouts[i]
          BY <2>n
        <4>2. i \in DOMAIN q /\ q[i] = kbd.current
          BY <2>2, <2>3, <3>1, <4>1
        <4> QED BY <3>3, <4>2 DEF ToSet
      <3> QED BY <3>2, <3>3
    <2>6. c \in Names \cup {"none"}
      BY <1>0, <2>2 DEF KbdRec
    <2> HIDE DEF c
    <2>7. k \in KbdRec /\ k.list = kbd.list /\ k.layouts = q /\ k.current = c
      BY <1>0, <2>3, <2>6 DEF KbdRec
    <2> HIDE DEF k
    <2>8. ASSUME NEW a \in 1..Len(q), NEW b \in 1..Len(q), q[a] = q[b] PROVE a = b
      <3>1. a \in 1..(n + 1) /\ b \in 1..(n + 1)
        BY <2>2, <2>3
      <3>2. CASE a \in 1..n /\ b \in 1..n
        BY <1>0, <2>3, <2>8, <3>2 DEF LayoutTable
      <3>3. CASE a = n + 1 \/ b = n + 1
        <4>1. \A i \in 1..n : q[i] # f.name
          BY <2>3, <2>n
        <4>2. q[n + 1] = f.name
          BY <2>3
        <4> QED BY <2>2, <2>8, <3>1, <3>3, <4>1, <4>2
      <3> QED BY <2>2, <3>1, <3>2, <3>3
    <2>9. Len(q) \in 1..KEYBOARD_MAX_LAYOUTS /\ q[1] = Default
      BY <2>1, <2>2, <2>3, DevicesFacts
    <2>10. LayoutTable(k)
      BY <2>1, <2>5, <2>7, <2>8, <2>9 DEF LayoutTable
    <2>11. Owned(k) = n + 1 /\ Owned(kbd) = n
      BY <2>1, <2>3, <2>7 DEF Owned
    <2>12. live' - Owned(kbd') = live - Owned(kbd) /\ live' \in Int /\ Owned(kbd') \in Int
      BY <1>0, <2>2, <2>4, <2>11
    <2> QED BY <1>3, <2>4, <2>7, <2>10, <2>12, KbdFrame
  <1> QED BY <1>2, <1>4, <1>5

\* keyboard_driver_set_layout.
LEMMA ChooseStep == ASSUME DriversInv, ChooseLayout PROVE DriversInv'
  <1>0. LayoutTable(kbd) /\ kbd \in KbdRec /\ live \in Int /\ Owned(kbd) \in Nat
    BY LenProperties DEF DriversInv, LayoutTable, Instances, Owned, KbdRec
  <1>1. PICK f \in LayoutFiles \cup {[name |-> Default, magic |-> TRUE]} : SetLayout(f.name)
    BY DEF ChooseLayout
  <1>2. UNCHANGED <<registry, instances, live, booted>>
    BY DEF ChooseLayout
  <1> DEFINE c == f.name
  <1>3. c \in ToSet(kbd.layouts) /\ kbd' = [kbd EXCEPT !.current = c]
    BY <1>1 DEF SetLayout
  <1>4. c \in Names
    BY DEF Names
  <1> HIDE DEF c
  <1>5. kbd' \in KbdRec /\ kbd'.list = kbd.list /\ kbd'.layouts = kbd.layouts /\ kbd'.current = c
    BY <1>0, <1>3, <1>4 DEF KbdRec
  <1>6. kbd.list
    <2> SUFFICES ASSUME ~kbd.list PROVE FALSE
      OBVIOUS
    <2>1. kbd.layouts = <<>>
      BY <1>0 DEF LayoutTable
    <2>2. ToSet(<<>>) = {}
      BY DEF ToSet
    <2> QED BY <1>3, <2>1, <2>2
  <1>7. LayoutTable(kbd') /\ Owned(kbd') = Owned(kbd)
    BY <1>0, <1>3, <1>5, <1>6 DEF LayoutTable, Owned
  <1> QED BY <1>0, <1>2, <1>5, <1>7, KbdFrame

\* What the clean-up of each instance frees: the keyboard's, its table too.
LEMMA FreedLemma ==
    ASSUME DriversInv, NEW i \in 1..Len(instances)
    PROVE  FreedByCleanup(instances[i]) = 2 + IF instances[i].type = "keyboard" THEN Owned(kbd) ELSE 0
  <1>0. LayoutTable(kbd) /\ kbd \in KbdRec /\ kbd.layouts \in Seq(Names) /\ Len(kbd.layouts) \in Nat
    BY LenProperties DEF DriversInv, LayoutTable, KbdRec
  <1> DEFINE L == kbd.layouts
             n == Len(L)
             C == {k \in 1..n : L[k] # Default}
  <1>1. CASE kbd.list
    <2>1. n >= 1 /\ L[1] = Default /\ n \in Nat
      BY <1>0, <1>1 DEF LayoutTable
    <2>2. C = 2..n
      <3>1. \A k \in 2..n : k \in 1..n /\ L[k] # Default
        BY <1>0, <2>1 DEF LayoutTable
      <3>2. \A k \in C : k \in 2..n
        BY <2>1
      <3> QED BY <3>1, <3>2
    <2>3. Cardinality(2..n) = n - 1
      <3>1. 2 \in Int /\ n \in Int
        BY <2>1
      <3>2. Cardinality(2..n) = IF 2 > n THEN 0 ELSE n - 2 + 1
        BY <3>1, FS_Interval
      <3> QED BY <2>1, <3>2
    <2>4. Cardinality(C) + 1 = Owned(kbd) /\ Owned(kbd) = n
      <3>1. Cardinality(C) = n - 1
        BY <2>2, <2>3
      <3>2. Owned(kbd) = n
        BY <1>1 DEF Owned
      <3> HIDE DEF C, n
      <3> QED BY <2>1, <3>1, <3>2
    <2> QED BY <1>1, <2>4 DEF FreedByCleanup
  <1>2. CASE ~kbd.list
    <2>1. L = <<>> /\ n = 0
      BY <1>0, <1>2 DEF LayoutTable
    <2>2. C = {}
      BY <2>1
    <2>3. Cardinality(C) = 0
      BY <2>2, FS_EmptySet
    <2>4. Owned(kbd) = 0
      BY <1>2 DEF Owned
    <2> QED BY <1>2, <2>3, <2>4 DEF FreedByCleanup
  <1> QED BY <1>1, <1>2

FreedStep(x, i) == x + FreedByCleanup(instances[i])
IsFreed(m, g) == g = [i \in 0..m |-> IF i = 0 THEN 0 ELSE FreedStep(g[i - 1], i)]

\* Each instance is freed after the one before.
LEMMA FreedExists ==
    ASSUME NEW t \in Nat
    PROVE  \E g : IsFreed(t, g)
  <1> DEFINE Bad == {m \in Nat : ~\E g : IsFreed(m, g)}
  <1>1. Bad = {}
    <2> SUFFICES ASSUME Bad # {} PROVE FALSE
      OBVIOUS
    <2>1. PICK m \in Bad : \A k \in Bad : m <= k
      BY LeastNat
    <2>2. IsFreed(0, [k \in 0..0 |-> 0])
      BY DEF IsFreed
    <2>3. m # 0
      BY <2>1, <2>2
    <2>4. m - 1 \in Nat /\ m - 1 \notin Bad /\ m \in Nat
      <3>1. m \in Nat
        OBVIOUS
      <3> HIDE DEF Bad
      <3> QED BY <3>1, <2>1, <2>3
    <2>5. PICK g : IsFreed(m - 1, g)
      BY <2>4
    <2> DEFINE h == [k \in 0..m |-> IF k = m THEN FreedStep(g[m - 1], m) ELSE g[k]]
    <2>6. \A k \in 0..m - 1 : g[k] = IF k = 0 THEN 0 ELSE FreedStep(g[k - 1], k)
      BY <2>5, Zenon DEF IsFreed
    <2>7. ASSUME NEW k \in 0..m PROVE h[k] = IF k = 0 THEN 0 ELSE FreedStep(h[k - 1], k)
      <3>1. CASE k = m
        <4>1. h[k] = FreedStep(g[m - 1], m)
          BY <3>1, <2>4
        <4>2. h[k - 1] = g[m - 1]
          BY <3>1, <2>4, <2>3
        <4> QED BY <4>1, <4>2, <3>1, <2>3
      <3>2. CASE k # m
        <4>1. k \in 0..m - 1 /\ h[k] = g[k]
          BY <3>2, <2>4
        <4>2. k # 0 => h[k - 1] = g[k - 1]
          BY <4>1, <2>4
        <4> QED BY <4>1, <4>2, <2>6
      <3> QED BY <3>1, <3>2
    <2>8. h = [k \in 0..m |-> h[k]]
      OBVIOUS
    <2>9. IsFreed(m, h)
      <3> HIDE DEF h
      <3> QED BY <2>7, <2>8, Zenon DEF IsFreed
    <2> QED BY <2>1, <2>9
  <1> QED BY <1>1


KeyboardBy(m) == \E j \in 1..m : instances[j].type = "keyboard"
Sum(m) == 2 * m + IF KeyboardBy(m) THEN Owned(kbd) ELSE 0

\* driver_system_cleanup frees all that is allocated.
LEMMA CleanupStep == ASSUME DriversInv, DriverCleanup PROVE DriversInv'
  <1> DEFINE n == Len(instances)
             g == CHOOSE f : IsFreed(n, f)
  <1>0. n \in Nat /\ Owned(kbd) \in Nat /\ live = 2 * n + Owned(kbd)
    BY LenProperties DEF DriversInv, Instances, Owned, LayoutTable, KbdRec
  <1>1. IsFreed(n, g)
    BY <1>0, FreedExists
  <1>2. live' = live - g[n]
    BY DEF DriverCleanup, IsFreed, FreedStep
  <1> HIDE DEF g
  <1>3. \A k \in 0..n : g[k] = IF k = 0 THEN 0 ELSE FreedStep(g[k - 1], k)
    BY <1>1, Zenon DEF IsFreed
  <1> DEFINE Bad == {k \in 0..n : g[k] # Sum(k)}
  <1>4. Bad = {}
    <2> SUFFICES ASSUME Bad # {} PROVE FALSE
      OBVIOUS
    <2>1. Bad \in SUBSET Nat
      BY <1>0
    <2>2. PICK m \in Bad : \A k \in Bad : m <= k
      BY <2>1, LeastNat
    <2>3. m \in 0..n /\ g[m] # Sum(m)
      BY <2>2
    <2>4. m # 0
      <3>1. g[0] = 0
        BY <1>0, <1>3
      <3>2. Sum(0) = 0
        BY DEF Sum, KeyboardBy
      <3> QED BY <2>3, <3>1, <3>2
    <2>5. m - 1 \in 0..n /\ m - 1 \notin Bad /\ m \in 1..n
      <3> HIDE DEF Bad
      <3> QED BY <1>0, <2>2, <2>3, <2>4
    <2>6. g[m - 1] = Sum(m - 1)
      BY <2>5
    <2>7. g[m] = Sum(m - 1) + FreedByCleanup(instances[m])
      BY <1>3, <2>3, <2>4, <2>6 DEF FreedStep
    <2>8. FreedByCleanup(instances[m]) = 2 + IF instances[m].type = "keyboard" THEN Owned(kbd) ELSE 0
      BY <2>5, FreedLemma
    <2>9. KeyboardBy(m) <=> KeyboardBy(m - 1) \/ instances[m].type = "keyboard"
      <3>1. \A j \in 1..m : j \in 1..m - 1 \/ j = m
        BY <2>5
      <3>2. \A j \in 1..m - 1 : j \in 1..m
        BY <2>5
      <3>3. m \in 1..m
        BY <1>0, <2>5
      <3> QED BY <3>1, <3>2, <3>3 DEF KeyboardBy
    <2>10. ~(KeyboardBy(m - 1) /\ instances[m].type = "keyboard")
      <3> SUFFICES ASSUME NEW j \in 1..m - 1, instances[j].type = "keyboard", instances[m].type = "keyboard" PROVE FALSE
        BY DEF KeyboardBy
      <3>1. j \in 1..n /\ m \in 1..n /\ j # m
        BY <1>0, <2>5
      <3> QED BY <3>1 DEF DriversInv, Instances
    <2>11. PICK o \in Nat : o = Owned(kbd)
      BY <1>0
    <2>12. m \in Nat
      BY <1>0, <2>5
    <2>13. CASE instances[m].type = "keyboard"
      <3>1. Sum(m - 1) = 2 * (m - 1) /\ Sum(m) = 2 * m + o
        BY <2>9, <2>10, <2>11, <2>12, <2>13 DEF Sum
      <3> QED BY <2>3, <2>7, <2>8, <2>11, <2>12, <2>13, <3>1
    <2>14. CASE instances[m].type # "keyboard" /\ KeyboardBy(m - 1)
      <3>1. Sum(m - 1) = 2 * (m - 1) + o /\ Sum(m) = 2 * m + o
        BY <2>9, <2>10, <2>11, <2>12, <2>14 DEF Sum
      <3> QED BY <2>3, <2>7, <2>8, <2>11, <2>12, <2>14, <3>1
    <2>15. CASE instances[m].type # "keyboard" /\ ~KeyboardBy(m - 1)
      <3>1. Sum(m - 1) = 2 * (m - 1) /\ Sum(m) = 2 * m
        BY <2>9, <2>10, <2>11, <2>12, <2>15 DEF Sum
      <3> QED BY <2>3, <2>7, <2>8, <2>11, <2>12, <2>15, <3>1
    <2> QED BY <2>13, <2>14, <2>15
  <1>5. g[n] = Sum(n)
    BY <1>0, <1>4
  <1>6. Sum(n) = live
    <2>1. CASE kbd.list
      <3>1. KeyboardBy(n)
        BY <2>1 DEF DriversInv, HasKeyboard, KeyboardBy
      <3> QED BY <1>0, <3>1 DEF Sum
    <2>2. CASE ~kbd.list
      <3>1. Owned(kbd) = 0
        BY <2>2 DEF Owned
      <3> QED BY <1>0, <3>1 DEF Sum
    <2> QED BY <2>1, <2>2
  <1>7. live' = 0
    BY <1>0, <1>2, <1>5, <1>6
  <1>8. /\ instances' = <<>> /\ registry' = <<>> /\ kbd' = [NoData EXCEPT !.cached = kbd.cached]
        /\ booted' = Len(Devices) + 1
    BY DEF DriverCleanup
  <1>9. kbd' \in KbdRec /\ kbd'.list = FALSE /\ kbd'.layouts = <<>> /\ kbd'.current = "none"
    <2>1. <<>> \in Seq(Names) /\ kbd.cached \in BOOLEAN
      BY DEF DriversInv, LayoutTable, KbdRec
    <2> QED BY <1>8, <2>1 DEF NoData, KbdRec
  <1>10. Len(<<>>) = 0 /\ <<>> \in Seq(Kinds) /\ <<>> \in Seq([type : Kinds, state : DriverStates])
    OBVIOUS
  <1>11. LayoutTable(kbd)' /\ Owned(kbd)' = 0
    BY <1>9, <1>10 DEF LayoutTable, Owned
  <1>12. Registry(registry)' /\ Instances(instances)'
    BY <1>8, <1>10, DevicesFacts DEF Registry, Instances
  <1>13. booted' \in 0..(Len(Devices) + 1)
    BY <1>8, DevicesFacts
  <1> QED BY <1>7, <1>8, <1>9, <1>10, <1>11, <1>12, <1>13 DEF DriversInv

\* Every step keeps the invariant.
LEMMA DriversStep == DriversInv /\ [DriversNext]_DriverVars => DriversInv'
  <1> SUFFICES ASSUME DriversInv, [DriversNext]_DriverVars PROVE DriversInv'
    OBVIOUS
  <1>1. CASE CreateKeyboard
    <2>1. registry' = registry /\ booted' = booted /\ CreateAndStart("keyboard")
      BY <1>1 DEF CreateKeyboard
    <2> QED BY <2>1, CreateStep DEF DriversInv
  <1>2. CASE UNCHANGED DriverVars
    BY <1>2 DEF DriverVars, DriversInv, LayoutTable, Instances, Registry, Owned, HasKeyboard
  <1> QED BY <1>1, <1>2, BootStep, LoadStep, ChooseStep, CleanupStep DEF DriversNext

\* The invariant gives the property and the type invariant.
LEMMA DriversImplies == DriversInv => LayoutsOwned /\ DriversTypeOK
  <1> SUFFICES ASSUME DriversInv PROVE LayoutsOwned /\ DriversTypeOK
    OBVIOUS
  <1>1. kbd.layouts \in Seq(Names) /\ Len(instances) \in Nat /\ Len(kbd.layouts) \in Nat
    BY LenProperties DEF DriversInv, LayoutTable, KbdRec, Instances
  <1>2. IsInjective(kbd.layouts)
    <2>1. DOMAIN kbd.layouts = 1..Len(kbd.layouts)
      BY <1>1, LenProperties
    <2> QED BY <2>1 DEF IsInjective, DriversInv, LayoutTable
  <1>3. LayoutsOwned
    BY <1>2 DEF LayoutsOwned, DriversInv, LayoutTable, Owned
  <1>4. Len(kbd.layouts) <= KEYBOARD_MAX_LAYOUTS
    <2>1. CASE kbd.list
      BY <1>1, <2>1, DevicesFacts DEF DriversInv, LayoutTable
    <2>2. CASE ~kbd.list
      <3>1. kbd.layouts = <<>> /\ Len(<<>>) = 0
        BY <2>2 DEF DriversInv, LayoutTable
      <3> QED BY <3>1, DevicesFacts
    <2> QED BY <2>1, <2>2
  <1>5. live \in Nat
    <2>1. Owned(kbd) \in Nat
      BY <1>1 DEF Owned
    <2>2. PICK l \in Nat : l = Len(instances)
      BY <1>1
    <2>3. PICK o \in Nat : o = Owned(kbd)
      BY <2>1
    <2>4. live = 2 * l + o
      BY <2>2, <2>3 DEF DriversInv
    <2> QED BY <2>4
  <1>6. \A i \in 1..Len(instances) : instances[i].type \in Kinds /\ instances[i].state \in DriverStates
    <2> DEFINE S == [type : Kinds, state : DriverStates]
    <2>1. \A d \in S : d.type \in Kinds /\ d.state \in DriverStates
      OBVIOUS
    <2>2. instances \in Seq(S)
      BY DEF DriversInv, Instances
    <2> HIDE DEF S
    <2>3. \A i \in 1..Len(instances) : instances[i] \in S
      BY <2>2, ElementOfSeq
    <2> QED BY <2>1, <2>3
  <1> QED BY <1>3, <1>4, <1>5, <1>6 DEF DriversTypeOK, DriversInv, Registry

\* Theorem: every allocation of the driver system belongs to an instance, the
\* table of layouts or a layout in it, the layout in use is in the table, and
\* the clean-up gives everything back, for any devices and layout files
\* (driver_create, keyboard_load_layout_from_data, driver_system_cleanup).
THEOREM DriversCorrect == DriversSpec => []LayoutsOwned
  BY InitDrivers, DriversStep, DriversImplies, PTL DEF DriversSpec

\* Theorem: the registry and the table of layouts stay within their arrays
\* (driver_register_type, add_layout).
THEOREM DriversTypeCorrect == DriversSpec => []DriversTypeOK
  BY InitDrivers, DriversStep, DriversImplies, PTL DEF DriversSpec

-----------------------------------------------------------------------------
(* Counting slots.                                                         *)

Bit(ss, s) == IF s \in ss THEN 1 ELSE 0

LEMMA AddBit ==
    ASSUME NEW S, IsFiniteSet(S), NEW ss, NEW k, k \notin S
    PROVE  /\ IsFiniteSet(S \cup ({k} \cap ss))
           /\ Cardinality(S) \in Nat
           /\ Cardinality(S \cup ({k} \cap ss)) = Cardinality(S) + Bit(ss, k)
  <1>0. Cardinality(S) \in Nat
    BY FS_CardinalityType
  <1>1. CASE k \in ss
    <2>1. S \cup ({k} \cap ss) = S \cup {k}
      BY <1>1
    <2>2. IsFiniteSet(S \cup {k}) /\ Cardinality(S \cup {k}) = Cardinality(S) + 1
      BY FS_AddElement
    <2> QED BY <1>0, <1>1, <2>1, <2>2 DEF Bit
  <1>2. CASE k \notin ss
    <2>1. S \cup ({k} \cap ss) = S
      BY <1>2
    <2>2. Bit(ss, k) = 0
      BY <1>2 DEF Bit
    <2>3. Cardinality(S) + 0 = Cardinality(S)
      BY <1>0
    <2> QED BY <1>0, <2>1, <2>2, <2>3, Zenon
  <1> QED BY <1>1, <1>2

LEMMA CountSlots ==
    ASSUME NEW ss \in SUBSET EntrySlots
    PROVE  /\ IsFiniteSet(ss)
           /\ Cardinality(ss) = Bit(ss, 1) + Bit(ss, 2) + Bit(ss, 3) + Bit(ss, 4)
  <1> DEFINE A == {} \cup ({1} \cap ss)
             B == A \cup ({2} \cap ss)
             C == B \cup ({3} \cap ss)
             D == C \cup ({4} \cap ss)
  <1>1. IsFiniteSet(A) /\ Cardinality(A) = 0 + Bit(ss, 1)
    <2>1. IsFiniteSet({}) /\ Cardinality({}) = 0
      BY FS_EmptySet
    <2> QED BY <2>1, AddBit
  <1>2. 2 \notin A /\ 3 \notin B /\ 4 \notin C
    OBVIOUS
  <1>3. D = ss
    <2>1. \A x \in ss : x = 1 \/ x = 2 \/ x = 3 \/ x = 4
      BY DEF EntrySlots
    <2> QED BY <2>1, Zenon
  <1> HIDE DEF A
  <1>4. IsFiniteSet(B) /\ Cardinality(B) = Cardinality(A) + Bit(ss, 2)
    BY <1>1, <1>2, AddBit
  <1> HIDE DEF B
  <1>5. IsFiniteSet(C) /\ Cardinality(C) = Cardinality(B) + Bit(ss, 3)
    BY <1>2, <1>4, AddBit
  <1> HIDE DEF C
  <1>6. IsFiniteSet(D) /\ Cardinality(D) = Cardinality(C) + Bit(ss, 4)
    BY <1>2, <1>5, AddBit
  <1> HIDE DEF D
  <1> QED BY <1>1, <1>3, <1>4, <1>5, <1>6 DEF Bit

Upto(ss, s) == {t \in ss : t <= s}
\* The number of slots of ss up to s.
Rank(ss, s) ==
    Bit(ss, 1) + (IF s >= 2 THEN Bit(ss, 2) ELSE 0) + (IF s >= 3 THEN Bit(ss, 3) ELSE 0)
               + (IF s >= 4 THEN Bit(ss, 4) ELSE 0)

LEMMA CountUpto ==
    ASSUME NEW ss \in SUBSET EntrySlots, NEW s \in EntrySlots
    PROVE  Cardinality(Upto(ss, s)) = Rank(ss, s)
  <1>1. Upto(ss, s) \in SUBSET EntrySlots
    BY DEF Upto
  <1>2. Cardinality(Upto(ss, s)) = Bit(Upto(ss, s), 1) + Bit(Upto(ss, s), 2) + Bit(Upto(ss, s), 3) + Bit(Upto(ss, s), 4)
    BY <1>1, CountSlots
  <1>3. /\ Bit(Upto(ss, s), 1) = Bit(ss, 1)
        /\ Bit(Upto(ss, s), 2) = IF s >= 2 THEN Bit(ss, 2) ELSE 0
        /\ Bit(Upto(ss, s), 3) = IF s >= 3 THEN Bit(ss, 3) ELSE 0
        /\ Bit(Upto(ss, s), 4) = IF s >= 4 THEN Bit(ss, 4) ELSE 0
    BY DEF Upto, Bit, EntrySlots
  <1> QED BY <1>2, <1>3 DEF Rank

\* The slots of a set in order.
LEMMA NthSlot ==
    ASSUME NEW ss \in SUBSET EntrySlots
    PROVE  /\ Cardinality(ss) \in 0..4
           /\ \A i \in 1..Cardinality(ss) : Nth(ss, i) \in ss /\ i <= Nth(ss, i)
           /\ \A i, j \in 1..Cardinality(ss) : Nth(ss, i) = Nth(ss, j) => i = j
           /\ \A s \in ss : \E i \in 1..Cardinality(ss) : Nth(ss, i) = s /\ i <= s
  <1>1. PICK n \in 0..4 : n = Cardinality(ss) /\ n = Bit(ss, 1) + Bit(ss, 2) + Bit(ss, 3) + Bit(ss, 4)
    BY CountSlots DEF Bit
  <1>2. \A s \in EntrySlots : Cardinality({t \in ss : t <= s}) = Rank(ss, s)
    BY CountUpto DEF Upto
  <1>3. \A s \in ss : Rank(ss, s) \in 1..n /\ Rank(ss, s) <= s
    BY <1>1 DEF Rank, Bit, EntrySlots
  <1>4. \A s, t \in ss : Rank(ss, s) = Rank(ss, t) => s = t
    BY DEF Rank, Bit, EntrySlots
  <1>5. \A i \in 1..n : \E s \in ss : Rank(ss, s) = i
    BY <1>1 DEF Rank, Bit, EntrySlots
  <1>6. ASSUME NEW i \in 1..n PROVE Nth(ss, i) \in ss /\ Rank(ss, Nth(ss, i)) = i
    <2>1. \E s \in ss : Cardinality({t \in ss : t <= s}) = i
      BY <1>2, <1>5
    <2>2. Nth(ss, i) \in ss /\ Cardinality({t \in ss : t <= Nth(ss, i)}) = i
      BY <2>1, Zenon DEF Nth
    <2> QED BY <1>2, <2>2
  <1>7. ASSUME NEW s \in ss PROVE \E i \in 1..n : Nth(ss, i) = s /\ i <= s
    <2>1. Rank(ss, s) \in 1..n /\ Rank(ss, s) <= s
      BY <1>3
    <2>2. Nth(ss, Rank(ss, s)) = s
      BY <1>4, <1>6, <2>1
    <2> QED BY <2>1, <2>2
  <1>8. \A i \in 1..n : i <= Nth(ss, i)
    BY <1>3, <1>6
  <1>9. \A i, j \in 1..n : Nth(ss, i) = Nth(ss, j) => i = j
    BY <1>6
  <1> QED BY <1>1, <1>6, <1>7, <1>8, <1>9

-----------------------------------------------------------------------------
(* The parsed partitions in order of their index.                          *)

InfoRec == [index : EntrySlots, type : {"empty", "fat"}, start : Nat, count : Nat]
Infos(f) == f \in [EntrySlots -> InfoRec]

\* No two of the first n infos have one index.
Distinct(f, n) == \A j, k \in 1..n : f[j].index = f[k].index => j = k

\* The same infos in another order.
Reordered(f, g, n) ==
    /\ Infos(g) /\ Distinct(g, n)
    /\ \A k \in 1..n : \E m \in 1..n : g[m] = f[k]
    /\ \A k \in EntrySlots : k > n => g[k] = f[k]

Less(f, n, i, j) == j <= n => f[i].index < f[j].index

LEMMA ReorderedTwice ==
    ASSUME NEW f, NEW g, NEW h, NEW n, Reordered(f, g, n), Reordered(g, h, n)
    PROVE  Reordered(f, h, n)
  <1>1. ASSUME NEW k \in 1..n PROVE \E m \in 1..n : h[m] = f[k]
    <2>1. PICK m \in 1..n : g[m] = f[k]
      BY DEF Reordered
    <2>2. PICK l \in 1..n : h[l] = g[m]
      BY DEF Reordered
    <2> QED BY <2>1, <2>2
  <1> QED BY <1>1 DEF Reordered

LEMMA ExchangeStep ==
    ASSUME NEW f, Infos(f), NEW n \in 0..4, Distinct(f, n), NEW i \in EntrySlots, NEW j \in EntrySlots, i < j
    PROVE  LET g == Exchange(f, n, i, j)
           IN  /\ Reordered(f, g, n) /\ Infos(g) /\ Distinct(g, n) /\ Less(g, n, i, j)
               /\ \A k \in EntrySlots : k # i /\ k # j => g[k] = f[k]
               /\ (g[i] = f[i] /\ g[j] = f[j]) \/ (g[i] = f[j] /\ g[j] = f[i] /\ j <= n /\ f[j].index < f[i].index)
  <1> DEFINE g == Exchange(f, n, i, j)
  <1>0. i \in Nat /\ j \in Nat /\ \A k \in EntrySlots : f[k].index \in Nat
    BY DEF Infos, InfoRec, EntrySlots
  <1>1. CASE j <= n /\ f[i].index > f[j].index
    <2>1. g = [f EXCEPT ![i] = f[j], ![j] = f[i]]
      BY <1>1 DEF Exchange
    <2>2. Infos(g) /\ g[i] = f[j] /\ g[j] = f[i] /\ \A k \in EntrySlots : k # i /\ k # j => g[k] = f[k]
      BY <2>1 DEF Infos
    <2> HIDE DEF g
    <2>3. i \in 1..n /\ j \in 1..n /\ 1..n \subseteq EntrySlots
      BY <1>0, <1>1 DEF EntrySlots
    <2>4. Distinct(g, n)
      BY <2>2, <2>3 DEF Distinct
    <2>5. \A k \in 1..n : \E m \in 1..n : g[m] = f[k]
      BY <2>2, <2>3
    <2>6. \A k \in EntrySlots : k > n => g[k] = f[k]
      BY <2>2, <2>3 DEF EntrySlots
    <2>7. Less(g, n, i, j)
      BY <1>0, <1>1, <2>2 DEF Less
    <2> QED BY <1>0, <1>1, <2>2, <2>4, <2>5, <2>6, <2>7 DEF Reordered, g
  <1>2. CASE ~(j <= n /\ f[i].index > f[j].index)
    <2>1. g = f
      BY <1>2 DEF Exchange
    <2> HIDE DEF g
    <2>2. Less(f, n, i, j)
      <3> SUFFICES ASSUME j <= n PROVE f[i].index < f[j].index
        BY DEF Less
      <3>1. i \in 1..n /\ j \in 1..n
        BY <1>0 DEF EntrySlots
      <3>2. f[i].index # f[j].index
        BY <3>1, <1>0 DEF Distinct
      <3> QED BY <1>0, <1>2, <3>2
    <2>3. Reordered(f, f, n)
      BY DEF Reordered
    <2> QED BY <2>1, <2>2, <2>3 DEF g
  <1> QED BY <1>1, <1>2

\* After the sort an info stands no later than its index.
LEMMA ByIndexSorts ==
    ASSUME NEW f, Infos(f), NEW n \in 0..4, Distinct(f, n)
    PROVE  LET g == ByIndex(f, n)
           IN  Reordered(f, g, n) /\ \A k \in 1..n : k <= g[k].index
  <1> DEFINE a == Exchange(f, n, 1, 2)
             b == Exchange(a, n, 1, 3)
             c == Exchange(b, n, 1, 4)
             d == Exchange(c, n, 2, 3)
             e == Exchange(d, n, 2, 4)
             g == Exchange(e, n, 3, 4)
  <1>0. ByIndex(f, n) = g
    BY DEF ByIndex
  <1>s. 1 \in EntrySlots /\ 2 \in EntrySlots /\ 3 \in EntrySlots /\ 4 \in EntrySlots
    BY DEF EntrySlots
  <1>a. /\ Reordered(f, a, n) /\ Infos(a) /\ Distinct(a, n) /\ Less(a, n, 1, 2)
        /\ \A k \in EntrySlots : k # 1 /\ k # 2 => a[k] = f[k]
    BY <1>s, ExchangeStep
  <1> HIDE DEF a
  <1>b. /\ Reordered(a, b, n) /\ Infos(b) /\ Distinct(b, n) /\ Less(b, n, 1, 3)
        /\ \A k \in EntrySlots : k # 1 /\ k # 3 => b[k] = a[k]
        /\ (b[1] = a[1] /\ b[3] = a[3]) \/ (b[1] = a[3] /\ b[3] = a[1] /\ 3 <= n /\ a[3].index < a[1].index)
    BY <1>s, <1>a, ExchangeStep
  <1> HIDE DEF b
  <1>c. /\ Reordered(b, c, n) /\ Infos(c) /\ Distinct(c, n) /\ Less(c, n, 1, 4)
        /\ \A k \in EntrySlots : k # 1 /\ k # 4 => c[k] = b[k]
        /\ (c[1] = b[1] /\ c[4] = b[4]) \/ (c[1] = b[4] /\ c[4] = b[1] /\ 4 <= n /\ b[4].index < b[1].index)
    BY <1>s, <1>b, ExchangeStep
  <1> HIDE DEF c
  <1>d. /\ Reordered(c, d, n) /\ Infos(d) /\ Distinct(d, n) /\ Less(d, n, 2, 3)
        /\ \A k \in EntrySlots : k # 2 /\ k # 3 => d[k] = c[k]
        /\ (d[2] = c[2] /\ d[3] = c[3]) \/ (d[2] = c[3] /\ d[3] = c[2] /\ 3 <= n /\ c[3].index < c[2].index)
    BY <1>s, <1>c, ExchangeStep
  <1> HIDE DEF d
  <1>e. /\ Reordered(d, e, n) /\ Infos(e) /\ Distinct(e, n) /\ Less(e, n, 2, 4)
        /\ \A k \in EntrySlots : k # 2 /\ k # 4 => e[k] = d[k]
        /\ (e[2] = d[2] /\ e[4] = d[4]) \/ (e[2] = d[4] /\ e[4] = d[2] /\ 4 <= n /\ d[4].index < d[2].index)
    BY <1>s, <1>d, ExchangeStep
  <1> HIDE DEF e
  <1>g. /\ Reordered(e, g, n) /\ Infos(g) /\ Distinct(g, n) /\ Less(g, n, 3, 4)
        /\ \A k \in EntrySlots : k # 3 /\ k # 4 => g[k] = e[k]
        /\ (g[3] = e[3] /\ g[4] = e[4]) \/ (g[3] = e[4] /\ g[4] = e[3] /\ 4 <= n /\ e[4].index < e[3].index)
    BY <1>s, <1>e, ExchangeStep
  <1> HIDE DEF g
  <1>1. Reordered(f, g, n)
    BY <1>a, <1>b, <1>c, <1>d, <1>e, <1>g, ReorderedTwice
  <1>2. \A x \in {a, b, c, d, e, g} : \A k \in EntrySlots : x[k].index \in 1..4
    BY <1>a, <1>b, <1>c, <1>d, <1>e, <1>g DEF Reordered, Infos, InfoRec, EntrySlots
  <1>3. Less(b, n, 1, 2) /\ Less(b, n, 1, 3)
    BY <1>s, <1>2, <1>a, <1>b DEF Less
  <1>4. Less(c, n, 1, 2) /\ Less(c, n, 1, 3) /\ Less(c, n, 1, 4)
    BY <1>s, <1>2, <1>3, <1>c DEF Less
  <1>5. Less(d, n, 1, 2) /\ Less(d, n, 1, 3) /\ Less(d, n, 1, 4) /\ Less(d, n, 2, 3)
    BY <1>s, <1>2, <1>4, <1>d DEF Less
  <1>6. Less(e, n, 1, 2) /\ Less(e, n, 1, 3) /\ Less(e, n, 1, 4) /\ Less(e, n, 2, 3) /\ Less(e, n, 2, 4)
    BY <1>s, <1>2, <1>5, <1>e DEF Less
  <1>7. Less(g, n, 1, 2) /\ Less(g, n, 2, 3) /\ Less(g, n, 3, 4)
    BY <1>s, <1>2, <1>6, <1>g DEF Less
  <1>8. \A k \in 1..n : k <= g[k].index
    BY <1>s, <1>2, <1>7 DEF Less
  <1> QED BY <1>0, <1>1, <1>8

-----------------------------------------------------------------------------
(* The manager's copy of the table.                                        *)

Filled(tab) == Used(tab) \subseteq Sized(tab) \cup {1}
TableOK(tab, X) == tab \in [EntrySlots -> Entries] /\ TableFits(tab, X) /\ Filled(tab)

\* Every partition of the table is among the parsed ones, no later than its slot.
Mirrored(tab, f, n) == \A s \in Sized(tab) : \E k \in 1..n : k <= s /\ f[k] = Info(s, tab[s])

CopyTyped(p) ==
    /\ DOMAIN p = {"tab", "infos", "count"}
    /\ p.tab \in [EntrySlots -> Entries] /\ Infos(p.infos) /\ p.count \in 0..4

Body(p, X) ==
    /\ DOMAIN p = {"tab", "infos", "count"}
    /\ TableOK(p.tab, X) /\ Infos(p.infos) /\ p.count \in 0..4
    /\ Mirrored(p.tab, p.infos, p.count) /\ Distinct(p.infos, p.count)

\* The entries are no more than the parsed partitions; just after a scan one
\* without sectors may be missing.
Settled(tab, f, n) ==
    \/ Cardinality(Used(tab)) <= n
    \/ \A k \in EntrySlots : IF k > n THEN f[k] = NoInfo ELSE f[k].index # 1

Copy(p, X) == Body(p, X) /\ Settled(p.tab, p.infos, p.count)

\* Entries left out.
Fewer(u, t) == u \in [EntrySlots -> Entries] /\ \A s \in EntrySlots : u[s] = t[s] \/ u[s] = Empty

LEMMA FewerOK ==
    ASSUME NEW X, NEW t, TableOK(t, X), NEW u, Fewer(u, t)
    PROVE  TableOK(u, X) /\ Used(u) \subseteq Used(t) /\ Sized(u) \subseteq Sized(t) /\ \A s \in Used(u) : u[s] = t[s]
  <1>1. ASSUME NEW s \in Used(u) PROVE u[s] = t[s] /\ s \in EntrySlots
    BY DEF Used, Fewer, Empty
  <1>2. Used(u) \subseteq Used(t)
    BY <1>1 DEF Used
  <1>3. Sized(u) \subseteq Sized(t) /\ Sized(u) \subseteq Used(u)
    BY <1>1, <1>2 DEF Sized
  <1>4. ASSUME NEW s \in Sized(u) PROVE u[s] = t[s] /\ s \in Sized(t)
    BY <1>1, <1>3
  <1>5. TableFits(u, X)
    BY <1>4 DEF TableOK, TableFits
  <1>6. Filled(u)
    BY <1>1, <1>2 DEF TableOK, Filled, Sized
  <1> QED BY <1>1, <1>2, <1>3, <1>5, <1>6 DEF TableOK, Fewer

LEMMA EntryOK ==
    ASSUME NEW t \in [EntrySlots -> Entries]
    PROVE  /\ Used(t) \in SUBSET EntrySlots /\ Sized(t) \in SUBSET Used(t)
           /\ \A s \in EntrySlots : /\ t[s].type \in {"empty", "fat"} /\ t[s].start \in Nat /\ t[s].count \in Nat
                                    /\ Info(s, t[s]) \in InfoRec /\ Info(s, t[s]).index = s
  <1>1. ASSUME NEW s \in EntrySlots PROVE t[s] \in [type : {"empty", "fat"}, start : Nat, count : Nat]
    BY PartitionsAssumption DEF Entries
  <1> QED BY <1>1 DEF Used, Sized, Info, InfoRec

LEMMA EmptyOK ==
    ASSUME NEW t
    PROVE  Empty \in Entries /\ NoInfo \in InfoRec /\ Fewer(NoTable, t)
  <1>1. Empty \in Entries /\ NoInfo \in InfoRec
    BY PartitionsAssumption DEF Empty, Entries, NoInfo, InfoRec, EntrySlots
  <1> QED BY <1>1 DEF Fewer, NoTable

LEMMA NoneOK ==
    ASSUME NEW X
    PROVE  TableOK(NoTable, X) /\ Used(NoTable) = {} /\ Infos(NoInfos)
  <1>1. Empty \in Entries /\ NoInfo \in InfoRec
    BY PartitionsAssumption DEF Empty, Entries, NoInfo, InfoRec, EntrySlots
  <1>2. Used(NoTable) = {}
    BY DEF Used, NoTable, Empty
  <1>3. Sized(NoTable) = {}
    BY <1>2 DEF Sized
  <1> QED BY <1>1, <1>2, <1>3 DEF TableOK, TableFits, Filled, Infos, NoInfos, NoTable

\* Parsing ss gives the infos of ss in order.
LEMMA ParsedInfos ==
    ASSUME NEW t \in [EntrySlots -> Entries], NEW ss \in SUBSET EntrySlots, NEW f, Infos(f)
    PROVE  LET g == Parsed(t, ss, f)
               n == Cardinality(ss)
           IN  /\ Infos(g) /\ n \in 0..4 /\ Distinct(g, n)
               /\ \A s \in ss : \E k \in 1..n : k <= s /\ g[k] = Info(s, t[s])
               /\ \A k \in 1..n : g[k].index \in ss
               /\ \A k \in EntrySlots : k > n => g[k] = f[k]
  <1> DEFINE g == Parsed(t, ss, f)
  <1>1. PICK n \in 0..4 : n = Cardinality(ss)
    BY NthSlot
  <1>2. /\ \A i \in 1..n : Nth(ss, i) \in ss /\ i <= Nth(ss, i)
        /\ \A i, j \in 1..n : Nth(ss, i) = Nth(ss, j) => i = j
        /\ \A s \in ss : \E i \in 1..n : Nth(ss, i) = s /\ i <= s
    BY <1>1, NthSlot
  <1>3. g = [i \in EntrySlots |-> IF i <= n THEN Info(Nth(ss, i), t[Nth(ss, i)]) ELSE f[i]]
    BY <1>1 DEF Parsed
  <1> HIDE DEF g
  <1>4. \A i \in 1..n : i \in EntrySlots
    BY DEF EntrySlots
  <1>5. ASSUME NEW i \in 1..n
        PROVE  g[i] = Info(Nth(ss, i), t[Nth(ss, i)]) /\ g[i] \in InfoRec /\ g[i].index = Nth(ss, i)
    <2>1. g[i] = Info(Nth(ss, i), t[Nth(ss, i)])
      BY <1>3, <1>4
    <2>2. Nth(ss, i) \in EntrySlots
      BY <1>2
    <2> QED BY <2>1, <2>2, EntryOK
  <1>6. ASSUME NEW k \in EntrySlots, k > n PROVE g[k] = f[k]
    <2>1. ~(k <= n)
      BY <1>6 DEF EntrySlots
    <2> QED BY <1>3, <2>1
  <1>7. Infos(g)
    <2>1. ASSUME NEW k \in EntrySlots PROVE g[k] \in InfoRec
      <3>1. CASE k > n
        BY <1>6, <3>1 DEF Infos
      <3>2. CASE ~(k > n)
        <4>1. k \in 1..n
          BY <3>2 DEF EntrySlots
        <4> QED BY <1>5, <4>1
      <3> QED BY <3>1, <3>2
    <2>2. g = [k \in EntrySlots |-> g[k]]
      BY <1>3
    <2> QED BY <2>1, <2>2 DEF Infos
  <1>8. Distinct(g, n)
    BY <1>2, <1>5 DEF Distinct
  <1>9. ASSUME NEW s \in ss PROVE \E k \in 1..n : k <= s /\ g[k] = Info(s, t[s])
    BY <1>2, <1>5
  <1>10. \A k \in 1..n : g[k].index \in ss
    BY <1>2, <1>5
  <1> QED BY <1>1, <1>6, <1>7, <1>8, <1>9, <1>10 DEF g

\* A table with a parsed copy of entries that hold all its partitions.
LEMMA ParsedBody ==
    ASSUME NEW X, NEW t, TableOK(t, X), NEW ss \in SUBSET EntrySlots, Sized(t) \subseteq ss, NEW f, Infos(f)
    PROVE  Body([tab |-> t, infos |-> Parsed(t, ss, f), count |-> Cardinality(ss)], X)
  <1> DEFINE g == Parsed(t, ss, f)
             n == Cardinality(ss)
  <1>1. /\ Infos(g) /\ n \in 0..4 /\ Distinct(g, n)
        /\ \A s \in ss : \E k \in 1..n : k <= s /\ g[k] = Info(s, t[s])
    BY ParsedInfos DEF TableOK
  <1> HIDE DEF g, n
  <1>2. Mirrored(t, g, n)
    BY <1>1 DEF Mirrored
  <1>3. Body([tab |-> t, infos |-> g, count |-> n], X)
    BY <1>1, <1>2 DEF Body
  <1> QED BY <1>3 DEF g, n

LEMMA WithinCount ==
    ASSUME NEW ss \in SUBSET EntrySlots, NEW n \in 0..4, \A s \in ss : s <= n
    PROVE  Cardinality(ss) <= n
  <1>1. Cardinality(ss) = Bit(ss, 1) + Bit(ss, 2) + Bit(ss, 3) + Bit(ss, 4)
    BY CountSlots
  <1>2. \A s \in 1..4 : Bit(ss, s) \in {0, 1} /\ (s > n => Bit(ss, s) = 0)
    BY DEF Bit
  <1> QED BY <1>1, <1>2

\* partition_write_table clears the entries past the count.
LEMMA TrimCopy ==
    ASSUME NEW X, NEW p, Body(p, X)
    PROVE  Copy(Trimmed(p), X) /\ TableOK(Trimmed(p).tab, X)
  <1> DEFINE q == Trimmed(p)
             u == [s \in EntrySlots |-> IF s > p.count THEN Empty ELSE p.tab[s]]
  <1>1. DOMAIN q = {"tab", "infos", "count"} /\ q.tab = u /\ q.infos = p.infos /\ q.count = p.count
    BY DEF Body, Trimmed
  <1>2. Fewer(u, p.tab)
    BY EmptyOK DEF Body, TableOK, Fewer
  <1>3. \A s \in Used(u) : s <= p.count
    BY DEF Used, Empty, Body, EntrySlots
  <1> HIDE DEF q, u
  <1>4. /\ TableOK(u, X) /\ Used(u) \subseteq Used(p.tab) /\ Sized(u) \subseteq Sized(p.tab)
        /\ \A s \in Used(u) : u[s] = p.tab[s]
    BY <1>2, FewerOK DEF Body
  <1>5. Used(u) \in SUBSET EntrySlots /\ Sized(u) \in SUBSET Used(u)
    BY <1>4, EntryOK DEF TableOK
  <1>6. Mirrored(u, p.infos, p.count)
    BY <1>4, <1>5 DEF Body, Mirrored
  <1>7. Cardinality(Used(u)) <= p.count
    BY <1>3, <1>5, WithinCount DEF Body
  <1> QED BY <1>1, <1>4, <1>6, <1>7 DEF Copy, Body, Settled, q

\* No more partitions than parsed ones.
LEMMA SizedCount ==
    ASSUME NEW X, NEW p, Body(p, X)
    PROVE  Cardinality(Used(p.tab)) <= p.count + 1
  <1> DEFINE ss == Sized(p.tab)
             f == p.infos
             n == p.count
  <1>0. n \in 0..4 /\ TableOK(p.tab, X) /\ Distinct(f, n)
    BY DEF Body
  <1>1. ss \in SUBSET EntrySlots /\ Used(p.tab) \in SUBSET EntrySlots /\ Used(p.tab) \subseteq ss \cup {1}
    BY <1>0, EntryOK DEF TableOK, Filled
  <1>2. ASSUME NEW s \in ss PROVE \E k \in 1..n : f[k].index = s
    <2>1. PICK k \in 1..n : f[k] = Info(s, p.tab[s])
      BY DEF Body, Mirrored
    <2>2. Info(s, p.tab[s]).index = s
      BY <1>0, <1>1, EntryOK DEF TableOK
    <2> QED BY <2>1, <2>2
  <1>3. Cardinality(ss) = Bit(ss, 1) + Bit(ss, 2) + Bit(ss, 3) + Bit(ss, 4)
    BY <1>1, CountSlots
  <1>4. Cardinality(Used(p.tab)) = Bit(Used(p.tab), 1) + Bit(Used(p.tab), 2) + Bit(Used(p.tab), 3) + Bit(Used(p.tab), 4)
    BY <1>1, CountSlots
  <1>5. Cardinality(Used(p.tab)) <= Cardinality(ss) + 1
    BY <1>1, <1>3, <1>4 DEF Bit
  <1> HIDE DEF ss, f, n
  <1>6. Cardinality(ss) \in 0..4 /\ Cardinality(ss) <= n
    <2>0. Cardinality(ss) \in 0..4
      BY <1>3 DEF Bit
    <2>1. CASE n = 4
      BY <2>0, <2>1
    <2>2. CASE n = 0
      BY <1>2, <1>3, <2>2 DEF Bit
    <2>3. CASE n = 1
      <3>1. \A s \in ss : f[1].index = s
        BY <1>2, <2>3
      <3> QED BY <1>3, <2>3, <3>1 DEF Bit
    <2>4. CASE n = 2
      <3>1. \A s \in ss : f[1].index = s \/ f[2].index = s
        BY <1>2, <2>4
      <3> QED BY <1>3, <2>4, <3>1 DEF Bit
    <2>5. CASE n = 3
      <3>1. \A s \in ss : f[1].index = s \/ f[2].index = s \/ f[3].index = s
        BY <1>2, <2>5
      <3> QED BY <1>3, <2>5, <3>1 DEF Bit
    <2> QED BY <1>0, <2>1, <2>2, <2>3, <2>4, <2>5
  <1>7. Cardinality(Used(p.tab)) \in 0..4
    BY <1>4 DEF Bit
  <1> QED BY <1>0, <1>5, <1>6, <1>7 DEF n

\* The table of a sector, parsed.
SectorRec == [sig : BOOLEAN, fat : BOOLEAN, tab : [EntrySlots -> Entries]]
SectorOK(d, X) == d \in SectorRec /\ TableOK(d.tab, X) /\ (~d.sig => Used(d.tab) \subseteq {1})

\* The virtual partition, whatever the entries are.
LEMMA WholeDiskTyped ==
    ASSUME NEW tab \in [EntrySlots -> Entries]
    PROVE  LET e == [type |-> "fat", start |-> 0, count |-> Sectors]
               p == WholeDisk(tab)
           IN  /\ CopyTyped(p) /\ p.count = 1 /\ e \in Entries /\ e.type # "empty" /\ e.count > 0
               /\ e.start + e.count <= Sectors /\ p.tab[1] = e /\ p.infos[1] = Info(1, e)
               /\ \A s \in EntrySlots : s # 1 => p.tab[s] = tab[s]
  <1> DEFINE e == [type |-> "fat", start |-> 0, count |-> Sectors]
             t == [tab EXCEPT ![1] = e]
             f == [NoInfos EXCEPT ![1] = Info(1, e)]
             p == WholeDisk(tab)
  <1>0. DOMAIN p = {"tab", "infos", "count"} /\ p.tab = t /\ p.infos = f /\ p.count = 1
    BY DEF WholeDisk
  <1>1. Sectors \in Nat \ {0} /\ 0 \in 0..LbaWidth - 1 /\ Sectors \in 0..LbaWidth - 1
    BY PartitionsAssumption
  <1>2. e \in Entries /\ e.type # "empty" /\ e.count > 0 /\ e.start + e.count <= Sectors
    BY <1>1 DEF Entries
  <1>3. 1 \in EntrySlots /\ Infos(NoInfos)
    BY NoneOK DEF EntrySlots
  <1>4. Info(1, e) \in InfoRec
    BY <1>1, <1>3 DEF Info, InfoRec
  <1>5. t[1] = e /\ f[1] = Info(1, e) /\ t \in [EntrySlots -> Entries] /\ Infos(f)
        /\ \A s \in EntrySlots : s # 1 => t[s] = tab[s]
    BY <1>2, <1>3, <1>4 DEF Infos
  <1> HIDE DEF e, t, f, p
  <1>6. CopyTyped(p)
    BY <1>0, <1>5 DEF CopyTyped
  <1>7. /\ CopyTyped(p) /\ p.count = 1 /\ e \in Entries /\ e.type # "empty" /\ e.count > 0
        /\ e.start + e.count <= Sectors /\ p.tab[1] = e /\ p.infos[1] = Info(1, e)
        /\ \A s \in EntrySlots : s # 1 => p.tab[s] = tab[s]
    BY <1>0, <1>2, <1>5, <1>6
  <1> QED BY <1>7 DEF e, p

LEMMA WholeDiskCopy ==
    ASSUME NEW X, NEW tab \in [EntrySlots -> Entries], Used(tab) \subseteq {1}
    PROVE  Copy(WholeDisk(tab), X)
  <1> DEFINE p == WholeDisk(tab)
             t == p.tab
             f == p.infos
  <1>1. PICK e \in Entries :
           /\ CopyTyped(p) /\ p.count = 1 /\ e.type # "empty" /\ e.count > 0 /\ e.start + e.count <= Sectors
           /\ t[1] = e /\ f[1] = Info(1, e) /\ \A s \in EntrySlots : s # 1 => t[s] = tab[s]
    BY WholeDiskTyped
  <1> HIDE DEF p
  <1>2. t \in [EntrySlots -> Entries] /\ 1 \in EntrySlots
    BY <1>1 DEF CopyTyped, EntrySlots
  <1>3. Used(t) = {1}
    BY <1>1, <1>2 DEF Used
  <1>4. Sized(t) = {1}
    BY <1>1, <1>3 DEF Sized
  <1>5. TableOK(t, X)
    BY <1>1, <1>2, <1>3, <1>4 DEF TableOK, TableFits, Filled
  <1>6. Mirrored(t, f, 1) /\ Distinct(f, 1)
    BY <1>1, <1>4 DEF Mirrored, Distinct
  <1>7. Cardinality(Used(t)) <= 1
    BY <1>2, <1>3, WithinCount
  <1> QED BY <1>1, <1>5, <1>6, <1>7 DEF Copy, Body, Settled, CopyTyped, p

LEMMA ReadCopy ==
    ASSUME NEW X, NEW d, SectorOK(d, X), NEW p \in ReadTable(d)
    PROVE  Copy(p, X)
  <1> DEFINE t == d.tab
             ss == Sized(t)
             q == [tab |-> t, infos |-> Parsed(t, ss, NoInfos), count |-> Cardinality(ss)]
  <1>1. (p = WholeDisk(t) /\ (~d.sig \/ t = NoTable)) \/ p = q
    BY DEF ReadTable
  <1>2. TableOK(t, X) /\ Infos(NoInfos) /\ (p = WholeDisk(t) => t \in [EntrySlots -> Entries])
    BY NoneOK DEF SectorOK, TableOK
  <1>w. ~d.sig \/ t = NoTable => Used(t) \subseteq {1}
    BY NoneOK DEF SectorOK
  <1>3. ss \in SUBSET EntrySlots /\ Used(t) \in SUBSET EntrySlots /\ ss \subseteq Used(t) /\ Used(t) \subseteq ss \cup {1}
    BY <1>2, EntryOK DEF TableOK, Filled
  <1> HIDE DEF t, ss
  <1>4. Body(q, X)
    BY <1>2, <1>3, ParsedBody DEF ss
  <1>5. Settled(q.tab, q.infos, q.count)
    <2> DEFINE g == Parsed(t, ss, NoInfos)
               n == Cardinality(ss)
    <2>1. n \in 0..4 /\ (\A k \in 1..n : g[k].index \in ss) /\ \A k \in EntrySlots : k > n => g[k] = NoInfos[k]
      BY <1>2, <1>3, ParsedInfos DEF TableOK
    <2>2. q.tab = t /\ q.infos = g /\ q.count = n
      OBVIOUS
    <2> HIDE DEF g, n
    <2>3. CASE 1 \in ss
      <3>1. Used(t) = ss
        BY <1>3, <2>3
      <3> QED BY <2>1, <2>2, <3>1 DEF Settled, n
    <2>4. CASE 1 \notin ss
      <3>1. ASSUME NEW k \in EntrySlots, k > n PROVE g[k] = NoInfo
        BY <2>1, <3>1 DEF NoInfos
      <3>2. ASSUME NEW k \in EntrySlots, ~(k > n) PROVE g[k].index # 1
        <4>1. k \in 1..n
          BY <2>1, <3>2 DEF EntrySlots
        <4> QED BY <2>1, <2>4, <4>1
      <3> QED BY <2>2, <3>1, <3>2 DEF Settled
    <2> QED BY <2>3, <2>4
  <1> QED BY <1>1, <1>2, <1>w, <1>4, <1>5, WholeDiskCopy DEF Copy

-----------------------------------------------------------------------------
(* part delete and part fix-order.                                         *)

LEMMA DeleteCopy ==
    ASSUME NEW X, NEW p, Copy(p, X), NEW slot \in EntrySlots
    PROVE  LET q == WithoutPartition(p, slot)
           IN  Infos(q.infos) /\ Copy(Trimmed(q), X) /\ TableOK(Trimmed(q).tab, X)
  <1> DEFINE q == WithoutPartition(p, slot)
             v == [p.tab EXCEPT ![slot] = Empty]
             g == [k \in EntrySlots |-> IF k \in InfoOf(p, slot) THEN [NoInfo EXCEPT !.index = slot] ELSE p.infos[k]]
             n == Cardinality(Used(v))
             u == [s \in EntrySlots |-> IF s > n THEN Empty ELSE v[s]]
             r == Trimmed(q)
  <1>0. Body(p, X) /\ TableOK(p.tab, X) /\ Infos(p.infos) /\ p.count \in 0..4
    BY DEF Copy, Body
  <1>1. q = [tab |-> v, infos |-> g, count |-> n]
    BY DEF WithoutPartition
  <1>2. r = [tab |-> u, infos |-> g, count |-> n]
    BY <1>1 DEF Trimmed
  <1>3. Empty \in Entries /\ NoInfo \in InfoRec
    BY <1>0, EmptyOK
  <1>4. Fewer(v, p.tab)
    BY <1>0, <1>3 DEF Fewer, TableOK
  <1>5. TableOK(v, X) /\ Used(v) \subseteq Used(p.tab)
    BY <1>0, <1>4, FewerOK
  <1>6. Used(v) \in SUBSET EntrySlots /\ Used(p.tab) \in SUBSET EntrySlots
    BY <1>0, <1>5, EntryOK DEF TableOK
  <1>7. n \in 0..4
    BY <1>6, NthSlot
  <1>8. n <= Cardinality(Used(p.tab)) /\ Cardinality(Used(p.tab)) \in 0..4
    <2>1. n = Bit(Used(v), 1) + Bit(Used(v), 2) + Bit(Used(v), 3) + Bit(Used(v), 4)
      BY <1>6, CountSlots
    <2>2. Cardinality(Used(p.tab)) = Bit(Used(p.tab), 1) + Bit(Used(p.tab), 2) + Bit(Used(p.tab), 3) + Bit(Used(p.tab), 4)
      BY <1>6, CountSlots
    <2> HIDE DEF n, v
    <2> QED BY <1>5, <2>1, <2>2 DEF Bit
  <1>9. v[slot] = Empty /\ slot \notin Used(v)
    BY <1>0 DEF TableOK, Used, Empty
  <1> HIDE DEF n, v
  <1>10. Fewer(u, p.tab) /\ \A s \in Used(u) : s <= n /\ s # slot
    <2>1. u \in [EntrySlots -> Entries] /\ \A s \in EntrySlots : u[s] = IF s > n THEN Empty ELSE v[s]
      BY <1>3, <1>5 DEF TableOK
    <2> HIDE DEF u
    <2>2. Fewer(u, p.tab)
      BY <1>4, <2>1 DEF Fewer
    <2>3. ASSUME NEW s \in Used(u) PROVE s <= n /\ s # slot
      <3>1. s \in EntrySlots /\ u[s].type # "empty"
        BY DEF Used
      <3>2. ~(s > n)
        BY <2>1, <3>1 DEF Empty
      <3>3. v[s].type # "empty"
        BY <2>1, <3>1, <3>2
      <3> QED BY <1>7, <1>9, <3>1, <3>2, <3>3 DEF Empty, EntrySlots
    <2> QED BY <2>2, <2>3
  <1> HIDE DEF u
  <1>11. /\ TableOK(u, X) /\ Sized(u) \subseteq Sized(p.tab) /\ Sized(u) \subseteq Used(u)
         /\ \A s \in Used(u) : u[s] = p.tab[s]
    BY <1>0, <1>10, FewerOK DEF Sized
  <1>12. ASSUME NEW k \in InfoOf(p, slot) PROVE p.infos[k].index = slot
    BY DEF InfoOf
  <1>13. Infos(g) /\ \A k \in EntrySlots : g[k].index = p.infos[k].index /\ (p.infos[k].index # slot => g[k] = p.infos[k])
    <2>1. [NoInfo EXCEPT !.index = slot] \in InfoRec /\ [NoInfo EXCEPT !.index = slot].index = slot
      BY <1>3 DEF InfoRec
    <2> QED BY <1>0, <1>12, <2>1 DEF Infos
  <1> HIDE DEF g
  <1>14. Mirrored(u, g, n)
    <2> SUFFICES ASSUME NEW s \in Sized(u) PROVE \E k \in 1..n : k <= s /\ g[k] = Info(s, u[s])
      BY DEF Mirrored
    <2>1. s \in Sized(p.tab) /\ s <= n /\ s # slot /\ u[s] = p.tab[s] /\ s \in EntrySlots
      BY <1>10, <1>11 DEF Used
    <2>2. PICK k \in 1..p.count : k <= s /\ p.infos[k] = Info(s, p.tab[s])
      BY <1>0, <2>1 DEF Body, Mirrored
    <2>3. p.infos[k].index = s
      BY <1>0, <2>1, <2>2, EntryOK DEF TableOK
    <2>4. k \in EntrySlots /\ k \in 1..n
      BY <1>0, <1>7, <2>1, <2>2 DEF EntrySlots
    <2> QED BY <1>13, <2>1, <2>2, <2>3, <2>4
  <1>15. Distinct(g, n)
    <2>1. \A k \in 1..n : k \in EntrySlots
      BY <1>7 DEF EntrySlots
    <2>2. CASE n <= p.count
      <3> SUFFICES ASSUME NEW j \in 1..n, NEW k \in 1..n, g[j].index = g[k].index PROVE j = k
        BY DEF Distinct
      <3>1. j \in 1..p.count /\ k \in 1..p.count
        BY <1>0, <1>7, <2>2
      <3>2. p.infos[j].index = p.infos[k].index
        BY <1>13, <2>1
      <3> QED BY <1>0, <3>1, <3>2 DEF Body, Distinct
    <2>3. CASE ~(n <= p.count)
      <3>1. n = p.count + 1
        <4>1. Cardinality(Used(p.tab)) <= p.count + 1
          BY <1>0, SizedCount
        <4> QED BY <1>0, <1>7, <1>8, <2>3, <4>1
      <3>2. \A k \in EntrySlots : IF k > p.count THEN p.infos[k] = NoInfo ELSE p.infos[k].index # 1
        BY <1>0, <1>7, <1>8, <2>3 DEF Copy, Settled
      <3>3. g[n].index = 1
        <4>1. n \in EntrySlots /\ n > p.count
          BY <1>0, <1>7, <3>1 DEF EntrySlots
        <4> QED BY <1>13, <3>2, <4>1 DEF NoInfo
      <3>4. ASSUME NEW k \in 1..p.count PROVE k \in EntrySlots /\ g[k].index # 1 /\ g[k].index = p.infos[k].index
        <4>1. k \in EntrySlots /\ ~(k > p.count)
          BY <1>0 DEF EntrySlots
        <4> QED BY <1>13, <3>2, <4>1
      <3> SUFFICES ASSUME NEW j \in 1..n, NEW k \in 1..n, g[j].index = g[k].index PROVE j = k
        BY DEF Distinct
      <3>5. (j = n \/ j \in 1..p.count) /\ (k = n \/ k \in 1..p.count)
        BY <1>0, <3>1
      <3> QED BY <1>0, <3>3, <3>4, <3>5 DEF Body, Distinct
    <2> QED BY <2>2, <2>3
  <1>16. Cardinality(Used(u)) <= n
    <2>1. Used(u) \in SUBSET EntrySlots
      BY DEF Used
    <2> QED BY <1>7, <1>10, <2>1, WithinCount
  <1>17. Body(r, X) /\ Settled(r.tab, r.infos, r.count) /\ TableOK(r.tab, X)
    BY <1>2, <1>7, <1>11, <1>13, <1>14, <1>15, <1>16 DEF Body, Settled
  <1> QED BY <1>1, <1>13, <1>17 DEF Copy

\* A failed delete parses the old entries again.
LEMMA RolledBackCopy ==
    ASSUME NEW X, NEW p, Copy(p, X), NEW q, Infos(q.infos)
    PROVE  Copy(RolledBack(p, q), X)
  <1> DEFINE r == [tab |-> p.tab, infos |-> Parsed(p.tab, Used(p.tab), q.infos), count |-> Cardinality(Used(p.tab))]
  <1>1. TableOK(p.tab, X) /\ Used(p.tab) \in SUBSET EntrySlots /\ Sized(p.tab) \subseteq Used(p.tab)
    BY EntryOK DEF Copy, Body, TableOK
  <1>2. Body(r, X)
    BY <1>1, ParsedBody
  <1>3. r.count \in 0..4
    BY <1>2 DEF Body
  <1>4. Settled(r.tab, r.infos, r.count)
    BY <1>3 DEF Settled
  <1> QED BY <1>2, <1>4 DEF Copy, RolledBack

\* The entries moved to the first slots.
LEMMA FixedCopy ==
    ASSUME NEW X, NEW p, Copy(p, X)
    PROVE  LET n   == Cardinality(Used(p.tab))
               tab == [s \in EntrySlots |-> IF s <= n THEN p.tab[Nth(Used(p.tab), s)] ELSE Empty]
           IN  Body([tab |-> tab, infos |-> Parsed(tab, Used(tab), p.infos), count |-> n], X)
  <1> DEFINE U == Used(p.tab)
             n == Cardinality(U)
             t == [s \in EntrySlots |-> IF s <= n THEN p.tab[Nth(U, s)] ELSE Empty]
  <1>1. TableOK(p.tab, X) /\ U \in SUBSET EntrySlots /\ Infos(p.infos)
    BY EntryOK DEF Copy, Body, TableOK
  <1>2. /\ n \in 0..4
        /\ \A i \in 1..n : Nth(U, i) \in U /\ i <= Nth(U, i)
        /\ \A i, j \in 1..n : Nth(U, i) = Nth(U, j) => i = j
    BY <1>1, NthSlot
  <1>3. Empty \in Entries
    BY <1>1, EmptyOK
  <1> HIDE DEF n
  <1>4. \A s \in EntrySlots : t[s] = IF s <= n THEN p.tab[Nth(U, s)] ELSE Empty
    OBVIOUS
  <1>5. \A s \in 1..n : s \in EntrySlots /\ t[s] = p.tab[Nth(U, s)] /\ Nth(U, s) \in EntrySlots
    BY <1>1, <1>2, <1>4 DEF EntrySlots
  <1>6. \A s \in EntrySlots : s \in 1..n \/ (t[s] = Empty /\ s \notin 1..n)
    BY <1>2, <1>4 DEF EntrySlots
  <1>7. t \in [EntrySlots -> Entries]
    <2>1. \A s \in EntrySlots : t[s] \in Entries
      BY <1>1, <1>3, <1>5, <1>6 DEF TableOK
    <2> QED BY <2>1
  <1> HIDE DEF t
  <1>8. Used(t) = 1..n
    <2>1. \A s \in 1..n : t[s].type # "empty"
      <3> SUFFICES ASSUME NEW s \in 1..n PROVE t[s].type # "empty"
        OBVIOUS
      <3>1. Nth(U, s) \in Used(p.tab) /\ t[s] = p.tab[Nth(U, s)]
        BY <1>2, <1>5
      <3> QED BY <3>1 DEF Used
    <2>2. \A s \in Used(t) : s \in 1..n
      BY <1>6 DEF Used, Empty
    <2> QED BY <1>5, <2>1, <2>2 DEF Used
  <1>9. ASSUME NEW s \in Sized(t) PROVE s \in 1..n /\ Nth(U, s) \in Sized(p.tab) /\ t[s] = p.tab[Nth(U, s)]
    <2>1. s \in 1..n /\ t[s].count > 0
      BY <1>8 DEF Sized
    <2> QED BY <1>2, <1>5, <2>1 DEF Sized
  <1>10. TableFits(t, X)
    <2> SUFFICES ASSUME NEW s \in Sized(t)
                 PROVE  \/ t[s] \in X
                        \/ /\ t[s].start + t[s].count <= Sectors
                           /\ \A w \in Sized(t) \ {s} : ClearOf(t[s], t[w])
      BY DEF TableFits
    <2>1. TableFits(p.tab, X)
      BY <1>1 DEF TableOK
    <2>2. Nth(U, s) \in Sized(p.tab) /\ t[s] = p.tab[Nth(U, s)] /\ s \in 1..n
      BY <1>9
    <2>3. ASSUME NEW w \in Sized(t), w # s
          PROVE  Nth(U, w) \in Sized(p.tab) /\ t[w] = p.tab[Nth(U, w)] /\ Nth(U, w) # Nth(U, s)
      BY <1>2, <1>9, <2>2, <2>3
    <2> QED BY <2>1, <2>2, <2>3 DEF TableFits
  <1>11. Filled(t)
    <2> SUFFICES ASSUME NEW s \in 1..n, s \notin Sized(t) PROVE s = 1
      BY <1>8 DEF Filled
    <2>1. Nth(U, s) \in Used(p.tab) /\ Nth(U, s) \notin Sized(p.tab)
      BY <1>2, <1>5, <1>8 DEF Sized
    <2>2. Nth(U, s) = 1
      BY <1>1, <2>1 DEF TableOK, Filled
    <2> QED BY <1>2, <2>2
  <1>12. TableOK(t, X)
    BY <1>7, <1>10, <1>11 DEF TableOK
  <1>13. Used(t) \in SUBSET EntrySlots /\ Sized(t) \subseteq Used(t)
    BY <1>12, EntryOK DEF TableOK
  <1>14. Cardinality(Used(t)) = n
    <2>1. Cardinality(Used(t)) = Bit(Used(t), 1) + Bit(Used(t), 2) + Bit(Used(t), 3) + Bit(Used(t), 4)
      BY <1>13, CountSlots
    <2> QED BY <1>2, <1>8, <2>1 DEF Bit
  <1>15. Body([tab |-> t, infos |-> Parsed(t, Used(t), p.infos), count |-> n], X)
    BY <1>1, <1>12, <1>13, <1>14, ParsedBody
  <1> QED BY <1>15 DEF n, t

-----------------------------------------------------------------------------
(* part create.                                                            *)

LEMMA MaxNat ==
    ASSUME NEW S \in SUBSET Nat, S # {}, NEW b \in Nat, \A k \in S : k <= b
    PROVE  Max(S) \in S
  <1>1. \E m \in S : \A k \in S : k <= m
    BY GreatestNat
  <1>2. \E m \in S : \A k \in S : m >= k
    BY <1>1
  <1> QED BY <1>2, Zenon DEF Max

LEMMA NextStartNat ==
    ASSUME NEW p, CopyTyped(p)
    PROVE  NextStart(p.tab) \in Nat
  <1> DEFINE S == Ends(p.tab) \cup {ALIGN}
  <1>1. ASSUME NEW e \in Ends(p.tab) PROVE e \in Nat /\ e <= LbaWidth
    <2>1. PICK s \in Sized(p.tab) : e = (p.tab[s].start + p.tab[s].count) % LbaWidth
      BY DEF Ends
    <2>2. s \in EntrySlots
      BY DEF Sized, Used
    <2>3. p.tab[s].start \in Nat /\ p.tab[s].count \in Nat
      BY <2>2, EntryOK DEF CopyTyped
    <2>4. PICK c \in Nat, w \in Nat \ {0} : c = p.tab[s].start + p.tab[s].count /\ w = LbaWidth
      BY <2>3, PartitionsAssumption
    <2>5. c % w \in 0..w - 1
      OBVIOUS
    <2> QED BY <2>1, <2>4, <2>5
  <1>2. S \in SUBSET Nat /\ S # {} /\ LbaWidth + ALIGN \in Nat /\ \A k \in S : k <= LbaWidth + ALIGN
    BY <1>1, PartitionsAssumption
  <1>3. Max(S) \in Nat
    BY <1>2, MaxNat
  <1> HIDE DEF S
  <1>4. PICK m \in Nat, a \in Nat \ {0} : m = Max(S) /\ a = ALIGN
    BY <1>3, PartitionsAssumption
  <1>5. (m + a - 1) \div a \in Nat
    <2>1. PICK c \in Nat : c = m + a - 1
      OBVIOUS
    <2>2. c \div a \in Int
      OBVIOUS
    <2>3. c = (a * (c \div a)) + (c % a) /\ (c % a) \in 0..a - 1
      OBVIOUS
    <2>4. ASSUME c \div a < 0 PROVE FALSE
      <3>1. PICK d \in Nat \ {0} : c \div a = 0 - d
        BY <2>2, <2>4
      <3>2. a * (0 - d) <= 0 - a
        BY <3>1
      <3> QED BY <2>3, <3>1, <3>2
    <2> QED BY <2>1, <2>2, <2>4
  <1>6. PICK x \in Nat : x = (m + a - 1) \div a
    BY <1>5
  <1>7. x * a \in Nat
    OBVIOUS
  <1> QED BY <1>4, <1>6, <1>7 DEF NextStart, S

LEMMA FindFreeNat ==
    ASSUME NEW p, CopyTyped(p), NEW size \in Nat
    PROVE  FindFree(p, size) \in Nat
  <1>1. ASSUME NEW k \in 1..5 PROVE Reached(p, k) \in Nat
    <2> DEFINE before == {i \in 1 .. k - 1 : p.infos[i].type # "empty"}
    <2>1. CASE before = {}
      BY <2>1, PartitionsAssumption DEF Reached
    <2>2. CASE before # {}
      <3>1. before \in SUBSET Nat /\ \A i \in before : i <= 5 /\ i \in EntrySlots
        BY DEF EntrySlots
      <3>2. Max(before) \in EntrySlots
        BY <2>2, <3>1, MaxNat
      <3>3. p.infos[Max(before)].start \in Nat /\ p.infos[Max(before)].count \in Nat
        BY <3>2 DEF CopyTyped, Infos, InfoRec
      <3>4. Reached(p, k) = p.infos[Max(before)].start + p.infos[Max(before)].count
        BY <2>2 DEF Reached
      <3> HIDE DEF before
      <3> QED BY <3>3, <3>4
    <2> QED BY <2>1, <2>2
  <1> DEFINE gaps == {k \in 1 .. p.count : /\ p.infos[k].type # "empty"
                                           /\ \/ p.infos[k].start < Reached(p, k)
                                              \/ p.infos[k].start - Reached(p, k) >= size}
  <1>2. p.count \in 0..4 /\ p.count + 1 \in 1..5 /\ \A k \in 1..p.count : k \in 1..5
    BY DEF CopyTyped
  <1>3. gaps # {} => Min(gaps) \in 1..5
    <2>1. gaps \in SUBSET Nat /\ \A k \in gaps : k \in 1..5
      BY <1>2
    <2> HIDE DEF gaps
    <2> QED BY <2>1, MinNat
  <1>4. FindFree(p, size) \in {Reached(p, Min(gaps)), Reached(p, p.count + 1), 0}
        /\ \/ FindFree(p, size) = Reached(p, Min(gaps)) /\ gaps # {}
           \/ FindFree(p, size) \in {Reached(p, p.count + 1), 0}
    BY DEF FindFree
  <1> HIDE DEF gaps
  <1> QED BY <1>1, <1>2, <1>3, <1>4

LEMMA RequestedRange ==
    ASSUME NEW p, CopyTyped(p), NEW mb \in Sizes \cup {0}, NEW r \in Requested(p, mb)
    PROVE  r.start \in Nat /\ r.count \in Nat \ {0}
  <1>1. CASE mb = 0
    <2>1. r.start = NextStart(p.tab) /\ r.count = Sectors - NextStart(p.tab) /\ r.count >= ALIGN
      BY <1>1 DEF Requested
    <2>2. PICK x \in Nat : x = NextStart(p.tab)
      BY NextStartNat
    <2> QED BY <2>1, <2>2, PartitionsAssumption
  <1>2. CASE mb # 0
    <2>1. PICK m \in Nat \ {0}, a \in Nat \ {0} : m = mb /\ a = ALIGN
      BY <1>2, PartitionsAssumption
    <2>2. m * a \in Nat \ {0}
      OBVIOUS
    <2>3. r.start = FindFree(p, m * a) /\ r.count = m * a
      BY <1>2, <2>1 DEF Requested
    <2> QED BY <2>2, <2>3, FindFreeNat
  <1> QED BY <1>1, <1>2

\* What the three comparisons rule out.
LEMMA ApartRange ==
    ASSUME NEW r, NEW i, r.start \in Nat, r.count \in Nat \ {0}, i.start \in Nat, i.count \in Nat \ {0}, ~Overlaps(r, i)
    PROVE  r.start >= i.start + i.count \/ i.start >= r.start + r.count
  BY DEF Overlaps

LEMMA CreateBody ==
    ASSUME NEW X, NEW p, Copy(p, X), NEW slot \in EntrySlots, NEW r, r.start \in Nat, r.count \in Nat \ {0},
           MayCreate(p, slot, r)
    PROVE  Body(WithPartition(p, slot, [index |-> slot, type |-> "fat", start |-> r.start, count |-> r.count]), X)
  <1> DEFINE i == [index |-> slot, type |-> "fat", start |-> r.start, count |-> r.count]
             e == [type |-> "fat", start |-> r.start, count |-> r.count]
             t == [p.tab EXCEPT ![slot] = e]
             same == {k \in 1..p.count : p.infos[k].index = slot}
             n == IF same = {} /\ p.count < 4 THEN p.count + 1 ELSE p.count
             at == IF same # {} THEN Min(same) ELSE n
             f == IF same = {} /\ p.count = 4 THEN p.infos ELSE [p.infos EXCEPT ![at] = i]
  <1>0. /\ Body(p, X) /\ TableOK(p.tab, X) /\ Infos(p.infos) /\ p.count \in 0..4
        /\ Distinct(p.infos, p.count) /\ Mirrored(p.tab, p.infos, p.count)
    BY DEF Copy, Body
  <1>1. /\ r.start + r.count <= Sectors
        /\ \A k \in 1..p.count : p.infos[k].type # "empty" => ~Overlaps(r, p.infos[k])
    BY DEF MayCreate
  <1>2. EntryOf(i) = e
    <2>1. LbaWidth \in Nat \ {0} /\ r.start \in 0..LbaWidth - 1 /\ r.count \in 0..LbaWidth - 1
      BY <1>1, PartitionsAssumption
    <2>2. r.start \in 0..2 * LbaWidth - 1 /\ r.count \in 0..2 * LbaWidth - 1 /\ r.start < LbaWidth /\ r.count < LbaWidth
      BY <2>1
    <2>3. r.start % LbaWidth = r.start /\ r.count % LbaWidth = r.count
      BY <2>1, <2>2, ModOnce
    <2> QED BY <2>3 DEF EntryOf
  <1>3. e \in Entries /\ e.type # "empty" /\ e.start = r.start /\ e.count = r.count /\ Info(slot, e) = i /\ i \in InfoRec /\ i.index = slot
    BY <1>1, PartitionsAssumption DEF Entries, Info, InfoRec
  <1>4. WithPartition(p, slot, i) = [tab |-> t, infos |-> ByIndex(f, n), count |-> n]
    BY <1>2 DEF WithPartition
  <1> HIDE DEF i, e
  <1>5. t[slot] = e /\ t \in [EntrySlots -> Entries] /\ \A s \in EntrySlots : s # slot => t[s] = p.tab[s]
    BY <1>0, <1>3 DEF TableOK
  <1> HIDE DEF t
  <1>6. \A s \in Sized(t) : s \in EntrySlots /\ (s # slot => s \in Sized(p.tab) /\ t[s] = p.tab[s])
    BY <1>5 DEF Sized, Used
  <1>7. ASSUME NEW s \in Sized(t), s # slot
        PROVE  \E k \in 1..p.count : k <= s /\ p.infos[k] = Info(s, t[s]) /\ p.infos[k].index = s
    <2>1. s \in Sized(p.tab) /\ t[s] = p.tab[s] /\ s \in EntrySlots
      BY <1>6, <1>7
    <2>2. PICK k \in 1..p.count : k <= s /\ p.infos[k] = Info(s, p.tab[s])
      BY <1>0, <2>1 DEF Mirrored
    <2> QED BY <1>0, <2>1, <2>2, EntryOK DEF TableOK
  <1>8. ASSUME NEW s \in Sized(t), s # slot
        PROVE  /\ t[s].start \in Nat /\ t[s].count \in Nat \ {0}
               /\ (r.start >= t[s].start + t[s].count \/ t[s].start >= r.start + r.count)
    <2>1. s \in Sized(p.tab) /\ t[s] = p.tab[s] /\ s \in EntrySlots
      BY <1>6, <1>8
    <2>2. t[s].start \in Nat /\ t[s].count \in Nat /\ t[s].count > 0 /\ t[s].type # "empty"
      BY <1>0, <2>1, EntryOK DEF TableOK, Sized, Used
    <2>3. PICK k \in 1..p.count : p.infos[k] = Info(s, t[s])
      BY <1>7, <1>8
    <2>4. p.infos[k].start = t[s].start /\ p.infos[k].count = t[s].count /\ p.infos[k].type = t[s].type
      BY <2>3 DEF Info
    <2>5. ~Overlaps(r, p.infos[k])
      BY <1>1, <2>2, <2>4
    <2>6. r.start >= t[s].start + t[s].count \/ t[s].start >= r.start + r.count
      BY <2>2, <2>4, <2>5, ApartRange
    <2> QED BY <2>2, <2>6
  <1>9. TableFits(t, X)
    <2> SUFFICES ASSUME NEW s \in Sized(t)
                 PROVE  \/ t[s] \in X
                        \/ /\ t[s].start + t[s].count <= Sectors
                           /\ \A w \in Sized(t) \ {s} : ClearOf(t[s], t[w])
      BY DEF TableFits
    <2>1. CASE s = slot
      <3>1. t[s].start = r.start /\ t[s].count = r.count
        BY <1>3, <1>5, <2>1
      <3> QED BY <1>1, <1>8, <2>1, <3>1 DEF ClearOf
    <2>2. CASE s # slot
      <3>0. s \in Sized(p.tab) /\ t[s] = p.tab[s]
        BY <1>6, <2>2
      <3>1. ASSUME NEW w \in Sized(t), w # s, \A v \in Sized(p.tab) \ {s} : ClearOf(p.tab[s], p.tab[v])
            PROVE  ClearOf(t[s], t[w])
        <4>1. CASE w = slot
          <5>1. t[w].start = r.start /\ t[w].count = r.count
            BY <1>3, <1>5, <4>1
          <5> QED BY <1>8, <2>2, <5>1 DEF ClearOf
        <4>2. CASE w # slot
          BY <1>6, <3>0, <3>1, <4>2
        <4> QED BY <4>1, <4>2
      <3> QED BY <1>0, <3>0, <3>1 DEF TableOK, TableFits
    <2> QED BY <2>1, <2>2
  <1>10. Filled(t)
    <2> SUFFICES ASSUME NEW s \in Used(t), s \notin Sized(t) PROVE s = 1
      BY DEF Filled
    <2>1. s # slot
      BY <1>3, <1>5 DEF Sized
    <2>2. s \in Used(p.tab) /\ s \notin Sized(p.tab)
      BY <1>5, <2>1 DEF Used, Sized
    <2> QED BY <1>0, <2>2 DEF TableOK, Filled
  <1>11. n \in 1..4 /\ at \in 1..n /\ f = [p.infos EXCEPT ![at] = i] /\ (same = {} => at = p.count + 1 /\ n = p.count + 1)
         /\ (same # {} => p.infos[at].index = slot /\ at \in 1..p.count /\ n = p.count)
    <2>1. CASE same # {}
      <3>1. same \in SUBSET Nat
        OBVIOUS
      <3>2. Min(same) \in same
        BY <2>1, <3>1, MinNat
      <3> QED BY <1>0, <2>1, <3>2
    <2>2. CASE same = {}
      <3>1. p.count < 4
        <4> SUFFICES ASSUME p.count = 4 PROVE FALSE
          BY <1>0
        <4>1. \A k \in 1..4 : p.infos[k].index \in 1..4 /\ p.infos[k].index # slot
          BY <1>0, <2>2 DEF Infos, InfoRec, EntrySlots
        <4>2. \A j, k \in 1..4 : p.infos[j].index = p.infos[k].index => j = k
          BY <1>0 DEF Distinct
        <4> HIDE DEF same
        <4>3. slot \in 1..4
          BY DEF EntrySlots
        <4>4. PICK a \in 1..4, b \in 1..4, c \in 1..4, d \in 1..4 :
                a = p.infos[1].index /\ b = p.infos[2].index /\ c = p.infos[3].index /\ d = p.infos[4].index
          BY <4>1
        <4>5. a # slot /\ b # slot /\ c # slot /\ d # slot
          BY <4>1, <4>4
        <4>6. a # b /\ a # c /\ a # d /\ b # c /\ b # d /\ c # d
          BY <4>2, <4>4
        <4> QED BY <4>3, <4>5, <4>6
      <3> QED BY <1>0, <2>2, <3>1
    <2> QED BY <2>1, <2>2
  <1>12. \A k \in 1..n : k \in EntrySlots
    BY <1>11 DEF EntrySlots
  <1> HIDE DEF f, n, at
  <1>13. f[at] = i /\ Infos(f) /\ \A k \in EntrySlots : k # at => f[k] = p.infos[k]
    BY <1>0, <1>3, <1>11, <1>12 DEF Infos
  <1>14. ASSUME NEW k \in 1..n, k # at PROVE k \in 1..p.count /\ f[k] = p.infos[k] /\ p.infos[k].index # slot
    <2>1. k \in EntrySlots /\ f[k] = p.infos[k]
      BY <1>12, <1>13, <1>14
    <2>2. CASE same = {}
      <3>1. k \in 1..p.count
        BY <1>0, <1>11, <1>14, <2>2
      <3> QED BY <2>1, <2>2, <3>1
    <2>3. CASE same # {}
      <3>1. k \in 1..p.count /\ at \in 1..p.count /\ p.infos[at].index = slot
        BY <1>11, <2>3
      <3> QED BY <1>0, <1>14, <2>1, <3>1 DEF Distinct
    <2> QED BY <2>2, <2>3
  <1>15. Distinct(f, n)
    BY <1>0, <1>3, <1>13, <1>14 DEF Distinct
  <1> DEFINE g == ByIndex(f, n)
  <1>16. Reordered(f, g, n) /\ \A k \in 1..n : k <= g[k].index
    BY <1>11, <1>13, <1>15, ByIndexSorts
  <1> HIDE DEF g
  <1>17. Mirrored(t, g, n)
    <2> SUFFICES ASSUME NEW s \in Sized(t) PROVE \E k \in 1..n : k <= s /\ g[k] = Info(s, t[s])
      BY DEF Mirrored
    <2>1. \E k \in 1..n : f[k] = Info(s, t[s]) /\ f[k].index = s
      <3>1. CASE s = slot
        BY <1>3, <1>5, <1>11, <1>13, <3>1
      <3>2. CASE s # slot
        <4>1. PICK k \in 1..p.count : p.infos[k] = Info(s, t[s]) /\ p.infos[k].index = s
          BY <1>7, <3>2
        <4>2. k \in 1..n /\ k # at
          BY <1>0, <1>11, <3>2, <4>1
        <4> QED BY <1>14, <4>1, <4>2
      <3> QED BY <3>1, <3>2
    <2>2. PICK k \in 1..n : f[k] = Info(s, t[s]) /\ f[k].index = s
      BY <2>1
    <2>3. PICK m \in 1..n : g[m] = f[k]
      BY <1>16 DEF Reordered
    <2> QED BY <1>16, <2>2, <2>3
  <1>18. TableOK(t, X)
    BY <1>5, <1>9, <1>10 DEF TableOK
  <1>19. Body([tab |-> t, infos |-> g, count |-> n], X)
    BY <1>11, <1>16, <1>17, <1>18 DEF Body, Reordered
  <1> QED BY <1>4, <1>19 DEF g, i

-----------------------------------------------------------------------------
(* The types, whatever the table found.                                    *)

LEMMA TrimTyped ==
    ASSUME NEW p, CopyTyped(p)
    PROVE  CopyTyped(Trimmed(p))
  <1> DEFINE q == Trimmed(p)
             u == [s \in EntrySlots |-> IF s > p.count THEN Empty ELSE p.tab[s]]
  <1>1. DOMAIN q = {"tab", "infos", "count"} /\ q.tab = u /\ q.infos = p.infos /\ q.count = p.count
    BY DEF CopyTyped, Trimmed
  <1>2. u \in [EntrySlots -> Entries]
    BY EmptyOK DEF CopyTyped
  <1> HIDE DEF q, u
  <1> QED BY <1>1, <1>2 DEF CopyTyped, q

LEMMA ExchangeTyped ==
    ASSUME NEW f, Infos(f), NEW n \in 0..4, NEW i \in EntrySlots, NEW j \in EntrySlots
    PROVE  Infos(Exchange(f, n, i, j))
  BY DEF Exchange, Infos

LEMMA ByIndexTyped ==
    ASSUME NEW f, Infos(f), NEW n \in 0..4
    PROVE  Infos(ByIndex(f, n))
  <1>1. 1 \in EntrySlots /\ 2 \in EntrySlots /\ 3 \in EntrySlots /\ 4 \in EntrySlots
    BY DEF EntrySlots
  <1> DEFINE a == Exchange(f, n, 1, 2)
             b == Exchange(a, n, 1, 3)
             c == Exchange(b, n, 1, 4)
             d == Exchange(c, n, 2, 3)
             e == Exchange(d, n, 2, 4)
             g == Exchange(e, n, 3, 4)
  <1>2. ByIndex(f, n) = g
    BY DEF ByIndex
  <1>3. Infos(a)
    BY <1>1, ExchangeTyped
  <1> HIDE DEF a
  <1>4. Infos(b)
    BY <1>1, <1>3, ExchangeTyped
  <1> HIDE DEF b
  <1>5. Infos(c)
    BY <1>1, <1>4, ExchangeTyped
  <1> HIDE DEF c
  <1>6. Infos(d)
    BY <1>1, <1>5, ExchangeTyped
  <1> HIDE DEF d
  <1>7. Infos(e)
    BY <1>1, <1>6, ExchangeTyped
  <1> HIDE DEF e
  <1>8. Infos(g)
    BY <1>1, <1>7, ExchangeTyped
  <1> QED BY <1>2, <1>8

LEMMA CreateTyped ==
    ASSUME NEW p, CopyTyped(p), NEW slot \in EntrySlots, NEW x \in Nat, NEW y \in Nat
    PROVE  CopyTyped(WithPartition(p, slot, [index |-> slot, type |-> "fat", start |-> x, count |-> y]))
  <1> DEFINE i == [index |-> slot, type |-> "fat", start |-> x, count |-> y]
             same == {k \in 1..p.count : p.infos[k].index = slot}
             n == IF same = {} /\ p.count < 4 THEN p.count + 1 ELSE p.count
             at == IF same # {} THEN Min(same) ELSE n
             f == IF same = {} /\ p.count = 4 THEN p.infos ELSE [p.infos EXCEPT ![at] = i]
             t == [p.tab EXCEPT ![slot] = EntryOf(i)]
  <1>1. i \in InfoRec
    BY DEF InfoRec
  <1>2. EntryOf(i) \in Entries
    <2>1. PICK w \in Nat \ {0} : w = LbaWidth
      BY PartitionsAssumption
    <2>2. x % w \in 0..w - 1 /\ y % w \in 0..w - 1
      OBVIOUS
    <2> QED BY <2>1, <2>2 DEF EntryOf, Entries
  <1>3. t \in [EntrySlots -> Entries]
    BY <1>2 DEF CopyTyped
  <1>4. WithPartition(p, slot, i) = [tab |-> t, infos |-> ByIndex(f, n), count |-> n]
    BY DEF WithPartition
  <1>5. n \in 0..4
    BY DEF CopyTyped
  <1> HIDE DEF i, t
  <1>6. Infos(f)
    BY <1>1 DEF CopyTyped, Infos
  <1> HIDE DEF f, n
  <1>7. Infos(ByIndex(f, n))
    BY <1>5, <1>6, ByIndexTyped
  <1>8. CopyTyped([tab |-> t, infos |-> ByIndex(f, n), count |-> n])
    BY <1>3, <1>5, <1>7 DEF CopyTyped
  <1> QED BY <1>4, <1>8 DEF i

LEMMA DeleteTyped ==
    ASSUME NEW p, CopyTyped(p), NEW slot \in EntrySlots
    PROVE  CopyTyped(WithoutPartition(p, slot))
  <1> DEFINE v == [p.tab EXCEPT ![slot] = Empty]
             g == [k \in EntrySlots |-> IF k \in InfoOf(p, slot) THEN [NoInfo EXCEPT !.index = slot] ELSE p.infos[k]]
  <1>1. Empty \in Entries /\ NoInfo \in InfoRec
    BY EmptyOK
  <1>2. v \in [EntrySlots -> Entries]
    BY <1>1 DEF CopyTyped
  <1>3. [NoInfo EXCEPT !.index = slot] \in InfoRec
    BY <1>1 DEF InfoRec
  <1>4. Infos(g)
    BY <1>3 DEF Infos, CopyTyped
  <1>5. WithoutPartition(p, slot) = [tab |-> v, infos |-> g, count |-> Cardinality(Used(v))]
    BY DEF WithoutPartition
  <1> HIDE DEF v, g
  <1>6. Cardinality(Used(v)) \in 0..4
    <2>1. Used(v) \in SUBSET EntrySlots
      BY DEF Used
    <2> QED BY <2>1, NthSlot
  <1> QED BY <1>2, <1>4, <1>5, <1>6 DEF CopyTyped

\* Entries parsed again.
LEMMA ParsedTyped ==
    ASSUME NEW t \in [EntrySlots -> Entries], NEW ss \in SUBSET EntrySlots, NEW f, Infos(f)
    PROVE  CopyTyped([tab |-> t, infos |-> Parsed(t, ss, f), count |-> Cardinality(ss)])
  <1> DEFINE g == Parsed(t, ss, f)
             n == Cardinality(ss)
  <1>1. Infos(g) /\ n \in 0..4
    BY ParsedInfos
  <1> HIDE DEF g, n
  <1>2. CopyTyped([tab |-> t, infos |-> g, count |-> n])
    BY <1>1 DEF CopyTyped
  <1> QED BY <1>2 DEF g, n

LEMMA RolledBackTyped ==
    ASSUME NEW p, CopyTyped(p), NEW q, CopyTyped(q)
    PROVE  CopyTyped(RolledBack(p, q))
  <1>1. p.tab \in [EntrySlots -> Entries] /\ Used(p.tab) \in SUBSET EntrySlots /\ Infos(q.infos)
    BY DEF CopyTyped, Used
  <1> QED BY <1>1, ParsedTyped DEF RolledBack

LEMMA FixedTyped ==
    ASSUME NEW p, CopyTyped(p)
    PROVE  LET n   == Cardinality(Used(p.tab))
               tab == [s \in EntrySlots |-> IF s <= n THEN p.tab[Nth(Used(p.tab), s)] ELSE Empty]
           IN  CopyTyped([tab |-> tab, infos |-> Parsed(tab, Used(tab), p.infos), count |-> n])
  <1> DEFINE U == Used(p.tab)
             n == Cardinality(U)
             t == [s \in EntrySlots |-> IF s <= n THEN p.tab[Nth(U, s)] ELSE Empty]
  <1>1. U \in SUBSET EntrySlots /\ p.tab \in [EntrySlots -> Entries] /\ Infos(p.infos) /\ Empty \in Entries
    BY EmptyOK DEF Used, CopyTyped
  <1>2. n \in 0..4 /\ \A i \in 1..n : Nth(U, i) \in U
    BY <1>1, NthSlot
  <1> HIDE DEF U, n
  <1>3. t \in [EntrySlots -> Entries]
    <2>1. ASSUME NEW s \in EntrySlots PROVE t[s] \in Entries
      <3>1. CASE s <= n
        <4>1. s \in 1..n
          BY <1>2, <3>1 DEF EntrySlots
        <4> QED BY <1>1, <1>2, <3>1, <4>1
      <3>2. CASE ~(s <= n)
        BY <1>1, <3>2
      <3> QED BY <3>1, <3>2
    <2> QED BY <2>1
  <1> HIDE DEF t
  <1>4. Used(t) \in SUBSET EntrySlots
    BY DEF Used
  <1>5. Infos(Parsed(t, Used(t), p.infos))
    BY <1>1, <1>3, <1>4, ParsedInfos
  <1>6. CopyTyped([tab |-> t, infos |-> Parsed(t, Used(t), p.infos), count |-> n])
    BY <1>2, <1>3, <1>5 DEF CopyTyped
  <1> QED BY <1>6 DEF t, n, U

LEMMA ReadTyped ==
    ASSUME NEW d \in SectorRec, NEW p \in ReadTable(d)
    PROVE  CopyTyped(p)
  <1>1. d.tab \in [EntrySlots -> Entries] /\ Sized(d.tab) \in SUBSET EntrySlots /\ Infos(NoInfos)
    BY NoneOK DEF SectorRec, Sized, Used
  <1>2. p = WholeDisk(d.tab) \/ p = [tab |-> d.tab, infos |-> Parsed(d.tab, Sized(d.tab), NoInfos),
                                     count |-> Cardinality(Sized(d.tab))]
    BY DEF ReadTable
  <1> QED BY <1>1, <1>2, ParsedTyped, WholeDiskTyped

-----------------------------------------------------------------------------
(* The invariant.                                                          *)

PartInv ==
    /\ sector0 \in SectorRec /\ original \in SectorRec /\ CopyTyped(pt) /\ managed \in BOOLEAN
    /\ Legible(original) => SectorOK(sector0, Excused(original)) /\ Copy(pt, Excused(original))

LEMMA WriteTyped ==
    ASSUME sector0 \in SectorRec, NEW p, CopyTyped(p), NEW w \in WriteTable(p)
    PROVE  w.disk \in SectorRec
  <1> DEFINE u == Trimmed(p).tab
             d == [sector0 EXCEPT !.sig = TRUE, !.tab = u]
  <1>1. w.disk = sector0 \/ w.disk = d
    BY DEF WriteTable
  <1>2. u \in [EntrySlots -> Entries]
    BY TrimTyped DEF CopyTyped
  <1> HIDE DEF u
  <1> QED BY <1>1, <1>2 DEF SectorRec

\* Whatever becomes of the write, the sector holds a table that fits.
LEMMA WriteOK ==
    ASSUME NEW X, SectorOK(sector0, X), NEW p, TableOK(Trimmed(p).tab, X), NEW w \in WriteTable(p)
    PROVE  SectorOK(w.disk, X)
  <1> DEFINE u == Trimmed(p).tab
             d == [sector0 EXCEPT !.sig = TRUE, !.tab = u]
  <1>1. w.disk = sector0 \/ w.disk = d
    BY DEF WriteTable
  <1> HIDE DEF u
  <1>2. TableOK(u, X) /\ u \in [EntrySlots -> Entries]
    BY DEF u, TableOK
  <1>3. d \in SectorRec /\ d.sig = TRUE /\ d.tab = u
    BY <1>2 DEF SectorOK, SectorRec
  <1> HIDE DEF d
  <1>4. SectorOK(d, X)
    BY <1>2, <1>3 DEF SectorOK
  <1> QED BY <1>1, <1>4

LEMMA StartCopy ==
    ASSUME NEW X
    PROVE  LET p == [tab |-> NoTable, infos |-> NoInfos, count |-> 0] IN CopyTyped(p) /\ Copy(p, X)
  <1>1. TableOK(NoTable, X) /\ Used(NoTable) = {} /\ Infos(NoInfos)
    BY NoneOK
  <1>2. Sized(NoTable) = {}
    BY <1>1 DEF Sized
  <1>3. Mirrored(NoTable, NoInfos, 0) /\ Distinct(NoInfos, 0)
    BY <1>2 DEF Mirrored, Distinct
  <1>4. Cardinality(Used(NoTable)) <= 0
    BY <1>1, WithinCount
  <1> QED BY <1>1, <1>3, <1>4 DEF Copy, Body, Settled, CopyTyped, TableOK

LEMMA PartInitial ==
    ASSUME PartitionsInit
    PROVE  PartInv
  <1> DEFINE X == Excused(original)
  <1>1. sector0 \in SectorRec /\ original = sector0 /\ managed = FALSE
        /\ pt = [tab |-> NoTable, infos |-> NoInfos, count |-> 0]
    BY FirstAssumption DEF PartitionsInit, SectorRec
  <1>2. TableFits(sector0.tab, X)
    <2>1. CASE TableFits(sector0.tab, {})
      BY <1>1, <2>1 DEF Excused
    <2>2. CASE ~TableFits(sector0.tab, {})
      BY <1>1, <2>2 DEF Excused, TableFits, Sized, Used
    <2> QED BY <2>1, <2>2
  <1> HIDE DEF X
  <1>3. ASSUME Legible(original) PROVE SectorOK(sector0, X)
    <2>1. Filled(sector0.tab) /\ (~sector0.sig => Used(sector0.tab) \subseteq {1})
      BY <1>1, <1>3 DEF Legible, Filled
    <2> QED BY <1>1, <1>2, <2>1 DEF SectorOK, TableOK, SectorRec
  <1>4. CopyTyped(pt) /\ Copy(pt, X)
    BY <1>1, StartCopy
  <1> QED BY <1>1, <1>3, <1>4 DEF PartInv, X

LEMMA PartCreateStep ==
    ASSUME PartInv, PartCreate
    PROVE  PartInv'
  <1> DEFINE X == Excused(original)
  <1>0. /\ sector0 \in SectorRec /\ original \in SectorRec /\ CopyTyped(pt) /\ managed \in BOOLEAN
        /\ managed' = managed /\ original' = original
    BY DEF PartInv, PartCreate
  <1>1. PICK slot \in EntrySlots, mb \in Sizes \cup {0} :
          \E r \in Requested(pt, mb) :
            /\ MayCreate(pt, slot, r)
            /\ LET i == [index |-> slot, type |-> "fat", start |-> r.start, count |-> r.count]
                   p == WithPartition(pt, slot, i)
               IN  \E w \in WriteTable(p) : sector0' = w.disk /\ pt' = Trimmed(p)
    BY DEF PartCreate
  <1>2. PICK r \in Requested(pt, mb) :
            /\ MayCreate(pt, slot, r)
            /\ LET i == [index |-> slot, type |-> "fat", start |-> r.start, count |-> r.count]
                   p == WithPartition(pt, slot, i)
               IN  \E w \in WriteTable(p) : sector0' = w.disk /\ pt' = Trimmed(p)
    BY <1>1
  <1> DEFINE p == WithPartition(pt, slot, [index |-> slot, type |-> "fat", start |-> r.start, count |-> r.count])
  <1>3. r.start \in Nat /\ r.count \in Nat \ {0}
    BY <1>0, RequestedRange
  <1>4. \E w \in WriteTable(p) : sector0' = w.disk /\ pt' = Trimmed(p)
    BY <1>2
  <1>5. CopyTyped(p)
    BY <1>0, <1>3, CreateTyped
  <1>6. ASSUME Copy(pt, X) PROVE Body(p, X)
    BY <1>2, <1>3, <1>6, CreateBody
  <1> HIDE DEF p
  <1>7. sector0' \in SectorRec /\ CopyTyped(pt')
    BY <1>0, <1>4, <1>5, WriteTyped, TrimTyped
  <1>8. ASSUME SectorOK(sector0, X), Copy(pt, X) PROVE SectorOK(sector0', X) /\ Copy(pt', X)
    <2>1. Copy(Trimmed(p), X) /\ TableOK(Trimmed(p).tab, X)
      BY <1>6, <1>8, TrimCopy
    <2> QED BY <1>4, <1>8, <2>1, WriteOK
  <1> QED BY <1>0, <1>7, <1>8 DEF PartInv

LEMMA PartDeleteStep ==
    ASSUME PartInv, PartDelete
    PROVE  PartInv'
  <1> DEFINE X == Excused(original)
  <1>0. /\ sector0 \in SectorRec /\ original \in SectorRec /\ CopyTyped(pt) /\ managed \in BOOLEAN
        /\ managed' = managed /\ original' = original
    BY DEF PartInv, PartDelete
  <1>1. PICK slot \in EntrySlots :
            LET q == WithoutPartition(pt, slot)
            IN  \E w \in WriteTable(q) : /\ sector0' = w.disk
                                         /\ pt' = IF w.ok THEN Trimmed(q) ELSE RolledBack(pt, q)
    BY DEF PartDelete
  <1> DEFINE q == WithoutPartition(pt, slot)
  <1>2. CopyTyped(q)
    BY <1>0, DeleteTyped
  <1>3. \E w \in WriteTable(q) : sector0' = w.disk /\ (pt' = Trimmed(q) \/ pt' = RolledBack(pt, q))
    BY <1>1
  <1>4. ASSUME Copy(pt, X) PROVE Infos(q.infos) /\ Copy(Trimmed(q), X) /\ TableOK(Trimmed(q).tab, X)
    BY <1>4, DeleteCopy
  <1> HIDE DEF q
  <1>5. sector0' \in SectorRec /\ CopyTyped(pt')
    BY <1>0, <1>2, <1>3, WriteTyped, TrimTyped, RolledBackTyped
  <1>6. ASSUME SectorOK(sector0, X), Copy(pt, X) PROVE SectorOK(sector0', X) /\ Copy(pt', X)
    <2>1. Copy(RolledBack(pt, q), X)
      BY <1>4, <1>6, RolledBackCopy
    <2> QED BY <1>3, <1>4, <1>6, <2>1, WriteOK
  <1> QED BY <1>0, <1>5, <1>6 DEF PartInv

LEMMA PartFixOrderStep ==
    ASSUME PartInv, PartFixOrder
    PROVE  PartInv'
  <1> DEFINE X == Excused(original)
             n   == Cardinality(Used(pt.tab))
             tab == [s \in EntrySlots |-> IF s <= n THEN pt.tab[Nth(Used(pt.tab), s)] ELSE Empty]
             p   == [tab |-> tab, infos |-> Parsed(tab, Used(tab), pt.infos), count |-> n]
  <1>0. /\ sector0 \in SectorRec /\ original \in SectorRec /\ CopyTyped(pt) /\ managed \in BOOLEAN
        /\ managed' = managed /\ original' = original
    BY DEF PartInv, PartFixOrder
  <1>1. \E w \in WriteTable(p) : sector0' = w.disk /\ pt' = Trimmed(p)
    BY DEF PartFixOrder
  <1>2. CopyTyped(p)
    BY <1>0, FixedTyped
  <1>3. ASSUME Copy(pt, X) PROVE Body(p, X)
    BY <1>3, FixedCopy
  <1> HIDE DEF p
  <1>4. sector0' \in SectorRec /\ CopyTyped(pt')
    BY <1>0, <1>1, <1>2, WriteTyped, TrimTyped
  <1>5. ASSUME SectorOK(sector0, X), Copy(pt, X) PROVE SectorOK(sector0', X) /\ Copy(pt', X)
    <2>1. Copy(Trimmed(p), X) /\ TableOK(Trimmed(p).tab, X)
      BY <1>3, <1>5, TrimCopy
    <2> QED BY <1>1, <1>5, <2>1, WriteOK
  <1> QED BY <1>0, <1>4, <1>5 DEF PartInv

LEMMA PartInductive ==
    ASSUME PartInv, [PartitionsNext]_PartitionVars
    PROVE  PartInv'
  <1> DEFINE X == Excused(original)
  <1>1. CASE PartCreate
    BY <1>1, PartCreateStep
  <1>2. CASE PartDelete
    BY <1>2, PartDeleteStep
  <1>3. CASE PartFixOrder
    BY <1>3, PartFixOrderStep
  <1>4. CASE PartFormat
    <2> DEFINE d == [sig |-> TRUE, fat |-> TRUE, tab |-> NoTable]
    <2>1. pt' = pt /\ managed' = managed /\ original' = original
      BY <1>4 DEF PartFormat
    <2>2. sector0' \in {sector0, d}
      BY <1>4 DEF PartFormat, Formatted
    <2>3. TableOK(NoTable, X)
      BY NoneOK
    <2>4. d \in SectorRec /\ d.sig = TRUE /\ d.tab = NoTable
      BY <2>3 DEF SectorRec, TableOK
    <2> HIDE DEF d
    <2>5. SectorOK(d, X)
      BY <2>3, <2>4 DEF SectorOK
    <2> QED BY <2>1, <2>2, <2>4, <2>5 DEF PartInv
  <1>5. CASE ScanDisk
    <2>1. /\ pt' \in ReadTable(sector0) /\ managed' = TRUE /\ sector0' = sector0 /\ original' = original
      BY <1>5 DEF ScanDisk
    <2>2. CopyTyped(pt')
      BY <2>1, ReadTyped DEF PartInv
    <2>3. ASSUME SectorOK(sector0, X) PROVE Copy(pt', X)
      BY <2>1, <2>3, ReadCopy
    <2> QED BY <2>1, <2>2, <2>3 DEF PartInv
  <1>6. CASE Restart
    <2>1. /\ pt' = [tab |-> NoTable, infos |-> NoInfos, count |-> 0] /\ managed' = FALSE
          /\ sector0' = sector0 /\ original' = original
      BY <1>6 DEF Restart
    <2>2. CopyTyped(pt') /\ Copy(pt', X)
      BY <2>1, StartCopy
    <2> QED BY <2>1, <2>2 DEF PartInv
  <1>7. CASE UNCHANGED PartitionVars
    BY <1>7 DEF PartInv, PartitionVars
  <1> QED BY <1>1, <1>2, <1>3, <1>4, <1>5, <1>6, <1>7 DEF PartitionsNext

LEMMA PartInvariant == PartitionsSpec => []PartInv
  <1>1. PartitionsInit => PartInv
    BY PartInitial
  <1>2. PartInv /\ [PartitionsNext]_PartitionVars => PartInv'
    BY PartInductive
  <1> QED BY <1>1, <1>2, PTL DEF PartitionsSpec

\* Theorem: for every disk and whatever is found on it, no sequence of part
\* commands, of failed writes and of restarts leaves a table on the disk on
\* which a partition, unless it was there from the first in a table that did
\* not fit, overlaps another or reaches past the end, provided the table found
\* was parsed whole, although the overlap check reads the parsed partitions and
\* the disk gets the entries (partition_manager_create_partition,
\* partition_write_table).
THEOREM TableCorrect == PartitionsSpec => []TableSound
  <1>1. PartInv => TableSound
    BY DEF PartInv, SectorOK, TableOK, TableSound
  <1> QED BY <1>1, PartInvariant, PTL

\* Theorem: the entries on the disk, the manager's copy and its count stay
\* within their types, whatever table was found (partition_table_t).
THEOREM PartitionsTypeCorrect == PartitionsSpec => []PartitionsTypeOK
  <1>1. PartInv => PartitionsTypeOK
    BY DEF PartInv, SectorRec, CopyTyped, Infos, InfoRec, PartitionsTypeOK
  <1> QED BY <1>1, PartInvariant, PTL
=============================================================================
