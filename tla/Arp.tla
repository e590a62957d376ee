--------------------------------- MODULE Arp ---------------------------------
(***************************************************************************)
(* arp.c, with the parts of ipv4.c and icmp.c that call it.  arp_resolve    *)
(* turns interrupts on and runs network_stack_tick itself, so that a packet *)
(* or a command can start another resolution inside it: the calls in        *)
(* progress form a stack.                                                   *)
(***************************************************************************)
EXTENDS Integers, Sequences, FiniteSets, SequencesExt, FiniteSetsExt

CONSTANTS
    Hosts,       \* local addresses; one of them is Gateway
    Gateway,     \* the next hop of every other address
    Macs,        \* hardware addresses
    CacheSize,   \* ARP_CACHE_SIZE without the two fixed entries
    MaxAge,      \* 300 seconds
    MaxClock,    \* bound: the clock
    ArpTries,    \* attempts of arp_resolve
    MaxDepth     \* bound: nested calls

ASSUME ArpAssumption ==
    /\ Gateway \in Hosts /\ CacheSize \in Nat /\ MaxAge \in Nat
    /\ MaxClock \in Nat /\ ArpTries \in Nat /\ MaxDepth \in Nat

VARIABLES
    arp,      \* arp_cache, the clock, and what was last heard of each host (history)
    waiting   \* arp_resolve calls in progress, the innermost last

ArpVars == <<arp, waiting>>

Broadcast == "ff"
Slots == 1 .. CacheSize
Free == [valid |-> FALSE, ip |-> Gateway, mac |-> Broadcast, at |-> 0, permanent |-> FALSE]

(* arp_lookup: the first entry that matches. *)
Matches(a, ip) == {i \in Slots : a.cache[i].valid /\ a.cache[i].ip = ip}
Lookup(a, ip) == IF Matches(a, ip) = {} THEN "none" ELSE a.cache[Min(Matches(a, ip))].mac

(* The slot arp_add_entry takes for a new address: the first free one, or   *)
(* the last of the oldest that are not permanent.                           *)
NewSlot(a) ==
    LET free == {i \in Slots : ~a.cache[i].valid}
        old == {i \in Slots : ~a.cache[i].permanent}
        oldest == {i \in old : \A j \in old : a.cache[i].at <= a.cache[j].at}
    IN  IF free # {} THEN {Min(free)} ELSE IF old # {} THEN {Max(oldest)} ELSE {}

Entry(ip, mac, at, permanent) ==
    [valid |-> TRUE, ip |-> ip, mac |-> mac, at |-> at, permanent |-> permanent]

(* Entry e is written to slot i. *)
Learn(a, i, e) ==
    [cache |-> [a.cache EXCEPT ![i] = e], learnt |-> [a.learnt EXCEPT ![e.ip] = e.mac], clock |-> a.clock]

AddNew(a, ip, mac) ==
    IF NewSlot(a) = {} THEN a ELSE Learn(a, Min(NewSlot(a)), Entry(ip, mac, a.clock, FALSE))

(* Fault: the table is not searched for the address first. *)
AddEntryFault(a, ip, mac) == AddNew(a, ip, mac)

(* arp_add_entry *)
AddEntry(a, ip, mac) ==
    LET i == Min(Matches(a, ip)) IN
    IF Matches(a, ip) = {} THEN AddNew(a, ip, mac)
    ELSE Learn(a, i, Entry(ip, mac, a.clock, a.cache[i].permanent))

(* The entry of an address is made permanent. *)
Fixed(a, ip) ==
    LET i == Min(Matches(a, ip)) IN
    Learn(a, i, Entry(ip, a.cache[i].mac, a.cache[i].at, TRUE))

(* arp_cleanup_old_entries *)
Expire(a) ==
    [cache |-> [i \in Slots |-> LET e == a.cache[i] IN
                  IF e.valid /\ ~e.permanent /\ a.clock - e.at > MaxAge THEN Free ELSE e],
     learnt |-> a.learnt, clock |-> a.clock]

Top == waiting[Len(waiting)]
Nestable == Len(waiting) < MaxDepth

(* ip_send_packet to a local address: the packet leaves at once, or waits   *)
(* in arp_resolve.                                                          *)
Sending(a, ip) ==
    waiting' = IF Lookup(a, ip) # "none" THEN waiting ELSE Append(waiting, [ip |-> ip, tries |-> 1])
-----------------------------------------------------------------------------
(* arp_process_packet; a request for our address is answered directly. *)
ArpPacket(ip, mac) ==
    /\ arp' = AddEntry(arp, ip, mac)
    /\ UNCHANGED waiting

(* ip_process_packet learns the hardware address of a local sender. *)
IpProcess(ip, mac, local) == IF local THEN AddEntry(arp, ip, mac) ELSE arp

(* icmp_send_reply and icmp_send_request: the gateway is the next hop of an *)
(* address that is not local.                                               *)
IcmpSend(a, ip, local) == Sending(a, IF local THEN ip ELSE Gateway)

(* icmp_process_packet answers an echo request. *)
EchoRequest(ip, mac, local) ==
    /\ Nestable
    /\ arp' = IpProcess(ip, mac, local)
    /\ IcmpSend(arp', ip, local)

(* arp_resolve, called by ping, UDP, TCP or the arp command. *)
ArpResolve(ip) ==
    /\ Nestable /\ Lookup(arp, ip) = "none"
    /\ Sending(arp, ip)
    /\ UNCHANGED arp

(* Its loop: the entry has come, a try has passed, or the last try has. *)
ArpFound ==
    /\ waiting # <<>> /\ Lookup(arp, Top.ip) # "none"
    /\ waiting' = Front(waiting)
    /\ UNCHANGED arp

ArpRetry ==
    /\ waiting # <<>> /\ Lookup(arp, Top.ip) = "none" /\ Top.tries < ArpTries
    /\ waiting' = [waiting EXCEPT ![Len(waiting)].tries = @ + 1]
    /\ UNCHANGED arp

(* On QEMU's network the gateway gets the broadcast address for good. *)
ArpGiveUp(qemu) ==
    /\ waiting # <<>> /\ Lookup(arp, Top.ip) = "none" /\ Top.tries = ArpTries
    /\ waiting' = Front(waiting)
    /\ LET a == AddEntry(arp, Gateway, Broadcast) IN
       arp' = IF qemu /\ Top.ip = Gateway /\ Matches(a, Gateway) # {} THEN Fixed(a, Gateway) ELSE arp

(* The clock, and network_stack_tick's cleanup when it is due. *)
ClockTick ==
    /\ arp.clock < MaxClock
    /\ \E due \in BOOLEAN :
          arp' = LET a == [arp EXCEPT !.clock = @ + 1] IN IF due THEN Expire(a) ELSE a
    /\ UNCHANGED waiting

ArpInit ==
    /\ arp = [cache |-> [i \in Slots |-> Free], learnt |-> [h \in Hosts |-> "none"], clock |-> 0]
    /\ waiting = <<>>

ArpNext ==
    \/ \E ip \in Hosts, mac \in Macs :
          ArpPacket(ip, mac) \/ \E local \in BOOLEAN : EchoRequest(ip, mac, local)
    \/ \E ip \in Hosts : ArpResolve(ip)
    \/ ArpFound \/ ArpRetry \/ \E qemu \in BOOLEAN : ArpGiveUp(qemu)
    \/ ClockTick

ArpSpec == ArpInit /\ [][ArpNext]_ArpVars
-----------------------------------------------------------------------------
ArpTypeOK ==
    /\ \A i \in Slots : arp.cache[i].ip \in Hosts /\ arp.cache[i].mac \in Macs \cup {Broadcast}
    /\ Len(waiting) <= MaxDepth

(* A hardware address that arp_lookup returns is the last one heard of that *)
(* host: an entry refreshed, evicted, expired or made permanent never hides *)
(* newer knowledge behind older.                                            *)
FreshMac == \A h \in Hosts : Lookup(arp, h) \in {"none", arp.learnt[h]}
=============================================================================
