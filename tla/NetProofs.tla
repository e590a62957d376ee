------------------------------ MODULE NetProofs ------------------------------
(***************************************************************************)
(* Proofs about the network: that the card is two queues and what the ARP   *)
(* cache, DNS, DHCP and TCP promise, for any number of hosts, names,        *)
(* servers, connections and descriptors.                                    *)
(***************************************************************************)
EXTENDS MCNet, Lemmas

-----------------------------------------------------------------------------
(* ARP.  The cache has one entry of an address at most, and each says what  *)
(* was heard last: only then does the first match of arp_lookup not hide a  *)
(* newer entry.                                                             *)

MacSet == Macs \cup {Broadcast, "none"}
EntryRec == [valid : BOOLEAN, ip : Hosts, mac : Macs \cup {Broadcast}, at : Nat, permanent : BOOLEAN]

ArpSound(a) ==
    /\ a \in [cache : [Slots -> EntryRec], learnt : [Hosts -> MacSet], clock : Nat]
    /\ \A i \in Slots, j \in Slots :
          a.cache[i].valid /\ a.cache[j].valid /\ a.cache[i].ip = a.cache[j].ip => i = j
    /\ \A i \in Slots : a.cache[i].valid => a.cache[i].mac = a.learnt[a.cache[i].ip]

ArpInv ==
    /\ ArpSound(arp)
    /\ waiting \in Seq([ip : Hosts, tries : Nat])
    /\ Len(waiting) <= MaxDepth

(* The first match is a match. *)
LEMMA FirstMatch ==
    ASSUME NEW a, NEW ip, Matches(a, ip) # {}
    PROVE  Min(Matches(a, ip)) \in Matches(a, ip) /\ Min(Matches(a, ip)) \in Slots
<1>1. Matches(a, ip) \subseteq Slots /\ Slots \subseteq Nat
  BY ArpAssumption DEF Matches, Slots
<1> QED BY <1>1, MinNat

(* An entry written over another of its address, or into a slot while no    *)
(* other has its address, keeps the cache sound.                            *)
LEMMA LearnLemma ==
    ASSUME NEW a, ArpSound(a), NEW i \in Slots, NEW ip \in Hosts, NEW mac \in Macs \cup {Broadcast},
           NEW at \in Nat, NEW perm \in BOOLEAN,
           \A j \in Slots \ {i} : ~(a.cache[j].valid /\ a.cache[j].ip = ip)
    PROVE  ArpSound(Learn(a, i, Entry(ip, mac, at, perm)))
<1> DEFINE e == Entry(ip, mac, at, perm)
           b == Learn(a, i, e)
           C == [a.cache EXCEPT ![i] = e]
           L == [a.learnt EXCEPT ![ip] = mac]
<1>1. e \in EntryRec /\ e.ip = ip /\ e.mac = mac /\ e.valid
  BY DEF Entry, EntryRec
<1>2. a.cache \in [Slots -> EntryRec] /\ a.learnt \in [Hosts -> MacSet] /\ a.clock \in Nat
  BY DEF ArpSound
<1> HIDE DEF e
<1>3. b = [cache |-> C, learnt |-> L, clock |-> a.clock]
  BY <1>1 DEF Learn
<1>4. C \in [Slots -> EntryRec] /\ C[i] = e /\ \A j \in Slots \ {i} : C[j] = a.cache[j]
  BY <1>1, <1>2
<1>5. L \in [Hosts -> MacSet] /\ L[ip] = mac /\ \A h \in Hosts \ {ip} : L[h] = a.learnt[h]
  BY <1>2 DEF MacSet
<1> HIDE DEF C, L
<1>6. b.cache = C /\ b.learnt = L /\ b.clock = a.clock
      /\ b \in [cache : [Slots -> EntryRec], learnt : [Hosts -> MacSet], clock : Nat]
  BY <1>2, <1>3, <1>4, <1>5
<1> HIDE DEF b
<1>7. ASSUME NEW j \in Slots, NEW k \in Slots, C[j].valid, C[k].valid, C[j].ip = C[k].ip PROVE j = k
  <2>1. CASE j = i
    BY <2>1, <1>1, <1>4, <1>7
  <2>2. CASE k = i
    BY <2>2, <1>1, <1>4, <1>7
  <2>3. CASE j # i /\ k # i
    BY <2>3, <1>4, <1>7 DEF ArpSound
  <2> QED BY <2>1, <2>2, <2>3
<1>8. ASSUME NEW j \in Slots, C[j].valid PROVE C[j].mac = L[C[j].ip]
  <2>1. CASE j = i
    BY <2>1, <1>1, <1>4, <1>5
  <2>2. CASE j # i
    <3>1. C[j] = a.cache[j] /\ a.cache[j].valid /\ a.cache[j].ip # ip
      BY <2>2, <1>4, <1>8
    <3>2. a.cache[j].ip \in Hosts
      BY <1>2 DEF EntryRec
    <3>3. a.cache[j].mac = a.learnt[a.cache[j].ip]
      BY <3>1 DEF ArpSound
    <3> QED BY <3>1, <3>2, <3>3, <1>5
  <2> QED BY <2>1, <2>2
<1> QED BY <1>6, <1>7, <1>8 DEF ArpSound, b, e

(* A slot for a new address is a slot. *)
LEMMA NewSlotLemma ==
    ASSUME NEW a, ArpSound(a), NewSlot(a) # {}
    PROVE  Min(NewSlot(a)) \in Slots
<1> DEFINE free == {i \in Slots : ~a.cache[i].valid}
           old == {i \in Slots : ~a.cache[i].permanent}
           oldest == {i \in old : \A j \in old : a.cache[i].at <= a.cache[j].at}
<1>0. Slots \subseteq Nat
  BY ArpAssumption DEF Slots
<1>1. NewSlot(a) = IF free # {} THEN {Min(free)} ELSE IF old # {} THEN {Max(oldest)} ELSE {}
  BY DEF NewSlot
<1>2. PICK x : NewSlot(a) = {x} /\ (free # {} => x = Min(free)) /\ (free = {} => old # {} /\ x = Max(oldest))
  BY <1>1
<1>3. x \in Slots
  <2>1. CASE free # {}
    BY <2>1, <1>0, <1>2, MinNat
  <2>2. CASE free = {}
    <3> DEFINE T == {a.cache[i].at : i \in old}
    <3>1. T \subseteq Nat /\ T # {}
      <4>1. \A i \in Slots : a.cache[i].at \in Nat
        BY DEF ArpSound, EntryRec
      <4>2. old # {} /\ old \subseteq Slots
        BY <2>2, <1>2
      <4> HIDE DEF old
      <4> QED BY <4>1, <4>2
    <3>2. PICK t \in T : \A u \in T : t <= u
      BY <3>1, LeastNat
    <3>3. PICK k \in old : t = a.cache[k].at
      BY <3>2
    <3>4. k \in oldest
      BY <3>2, <3>3
    <3>5. oldest \subseteq Slots /\ oldest # {}
      BY <3>4
    <3> HIDE DEF oldest
    <3>6. \A m \in oldest : m \in Nat /\ m <= CacheSize
      BY <3>5, ArpAssumption DEF Slots
    <3>7. PICK m \in oldest : \A n \in oldest : n <= m
      BY <3>5, <3>6, <1>0, ArpAssumption, GreatestNat
    <3>8. \A n \in oldest : m >= n
      BY <3>6, <3>7
    <3>9. Max(oldest) \in oldest
      BY <3>7, <3>8 DEF Max
    <3> QED BY <3>5, <3>9, <2>2, <1>2
  <2> QED BY <2>1, <2>2
<1>4. Min({x}) = x
  <2>1. Min({x}) \in {x}
    BY <1>0, <1>3, MinNat
  <2> QED BY <2>1
<1> QED BY <1>2, <1>3, <1>4

(* arp_add_entry keeps the cache sound. *)
LEMMA AddEntryLemma ==
    ASSUME NEW a, ArpSound(a), NEW ip \in Hosts, NEW mac \in Macs \cup {Broadcast}
    PROVE  ArpSound(AddEntry(a, ip, mac))
<1>0. a.clock \in Nat /\ a.cache \in [Slots -> EntryRec]
  BY DEF ArpSound
<1>1. CASE Matches(a, ip) # {}
  <2>1. PICK i \in Slots : i = Min(Matches(a, ip))
    BY <1>1, FirstMatch
  <2>2. a.cache[i].valid /\ a.cache[i].ip = ip
    <3>1. i \in Matches(a, ip)
      BY <1>1, <2>1, FirstMatch
    <3> QED BY <3>1 DEF Matches
  <2>3. \A j \in Slots \ {i} : ~(a.cache[j].valid /\ a.cache[j].ip = ip)
    BY <2>2 DEF ArpSound
  <2>4. a.cache[i].permanent \in BOOLEAN
    BY <1>0 DEF EntryRec
  <2>5. AddEntry(a, ip, mac) = Learn(a, i, Entry(ip, mac, a.clock, a.cache[i].permanent))
    BY <1>1, <2>1 DEF AddEntry
  <2> QED BY <1>0, <2>3, <2>4, <2>5, LearnLemma
<1>2. CASE Matches(a, ip) = {}
  <2>1. AddEntry(a, ip, mac) = AddNew(a, ip, mac)
    BY <1>2 DEF AddEntry
  <2>2. CASE NewSlot(a) = {}
    BY <2>1, <2>2 DEF AddNew
  <2>3. CASE NewSlot(a) # {}
    <3>1. PICK i \in Slots : i = Min(NewSlot(a))
      BY <2>3, NewSlotLemma
    <3>2. AddEntry(a, ip, mac) = Learn(a, i, Entry(ip, mac, a.clock, FALSE))
      BY <2>1, <2>3, <3>1 DEF AddNew
    <3>3. \A j \in Slots \ {i} : ~(a.cache[j].valid /\ a.cache[j].ip = ip)
      BY <1>2 DEF Matches
    <3> QED BY <1>0, <3>2, <3>3, LearnLemma
  <2> QED BY <2>2, <2>3
<1> QED BY <1>1, <1>2

(* The entry that arp_resolve makes permanent stays what it is. *)
LEMMA FixedLemma ==
    ASSUME NEW a, ArpSound(a), NEW ip \in Hosts, Matches(a, ip) # {}
    PROVE  ArpSound(Fixed(a, ip))
<1>0. a.cache \in [Slots -> EntryRec]
  BY DEF ArpSound
<1>1. PICK i \in Slots : i = Min(Matches(a, ip))
  BY FirstMatch
<1>2. a.cache[i].valid /\ a.cache[i].ip = ip
  <2>1. i \in Matches(a, ip)
    BY <1>1, FirstMatch
  <2> QED BY <2>1 DEF Matches
<1>3. \A j \in Slots \ {i} : ~(a.cache[j].valid /\ a.cache[j].ip = ip)
  BY <1>2 DEF ArpSound
<1>4. a.cache[i].mac \in Macs \cup {Broadcast} /\ a.cache[i].at \in Nat
  BY <1>0 DEF EntryRec
<1>5. Fixed(a, ip) = Learn(a, i, Entry(ip, a.cache[i].mac, a.cache[i].at, TRUE))
  BY <1>1 DEF Fixed
<1> QED BY <1>3, <1>4, <1>5, LearnLemma

(* Old entries only disappear. *)
LEMMA ExpireLemma ==
    ASSUME NEW a, ArpSound(a)
    PROVE  ArpSound(Expire(a))
<1> DEFINE C == [i \in Slots |-> LET e == a.cache[i] IN
                  IF e.valid /\ ~e.permanent /\ a.clock - e.at > MaxAge THEN Free ELSE e]
<1>0. a.cache \in [Slots -> EntryRec] /\ a.learnt \in [Hosts -> MacSet] /\ a.clock \in Nat
  BY DEF ArpSound
<1>1. Free \in EntryRec /\ Free.valid = FALSE
  BY ArpAssumption DEF Free, EntryRec
<1>2. \A i \in Slots : C[i] = Free \/ C[i] = a.cache[i]
  OBVIOUS
<1>3. C \in [Slots -> EntryRec]
  BY <1>0, <1>1
<1>4. Expire(a) = [cache |-> C, learnt |-> a.learnt, clock |-> a.clock]
  BY DEF Expire
<1> HIDE DEF C
<1>5. /\ Expire(a) \in [cache : [Slots -> EntryRec], learnt : [Hosts -> MacSet], clock : Nat]
      /\ Expire(a).cache = C /\ Expire(a).learnt = a.learnt
  BY <1>0, <1>3, <1>4
<1>6. \A i \in Slots : C[i].valid => C[i] = a.cache[i]
  BY <1>1, <1>2
<1> QED BY <1>5, <1>6 DEF ArpSound

(* The clock is no part of what the cache says. *)
LEMMA ClockLemma ==
    ASSUME NEW a, ArpSound(a)
    PROVE  ArpSound([a EXCEPT !.clock = @ + 1])
<1>1. PICK b : b = [a EXCEPT !.clock = @ + 1]
  OBVIOUS
<1>2. b.cache = a.cache /\ b.learnt = a.learnt /\ b \in [cache : [Slots -> EntryRec], learnt : [Hosts -> MacSet], clock : Nat]
  BY <1>1 DEF ArpSound
<1>3. ArpSound(b)
  BY <1>2 DEF ArpSound
<1> QED BY <1>1, <1>3

(* All but the last of a non-empty sequence. *)
LEMMA FrontLemma ==
    ASSUME NEW S, NEW q \in Seq(S), q # <<>>
    PROVE  /\ Front(q) \in Seq(S) /\ Len(Front(q)) = Len(q) - 1 /\ Len(q) \in Nat /\ Len(q) >= 1
           /\ \A i \in 1 .. Len(q) - 1 : Front(q)[i] = q[i]
<1>1. Len(q) \in Nat /\ Len(q) >= 1
  OBVIOUS
<1>2. Front(q) = SubSeq(q, 1, Len(q) - 1)
  BY DEF Front
<1>3. PICK n \in Nat : n = Len(q) - 1
  BY <1>1
<1>4. SubSeq(q, 1, n) \in Seq(S) /\ Len(SubSeq(q, 1, n)) = n /\ \A i \in 1 .. n : SubSeq(q, 1, n)[i] = q[i]
  BY <1>1, <1>3
<1> QED BY <1>1, <1>2, <1>3, <1>4

(* Every step keeps the cache sound. *)
LEMMA ArpStep == ArpInv /\ [ArpNext]_ArpVars => ArpInv'
<1> SUFFICES ASSUME ArpInv, [ArpNext]_ArpVars PROVE ArpInv'
  OBVIOUS
<1>t. /\ ArpSound(arp) /\ waiting \in Seq([ip : Hosts, tries : Nat]) /\ Len(waiting) <= MaxDepth
      /\ Len(waiting) \in Nat /\ MaxDepth \in Nat /\ Gateway \in Hosts
  BY ArpAssumption DEF ArpInv
<1>s. ASSUME NEW a, NEW ip \in Hosts, Nestable, Sending(a, ip)
      PROVE  waiting' \in Seq([ip : Hosts, tries : Nat]) /\ Len(waiting') <= MaxDepth
  <2>1. CASE waiting' = waiting
    BY <2>1, <1>t
  <2>2. CASE waiting' = Append(waiting, [ip |-> ip, tries |-> 1])
    <3>1. [ip |-> ip, tries |-> 1] \in [ip : Hosts, tries : Nat]
      OBVIOUS
    <3>2. waiting' \in Seq([ip : Hosts, tries : Nat]) /\ Len(waiting') = Len(waiting) + 1
      BY <2>2, <3>1, <1>t
    <3> QED BY <3>2, <1>s, <1>t DEF Nestable
  <2> QED BY <2>1, <2>2, <1>s DEF Sending
<1>1. ASSUME NEW ip \in Hosts, NEW mac \in Macs, ArpPacket(ip, mac) PROVE ArpInv'
  BY <1>1, <1>t, AddEntryLemma DEF ArpPacket, ArpInv
<1>2. ASSUME NEW ip \in Hosts, NEW mac \in Macs, NEW local \in BOOLEAN, EchoRequest(ip, mac, local) PROVE ArpInv'
  <2>1. ArpSound(arp')
    BY <1>2, <1>t, AddEntryLemma DEF EchoRequest, IpProcess
  <2>2. PICK hop \in Hosts : Sending(arp', hop)
    BY <1>2, <1>t DEF EchoRequest, IcmpSend
  <2> QED BY <2>1, <2>2, <1>s, <1>2 DEF EchoRequest, ArpInv
<1>3. ASSUME NEW ip \in Hosts, ArpResolve(ip) PROVE ArpInv'
  BY <1>3, <1>s, <1>t DEF ArpResolve, ArpInv
<1>f. ASSUME waiting # <<>>, waiting' = Front(waiting)
      PROVE  waiting' \in Seq([ip : Hosts, tries : Nat]) /\ Len(waiting') <= MaxDepth
  <2>1. waiting' \in Seq([ip : Hosts, tries : Nat]) /\ Len(waiting') = Len(waiting) - 1
    BY <1>f, <1>t, FrontLemma
  <2> QED BY <2>1, <1>t
<1>4. CASE ArpFound
  BY <1>4, <1>f, <1>t DEF ArpFound, ArpInv
<1>5. CASE ArpRetry
  <2>1. waiting # <<>> /\ waiting' = [waiting EXCEPT ![Len(waiting)].tries = @ + 1] /\ arp' = arp
    BY <1>5 DEF ArpRetry
  <2>2. Len(waiting) \in 1 .. Len(waiting)
    BY <2>1, <1>t
  <2>3. PICK n \in 1 .. Len(waiting) : n = Len(waiting)
    BY <2>2
  <2>4. waiting[n] \in [ip : Hosts, tries : Nat]
    <3>1. PICK W : W = [ip : Hosts, tries : Nat]
      OBVIOUS
    <3>2. waiting \in Seq(W)
      BY <3>1, <1>t
    <3>3. waiting[n] \in W
      BY <3>2
    <3> QED BY <3>1, <3>3
  <2>5. PICK w : w = [waiting[n] EXCEPT !.tries = @ + 1]
    OBVIOUS
  <2>6. w \in [ip : Hosts, tries : Nat]
    BY <2>4, <2>5
  <2>7. waiting' = [waiting EXCEPT ![n] = w]
    BY <2>1, <2>3, <2>5
  <2>8. waiting' \in Seq([ip : Hosts, tries : Nat]) /\ Len(waiting') = Len(waiting)
    BY <2>6, <2>7, <1>t
  <2> QED BY <2>1, <2>8, <1>t DEF ArpInv
<1>6. ASSUME NEW qemu \in BOOLEAN, ArpGiveUp(qemu) PROVE ArpInv'
  <2> DEFINE a == AddEntry(arp, Gateway, Broadcast)
  <2>1. ArpSound(a)
    BY <1>t, AddEntryLemma
  <2>2. arp' = arp \/ (Matches(a, Gateway) # {} /\ arp' = Fixed(a, Gateway))
    BY <1>6 DEF ArpGiveUp
  <2> HIDE DEF a
  <2>3. ArpSound(arp')
    BY <2>1, <2>2, <1>t, FixedLemma
  <2> QED BY <2>3, <1>f, <1>6 DEF ArpGiveUp, ArpInv
<1>7. CASE ClockTick
  <2>1. PICK a : a = [arp EXCEPT !.clock = @ + 1]
    OBVIOUS
  <2>2. ArpSound(a)
    BY <2>1, <1>t, ClockLemma
  <2>3. arp' = a \/ arp' = Expire(a)
    BY <1>7, <2>1 DEF ClockTick
  <2>4. ArpSound(arp')
    BY <2>2, <2>3, ExpireLemma
  <2> QED BY <2>4, <1>7, <1>t DEF ClockTick, ArpInv
<1>8. CASE UNCHANGED ArpVars
  BY <1>8 DEF ArpVars, ArpInv, ArpSound
<1> QED BY <1>1, <1>2, <1>3, <1>4, <1>5, <1>6, <1>7, <1>8 DEF ArpNext

(* Boot: the cache is empty. *)
LEMMA InitArp == ArpInit => ArpInv
<1> SUFFICES ASSUME ArpInit PROVE ArpInv
  OBVIOUS
<1>1. Free \in EntryRec /\ Free.valid = FALSE
  BY ArpAssumption DEF Free, EntryRec
<1>2. /\ arp.cache = [i \in Slots |-> Free] /\ arp.learnt = [h \in Hosts |-> "none"] /\ arp.clock = 0
      /\ arp = [cache |-> [i \in Slots |-> Free], learnt |-> [h \in Hosts |-> "none"], clock |-> 0]
  BY DEF ArpInit
<1>3. [i \in Slots |-> Free] \in [Slots -> EntryRec] /\ [h \in Hosts |-> "none"] \in [Hosts -> MacSet]
  BY <1>1 DEF MacSet
<1>4. arp \in [cache : [Slots -> EntryRec], learnt : [Hosts -> MacSet], clock : Nat]
  BY <1>2, <1>3
<1>5. \A i \in Slots : ~arp.cache[i].valid
  BY <1>1, <1>2
<1>6. ArpSound(arp)
  BY <1>4, <1>5 DEF ArpSound
<1> QED BY <1>6, ArpAssumption DEF ArpInit, ArpInv

(* A sound cache answers with what was heard last. *)
LEMMA ArpImplies == ArpInv => FreshMac /\ ArpTypeOK
<1> SUFFICES ASSUME ArpInv PROVE FreshMac /\ ArpTypeOK
  OBVIOUS
<1>1. ArpSound(arp)
  BY DEF ArpInv
<1>2. ASSUME NEW h \in Hosts PROVE Lookup(arp, h) \in {"none", arp.learnt[h]}
  <2>1. CASE Matches(arp, h) = {}
    BY <2>1 DEF Lookup
  <2>2. CASE Matches(arp, h) # {}
    <3>1. PICK i \in Slots : i = Min(Matches(arp, h)) /\ i \in Matches(arp, h)
      BY <2>2, FirstMatch
    <3>2. Lookup(arp, h) = arp.cache[i].mac
      BY <2>2, <3>1 DEF Lookup
    <3>3. arp.cache[i].valid /\ arp.cache[i].ip = h
      BY <3>1 DEF Matches
    <3> QED BY <3>2, <3>3, <1>1 DEF ArpSound
  <2> QED BY <2>1, <2>2
<1>3. ArpTypeOK
  BY <1>1 DEF ArpInv, ArpSound, EntryRec, ArpTypeOK
<1> QED BY <1>2, <1>3 DEF FreshMac

(* arp_lookup returns the hardware address heard last of a host, for any    *)
(* hosts, sizes of the cache, ages and nesting of arp_resolve (arp.c).      *)
THEOREM ArpCorrect == ArpSpec => []FreshMac
BY InitArp, ArpStep, ArpImplies, PTL DEF ArpSpec

-----------------------------------------------------------------------------
(* DNS.  A resolution that no other began inside is the one the shared      *)
(* variables belong to: its number is dns_pending_id, no other has it, and  *)
(* every answer with that number, under way or received, is to its name.    *)

QueryRec == [name : Names, id : Nat, tries : Nat, nested : BOOLEAN]

DnsTyped ==
    /\ dns \in [pending : Nat, received : BOOLEAN, resolved : Names \cup {"none"}, queries : Nat]
    /\ dns.pending = dns.queries /\ dns.queries <= MaxQueries
    /\ asking \in Seq(QueryRec) /\ Len(asking) <= MaxNested
    /\ replies \subseteq [id : Nat, name : Names]

OwnQuery(q) ==
    ~q.nested => /\ q.id = dns.pending
                 /\ dns.received => dns.resolved = q.name
                 /\ \A r \in replies : r.id = dns.pending => r.name = q.name

DnsInv ==
    /\ DnsTyped
    /\ \A i \in 1 .. Len(asking) : asking[i].id <= dns.queries
    /\ \A i \in 1 .. Len(asking), j \in 1 .. Len(asking) : asking[i].id = asking[j].id => i = j
    /\ \A r \in replies : r.id <= dns.queries
    /\ \A i \in 1 .. Len(asking) : OwnQuery(asking[i])
    /\ OwnAnswer

(* Boot: nobody asks. *)
LEMMA InitDns == DnsInit => DnsInv
BY DnsAssumption DEF DnsInit, DnsInv, DnsTyped, OwnAnswer

(* The calls in progress are records. *)
LEMMA AskingTyped ==
    ASSUME DnsTyped, NEW i \in 1 .. Len(asking)
    PROVE  asking[i] \in QueryRec
BY DEF DnsTyped

(* A resolution ends: those left are among those there were. *)
LEMMA DnsEnds ==
    ASSUME DnsInv, asking # <<>>, asking' = Front(asking), UNCHANGED <<dns, replies>>, OwnAnswer'
    PROVE  DnsInv'
<1>t. DnsTyped
  BY DEF DnsInv
<1>1. /\ asking' \in Seq(QueryRec) /\ Len(asking') = Len(asking) - 1 /\ Len(asking) \in Nat
      /\ \A i \in 1 .. Len(asking) - 1 : asking'[i] = asking[i]
  BY <1>t, FrontLemma DEF DnsTyped
<1>2. \A i \in 1 .. Len(asking') : i \in 1 .. Len(asking) /\ asking'[i] = asking[i]
  BY <1>1
<1>3. DnsTyped'
  <2>1. Len(asking') <= MaxNested
    BY <1>1, <1>t, DnsAssumption DEF DnsTyped
  <2> QED BY <1>1, <2>1, <1>t DEF DnsTyped
<1>4. \A q : OwnQuery(q) => OwnQuery(q)'
  BY DEF OwnQuery
<1>6. \A i \in 1 .. Len(asking') : OwnQuery(asking[i])'
  BY <1>2, <1>4 DEF DnsInv
<1>7. \A i \in 1 .. Len(asking') : asking'[i].id <= dns'.queries
  BY <1>2 DEF DnsInv
<1>8. \A i \in 1 .. Len(asking'), j \in 1 .. Len(asking') : asking'[i].id = asking'[j].id => i = j
  BY <1>2 DEF DnsInv
<1> QED BY <1>3, <1>6, <1>7, <1>8 DEF DnsInv

(* Every step. *)
LEMMA DnsStep == DnsInv /\ [DnsNext]_DnsVars => DnsInv'
<1> SUFFICES ASSUME DnsInv, [DnsNext]_DnsVars PROVE DnsInv'
  OBVIOUS
<1>t. DnsTyped
  BY DEF DnsInv
<1>n. /\ Len(asking) \in Nat /\ dns.queries \in Nat /\ dns.pending \in Nat
      /\ MaxNested \in Nat /\ MaxQueries \in Nat
  BY <1>t, DnsAssumption DEF DnsTyped
<1>1. ASSUME NEW name \in Names, DnsResolve(name) PROVE DnsInv'
  <2> DEFINE n == Len(asking)
             id == dns.queries + 1
             q == Query(name, id)
             old == [i \in 1 .. n |-> [asking[i] EXCEPT !.nested = TRUE]]
  <2>1. /\ n < MaxNested /\ dns.queries < MaxQueries
        /\ dns' = [dns EXCEPT !.queries = id, !.pending = id, !.received = FALSE]
        /\ asking' = Append(old, q) /\ replies' = replies /\ result' = result
    BY <1>1 DEF DnsResolve
  <2>2. id \in Nat /\ id <= MaxQueries /\ dns.queries < id
    BY <1>n, <2>1
  <2>3. q \in QueryRec /\ q.id = id /\ q.name = name /\ ~q.nested
    BY <2>2 DEF Query, QueryRec
  <2>4. \A i \in 1 .. n : [asking[i] EXCEPT !.nested = TRUE] \in QueryRec
    BY <1>t, AskingTyped DEF QueryRec
  <2>5. old \in Seq(QueryRec) /\ Len(old) = n
    <3>1. \A i \in 1 .. n : old[i] \in QueryRec
      BY <2>4
    <3> QED BY <2>4, <1>n, IsASeq
  <2>6. \A i \in 1 .. n : old[i].nested /\ old[i].id = asking[i].id
    BY <1>t, AskingTyped DEF QueryRec
  <2> HIDE DEF old, q
  <2>7. /\ asking' \in Seq(QueryRec) /\ Len(asking') = n + 1
        /\ asking'[n + 1] = q /\ \A i \in 1 .. n : asking'[i] = old[i]
    BY <2>1, <2>3, <2>5
  <2> HIDE DEF n, id
  <2>d. n \in Nat
    BY <1>n DEF n
  <2>8. dns'.queries = id /\ dns'.pending = id /\ dns'.received = FALSE
    BY <2>1, <1>t DEF DnsTyped
  <2>9. dns' \in [pending : Nat, received : BOOLEAN, resolved : Names \cup {"none"}, queries : Nat]
    BY <2>1, <2>2, <1>t DEF DnsTyped
  <2>10. DnsTyped'
    <3>1. Len(asking') <= MaxNested
      BY <2>1, <2>7, <2>d, <1>n
    <3> QED BY <3>1, <2>1, <2>2, <2>7, <2>8, <2>9, <1>t DEF DnsTyped
  <2>11. \A i \in 1 .. n : old[i].id \in Nat /\ old[i].id < id
    <3> SUFFICES ASSUME NEW i \in 1 .. n PROVE old[i].id \in Nat /\ old[i].id < id
      OBVIOUS
    <3>1. asking[i].id \in Nat /\ asking[i].id <= dns.queries
      BY <1>t, AskingTyped DEF QueryRec, DnsInv, n
    <3> QED BY <3>1, <2>2, <2>6, <1>n
  <2>12. \A i \in 1 .. Len(asking') : i \in 1 .. n \/ i = n + 1
    BY <2>7, <2>d
  <2>13. \A i \in 1 .. Len(asking') : asking'[i].id <= dns'.queries
    BY <2>2, <2>3, <2>7, <2>8, <2>11, <2>12
  <2>14. ASSUME NEW i \in 1 .. Len(asking'), NEW j \in 1 .. Len(asking'), asking'[i].id = asking'[j].id PROVE i = j
    <3>1. CASE i = n + 1 /\ j \in 1 .. n
      BY <3>1, <2>2, <2>3, <2>7, <2>11, <2>14
    <3>2. CASE i \in 1 .. n /\ j = n + 1
      BY <3>2, <2>2, <2>3, <2>7, <2>11, <2>14
    <3>3. CASE i \in 1 .. n /\ j \in 1 .. n
      BY <3>3, <2>6, <2>7, <2>14 DEF DnsInv, n
    <3> QED BY <3>1, <3>2, <3>3, <2>12
  <2>15. \A r \in replies : r.id \in Nat /\ r.id < id
    <3> SUFFICES ASSUME NEW r \in replies PROVE r.id \in Nat /\ r.id < id
      OBVIOUS
    <3>1. r.id \in Nat /\ r.id <= dns.queries
      BY <1>t DEF DnsTyped, DnsInv
    <3> QED BY <3>1, <2>2, <1>n
  <2>16. \A r \in replies' : r.id <= dns'.queries
    BY <2>1, <2>2, <2>8, <2>15
  <2>17. \A i \in 1 .. Len(asking') : OwnQuery(asking[i])'
    <3> SUFFICES ASSUME NEW i \in 1 .. Len(asking') PROVE OwnQuery(asking[i])'
      OBVIOUS
    <3>1. CASE i \in 1 .. n
      BY <3>1, <2>6, <2>7 DEF OwnQuery
    <3>2. CASE i = n + 1
      <4>1. asking'[i] = q /\ q.id = dns'.pending /\ ~dns'.received
        BY <3>2, <2>3, <2>7, <2>8
      <4>2. \A r \in replies' : r.id # dns'.pending
        BY <2>1, <2>2, <2>8, <2>15
      <4> QED BY <4>1, <4>2 DEF OwnQuery
    <3> QED BY <3>1, <3>2, <2>12
  <2>18. OwnAnswer'
    BY <2>1 DEF DnsInv, OwnAnswer
  <2> QED BY <2>10, <2>13, <2>14, <2>16, <2>17, <2>18 DEF DnsInv
<1>2. CASE DnsServer
  <2>1. PICK i \in 1 .. Len(asking) : replies' = replies \cup {[id |-> asking[i].id, name |-> asking[i].name]}
    BY <1>2 DEF DnsServer
  <2>2. dns' = dns /\ asking' = asking /\ result' = result
    BY <1>2 DEF DnsServer
  <2>3. PICK x : x = [id |-> asking[i].id, name |-> asking[i].name]
    OBVIOUS
  <2>4. x.id = asking[i].id /\ x.name = asking[i].name /\ replies' = replies \cup {x}
    BY <2>1, <2>3
  <2>5. x \in [id : Nat, name : Names]
    BY <2>3, <1>t, AskingTyped DEF QueryRec
  <2>6. DnsTyped'
    BY <2>2, <2>4, <2>5, <1>t DEF DnsTyped
  <2>7. \A r \in replies' : r.id <= dns'.queries
    BY <2>2, <2>4 DEF DnsInv
  <2>8. ASSUME NEW j \in 1 .. Len(asking') PROVE OwnQuery(asking[j])'
    <3>1. j \in 1 .. Len(asking) /\ OwnQuery(asking[j])
      BY <2>2 DEF DnsInv
    <3>2. ~asking[j].nested /\ x.id = dns.pending => x.name = asking[j].name
      BY <3>1, <2>4 DEF OwnQuery, DnsInv
    <3> QED BY <3>1, <3>2, <2>2, <2>4 DEF OwnQuery
  <2> QED BY <2>2, <2>6, <2>7, <2>8 DEF DnsInv, OwnAnswer
<1>3. ASSUME NEW r \in replies, NEW ok \in BOOLEAN, DnsHandler(r, ok) PROVE DnsInv'
  <2>1. replies' \subseteq replies /\ asking' = asking /\ result' = result
    BY <1>3 DEF DnsHandler
  <2>2. dns' = dns \/ (r.id = dns.pending /\ dns' = [dns EXCEPT !.received = TRUE, !.resolved = r.name])
    BY <1>3 DEF DnsHandler
  <2>3. r.name \in Names
    BY <1>t DEF DnsTyped
  <2>4. /\ dns' \in [pending : Nat, received : BOOLEAN, resolved : Names \cup {"none"}, queries : Nat]
        /\ dns'.pending = dns.pending /\ dns'.queries = dns.queries
    <3>1. CASE dns' = dns
      BY <3>1, <1>t DEF DnsTyped
    <3>2. CASE dns' = [dns EXCEPT !.received = TRUE, !.resolved = r.name]
      BY <3>2, <2>3, <1>t DEF DnsTyped
    <3> QED BY <3>1, <3>2, <2>2
  <2>5. dns' = dns \/ (r.id = dns.pending /\ dns'.resolved = r.name)
    BY <2>2, <1>t DEF DnsTyped
  <2>6. DnsTyped'
    BY <2>1, <2>4, <1>t DEF DnsTyped
  <2>7. ASSUME NEW j \in 1 .. Len(asking') PROVE OwnQuery(asking[j])'
    <3>1. j \in 1 .. Len(asking) /\ OwnQuery(asking[j]) /\ asking'[j] = asking[j]
      BY <2>1 DEF DnsInv
    <3> QED BY <3>1, <2>1, <2>4, <2>5 DEF OwnQuery
  <2> QED BY <2>1, <2>4, <2>6, <2>7 DEF DnsInv, OwnAnswer
<1>4. CASE DnsReturn
  <2>1. /\ asking # <<>> /\ dns.received /\ asking' = Front(asking) /\ UNCHANGED <<dns, replies>>
        /\ result' = [asked |-> Inner.name, got |-> dns.resolved, nested |-> Inner.nested]
    BY <1>4 DEF DnsReturn
  <2>2. Len(asking) \in 1 .. Len(asking)
    BY <2>1, <1>t DEF DnsTyped
  <2>3. OwnQuery(Inner)
    BY <2>2 DEF DnsInv, Inner
  <2>4. OwnAnswer'
    BY <2>1, <2>3 DEF OwnQuery, OwnAnswer
  <2> QED BY <2>1, <2>4, DnsEnds
<1>5. CASE DnsRetry
  <2>1. /\ asking # <<>> /\ asking' = [asking EXCEPT ![Len(asking)].tries = @ + 1]
        /\ UNCHANGED <<dns, replies, result>>
    BY <1>5 DEF DnsRetry
  <2>2. PICK n \in 1 .. Len(asking) : n = Len(asking)
    BY <2>1, <1>t DEF DnsTyped
  <2>3. PICK w : w = [asking[n] EXCEPT !.tries = @ + 1]
    OBVIOUS
  <2>4. w \in QueryRec /\ w.id = asking[n].id /\ w.name = asking[n].name /\ w.nested = asking[n].nested
    BY <2>3, <1>t, AskingTyped DEF QueryRec
  <2>5. asking' = [asking EXCEPT ![n] = w]
    BY <2>1, <2>2, <2>3
  <2>6. asking' \in Seq(QueryRec) /\ Len(asking') = Len(asking)
    BY <2>4, <2>5, <1>t DEF DnsTyped
  <2>7. \A i \in 1 .. Len(asking) : /\ asking'[i].id = asking[i].id /\ asking'[i].name = asking[i].name
                                    /\ asking'[i].nested = asking[i].nested
    BY <2>4, <2>5, <1>t DEF DnsTyped
  <2>8. DnsTyped'
    BY <2>1, <2>6, <1>t DEF DnsTyped
  <2>9. ASSUME NEW j \in 1 .. Len(asking') PROVE OwnQuery(asking[j])'
    <3>1. j \in 1 .. Len(asking) /\ OwnQuery(asking[j])
      BY <2>6 DEF DnsInv
    <3> QED BY <3>1, <2>1, <2>7 DEF OwnQuery
  <2>10. \A j \in 1 .. Len(asking') : asking'[j].id <= dns'.queries
    BY <2>1, <2>6, <2>7 DEF DnsInv
  <2>11. \A i \in 1 .. Len(asking'), j \in 1 .. Len(asking') : asking'[i].id = asking'[j].id => i = j
    BY <2>6, <2>7 DEF DnsInv
  <2>12. (\A r \in replies' : r.id <= dns'.queries) /\ OwnAnswer'
    BY <2>1 DEF DnsInv, OwnAnswer
  <2> QED BY <2>8, <2>9, <2>10, <2>11, <2>12 DEF DnsInv
<1>6. CASE DnsFail
  <2>1. asking # <<>> /\ asking' = Front(asking) /\ UNCHANGED <<dns, replies, result>>
    BY <1>6 DEF DnsFail
  <2>2. OwnAnswer'
    BY <2>1 DEF DnsInv, OwnAnswer
  <2> QED BY <2>1, <2>2, DnsEnds
<1>7. CASE UNCHANGED DnsVars
  BY <1>7 DEF DnsVars, DnsInv, DnsTyped, OwnQuery, OwnAnswer
<1> QED BY <1>1, <1>2, <1>3, <1>4, <1>5, <1>6, <1>7 DEF DnsNext

(* dns_resolve returns the address of the name it was asked for, for any    *)
(* names, numbers of queries and nesting, whatever answers come late or     *)
(* twice (dns.c).                                                           *)
THEOREM DnsCorrect == DnsSpec => []OwnAnswer
<1>1. DnsInv => OwnAnswer
  BY DEF DnsInv
<1> QED BY <1>1, InitDns, DnsStep, PTL DEF DnsSpec

-----------------------------------------------------------------------------
(* DHCP.  Within one exchange the machine requests one address only, the    *)
(* one it was offered first; so an acknowledgment of that exchange is one   *)
(* of that address, by its server.                                          *)

DhcpRec == [state : {"IDLE", "DISCOVER", "REQUEST", "BOUND", "FAILED"}, xid : Nat, retries : Nat,
            offered : Servers \cup {Null}, server : Servers \cup {Null}, gateway : Servers \cup {Null}]
ConfigRec == [ip : Servers \cup {Null, Default, Static}, gateway : Servers \cup {Null, Default, Static},
              mode : {"down", "dhcp", "static"}]
AskRec == [type : {"DISCOVER", "REQUEST"}, xid : Nat, addr : Servers \cup {Null},
           server : Servers \cup {Null}]
MailRec == [type : {"OFFER", "ACK", "NAK"}, xid : Nat, addr : Servers, server : Servers]

ConfigTyped ==
    /\ dhcp \in DhcpRec /\ config \in ConfigRec
    /\ asked \subseteq AskRec /\ mail \subseteq MailRec
    /\ dhcp.retries <= MaxRetries + 1
    /\ dhcp.state \in {"DISCOVER", "REQUEST"} => dhcp.retries <= MaxRetries

(* Offered in the exchange xid, and no longer waiting for an offer. *)
Offered(xid, addr) == xid = dhcp.xid => dhcp.state \in {"REQUEST", "BOUND", "FAILED"} /\ addr = dhcp.offered

AskedRight(q) == q.xid <= dhcp.xid /\ (q.type = "REQUEST" => Offered(q.xid, q.addr))
MailRight(m) ==
    /\ m.xid <= dhcp.xid /\ m.addr = m.server
    /\ m.type = "ACK" => Offered(m.xid, m.addr) /\ <<m.xid, m.addr>> \in leased

ConfigInv ==
    /\ ConfigTyped
    /\ \A q \in asked : AskedRight(q)
    /\ \A m \in mail : MailRight(m)
    /\ BoundIsLeased

(* Boot. *)
LEMMA InitConfig == NetConfigInit => ConfigInv
<1> SUFFICES ASSUME NetConfigInit PROVE ConfigInv
  OBVIOUS
<1>1. dhcp.state = "IDLE" /\ dhcp.retries = 0 /\ config.mode = "down"
  BY DEF NetConfigInit
<1>2. dhcp \in DhcpRec /\ config \in ConfigRec
  BY DEF NetConfigInit, DhcpRec, ConfigRec
<1>3. ConfigTyped
  BY <1>1, <1>2, NetConfigAssumption DEF NetConfigInit, ConfigTyped
<1> QED BY <1>1, <1>3 DEF NetConfigInit, ConfigInv, BoundIsLeased

(* What a request adds. *)
LEMMA SendDhcpLemma ==
    ASSUME NEW msg, SendDhcp(msg)
    PROVE  \A q \in asked' : q \in asked \/ q = msg
BY DEF SendDhcp

(* A new exchange begins: nothing asked or answered before belongs to it. *)
LEMMA ExchangeStep ==
    ASSUME ConfigInv, SetAddress(Null, Null, "dhcp"),
           dhcp' = [dhcp EXCEPT !.state = "DISCOVER", !.xid = @ + 1, !.retries = 0],
           SendDhcp(Discover(dhcp.xid + 1)), mail' = mail, leased' = leased
    PROVE  ConfigInv'
<1>t. ConfigTyped
  BY DEF ConfigInv
<1>0. dhcp.xid \in Nat
  BY <1>t DEF ConfigTyped, DhcpRec
<1>1. dhcp'.state = "DISCOVER" /\ dhcp'.xid = dhcp.xid + 1 /\ dhcp'.retries = 0
  BY <1>t DEF ConfigTyped, DhcpRec
<1>2. dhcp' \in DhcpRec
  <2>1. PICK n \in Nat : n = dhcp.xid + 1
    BY <1>0
  <2>2. PICK z \in Nat : z = 0
    OBVIOUS
  <2>3. dhcp' = [dhcp EXCEPT !.state = "DISCOVER", !.xid = n, !.retries = z]
    BY <2>1, <2>2
  <2> QED BY <2>3, <1>t DEF ConfigTyped, DhcpRec
<1>3. config' \in ConfigRec /\ config'.ip = Null
  BY DEF SetAddress, ConfigRec
<1>4. PICK d : d = Discover(dhcp.xid + 1)
  OBVIOUS
<1>5. d \in AskRec /\ d.type = "DISCOVER" /\ d.xid = dhcp.xid + 1
  BY <1>0, <1>4 DEF Discover, AskRec
<1>6. \A q \in asked' : q \in asked \/ q = d
  BY <1>4, SendDhcpLemma
<1>7. ConfigTyped'
  BY <1>1, <1>2, <1>3, <1>5, <1>6, <1>t, NetConfigAssumption DEF ConfigTyped
<1>8. ASSUME NEW q \in asked' PROVE AskedRight(q)'
  <2>1. CASE q \in asked
    <3>1. q.xid \in Nat /\ q.xid <= dhcp.xid
      BY <2>1, <1>t DEF ConfigTyped, AskRec, ConfigInv, AskedRight
    <3>2. q.xid <= dhcp'.xid /\ q.xid # dhcp'.xid
      BY <3>1, <1>0, <1>1
    <3> QED BY <3>2 DEF AskedRight, Offered
  <2>2. CASE q = d
    BY <2>2, <1>0, <1>1, <1>5 DEF AskedRight, Offered
  <2> QED BY <2>1, <2>2, <1>6
<1>9. ASSUME NEW m \in mail' PROVE MailRight(m)'
  <2>1. MailRight(m) /\ m.xid \in Nat
    BY <1>t DEF ConfigTyped, MailRec, ConfigInv
  <2>2. m.xid <= dhcp'.xid /\ m.xid # dhcp'.xid
    BY <2>1, <1>0, <1>1 DEF MailRight
  <2> QED BY <2>1, <2>2 DEF MailRight, Offered
<1>10. BoundIsLeased'
  BY <1>3 DEF BoundIsLeased
<1> QED BY <1>7, <1>8, <1>9, <1>10 DEF ConfigInv

(* Every step. *)
LEMMA ConfigStep == ConfigInv /\ [NetConfigNext]_ConfigVars => ConfigInv'
<1> SUFFICES ASSUME ConfigInv, [NetConfigNext]_ConfigVars PROVE ConfigInv'
  OBVIOUS
<1>t. ConfigTyped
  BY DEF ConfigInv
<1>0. dhcp.xid \in Nat /\ dhcp.retries \in Nat /\ MaxRetries \in Nat /\ dhcp \in DhcpRec
  BY <1>t, NetConfigAssumption DEF ConfigTyped, DhcpRec
<1>1. CASE StackInit
  BY <1>1, ExchangeStep DEF StackInit
<1>2. CASE DhcpRequest
  BY <1>2, ExchangeStep DEF DhcpRequest
<1>3. CASE SetStaticIp
  <2>1. config' \in ConfigRec /\ config'.mode = "static"
    BY <1>3 DEF SetStaticIp, SetAddress, ConfigRec
  <2>2. ConfigTyped' /\ BoundIsLeased'
    BY <2>1, <1>3, <1>t DEF SetStaticIp, ConfigTyped, BoundIsLeased
  <2> QED BY <2>2, <1>3 DEF SetStaticIp, ConfigInv, AskedRight, MailRight, Offered
<1>4. CASE Deliver
  <2>1. PICK m \in mail : HandlePacket(m)
    BY <1>4 DEF Deliver
  <2>2. mail' \subseteq mail
    BY <1>4 DEF Deliver
  <2>3. MailRight(m) /\ m \in MailRec
    BY <1>t DEF ConfigInv, ConfigTyped
  <2>m. m.xid \in Nat /\ m.addr \in Servers /\ m.server \in Servers
    BY <2>3 DEF MailRec
  <2> DEFINE learnt == [dhcp EXCEPT !.server = m.server, !.gateway = m.server]
  <2>l. /\ learnt \in DhcpRec /\ learnt.state = dhcp.state /\ learnt.xid = dhcp.xid
        /\ learnt.retries = dhcp.retries /\ learnt.offered = dhcp.offered
    BY <2>m, <1>0 DEF DhcpRec
  <2> HIDE DEF learnt
  <2>4. CASE UNCHANGED <<dhcp, config, asked, leased>>
    BY <2>2, <2>4, <1>t DEF ConfigInv, ConfigTyped, AskedRight, MailRight, Offered, BoundIsLeased
  <2>5. CASE /\ m.xid = dhcp.xid /\ m.type = "OFFER" /\ dhcp.state = "DISCOVER"
             /\ dhcp' = [learnt EXCEPT !.state = "REQUEST", !.offered = m.addr]
             /\ SendDhcp(Request(dhcp.xid, m.addr, m.server))
             /\ UNCHANGED <<config, leased>>
    <3>1. dhcp' \in DhcpRec
      BY <2>5, <2>l, <2>m DEF DhcpRec
    <3>2. dhcp'.state = "REQUEST" /\ dhcp'.offered = m.addr /\ dhcp'.xid = dhcp.xid /\ dhcp'.retries = dhcp.retries
      BY <2>5, <2>l DEF DhcpRec
    <3>3. PICK q0 : q0 = Request(dhcp.xid, m.addr, m.server)
      OBVIOUS
    <3>4. q0 \in AskRec /\ q0.type = "REQUEST" /\ q0.xid = dhcp.xid /\ q0.addr = m.addr
      BY <3>3, <2>m, <1>0 DEF Request, AskRec
    <3>5. \A q \in asked' : q \in asked \/ q = q0
      BY <3>3, <2>5, SendDhcpLemma
    <3>6. ConfigTyped'
      BY <3>1, <3>2, <3>4, <3>5, <2>2, <2>5, <1>t DEF ConfigTyped
    <3>7. ASSUME NEW q \in asked' PROVE AskedRight(q)'
      <4>1. CASE q \in asked
        <5>1. AskedRight(q)
          BY <4>1 DEF ConfigInv
        <5> QED BY <5>1, <3>2, <2>5 DEF AskedRight, Offered
      <4>2. CASE q = q0
        BY <4>2, <3>2, <3>4, <1>0 DEF AskedRight, Offered
      <4> QED BY <4>1, <4>2, <3>5
    <3>8. ASSUME NEW x \in mail' PROVE MailRight(x)'
      <4>1. MailRight(x)
        BY <2>2 DEF ConfigInv
      <4> QED BY <4>1, <3>2, <2>5 DEF MailRight, Offered
    <3>9. BoundIsLeased'
      BY <2>5 DEF ConfigInv, BoundIsLeased
    <3> QED BY <3>6, <3>7, <3>8, <3>9 DEF ConfigInv
  <2>6. CASE /\ m.xid = dhcp.xid /\ m.type = "ACK" /\ dhcp.state = "REQUEST"
             /\ dhcp' = [learnt EXCEPT !.state = "BOUND"]
             /\ SetAddress(dhcp.offered, m.server, "dhcp")
             /\ UNCHANGED <<asked, leased>>
    <3>1. dhcp' \in DhcpRec
      BY <2>6, <2>l DEF DhcpRec
    <3>2. dhcp'.state = "BOUND" /\ dhcp'.offered = dhcp.offered /\ dhcp'.xid = dhcp.xid /\ dhcp'.retries = dhcp.retries
      BY <2>6, <2>l DEF DhcpRec
    <3>3. config'.ip = dhcp.offered /\ config'.gateway = m.server /\ config' \in ConfigRec
      BY <2>6, <2>m, <1>0 DEF SetAddress, ConfigRec, DhcpRec
    <3>4. m.addr = dhcp.offered /\ m.server = m.addr /\ <<dhcp.xid, m.addr>> \in leased
      BY <2>3, <2>6 DEF MailRight, Offered
    <3>5. ConfigTyped'
      BY <3>1, <3>2, <3>3, <2>2, <2>6, <1>t DEF ConfigTyped
    <3>6. \A q \in asked' : AskedRight(q)'
      BY <3>2, <2>6 DEF ConfigInv, AskedRight, Offered
    <3>7. \A x \in mail' : MailRight(x)'
      BY <3>2, <2>2, <2>6 DEF ConfigInv, MailRight, Offered
    <3>8. BoundIsLeased'
      BY <3>2, <3>3, <3>4, <2>6 DEF BoundIsLeased
    <3> QED BY <3>5, <3>6, <3>7, <3>8 DEF ConfigInv
  <2>7. CASE dhcp' = learnt /\ UNCHANGED <<config, asked, leased>>
    <3>1. ConfigTyped'
      BY <2>2, <2>7, <2>l, <1>t DEF ConfigTyped
    <3>2. \A q \in asked' : AskedRight(q)'
      BY <2>7, <2>l DEF ConfigInv, AskedRight, Offered
    <3>3. \A x \in mail' : MailRight(x)'
      BY <2>2, <2>7, <2>l DEF ConfigInv, MailRight, Offered
    <3>4. BoundIsLeased'
      BY <2>7, <2>l DEF ConfigInv, BoundIsLeased
    <3> QED BY <3>1, <3>2, <3>3, <3>4 DEF ConfigInv
  <2> QED BY <2>1, <2>4, <2>5, <2>6, <2>7 DEF HandlePacket, learnt
<1>5. CASE Lost
  BY <1>5, <1>t DEF Lost, ConfigInv, ConfigTyped, AskedRight, MailRight, Offered, BoundIsLeased
<1>6. CASE DhcpTick
  <2>0. dhcp.state \in {"DISCOVER", "REQUEST"} /\ UNCHANGED <<config, mail, leased>> /\ dhcp.retries <= MaxRetries
    BY <1>6, <1>t DEF DhcpTick, ConfigTyped
  <2>1. CASE dhcp.retries = MaxRetries
    <3>1. dhcp' = [dhcp EXCEPT !.retries = @ + 1, !.state = "FAILED"] /\ asked' = asked
      BY <1>6, <2>1 DEF DhcpTick
    <3>2. dhcp' \in DhcpRec
      <4>1. PICK n \in Nat : n = dhcp.retries + 1
        BY <1>0
      <4>2. dhcp' = [dhcp EXCEPT !.retries = n, !.state = "FAILED"]
        BY <4>1, <3>1
      <4> QED BY <4>2, <1>0 DEF DhcpRec
    <3>3. /\ dhcp'.state = "FAILED" /\ dhcp'.retries = dhcp.retries + 1
          /\ dhcp'.xid = dhcp.xid /\ dhcp'.offered = dhcp.offered
      BY <3>1, <1>0 DEF DhcpRec
    <3>4. ConfigTyped'
      BY <3>1, <3>2, <3>3, <2>0, <2>1, <1>0, <1>t DEF ConfigTyped
    <3>5. \A q \in asked' : AskedRight(q)'
      BY <3>1, <3>3, <2>0 DEF ConfigInv, AskedRight, Offered
    <3>6. \A m \in mail' : MailRight(m)'
      BY <3>3, <2>0 DEF ConfigInv, MailRight, Offered
    <3>7. BoundIsLeased'
      BY <3>3, <2>0 DEF ConfigInv, BoundIsLeased
    <3> QED BY <3>4, <3>5, <3>6, <3>7 DEF ConfigInv
  <2>2. CASE dhcp.retries # MaxRetries
    <3>1. dhcp' = [dhcp EXCEPT !.retries = @ + 1]
      BY <1>6, <2>2 DEF DhcpTick
    <3>2. dhcp' \in DhcpRec
      BY <3>1, <1>0 DEF DhcpRec
    <3>3. /\ dhcp'.state = dhcp.state /\ dhcp'.retries = dhcp.retries + 1
          /\ dhcp'.xid = dhcp.xid /\ dhcp'.offered = dhcp.offered
      BY <3>1, <1>0 DEF DhcpRec
    <3>4. PICK q0 : /\ q0 = IF dhcp.state = "DISCOVER" THEN Discover(dhcp.xid)
                            ELSE Request(dhcp.xid, dhcp.offered, dhcp.server)
                    /\ SendDhcp(q0)
      BY <1>6, <2>2 DEF DhcpTick
    <3>5. /\ q0 \in AskRec /\ q0.xid = dhcp.xid
          /\ q0.type = "REQUEST" => dhcp.state = "REQUEST" /\ q0.addr = dhcp.offered
      BY <3>4, <2>0, <1>0 DEF Discover, Request, AskRec, DhcpRec
    <3>6. \A q \in asked' : q \in asked \/ q = q0
      BY <3>4, SendDhcpLemma
    <3>7. dhcp'.retries <= MaxRetries /\ dhcp'.retries <= MaxRetries + 1
      BY <3>3, <2>0, <2>2, <1>0
    <3>8. ConfigTyped'
      BY <3>2, <3>5, <3>6, <3>7, <2>0, <1>t DEF ConfigTyped
    <3>9. ASSUME NEW q \in asked' PROVE AskedRight(q)'
      <4>1. CASE q \in asked
        BY <4>1, <3>3 DEF ConfigInv, AskedRight, Offered
      <4>2. CASE q = q0
        BY <4>2, <3>3, <3>5, <1>0 DEF AskedRight, Offered
      <4> QED BY <4>1, <4>2, <3>6
    <3>10. \A m \in mail' : MailRight(m)'
      BY <3>3, <2>0 DEF ConfigInv, MailRight, Offered
    <3>11. BoundIsLeased'
      BY <3>3, <2>0 DEF ConfigInv, BoundIsLeased
    <3> QED BY <3>8, <3>9, <3>10, <3>11 DEF ConfigInv
  <2> QED BY <2>1, <2>2
<1>7. ASSUME NEW s \in Servers, ServerAnswers(s) PROVE ConfigInv'
  <2>1. UNCHANGED <<dhcp, config, asked>>
    BY <1>7 DEF ServerAnswers
  <2>2. PICK q \in asked :
          /\ q.type = "DISCOVER" \/ q.server = s
          /\ mail' = mail \cup {ServerReply(s, q)}
          /\ leased' = IF ServerReply(s, q).type = "ACK" THEN leased \cup {<<q.xid, s>>} ELSE leased
    BY <1>7 DEF ServerAnswers
  <2>3. PICK m : m = ServerReply(s, q)
    OBVIOUS
  <2>4. q \in AskRec /\ AskedRight(q)
    BY <1>t DEF ConfigTyped, ConfigInv
  <2>5. /\ m \in MailRec /\ m.xid = q.xid /\ m.addr = s /\ m.server = s
        /\ m.type = "ACK" => q.type = "REQUEST" /\ q.addr = s
    BY <2>3, <2>4 DEF ServerReply, MailRec, AskRec
  <2>6. mail' = mail \cup {m} /\ leased \subseteq leased' /\ (m.type = "ACK" => <<m.xid, s>> \in leased')
    BY <2>2, <2>3, <2>5
  <2>7. ConfigTyped'
    BY <2>1, <2>5, <2>6, <1>t DEF ConfigTyped
  <2>8. MailRight(m)'
    BY <2>1, <2>4, <2>5, <2>6 DEF MailRight, AskedRight, Offered
  <2>9. ASSUME NEW x \in mail PROVE MailRight(x)'
    BY <2>1, <2>6 DEF ConfigInv, MailRight, Offered
  <2>10. \A x \in asked' : AskedRight(x)'
    BY <2>1 DEF ConfigInv, AskedRight, Offered
  <2>11. BoundIsLeased'
    BY <2>1, <2>6 DEF ConfigInv, BoundIsLeased
  <2> QED BY <2>6, <2>7, <2>8, <2>9, <2>10, <2>11 DEF ConfigInv
<1>8. CASE UNCHANGED ConfigVars
  BY <1>8, <1>t DEF ConfigVars, ConfigInv, ConfigTyped, AskedRight, MailRight, Offered, BoundIsLeased
<1> QED BY <1>1, <1>2, <1>3, <1>4, <1>5, <1>6, <1>7, <1>8 DEF NetConfigNext

(* An address DHCP put in place was leased to the machine in the current    *)
(* exchange, with its server's gateway, for any servers, retries and        *)
(* numbers of exchanges and whatever is lost, repeated or late (dhcp.c).    *)
THEOREM DhcpCorrect == NetConfigSpec => []BoundIsLeased
<1>1. ConfigInv => BoundIsLeased
  BY DEF ConfigInv
<1> QED BY <1>1, InitConfig, ConfigStep, PTL DEF NetConfigSpec

-----------------------------------------------------------------------------
(* TCP.  A control block's counters agree with its buffer from the SYN on,  *)
(* and what is under way to a port is of that connection.  While tcp_receive *)
(* is between its copy and its memmove, the buffer only grows.              *)

States == {"CLOSED", "SYN_SENT", "ESTABLISHED", "CLOSE_WAIT"}
Bytes == Seq(Nat \X Nat)
PcbRec == [state : States, port : Nat, rcvNxt : Nat, buf : Bytes, tries : Nat, taken : Nat,
           fin : {0, 1}, due : Bytes, torn : BOOLEAN]
SegRec == [conn : Nat, port : Nat, syn : BOOLEAN, fin : BOOLEAN, data : Bytes]

OfConn(b, c) == \A i \in 1 .. Len(b) : b[i][1] = c

PcbSound(r) ==
    /\ r \in PcbRec
    /\ Len(r.buf) <= RxSize /\ Len(r.due) = Len(r.buf) /\ (~r.torn => r.buf = r.due)
    /\ r.state \in {"ESTABLISHED", "CLOSE_WAIT"} => r.rcvNxt = 1 + r.taken + Len(r.buf) + r.fin
    /\ r.state # "CLOSED" => OfConn(r.buf, r.port)
    /\ r.state = "SYN_SENT" => r.buf = <<>> /\ r.taken = 0
    /\ r.state # "CLOSE_WAIT" => r.fin = 0

Segs == {s \in SegRec : s.port = s.conn /\ OfConn(s.data, s.conn)}

(* app is a record of these fields; what the last three are is not needed. *)
AppIsRec ==
    app = [at |-> app.at, p |-> app.p, kind |-> app.kind, header |-> app.header,
           last |-> app.last, gap |-> app.gap, n |-> app.n, len |-> app.len]

AppSound ==
    /\ AppIsRec
    /\ app.at \in {"idle", "connecting", "open", "reading", "moving", "closing"}
    /\ app.at = "moving" => app.n \in Nat /\ app.len \in Nat
    /\ app.at = "moving" /\ app.p \in Pcbs =>
          /\ 1 <= app.n /\ app.n <= app.len /\ app.len <= Len(pcb[app.p].buf)
          /\ ~pcb[app.p].torn => app.len = Len(pcb[app.p].buf)

PcbsSound == pcb \in [Pcbs -> PcbRec] /\ \A p \in Pcbs : PcbSound(pcb[p])

TcpInv == conns \in Nat /\ PcbsSound /\ AppSound /\ flight \in Seq(Segs)

(* What the run checks follows. *)
LEMMA TcpImplies == TcpInv => StreamIntact /\ TcpTypeOK
BY DEF TcpInv, PcbsSound, PcbSound, PcbRec, States, AppSound, OfConn, StreamIntact, AckedIsCounted, BufferIsDue, OwnBytes, TcpTypeOK

(* A closed block. *)
LEMMA ClosedSound == PcbSound(Closed) /\ Closed \in PcbRec
<1>1. Closed \in PcbRec
  <2>1. <<>> \in Bytes
    BY DEF Bytes
  <2> QED BY <2>1 DEF Closed, PcbRec, States
<1>2. Closed.buf = <<>> /\ Closed.due = <<>> /\ Closed.state = "CLOSED" /\ Closed.fin = 0
  BY DEF Closed
<1> QED BY <1>1, <1>2, TcpAssumption DEF PcbSound

(* Boot. *)
LEMMA InitTcp == TcpInit => TcpInv
<1> SUFFICES ASSUME TcpInit PROVE TcpInv
  OBVIOUS
<1>1. PcbsSound
  BY ClosedSound DEF TcpInit, PcbsSound
<1>2. AppIsRec /\ app.at = "idle"
  BY DEF TcpInit, AppIsRec, NoApp
<1>3. AppSound
  BY <1>2 DEF AppSound
<1>4. flight \in Seq(Segs) /\ conns \in Nat
  BY DEF TcpInit
<1> QED BY <1>1, <1>3, <1>4 DEF TcpInv

(* One control block changes to a sound one. *)
LEMMA PcbUpdate ==
    ASSUME PcbsSound, NEW q, NEW r, q \in Pcbs => PcbSound(r), pcb' = [pcb EXCEPT ![q] = r]
    PROVE  PcbsSound'
<1>1. q \in Pcbs => r \in PcbRec
  BY DEF PcbSound
<1>2. pcb' \in [Pcbs -> PcbRec]
  BY <1>1 DEF PcbsSound
<1>3. \A p \in Pcbs : pcb'[p] = IF p = q THEN r ELSE pcb[p]
  BY DEF PcbsSound
<1>4. \A p \in Pcbs : PcbSound(pcb'[p])
  BY <1>3 DEF PcbsSound
<1> QED BY <1>2, <1>3, <1>4 DEF PcbsSound

(* The caller moves on, to anywhere but the middle of tcp_receive. *)
LEMMA AppMoves ==
    ASSUME AppIsRec', app'.at \in {"idle", "connecting", "open", "reading", "closing"}
    PROVE  AppSound'
BY DEF AppSound

(* The caller gives up. *)
LEMMA AppIdle == ASSUME app' = NoApp PROVE AppSound'
<1>1. AppIsRec' /\ app'.at = "idle"
  BY DEF AppIsRec, NoApp
<1> QED BY <1>1, AppMoves

(* The caller's next place. *)
LEMMA AppGoes ==
    ASSUME AppIsRec, NEW at, at \in {"open", "reading", "closing"}, app' = [app EXCEPT !.at = at]
    PROVE  AppSound'
<1>1. AppIsRec' /\ app'.at = at
  BY DEF AppIsRec
<1> QED BY <1>1, AppMoves

(* What is left of a sequence without its first n elements. *)
LEMMA TailLemma ==
    ASSUME NEW S, NEW b \in Seq(S), NEW n \in Nat, n <= Len(b)
    PROVE  /\ SubSeq(b, n + 1, Len(b)) \in Seq(S)
           /\ Len(SubSeq(b, n + 1, Len(b))) = Len(b) - n
           /\ \A i \in 1 .. Len(b) - n : SubSeq(b, n + 1, Len(b))[i] = b[i + n]
<1>1. Len(b) \in Nat /\ n + 1 \in Int /\ Len(b) \in Int
  OBVIOUS
<1>2. \A i \in (n + 1) .. Len(b) : b[i] \in S
  BY <1>1
<1> DEFINE t == SubSeq(b, n + 1, Len(b))
<1>3. /\ t \in Seq(S)
      /\ Len(t) = IF n + 1 <= Len(b) THEN Len(b) - (n + 1) + 1 ELSE 0
      /\ \A i \in 1 .. Len(b) - (n + 1) + 1 : t[i] = b[(n + 1) + i - 1]
  BY <1>1, <1>2, SubSeqProperties
<1> HIDE DEF t
<1>4. Len(t) = Len(b) - n /\ \A i \in 1 .. Len(b) - n : t[i] = b[i + n]
  <2>1. Len(b) - (n + 1) + 1 = Len(b) - n /\ \A i \in 1 .. Len(b) - n : (n + 1) + i - 1 = i + n
    BY <1>1
  <2> QED BY <1>1, <1>3, <2>1
<1> QED BY <1>3, <1>4 DEF t

(* The memmove of tcp_receive: n bytes fewer, and all of them were there. *)
LEMMA MovedLemma ==
    ASSUME NEW b \in Bytes, NEW n \in Nat, NEW len \in Nat, n <= len, len <= Len(b), NEW c
    PROVE  /\ Moved(b, n, len) \in Bytes /\ Len(Moved(b, n, len)) = Len(b) - n
           /\ OfConn(b, c) => OfConn(Moved(b, n, len), c)
           /\ len = Len(b) => Moved(b, n, len) = SubSeq(b, n + 1, Len(b))
<1> DEFINE m == Moved(b, n, len)
<1>1. Len(b) \in Nat /\ Len(b) - n \in Nat
  BY DEF Bytes
<1>2. \A i \in 1 .. Len(b) - n : i \in 1 .. Len(b) /\ (i <= len - n => i + n \in 1 .. Len(b))
  BY <1>1
<1>3. PICK B : B = Nat \X Nat
  OBVIOUS
<1>4. \A i \in 1 .. Len(b) : b[i] \in B
  BY <1>3 DEF Bytes
<1>5. \A i \in 1 .. Len(b) - n : /\ m[i] = b[i] \/ (i + n \in 1 .. Len(b) /\ m[i] = b[i + n])
                                 /\ m[i] \in B
  BY <1>2, <1>4 DEF Moved
<1>6. m = [i \in 1 .. Len(b) - n |-> m[i]]
  BY DEF Moved
<1> HIDE DEF m
<1>7. m \in Seq(B) /\ Len(m) = Len(b) - n
  BY <1>1, <1>5, <1>6, IsASeq
<1>8. OfConn(b, c) => OfConn(m, c)
  BY <1>1, <1>2, <1>5, <1>7 DEF OfConn
<1>9. ASSUME len = Len(b) PROVE m = SubSeq(b, n + 1, Len(b))
  <2> DEFINE t == SubSeq(b, n + 1, Len(b))
  <2>1. t \in Seq(B) /\ Len(t) = Len(b) - n /\ \A i \in 1 .. Len(b) - n : t[i] = b[i + n]
    BY <1>1, <1>3, TailLemma DEF Bytes
  <2>2. \A i \in 1 .. Len(b) - n : m[i] = b[i + n]
    BY <1>1, <1>9 DEF m, Moved
  <2> HIDE DEF t
  <2>3. m = t
    BY <1>1, <1>7, <2>1, <2>2, SeqEqual
  <2> QED BY <2>3 DEF t
<1> QED BY <1>3, <1>7, <1>8, <1>9 DEF m, Bytes

(* The bytes of a segment join the buffer. *)
LEMMA JoinedLemma ==
    ASSUME NEW a \in Bytes, NEW b \in Bytes, NEW c
    PROVE  /\ a \o b \in Bytes /\ Len(a \o b) = Len(a) + Len(b)
           /\ Len(a) \in Nat /\ Len(b) \in Nat
           /\ OfConn(a, c) /\ OfConn(b, c) => OfConn(a \o b, c)
<1> PICK B : B = Nat \X Nat
  OBVIOUS
<1>0. a \in Seq(B) /\ b \in Seq(B)
  BY DEF Bytes
<1> DEFINE d == a \o b
<1>1. /\ d \in Seq(B) /\ Len(d) = Len(a) + Len(b) /\ Len(a) \in Nat /\ Len(b) \in Nat
      /\ \A k \in 1 .. Len(a) + Len(b) : d[k] = IF k <= Len(a) THEN a[k] ELSE b[k - Len(a)]
  BY <1>0, ConcatProperties, LenProperties
<1> HIDE DEF d
<1>2. ASSUME OfConn(a, c), OfConn(b, c), NEW k \in 1 .. Len(d) PROVE d[k][1] = c
  <2>1. CASE k <= Len(a)
    <3>1. k \in 1 .. Len(a) /\ k \in 1 .. Len(a) + Len(b)
      BY <1>1, <2>1
    <3>2. d[k] = a[k]
      BY <1>1, <2>1, <3>1
    <3> QED BY <1>2, <3>1, <3>2 DEF OfConn
  <2>2. CASE ~(k <= Len(a))
    <3>1. k - Len(a) \in 1 .. Len(b)
      BY <1>1, <2>2
    <3> QED BY <1>1, <1>2, <2>2, <3>1 DEF OfConn
  <2> QED BY <2>1, <2>2
<1> QED BY <1>1, <1>2 DEF d, Bytes, OfConn

(* tcp_connect. *)
LEMMA ConnectStep == ASSUME TcpInv, NEW kind, TcpConnect(kind) PROVE TcpInv'
<1>1. PICK p \in NewPcb, sent \in BOOLEAN :
        /\ pcb' = [pcb EXCEPT ![p] = [Closed EXCEPT !.state = "SYN_SENT", !.port = EphemeralPort(conns + 1),
                                                    !.tries = 1]]
        /\ app' = IF sent THEN [NoApp EXCEPT !.at = "connecting", !.p = p, !.kind = kind] ELSE NoApp
        /\ conns' = conns + 1
  BY DEF TcpConnect
<1>2. PICK c \in Nat : c = conns + 1
  BY DEF TcpInv
<1> DEFINE r == [Closed EXCEPT !.state = "SYN_SENT", !.port = c, !.tries = 1]
<1>3. r \in PcbRec /\ r.state = "SYN_SENT" /\ r.buf = Closed.buf /\ r.taken = Closed.taken /\ r.fin = Closed.fin
      /\ r.due = Closed.due
  <2>1. PICK z \in Nat : z = 1
    OBVIOUS
  <2>2. r = [Closed EXCEPT !.state = "SYN_SENT", !.port = c, !.tries = z]
    BY <2>1
  <2> QED BY <2>2, ClosedSound DEF PcbRec, States
<1>4. pcb' = [pcb EXCEPT ![p] = r]
  BY <1>1, <1>2 DEF EphemeralPort
<1> HIDE DEF r
<1>6. PcbSound(r)
  <2>1. r.state = "SYN_SENT" /\ r.buf = <<>> /\ r.due = <<>> /\ r.taken = 0 /\ r.fin = 0
    BY <1>3 DEF Closed
  <2> QED BY <1>3, <2>1, TcpAssumption DEF PcbSound, OfConn
<1>7. PcbsSound'
  BY <1>4, <1>6, PcbUpdate DEF TcpInv
<1>8. AppSound'
  <2>1. CASE sent
    <3>1. AppIsRec' /\ app'.at = "connecting"
      BY <1>1, <2>1 DEF NoApp, AppIsRec
    <3> QED BY <3>1, AppMoves
  <2>2. CASE ~sent
    BY <1>1, <2>2, AppIdle
  <2> QED BY <2>1, <2>2
<1> QED BY <1>1, <1>2, <1>7, <1>8 DEF TcpConnect, TcpInv

(* The length of a buffer. *)
LEMMA BufLen == \A r \in PcbRec : Len(r.buf) \in Nat /\ Len(r.due) \in Nat
<1> SUFFICES ASSUME NEW r \in PcbRec PROVE Len(r.buf) \in Nat /\ Len(r.due) \in Nat
  OBVIOUS
<1>1. r.buf \in Bytes /\ r.due \in Bytes
  BY DEF PcbRec
<1> QED BY <1>1 DEF Bytes

(* The second half of tcp_receive. *)
LEMMA MoveStep == ASSUME TcpInv, ReceiveMove PROVE TcpInv'
<1>1. /\ app.at = "moving" /\ UNCHANGED <<conns, flight>>
      /\ pcb' = [pcb EXCEPT ![app.p].buf = Moved(@, app.n, app.len), ![app.p].taken = @ + app.n,
                            ![app.p].due = SubSeq(@, app.n + 1, Len(@))]
      /\ app' = [app EXCEPT !.at = "reading", !.n = 0, !.len = 0]
  BY DEF ReceiveMove
<1>2. AppIsRec /\ pcb \in [Pcbs -> PcbRec]
  BY DEF TcpInv, AppSound, PcbsSound
<1>3. AppIsRec' /\ app'.at = "reading"
  BY <1>1, <1>2 DEF AppIsRec
<1>4. AppSound'
  BY <1>3, AppMoves
<1>5. CASE app.p \notin Pcbs
  <2>1. pcb' = pcb
    BY <1>1, <1>2, <1>5
  <2> QED BY <2>1, <1>1, <1>4 DEF TcpInv, PcbsSound
<1>6. CASE app.p \in Pcbs
  <2>1. PICK q \in Pcbs : q = app.p
    BY <1>6
  <2>2. PICK n \in Nat, len \in Nat : n = app.n /\ len = app.len
    BY <1>1 DEF TcpInv, AppSound
  <2>3. n >= 1 /\ n <= len /\ len <= Len(pcb[q].buf) /\ PcbSound(pcb[q])
    BY <1>1, <2>1, <2>2 DEF TcpInv, AppSound, PcbsSound
  <2>4. /\ pcb[q] \in PcbRec /\ pcb[q].buf \in Bytes /\ pcb[q].taken \in Nat /\ pcb[q].port \in Nat
        /\ pcb[q].due \in Bytes /\ pcb[q].torn \in BOOLEAN
    BY <2>3 DEF PcbSound, PcbRec
  <2>d. PICK d \in Bytes : d = SubSeq(pcb[q].due, n + 1, Len(pcb[q].due)) /\ Len(d) = Len(pcb[q].due) - n
    <3>1. PICK u \in Bytes : u = pcb[q].due
      BY <2>4
    <3>2. Len(u) = Len(pcb[q].buf) /\ Len(pcb[q].buf) \in Nat
      BY <3>1, <2>3, <2>4, BufLen DEF PcbSound
    <3>3. n <= Len(u)
      BY <2>3, <3>2
    <3>4. SubSeq(u, n + 1, Len(u)) \in Bytes /\ Len(SubSeq(u, n + 1, Len(u))) = Len(u) - n
      <4> PICK B : B = Nat \X Nat
        OBVIOUS
      <4>1. u \in Seq(B)
        BY DEF Bytes
      <4>2. SubSeq(u, n + 1, Len(u)) \in Seq(B) /\ Len(SubSeq(u, n + 1, Len(u))) = Len(u) - n
        BY <4>1, <3>3, TailLemma
      <4> QED BY <4>2 DEF Bytes
    <3> QED BY <3>1, <3>4
  <2>5. PICK b \in Bytes : b = Moved(pcb[q].buf, n, len)
    BY <2>3, <2>4, MovedLemma
  <2>6. Len(b) = Len(pcb[q].buf) - n /\ (OfConn(pcb[q].buf, pcb[q].port) => OfConn(b, pcb[q].port))
    BY <2>3, <2>4, <2>5, MovedLemma
  <2>e. ~pcb[q].torn => b = d
    <3> SUFFICES ASSUME ~pcb[q].torn PROVE b = d
      OBVIOUS
    <3>1. pcb[q].buf = pcb[q].due /\ len = Len(pcb[q].buf)
      BY <1>1, <2>1, <2>2, <2>3 DEF TcpInv, AppSound, PcbSound
    <3>2. PICK u \in Bytes : u = pcb[q].buf
      BY <2>4
    <3>3. Moved(u, n, Len(u)) = SubSeq(u, n + 1, Len(u))
      <4>1. Len(u) \in Nat /\ n <= Len(u)
        BY <2>3, <3>1, <3>2
      <4> QED BY <4>1, MovedLemma
    <3> QED BY <3>1, <3>2, <3>3, <2>5, <2>d
  <2>7. PICK k \in Nat : k = pcb[q].taken + n
    BY <2>4
  <2> DEFINE r == [pcb[q] EXCEPT !.buf = b, !.taken = k, !.due = d]
  <2>8. pcb' = [pcb EXCEPT ![q] = r]
    BY <1>1, <1>2, <2>1, <2>2, <2>5, <2>7, <2>d
  <2>9. /\ r \in PcbRec /\ r.state = pcb[q].state /\ r.port = pcb[q].port /\ r.rcvNxt = pcb[q].rcvNxt
        /\ r.buf = b /\ r.taken = k /\ r.fin = pcb[q].fin /\ r.due = d /\ r.torn = pcb[q].torn
    BY <2>4 DEF PcbRec
  <2> HIDE DEF r
  <2>10. Len(b) \in Nat /\ Len(pcb[q].buf) \in Nat /\ pcb[q].fin \in {0, 1} /\ pcb[q].buf # <<>>
    BY <2>3, <2>4 DEF PcbRec, Bytes
  <2>11. Len(r.buf) <= RxSize
    BY <2>3, <2>6, <2>9, <2>10, TcpAssumption DEF PcbSound
  <2>12. r.state \in {"ESTABLISHED", "CLOSE_WAIT"} => r.rcvNxt = 1 + r.taken + Len(r.buf) + r.fin
    BY <2>3, <2>4, <2>6, <2>7, <2>9, <2>10 DEF PcbSound
  <2>13a. Len(r.due) = Len(r.buf) /\ (~r.torn => r.buf = r.due)
    BY <2>3, <2>6, <2>9, <2>d, <2>e DEF PcbSound
  <2>13. PcbSound(r)
    BY <2>3, <2>6, <2>9, <2>10, <2>11, <2>12, <2>13a DEF PcbSound
  <2>14. PcbsSound'
    BY <2>8, <2>13, PcbUpdate DEF TcpInv
  <2> QED BY <2>14, <1>1, <1>4 DEF TcpInv
<1> QED BY <1>5, <1>6

(* tcp_input: bytes join the buffer of the segment's own connection only,   *)
(* and rcv_nxt counts them.                                                 *)
LEMMA InputStep ==
    ASSUME TcpInv, NEW seg \in Segs, TcpInput(seg), UNCHANGED app
    PROVE  PcbsSound' /\ AppSound'
<1>1. CASE UNCHANGED pcb
  BY <1>1 DEF TcpInv, PcbsSound, AppSound, AppIsRec
<1>2. CASE pcb' # pcb
  <2>1. PICK p \in FindPcb(seg.port) :
            \/ /\ pcb[p].state = "SYN_SENT" /\ seg.syn
               /\ pcb' = [pcb EXCEPT ![p].state = "ESTABLISHED", ![p].rcvNxt = 1]
            \/ /\ pcb[p].state = "ESTABLISHED"
               /\ pcb' = [pcb EXCEPT ![p].buf = @ \o Kept(p, seg), ![p].rcvNxt = NextRcv(p, seg),
                                     ![p].fin = IF seg.fin THEN 1 ELSE 0,
                                     ![p].due = @ \o Kept(p, seg),
                                     ![p].torn = @ \/ (app.at = "moving" /\ app.p = p /\ Kept(p, seg) # <<>>),
                                     ![p].state = IF seg.fin THEN "CLOSE_WAIT" ELSE @]
    BY <1>2 DEF TcpInput
  <2>2. p \in Pcbs /\ pcb[p].port = seg.port
    BY DEF FindPcb
  <2>3. PcbSound(pcb[p]) /\ pcb \in [Pcbs -> PcbRec]
    BY <2>2 DEF TcpInv, PcbsSound
  <2>4. /\ pcb[p] \in PcbRec /\ pcb[p].buf \in Bytes /\ pcb[p].taken \in Nat /\ pcb[p].port \in Nat
        /\ pcb[p].rcvNxt \in Nat /\ pcb[p].due \in Bytes /\ pcb[p].torn \in BOOLEAN
    BY <2>3 DEF PcbSound, PcbRec
  <2>5. SUFFICES /\ PcbsSound' /\ Len(pcb'[p].buf) >= Len(pcb[p].buf)
                 /\ app.at = "moving" /\ app.p = p /\ ~pcb'[p].torn =>
                        ~pcb[p].torn /\ pcb'[p].buf = pcb[p].buf
                 /\ \A q \in Pcbs \ {p} : pcb'[q] = pcb[q]
    <3>1. \A q \in Pcbs : Len(pcb'[q].buf) >= Len(pcb[q].buf) /\ Len(pcb[q].buf) \in Nat /\ Len(pcb'[q].buf) \in Nat
      <4>1. \A q \in Pcbs : pcb[q] \in PcbRec /\ pcb'[q] \in PcbRec
        BY <2>5 DEF TcpInv, PcbsSound
      <4>2. \A q \in Pcbs : Len(pcb[q].buf) \in Nat /\ Len(pcb'[q].buf) \in Nat
        BY <4>1, BufLen
      <4>3. \A q \in Pcbs : q = p \/ pcb'[q] = pcb[q]
        BY <2>5
      <4> QED BY <4>2, <4>3, <2>5
    <3>2. ASSUME app.at = "moving", app.p \in Pcbs
          PROVE  /\ 1 <= app.n /\ app.n <= app.len /\ app.len <= Len(pcb'[app.p].buf)
                 /\ ~pcb'[app.p].torn => app.len = Len(pcb'[app.p].buf)
      <4>1. 1 <= app.n /\ app.n <= app.len /\ app.len <= Len(pcb'[app.p].buf)
        BY <3>1, <3>2 DEF TcpInv, AppSound
      <4>2. ~pcb'[app.p].torn => ~pcb[app.p].torn /\ pcb'[app.p].buf = pcb[app.p].buf
        BY <3>2, <2>5
      <4> QED BY <4>1, <4>2, <3>2 DEF TcpInv, AppSound
    <3> QED BY <2>5, <3>2 DEF TcpInv, AppSound, AppIsRec
  <2>6. CASE /\ pcb[p].state = "SYN_SENT"
             /\ pcb' = [pcb EXCEPT ![p].state = "ESTABLISHED", ![p].rcvNxt = 1]
    <3>1. PICK z \in Nat : z = 1
      OBVIOUS
    <3> DEFINE r == [pcb[p] EXCEPT !.state = "ESTABLISHED", !.rcvNxt = z]
    <3>2. pcb' = [pcb EXCEPT ![p] = r]
      BY <2>2, <2>3, <2>6, <3>1
    <3>3. /\ r \in PcbRec /\ r.state = "ESTABLISHED" /\ r.port = pcb[p].port /\ r.rcvNxt = z
          /\ r.buf = pcb[p].buf /\ r.taken = pcb[p].taken /\ r.fin = pcb[p].fin
          /\ r.due = pcb[p].due /\ r.torn = pcb[p].torn
      BY <2>4 DEF PcbRec, States
    <3> HIDE DEF r
    <3>4. PcbSound(r)
      BY <2>3, <2>6, <3>1, <3>3 DEF PcbSound
    <3>5. PcbsSound'
      BY <3>2, <3>4, PcbUpdate DEF TcpInv
    <3>5a. \A q \in Pcbs \ {p} : pcb'[q] = pcb[q]
      BY <3>2, <2>3
    <3>6. pcb'[p].buf = pcb[p].buf /\ pcb'[p].torn = pcb[p].torn /\ Len(pcb[p].buf) \in Nat
      BY <3>2, <3>3, <2>2, <2>3, <2>4 DEF Bytes
    <3> QED BY <3>5, <3>5a, <3>6
  <2>7. CASE /\ pcb[p].state = "ESTABLISHED"
             /\ pcb' = [pcb EXCEPT ![p].buf = @ \o Kept(p, seg), ![p].rcvNxt = NextRcv(p, seg),
                                   ![p].fin = IF seg.fin THEN 1 ELSE 0,
                                   ![p].due = @ \o Kept(p, seg),
                                   ![p].torn = @ \/ (app.at = "moving" /\ app.p = p /\ Kept(p, seg) # <<>>),
                                   ![p].state = IF seg.fin THEN "CLOSE_WAIT" ELSE @]
    <3>1. seg.data \in Bytes /\ seg.port = seg.conn /\ OfConn(seg.data, seg.conn) /\ seg.fin \in BOOLEAN
      BY DEF Segs, SegRec
    <3>2. PICK kept \in Bytes : kept = Kept(p, seg)
      <4>1. <<>> \in Bytes
        BY DEF Bytes
      <4> QED BY <3>1, <4>1, Zenon DEF Kept
    <3>3. OfConn(kept, pcb[p].port)
      BY <2>2, <3>1, <3>2 DEF Kept, OfConn
    <3>4. PICK b \in Bytes : b = pcb[p].buf \o kept
      BY <2>4, JoinedLemma
    <3>5. /\ Len(b) = Len(pcb[p].buf) + Len(kept) /\ Len(pcb[p].buf) \in Nat /\ Len(kept) \in Nat
          /\ OfConn(b, pcb[p].port)
      BY <2>3, <2>4, <2>7, <3>3, <3>4, JoinedLemma DEF PcbSound
    <3>6. Len(b) <= RxSize
      <4>1. CASE Fits(p, seg.data)
        BY <4>1, <3>2, <3>5 DEF Kept, Fits
      <4>2. CASE ~Fits(p, seg.data)
        <5>1. Len(kept) = 0
          BY <4>2, <3>2 DEF Kept
        <5> QED BY <5>1, <3>5, <2>3 DEF PcbSound
      <4> QED BY <4>1, <4>2
    <3>7. PICK f \in {0, 1} : f = IF seg.fin THEN 1 ELSE 0
      BY <3>1
    <3>8. PICK n \in Nat : n = pcb[p].rcvNxt + Len(kept) + f
      BY <2>4, <3>5, <3>7
    <3>9. n = NextRcv(p, seg)
      BY <3>2, <3>7, <3>8 DEF NextRcv
    <3>10. PICK st \in {"ESTABLISHED", "CLOSE_WAIT"} : st = IF seg.fin THEN "CLOSE_WAIT" ELSE "ESTABLISHED"
      BY <3>1
    <3>d. PICK d \in Bytes : d = pcb[p].due \o kept /\ Len(d) = Len(pcb[p].due) + Len(kept)
      BY <2>4, JoinedLemma
    <3>e. PICK torn \in BOOLEAN : torn = (pcb[p].torn \/ (app.at = "moving" /\ app.p = p /\ kept # <<>>))
      OBVIOUS
    <3>f. Len(d) = Len(b) /\ (~torn => b = d)
      BY <2>3, <3>4, <3>5, <3>d, <3>e DEF PcbSound
    <3> DEFINE r == [pcb[p] EXCEPT !.buf = b, !.rcvNxt = n, !.fin = f, !.due = d, !.torn = torn, !.state = st]
    <3>11. pcb' = [pcb EXCEPT ![p] = r]
      <4>1. pcb' = [pcb EXCEPT ![p].buf = b, ![p].rcvNxt = n, ![p].fin = f, ![p].due = d, ![p].torn = torn,
                               ![p].state = st]
        BY <2>2, <2>3, <2>4, <2>7, <3>2, <3>4, <3>7, <3>9, <3>10, <3>d, <3>e DEF PcbRec
      <4> QED BY <4>1, <2>2, <2>3
    <3>12. r.buf = b /\ r.rcvNxt = n /\ r.fin = f /\ r.state = st /\ r.due = d /\ r.torn = torn
           /\ r.port = pcb[p].port /\ r.taken = pcb[p].taken
      BY <2>4 DEF PcbRec
    <3>13. r \in PcbRec
      BY <2>4 DEF PcbRec, States
    <3> HIDE DEF r
    <3>14. pcb[p].fin = 0 /\ pcb[p].rcvNxt = 1 + pcb[p].taken + Len(pcb[p].buf)
      BY <2>3, <2>4, <2>7, <3>5 DEF PcbSound
    <3>15. n = 1 + pcb[p].taken + Len(b) + f
      <4>1. PICK t \in Nat, x \in Nat, l \in Nat, k \in Nat :
                t = pcb[p].taken /\ x = pcb[p].rcvNxt /\ l = Len(pcb[p].buf) /\ k = Len(kept)
        BY <2>4, <3>5
      <4>2. n = x + k + f /\ x = 1 + t + l /\ Len(b) = l + k /\ f \in Nat
        BY <4>1, <3>5, <3>8, <3>14
      <4>3. n = 1 + t + (l + k) + f
        BY <4>2
      <4> QED BY <4>1, <4>2, <4>3
    <3>16. st # "CLOSE_WAIT" => f = 0
      BY <3>1, <3>7, <3>10
    <3>17. PcbSound(r)
      BY <3>5, <3>6, <3>12, <3>13, <3>15, <3>16, <3>f DEF PcbSound
    <3>18. PcbsSound'
      BY <3>11, <3>17, PcbUpdate DEF TcpInv
    <3>18a. \A q \in Pcbs \ {p} : pcb'[q] = pcb[q]
      BY <3>11, <2>3
    <3>19. pcb'[p].buf = b /\ pcb'[p].torn = torn
      BY <3>11, <3>12, <2>2, <2>3
    <3>20. app.at = "moving" /\ app.p = p /\ ~torn => ~pcb[p].torn /\ b = pcb[p].buf
      <4>1. kept = <<>> => b = pcb[p].buf
        BY <3>4, <2>4 DEF Bytes
      <4> QED BY <4>1, <3>e
    <3>21. Len(pcb'[p].buf) >= Len(pcb[p].buf)
      BY <3>5, <3>19
    <3>22. app.at = "moving" /\ app.p = p /\ ~pcb'[p].torn => ~pcb[p].torn /\ pcb'[p].buf = pcb[p].buf
      BY <3>19, <3>20
    <3> QED BY <3>18, <3>18a, <3>21, <3>22, Zenon
  <2> QED BY <2>1, <2>6, <2>7
<1> QED BY <1>1, <1>2

(* What the server sends is of its connection. *)
LEMMA PeerLemma ==
    ASSUME NEW c \in Nat, NEW seg \in PeerSegments(c)
    PROVE  seg \in Segs
<1>1. PICK syn \in BOOLEAN, fin \in BOOLEAN, k \in Nat : seg = Segment(c, syn, fin, <<<<c, k>>>>)
  <2>1. \/ seg \in {Segment(c, TRUE, FALSE, Padding(c)), Segment(c, FALSE, FALSE, Padding(c)),
                    Segment(c, FALSE, TRUE, Padding(c))}
        \/ \E i \in 1 .. Answer : seg = Segment(c, FALSE, FALSE, <<<<c, i>>>>)
    BY DEF PeerSegments
  <2>2. CASE \E i \in 1 .. Answer : seg = Segment(c, FALSE, FALSE, <<<<c, i>>>>)
    <3>1. PICK i \in 1 .. Answer : seg = Segment(c, FALSE, FALSE, <<<<c, i>>>>)
      BY <2>2
    <3>2. i \in Nat
      BY TcpAssumption
    <3> QED BY <3>1, <3>2
  <2>3. CASE seg \in {Segment(c, TRUE, FALSE, Padding(c)), Segment(c, FALSE, FALSE, Padding(c)),
                     Segment(c, FALSE, TRUE, Padding(c))}
    <3>1. 0 \in Nat
      OBVIOUS
    <3> QED BY <2>3, <3>1 DEF Padding
  <2> QED BY <2>1, <2>2, <2>3
<1>2. PICK d : d = <<<<c, k>>>>
  OBVIOUS
<1>3. d \in Bytes /\ OfConn(d, c)
  <2>0. <<c, k>> \in Nat \X Nat /\ <<c, k>>[1] = c
    OBVIOUS
  <2>1. PICK e : e = <<c, k>>
    OBVIOUS
  <2>2. d = <<e>> /\ e \in Nat \X Nat /\ e[1] = c
    BY <1>2, <2>0, <2>1
  <2>3. d \in Bytes /\ Len(d) = 1 /\ d[1] = e
    BY <2>2 DEF Bytes
  <2> QED BY <2>2, <2>3 DEF OfConn
<1>4. seg = [conn |-> c, port |-> c, syn |-> syn, fin |-> fin, data |-> d]
  BY <1>1, <1>2 DEF Segment, EphemeralPort
<1>5. seg \in SegRec
  BY <1>3, <1>4 DEF SegRec
<1>6. seg.port = seg.conn /\ seg.data = d /\ seg.conn = c
  BY <1>4
<1> QED BY <1>3, <1>5, <1>6 DEF Segs

(* A block returns to the pool while the caller leaves it. *)
LEMMA CloseStep ==
    ASSUME TcpInv, app' = NoApp, pcb' = [pcb EXCEPT ![app.p] = Closed], UNCHANGED <<conns, flight>>
    PROVE  TcpInv'
<1>1. PcbsSound'
  BY ClosedSound, PcbUpdate DEF TcpInv
<1> QED BY <1>1, AppIdle DEF TcpInv

(* Every step. *)
LEMMA TcpStep == TcpInv /\ [TcpNext]_TcpVars => TcpInv'
<1> SUFFICES ASSUME TcpInv, [TcpNext]_TcpVars PROVE TcpInv'
  OBVIOUS
<1>0. AppIsRec /\ PcbsSound /\ conns \in Nat /\ flight \in Seq(Segs)
  BY DEF TcpInv, AppSound
<1>1. CASE \E kind \in {"wget", "user"} : TcpConnect(kind)
  BY <1>1, ConnectStep
<1>2. CASE Connected
  <2>1. CASE app' = [app EXCEPT !.at = "open"] /\ UNCHANGED pcb
    <3>1. AppSound'
      BY <1>0, <2>1, AppGoes
    <3> QED BY <3>1, <2>1, <1>2 DEF Connected, TcpInv, PcbsSound
  <2>2. CASE app' = NoApp /\ pcb' = [pcb EXCEPT ![app.p] = Closed]
    BY <1>2, <2>2, CloseStep DEF Connected
  <2> QED BY <1>2, <2>1, <2>2 DEF Connected
<1>3. CASE Retransmit
  <2>1. /\ pcb' = [pcb EXCEPT ![app.p].tries = @ + 1] /\ UNCHANGED <<conns, app, flight>>
        /\ app.at = "connecting"
    BY <1>3 DEF Retransmit
  <2>2. AppSound'
    BY <1>0, <2>1, AppMoves DEF AppIsRec
  <2>3. CASE app.p \notin Pcbs
    <3>1. pcb' = pcb
      BY <2>1, <2>3, <1>0 DEF PcbsSound
    <3> QED BY <3>1, <2>1, <2>2, <1>0 DEF TcpInv, PcbsSound
  <2>4. CASE app.p \in Pcbs
    <3>1. PICK q \in Pcbs : q = app.p
      BY <2>4
    <3>2. pcb[q] \in PcbRec /\ PcbSound(pcb[q]) /\ pcb \in [Pcbs -> PcbRec]
      BY <1>0 DEF PcbsSound
    <3>3. PICK n \in Nat : n = pcb[q].tries + 1
      BY <3>2 DEF PcbRec
    <3> DEFINE r == [pcb[q] EXCEPT !.tries = n]
    <3>4. pcb' = [pcb EXCEPT ![q] = r]
      BY <2>1, <3>1, <3>2, <3>3
    <3>5. /\ r \in PcbRec /\ r.state = pcb[q].state /\ r.port = pcb[q].port /\ r.rcvNxt = pcb[q].rcvNxt
          /\ r.buf = pcb[q].buf /\ r.taken = pcb[q].taken /\ r.fin = pcb[q].fin
          /\ r.due = pcb[q].due /\ r.torn = pcb[q].torn
      BY <3>2 DEF PcbRec
    <3> HIDE DEF r
    <3>6. PcbSound(r)
      BY <3>2, <3>5 DEF PcbSound
    <3>7. PcbsSound'
      BY <3>4, <3>6, <1>0, PcbUpdate
    <3> QED BY <3>7, <2>1, <2>2, <1>0 DEF TcpInv
  <2> QED BY <2>3, <2>4
<1>4. CASE ConnectTimeout
  BY <1>4, CloseStep DEF ConnectTimeout
<1>5. CASE TcpSend
  <2>1. PICK at \in {"reading", "closing"} : app' = [app EXCEPT !.at = at]
    BY <1>5 DEF TcpSend
  <2>2. AppSound'
    BY <1>0, <2>1, AppGoes
  <2> QED BY <2>2, <1>5, <1>0 DEF TcpSend, TcpInv, PcbsSound
<1>6. CASE ReceiveCopy
  <2> DEFINE nums(n) == Numbers(app.last, SubSeq(pcb[app.p].buf, 1, n))
             h(n) == app.header \/ 1 \in Range(nums(n))
             l(n) == nums(n)[Len(nums(n))]
             g(n) == app.gap \/ \E i \in 1 .. Len(nums(n)) - 1 :
                                   /\ app.kind = "user" \/ app.header
                                   /\ nums(n)[i + 1] > nums(n)[i] + 1
  <2>1. PICK n \in 1 .. Len(pcb[app.p].buf) :
          app' = [app EXCEPT !.at = "moving", !.n = n, !.len = Len(pcb[app.p].buf),
                             !.header = h(n), !.last = l(n), !.gap = g(n)]
    BY <1>6 DEF ReceiveCopy
  <2> HIDE DEF nums, h, l, g
  <2>2. PICK hh, ll, gg : hh = h(n) /\ ll = l(n) /\ gg = g(n)
    OBVIOUS
  <2>3. AppIsRec' /\ app'.at = "moving" /\ app'.n = n /\ app'.len = Len(pcb[app.p].buf) /\ app'.p = app.p
    <3>1. app' = [app EXCEPT !.at = "moving", !.n = n, !.len = Len(pcb[app.p].buf),
                             !.header = hh, !.last = ll, !.gap = gg]
      BY <2>1, <2>2
    <3> QED BY <1>0, <3>1 DEF AppIsRec
  <2>4. UNCHANGED <<pcb, conns, flight>>
    BY <1>6 DEF ReceiveCopy
  <2>5. AppSound'
    <3>1. app.p \in Pcbs => Len(pcb[app.p].buf) \in Nat
      BY <1>0, BufLen DEF PcbsSound
    <3> QED BY <2>3, <2>4, <3>1 DEF AppSound
  <2> QED BY <2>4, <2>5, <1>0 DEF TcpInv, PcbsSound
<1>7. CASE ReceiveMove
  BY <1>7, MoveStep
<1>8. CASE ReceiveEnd
  <2>1. AppSound'
    BY <1>0, <1>8, AppGoes DEF ReceiveEnd
  <2> QED BY <2>1, <1>8, <1>0 DEF ReceiveEnd, TcpInv, PcbsSound
<1>9. CASE TcpClose
  BY <1>9, CloseStep DEF TcpClose
<1>10. CASE Arrive
  <2>1. PICK i \in 1 .. Len(flight) : /\ TcpInput(flight[i])
                                      /\ flight' = RemoveAt(flight, i) \/ flight' = flight
    BY <1>10 DEF Arrive
  <2>2. flight[i] \in Segs
    BY <1>0
  <2>3. PcbsSound' /\ AppSound'
    BY <2>1, <2>2, <1>10, InputStep DEF Arrive
  <2>4. flight' \in Seq(Segs)
    BY <2>1, <1>0, RemoveAtLemma
  <2> QED BY <2>3, <2>4, <1>0, <1>10 DEF Arrive, TcpInv
<1>11. CASE Lose
  <2>1. flight' \in Seq(Segs)
    BY <1>11, <1>0, RemoveAtLemma DEF Lose
  <2> QED BY <2>1, <1>11 DEF Lose, TcpInv, PcbsSound, AppSound, AppIsRec
<1>12. CASE PeerSend
  <2>1. PICK c \in 1 .. conns : \E seg \in PeerSegments(c) : flight' = Append(flight, seg)
    BY <1>12 DEF PeerSend
  <2>2. PICK seg \in PeerSegments(c) : flight' = Append(flight, seg)
    BY <2>1
  <2>3. seg \in Segs
    BY <1>0, <2>2, PeerLemma
  <2>4. flight' \in Seq(Segs)
    BY <1>0, <2>2, <2>3
  <2> QED BY <2>4, <1>12 DEF PeerSend, TcpInv, PcbsSound, AppSound, AppIsRec
<1>13. CASE UNCHANGED TcpVars
  BY <1>13 DEF TcpVars, TcpInv, PcbsSound, AppSound, AppIsRec
<1> QED BY <1>1, <1>2, <1>3, <1>4, <1>5, <1>6, <1>7, <1>8, <1>9, <1>10, <1>11, <1>12, <1>13 DEF TcpNext

(* The acknowledgment number counts what was accepted, a connection sees    *)
(* its own bytes only, and until tcp_input runs in the middle of            *)
(* tcp_receive the buffer holds just what was acknowledged and not read, in *)
(* order: for any number of blocks, buffer size and answer, on a network    *)
(* that loses, repeats and reorders (tcp.c).                                *)
THEOREM TcpCorrect == TcpSpec => []StreamIntact
<1> QED BY TcpImplies, InitTcp, TcpStep, PTL DEF TcpSpec

-----------------------------------------------------------------------------
(* The card's rings. *)

DescRec == [dd : BOOLEAN, frame : Nat]
RingRec == [desc : [Index -> DescRec], head : Index, tail : Index, curr : Index, on : BOOLEAN]

CardTyped ==
    /\ tx \in RingRec /\ rx \in RingRec
    /\ card \in [st : {"off", "absent", "ready", "gone"}, link : BOOLEAN, resets : Nat]
    /\ wire.accepted \in Seq(Nat) /\ wire = [accepted |-> wire.accepted, sent |-> wire.sent, dropped |-> wire.dropped]
    /\ up.count \in Nat /\ up = [count |-> up.count, taken |-> up.taken, delivered |-> up.delivered]

(* The next index. *)
LEMMA NextIndex == ASSUME NEW i \in Index PROVE Next1(i) \in Index
BY RingAssumption DEF Index, Next1

(* Empty rings. *)
LEMMA EmptyRings == InitTx \in RingRec /\ InitRx \in RingRec
<1>1. 0 \in Index /\ Ring - 1 \in Index
  BY RingAssumption DEF Index
<1>2. Done(0) \in DescRec /\ Idle \in DescRec
  BY DEF Done, Idle, DescRec
<1>3. [i \in Index |-> Done(0)] \in [Index -> DescRec] /\ [i \in Index |-> Idle] \in [Index -> DescRec]
  BY <1>2
<1> QED BY <1>1, <1>3 DEF InitTx, InitRx, RingRec

(* A descriptor and the indices change. *)
LEMMA RingUpdate ==
    ASSUME NEW r \in RingRec, NEW i \in Index, NEW d \in DescRec, NEW h \in Index, NEW t \in Index, NEW c \in Index
    PROVE  /\ [r EXCEPT !.desc[i] = d, !.tail = t, !.curr = c] \in RingRec
           /\ [r EXCEPT !.desc[i] = d, !.curr = c, !.tail = t] \in RingRec
           /\ [r EXCEPT !.desc[i] = d, !.head = h] \in RingRec
<1>1. PICK D \in [Index -> DescRec] : D = [r.desc EXCEPT ![i] = d]
  BY DEF RingRec
<1>2. /\ [r EXCEPT !.desc = D, !.tail = t, !.curr = c] \in RingRec
      /\ [r EXCEPT !.desc = D, !.curr = c, !.tail = t] \in RingRec
      /\ [r EXCEPT !.desc = D, !.head = h] \in RingRec
  BY DEF RingRec
<1> QED BY <1>1, <1>2

(* Boot, and every step. *)
LEMMA CardTypes == /\ NetCardInit => CardTyped
                   /\ CardTyped /\ [NetCardNext]_CardVars => CardTyped'
<1>1. ASSUME NetCardInit PROVE CardTyped
  BY <1>1, EmptyRings DEF NetCardInit, CardTyped
<1>2. ASSUME CardTyped, [NetCardNext]_CardVars PROVE CardTyped'
  <2>0. /\ tx \in RingRec /\ rx \in RingRec /\ tx.curr \in Index /\ tx.head \in Index
        /\ rx.curr \in Index /\ rx.head \in Index /\ tx.desc \in [Index -> DescRec] /\ rx.desc \in [Index -> DescRec]
    BY <1>2 DEF CardTyped, RingRec
  <2>1. CASE CardInit
    BY <2>1, <1>2, EmptyRings DEF CardInit, CardTyped
  <2>2. CASE CardCleanup \/ LinkChanges
    BY <2>2, <1>2 DEF CardCleanup, LinkChanges, CardTyped
  <2>3. ASSUME NEW on \in BOOLEAN, CardEngines(on) PROVE CardTyped'
    <3>1. tx' \in RingRec /\ rx' \in RingRec
      BY <2>0, <2>3 DEF CardEngines, RingRec
    <3> QED BY <3>1, <1>2, <2>3 DEF CardEngines, CardTyped
  <2>4. CASE SendFrame
    <3>1. PICK d \in DescRec : d = [dd |-> FALSE, frame |-> Len(wire.accepted) + 1]
      <4>1. PICK k \in Nat : k = Len(wire.accepted) + 1
        BY <1>2 DEF CardTyped
      <4>2. [dd |-> FALSE, frame |-> k] \in DescRec
        BY DEF DescRec
      <4> QED BY <4>1, <4>2
    <3>2. tx' \in RingRec
      BY <2>0, <2>4, <3>1, RingUpdate, NextIndex DEF SendFrame
    <3>3. wire'.accepted \in Seq(Nat) /\ wire' = [accepted |-> wire'.accepted, sent |-> wire'.sent, dropped |-> wire'.dropped]
      <4>1. PICK a \in Seq(Nat) : a = Append(wire.accepted, Len(wire.accepted) + 1)
        <5>1. PICK q \in Seq(Nat) : q = wire.accepted
          BY <1>2 DEF CardTyped
        <5>2. Append(q, Len(q) + 1) \in Seq(Nat)
          OBVIOUS
        <5> QED BY <5>1, <5>2
      <4>2. wire' = [wire EXCEPT !.accepted = a]
        BY <2>4, <4>1 DEF SendFrame
      <4> QED BY <4>2, <1>2 DEF CardTyped
    <3> QED BY <3>2, <3>3, <1>2, <2>4 DEF SendFrame, CardTyped
  <2>5. CASE SendTimeout
    <3>1. card' \in [st : {"off", "absent", "ready", "gone"}, link : BOOLEAN, resets : Nat]
      BY <2>5, <1>2 DEF SendTimeout, CardTyped
    <3>2. wire'.accepted = wire.accepted /\ wire' = [accepted |-> wire'.accepted, sent |-> wire'.sent, dropped |-> wire'.dropped]
      BY <2>5, <1>2 DEF SendTimeout, CardTyped
    <3> QED BY <3>1, <3>2, <1>2, <2>5, EmptyRings DEF SendTimeout, CardTyped
  <2>6. CASE ReceiveFrame
    <3>1. PICK d \in DescRec : d = Idle
      BY DEF Idle, DescRec
    <3>2. rx' \in RingRec
      BY <2>0, <2>6, <3>1, RingUpdate, NextIndex DEF ReceiveFrame
    <3>3. up'.count = up.count /\ up' = [count |-> up'.count, taken |-> up'.taken, delivered |-> up'.delivered]
      BY <2>6, <1>2 DEF ReceiveFrame, CardTyped
    <3> QED BY <3>2, <3>3, <1>2, <2>6 DEF ReceiveFrame, CardTyped
  <2>7. CASE CardSends
    <3>1. PICK d \in DescRec : d = [tx.desc[tx.head] EXCEPT !.dd = TRUE]
      BY <2>0 DEF DescRec
    <3>2. tx' = [tx EXCEPT !.desc[tx.head] = d, !.head = Next1(tx.head)]
      BY <2>0, <2>7, <3>1 DEF CardSends
    <3>3. tx' \in RingRec
      BY <2>0, <3>2, RingUpdate, NextIndex
    <3>4. wire'.accepted = wire.accepted /\ wire' = [accepted |-> wire'.accepted, sent |-> wire'.sent, dropped |-> wire'.dropped]
      BY <2>7, <1>2 DEF CardSends, CardTyped
    <3> QED BY <3>3, <3>4, <1>2, <2>7 DEF CardSends, CardTyped
  <2>8. ASSUME NEW good \in BOOLEAN, CardReceives(good) PROVE CardTyped'
    <3>1. PICK d \in DescRec : d = Done(IF good THEN up.count + 1 ELSE 0)
      <4>1. PICK k \in Nat : k = IF good THEN up.count + 1 ELSE 0
        BY <1>2 DEF CardTyped
      <4>2. Done(k) \in DescRec
        BY DEF Done, DescRec
      <4> QED BY <4>1, <4>2
    <3>2. rx' = [rx EXCEPT !.desc[rx.head] = d, !.head = Next1(rx.head)]
      BY <2>8, <3>1 DEF CardReceives
    <3>3. rx' \in RingRec
      BY <2>0, <3>2, RingUpdate, NextIndex
    <3>4. up'.count = up.count + 1 /\ up' = [count |-> up'.count, taken |-> up'.taken, delivered |-> up'.delivered]
      BY <2>8, <1>2 DEF CardReceives, CardTyped
    <3> QED BY <3>3, <3>4, <1>2, <2>8 DEF CardReceives, CardTyped
  <2>9. CASE UNCHANGED CardVars
    BY <2>9, <1>2 DEF CardVars, CardTyped
  <2> QED BY <1>2, <2>1, <2>2, <2>3, <2>4, <2>5, <2>6, <2>7, <2>8, <2>9 DEF NetCardNext
<1> QED BY <1>1, <1>2

-----------------------------------------------------------------------------
(* The card's two queues.  Places in a ring are counted from an index on,   *)
(* so that a wrap-around is no special case.                                *)

Off(h, j) == IF j >= h THEN j - h ELSE j - h + Ring

(* The transmit ring holds the last n frames accepted, from the head on;    *)
(* the others were sent or dropped.                                         *)
TxHolds(n) ==
    /\ tx.tail = tx.curr /\ n <= Len(wire.accepted)
    /\ n < Ring => Off(tx.head, tx.tail) = n
    /\ n = Ring => tx.tail = tx.head
    /\ \A j \in Index :
          IF Off(tx.head, j) < n
          THEN ~tx.desc[j].dd /\ tx.desc[j].frame = Len(wire.accepted) - n + 1 + Off(tx.head, j)
          ELSE tx.desc[j].dd
    /\ Range(wire.sent) \cup wire.dropped = 1 .. Len(wire.accepted) - n

TxInv ==
    /\ \A i \in 1 .. Len(wire.accepted) : wire.accepted[i] = i
    /\ wire.sent \in Seq(Nat) /\ Ascending(wire.sent)
    /\ \E n \in 0 .. Ring : TxHolds(n)

Filled(j) == Off(rx.curr, j) < Off(rx.curr, rx.head)

(* The receive ring is filled from rx.curr on, with ascending frames, and   *)
(* one descriptor is never the card's.                                      *)
RxHolds ==
    /\ Off(rx.curr, rx.tail) = Ring - 1
    /\ \A j \in Index : (Filled(j) <=> rx.desc[j].dd) /\ rx.desc[j].frame <= up.count
    /\ \A i, j \in Index :
          /\ Off(rx.curr, i) < Off(rx.curr, j) /\ Filled(j)
          /\ rx.desc[i].frame > 0 /\ rx.desc[j].frame > 0
          => rx.desc[i].frame < rx.desc[j].frame

RxInv ==
    /\ up.taken \in Seq(Nat) /\ up.delivered \in Seq(Nat)
    /\ Ascending(up.taken) /\ \A i \in 1 .. Len(up.taken) : up.taken[i] \in 1 .. up.count
    /\ Len(up.delivered) <= Len(up.taken)
    /\ \A i \in 1 .. Len(up.delivered) : up.delivered[i] = up.taken[i]
    /\ RxHolds
    /\ \A f \in Nat \ {0} : (\E i \in Len(up.delivered) + 1 .. Len(up.taken) : up.taken[i] = f)
                            <=> (\E j \in Index : Filled(j) /\ rx.desc[j].frame = f)

CardInv ==
    /\ CardTyped /\ TxInv /\ RxInv
    /\ card.st = "off" => tx = InitTx /\ rx = InitRx

(* Counting from an index on is one to one and follows a step of either. *)
LEMMA OffFacts ==
    ASSUME NEW h \in Index, NEW j \in Index
    PROVE  /\ Off(h, j) \in Nat /\ Off(h, j) < Ring
           /\ Off(h, h) = 0
           /\ \A i \in Index : Off(h, i) = Off(h, j) => i = j
           /\ Off(Next1(h), j) = IF j = h THEN Ring - 1 ELSE Off(h, j) - 1
           /\ Off(h, Next1(j)) = IF Off(h, j) = Ring - 1 THEN 0 ELSE Off(h, j) + 1
<1>1. Ring \in Nat \ {0, 1} /\ h \in 0 .. Ring - 1 /\ j \in 0 .. Ring - 1
  BY RingAssumption DEF Index
<1>2. /\ Next1(h) = IF h = Ring - 1 THEN 0 ELSE h + 1
      /\ Next1(j) = IF j = Ring - 1 THEN 0 ELSE j + 1
  <2>1. \A k \in 0 .. 2 * Ring - 1 : k % Ring = IF k < Ring THEN k ELSE k - Ring
    BY <1>1, ModOnce
  <2>2. h + 1 \in 0 .. 2 * Ring - 1 /\ j + 1 \in 0 .. 2 * Ring - 1
    BY <1>1
  <2> QED BY <1>1, <2>1, <2>2 DEF Next1
<1>3. \A i \in Index : Off(h, i) = Off(h, j) => i = j
  BY <1>1 DEF Off, Index
<1> QED BY <1>1, <1>2, <1>3 DEF Off

(* Every place is reached. *)
LEMMA OffOnto == ASSUME NEW h \in Index, NEW o \in Nat, o < Ring PROVE \E j \in Index : Off(h, j) = o
<1>0. Ring \in Nat /\ h \in Nat /\ h < Ring
  BY RingAssumption DEF Index
<1>1. PICK j \in Nat : j = IF h + o < Ring THEN h + o ELSE h + o - Ring
  BY <1>0
<1>2. j \in Index /\ Off(h, j) = o
  BY <1>0, <1>1 DEF Off, Index
<1> QED BY <1>2

(* What the card's types say of the fields. *)
LEMMA CardFields ==
    ASSUME CardTyped
    PROVE  /\ tx.head \in Index /\ tx.tail \in Index /\ tx.curr \in Index /\ tx.on \in BOOLEAN
           /\ rx.head \in Index /\ rx.tail \in Index /\ rx.curr \in Index /\ rx.on \in BOOLEAN
           /\ tx.desc \in [Index -> DescRec] /\ rx.desc \in [Index -> DescRec]
           /\ \A j \in Index : tx.desc[j].frame \in Nat /\ rx.desc[j].frame \in Nat
           /\ wire.accepted \in Seq(Nat) /\ Len(wire.accepted) \in Nat /\ up.count \in Nat
<1>1. tx \in RingRec /\ rx \in RingRec /\ wire.accepted \in Seq(Nat) /\ up.count \in Nat
  BY DEF CardTyped
<1>2. tx.desc \in [Index -> DescRec] /\ rx.desc \in [Index -> DescRec]
  BY <1>1 DEF RingRec
<1>3. \A j \in Index : tx.desc[j].frame \in Nat /\ rx.desc[j].frame \in Nat
  BY <1>2 DEF DescRec
<1> QED BY <1>1, <1>2, <1>3 DEF RingRec

(* Empty queues. *)
LEMMA InitCard == NetCardInit => CardInv
<1> SUFFICES ASSUME NetCardInit PROVE CardInv
  OBVIOUS
<1>0. CardTyped /\ Ring \in Nat \ {0, 1} /\ 0 \in Index /\ Ring - 1 \in Index
  BY CardTypes, RingAssumption DEF Index
<1>1. /\ wire.accepted = <<>> /\ wire.sent = <<>> /\ wire.dropped = {}
      /\ up.taken = <<>> /\ up.delivered = <<>> /\ up.count = 0
      /\ tx.head = 0 /\ tx.tail = 0 /\ tx.curr = 0 /\ rx.head = 0 /\ rx.tail = Ring - 1 /\ rx.curr = 0
  BY DEF NetCardInit, InitTx, InitRx
<1>2. \A j \in Index : tx.desc[j].dd /\ ~rx.desc[j].dd /\ rx.desc[j].frame = 0
  BY DEF NetCardInit, InitTx, InitRx, Done, Idle
<1>3. \A j \in Index : Off(0, j) = j /\ j \in Nat
  BY DEF Off, Index
<1>4. Range(wire.sent) = {}
  BY <1>1 DEF Range
<1>5. TxHolds(0)
  BY <1>0, <1>1, <1>2, <1>3, <1>4 DEF TxHolds
<1>6. TxInv
  BY <1>0, <1>1, <1>5 DEF TxInv, Ascending
<1>7. \A j \in Index : ~Filled(j)
  BY <1>0, <1>1, <1>3 DEF Filled
<1>8. RxHolds
  BY <1>0, <1>1, <1>2, <1>3, <1>7 DEF RxHolds
<1>9. RxInv
  BY <1>0, <1>1, <1>7, <1>8 DEF RxInv, Ascending
<1> QED BY <1>0, <1>6, <1>9 DEF CardInv, NetCardInit

(* The frames in the ring are the last n accepted. *)
LEMMA PendingFrames ==
    ASSUME CardTyped, NEW n \in 0 .. Ring, TxHolds(n)
    PROVE  Pending = Len(wire.accepted) - n + 1 .. Len(wire.accepted)
<1>k. PICK k \in Nat : k = Len(wire.accepted)
  BY CardFields
<1>0. Ring \in Nat \ {0, 1} /\ k \in Nat /\ n \in Nat /\ n <= Ring /\ tx.head \in Index /\ n <= k
  BY <1>k, RingAssumption, CardFields DEF TxHolds
<1>1. ASSUME NEW f \in Pending PROVE f \in k - n + 1 .. k
  <2>1. PICK j \in Index : ~tx.desc[j].dd /\ f = tx.desc[j].frame
    BY DEF Pending
  <2>2. Off(tx.head, j) < n /\ f = k - n + 1 + Off(tx.head, j)
    BY <2>1, <1>k DEF TxHolds
  <2> QED BY <1>0, <2>2, OffFacts
<1>2. ASSUME NEW f \in k - n + 1 .. k PROVE f \in Pending
  <2>1. PICK o \in Nat : o = f - (k - n + 1) /\ o < n /\ f = k - n + 1 + o
    BY <1>0
  <2>2. PICK j \in Index : Off(tx.head, j) = o
    BY <1>0, <2>1, OffOnto
  <2>3. ~tx.desc[j].dd /\ tx.desc[j].frame = f
    BY <2>1, <2>2, <1>k DEF TxHolds
  <2> QED BY <2>3 DEF Pending
<1> QED BY <1>1, <1>2, <1>k

(* A greater number behind an ascending sequence. *)
LEMMA AscendingAppend ==
    ASSUME NEW s \in Seq(Nat), Ascending(s), NEW x \in Nat, \A i \in 1 .. Len(s) : s[i] < x
    PROVE  Ascending(Append(s, x))
<1>1. /\ Len(s) \in Nat /\ Len(Append(s, x)) = Len(s) + 1
      /\ \A i \in 1 .. Len(s) : Append(s, x)[i] = s[i]
      /\ Append(s, x)[Len(s) + 1] = x
  BY AppendProperties, LenProperties
<1> QED BY <1>1 DEF Ascending

(* e1000_send_packet fills the descriptor behind the last. *)
LEMMA SendKeeps == CardInv /\ SendFrame => TxInv'
<1> SUFFICES ASSUME CardInv, SendFrame PROVE TxInv'
  OBVIOUS
<1>t. CardTyped /\ TxInv
  BY DEF CardInv
<1> DEFINE c == tx.curr
<1>k. PICK k \in Nat : k = Len(wire.accepted)
  BY <1>t, CardFields
<1>0. /\ Ring \in Nat \ {0, 1} /\ k \in Nat /\ tx.head \in Index /\ c \in Index /\ tx.tail \in Index
      /\ tx.desc \in [Index -> DescRec] /\ wire.accepted \in Seq(Nat)
  BY <1>t, RingAssumption, CardFields
<1>1. PICK n \in 0 .. Ring : TxHolds(n)
  BY <1>t DEF TxInv
<1>2. /\ tx' = [tx EXCEPT !.desc[c] = [dd |-> FALSE, frame |-> k + 1], !.tail = Next1(c), !.curr = Next1(c)]
      /\ wire' = [wire EXCEPT !.accepted = Append(wire.accepted, k + 1)]
      /\ tx.desc[c].dd
  BY <1>k DEF SendFrame
<1>3. /\ tx'.head = tx.head /\ tx'.tail = Next1(c) /\ tx'.curr = Next1(c)
      /\ tx'.desc = [tx.desc EXCEPT ![c] = [dd |-> FALSE, frame |-> k + 1]]
  BY <1>t, <1>2 DEF CardTyped, RingRec
<1>4. wire'.accepted = Append(wire.accepted, k + 1) /\ wire'.sent = wire.sent /\ wire'.dropped = wire.dropped
  BY <1>t, <1>2 DEF CardTyped
<1>5. /\ Len(wire'.accepted) = k + 1 /\ \A i \in 1 .. k : wire'.accepted[i] = wire.accepted[i]
      /\ wire'.accepted[k + 1] = k + 1
  BY <1>k, <1>4, <1>0, AppendProperties
<1>6. n < Ring /\ Off(tx.head, c) = n /\ c = tx.tail /\ n \in Nat /\ n <= k
  <2>1. tx.tail = c /\ n <= k
    BY <1>1, <1>k DEF TxHolds
  <2>2. ~(Off(tx.head, c) < n)
    BY <1>1, <1>2, <1>0 DEF TxHolds
  <2>3. n # Ring
    BY <2>2, <1>0, OffFacts
  <2> QED BY <2>1, <2>3, <1>0, <1>1 DEF TxHolds
<1>7. TxHolds(n + 1)'
  <2>1. tx'.tail = tx'.curr /\ n + 1 <= Len(wire'.accepted)
    BY <1>3, <1>5, <1>6, <1>0
  <2>2. n + 1 < Ring => Off(tx'.head, tx'.tail) = n + 1
    <3>1. Off(tx.head, Next1(c)) = IF Off(tx.head, c) = Ring - 1 THEN 0 ELSE Off(tx.head, c) + 1
      BY <1>0, OffFacts
    <3> QED BY <3>1, <1>3, <1>6, <1>0
  <2>3. n + 1 = Ring => tx'.tail = tx'.head
    <3>1. n + 1 = Ring => Off(tx.head, Next1(c)) = 0
      BY <1>6, <1>0, OffFacts
    <3>2. Next1(c) \in Index /\ Off(tx.head, tx.head) = 0
      BY <1>0, NextIndex, OffFacts
    <3> QED BY <3>1, <3>2, <1>3, <1>0, OffFacts
  <2>4. ASSUME NEW j \in Index
        PROVE  IF Off(tx.head, j) < n + 1
               THEN ~tx'.desc[j].dd /\ tx'.desc[j].frame = k - n + 1 + Off(tx.head, j)
               ELSE tx'.desc[j].dd
    <3>1. CASE j = c
      BY <3>1, <1>0, <1>3, <1>6
    <3>2. CASE j # c
      <4>1. Off(tx.head, j) # n /\ Off(tx.head, j) \in Nat
        BY <3>2, <1>0, <1>6, OffFacts
      <4>2. tx'.desc[j] = tx.desc[j]
        BY <3>2, <1>0, <1>3
      <4>3. IF Off(tx.head, j) < n THEN ~tx.desc[j].dd /\ tx.desc[j].frame = k - n + 1 + Off(tx.head, j) ELSE tx.desc[j].dd
        BY <1>1, <1>k DEF TxHolds
      <4> QED BY <4>1, <4>2, <4>3, <1>6
    <3> QED BY <3>1, <3>2
  <2>5. Len(wire'.accepted) - (n + 1) = k - n
    BY <1>5, <1>0, <1>6
  <2>6. Range(wire'.sent) \cup wire'.dropped = 1 .. Len(wire'.accepted) - (n + 1)
    BY <2>5, <1>4, <1>1, <1>k DEF TxHolds
  <2> QED BY <2>1, <2>2, <2>3, <2>4, <2>5, <2>6, <1>3 DEF TxHolds
<1>8. \A i \in 1 .. Len(wire'.accepted) : wire'.accepted[i] = i
  <2>1. ASSUME NEW i \in 1 .. k + 1 PROVE wire'.accepted[i] = i
    <3>1. CASE i = k + 1
      BY <3>1, <1>5
    <3>2. CASE i \in 1 .. k
      BY <3>2, <1>5, <1>k, <1>t DEF TxInv
    <3> QED BY <3>1, <3>2, <1>0
  <2> QED BY <2>1, <1>5
<1>9. n + 1 \in 0 .. Ring
  BY <1>6, <1>0
<1> QED BY <1>7, <1>8, <1>9, <1>4, <1>t DEF TxInv

(* The reset drops what is in the ring. *)
LEMMA TimeoutKeeps == CardInv /\ SendTimeout => TxInv'
<1> SUFFICES ASSUME CardInv, SendTimeout PROVE TxInv'
  OBVIOUS
<1>t. CardTyped /\ TxInv
  BY DEF CardInv
<1>0. Ring \in Nat \ {0, 1} /\ Len(wire.accepted) \in Nat /\ 0 \in Index
  BY <1>t, RingAssumption, CardFields DEF Index
<1>1. PICK n \in 0 .. Ring : TxHolds(n)
  BY <1>t DEF TxInv
<1>2. wire'.accepted = wire.accepted /\ wire'.sent = wire.sent /\ wire'.dropped = wire.dropped \cup Pending
  BY <1>t DEF SendTimeout, CardTyped
<1>3. /\ tx'.head = 0 /\ tx'.tail = 0 /\ tx'.curr = 0 /\ \A j \in Index : tx'.desc[j].dd
  BY DEF SendTimeout, InitTx, Done
<1>4. Range(wire'.sent) \cup wire'.dropped = 1 .. Len(wire.accepted)
  BY <1>0, <1>1, <1>2, <1>t, PendingFrames DEF TxHolds
<1>5. \A j \in Index : Off(0, j) = j /\ j \in Nat
  BY DEF Off, Index
<1>6. TxHolds(0)'
  BY <1>0, <1>2, <1>3, <1>4, <1>5 DEF TxHolds
<1> QED BY <1>0, <1>6, <1>2, <1>t DEF TxInv

(* The card sends the oldest frame of the ring. *)
LEMMA CardSendsKeeps == CardInv /\ CardSends => TxInv'
<1> SUFFICES ASSUME CardInv, CardSends PROVE TxInv'
  OBVIOUS
<1>t. CardTyped /\ TxInv
  BY DEF CardInv
<1>k. PICK k \in Nat : k = Len(wire.accepted)
  BY <1>t, CardFields
<1>h. PICK h \in Index : h = tx.head
  BY <1>t, CardFields
<1>0. /\ Ring \in Nat \ {0, 1} /\ k \in Nat /\ h \in Index /\ tx.tail \in Index /\ Next1(h) \in Index
      /\ tx.desc \in [Index -> DescRec] /\ wire.sent \in Seq(Nat) /\ h # tx.tail
  BY <1>t, <1>h, RingAssumption, CardFields, NextIndex DEF TxInv, CardSends
<1>1. PICK n \in 0 .. Ring : TxHolds(n)
  BY <1>t DEF TxInv
<1>2. n \in 1 .. Ring - 1 /\ n <= k /\ Off(h, tx.tail) = n
  <2>1. n # Ring /\ n <= k
    BY <1>0, <1>1, <1>h, <1>k DEF TxHolds
  <2>2. Off(h, tx.tail) = n
    BY <1>0, <1>1, <1>h, <2>1 DEF TxHolds
  <2>3. n # 0
    BY <2>2, <1>0, OffFacts
  <2> QED BY <2>1, <2>2, <2>3, <1>0
<1>3. /\ tx'.head = Next1(h) /\ tx'.tail = tx.tail /\ tx'.curr = tx.curr
      /\ tx'.desc = [tx.desc EXCEPT ![h].dd = TRUE]
  BY <1>t, <1>h DEF CardSends, CardTyped, RingRec
<1>4. /\ wire'.accepted = wire.accepted /\ wire'.dropped = wire.dropped
      /\ wire'.sent = Append(wire.sent, tx.desc[h].frame)
  BY <1>t, <1>h DEF CardSends, CardTyped
<1>5. tx.desc[h].frame = k - n + 1 /\ k - n + 1 \in Nat
  <2>1. Off(h, h) < n /\ Off(h, h) = 0
    BY <1>0, <1>2, OffFacts
  <2> QED BY <2>1, <1>0, <1>1, <1>2, <1>h, <1>k DEF TxHolds
<1>6. /\ Append(wire.sent, k - n + 1) \in Seq(Nat)
      /\ Range(Append(wire.sent, k - n + 1)) = Range(wire.sent) \cup {k - n + 1}
  BY <1>0, <1>5, AppendRange
<1>7. Ascending(wire'.sent)
  <2>1. ASSUME NEW i \in 1 .. Len(wire.sent) PROVE wire.sent[i] < k - n + 1
    <3>1. wire.sent[i] \in Range(wire.sent)
      BY <1>0, LenProperties DEF Range
    <3>2. wire.sent[i] \in 1 .. k - n
      BY <3>1, <1>1, <1>k DEF TxHolds
    <3> QED BY <3>2, <1>0, <1>2
  <2> QED BY <2>1, <1>0, <1>t, <1>4, <1>5, AscendingAppend DEF TxInv
<1>8. TxHolds(n - 1)'
  <2>1. tx'.tail = tx'.curr /\ n - 1 <= Len(wire'.accepted) /\ n - 1 < Ring
    BY <1>0, <1>1, <1>2, <1>3, <1>4, <1>k DEF TxHolds
  <2>2. Off(tx'.head, tx'.tail) = n - 1
    BY <1>0, <1>2, <1>3, OffFacts
  <2>3. ASSUME NEW j \in Index
        PROVE  IF Off(Next1(h), j) < n - 1
               THEN ~tx'.desc[j].dd /\ tx'.desc[j].frame = k - (n - 1) + 1 + Off(Next1(h), j)
               ELSE tx'.desc[j].dd
    <3>1. CASE j = h
      <4>1. Off(Next1(h), j) = Ring - 1 /\ tx'.desc[j].dd
        BY <3>1, <1>0, <1>3, OffFacts DEF DescRec
      <4> QED BY <4>1, <1>0, <1>2
    <3>2. CASE j # h
      <4>1. Off(Next1(h), j) = Off(h, j) - 1 /\ Off(h, j) \in Nat
        BY <3>2, <1>0, OffFacts
      <4>2. tx'.desc[j] = tx.desc[j]
        BY <3>2, <1>0, <1>3
      <4>3. IF Off(h, j) < n THEN ~tx.desc[j].dd /\ tx.desc[j].frame = k - n + 1 + Off(h, j) ELSE tx.desc[j].dd
        BY <1>1, <1>h, <1>k DEF TxHolds
      <4>4. PICK o \in Nat : o = Off(h, j)
        BY <4>1
      <4>n. n \in Nat /\ k \in Nat
        BY <1>0, <1>2
      <4>5. Off(Next1(h), j) = o - 1
        BY <4>1, <4>4
      <4>6. (o - 1 < n - 1 => o < n) /\ (o < n => o - 1 < n - 1)
        BY <4>4, <4>n
      <4>7. k - (n - 1) + 1 + (o - 1) = k - n + 1 + o
        BY <4>4, <4>n
      <4> QED BY <4>2, <4>3, <4>4, <4>5, <4>6, <4>7
    <3> QED BY <3>1, <3>2
  <2>4. Range(wire'.sent) \cup wire'.dropped = 1 .. k - (n - 1)
    <3>1. Range(wire.sent) \cup wire.dropped = 1 .. k - n
      BY <1>1, <1>k DEF TxHolds
    <3>2. 1 .. k - (n - 1) = (1 .. k - n) \cup {k - n + 1}
      BY <1>0, <1>2
    <3> QED BY <3>1, <3>2, <1>4, <1>5, <1>6
  <2> QED BY <2>1, <2>2, <2>3, <2>4, <1>3, <1>4, <1>k, <1>2 DEF TxHolds
<1>9. n - 1 \in 0 .. Ring
  BY <1>2, <1>0
<1> QED BY <1>4, <1>5, <1>6, <1>7, <1>8, <1>9, <1>t DEF TxInv

(* The other actions leave the transmit queue alone. *)
LEMMA TxKept ==
    ASSUME TxInv, UNCHANGED wire, tx'.head = tx.head, tx'.tail = tx.tail, tx'.curr = tx.curr, tx'.desc = tx.desc
    PROVE  TxInv'
<1>1. wire' = wire
  OBVIOUS
<1>2. \A n : TxHolds(n) => TxHolds(n)'
  BY DEF TxHolds
<1>3. PICK n \in 0 .. Ring : TxHolds(n)
  BY DEF TxInv
<1> QED BY <1>1, <1>2, <1>3 DEF TxInv

(* e1000_receive_packet takes the oldest frame of the ring. *)
LEMMA ReceiveKeeps == CardInv /\ ReceiveFrame => RxInv'
<1> SUFFICES ASSUME CardInv, ReceiveFrame PROVE RxInv'
  OBVIOUS
<1>t. CardTyped /\ RxInv /\ RxHolds
  BY DEF CardInv, RxInv
<1>c. PICK c \in Index : c = rx.curr
  BY <1>t, CardFields
<1>f. PICK f \in Nat : f = rx.desc[c].frame
  BY <1>t, CardFields
<1>k. PICK k \in Nat : k = up.count
  BY <1>t, CardFields
<1>l. PICK l \in Nat, d \in Nat : l = Len(up.taken) /\ d = Len(up.delivered) /\ d <= l
  BY <1>t, LenProperties DEF RxInv
<1>n. PICK n \in Nat : n = Off(c, rx.head) /\ n < Ring
  BY <1>c, <1>t, CardFields, OffFacts
<1>0. /\ Ring \in Nat \ {0, 1} /\ rx.head \in Index /\ rx.tail \in Index /\ Next1(c) \in Index
      /\ rx.desc \in [Index -> DescRec] /\ up.taken \in Seq(Nat) /\ up.delivered \in Seq(Nat)
  BY <1>t, RingAssumption, CardFields, NextIndex DEF RxInv
<1>1. /\ rx'.head = rx.head /\ rx'.tail = c /\ rx'.curr = Next1(c)
      /\ rx'.desc = [rx.desc EXCEPT ![c] = Idle]
  BY <1>t, <1>c DEF ReceiveFrame, CardTyped, RingRec
<1>2. /\ up'.count = k /\ up'.taken = up.taken
      /\ up'.delivered = IF f > 0 THEN Append(up.delivered, f) ELSE up.delivered
  BY <1>t, <1>c, <1>f, <1>k DEF ReceiveFrame, CardTyped
<1>3. /\ \A j \in Index : Filled(j) <=> Off(c, j) < n
      /\ \A j \in Index : Filled(j)' <=> j # c /\ Off(c, j) < n
      /\ n > 0 /\ Filled(c)
  <2>1. \A j \in Index : Filled(j) <=> Off(c, j) < n
    BY <1>c, <1>n DEF Filled
  <2>2. rx.desc[c].dd
    BY <1>c DEF ReceiveFrame
  <2>3. Filled(c) /\ Off(c, c) = 0
    BY <2>2, <1>t, <1>c, OffFacts DEF RxHolds
  <2>4. n > 0
    BY <2>1, <2>3, <1>n
  <2>5. Off(Next1(c), rx.head) = n - 1
    <3>1. rx.head # c
      BY <2>4, <2>3, <1>n
    <3> QED BY <3>1, <1>0, <1>n, OffFacts
  <2>6. ASSUME NEW j \in Index PROVE Filled(j)' <=> j # c /\ Off(c, j) < n
    <3>1. Filled(j)' <=> Off(Next1(c), j) < n - 1
      BY <2>5, <1>1 DEF Filled
    <3>2. CASE j = c
      <4>1. Off(Next1(c), j) = Ring - 1
        BY <3>2, OffFacts
      <4> QED BY <3>1, <3>2, <4>1, <1>n, <1>0
    <3>3. CASE j # c
      <4>1. Off(Next1(c), j) = Off(c, j) - 1 /\ Off(c, j) \in Nat
        BY <3>3, OffFacts
      <4> QED BY <3>1, <3>3, <4>1, <1>n, <1>0
    <3> QED BY <3>2, <3>3
  <2> QED BY <2>1, <2>3, <2>4, <2>6
<1>4. \A j \in Index : j # c => rx'.desc[j] = rx.desc[j]
  BY <1>0, <1>1
<1>5. rx'.desc[c].frame = 0 /\ ~rx'.desc[c].dd
  BY <1>0, <1>1 DEF Idle
<1>6. RxHolds'
  <2>1. Off(rx'.curr, rx'.tail) = Ring - 1
    BY <1>1, OffFacts
  <2>2. ASSUME NEW j \in Index PROVE (Filled(j)' <=> rx'.desc[j].dd) /\ rx'.desc[j].frame <= up'.count
    <3>1. CASE j = c
      BY <3>1, <1>2, <1>3, <1>5, <1>k
    <3>2. CASE j # c
      BY <3>2, <1>2, <1>3, <1>4, <1>k, <1>t DEF RxHolds
    <3> QED BY <3>1, <3>2
  <2>3. ASSUME NEW i \in Index, NEW j \in Index, Off(Next1(c), i) < Off(Next1(c), j), Filled(j)',
               rx'.desc[i].frame > 0, rx'.desc[j].frame > 0
        PROVE  rx'.desc[i].frame < rx'.desc[j].frame
    <3>1. i # c /\ j # c
      BY <2>3, <1>5
    <3>2. /\ Off(Next1(c), i) = Off(c, i) - 1 /\ Off(c, i) \in Nat
          /\ Off(Next1(c), j) = Off(c, j) - 1 /\ Off(c, j) \in Nat
      BY <3>1, OffFacts
    <3>3. Off(c, i) < Off(c, j)
      BY <2>3, <3>2
    <3> QED BY <3>1, <3>3, <1>3, <1>4, <2>3, <1>c, <1>t DEF RxHolds
  <2> QED BY <2>1, <2>2, <2>3, <1>1 DEF RxHolds
<1>7. \A g \in Nat \ {0} : (\E i \in d + 1 .. l : up.taken[i] = g)
                          <=> (\E j \in Index : Filled(j) /\ rx.desc[j].frame = g)
  BY <1>l, <1>t DEF RxInv
<1>8. CASE f = 0
  <2>1. up'.delivered = up.delivered
    BY <1>8, <1>2
  <2>2. \A g \in Nat \ {0} : (\E j \in Index : Filled(j) /\ rx.desc[j].frame = g)
                          <=> (\E j \in Index : Filled(j)' /\ rx'.desc[j].frame = g)
    BY <1>3, <1>4, <1>8, <1>f
  <2>3. \A g \in Nat \ {0} : (\E i \in d + 1 .. l : up.taken[i] = g)
                          <=> (\E j \in Index : Filled(j)' /\ rx'.desc[j].frame = g)
    BY <2>2, <1>7
  <2> QED BY <2>1, <2>3, <1>2, <1>6, <1>k, <1>l, <1>t DEF RxInv
<1>9. CASE f > 0
  <2>0. /\ up'.delivered = Append(up.delivered, f) /\ up'.delivered \in Seq(Nat)
        /\ Len(up'.delivered) = d + 1
        /\ \A i \in 1 .. d : up'.delivered[i] = up.delivered[i]
        /\ up'.delivered[d + 1] = f
    BY <1>9, <1>0, <1>2, <1>l, AppendProperties
  <2>1. \A i, j \in 1 .. l : i < j => up.taken[i] < up.taken[j]
    BY <1>l, <1>t DEF RxInv, Ascending
  <2>2. \A i \in 1 .. l : up.taken[i] \in Nat \ {0}
    BY <1>l, <1>k, <1>t DEF RxInv
  <2>3. ASSUME NEW j \in Index, Filled(j), j # c, rx.desc[j].frame > 0
        PROVE  f < rx.desc[j].frame
    <3>1. Off(c, c) = 0 /\ Off(c, j) \in Nat /\ Off(c, j) # 0
      BY <2>3, OffFacts
    <3>2. Off(c, c) < Off(c, j)
      BY <3>1
    <3> QED BY <2>3, <3>2, <1>9, <1>c, <1>f, <1>t DEF RxHolds
  <2>4. d + 1 <= l /\ up.taken[d + 1] = f
    <3>1. PICK m \in d + 1 .. l : up.taken[m] = f
      <4>1. f \in Nat \ {0} /\ \E j \in Index : Filled(j) /\ rx.desc[j].frame = f
        BY <1>3, <1>f, <1>9
      <4> QED BY <4>1, <1>7
    <3>2. PICK g \in Nat \ {0} : g = up.taken[d + 1]
      BY <2>2, <3>1, <1>l
    <3>3. PICK j \in Index : Filled(j) /\ rx.desc[j].frame = g
      <4>1. d + 1 \in d + 1 .. l
        BY <3>1, <1>l
      <4> QED BY <4>1, <3>2, <1>7
    <3>4. f <= g
      BY <2>3, <3>2, <3>3, <1>f
    <3>5. m > d + 1 => g < f
      BY <2>1, <3>1, <3>2, <1>l
    <3> QED BY <3>1, <3>2, <3>4, <3>5, <1>l
  <2>5. \A i \in 1 .. Len(up'.delivered) : up'.delivered[i] = up'.taken[i]
    <3>1. ASSUME NEW i \in 1 .. d + 1 PROVE up'.delivered[i] = up.taken[i]
      <4>1. CASE i = d + 1
        BY <4>1, <2>0, <2>4
      <4>2. CASE i \in 1 .. d
        BY <4>2, <2>0, <1>l, <1>t DEF RxInv
      <4> QED BY <4>1, <4>2, <1>l
    <3> QED BY <3>1, <2>0, <1>2
  <2>6. ASSUME NEW g \in Nat \ {0}
        PROVE  (\E i \in d + 2 .. l : up.taken[i] = g) <=> (\E j \in Index : Filled(j)' /\ rx'.desc[j].frame = g)
    <3>1. ASSUME NEW i \in d + 2 .. l, up.taken[i] = g
          PROVE  \E j \in Index : Filled(j)' /\ rx'.desc[j].frame = g
      <4>1. g > f
        BY <3>1, <2>1, <2>4, <1>l
      <4>2. i \in d + 1 .. l
        BY <1>l
      <4>3. PICK j \in Index : Filled(j) /\ rx.desc[j].frame = g
        BY <4>2, <3>1, <1>7
      <4>4. j # c
        BY <4>1, <4>3, <1>f
      <4> QED BY <4>3, <4>4, <1>3, <1>4
    <3>2. ASSUME NEW j \in Index, Filled(j)', rx'.desc[j].frame = g
          PROVE  \E i \in d + 2 .. l : up.taken[i] = g
      <4>1. j # c /\ Filled(j) /\ rx.desc[j].frame = g
        BY <3>2, <1>3, <1>4
      <4>2. f < g
        BY <4>1, <2>3
      <4>3. PICK i \in d + 1 .. l : up.taken[i] = g
        BY <4>1, <1>7
      <4>4. i # d + 1
        BY <4>2, <4>3, <2>4, <1>f
      <4>5. i \in d + 2 .. l
        BY <4>3, <4>4, <1>l
      <4> QED BY <4>3, <4>5
    <3> QED BY <3>1, <3>2
  <2>7. Len(up'.delivered) + 1 = d + 2 /\ Len(up'.delivered) <= Len(up'.taken) /\ Len(up'.taken) = l
    BY <2>0, <2>4, <1>2, <1>l
  <2>8. \A g \in Nat \ {0} : (\E i \in Len(up'.delivered) + 1 .. Len(up'.taken) : up'.taken[i] = g)
                          <=> (\E j \in Index : Filled(j)' /\ rx'.desc[j].frame = g)
    BY <2>6, <2>7, <1>2
  <2> QED BY <2>0, <2>5, <2>7, <2>8, <1>2, <1>6, <1>k, <1>t DEF RxInv
<1> QED BY <1>8, <1>9, <1>f

(* The card fills the descriptor behind the last, if it is not the tail. *)
LEMMA CardReceivesKeeps == CardInv /\ (\E good \in BOOLEAN : CardReceives(good)) => RxInv'
<1> SUFFICES ASSUME CardInv, NEW good \in BOOLEAN, CardReceives(good) PROVE RxInv'
  OBVIOUS
<1>t. CardTyped /\ RxInv /\ RxHolds
  BY DEF CardInv, RxInv
<1>c. PICK c \in Index, h \in Index : c = rx.curr /\ h = rx.head
  BY <1>t, CardFields
<1>k. PICK k \in Nat : k = up.count
  BY <1>t, CardFields
<1>f. PICK f \in Nat : f = IF good THEN k + 1 ELSE 0
  BY <1>k
<1>l. PICK l \in Nat, d \in Nat : l = Len(up.taken) /\ d = Len(up.delivered) /\ d <= l
  BY <1>t, LenProperties DEF RxInv
<1>n. PICK n \in Nat : n = Off(c, h)
  BY <1>c, OffFacts
<1>0. /\ Ring \in Nat \ {0, 1} /\ rx.tail \in Index /\ rx.desc \in [Index -> DescRec]
      /\ up.taken \in Seq(Nat) /\ up.delivered \in Seq(Nat)
  BY <1>t, RingAssumption, CardFields DEF RxInv
<1>1. /\ rx'.head = Next1(h) /\ rx'.tail = rx.tail /\ rx'.curr = c
      /\ rx'.desc = [rx.desc EXCEPT ![h] = Done(f)]
  BY <1>t, <1>c, <1>k, <1>f DEF CardReceives, CardTyped, RingRec
<1>2. /\ up'.count = k + 1 /\ up'.delivered = up.delivered
      /\ up'.taken = IF good THEN Append(up.taken, k + 1) ELSE up.taken
  BY <1>t, <1>k DEF CardReceives, CardTyped
<1>3. /\ \A j \in Index : Filled(j) <=> Off(c, j) < n
      /\ \A j \in Index : Filled(j)' <=> Off(c, j) < n \/ j = h
      /\ ~Filled(h)
  <2>1. \A j \in Index : Filled(j) <=> Off(c, j) < n
    BY <1>c, <1>n DEF Filled
  <2>2. n # Ring - 1
    <3>1. rx.tail # h /\ Off(c, rx.tail) = Ring - 1
      BY <1>c, <1>t DEF CardReceives, RxHolds
    <3> QED BY <3>1, <1>0, <1>n, OffFacts
  <2>3. Off(c, Next1(h)) = n + 1
    BY <2>2, <1>n, OffFacts
  <2>4. ASSUME NEW j \in Index PROVE Filled(j)' <=> Off(c, j) < n \/ j = h
    <3>1. Filled(j)' <=> Off(c, j) < n + 1
      BY <2>3, <1>1 DEF Filled
    <3>2. Off(c, j) \in Nat /\ (Off(c, j) = n <=> j = h)
      BY <1>n, OffFacts
    <3> QED BY <3>1, <3>2, <1>n
  <2> QED BY <2>1, <2>4, <1>n
<1>4. \A j \in Index : j # h => rx'.desc[j] = rx.desc[j]
  BY <1>0, <1>1
<1>5. rx'.desc[h].frame = f /\ rx'.desc[h].dd /\ f <= k + 1
  BY <1>0, <1>1, <1>f, <1>k DEF Done
<1>6. \A j \in Index : rx.desc[j].frame \in Nat /\ rx.desc[j].frame <= k
  BY <1>k, <1>t, CardFields DEF RxHolds
<1>7. RxHolds'
  <2>1. Off(rx'.curr, rx'.tail) = Ring - 1
    BY <1>1, <1>c, <1>t DEF RxHolds
  <2>2. ASSUME NEW j \in Index PROVE (Filled(j)' <=> rx'.desc[j].dd) /\ rx'.desc[j].frame <= up'.count
    <3>1. CASE j = h
      BY <3>1, <1>2, <1>3, <1>5
    <3>2. CASE j # h
      <4>1. Filled(j)' <=> rx'.desc[j].dd
        BY <3>2, <1>3, <1>4, <1>t DEF RxHolds
      <4>2. rx'.desc[j].frame <= k + 1
        BY <3>2, <1>4, <1>6, <1>k
      <4> QED BY <4>1, <4>2, <1>2
    <3> QED BY <3>1, <3>2
  <2>3. ASSUME NEW i \in Index, NEW j \in Index, Off(c, i) < Off(c, j), Filled(j)',
               rx'.desc[i].frame > 0, rx'.desc[j].frame > 0
        PROVE  rx'.desc[i].frame < rx'.desc[j].frame
    <3>0. Off(c, i) \in Nat /\ Off(c, j) \in Nat /\ Off(c, h) = n
      BY <1>n, OffFacts
    <3>1. i # h
      BY <3>0, <2>3, <1>3
    <3>2. CASE j = h
      <4>1. f = k + 1
        BY <3>2, <2>3, <1>5, <1>f
      <4> QED BY <4>1, <3>1, <3>2, <1>4, <1>5, <1>6, <1>k
    <3>3. CASE j # h
      <4>1. Filled(j) /\ rx'.desc[i] = rx.desc[i] /\ rx'.desc[j] = rx.desc[j]
        BY <3>1, <3>3, <2>3, <1>3, <1>4
      <4> QED BY <4>1, <2>3, <1>c, <1>t DEF RxHolds
    <3> QED BY <3>2, <3>3
  <2> QED BY <2>1, <2>2, <2>3, <1>1 DEF RxHolds
<1>8. \A g \in Nat \ {0} : (\E i \in d + 1 .. l : up.taken[i] = g)
                          <=> (\E j \in Index : Filled(j) /\ rx.desc[j].frame = g)
  BY <1>l, <1>t DEF RxInv
<1>9. \A g \in Nat \ {0} : (\E j \in Index : Filled(j)' /\ rx'.desc[j].frame = g)
                          <=> (\E j \in Index : Filled(j) /\ rx.desc[j].frame = g) \/ g = f
  BY <1>3, <1>4, <1>5
<1>10. \A i \in 1 .. l : up.taken[i] \in 1 .. k
  BY <1>k, <1>l, <1>t DEF RxInv
<1>11. CASE ~good
  <2>1. up'.taken = up.taken /\ f = 0
    BY <1>11, <1>2, <1>f
  <2>2. \A g \in Nat \ {0} : (\E i \in d + 1 .. l : up.taken[i] = g)
                          <=> (\E j \in Index : Filled(j)' /\ rx'.desc[j].frame = g)
    BY <2>1, <1>8, <1>9
  <2>3. \A i \in 1 .. Len(up'.taken) : up'.taken[i] \in 1 .. up'.count
    <3>1. \A i \in 1 .. l : up.taken[i] \in 1 .. k + 1
      BY <1>10, <1>k
    <3> QED BY <3>1, <2>1, <1>2, <1>l
  <2> QED BY <2>1, <2>2, <2>3, <1>2, <1>7, <1>l, <1>t DEF RxInv
<1>12. CASE good
  <2>0. /\ up'.taken = Append(up.taken, k + 1) /\ up'.taken \in Seq(Nat) /\ f = k + 1
        /\ Len(up'.taken) = l + 1 /\ up'.taken[l + 1] = k + 1
        /\ \A i \in 1 .. l : up'.taken[i] = up.taken[i]
    BY <1>12, <1>0, <1>2, <1>f, <1>k, <1>l, AppendProperties
  <2>1. Ascending(up'.taken)
    <3>1. \A i \in 1 .. Len(up.taken) : up.taken[i] < k + 1
      BY <1>10, <1>k, <1>l
    <3> QED BY <3>1, <2>0, <1>0, <1>k, <1>t, AscendingAppend DEF RxInv
  <2>2. \A i \in 1 .. Len(up'.taken) : up'.taken[i] \in 1 .. up'.count
    <3>1. ASSUME NEW i \in 1 .. l + 1 PROVE up'.taken[i] \in 1 .. k + 1
      <4>1. CASE i = l + 1
        BY <4>1, <2>0, <1>k
      <4>2. CASE i \in 1 .. l
        <5>1. up'.taken[i] \in 1 .. k
          BY <4>2, <2>0, <1>10
        <5> QED BY <5>1, <1>k
      <4> QED BY <4>1, <4>2, <1>l
    <3> QED BY <3>1, <2>0, <1>2
  <2>3. ASSUME NEW g \in Nat \ {0}
        PROVE  (\E i \in d + 1 .. l + 1 : up'.taken[i] = g) <=> (\E i \in d + 1 .. l : up.taken[i] = g) \/ g = f
    <3>1. ASSUME NEW i \in d + 1 .. l + 1, up'.taken[i] = g
          PROVE  (\E x \in d + 1 .. l : up.taken[x] = g) \/ g = f
      <4>1. CASE i = l + 1
        BY <4>1, <3>1, <2>0
      <4>2. CASE i # l + 1
        <5>1. i \in d + 1 .. l /\ i \in 1 .. l
          BY <4>2, <1>l
        <5> QED BY <5>1, <3>1, <2>0
      <4> QED BY <4>1, <4>2
    <3>2. ASSUME NEW i \in d + 1 .. l, up.taken[i] = g
          PROVE  \E x \in d + 1 .. l + 1 : up'.taken[x] = g
      <4>1. i \in d + 1 .. l + 1 /\ i \in 1 .. l
        BY <1>l
      <4> QED BY <4>1, <3>2, <2>0
    <3>3. ASSUME g = f PROVE \E x \in d + 1 .. l + 1 : up'.taken[x] = g
      <4>1. l + 1 \in d + 1 .. l + 1
        BY <1>l
      <4> QED BY <4>1, <3>3, <2>0
    <3> QED BY <3>1, <3>2, <3>3
  <2>4. \A g \in Nat \ {0} : (\E i \in d + 1 .. l + 1 : up'.taken[i] = g)
                          <=> (\E j \in Index : Filled(j)' /\ rx'.desc[j].frame = g)
    BY <2>3, <1>8, <1>9
  <2>5. \A i \in 1 .. Len(up'.delivered) : up'.delivered[i] = up'.taken[i]
    <3>1. \A i \in 1 .. d : i \in 1 .. l /\ up.delivered[i] = up.taken[i]
      BY <1>l, <1>t DEF RxInv
    <3> QED BY <3>1, <2>0, <1>2, <1>l
  <2>6. Len(up'.delivered) <= Len(up'.taken)
    BY <2>0, <1>2, <1>l
  <2> QED BY <2>0, <2>1, <2>2, <2>4, <2>5, <2>6, <1>2, <1>7, <1>l, <1>0 DEF RxInv
<1> QED BY <1>11, <1>12

(* The other actions leave the receive queue alone. *)
LEMMA RxKept ==
    ASSUME RxInv, UNCHANGED up, rx'.head = rx.head, rx'.tail = rx.tail, rx'.curr = rx.curr, rx'.desc = rx.desc
    PROVE  RxInv'
<1>1. RxHolds' /\ \A j : Filled(j)' <=> Filled(j)
  BY DEF RxInv, RxHolds, Filled
<1> QED BY <1>1 DEF RxInv

(* Every step of the driver and the card. *)
LEMMA CardStep == CardInv /\ [NetCardNext]_CardVars => CardInv'
<1> SUFFICES ASSUME CardInv, [NetCardNext]_CardVars PROVE CardInv'
  OBVIOUS
<1>t. CardTyped' /\ CardTyped /\ TxInv /\ RxInv
  BY CardTypes DEF CardInv
<1>r. tx \in RingRec /\ rx \in RingRec
  BY <1>t DEF CardTyped
<1>1. CASE CardInit
  <2>1. /\ tx' = tx /\ rx' = rx /\ wire' = wire /\ up' = up /\ card'.st # "off"
    BY <1>1, <1>t DEF CardInit, CardInv, CardTyped
  <2> QED BY <2>1, <1>t, TxKept, RxKept DEF CardInv
<1>2. CASE CardCleanup \/ LinkChanges
  <2>1. /\ tx' = tx /\ rx' = rx /\ wire' = wire /\ up' = up /\ card'.st # "off"
    BY <1>2, <1>t DEF CardCleanup, LinkChanges, CardTyped
  <2> QED BY <2>1, <1>t, TxKept, RxKept DEF CardInv
<1>3. ASSUME NEW on \in BOOLEAN, CardEngines(on) PROVE CardInv'
  <2>1. /\ tx'.head = tx.head /\ tx'.tail = tx.tail /\ tx'.curr = tx.curr /\ tx'.desc = tx.desc
        /\ rx'.head = rx.head /\ rx'.tail = rx.tail /\ rx'.curr = rx.curr /\ rx'.desc = rx.desc
    BY <1>3, <1>r DEF CardEngines, RingRec
  <2>2. wire' = wire /\ up' = up /\ card'.st # "off"
    BY <1>3 DEF CardEngines
  <2> QED BY <2>1, <2>2, <1>t, TxKept, RxKept DEF CardInv
<1>4. CASE SendFrame \/ SendTimeout \/ CardSends
  <2>1. rx' = rx /\ up' = up /\ card'.st # "off"
    BY <1>4, <1>t DEF SendFrame, SendTimeout, CardSends, CardTyped
  <2>2. TxInv'
    BY <1>4, SendKeeps, TimeoutKeeps, CardSendsKeeps
  <2> QED BY <2>1, <2>2, <1>t, RxKept DEF CardInv
<1>5. CASE ReceiveFrame \/ \E good \in BOOLEAN : CardReceives(good)
  <2>1. tx' = tx /\ wire' = wire /\ card'.st # "off"
    BY <1>5 DEF ReceiveFrame, CardReceives
  <2>2. RxInv'
    BY <1>5, ReceiveKeeps, CardReceivesKeeps
  <2> QED BY <2>1, <2>2, <1>t, TxKept DEF CardInv
<1>6. CASE UNCHANGED CardVars
  <2>1. /\ tx' = tx /\ rx' = rx /\ wire' = wire /\ up' = up /\ card' = card
    BY <1>6 DEF CardVars
  <2> QED BY <2>1, <1>t, TxKept, RxKept DEF CardInv
<1> QED BY <1>1, <1>2, <1>3, <1>4, <1>5, <1>6 DEF NetCardNext

(* The invariant says that the rings are queues. *)
LEMMA CardImplies == CardInv => CardIsFifo
<1> SUFFICES ASSUME CardInv PROVE CardIsFifo
  OBVIOUS
<1>t. CardTyped /\ TxInv /\ RxInv /\ RxHolds
  BY DEF CardInv, RxInv
<1>1. Range(wire.accepted) = Range(wire.sent) \cup Pending \cup wire.dropped
  <2>1. PICK n \in 0 .. Ring : TxHolds(n)
    BY <1>t DEF TxInv
  <2>2. PICK k \in Nat : k = Len(wire.accepted)
    BY <1>t, CardFields
  <2>3. Range(wire.accepted) = 1 .. k
    <3>1. DOMAIN wire.accepted = 1 .. k /\ \A i \in 1 .. k : wire.accepted[i] = i
      BY <2>2, <1>t, CardFields, LenProperties DEF TxInv
    <3> QED BY <3>1 DEF Range
  <2>4. Pending = k - n + 1 .. k /\ Range(wire.sent) \cup wire.dropped = 1 .. k - n /\ n <= k /\ n \in Nat
    BY <2>1, <2>2, <1>t, PendingFrames, RingAssumption DEF TxHolds
  <2>5. 1 .. k = (1 .. k - n) \cup (k - n + 1 .. k)
    BY <2>2, <2>4
  <2> QED BY <2>3, <2>4, <2>5
<1>c. PICK c \in Index, h \in Index : c = rx.curr /\ h = rx.head
  BY <1>t, CardFields
<1>n. PICK n \in Nat : n = Off(c, h) /\ n < Ring
  BY OffFacts
<1>0. Ring \in Nat \ {0, 1} /\ c \in Nat /\ c < Ring /\ h \in Nat /\ h < Ring
  BY RingAssumption DEF Index
<1>m. \A k \in 0 .. 2 * Ring - 1 : k % Ring = IF k < Ring THEN k ELSE k - Ring
  BY <1>0, ModOnce
<1>2. Held = n
  <2>1. PICK y \in 0 .. 2 * Ring - 1 : y = h - c + Ring
    BY <1>0
  <2>2. y % Ring = IF y < Ring THEN y ELSE y - Ring
    BY <1>m
  <2>3. Off(c, h) = IF h >= c THEN h - c ELSE h - c + Ring
    BY DEF Off
  <2>4. y % Ring = n
    BY <2>1, <2>2, <2>3, <1>n, <1>0
  <2> QED BY <2>1, <2>4, <1>c DEF Held
<1> DEFINE Place(i) == (c + i) % Ring
<1>3. ASSUME NEW i \in Nat, i < n PROVE Place(i) \in Index /\ Off(c, Place(i)) = i
  <2>1. c + i \in 0 .. 2 * Ring - 1
    BY <1>0, <1>3, <1>n
  <2>2. PICK x \in Nat : x = Place(i) /\ x = IF c + i < Ring THEN c + i ELSE c + i - Ring
    BY <2>1, <1>m, <1>0, <1>3, <1>n
  <2>3. x \in Index /\ Off(c, x) = i
    BY <2>2, <1>0, <1>3, <1>n DEF Index, Off
  <2> QED BY <2>2, <2>3
<1>4. ASSUME NEW j \in Index, Off(c, j) < n PROVE Off(c, j) \in Nat /\ Place(Off(c, j)) = j
  <2>1. PICK i \in Nat : i = Off(c, j) /\ i < n
    BY <1>4, OffFacts
  <2>2. Place(i) \in Index /\ Off(c, Place(i)) = i
    BY <2>1, <1>3
  <2>3. Place(i) = j
    BY <2>1, <2>2, OffFacts
  <2> QED BY <2>1, <2>3
<1>5. \A i : HeldFrame(i) = rx.desc[Place(i)].frame
  BY <1>c DEF HeldFrame
<1> HIDE DEF Place
<1>6. \A j \in Index : Filled(j) <=> Off(c, j) < n
  BY <1>c, <1>n DEF Filled
<1>7. ASSUME NEW i \in 0 .. n - 1, NEW j \in 0 .. n - 1, i < j, HeldFrame(i) > 0, HeldFrame(j) > 0
      PROVE  HeldFrame(i) < HeldFrame(j)
  <2>1. i \in Nat /\ j \in Nat /\ i < n /\ j < n
    BY <1>n
  <2>2. Place(i) \in Index /\ Place(j) \in Index /\ Off(c, Place(i)) = i /\ Off(c, Place(j)) = j
    BY <2>1, <1>3
  <2>3. Off(c, Place(i)) < Off(c, Place(j)) /\ Filled(Place(j))
    BY <2>1, <2>2, <1>6, <1>7
  <2> QED BY <2>2, <2>3, <1>5, <1>7, <1>c, <1>t DEF RxHolds
<1>8. {up.taken[i] : i \in Len(up.delivered) + 1 .. Len(up.taken)} = {HeldFrame(i) : i \in 0 .. n - 1} \ {0}
  <2> DEFINE A == {up.taken[i] : i \in Len(up.delivered) + 1 .. Len(up.taken)}
             B == {HeldFrame(i) : i \in 0 .. n - 1} \ {0}
  <2>l. PICK l \in Nat, d \in Nat : l = Len(up.taken) /\ d = Len(up.delivered) /\ d <= l
    BY <1>t, LenProperties DEF RxInv
  <2>0. \A g \in Nat \ {0} : (\E i \in d + 1 .. l : up.taken[i] = g)
                          <=> (\E j \in Index : Filled(j) /\ rx.desc[j].frame = g)
    BY <2>l, <1>t DEF RxInv
  <2>1. ASSUME NEW g \in A PROVE g \in B
    <3>1. PICK i \in d + 1 .. l : up.taken[i] = g
      BY <2>l
    <3>2. i \in 1 .. l
      BY <2>l
    <3>3. g \in Nat \ {0}
      <4>1. g \in 1 .. up.count
        BY <3>1, <3>2, <2>l, <1>t DEF RxInv
      <4> QED BY <4>1, <1>t, CardFields
    <3>4. PICK j \in Index : Filled(j) /\ rx.desc[j].frame = g
      BY <3>1, <3>3, <2>0
    <3>5. Off(c, j) \in 0 .. n - 1 /\ Place(Off(c, j)) = j
      <4>1. Off(c, j) \in Nat /\ Off(c, j) < n /\ Place(Off(c, j)) = j
        BY <3>4, <1>4, <1>6
      <4> QED BY <4>1, <1>n
    <3>6. HeldFrame(Off(c, j)) = g
      BY <3>4, <3>5, <1>5
    <3> QED BY <3>3, <3>5, <3>6
  <2>2. ASSUME NEW g \in B PROVE g \in A
    <3>1. PICK i \in 0 .. n - 1 : HeldFrame(i) = g
      OBVIOUS
    <3>2. i \in Nat /\ i < n
      BY <1>n
    <3>3. Place(i) \in Index /\ Filled(Place(i)) /\ rx.desc[Place(i)].frame = g
      BY <3>1, <3>2, <1>3, <1>5, <1>6
    <3>4. g \in Nat \ {0}
      BY <3>3, <1>t, CardFields
    <3>5. PICK x \in d + 1 .. l : up.taken[x] = g
      BY <3>3, <3>4, <2>0
    <3> QED BY <3>5, <2>l
  <2> QED BY <2>1, <2>2
<1>9. IsPrefix(up.delivered, up.taken)
  <2>1. PICK s \in Seq(Nat), t \in Seq(Nat) : s = up.delivered /\ t = up.taken
    BY <1>t DEF RxInv
  <2>2. Len(s) <= Len(t) /\ Len(s) \in Nat /\ Len(t) \in Nat /\ \A i \in 1 .. Len(s) : s[i] = t[i]
    BY <2>1, <1>t, LenProperties DEF RxInv
  <2>3. SubSeq(s, 1, Len(s)) = SubSeq(t, 1, Len(s))
    BY <2>2
  <2> QED BY <2>1, <2>2, <2>3 DEF IsPrefix
<1>10. Received
  BY <1>2, <1>7, <1>8, <1>9, <1>t DEF Received, RxInv
<1> QED BY <1>1, <1>10, <1>t DEF CardIsFifo, TxInv

-----------------------------------------------------------------------------
(* The parts together. *)

NetInv == CardInv /\ TcpInv /\ ConfigInv /\ ArpInv /\ DnsInv

(* A step of the network is a step of each part or leaves it alone. *)
LEMMA NetStep == NetInv /\ [Next]_<<NetVars, focus>> => NetInv'
<1> SUFFICES ASSUME NetInv, [Next]_<<NetVars, focus>> PROVE NetInv'
  OBVIOUS
<1>1. [NetCardNext]_CardVars
  BY DEF Next, NetVars
<1>2. [TcpNext]_TcpVars
  BY DEF Next, NetVars
<1>3. [NetConfigNext]_ConfigVars
  BY DEF Next, NetVars
<1>4. [ArpNext]_ArpVars
  BY DEF Next, NetVars
<1>5. [DnsNext]_DnsVars
  BY DEF Next, NetVars
<1> QED BY <1>1, <1>2, <1>3, <1>4, <1>5, CardStep, TcpStep, ConfigStep, ArpStep, DnsStep DEF NetInv

(* Boot. *)
LEMMA NetBegins == Init => NetInv
BY InitCard, InitTcp, InitConfig, InitArp, InitDns DEF Init, NetInv

(* What the run checks follows. *)
LEMMA NetImplies == NetInv => TypeOK /\ CardIsFifo /\ StreamIntact /\ AddressesRight
<1> SUFFICES ASSUME NetInv PROVE TypeOK /\ CardIsFifo /\ StreamIntact /\ AddressesRight
  OBVIOUS
<1>1. NetCardTypeOK
  BY DEF NetInv, CardInv, CardTyped, RingRec, NetCardTypeOK
<1>2. StreamIntact /\ TcpTypeOK
  BY TcpImplies DEF NetInv
<1>3. NetConfigTypeOK
  BY NetConfigAssumption DEF NetInv, ConfigInv, ConfigTyped, DhcpRec, ConfigRec, NetConfigTypeOK
<1>4. ArpTypeOK /\ FreshMac
  BY ArpImplies DEF NetInv
<1>5. DnsTypeOK
  BY DnsAssumption DEF NetInv, DnsInv, DnsTyped, DnsTypeOK
<1>6. BoundIsLeased /\ OwnAnswer
  BY DEF NetInv, ConfigInv, DnsInv
<1>7. CardIsFifo
  BY CardImplies DEF NetInv
<1> QED BY <1>1, <1>2, <1>3, <1>4, <1>5, <1>6, <1>7 DEF TypeOK, AddressesRight

(* Rings, blocks, exchanges, caches and queries stay within their bounds    *)
(* (net_card, tcp.c, dhcp.c, arp.c, dns.c).                                 *)
THEOREM NetTypeCorrect == Spec => []TypeOK
BY NetBegins, NetStep, NetImplies, PTL DEF Spec

(* The transmit ring and the receive ring of the card are queues that lose, *)
(* repeat and overtake nothing but what a reset drops, for rings of any     *)
(* size, also when a ring is full and head and tail meet (e1000_send_packet, *)
(* e1000_receive_packet).                                                   *)
THEOREM CardQueues == Spec => []CardIsFifo
BY NetBegins, NetStep, NetImplies, PTL DEF Spec

(* The stream of TCP is intact, until tcp_input runs in the middle of       *)
(* tcp_receive, in the composed network (tcp.c).                            *)
THEOREM StreamKept == Spec => []StreamIntact
BY NetBegins, NetStep, NetImplies, PTL DEF Spec

(* The station uses only leased addresses, the hardware address heard last, *)
(* and the address of the name it asked for (dhcp.c, arp.c, dns.c).         *)
THEOREM AddressesCorrect == Spec => []AddressesRight
BY NetBegins, NetStep, NetImplies, PTL DEF Spec
=============================================================================
