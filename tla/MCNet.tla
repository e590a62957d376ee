-------------------------------- MODULE MCNet --------------------------------
(* The network's parts share a run: a behaviour exercises one of them and    *)
(* leaves the others in their initial state.                                 *)
EXTENDS NetCard, Tcp, NetConfig, Arp, Dns
VARIABLE focus
NetVars == <<CardVars, TcpVars, ConfigVars, ArpVars, DnsVars>>
Init == /\ focus \in {"card", "tcp", "config", "arp", "dns"}
        /\ NetCardInit /\ TcpInit /\ NetConfigInit /\ ArpInit /\ DnsInit
Next ==
    /\ \/ /\ focus = "card" /\ NetCardNext /\ UNCHANGED <<TcpVars, ConfigVars, ArpVars, DnsVars>>
       \/ /\ focus = "tcp" /\ TcpNext /\ UNCHANGED <<CardVars, ConfigVars, ArpVars, DnsVars>>
       \/ /\ focus = "config" /\ NetConfigNext /\ UNCHANGED <<CardVars, TcpVars, ArpVars, DnsVars>>
       \/ /\ focus = "arp" /\ ArpNext /\ UNCHANGED <<CardVars, TcpVars, ConfigVars, DnsVars>>
       \/ /\ focus = "dns" /\ DnsNext /\ UNCHANGED <<CardVars, TcpVars, ConfigVars, ArpVars>>
    /\ UNCHANGED focus
Spec == Init /\ [][Next]_<<NetVars, focus>>
FairSpec == Spec /\ WF_ConfigVars(DaemonTicks)
TypeOK == NetCardTypeOK /\ TcpTypeOK /\ NetConfigTypeOK /\ ArpTypeOK /\ DnsTypeOK
\* The station only uses an address its server leased to it, what arp_lookup
\* returns is the last hardware address heard of that host, and what dns_resolve
\* returns is the address of the name it was asked for (dhcp.c, arp.c, dns.c).
AddressesRight == BoundIsLeased /\ FreshMac /\ OwnAnswer
=============================================================================
