------------------------------ MODULE NetConfig ------------------------------
(***************************************************************************)
(* The address of the machine: dhcp.c, network_stack.c, network_daemon.c    *)
(* and ip_set_address.  DHCP servers (external) each lease one address, and *)
(* the network may lose, repeat and delay.  The timeouts fire at any time:  *)
(* ticks_since_boot is not part of the state.                               *)
(***************************************************************************)
EXTENDS Integers, Sequences, FiniteSets

CONSTANTS
    Servers,     \* DHCP servers; each leases the address of its own name
    MaxRetries,  \* dhcp_retries that dhcp_tick allows
    MaxXid,      \* bound: DHCP exchanges
    MaxMail      \* bound: answers under way

ASSUME NetConfigAssumption == MaxRetries \in Nat /\ MaxXid \in Nat

VARIABLES
    dhcp,    \* dhcp_state, dhcp_xid, dhcp_retries, offered_ip, server_id, dhcp_gateway
    config,  \* net_config and our_ip of ipv4.c
    daemon,  \* network_daemon_task, daemon_running and the tasks created for it
    asked,   \* requests the servers have seen
    mail,    \* answers under way
    leased   \* history: <<xid, address>> acknowledged by its server

ConfigVars == <<dhcp, config, daemon, asked, mail, leased>>

Null == "0.0.0.0"
Default == "10.0.2.15"
Static == "static"

(* ip_set_address, with the configuration record it belongs to. *)
SetAddress(ip, gateway, mode) == config' = [ip |-> ip, gateway |-> gateway, mode |-> mode]

(* dhcp_send_discover and dhcp_send_request, broadcast by UDP: the request  *)
(* may be lost, or its sending fail.                                        *)
SendDhcp(msg) == asked' = asked \cup {msg} \/ UNCHANGED asked
Discover(xid) == [type |-> "DISCOVER", xid |-> xid, addr |-> Null, server |-> Null]
Request(xid, addr, server) == [type |-> "REQUEST", xid |-> xid, addr |-> addr, server |-> server]

(* dhcp_start, from network_dhcp_request: the address is given up first. *)
DhcpRequest ==
    /\ dhcp.xid < MaxXid /\ config.mode # "down"
    /\ SetAddress(Null, Null, "dhcp")
    /\ dhcp' = [dhcp EXCEPT !.state = "DISCOVER", !.xid = @ + 1, !.retries = 0]
    /\ SendDhcp(Discover(dhcp.xid + 1))
    /\ UNCHANGED <<daemon, mail, leased>>

(* network_daemon_start, which refuses while a task is recorded. *)
DaemonStarted(d) == IF d.task THEN d ELSE [d EXCEPT !.task = TRUE, !.running = TRUE]

(* network_stack_init: the defaults are installed and given up again for    *)
(* DHCP in the same call.                                                   *)
StackInit ==
    /\ config.mode = "down" /\ dhcp.xid < MaxXid
    /\ SetAddress(Null, Null, "dhcp")
    /\ dhcp' = [dhcp EXCEPT !.state = "DISCOVER", !.xid = @ + 1, !.retries = 0]
    /\ SendDhcp(Discover(dhcp.xid + 1))
    /\ \E enabled \in BOOLEAN : daemon' = IF enabled THEN DaemonStarted(daemon) ELSE daemon
    /\ UNCHANGED <<mail, leased>>

(* network_set_static_ip ("ip set"): the exchange in progress goes on. *)
SetStaticIp ==
    /\ config.mode # "down"
    /\ SetAddress(Static, Static, "static")
    /\ UNCHANGED <<dhcp, daemon, asked, mail, leased>>

(* Fault: the transaction number is not compared. *)
HandlePacketFault(m) ==
    LET learnt == [dhcp EXCEPT !.server = m.server, !.gateway = m.server] IN
    \/ /\ m.type = "OFFER" /\ dhcp.state = "DISCOVER"
       /\ dhcp' = [learnt EXCEPT !.state = "REQUEST", !.offered = m.addr]
       /\ SendDhcp(Request(dhcp.xid, m.addr, m.server))
       /\ UNCHANGED <<config, leased>>
    \/ /\ m.type = "ACK" /\ dhcp.state = "REQUEST"
       /\ dhcp' = [learnt EXCEPT !.state = "BOUND"]
       /\ SetAddress(dhcp.offered, m.server, "dhcp")
       /\ UNCHANGED <<asked, leased>>

(* dhcp_handle_packet: the options are taken over before the type and the   *)
(* state are looked at; a refusal (NAK) changes nothing else.               *)
HandlePacket(m) ==
    LET learnt == [dhcp EXCEPT !.server = m.server, !.gateway = m.server]
        offer == m.type = "OFFER" /\ dhcp.state = "DISCOVER"
        ack == m.type = "ACK" /\ dhcp.state = "REQUEST"
    IN
    \/ m.xid # dhcp.xid /\ UNCHANGED <<dhcp, config, asked, leased>>
    \/ /\ m.xid = dhcp.xid /\ offer
       /\ dhcp' = [learnt EXCEPT !.state = "REQUEST", !.offered = m.addr]
       /\ SendDhcp(Request(dhcp.xid, m.addr, m.server))
       /\ UNCHANGED <<config, leased>>
    \/ /\ m.xid = dhcp.xid /\ ack
       /\ dhcp' = [learnt EXCEPT !.state = "BOUND"]
       /\ SetAddress(dhcp.offered, m.server, "dhcp")      \* network_apply_config
       /\ UNCHANGED <<asked, leased>>
    \/ /\ m.xid = dhcp.xid /\ ~offer /\ ~ack
       /\ dhcp' = learnt
       /\ UNCHANGED <<config, asked, leased>>

(* network_stack_tick by the daemon, or by a command waiting for an answer. *)
Ticks == config.mode # "down"

Deliver ==
    /\ Ticks
    /\ \E m \in mail : HandlePacket(m) /\ mail' \in {mail, mail \ {m}}
    /\ UNCHANGED daemon

Lost == /\ \E m \in mail : mail' = mail \ {m}
        /\ UNCHANGED <<dhcp, config, daemon, asked, leased>>

(* Fault: a timeout sends again and does not count. *)
DhcpTickFault ==
    /\ Ticks /\ dhcp.state \in {"DISCOVER", "REQUEST"}
    /\ SendDhcp(IF dhcp.state = "DISCOVER" THEN Discover(dhcp.xid)
                ELSE Request(dhcp.xid, dhcp.offered, dhcp.server))
    /\ UNCHANGED <<dhcp, config, daemon, mail, leased>>

(* dhcp_tick after the deadline. *)
DhcpTick ==
    /\ Ticks /\ dhcp.state \in {"DISCOVER", "REQUEST"}
    /\ IF dhcp.retries = MaxRetries
       THEN dhcp' = [dhcp EXCEPT !.retries = @ + 1, !.state = "FAILED"] /\ UNCHANGED asked
       ELSE /\ dhcp' = [dhcp EXCEPT !.retries = @ + 1]
            /\ SendDhcp(IF dhcp.state = "DISCOVER" THEN Discover(dhcp.xid)
                        ELSE Request(dhcp.xid, dhcp.offered, dhcp.server))
    /\ UNCHANGED <<config, daemon, mail, leased>>

(* A server offers its address, and acknowledges the request that names it  *)
(* and asks for that address; it refuses another address.                   *)
ServerReply(s, q) ==
    [type |-> IF q.type = "DISCOVER" THEN "OFFER" ELSE IF q.addr = s THEN "ACK" ELSE "NAK",
     xid |-> q.xid, addr |-> s, server |-> s]

ServerAnswers(s) ==
    /\ Cardinality(mail) < MaxMail
    /\ \E q \in asked :
          /\ q.type = "DISCOVER" \/ q.server = s
          /\ mail' = mail \cup {ServerReply(s, q)}
          /\ leased' = IF ServerReply(s, q).type = "ACK" THEN leased \cup {<<q.xid, s>>} ELSE leased
    /\ UNCHANGED <<dhcp, config, daemon, asked>>

NetConfigInit ==
    /\ dhcp = [state |-> "IDLE", xid |-> 0, retries |-> 0, offered |-> Null,
               server |-> Null, gateway |-> Null]
    /\ config = [ip |-> Default, gateway |-> Default, mode |-> "down"]
    /\ daemon = [task |-> FALSE, running |-> FALSE]
    /\ asked = {} /\ mail = {} /\ leased = {}

NetConfigNext ==
    \/ StackInit \/ DhcpRequest \/ SetStaticIp \/ Deliver \/ Lost \/ DhcpTick
    \/ \E s \in Servers : ServerAnswers(s)

NetConfigSpec == NetConfigInit /\ [][NetConfigNext]_ConfigVars
-----------------------------------------------------------------------------
NetConfigTypeOK ==
    /\ dhcp.state \in {"IDLE", "DISCOVER", "REQUEST", "BOUND", "FAILED"}
    /\ dhcp.retries \in 0 .. MaxRetries + 1
    /\ config.ip \in Servers \cup {Null, Default, Static}

(* An address DHCP has put in place was acknowledged by its server in the   *)
(* exchange now current, and the gateway is that server's too: answers to   *)
(* an abandoned exchange, second offers and refusals configure nothing.     *)
BoundIsLeased ==
    config.mode = "dhcp" /\ config.ip # Null =>
        /\ dhcp.state = "BOUND" /\ config.ip = dhcp.offered
        /\ <<dhcp.xid, config.ip>> \in leased /\ config.gateway = config.ip

(* network_daemon_func calls network_stack_tick between yields. *)
DaemonTicks == daemon.running /\ DhcpTick

(* A DHCP exchange ends: whatever is lost, the daemon's calls of dhcp_tick  *)
(* use the retries up.                                                      *)
DhcpEnds == (daemon.running /\ dhcp.state \in {"DISCOVER", "REQUEST"}) ~> dhcp.state \in {"BOUND", "FAILED"}
=============================================================================
