--------------------------------- MODULE Tcp ---------------------------------
(***************************************************************************)
(* tcp.c with its users: http_download (the wget command) and the socket    *)
(* system calls.  The server and the network are external: the server       *)
(* numbers the bytes of its answer from 1, sends within the window the      *)
(* driver advertises, and repeats what has not been acknowledged.           *)
(* A received byte is <<connection, number>>; number 0 is the padding of a  *)
(* minimum-size Ethernet frame, which tcp_input cannot tell from data.      *)
(* Two fields of a control block are history: due, the bytes acknowledged   *)
(* and not yet read, in their order, and torn, whether tcp_input appended   *)
(* while tcp_receive was moving the buffer.                                 *)
(***************************************************************************)
EXTENDS Integers, Sequences, FiniteSets, SequencesExt, FiniteSetsExt

CONSTANTS
    Pcbs,        \* TCP_MAX_CONNECTIONS control blocks, 0 .. n - 1
    RxSize,      \* capacity of internal_rx_buffer
    Window,      \* the advertised window
    Answer,      \* bytes in the server's answer; the first ends the header
    SynTries,    \* SYNs sent by one connect
    MaxConnects, \* bound: connections opened
    MaxFlight,   \* bound: segments on their way to us
    MaxRcv,      \* bound: bytes taken by one connection
    Faults       \* whether the network loses, repeats and reorders

ASSUME TcpAssumption ==
    /\ Pcbs \subseteq Nat /\ RxSize \in Nat /\ Window \in Nat /\ Answer \in Nat
    /\ MaxConnects \in Nat /\ Faults \in BOOLEAN

VARIABLES
    pcb,     \* tcp_pcbs
    conns,   \* connections opened so far; the ephemeral port of the last one
    app,     \* where the caller is: wget or a user program
    flight,  \* segments sent to us
    peer     \* the server's side of each connection

TcpVars == <<pcb, conns, app, flight, peer>>

Closed == [state |-> "CLOSED", port |-> 0, rcvNxt |-> 0, buf |-> <<>>, tries |-> 0,
           taken |-> 0, fin |-> 0, due |-> <<>>, torn |-> FALSE]
NoApp == [at |-> "idle", p |-> 0, kind |-> "none", header |-> FALSE,
          last |-> 0, gap |-> FALSE, n |-> 0, len |-> 0]
NoPeer == [syn |-> FALSE, request |-> FALSE, sent |-> 0, acked |-> 0]

(* tcp_get_ephemeral_port *)
EphemeralPort(c) == c

(* tcp_find_pcb: the first block in use with this port. *)
FindPcb(port) ==
    LET found == {p \in Pcbs : pcb[p].state # "CLOSED" /\ pcb[p].port = port} IN
    {p \in found : \A q \in found : p <= q}

(* tcp_new_pcb: the first closed block. *)
NewPcb == {p \in Pcbs : pcb[p].state = "CLOSED"
                        /\ \A q \in Pcbs : q < p => pcb[q].state # "CLOSED"}

(* tcp_send_packet: if ip_send_packet fails or the network loses the        *)
(* segment, the server does not learn `news`.                               *)
SendPacket(c, sent, news) ==
    \/ sent /\ peer' = [peer EXCEPT ![c] = news]
    \/ (Faults \/ ~sent) /\ UNCHANGED peer

(* The server ignores an acknowledgment of what it has not sent. *)
SendAck(c, next) ==
    SendPacket(c, TRUE, [peer[c] EXCEPT !.acked = IF next <= peer[c].sent + 1 THEN Max({@, next}) ELSE @])
-----------------------------------------------------------------------------
(* tcp_connect: a failing first SYN returns -1 and leaves the block in      *)
(* SYN_SENT for good.                                                       *)
TcpConnect(kind) ==
    /\ app.at = "idle" /\ conns < MaxConnects
    /\ LET c == conns + 1 IN
       \E p \in NewPcb, sent \in BOOLEAN :
          /\ pcb' = [pcb EXCEPT ![p] = [Closed EXCEPT !.state = "SYN_SENT", !.port = EphemeralPort(c),
                                                      !.tries = 1]]
          /\ SendPacket(c, sent, [peer[c] EXCEPT !.syn = TRUE])
          /\ app' = IF sent THEN [NoApp EXCEPT !.at = "connecting", !.p = p, !.kind = kind] ELSE NoApp
          /\ conns' = c
    /\ UNCHANGED flight

(* The wait loop of tcp_connect, after the tick it makes. *)
Connected ==
    /\ app.at = "connecting" /\ pcb[app.p].state = "ESTABLISHED"
    /\ \E fdFree \in BOOLEAN :        \* create_socket_fd
          IF app.kind = "wget" \/ fdFree
          THEN app' = [app EXCEPT !.at = "open"] /\ UNCHANGED pcb
          ELSE app' = NoApp /\ pcb' = [pcb EXCEPT ![app.p] = Closed]
    /\ UNCHANGED <<conns, flight, peer>>

Retransmit ==
    /\ app.at = "connecting" /\ pcb[app.p].state = "SYN_SENT" /\ pcb[app.p].tries < SynTries
    /\ pcb' = [pcb EXCEPT ![app.p].tries = @ + 1]
    /\ SendPacket(conns, TRUE, [peer[conns] EXCEPT !.syn = TRUE])
    /\ UNCHANGED <<conns, app, flight>>

(* Five attempts or 500 ticks. *)
ConnectTimeout ==
    /\ app.at = "connecting" /\ pcb[app.p].state # "ESTABLISHED"
    /\ pcb' = [pcb EXCEPT ![app.p] = Closed]
    /\ app' = NoApp
    /\ UNCHANGED <<conns, flight, peer>>

(* http_download sends its request whatever the result, then opens the     *)
(* file; a user program sends by SYSCALL_SEND.                              *)
TcpSend ==
    /\ app.at = "open"
    /\ SendPacket(conns, pcb[app.p].state = "ESTABLISHED", [peer[conns] EXCEPT !.request = TRUE])
    /\ \E fileOpen \in BOOLEAN :
          app' = [app EXCEPT !.at = IF app.kind = "wget" /\ ~fileOpen THEN "closing" ELSE "reading"]
    /\ UNCHANGED <<pcb, conns, flight>>

(* The last byte number a reader saw, then the ones of the bytes it gets. *)
Numbers(last, got) == <<last>> \o SelectSeq([i \in 1 .. Len(got) |-> got[i][2]], LAMBDA b : b > 0)

(* tcp_receive finds bytes: it copies n of them and reads the length for    *)
(* the memmove.  With interrupts on, the network daemon may run tcp_input   *)
(* before ReceiveMove.                                                      *)
ReceiveCopy ==
    /\ app.at = "reading" /\ pcb[app.p].buf # <<>>
    /\ \E n \in 1 .. Len(pcb[app.p].buf) :
          LET nums == Numbers(app.last, SubSeq(pcb[app.p].buf, 1, n)) IN
          app' = [app EXCEPT !.at = "moving", !.n = n, !.len = Len(pcb[app.p].buf),
                             !.header = @ \/ 1 \in Range(nums),
                             !.last = nums[Len(nums)],
                             !.gap = @ \/ \E i \in 1 .. Len(nums) - 1 :
                                            /\ app.kind = "user" \/ app.header
                                            /\ nums[i + 1] > nums[i] + 1]
    /\ UNCHANGED <<pcb, conns, flight, peer>>

(* Fault: the memmove is one byte short. *)
MovedFault(b, n, len) ==
    [i \in 1 .. Len(b) - n |-> IF i < len - n THEN b[i + n] ELSE b[i]]

(* The bytes up to the length read earlier move down; the length itself is *)
(* then reduced by n.  Bytes appended in between stay where they are.       *)
Moved(b, n, len) ==
    [i \in 1 .. Len(b) - n |-> IF i <= len - n THEN b[i + n] ELSE b[i]]

ReceiveMove ==
    /\ app.at = "moving"
    /\ pcb' = [pcb EXCEPT ![app.p].buf = Moved(@, app.n, app.len), ![app.p].taken = @ + app.n,
                            ![app.p].due = SubSeq(@, app.n + 1, Len(@))]
    /\ app' = [app EXCEPT !.at = "reading", !.n = 0, !.len = 0]
    /\ UNCHANGED <<conns, flight, peer>>

(* -2: closed and nothing buffered.  After 500 ticks with nothing, 0: wget  *)
(* asks again for ever, a program may give up.                              *)
ReceiveEnd ==
    /\ app.at = "reading" /\ pcb[app.p].buf = <<>>
    /\ app.kind = "user" \/ pcb[app.p].state \in {"CLOSED", "CLOSE_WAIT"}
    /\ app' = [app EXCEPT !.at = "closing"]
    /\ UNCHANGED <<pcb, conns, flight, peer>>

(* tcp_close sends a FIN and forgets the connection at once; the server may *)
(* go on sending.                                                           *)
TcpClose ==
    /\ app.at = "closing" \/ (app.at = "reading" /\ app.kind = "user")
    /\ pcb' = [pcb EXCEPT ![app.p] = Closed]
    /\ app' = NoApp
    /\ UNCHANGED <<conns, flight, peer>>
-----------------------------------------------------------------------------
(* Fault: the space already in use is forgotten. *)
FitsFault(p, data) == Len(data) <= RxSize

(* The bytes of a segment are kept if the buffer has room for all of them. *)
Fits(p, data) == Len(pcb[p].buf) + Len(data) <= RxSize
Kept(p, seg) == IF Fits(p, seg.data) THEN seg.data ELSE <<>>

NextRcv(p, seg) == pcb[p].rcvNxt + Len(Kept(p, seg)) + (IF seg.fin THEN 1 ELSE 0)

(* tcp_input: neither the sequence number nor a reset is looked at.         *)
TcpInput(seg) ==
    \/ FindPcb(seg.port) = {} /\ UNCHANGED <<pcb, peer>>
    \/ \E p \in FindPcb(seg.port) :
         \/ /\ pcb[p].state = "SYN_SENT" /\ seg.syn
            /\ pcb' = [pcb EXCEPT ![p].state = "ESTABLISHED", ![p].rcvNxt = 1]
            /\ SendAck(seg.conn, 1)
         \/ /\ pcb[p].state = "ESTABLISHED"
            /\ pcb' = [pcb EXCEPT ![p].buf = @ \o Kept(p, seg), ![p].rcvNxt = NextRcv(p, seg),
                                  ![p].fin = IF seg.fin THEN 1 ELSE 0,
                                  ![p].due = @ \o Kept(p, seg),
                                  ![p].torn = @ \/ (app.at = "moving" /\ app.p = p
                                                      /\ Kept(p, seg) # <<>>),
                                  ![p].state = IF seg.fin THEN "CLOSE_WAIT" ELSE @]
            /\ IF Kept(p, seg) # <<>> \/ seg.fin
               THEN SendAck(seg.conn, NextRcv(p, seg)) ELSE UNCHANGED peer
         \/ /\ pcb[p].state = "CLOSE_WAIT" \/ (pcb[p].state = "SYN_SENT" /\ ~seg.syn)
            /\ UNCHANGED <<pcb, peer>>

(* A segment arrives, from network_stack_tick in whatever task calls it:    *)
(* the head of the line, or any segment and perhaps not for the last time.  *)
Arrive ==
    /\ \E i \in 1 .. Len(flight) :
          /\ i = 1 \/ Faults
          /\ \A p \in Pcbs : pcb[p].rcvNxt < MaxRcv
          /\ TcpInput(flight[i])
          /\ flight' = RemoveAt(flight, i) \/ (Faults /\ flight' = flight)
    /\ UNCHANGED <<conns, app>>

Lose == /\ Faults /\ \E i \in 1 .. Len(flight) : flight' = RemoveAt(flight, i)
        /\ UNCHANGED <<pcb, conns, app, peer>>

(* What the server may send on connection c: its SYN, a bare acknowledgment *)
(* (a padded frame), the bytes of the window, or its FIN.                   *)
Segment(c, syn, fin, data) ==
    [conn |-> c, port |-> EphemeralPort(c), syn |-> syn, fin |-> fin, data |-> data]
Padding(c) == <<<<c, 0>>>>

PeerSegments(c) ==
    LET r == peer[c]
        bytes == {i \in {r.sent + 1, r.acked} : i \in 1 .. Answer /\ i < r.acked + Window}
    IN  (IF r.syn /\ r.acked = 0 THEN {Segment(c, TRUE, FALSE, Padding(c))} ELSE {})
        \cup (IF r.request /\ r.sent < 2 THEN {Segment(c, FALSE, FALSE, Padding(c))} ELSE {})
        \cup (IF r.request THEN {Segment(c, FALSE, FALSE, <<<<c, i>>>>) : i \in bytes} ELSE {})
        \cup (IF r.request /\ r.sent = Answer THEN {Segment(c, FALSE, TRUE, Padding(c))} ELSE {})

(* On a reliable network a byte is repeated only when nothing is under way. *)
PeerSend ==
    /\ Len(flight) < MaxFlight
    /\ \E c \in 1 .. conns : \E seg \in PeerSegments(c) :
          LET i == seg.data[1][2] IN
          /\ Faults \/ i > peer[c].sent \/ \A k \in 1 .. Len(flight) : flight[k].conn # c
          /\ flight' = Append(flight, seg)
          /\ peer' = [peer EXCEPT ![c].sent = Max({@, i})]
    /\ UNCHANGED <<pcb, conns, app>>

TcpInit ==
    /\ pcb = [p \in Pcbs |-> Closed]
    /\ conns = 0 /\ app = NoApp /\ flight = <<>>
    /\ peer = [c \in 1 .. MaxConnects |-> NoPeer]

TcpNext ==
    \/ \E kind \in {"wget", "user"} : TcpConnect(kind)
    \/ Connected \/ Retransmit \/ ConnectTimeout \/ TcpSend
    \/ ReceiveCopy \/ ReceiveMove \/ ReceiveEnd \/ TcpClose
    \/ Arrive \/ Lose \/ PeerSend

TcpSpec == TcpInit /\ [][TcpNext]_TcpVars
-----------------------------------------------------------------------------
TcpTypeOK ==
    /\ \A p \in Pcbs : /\ pcb[p].state \in {"CLOSED", "SYN_SENT", "ESTABLISHED", "CLOSE_WAIT"}
                       /\ Len(pcb[p].buf) <= RxSize
    /\ app.at \in {"idle", "connecting", "open", "reading", "moving", "closing"}

(* rcv_nxt counts the SYN, the bytes read, the bytes in the buffer and the   *)
(* FIN, also when segments come twice, late or too big, and when tcp_input   *)
(* runs in the middle of tcp_receive.                                        *)
AckedIsCounted ==
    \A p \in Pcbs : pcb[p].state \in {"ESTABLISHED", "CLOSE_WAIT"} =>
        pcb[p].rcvNxt = 1 + pcb[p].taken + Len(pcb[p].buf) + pcb[p].fin

(* Until tcp_input appends in the middle of tcp_receive, the buffer holds    *)
(* the bytes that were acknowledged and not yet read, all of them and in the *)
(* order they were acknowledged in.  From then on bytes are lost: see        *)
(* NothingLost.                                                              *)
BufferIsDue ==
    \A p \in Pcbs : pcb[p].state \in {"ESTABLISHED", "CLOSE_WAIT"} /\ ~pcb[p].torn =>
        pcb[p].buf = pcb[p].due

(* A late segment of a closed connection never reaches the control block's  *)
(* next connection: the reader sees bytes of its own connection only.        *)
OwnBytes ==
    \A p \in Pcbs : pcb[p].state # "CLOSED" =>
        \A i \in 1 .. Len(pcb[p].buf) : pcb[p].buf[i][1] = pcb[p].port

(* Fault-free, the reader gets the answer: "Buffer de recepción interno     *)
(* para evitar pérdida de datos" (tcp.h), "GUARDAR EN BUFFER INTERNO SIEMPRE" *)
(* (tcp.c): no byte the server sent is missing between two it receives.      *)
NothingLost == ~app.gap

\* The acknowledgment number is the count of what was accepted, the buffer holds
\* just what was acknowledged and not read unless tcp_input ran in the middle of
\* tcp_receive, and a connection holds only its own bytes (tcp.c).
StreamIntact == AckedIsCounted /\ BufferIsDue /\ OwnBytes

=============================================================================
