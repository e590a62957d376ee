------------------------------- MODULE NetCard -------------------------------
(***************************************************************************)
(* The e1000 driver and the card: two descriptor rings in shared memory.    *)
(* The driver's calls run with interrupts off; the card works beside them.  *)
(* Frames are numbered in the order in which they are offered, so that a    *)
(* sequence of frames shows what was lost, repeated or overtaken.           *)
(***************************************************************************)
EXTENDS Integers, Sequences, FiniteSets, SequencesExt

CONSTANTS
    Ring,       \* E1000_NUM_TX_DESC, E1000_NUM_RX_DESC
    MaxFrames,  \* bound: frames offered in each direction
    MaxResets   \* bound: transmitter resets

ASSUME RingAssumption == Ring \in Nat \ {0, 1} /\ MaxFrames \in Nat /\ MaxResets \in Nat

VARIABLES
    tx,    \* transmit ring: descriptors, TDH, TDT, tx_curr and the enable bit
    rx,    \* receive ring: descriptors, RDH, RDT, rx_curr and the enable bit
    card,  \* initialized, link and the number of resets
    wire,  \* history: frames accepted for sending, sent, and dropped by a reset
    up     \* history: frames the card took in, and those handed to the stack

CardVars == <<tx, rx, card, wire, up>>

Index == 0 .. Ring - 1
Done(f) == [dd |-> TRUE, frame |-> f]     \* a descriptor the card has finished
Idle == [dd |-> FALSE, frame |-> 0]       \* one it may work on

(* e1000_init_tx: every descriptor is marked done, head and tail are zero. *)
InitTx == [desc |-> [i \in Index |-> Done(0)], head |-> 0, tail |-> 0, curr |-> 0, on |-> TRUE]

(* e1000_init_rx: the card owns all descriptors but the last. *)
InitRx == [desc |-> [i \in Index |-> Idle], head |-> 0, tail |-> Ring - 1, curr |-> 0, on |-> TRUE]

Next1(i) == (i + 1) % Ring

(* Frames in descriptors the driver has filled and the card not yet sent. *)
Pending == {tx.desc[i].frame : i \in {j \in Index : ~tx.desc[j].dd}}
-----------------------------------------------------------------------------
(* e1000_alloc_buffers: any of the allocations may fail. *)
AllocBuffersOk == BOOLEAN

(* e1000_detect_device and e1000_map_memory. *)
DetectCard == BOOLEAN

(* e1000_init, from the driver system. *)
CardInit ==
    /\ card.st = "off"
    /\ \E found \in DetectCard, memory \in AllocBuffersOk :
          IF found /\ memory
          THEN tx' = InitTx /\ rx' = InitRx /\ card' = [card EXCEPT !.st = "ready"]
          ELSE UNCHANGED tx /\ UNCHANGED rx /\ card' = [card EXCEPT !.st = "absent"]
    /\ UNCHANGED <<wire, up>>

(* e1000_driver_stop and e1000_driver_start switch both engines. *)
CardEngines(on) ==
    /\ card.st = "ready" /\ tx.on # on
    /\ tx' = [tx EXCEPT !.on = on] /\ rx' = [rx EXCEPT !.on = on]
    /\ UNCHANGED <<card, wire, up>>

(* e1000_send_packet: the current descriptor must be done; the tail is      *)
(* written last.                                                            *)
SendFrame ==
    /\ card.st = "ready" /\ card.link /\ Len(wire.accepted) < MaxFrames
    /\ tx.desc[tx.curr].dd
    /\ tx' = [tx EXCEPT !.desc[tx.curr] = [dd |-> FALSE, frame |-> Len(wire.accepted) + 1],
                        !.tail = Next1(tx.curr), !.curr = Next1(tx.curr)]
    /\ wire' = [wire EXCEPT !.accepted = Append(@, Len(@) + 1)]
    /\ UNCHANGED <<rx, card, up>>

(* The wait for the descriptor times out: the transmitter is set up anew,   *)
(* what was in the ring is gone, and this frame is refused.                 *)
SendTimeout ==
    /\ card.st = "ready" /\ card.link /\ card.resets < MaxResets
    /\ ~tx.desc[tx.curr].dd
    /\ tx' = InitTx
    /\ wire' = [wire EXCEPT !.dropped = @ \cup Pending]
    /\ card' = [card EXCEPT !.resets = @ + 1]
    /\ UNCHANGED <<rx, up>>

(* Fault: the status of the descriptor is not cleared. *)
ReceiveFrameStaleFault ==
    LET d == rx.desc[rx.curr] IN
    /\ card.st = "ready" /\ d.dd
    /\ rx' = [rx EXCEPT !.curr = Next1(rx.curr), !.tail = rx.curr]
    /\ up' = [up EXCEPT !.delivered = IF d.frame > 0 /\ Len(@) < 2 * MaxFrames
                                      THEN Append(@, d.frame) ELSE @]
    /\ UNCHANGED <<tx, card, wire>>

(* e1000_receive_packet: a frame of no length or too long (number 0 here)   *)
(* is skipped; in both cases the descriptor goes back to the card.          *)
ReceiveFrame ==
    LET d == rx.desc[rx.curr] IN
    /\ card.st = "ready" /\ d.dd
    /\ rx' = [rx EXCEPT !.desc[rx.curr] = Idle, !.curr = Next1(rx.curr), !.tail = rx.curr]
    /\ up' = [up EXCEPT !.delivered = IF d.frame > 0 THEN Append(@, d.frame) ELSE @]
    /\ UNCHANGED <<tx, card, wire>>

(* e1000_driver_cleanup, after a stop. *)
CardCleanup ==
    /\ card.st = "ready" /\ ~tx.on
    /\ card' = [card EXCEPT !.st = "gone"]
    /\ UNCHANGED <<tx, rx, wire, up>>
-----------------------------------------------------------------------------
(* The card.  A ring whose head has met its tail is empty to it, though the *)
(* driver may just have filled all of it.                                   *)

CardSends ==
    /\ card.st = "ready" /\ tx.on /\ tx.head # tx.tail
    /\ wire' = [wire EXCEPT !.sent = Append(@, tx.desc[tx.head].frame)]
    /\ tx' = [tx EXCEPT !.desc[tx.head].dd = TRUE, !.head = Next1(tx.head)]
    /\ UNCHANGED <<rx, card, up>>

CardReceives(good) ==
    /\ card.st = "ready" /\ rx.on /\ rx.head # rx.tail /\ up.count < MaxFrames
    /\ rx' = [rx EXCEPT !.desc[rx.head] = Done(IF good THEN up.count + 1 ELSE 0),
                        !.head = Next1(rx.head)]
    /\ up' = [up EXCEPT !.count = @ + 1,
                        !.taken = IF good THEN Append(@, up.count + 1) ELSE @]
    /\ UNCHANGED <<tx, card, wire>>

LinkChanges ==
    /\ card.st = "ready"
    /\ card' = [card EXCEPT !.link = ~@]
    /\ UNCHANGED <<tx, rx, wire, up>>

NetCardInit ==
    /\ tx = InitTx /\ rx = InitRx
    /\ card = [st |-> "off", link |-> TRUE, resets |-> 0]
    /\ wire = [accepted |-> <<>>, sent |-> <<>>, dropped |-> {}]
    /\ up = [count |-> 0, taken |-> <<>>, delivered |-> <<>>]

NetCardNext ==
    \/ CardInit \/ CardCleanup
    \/ \E on \in BOOLEAN : CardEngines(on)
    \/ SendFrame \/ SendTimeout \/ ReceiveFrame
    \/ CardSends
    \/ \E good \in BOOLEAN : CardReceives(good)
    \/ LinkChanges
-----------------------------------------------------------------------------
(* Properties. *)

NetCardTypeOK ==
    /\ {tx.head, tx.tail, tx.curr, rx.head, rx.tail, rx.curr} \subseteq Index
    /\ card.st \in {"off", "absent", "ready", "gone"}

Ascending(s) == \A i, j \in 1 .. Len(s) : i < j => s[i] < s[j]

(* The descriptors the card has filled and the driver not yet taken: how    *)
(* many, and the frame of the i-th.                                         *)
Held == (rx.head - rx.curr + Ring) % Ring
HeldFrame(i) == rx.desc[(rx.curr + i) % Ring].frame

(* What is taken in is delivered in order, and the rest waits in the ring,  *)
(* in that order, with descriptors of bad frames (number 0) between.        *)
Received ==
    /\ Ascending(up.taken) /\ IsPrefix(up.delivered, up.taken)
    /\ \A i, j \in 0 .. Held - 1 :
          i < j /\ HeldFrame(i) > 0 /\ HeldFrame(j) > 0 => HeldFrame(i) < HeldFrame(j)
    /\ {up.taken[i] : i \in Len(up.delivered) + 1 .. Len(up.taken)}
          = {HeldFrame(i) : i \in 0 .. Held - 1} \ {0}

(* The card behaves as two queues: every frame e1000_send_packet accepted  *)
(* is sent once and in order, waits in the ring, or went with a reset of    *)
(* the transmitter; the frames the card took in are delivered once and in  *)
(* order or wait in the ring.                                               *)
CardIsFifo ==
    /\ Ascending(wire.sent)
    /\ Range(wire.accepted) = Range(wire.sent) \cup Pending \cup wire.dropped
    /\ Received
=============================================================================
