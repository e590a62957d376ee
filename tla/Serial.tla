------------------------------- MODULE Serial --------------------------------
(***************************************************************************)
(* A serial port (serial.c): a ring of characters to send that tasks fill   *)
(* and the interrupt empties, a ring of received characters the other way   *)
(* round, and the UART between them and the line.  A task that writes with  *)
(* interrupts off, or before the scheduler runs, feeds the UART itself.     *)
(* Characters are numbered as they come.                                    *)
(***************************************************************************)
EXTENDS Integers, Sequences

CONSTANTS
    SerialWriters,           \* tasks that write
    SERIAL_TX_QUEUE_SIZE,
    SERIAL_RX_QUEUE_SIZE,
    UartFifo,                \* received characters the UART holds
    MaxWritten,              \* bounds on the characters of a behaviour
    MaxArrived

ASSUME SerialAssumption ==
    /\ SERIAL_TX_QUEUE_SIZE \in Nat \ {0, 1} /\ SERIAL_RX_QUEUE_SIZE \in Nat \ {0, 1}
    /\ UartFifo \in Nat \ {0} /\ MaxWritten \in Nat /\ MaxArrived \in Nat

VARIABLES
    uart,       \* holding register (0: empty), THRE enabled, THRE pending, receive FIFO
    tx,         \* tx_queue, tx_head, tx_tail, tx_busy
    rx,         \* rx_queue, rx_head, rx_tail
    next_head,  \* of a writer that waits for room, or NoRoom
    flow        \* history: what the rings should hold, counts, whether a waiter was overtaken,
                \* and whether a status command took the last THRE

SerialVars == <<uart, tx, rx, next_head, flow>>

NoRoom == 0 - 1
TxNext(i) == (i + 1) % SERIAL_TX_QUEUE_SIZE
RxNext(i) == (i + 1) % SERIAL_RX_QUEUE_SIZE

(* What a ring of size n holds between tail and head. *)
Between(r, n) == [i \in 1 .. (r.head - r.tail + n) % n |-> r.q[(r.tail + i - 1) % n]]
TxHeld == Between(tx, SERIAL_TX_QUEUE_SIZE)
RxHeld == Between(rx, SERIAL_RX_QUEUE_SIZE)
-----------------------------------------------------------------------------
(* serial_enable_thre: enabled over an empty holding register, the          *)
(* interrupt is pending at once.                                            *)
EnableThre(u) == [u EXCEPT !.thre = TRUE, !.pending = @ \/ (~u.thre /\ u.thr = 0)]

(* outb(port + UART_DATA) *)
Transmit(u, c) == [u EXCEPT !.thr = c, !.pending = FALSE]

(* The end of serial_write_char in queue mode: straight to the UART when    *)
(* nothing waits and it has room, else into the ring.                       *)
Queue(c, next) ==
    IF ~tx.busy /\ uart.thr = 0
    THEN /\ uart' = EnableThre(Transmit(uart, c))
         /\ tx' = [tx EXCEPT !.busy = TRUE]
         /\ flow' = [flow EXCEPT !.written = c, !.overtaken = @ \/ next # TxNext(tx.head)]
    ELSE /\ uart' = EnableThre(uart)
         /\ tx' = [tx EXCEPT !.busy = TRUE, !.q[tx.head] = c, !.head = next]
         /\ flow' = [flow EXCEPT !.written = c, !.backlog = Append(@, c),
                                 !.overtaken = @ \/ next # TxNext(tx.head)]

(* serial_write_char with interrupts on: a full ring makes the task yield,  *)
(* keeping the next_head it computed.                                       *)
WriteChar(w) ==
    /\ next_head[w] = NoRoom /\ flow.written < MaxWritten
    /\ LET next == TxNext(tx.head) IN
       IF next = tx.tail
       THEN next_head' = [next_head EXCEPT ![w] = next] /\ UNCHANGED <<uart, tx, flow>>
       ELSE Queue(flow.written + 1, next) /\ UNCHANGED next_head
    /\ UNCHANGED rx

(* Back from task_yield: the loop compares the old next_head with tx_tail,  *)
(* and tx_head may have moved.                                              *)
WriteResumes(w) ==
    /\ next_head[w] # NoRoom /\ next_head[w] # tx.tail /\ flow.written < MaxWritten
    /\ Queue(flow.written + 1, next_head[w])
    /\ next_head' = [next_head EXCEPT ![w] = NoRoom]
    /\ UNCHANGED rx

(* serial_write_char with interrupts off or before the scheduler runs: it   *)
(* polls for the holding register and goes in front of the ring.  When the  *)
(* polling times out the character is dropped.                              *)
WritePolled ==
    /\ flow.written < MaxWritten
    /\ \/ uart.thr = 0 /\ uart' = Transmit(uart, flow.written + 1)
       \/ uart.thr # 0 /\ UNCHANGED uart
    /\ flow' = [flow EXCEPT !.written = @ + 1]
    /\ UNCHANGED <<tx, rx, next_head>>

(* The line takes the character in the holding register. *)
UartSends ==
    /\ uart.thr # 0
    /\ uart' = [uart EXCEPT !.thr = 0, !.pending = uart.thre]
    /\ flow' = [flow EXCEPT !.taken = FALSE]
    /\ UNCHANGED <<tx, rx, next_head>>

(* serial_dump_status, of "serialtest com1": its read of IIR acknowledges a *)
(* pending THRE, unless received data comes first there, and nobody sends.  *)
DumpStatus ==
    /\ uart.pending /\ uart.fifo = <<>>
    /\ uart' = [uart EXCEPT !.pending = FALSE]
    /\ flow' = [flow EXCEPT !.taken = TRUE]
    /\ UNCHANGED <<tx, rx, next_head>>

(* Fault: the transmitter counts as idle after every character.             *)
ThreEmptyFault ==
    /\ uart.pending
    /\ IF tx.head # tx.tail
       THEN /\ uart' = Transmit(uart, tx.q[tx.tail])
            /\ tx' = [tx EXCEPT !.tail = TxNext(@), !.busy = FALSE]
            /\ flow' = [flow EXCEPT !.backlog = IF @ = <<>> THEN @ ELSE Tail(@)]
       ELSE /\ uart' = [uart EXCEPT !.pending = FALSE, !.thre = FALSE]
            /\ tx' = [tx EXCEPT !.busy = FALSE]
            /\ UNCHANGED flow
    /\ UNCHANGED <<rx, next_head>>

(* serial_irq_handler_line, transmitter empty: the next character goes out; *)
(* when the ring is empty the interrupt is switched off.                    *)
ThreEmpty ==
    /\ uart.pending
    /\ IF tx.head # tx.tail
       THEN LET last == TxNext(tx.tail) = tx.head IN
            /\ uart' = [Transmit(uart, tx.q[tx.tail]) EXCEPT !.thre = ~last]
            /\ tx' = [tx EXCEPT !.tail = TxNext(@), !.busy = ~last]
            /\ flow' = [flow EXCEPT !.backlog = IF @ = <<>> THEN @ ELSE Tail(@)]
       ELSE /\ uart' = [uart EXCEPT !.pending = FALSE, !.thre = FALSE]
            /\ tx' = [tx EXCEPT !.busy = FALSE]
            /\ UNCHANGED flow
    /\ UNCHANGED <<rx, next_head>>
-----------------------------------------------------------------------------
(* A character arrives; the UART drops it when its FIFO is full. *)
UartReceives ==
    /\ flow.arrived < MaxArrived
    /\ uart' = [uart EXCEPT !.fifo = IF Len(@) < UartFifo THEN Append(@, flow.arrived + 1) ELSE @]
    /\ flow' = [flow EXCEPT !.arrived = @ + 1]
    /\ UNCHANGED <<tx, rx, next_head>>

(* serial_irq_handler_line, data available: everything in the FIFO moves to *)
(* the ring as far as it has room; the rest is dropped.                     *)
DataAvailable ==
    /\ uart.fifo # <<>>
    /\ LET room == SERIAL_RX_QUEUE_SIZE - 1 - Len(RxHeld)
           n == IF Len(uart.fifo) < room THEN Len(uart.fifo) ELSE room
           slot(i) == (rx.head + i - 1) % SERIAL_RX_QUEUE_SIZE
       IN  /\ rx' = [rx EXCEPT
                       !.q = [k \in DOMAIN @ |->
                                IF \E i \in 1 .. n : slot(i) = k
                                THEN uart.fifo[CHOOSE i \in 1 .. n : slot(i) = k] ELSE @[k]],
                       !.head = (@ + n) % SERIAL_RX_QUEUE_SIZE]
           /\ flow' = [flow EXCEPT !.received = @ \o SubSeq(uart.fifo, 1, n)]
    /\ uart' = [uart EXCEPT !.fifo = <<>>]
    /\ UNCHANGED <<tx, next_head>>

(* serial_chardev_read takes what there is, up to the size asked for. *)
ChardevRead(size) ==
    LET n == IF Len(RxHeld) < size THEN Len(RxHeld) ELSE size IN
    /\ n > 0
    /\ rx' = [rx EXCEPT !.tail = (@ + n) % SERIAL_RX_QUEUE_SIZE]
    /\ flow' = [flow EXCEPT !.received = SubSeq(@, n + 1, Len(@))]
    /\ UNCHANGED <<uart, tx, next_head>>

(* dev_read of devfs: one serial_read_nonblock at a time, interrupts on     *)
(* between them.                                                            *)
DevRead ==
    /\ rx.head # rx.tail
    /\ rx' = [rx EXCEPT !.tail = RxNext(@)]
    /\ flow' = [flow EXCEPT !.received = Tail(@)]
    /\ UNCHANGED <<uart, tx, next_head>>

(* serial_clear_rx_queue *)
ClearRxQueue ==
    /\ rx' = [rx EXCEPT !.tail = rx.head]
    /\ flow' = [flow EXCEPT !.received = <<>>]
    /\ UNCHANGED <<uart, tx, next_head>>

SerialInit ==
    /\ uart = [thr |-> 0, thre |-> FALSE, pending |-> FALSE, fifo |-> <<>>]
    /\ tx = [q |-> [i \in 0 .. SERIAL_TX_QUEUE_SIZE - 1 |-> 0], head |-> 0, tail |-> 0, busy |-> FALSE]
    /\ rx = [q |-> [i \in 0 .. SERIAL_RX_QUEUE_SIZE - 1 |-> 0], head |-> 0, tail |-> 0]
    /\ next_head = [w \in SerialWriters |-> NoRoom]
    /\ flow = [written |-> 0, arrived |-> 0, backlog |-> <<>>, received |-> <<>>, overtaken |-> FALSE,
             taken |-> FALSE]

SerialNext ==
    \/ \E w \in SerialWriters : WriteChar(w) \/ WriteResumes(w)
    \/ WritePolled \/ UartSends \/ ThreEmpty \/ DumpStatus
    \/ UartReceives \/ DataAvailable \/ \E size \in 1 .. 2 : ChardevRead(size)
    \/ DevRead \/ ClearRxQueue

SerialSpec == SerialInit /\ [][SerialNext]_SerialVars
-----------------------------------------------------------------------------
SerialTypeOK ==
    /\ {tx.head, tx.tail} \subseteq 0 .. SERIAL_TX_QUEUE_SIZE - 1 /\ tx.busy \in BOOLEAN
    /\ {rx.head, rx.tail} \subseteq 0 .. SERIAL_RX_QUEUE_SIZE - 1
    /\ Len(uart.fifo) <= UartFifo
    /\ next_head \in [SerialWriters -> {NoRoom} \cup 0 .. SERIAL_TX_QUEUE_SIZE - 1]

(* Both rings are queues, and output does not stall: a ring that is not     *)
(* empty has its interrupt enabled, and the interrupt is pending or will    *)
(* come when the UART has sent what it holds.  For the output ring this     *)
(* needs that no writer overtook one that waited for room: the waiter would *)
(* then write back a tx_head of the past.  And it needs that no status      *)
(* command took the interrupt: the writers then only fill the ring, until a *)
(* polled character is sent (serial_write_char, serial_irq_handler_line,    *)
(* serial_chardev_read, serial_dump_status).                                *)
SerialSound ==
    /\ RxHeld = flow.received
    /\ ~flow.overtaken =>
         /\ TxHeld = flow.backlog
         /\ TxHeld # <<>> => tx.busy /\ uart.thre /\ (uart.pending \/ uart.thr # 0 \/ flow.taken)
         /\ ~tx.busy => TxHeld = <<>>
=============================================================================
