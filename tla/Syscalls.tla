------------------------------ MODULE Syscalls -------------------------------
(***************************************************************************)
(* System calls of user tasks (syscalls.c) and the keyboard ring they read  *)
(* (keyboard.c).  A call runs with interrupts off and gives the processor   *)
(* away only in task_sleep and while arp_resolve waits.  The keyboard interrupt and the task of the top *)
(* command, which runs with interrupts on, share the ring with it.          *)
(* usb_hid_poll would put keys into it too, but the USB driver is never     *)
(* created, so it finds no device.                                          *)
(***************************************************************************)
EXTENDS Integers, Sequences, FiniteSets, FiniteSetsExt, Functions

CONSTANTS
    UserTasks,       \* user tasks
    Readers,         \* those that read the keyboard
    Fds,             \* descriptors after stdin, stdout and stderr
    Sockets,         \* TCP_MAX_CONNECTIONS connections of tcp.c
    KEYBOARD_BUFFER_SIZE,
    CountWidth,      \* 2^32, for keyboard_buffer_count
    MaxLine,         \* longest line asked for
    MaxScancodes     \* bound on the bytes from keyboards

ASSUME SyscallsAssumption ==
    /\ KEYBOARD_BUFFER_SIZE \in Nat \ {0}
    /\ CountWidth \in Nat /\ CountWidth > KEYBOARD_BUFFER_SIZE
    /\ MaxLine \in Nat /\ MaxScancodes \in Nat
    /\ IsFiniteSet(UserTasks) /\ Readers \subseteq UserTasks
    /\ Fds \subseteq Nat /\ Sockets \subseteq Nat \ {0}

VARIABLES
    kbd,      \* the ring: keyboard_buffer, head, tail, count
    mods,     \* kbd_state and the prefix flag
    queue,    \* history: keys accepted and not yet read, in order
    scans,    \* bytes received so far; a key is named by its number
    top,      \* top_task_func: "off", "sleeps" or "tested"
    ucall,    \* the call each user task is in
    fd_table, \* its descriptors: Free, File or a socket
    pcbs,     \* connections in use in tcp.c
    kbufs,    \* kernel buffers allocated for calls
    uhist     \* history: torn ring, buffers of tasks killed in a call, the
              \* connections lost by a close and those left in SYN_SENT

KeyVars == <<kbd, mods, queue, scans>>
CallVars == <<ucall, fd_table, pcbs, kbufs>>
SyscallVars == <<KeyVars, top, CallVars, uhist>>

Free == 0
File == 0 - 1
InUser == [op |-> "user", pos |-> 0, max |-> 0]
Dead == [op |-> "dead", pos |-> 0, max |-> 0]
BufferedOps == {"gets", "read", "transfer", "connect"}
-----------------------------------------------------------------------------
(* keyboard_process_scancode.  A modifier leaves the prefix flag set, so    *)
(* the key after an extended modifier counts as an extended one.            *)
Scancodes == {"E0", "shift", "shift-", "ctrl", "ctrl-", "alt", "alt-", "caps",
              "letter", "enter", "back", "up", "release"}

Modified(m, sc) ==
    CASE sc \in {"alt", "alt-"} /\ m.ext -> [m EXCEPT !.altgr = sc = "alt", !.ext = FALSE]
      [] sc \in {"shift", "shift-"} -> [m EXCEPT !.shift = sc = "shift"]
      [] sc \in {"ctrl", "ctrl-"} -> [m EXCEPT !.ctrl = sc = "ctrl"]
      [] sc \in {"alt", "alt-"} -> [m EXCEPT !.altgr = sc = "alt"]
      [] sc = "caps" -> [m EXCEPT !.caps = ~@]
      [] sc = "E0" -> [m EXCEPT !.ext = TRUE]
      [] OTHER -> [m EXCEPT !.ext = FALSE]

(* The key a byte yields: a letter with control is a control code, a letter *)
(* may have no meaning with AltGr, arrows are negative, and an extended     *)
(* letter is nothing.                                                       *)
KeyOf(m, sc) ==
    CASE sc = "letter" /\ ~m.ext -> {IF m.ctrl /\ ~m.shift /\ ~m.caps THEN "control" ELSE "char"}
                                    \cup (IF m.altgr THEN {"none", "char"} ELSE {})
      [] sc = "enter" /\ ~m.ext -> {"newline"}
      [] sc = "back" /\ ~m.ext -> {"backspace"}
      [] sc = "up" -> {"arrow"}
      [] OTHER -> {"none"}

InRing(k) == k \in {"char", "control", "newline", "backspace"}
-----------------------------------------------------------------------------
(* Fault: a full ring takes one more key. *)
HasRoomFault == kbd.count <= KEYBOARD_BUFFER_SIZE

HasRoom == kbd.count < KEYBOARD_BUFFER_SIZE

Stored(r, k) == [r EXCEPT !.buf[r.tail] = k]
Advanced(r) == [r EXCEPT !.tail = (@ + 1) % KEYBOARD_BUFFER_SIZE, !.count = (@ + 1) % CountWidth]
Dropped(r) == [r EXCEPT !.head = (@ + 1) % KEYBOARD_BUFFER_SIZE, !.count = (@ + CountWidth - 1) % CountWidth]

OldestKey == kbd.buf[kbd.head]

(* keyboard_irq_handler and keyboard_inject_scancode; the callback is the   *)
(* terminal's and runs here too.                                            *)
KeyboardIrq(sc) ==
    /\ scans < MaxScancodes
    /\ scans' = scans + 1 /\ mods' = Modified(mods, sc)
    /\ \E k \in KeyOf(mods, sc) :
          IF InRing(k) /\ HasRoom
          THEN /\ kbd' = Advanced(Stored(kbd, [id |-> scans + 1, key |-> k]))
               /\ queue' = Append(queue, [id |-> scans + 1, key |-> k])
          ELSE UNCHANGED <<kbd, queue>>
    /\ UNCHANGED <<top, CallVars, uhist>>

(* The key leaves the ring; taking one that was never stored tears it. *)
TakeKey ==
    /\ kbd' = Dropped(kbd)
    /\ queue' = IF queue = <<>> THEN queue ELSE Tail(queue)
    /\ uhist' = [uhist EXCEPT !.torn = @ \/ kbd.count = 0 \/ queue = <<>>]
    /\ UNCHANGED <<mods, scans>>

(* keyboard_clear_buffer *)
ClearBuffer ==
    /\ kbd' = [kbd EXCEPT !.head = 0, !.tail = 0, !.count = 0]
    /\ queue' = <<>>
    /\ UNCHANGED <<mods, scans, uhist>>

(* top_task_func tests the count with interrupts on and takes the key after *)
(* that: a user task may have taken it in between.                          *)
TopStart == top = "off" /\ top' = "sleeps" /\ UNCHANGED <<KeyVars, CallVars, uhist>>
TopTests == top = "sleeps" /\ kbd.count # 0 /\ top' = "tested" /\ UNCHANGED <<KeyVars, CallVars, uhist>>
TopTakes == top = "tested" /\ TakeKey /\ top' \in {"sleeps", "off"} /\ UNCHANGED CallVars
-----------------------------------------------------------------------------
Returns(t) == ucall' = [ucall EXCEPT ![t] = InUser]
Calls(t) == ucall[t] = InUser

(* SYSCALL_GETS and SYSCALL_READ of stdin allocate a buffer of the size     *)
(* asked for; a pointer that does not validate is refused before that.      *)
(* With size 0 the bound max_len - 1 of GETS wraps: it reads to the end of  *)
(* the line into a buffer of no bytes.                                      *)
GetsStart(t, n) ==
    /\ Calls(t)
    /\ ucall' = [ucall EXCEPT ![t] = [op |-> "gets", pos |-> 0, max |-> n]]
    /\ kbufs' = kbufs + 1
    /\ UNCHANGED <<KeyVars, top, fd_table, pcbs, uhist>>
ReadStart(t, n) ==
    /\ Calls(t)
    /\ ucall' = [ucall EXCEPT ![t] = [op |-> "read", pos |-> 0, max |-> n]]
    /\ kbufs' = kbufs + 1
    /\ UNCHANGED <<KeyVars, top, fd_table, pcbs, uhist>>

(* One key of GETS: the line ends at a newline or when the buffer is full   *)
(* (a position past MaxLine counts as MaxLine + 1).                         *)
GetsKey(t) ==
    /\ ucall[t].op = "gets" /\ kbd.count # 0
    /\ TakeKey
    /\ LET k == OldestKey.key
           pos == CASE k = "backspace" -> IF ucall[t].pos > 0 THEN ucall[t].pos - 1 ELSE 0
                    [] k = "char" -> Min({ucall[t].pos + 1, MaxLine + 1})
                    [] OTHER -> ucall[t].pos
           done == k = "newline" \/ (ucall[t].max # 0 /\ pos >= ucall[t].max - 1)
       IN  /\ ucall' = [ucall EXCEPT ![t] = IF done THEN InUser ELSE [@ EXCEPT !.pos = pos]]
           /\ kbufs' = IF done THEN kbufs - 1 ELSE kbufs
    /\ UNCHANGED <<top, fd_table, pcbs>>

(* SYSCALL_READ of stdin: the loop counts a stored key twice (bytes_read++  *)
(* in the store and in the for), so the bytes have gaps and the result can  *)
(* exceed the count by one.                                                 *)
ReadKey(t) ==
    /\ ucall[t].op = "read" /\ ucall[t].pos < ucall[t].max /\ kbd.count # 0
    /\ TakeKey
    /\ LET k == OldestKey.key
           pos == CASE k = "backspace" /\ ucall[t].pos > 0 -> ucall[t].pos
                    [] k \in {"char", "control"} -> ucall[t].pos + 2
                    [] OTHER -> ucall[t].pos + 1
           done == k = "newline" \/ pos >= ucall[t].max
       IN  /\ ucall' = [ucall EXCEPT ![t] = IF done THEN InUser ELSE [@ EXCEPT !.pos = pos]]
           /\ kbufs' = IF done THEN kbufs - 1 ELSE kbufs
    /\ UNCHANGED <<top, fd_table, pcbs>>

(* No key after one tick of sleep: the call returns what it has. *)
ReadTimesOut(t) ==
    /\ ucall[t].op = "read"
    /\ kbd.count = 0 \/ ucall[t].pos >= ucall[t].max
    /\ Returns(t) /\ kbufs' = kbufs - 1
    /\ UNCHANGED <<KeyVars, top, fd_table, pcbs, uhist>>

(* SYSCALL_GETC, SYSCALL_READKEY *)
GetKey(t) ==
    /\ Calls(t) /\ kbd.count # 0 /\ TakeKey
    /\ UNCHANGED <<top, CallVars>>

(* SYSCALL_KBFLUSH *)
Flush(t) == Calls(t) /\ ClearBuffer /\ UNCHANGED <<top, CallVars>>
-----------------------------------------------------------------------------
FreeFds(t) == {f \in Fds : fd_table[t][f] = Free}

(* SYSCALL_OPEN takes the first free descriptor, when there is one. *)
OpenCall(t) ==
    /\ Calls(t) /\ FreeFds(t) # {}
    /\ fd_table' = [fd_table EXCEPT ![t][Min(FreeFds(t))] = File]
    /\ UNCHANGED <<KeyVars, top, ucall, pcbs, kbufs, uhist>>

(* SYSCALL_CONNECT.  tcp_connect takes the first free block and sends a SYN *)
(* from a buffer; arp_resolve may let other tasks run meanwhile.            *)
ConnectStart(t) ==
    /\ Calls(t) /\ Sockets \ pcbs # {}
    /\ LET s == Min(Sockets \ pcbs) IN
       /\ ucall' = [ucall EXCEPT ![t] = [op |-> "connect", pos |-> s, max |-> 0]]
       /\ pcbs' = pcbs \cup {s}
    /\ kbufs' = kbufs + 1
    /\ UNCHANGED <<KeyVars, top, fd_table, uhist>>

(* create_socket_fd found a descriptor for the connection. *)
Connects(t, s) ==
    /\ FreeFds(t) # {}
    /\ fd_table' = [fd_table EXCEPT ![t][Min(FreeFds(t))] = s]
    /\ UNCHANGED <<pcbs, uhist>>

(* Fault: the connection is kept when there is no descriptor for it. *)
NotConnectedFault(s) == UNCHANGED <<pcbs, fd_table, uhist>>

(* The peer does not answer, or there is no descriptor or no memory: the    *)
(* block is closed again.                                                   *)
NotConnected(s) == pcbs' = pcbs \ {s} /\ UNCHANGED <<fd_table, uhist>>

(* The first SYN cannot be sent: tcp_connect returns at once and leaves the *)
(* block in SYN_SENT for good.                                              *)
SynNotSent(s) ==
    /\ uhist' = [uhist EXCEPT !.stuck = @ \cup {s}]
    /\ UNCHANGED <<pcbs, fd_table>>

ConnectEnd(t) ==
    /\ ucall[t].op = "connect"
    /\ LET s == ucall[t].pos IN Connects(t, s) \/ NotConnected(s) \/ SynNotSent(s)
    /\ Returns(t) /\ kbufs' = kbufs - 1
    /\ UNCHANGED <<KeyVars, top>>

(* SYSCALL_SEND, SYSCALL_RECV and SYSCALL_WRITE: a kernel buffer for the    *)
(* time of the call; tcp_receive sleeps in it.                              *)
TransferStart(t, f) ==
    /\ Calls(t) /\ fd_table[t][f] # Free
    /\ ucall' = [ucall EXCEPT ![t] = [op |-> "transfer", pos |-> 0, max |-> 0]]
    /\ kbufs' = kbufs + 1
    /\ UNCHANGED <<KeyVars, top, fd_table, pcbs, uhist>>

TransferEnd(t) ==
    /\ ucall[t].op = "transfer"
    /\ Returns(t) /\ kbufs' = kbufs - 1
    /\ UNCHANGED <<KeyVars, top, fd_table, pcbs, uhist>>

(* SYSCALL_CLOSE: vfs_close releases the node and frees the descriptor.  It *)
(* does not call the file's close operation, where the connection would be  *)
(* closed.                                                                  *)
CloseCall(t, f) ==
    /\ Calls(t) /\ fd_table[t][f] # Free
    /\ fd_table' = [fd_table EXCEPT ![t][f] = Free]
    /\ uhist' = [uhist EXCEPT !.closed = @ \cup ({fd_table[t][f]} \cap Sockets)]
    /\ UNCHANGED <<KeyVars, top, ucall, pcbs, kbufs>>

(* SYSCALL_EXIT, or kill from the terminal: task_destroy calls the close    *)
(* operation of every file the task still has.  A buffer of the call it was *)
(* in stays allocated, and so does the block it was connecting.             *)
TaskEnds(t) ==
    /\ ucall[t] # Dead
    /\ ucall' = [ucall EXCEPT ![t] = Dead]
    /\ pcbs' = pcbs \ Range(fd_table[t])
    /\ fd_table' = [fd_table EXCEPT ![t] = [f \in Fds |-> Free]]
    /\ uhist' = [uhist EXCEPT !.leaked = @ + IF ucall[t] = InUser THEN 0 ELSE 1,
                              !.stuck = @ \cup IF ucall[t].op = "connect" THEN {ucall[t].pos} ELSE {}]
    /\ UNCHANGED <<KeyVars, top, kbufs>>

SyscallsInit ==
    /\ kbd = [buf |-> [i \in 0 .. KEYBOARD_BUFFER_SIZE - 1 |-> [id |-> 0, key |-> "char"]],
              head |-> 0, tail |-> 0, count |-> 0]
    /\ mods = [shift |-> FALSE, ctrl |-> FALSE, caps |-> FALSE, altgr |-> FALSE, ext |-> FALSE]
    /\ queue = <<>> /\ scans = 0 /\ top = "off"
    /\ ucall = [t \in UserTasks |-> InUser]
    /\ fd_table = [t \in UserTasks |-> [f \in Fds |-> Free]]
    /\ pcbs = {} /\ kbufs = 0
    /\ uhist = [torn |-> FALSE, leaked |-> 0, closed |-> {}, stuck |-> {}]

KeyboardNext ==
    \/ \E sc \in Scancodes : KeyboardIrq(sc)
    \/ TopStart \/ TopTests \/ TopTakes
    \/ \E t \in Readers :
          \/ \E n \in 0 .. MaxLine : GetsStart(t, n) \/ ReadStart(t, n)
          \/ GetsKey(t) \/ ReadKey(t) \/ ReadTimesOut(t) \/ GetKey(t) \/ Flush(t) \/ TaskEnds(t)
DescriptorNext ==
    \E t \in UserTasks :
        \/ OpenCall(t) \/ ConnectStart(t) \/ ConnectEnd(t) \/ TransferEnd(t) \/ TaskEnds(t)
        \/ \E f \in Fds : TransferStart(t, f) \/ CloseCall(t, f)
SyscallsNext == KeyboardNext \/ DescriptorNext

SyscallsSpec == SyscallsInit /\ [][SyscallsNext]_SyscallVars
-----------------------------------------------------------------------------
SyscallsTypeOK ==
    /\ kbd.head \in 0 .. KEYBOARD_BUFFER_SIZE - 1 /\ kbd.tail \in 0 .. KEYBOARD_BUFFER_SIZE - 1
    /\ kbd.count \in 0 .. CountWidth - 1
    /\ pcbs \subseteq Sockets /\ kbufs \in Nat
    /\ \A t \in UserTasks : ucall[t].op \in {"user", "dead"} \cup BufferedOps

(* The ring is a queue: keys come out in the order they went in, none lost  *)
(* and none twice, whoever reads and whenever it is flushed.  (Not once top *)
(* took a key that another reader had taken since its test: the count then  *)
(* wraps below zero.)                                                       *)
KeyboardFifo ==
    ~uhist.torn =>
        /\ kbd.count = Len(queue)
        /\ \A i \in 1 .. kbd.count : kbd.buf[(kbd.head + i - 1) % KEYBOARD_BUFFER_SIZE] = queue[i]

(* Kernel buffers belong to calls in progress, whichever way calls end; the *)
(* buffer of a task killed inside its call is lost.  A connection block     *)
(* that no descriptor leads to and no call is connecting was lost by a      *)
(* close, by a SYN that could not be sent or with a task killed while it    *)
(* connected, and no other way.                                             *)
CallResources ==
    /\ kbufs = uhist.leaked + Cardinality({t \in UserTasks : ucall[t].op \in BufferedOps})
    /\ \A s \in pcbs :
          \/ s \in uhist.closed \cup uhist.stuck
          \/ \E t \in UserTasks :
                \/ s \in Range(fd_table[t])
                \/ ucall[t].op = "connect" /\ ucall[t].pos = s

=============================================================================
