--------------------------------- MODULE Ipc ---------------------------------
(***************************************************************************)
(* Messages between tasks and mutexes (task_utils.c) and their one user,    *)
(* the disk service of disk_io_daemon.c: a client sends a request to the    *)
(* daemon, waits with a limit for the answer with its request number, and   *)
(* then frees its buffer.  message_send and the take of message_receive     *)
(* have interrupts off; everything else can be interrupted between any two  *)
(* steps.  Whether a limit has passed is left open.                         *)
(***************************************************************************)
EXTENDS Integers, Sequences, FiniteSets, FiniteSetsExt

CONSTANTS
    Clients,      \* tasks that use the disk service
    Daemon,       \* the task of disk_io_daemon
    QueueSlots,   \* message_queues[]
    MAX_MESSAGES_PER_QUEUE,
    MaxRequests   \* client -> bound on its calls

NoTask == "no task"
Other == "other"   \* a task that has a queue and does not take part

ASSUME IpcAssumption ==
    /\ {Daemon, NoTask, Other} \cap Clients = {} /\ Daemon \notin {NoTask, Other}
    /\ QueueSlots \subseteq Nat \ {0}
    /\ MAX_MESSAGES_PER_QUEUE \in Nat /\ MaxRequests \in [Clients -> Nat]

VARIABLES
    owner,       \* slot -> owner_task_id, or NoTask
    messages,    \* slot -> the list of messages
    next_request_id,
    client,      \* the call each client is in
    daemon,      \* the request the daemon works on, or NoMsg
    performed,   \* history: <<client, call>> pairs whose operation was carried out
    ihist,       \* history: a slot taken twice, numbers drawn again, a freed buffer written
    mutex,       \* owner and lock_count
    section      \* each client and the mutex

IpcVars == <<owner, messages, next_request_id, client, daemon, performed, ihist, mutex, section>>
QueueVars == <<owner, messages, next_request_id, client, daemon, performed, ihist>>
MutexVars == <<mutex, section>>

NoMsg == [type |-> "none", from |-> NoTask, id |-> 0, call |-> 0]
Outside == [pc |-> "out", slot |-> 0, id |-> 0, call |-> 0, result |-> "none"]
-----------------------------------------------------------------------------
(* message_queue_get *)
QueueOf(t) == {s \in QueueSlots : owner[s] = t}
FreeSlots == {s \in QueueSlots : owner[s] = NoTask}

(* message_send: nothing is sent to a task without a queue or whose queue   *)
(* is full.  (That a sleeping target becomes ready only shortens its sleep.) *)
CanSend(t) == QueueOf(t) # {} /\ Len(messages[Min(QueueOf(t))]) < MAX_MESSAGES_PER_QUEUE
Sent(t, m) == [messages EXCEPT ![Min(QueueOf(t))] = Append(@, m)]

(* message_receive takes the first message of the receiver's queue. *)
HasMessage(t) == QueueOf(t) # {} /\ messages[Min(QueueOf(t))] # <<>>
First(t) == Head(messages[Min(QueueOf(t))])
Rest(t) == [messages EXCEPT ![Min(QueueOf(t))] = Tail(@)]

(* message_queue_create: a free slot is found and then taken, with          *)
(* interrupts on in between.                                                *)
CreateFinds(c) ==
    /\ client[c].pc = "out" /\ QueueOf(c) = {} /\ FreeSlots # {}
    /\ client' = [client EXCEPT ![c] = [@ EXCEPT !.pc = "creates", !.slot = Min(FreeSlots)]]
    /\ UNCHANGED <<owner, messages, next_request_id, daemon, performed, ihist, MutexVars>>
CreateTakes(c) ==
    /\ client[c].pc = "creates"
    /\ owner' = [owner EXCEPT ![client[c].slot] = c]
    /\ client' = [client EXCEPT ![c].pc = "out"]
    /\ ihist' = [ihist EXCEPT !.shared = @ \/ owner[client[c].slot] # NoTask]
    /\ UNCHANGED <<messages, next_request_id, daemon, performed, MutexVars>>

(* async_disk_read, async_disk_write and async_disk_flush without a queue   *)
(* do the work themselves.                                                  *)
DirectCall(c) ==
    /\ client[c].pc = "out" /\ QueueOf(c) = {} /\ FreeSlots = {} /\ client[c].call < MaxRequests[c]
    /\ client' = [client EXCEPT ![c] = [@ EXCEPT !.call = client[c].call + 1, !.result = "done"]]
    /\ performed' = performed \cup {<<c, client[c].call + 1>>}
    /\ UNCHANGED <<owner, messages, next_request_id, daemon, ihist, MutexVars>>

(* request_id = next_request_id++ is a load and a store. *)
CallLoadsId(c) ==
    /\ client[c].pc = "out" /\ QueueOf(c) # {} /\ client[c].call < MaxRequests[c]
    /\ client' = [client EXCEPT ![c] = [@ EXCEPT !.pc = "numbers", !.id = next_request_id,
                                                 !.call = client[c].call + 1, !.result = "none"]]
    /\ UNCHANGED <<owner, messages, next_request_id, daemon, performed, ihist, MutexVars>>

(* The request is sent, or the call fails at once. *)
CallSends(c) ==
    /\ client[c].pc = "numbers"
    /\ next_request_id' = client[c].id + 1
    /\ ihist' = [ihist EXCEPT !.renumbered = @ \/ client[c].id + 1 < next_request_id]
    /\ \/ /\ CanSend(Daemon)
          /\ messages' = Sent(Daemon, [type |-> "request", from |-> c, id |-> client[c].id, call |-> client[c].call])
          /\ client' = [client EXCEPT ![c].pc = "waits"]
       \/ /\ ~CanSend(Daemon)
          /\ client' = [client EXCEPT ![c] = [@ EXCEPT !.pc = "out", !.result = "failed"]]
          /\ UNCHANGED messages
    /\ UNCHANGED <<owner, daemon, performed, MutexVars>>

Answers(c, m) == m.type = "response" /\ m.id = client[c].id

(* One turn of the wait: the answer with this request's number ends the     *)
(* call, any other message is dropped, or (async_disk_write) sent back to   *)
(* its sender.                                                              *)
CallReceives(c, sends_back) ==
    /\ client[c].pc = "waits" /\ HasMessage(c)
    /\ LET m == First(c) IN
       \/ /\ Answers(c, m)
          /\ client' = [client EXCEPT ![c] = [@ EXCEPT !.pc = "out", !.result = "done"]]
          /\ messages' = Rest(c)
       \/ /\ ~Answers(c, m)
          /\ messages' = IF sends_back /\ CanSend(Daemon)
                         THEN [Rest(c) EXCEPT ![Min(QueueOf(Daemon))] = Append(@, m)] ELSE Rest(c)
          /\ UNCHANGED client
    /\ UNCHANGED <<owner, next_request_id, daemon, performed, ihist, MutexVars>>

(* The limit passes: the call returns and the caller frees the buffer,      *)
(* though the request may still be in the daemon's hands.                   *)
CallTimesOut(c) ==
    /\ client[c].pc = "waits"
    /\ client' = [client EXCEPT ![c] = [@ EXCEPT !.pc = "out", !.result = "timeout"]]
    /\ UNCHANGED <<owner, messages, next_request_id, daemon, performed, ihist, MutexVars>>

(* disk_io_daemon takes a message without blocking; what is no request is   *)
(* dropped.                                                                 *)
DaemonReceives ==
    /\ daemon = NoMsg /\ HasMessage(Daemon)
    /\ messages' = Rest(Daemon)
    /\ daemon' = IF First(Daemon).type = "request" THEN First(Daemon) ELSE NoMsg
    /\ UNCHANGED <<owner, next_request_id, client, performed, ihist, MutexVars>>

(* process_read_request, process_write_request, process_flush_request: the  *)
(* operation on the client's buffer and the answer, lost when it cannot be  *)
(* sent.                                                                    *)
DaemonServes ==
    /\ daemon # NoMsg
    /\ performed' = performed \cup {<<daemon.from, daemon.call>>}
    /\ ihist' = [ihist EXCEPT !.stray = @ \/ client[daemon.from].pc # "waits"
                                          \/ client[daemon.from].call # daemon.call]
    /\ messages' = IF CanSend(daemon.from) THEN Sent(daemon.from, [daemon EXCEPT !.type = "response"]) ELSE messages
    /\ daemon' = NoMsg
    /\ UNCHANGED <<owner, next_request_id, client, MutexVars>>

(* message_queue_destroy, of the task tests: the messages are freed. *)
DestroyQueue(c) ==
    /\ client[c].pc = "out" /\ QueueOf(c) # {}
    /\ LET s == Min(QueueOf(c)) IN
       owner' = [owner EXCEPT ![s] = NoTask] /\ messages' = [messages EXCEPT ![s] = <<>>]
    /\ UNCHANGED <<next_request_id, client, daemon, performed, ihist, MutexVars>>
-----------------------------------------------------------------------------
(* mutex_try_lock fails for the owner too. *)
TryLock(c) ==
    /\ section[c] = "out" /\ mutex.owner = NoTask
    /\ mutex' = [owner |-> c, lock_count |-> 1] /\ section' = [section EXCEPT ![c] = "in"]
    /\ UNCHANGED QueueVars

(* mutex_lock of the owner counts. *)
LockAgain(c) ==
    /\ mutex.owner = c /\ section[c] = "in" /\ mutex.lock_count < 2
    /\ mutex' = [mutex EXCEPT !.lock_count = @ + 1]
    /\ UNCHANGED <<section, QueueVars>>

(* After 500 ticks mutex_lock returns without the lock; it returns nothing, *)
(* so the caller goes on.                                                   *)
LockGivesUp(c) ==
    /\ section[c] = "out" /\ mutex.owner \notin {NoTask, c}
    /\ section' = [section EXCEPT ![c] = "intruder"]
    /\ UNCHANGED <<mutex, QueueVars>>

(* Fault: anyone may unlock. *)
UnlockFault(c) ==
    /\ section[c] # "out"
    /\ IF mutex.lock_count > 1
       THEN mutex' = [mutex EXCEPT !.lock_count = @ - 1] /\ UNCHANGED section
       ELSE mutex' = [owner |-> NoTask, lock_count |-> 0] /\ section' = [section EXCEPT ![c] = "out"]
    /\ UNCHANGED QueueVars

(* mutex_unlock: only the owner's counts. *)
Unlock(c) ==
    /\ section[c] # "out"
    /\ IF mutex.owner # c
       THEN section' = [section EXCEPT ![c] = "out"] /\ UNCHANGED mutex
       ELSE IF mutex.lock_count > 1
       THEN mutex' = [mutex EXCEPT !.lock_count = @ - 1] /\ UNCHANGED section
       ELSE mutex' = [owner |-> NoTask, lock_count |-> 0] /\ section' = [section EXCEPT ![c] = "out"]
    /\ UNCHANGED QueueVars

IpcInit ==
    /\ \E last \in {NoTask, Other} :
          owner = [s \in QueueSlots |-> IF s = Min(QueueSlots) THEN Daemon
                                       ELSE IF s = Max(QueueSlots) THEN last ELSE NoTask]
    /\ messages = [s \in QueueSlots |-> <<>>]
    /\ next_request_id = 1 /\ client = [c \in Clients |-> Outside] /\ daemon = NoMsg
    /\ performed = {} /\ ihist = [shared |-> FALSE, renumbered |-> FALSE, stray |-> FALSE]
    /\ mutex = [owner |-> NoTask, lock_count |-> 0] /\ section = [c \in Clients |-> "out"]

MutexNext == \E c \in Clients : TryLock(c) \/ LockAgain(c) \/ LockGivesUp(c) \/ Unlock(c)
QueueNext ==
    \/ \E c \in Clients :
          \/ CreateFinds(c) \/ CreateTakes(c) \/ DirectCall(c) \/ DestroyQueue(c)
          \/ CallLoadsId(c) \/ CallSends(c) \/ CallTimesOut(c)
          \/ \E back \in BOOLEAN : CallReceives(c, back)
    \/ DaemonReceives \/ DaemonServes
IpcNext == QueueNext \/ MutexNext
IpcSpec == IpcInit /\ [][IpcNext]_IpcVars
-----------------------------------------------------------------------------
IpcTypeOK ==
    /\ \A s \in QueueSlots : owner[s] \in Clients \cup {Daemon, Other, NoTask}
    /\ \A s \in QueueSlots : Len(messages[s]) <= MAX_MESSAGES_PER_QUEUE
    /\ mutex.lock_count \in 0 .. 2

(* A disk call that returns success had its own request carried out, in     *)
(* spite of answers that come after the limit of an earlier call, answers   *)
(* lost on a full queue and two clients that drew one number.  (Not when    *)
(* two tasks took one queue slot at the same time, or when a client         *)
(* interrupted in next_request_id++ set the counter back and a number was   *)
(* drawn again by a client that still has an answer coming.)                *)
AnswerIsOwn ==
    ~ihist.shared /\ ~ihist.renumbered =>
        \A c \in Clients : client[c].result = "done" => <<c, client[c].call>> \in performed

(* At most one task is in the section by right: intruders that gave up      *)
(* waiting never take the lock away from its owner or leave it locked.      *)
MutexExcludes ==
    /\ Cardinality({c \in Clients : section[c] = "in"}) <= 1
    /\ \A c \in Clients : section[c] = "in" <=> mutex.owner = c

\* An answer reaches the task that asked, and a mutex has one holder
\* (disk_io_daemon.c, task_utils.c).
IpcSound == AnswerIsOwn /\ MutexExcludes

=============================================================================
