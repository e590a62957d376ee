---------------------------- MODULE ProcessProofs ----------------------------
(***************************************************************************)
(* Proofs about what processes share: the disk service and the mutex (Ipc)  *)
(* for every set of clients, every queue length and every number of calls,  *)
(* the keyboard ring and the resources of system calls (Syscalls) for every *)
(* number of tasks, descriptors, connections and keys and every size of the *)
(* ring, and the trees of tmpfs and devfs (MemFs) for every number of nodes, *)
(* names, vnodes and devices; and about these and the services of           *)
(* KernelProofs together.                                                   *)
(***************************************************************************)
EXTENDS MCKernel, KernelProofs, Lemmas

-----------------------------------------------------------------------------
(* The mutex.                                                              *)

\* A free mutex has no holder and no count; whoever is in the section by
\* right is the owner.
MutexInv ==
    /\ mutex \in [owner : Clients \cup {NoTask}, lock_count : 0..2]
    /\ section \in [Clients -> {"out", "in", "intruder"}]
    /\ \A c \in Clients : section[c] = "in" <=> mutex.owner = c

\* Every lock, every unlock and every wait given up keeps it.
LEMMA MutexStep == MutexInv /\ [IpcNext]_IpcVars => MutexInv'
  <1> SUFFICES ASSUME MutexInv, [IpcNext]_IpcVars PROVE MutexInv'
    OBVIOUS
  <1> USE IpcAssumption DEF MutexInv
  <1>1. ASSUME NEW c \in Clients, TryLock(c) PROVE MutexInv'
    BY <1>1 DEF TryLock
  <1>2. ASSUME NEW c \in Clients, LockAgain(c) PROVE MutexInv'
    BY <1>2 DEF LockAgain
  <1>3. ASSUME NEW c \in Clients, LockGivesUp(c) PROVE MutexInv'
    BY <1>3 DEF LockGivesUp
  <1>4. ASSUME NEW c \in Clients, Unlock(c) PROVE MutexInv'
    <2>1. CASE mutex.owner # c
      BY <1>4, <2>1 DEF Unlock
    <2>2. CASE mutex.owner = c /\ mutex.lock_count > 1
      BY <1>4, <2>2 DEF Unlock
    <2>3. CASE mutex.owner = c /\ ~(mutex.lock_count > 1)
      BY <1>4, <2>3 DEF Unlock
    <2> QED BY <2>1, <2>2, <2>3
  <1>5. CASE QueueNext \/ UNCHANGED IpcVars
    <2>1. UNCHANGED MutexVars
      BY <1>5 DEF QueueNext, CreateFinds, CreateTakes, DirectCall, DestroyQueue, CallLoadsId,
                  CallSends, CallTimesOut, CallReceives, DaemonReceives, DaemonServes,
                  IpcVars, MutexVars
    <2> QED BY <2>1 DEF MutexVars
  <1> QED BY <1>1, <1>2, <1>3, <1>4, <1>5 DEF IpcNext, MutexNext

\* One holder follows.
LEMMA MutexImplies == MutexInv => MutexExcludes
  <1> SUFFICES ASSUME MutexInv PROVE MutexExcludes
    OBVIOUS
  <1> DEFINE S == {c \in Clients : section[c] = "in"}
  <1>1. S \in SUBSET {mutex.owner}
    BY DEF MutexInv
  <1>2. Cardinality(S) <= 1
    <2>1. IsFiniteSet({mutex.owner}) /\ Cardinality({mutex.owner}) = 1
      BY FS_Singleton
    <2> HIDE DEF S
    <2> QED BY <1>1, <2>1, FS_Subset
  <1> QED BY <1>2 DEF MutexInv, MutexExcludes

\* Whatever locks, unlocks and waits given up by tasks that go on as
\* intruders do, one task at most is in the section by right, the owner.
THEOREM OneHolder == IpcSpec => []MutexExcludes
  <1>1. IpcInit => MutexInv
    BY IpcAssumption DEF IpcInit, MutexInv
  <1> QED BY <1>1, MutexStep, MutexImplies, PTL DEF IpcSpec
-----------------------------------------------------------------------------
(* The message queues.                                                     *)

Msg == [type : {"request", "response"}, from : Clients, id : Nat, call : Nat]
Requests == {m \in Msg : m.type = "request"}
ClientState ==
    [pc : {"out", "creates", "numbers", "waits"}, slot : Nat, id : Nat, call : Nat,
     result : {"none", "done", "failed", "timeout"}]

\* What holds of the queues whatever happened.
QueueTypes ==
    /\ owner \in [QueueSlots -> Clients \cup {Daemon, Other, NoTask}]
    /\ messages \in [QueueSlots -> Seq(Msg)]
    /\ \A s \in QueueSlots : Len(messages[s]) <= MAX_MESSAGES_PER_QUEUE
    /\ next_request_id \in Nat
    /\ client \in [Clients -> ClientState]
    /\ \A c \in Clients : client[c].pc = "creates" => client[c].slot \in QueueSlots
    /\ daemon \in Requests \cup {NoMsg}
    /\ ihist \in [shared : BOOLEAN, renumbered : BOOLEAN, stray : BOOLEAN]

\* A request or an answer on its way: an answer's request was carried out,
\* its number has been drawn, and it is older than the call its client waits
\* in, or belongs to it.
GoodWith(m, done, next, calls) ==
    /\ m.type = "response" => <<m.from, m.call>> \in done
    /\ m.id < next
    /\ calls[m.from].pc \in {"numbers", "waits"} =>
          \/ m.id < calls[m.from].id
          \/ m.id = calls[m.from].id /\ m.call = calls[m.from].call
Good(m) == GoodWith(m, performed, next_request_id, client)
GoodAfter(m) == GoodWith(m, performed', next_request_id', client')

\* What holds as long as no slot was taken twice and no number drawn again:
\* a free slot is empty, a client's queue holds answers to its own requests.
Orderly ==
    /\ \A s \in QueueSlots : owner[s] = NoTask => messages[s] = << >>
    /\ \A s \in QueueSlots : owner[s] \in Clients =>
          \A m \in Range(messages[s]) : m.type = "response" /\ m.from = owner[s]
    /\ \A s \in QueueSlots : \A m \in Range(messages[s]) : Good(m)
    /\ daemon # NoMsg => Good(daemon)
    /\ \A c \in Clients : client[c].result = "done" => <<c, client[c].call>> \in performed

QueueInv == QueueTypes /\ (~ihist.shared /\ ~ihist.renumbered => Orderly)

\* The first queue of a task that has one is one of the slots it owns.
LEMMA QueueOfLemma ==
    ASSUME NEW t
    PROVE  /\ QueueOf(t) # {} => Min(QueueOf(t)) \in QueueSlots /\ owner[Min(QueueOf(t))] = t
           /\ FreeSlots # {} => Min(FreeSlots) \in QueueSlots /\ owner[Min(FreeSlots)] = NoTask
  <1>1. QueueOf(t) \in SUBSET Nat /\ FreeSlots \in SUBSET Nat
    BY IpcAssumption DEF QueueOf, FreeSlots
  <1>2. QueueOf(t) # {} => Min(QueueOf(t)) \in QueueOf(t)
    BY <1>1, MinNat
  <1>3. FreeSlots # {} => Min(FreeSlots) \in FreeSlots
    BY <1>1, MinNat
  <1> QED BY <1>2, <1>3 DEF QueueOf, FreeSlots

\* message_send and the take of message_receive, on the queues' types.
LEMMA SentLemma ==
    ASSUME QueueTypes, NEW t, CanSend(t), NEW m \in Msg
    PROVE  LET q == Min(QueueOf(t)) IN
           /\ q \in QueueSlots /\ owner[q] = t
           /\ Sent(t, m) \in [QueueSlots -> Seq(Msg)]
           /\ \A s \in QueueSlots : Len(Sent(t, m)[s]) <= MAX_MESSAGES_PER_QUEUE
           /\ \A s \in QueueSlots \ {q} : Sent(t, m)[s] = messages[s]
           /\ Range(Sent(t, m)[q]) = Range(messages[q]) \cup {m}
  <1> DEFINE q == Min(QueueOf(t))
  <1>1. q \in QueueSlots /\ owner[q] = t
    BY QueueOfLemma DEF CanSend
  <1>2. messages[q] \in Seq(Msg) /\ Len(messages[q]) < MAX_MESSAGES_PER_QUEUE
    BY <1>1 DEF QueueTypes, CanSend
  <1> DEFINE r == Append(messages[q], m)
  <1>3. r \in Seq(Msg) /\ Len(r) = Len(messages[q]) + 1 /\ Range(r) = Range(messages[q]) \cup {m}
    BY <1>2, AppendRange
  <1>4. Sent(t, m) = [messages EXCEPT ![q] = r]
    BY <1>1 DEF Sent, QueueTypes
  <1>5. Len(r) <= MAX_MESSAGES_PER_QUEUE
    BY <1>2, <1>3, LenProperties, IpcAssumption
  <1> HIDE DEF q, r
  <1> QED BY <1>1, <1>3, <1>4, <1>5 DEF QueueTypes, q

\* message_receive takes the first message of its queue and leaves the others.
LEMMA RestLemma ==
    ASSUME QueueTypes, NEW t, HasMessage(t)
    PROVE  LET q == Min(QueueOf(t)) IN
           /\ q \in QueueSlots /\ owner[q] = t
           /\ First(t) \in Msg /\ First(t) \in Range(messages[q])
           /\ Rest(t) \in [QueueSlots -> Seq(Msg)]
           /\ \A s \in QueueSlots : Len(Rest(t)[s]) <= Len(messages[s])
           /\ \A s \in QueueSlots : Range(Rest(t)[s]) \subseteq Range(messages[s])
           /\ \A s \in QueueSlots : messages[s] = << >> => Rest(t)[s] = << >>
           /\ \A s \in QueueSlots : Len(Rest(t)[s]) <= MAX_MESSAGES_PER_QUEUE
  <1> DEFINE q == Min(QueueOf(t))
  <1>1. q \in QueueSlots /\ owner[q] = t
    BY QueueOfLemma DEF HasMessage
  <1>2. messages[q] \in Seq(Msg) /\ messages[q] # << >>
    BY <1>1 DEF QueueTypes, HasMessage
  <1> DEFINE r == Tail(messages[q])
  <1>3. /\ Head(messages[q]) \in Msg /\ Head(messages[q]) \in Range(messages[q])
        /\ r \in Seq(Msg) /\ Len(r) <= Len(messages[q]) /\ Range(r) \subseteq Range(messages[q])
    <2>1. Len(r) = Len(messages[q]) - 1 /\ Len(messages[q]) \in Nat
      BY <1>2, TailRange
    <2> QED BY <2>1, <1>2, TailRange
  <1>4. Rest(t) = [messages EXCEPT ![q] = r]
    BY <1>1 DEF Rest, QueueTypes
  <1>5. First(t) = Head(messages[q])
    BY DEF First
  <1>6. \A s \in QueueSlots : Len(messages[s]) \in Nat
    BY LenProperties DEF QueueTypes
  <1>7. Len(r) \in Nat /\ MAX_MESSAGES_PER_QUEUE \in Nat
    BY <1>3, LenProperties, IpcAssumption
  <1> HIDE DEF q, r
  <1>8. Rest(t) \in [QueueSlots -> Seq(Msg)]
    BY <1>1, <1>3, <1>4 DEF QueueTypes
  <1>9. ASSUME NEW s \in QueueSlots
        PROVE  /\ Len(Rest(t)[s]) <= Len(messages[s])
               /\ Range(Rest(t)[s]) \subseteq Range(messages[s])
               /\ messages[s] = << >> => Rest(t)[s] = << >>
               /\ Len(Rest(t)[s]) <= MAX_MESSAGES_PER_QUEUE
    <2>1. CASE s = q
      BY <2>1, <1>1, <1>2, <1>3, <1>4, <1>6, <1>7 DEF QueueTypes
    <2>2. CASE s # q
      BY <2>2, <1>4, <1>6 DEF QueueTypes
    <2> QED BY <2>1, <2>2
  <1> QED BY <1>1, <1>3, <1>5, <1>8, <1>9 DEF q
\* The call each action leaves a client in.
ClientWith(pc, slot, id, call, result) ==
    [pc |-> pc, slot |-> slot, id |-> id, call |-> call, result |-> result]
NewCall(c, r) == r \in ClientState /\ client' = [client EXCEPT ![c] = r]

\* The records the actions compute.
LEMMA CallRecords ==
    ASSUME NEW x \in ClientState, NEW n \in Nat
    PROVE  /\ [x EXCEPT !.pc = "creates", !.slot = n] = ClientWith("creates", n, x.id, x.call, x.result)
           /\ [x EXCEPT !.pc = "out"] = ClientWith("out", x.slot, x.id, x.call, x.result)
           /\ [x EXCEPT !.pc = "waits"] = ClientWith("waits", x.slot, x.id, x.call, x.result)
           /\ [x EXCEPT !.call = x.call + 1, !.result = "done"] = ClientWith(x.pc, x.slot, x.id, x.call + 1, "done")
           /\ [x EXCEPT !.pc = "numbers", !.id = n, !.call = x.call + 1, !.result = "none"]
                 = ClientWith("numbers", x.slot, n, x.call + 1, "none")
           /\ [x EXCEPT !.pc = "out", !.result = "failed"] = ClientWith("out", x.slot, x.id, x.call, "failed")
           /\ [x EXCEPT !.pc = "out", !.result = "timeout"] = ClientWith("out", x.slot, x.id, x.call, "timeout")
           /\ [x EXCEPT !.pc = "out", !.result = "done"] = ClientWith("out", x.slot, x.id, x.call, "done")
  <1>1. ASSUME NEW r, r = [x EXCEPT !.pc = "creates", !.slot = n]
       PROVE  r = ClientWith("creates", n, x.id, x.call, x.result)
    BY <1>1 DEF ClientState, ClientWith
  <1>2. ASSUME NEW r, r = [x EXCEPT !.pc = "out"]
       PROVE  r = ClientWith("out", x.slot, x.id, x.call, x.result)
    BY <1>2 DEF ClientState, ClientWith
  <1>3. ASSUME NEW r, r = [x EXCEPT !.pc = "waits"]
       PROVE  r = ClientWith("waits", x.slot, x.id, x.call, x.result)
    BY <1>3 DEF ClientState, ClientWith
  <1>4. ASSUME NEW r, r = [x EXCEPT !.call = x.call + 1, !.result = "done"]
       PROVE  r = ClientWith(x.pc, x.slot, x.id, x.call + 1, "done")
    BY <1>4 DEF ClientState, ClientWith
  <1>5. ASSUME NEW r, r = [x EXCEPT !.pc = "numbers", !.id = n, !.call = x.call + 1, !.result = "none"]
       PROVE  r = ClientWith("numbers", x.slot, n, x.call + 1, "none")
    BY <1>5 DEF ClientState, ClientWith
  <1>6. ASSUME NEW r, r = [x EXCEPT !.pc = "out", !.result = "failed"]
       PROVE  r = ClientWith("out", x.slot, x.id, x.call, "failed")
    BY <1>6 DEF ClientState, ClientWith
  <1>7. ASSUME NEW r, r = [x EXCEPT !.pc = "out", !.result = "timeout"]
       PROVE  r = ClientWith("out", x.slot, x.id, x.call, "timeout")
    BY <1>7 DEF ClientState, ClientWith
  <1>8. ASSUME NEW r, r = [x EXCEPT !.pc = "out", !.result = "done"]
       PROVE  r = ClientWith("out", x.slot, x.id, x.call, "done")
    BY <1>8 DEF ClientState, ClientWith
  <1> QED BY <1>1, <1>2, <1>3, <1>4, <1>5, <1>6, <1>7, <1>8

\* The local state of a client.
LEMMA CallTypes ==
    ASSUME NEW pc \in {"out", "creates", "numbers", "waits"}, NEW slot \in Nat, NEW id \in Nat,
           NEW call \in Nat, NEW result \in {"none", "done", "failed", "timeout"}
    PROVE  ClientWith(pc, slot, id, call, result) \in ClientState
  BY DEF ClientState, ClientWith

\* What each of a client's actions makes of its local state.
LEMMA ClientAfter ==
    ASSUME QueueTypes, NEW c \in Clients
    PROVE  LET x == client[c] IN
           /\ CreateFinds(c) => NewCall(c, ClientWith("creates", Min(FreeSlots), x.id, x.call, x.result))
           /\ CreateTakes(c) => NewCall(c, ClientWith("out", x.slot, x.id, x.call, x.result))
           /\ DirectCall(c) => NewCall(c, ClientWith("out", x.slot, x.id, x.call + 1, "done"))
           /\ CallLoadsId(c) =>
                 NewCall(c, ClientWith("numbers", x.slot, next_request_id, x.call + 1, "none"))
           /\ CallSends(c) => \/ NewCall(c, ClientWith("waits", x.slot, x.id, x.call, x.result))
                              \/ NewCall(c, ClientWith("out", x.slot, x.id, x.call, "failed"))
           /\ CallTimesOut(c) => NewCall(c, ClientWith("out", x.slot, x.id, x.call, "timeout"))
           /\ \A back \in BOOLEAN : CallReceives(c, back) =>
                 \/ client' = client
                 \/ Answers(c, First(c)) /\ NewCall(c, ClientWith("out", x.slot, x.id, x.call, "done"))
  <1> DEFINE x == client[c]
  <1>0. x \in ClientState /\ next_request_id \in Nat
    BY DEF QueueTypes
  <1>1. /\ x.pc \in {"out", "creates", "numbers", "waits"} /\ x.slot \in Nat /\ x.id \in Nat
        /\ x.call \in Nat /\ x.call + 1 \in Nat /\ x.result \in {"none", "done", "failed", "timeout"}
    BY <1>0 DEF ClientState
  <1>2. ASSUME CreateFinds(c)
        PROVE  NewCall(c, ClientWith("creates", Min(FreeSlots), x.id, x.call, x.result))
    <2>1. Min(FreeSlots) \in Nat
      BY <1>2, QueueOfLemma, IpcAssumption DEF CreateFinds
    <2>2. client' = [client EXCEPT ![c] = [x EXCEPT !.pc = "creates", !.slot = Min(FreeSlots)]]
      BY <1>2 DEF CreateFinds
    <2> HIDE DEF x
    <2> QED BY <1>0, <1>1, <2>1, <2>2, CallRecords, CallTypes DEF NewCall
  <1>3. ASSUME CreateTakes(c) PROVE NewCall(c, ClientWith("out", x.slot, x.id, x.call, x.result))
    <2>1. client' = [client EXCEPT ![c] = [x EXCEPT !.pc = "out"]]
      BY <1>3 DEF CreateTakes
    <2> HIDE DEF x
    <2> QED BY <1>0, <1>1, <2>1, CallRecords, CallTypes DEF NewCall
  <1>4. ASSUME DirectCall(c) PROVE NewCall(c, ClientWith("out", x.slot, x.id, x.call + 1, "done"))
    <2>1. x.pc = "out" /\ client' = [client EXCEPT ![c] = [x EXCEPT !.call = x.call + 1, !.result = "done"]]
      BY <1>4 DEF DirectCall
    <2> HIDE DEF x
    <2> QED BY <1>0, <1>1, <2>1, CallRecords, CallTypes DEF NewCall
  <1>5. ASSUME CallLoadsId(c)
        PROVE  NewCall(c, ClientWith("numbers", x.slot, next_request_id, x.call + 1, "none"))
    <2>1. client' = [client EXCEPT ![c] = [x EXCEPT !.pc = "numbers", !.id = next_request_id,
                                                    !.call = x.call + 1, !.result = "none"]]
      BY <1>5 DEF CallLoadsId
    <2> HIDE DEF x
    <2> QED BY <1>0, <1>1, <2>1, CallRecords, CallTypes DEF NewCall
  <1>6. ASSUME CallSends(c)
        PROVE  \/ NewCall(c, ClientWith("waits", x.slot, x.id, x.call, x.result))
               \/ NewCall(c, ClientWith("out", x.slot, x.id, x.call, "failed"))
    <2>1. \/ client' = [client EXCEPT ![c] = [x EXCEPT !.pc = "waits"]]
          \/ client' = [client EXCEPT ![c] = [x EXCEPT !.pc = "out", !.result = "failed"]]
      BY <1>6 DEF CallSends
    <2> HIDE DEF x
    <2> QED BY <1>0, <1>1, <2>1, CallRecords, CallTypes DEF NewCall
  <1>7. ASSUME CallTimesOut(c) PROVE NewCall(c, ClientWith("out", x.slot, x.id, x.call, "timeout"))
    <2>1. client' = [client EXCEPT ![c] = [x EXCEPT !.pc = "out", !.result = "timeout"]]
      BY <1>7 DEF CallTimesOut
    <2> HIDE DEF x
    <2> QED BY <1>0, <1>1, <2>1, CallRecords, CallTypes DEF NewCall
  <1>8. ASSUME NEW back \in BOOLEAN, CallReceives(c, back)
        PROVE  \/ client' = client
               \/ Answers(c, First(c)) /\ NewCall(c, ClientWith("out", x.slot, x.id, x.call, "done"))
    <2>1. \/ client' = client
          \/ /\ Answers(c, First(c))
             /\ client' = [client EXCEPT ![c] = [x EXCEPT !.pc = "out", !.result = "done"]]
      BY <1>8 DEF CallReceives
    <2> HIDE DEF x
    <2> QED BY <1>0, <1>1, <2>1, CallRecords, CallTypes DEF NewCall
  <1> QED BY <1>2, <1>3, <1>4, <1>5, <1>6, <1>7, <1>8

\* A new state of one client leaves the others' alone.
LEMMA NewCallLemma ==
    ASSUME QueueTypes, NEW c \in Clients, NEW pc, NEW slot, NEW id, NEW call, NEW result,
           NewCall(c, ClientWith(pc, slot, id, call, result)),
           pc = "creates" => slot \in QueueSlots
    PROVE  /\ client' \in [Clients -> ClientState]
           /\ \A d \in Clients : client'[d].pc = "creates" => client'[d].slot \in QueueSlots
           /\ \A d \in Clients \ {c} : client'[d] = client[d]
           /\ client'[c].pc = pc /\ client'[c].id = id
           /\ client'[c].call = call /\ client'[c].result = result
  <1> DEFINE r == ClientWith(pc, slot, id, call, result)
  <1>1. r.pc = pc /\ r.slot = slot /\ r.id = id /\ r.call = call /\ r.result = result
    BY DEF ClientWith
  <1> HIDE DEF r
  <1>2. r \in ClientState /\ client' = [client EXCEPT ![c] = r]
    BY DEF NewCall, r
  <1>3. client' \in [Clients -> ClientState] /\ client'[c] = r
    BY <1>2 DEF QueueTypes
  <1>4. \A d \in Clients \ {c} : client'[d] = client[d]
    BY <1>2 DEF QueueTypes
  <1> QED BY <1>1, <1>3, <1>4 DEF QueueTypes

\* One step, on the types.
LEMMA TypesStep == QueueTypes /\ [IpcNext]_IpcVars => QueueTypes'
  <1> SUFFICES ASSUME QueueTypes, [IpcNext]_IpcVars PROVE QueueTypes'
    OBVIOUS
  <1> USE IpcAssumption
  <1>1. ASSUME NEW c \in Clients, CreateFinds(c) PROVE QueueTypes'
    <2>1. Min(FreeSlots) \in QueueSlots /\ Min(FreeSlots) \in Nat
      BY <1>1, QueueOfLemma DEF CreateFinds
    <2>2. /\ client' \in [Clients -> ClientState]
          /\ \A d \in Clients : client'[d].pc = "creates" => client'[d].slot \in QueueSlots
      BY <1>1, <2>1, ClientAfter, NewCallLemma
    <2> QED BY <1>1, <2>2 DEF CreateFinds, QueueTypes
  <1>2. ASSUME NEW c \in Clients, CreateTakes(c) PROVE QueueTypes'
    <2>1. ihist' \in [shared : BOOLEAN, renumbered : BOOLEAN, stray : BOOLEAN]
      BY <1>2 DEF CreateTakes, QueueTypes
    <2>2. owner' \in [QueueSlots -> Clients \cup {Daemon, Other, NoTask}]
      BY <1>2 DEF CreateTakes, QueueTypes
    <2>3. /\ client' \in [Clients -> ClientState]
          /\ \A d \in Clients : client'[d].pc = "creates" => client'[d].slot \in QueueSlots
      BY <1>2, ClientAfter, NewCallLemma DEF QueueTypes
    <2> QED BY <1>2, <2>1, <2>2, <2>3 DEF CreateTakes, QueueTypes
  <1>3. ASSUME NEW c \in Clients, DirectCall(c) PROVE QueueTypes'
    <2>1. /\ client' \in [Clients -> ClientState]
          /\ \A d \in Clients : client'[d].pc = "creates" => client'[d].slot \in QueueSlots
      BY <1>3, ClientAfter, NewCallLemma DEF QueueTypes
    <2> QED BY <1>3, <2>1 DEF DirectCall, QueueTypes
  <1>4. ASSUME NEW c \in Clients, CallLoadsId(c) PROVE QueueTypes'
    <2>1. /\ client' \in [Clients -> ClientState]
          /\ \A d \in Clients : client'[d].pc = "creates" => client'[d].slot \in QueueSlots
      BY <1>4, ClientAfter, NewCallLemma DEF QueueTypes
    <2> QED BY <1>4, <2>1 DEF CallLoadsId, QueueTypes
  <1>5. ASSUME NEW c \in Clients, CallSends(c) PROVE QueueTypes'
    <2> DEFINE m == [type |-> "request", from |-> c, id |-> client[c].id, call |-> client[c].call]
    <2>1. m \in Msg
      BY DEF QueueTypes, ClientState, Msg
    <2>2. /\ messages' \in [QueueSlots -> Seq(Msg)]
          /\ \A s \in QueueSlots : Len(messages'[s]) <= MAX_MESSAGES_PER_QUEUE
      <3>1. CASE CanSend(Daemon) /\ messages' = Sent(Daemon, m)
        BY <3>1, <2>1, SentLemma
      <3>2. CASE messages' = messages
        BY <3>2 DEF QueueTypes
      <3> QED BY <3>1, <3>2, <1>5 DEF CallSends
    <2>3. /\ next_request_id' \in Nat
          /\ client' \in [Clients -> ClientState]
          /\ \A d \in Clients : client'[d].pc = "creates" => client'[d].slot \in QueueSlots
          /\ ihist' \in [shared : BOOLEAN, renumbered : BOOLEAN, stray : BOOLEAN]
      <3>1. next_request_id' \in Nat
        BY <1>5 DEF CallSends, QueueTypes, ClientState
      <3>2. ihist' \in [shared : BOOLEAN, renumbered : BOOLEAN, stray : BOOLEAN]
        BY <1>5 DEF CallSends, QueueTypes
      <3> QED BY <3>1, <3>2, <1>5, ClientAfter, NewCallLemma DEF QueueTypes
    <2> QED BY <2>2, <2>3, <1>5 DEF CallSends, QueueTypes
  <1>6. ASSUME NEW c \in Clients, NEW back \in BOOLEAN, CallReceives(c, back) PROVE QueueTypes'
    <2>1. /\ HasMessage(c) /\ First(c) \in Msg
          /\ Rest(c) \in [QueueSlots -> Seq(Msg)]
          /\ \A s \in QueueSlots : Len(Rest(c)[s]) <= Len(messages[s])
          /\ \A s \in QueueSlots : Len(Rest(c)[s]) <= MAX_MESSAGES_PER_QUEUE
      BY <1>6, RestLemma DEF CallReceives
    <2> DEFINE q == Min(QueueOf(Daemon))
               r == Append(Rest(c)[q], First(c))
    <2>2. /\ messages' \in [QueueSlots -> Seq(Msg)]
          /\ \A s \in QueueSlots : Len(messages'[s]) <= MAX_MESSAGES_PER_QUEUE
      <3>1. CASE messages' = Rest(c)
        BY <3>1, <2>1
      <3>2. CASE CanSend(Daemon) /\ messages' = [Rest(c) EXCEPT ![q] = Append(@, First(c))]
        <4>1. q \in QueueSlots /\ Len(messages[q]) < MAX_MESSAGES_PER_QUEUE
          BY <3>2, QueueOfLemma DEF CanSend
        <4>2. r \in Seq(Msg) /\ Len(r) = Len(Rest(c)[q]) + 1
          BY <4>1, <2>1, AppendRange
        <4>3. messages' = [Rest(c) EXCEPT ![q] = r]
          BY <3>2, <4>1, <2>1
        <4>4. Len(Rest(c)[q]) \in Nat /\ Len(messages[q]) \in Nat
          BY <4>1, <2>1, LenProperties DEF QueueTypes
        <4>5. Len(r) <= MAX_MESSAGES_PER_QUEUE
          BY <4>1, <4>2, <4>4, <2>1
        <4> HIDE DEF q, r
        <4> QED BY <4>1, <4>2, <4>3, <4>5, <2>1
      <3> QED BY <3>1, <3>2, <1>6 DEF CallReceives
    <2>3. /\ client' \in [Clients -> ClientState]
          /\ \A d \in Clients : client'[d].pc = "creates" => client'[d].slot \in QueueSlots
      BY <1>6, ClientAfter, NewCallLemma DEF QueueTypes
    <2> QED BY <2>2, <2>3, <1>6 DEF CallReceives, QueueTypes
  <1>7. ASSUME NEW c \in Clients, CallTimesOut(c) PROVE QueueTypes'
    <2>1. /\ client' \in [Clients -> ClientState]
          /\ \A d \in Clients : client'[d].pc = "creates" => client'[d].slot \in QueueSlots
      BY <1>7, ClientAfter, NewCallLemma DEF QueueTypes
    <2> QED BY <1>7, <2>1 DEF CallTimesOut, QueueTypes
  <1>8. CASE DaemonReceives
    <2>1. /\ First(Daemon) \in Msg
          /\ Rest(Daemon) \in [QueueSlots -> Seq(Msg)]
          /\ \A s \in QueueSlots : Len(Rest(Daemon)[s]) <= MAX_MESSAGES_PER_QUEUE
      BY <1>8, RestLemma DEF DaemonReceives
    <2>2. daemon' \in Requests \cup {NoMsg}
      BY <2>1, <1>8 DEF DaemonReceives, Requests
    <2> QED BY <2>1, <2>2, <1>8 DEF DaemonReceives, QueueTypes
  <1>9. CASE DaemonServes
    <2> DEFINE m == [daemon EXCEPT !.type = "response"]
    <2>1. daemon \in Requests
      BY <1>9 DEF DaemonServes, QueueTypes
    <2>2. m \in Msg
      BY <2>1 DEF Requests, Msg
    <2>3. /\ messages' \in [QueueSlots -> Seq(Msg)]
          /\ \A s \in QueueSlots : Len(messages'[s]) <= MAX_MESSAGES_PER_QUEUE
      <3>1. CASE CanSend(daemon.from) /\ messages' = Sent(daemon.from, m)
        BY <3>1, <2>2, SentLemma
      <3>2. CASE messages' = messages
        BY <3>2 DEF QueueTypes
      <3> QED BY <3>1, <3>2, <1>9 DEF DaemonServes
    <2>4. ihist' \in [shared : BOOLEAN, renumbered : BOOLEAN, stray : BOOLEAN]
      BY <1>9 DEF DaemonServes, QueueTypes
    <2> QED BY <2>3, <2>4, <1>9 DEF DaemonServes, QueueTypes
  <1>10. ASSUME NEW c \in Clients, DestroyQueue(c) PROVE QueueTypes'
    <2>1. Min(QueueOf(c)) \in QueueSlots
      BY <1>10, QueueOfLemma DEF DestroyQueue
    <2>2. << >> \in Seq(Msg) /\ Len(<< >>) = 0
      BY EmptySeq
    <2> QED BY <1>10, <2>1, <2>2 DEF DestroyQueue, QueueTypes
  <1>11. CASE MutexNext \/ UNCHANGED IpcVars
    <2>1. UNCHANGED QueueVars
      BY <1>11 DEF MutexNext, TryLock, LockAgain, LockGivesUp, Unlock, IpcVars, QueueVars
    <2> QED BY <2>1 DEF QueueVars, QueueTypes
  <1> QED BY <1>1, <1>2, <1>3, <1>4, <1>5, <1>6, <1>7, <1>8, <1>9, <1>10, <1>11
          DEF IpcNext, QueueNext
\* A message on its way stays good when the numbers only grow, operations
\* are only added, and its client's call is the same or no longer waits.
LEMMA GoodKept ==
    ASSUME QueueTypes, NEW m \in Msg, Good(m),
           performed \subseteq performed', next_request_id' \in Nat, next_request_id <= next_request_id',
           \/ client'[m.from].pc \notin {"numbers", "waits"}
           \/ /\ client[m.from].pc \in {"numbers", "waits"}
              /\ client'[m.from].id = client[m.from].id
              /\ client'[m.from].call = client[m.from].call
           \/ client'[m.from].id = next_request_id
    PROVE  GoodAfter(m)
  <1>1. m.id \in Nat /\ next_request_id \in Nat /\ m.from \in Clients
    BY DEF Msg, QueueTypes
  <1>2. m.id < next_request_id' /\ (m.type = "response" => <<m.from, m.call>> \in performed')
    BY <1>1 DEF Good, GoodWith
  <1> QED BY <1>1, <1>2 DEF Good, GoodAfter, GoodWith

\* A step of one client that sends nothing and takes nothing.
LEMMA GoodSame ==
    ASSUME QueueTypes, Orderly,
           performed \subseteq performed', next_request_id' \in Nat, next_request_id <= next_request_id',
           \A d \in Clients :
              \/ client'[d].pc \notin {"numbers", "waits"}
              \/ /\ client[d].pc \in {"numbers", "waits"}
                 /\ client'[d].id = client[d].id /\ client'[d].call = client[d].call
              \/ client'[d].id = next_request_id
    PROVE  /\ \A s \in QueueSlots : \A m \in Range(messages[s]) : GoodAfter(m)
           /\ daemon # NoMsg => GoodAfter(daemon)
  <1>1. \A m \in Msg : m.from \in Clients
    BY DEF Msg
  <1>2. \A m \in Msg : Good(m) => GoodAfter(m)
    BY <1>1, GoodKept
  <1>3. \A s \in QueueSlots : Range(messages[s]) \subseteq Msg
    BY SeqRange DEF QueueTypes
  <1>4. daemon # NoMsg => daemon \in Msg
    BY DEF QueueTypes, Requests
  <1> QED BY <1>2, <1>3, <1>4 DEF Orderly

\* As long as no slot was taken twice and no number drawn again, every step
\* keeps the queues orderly.
LEMMA OrderlyStep ==
    ASSUME QueueTypes, Orderly, [IpcNext]_IpcVars, ~ihist'.shared, ~ihist'.renumbered
    PROVE  Orderly'
  <1> USE IpcAssumption
  <1>0. /\ QueueTypes' /\ next_request_id \in Nat /\ next_request_id' \in Nat
        /\ client \in [Clients -> ClientState] /\ client' \in [Clients -> ClientState]
        /\ \A s \in QueueSlots : Range(messages[s]) \subseteq Msg
    <2>1. QueueTypes'
      BY TypesStep
    <2> QED BY <2>1, SeqRange DEF QueueTypes
  <1>1. ASSUME NEW c \in Clients, CreateFinds(c) \/ CallTimesOut(c) \/ CallLoadsId(c) PROVE Orderly'
    <2>1. /\ \A d \in Clients \ {c} : client'[d] = client[d]
          /\ \/ client'[c].pc \notin {"numbers", "waits"}
             \/ client'[c].id = next_request_id
          /\ client'[c].result = "done" => client[c].result = "done" /\ client'[c].call = client[c].call
      <3>1. CASE CreateFinds(c)
        <4>1. Min(FreeSlots) \in QueueSlots
          BY <3>1, QueueOfLemma DEF CreateFinds
        <4> QED BY <3>1, <4>1, ClientAfter, NewCallLemma
      <3>2. CASE CallTimesOut(c) \/ CallLoadsId(c)
        BY <3>2, ClientAfter, NewCallLemma
      <3> QED BY <1>1, <3>1, <3>2
    <2>2. UNCHANGED <<owner, messages, next_request_id, daemon, performed>>
      BY <1>1 DEF CreateFinds, CallTimesOut, CallLoadsId
    <2>3. /\ \A s \in QueueSlots : \A m \in Range(messages[s]) : GoodAfter(m)
          /\ daemon # NoMsg => GoodAfter(daemon)
      BY <1>0, <2>1, <2>2, GoodSame
    <2> QED BY <2>1, <2>2, <2>3 DEF Orderly, Good, GoodAfter
  <1>2. ASSUME NEW c \in Clients, CreateTakes(c) PROVE Orderly'
    <2> DEFINE q == client[c].slot
    <2>1. q \in QueueSlots /\ owner[q] = NoTask /\ messages[q] = << >>
      <3>1. q \in QueueSlots
        BY <1>2 DEF CreateTakes, QueueTypes
      <3>2. owner[q] = NoTask
        BY <1>2 DEF CreateTakes, QueueTypes
      <3> QED BY <3>1, <3>2 DEF Orderly
    <2>2. /\ \A d \in Clients \ {c} : client'[d] = client[d]
          /\ client'[c].pc = "out" /\ client'[c].call = client[c].call
          /\ client'[c].result = client[c].result
      BY <1>2, ClientAfter, NewCallLemma
    <2>3. UNCHANGED <<messages, next_request_id, daemon, performed>> /\ owner' = [owner EXCEPT ![q] = c]
      BY <1>2 DEF CreateTakes
    <2>4. /\ \A s \in QueueSlots : \A m \in Range(messages[s]) : GoodAfter(m)
          /\ daemon # NoMsg => GoodAfter(daemon)
      BY <1>0, <2>2, <2>3, GoodSame
    <2>5. Range(<< >>) = {}
      BY DEF Range
    <2> HIDE DEF q
    <2>6. /\ \A s \in QueueSlots : owner'[s] = NoTask => messages'[s] = << >>
          /\ \A s \in QueueSlots : owner'[s] \in Clients =>
                \A m \in Range(messages'[s]) : m.type = "response" /\ m.from = owner'[s]
      BY <2>1, <2>3, <2>5 DEF Orderly, QueueTypes
    <2> QED BY <2>2, <2>3, <2>4, <2>6 DEF Orderly, Good, GoodAfter
  <1>3. ASSUME NEW c \in Clients, DirectCall(c) PROVE Orderly'
    <2>1. /\ \A d \in Clients \ {c} : client'[d] = client[d]
          /\ client'[c].pc = "out" /\ client'[c].call = client[c].call + 1
      BY <1>3, ClientAfter, NewCallLemma
    <2>2. /\ UNCHANGED <<owner, messages, next_request_id, daemon>>
          /\ performed' = performed \cup {<<c, client[c].call + 1>>}
      BY <1>3 DEF DirectCall
    <2>3. /\ \A s \in QueueSlots : \A m \in Range(messages[s]) : GoodAfter(m)
          /\ daemon # NoMsg => GoodAfter(daemon)
      BY <1>0, <2>1, <2>2, GoodSame
    <2> QED BY <2>1, <2>2, <2>3 DEF Orderly, Good, GoodAfter
  <1>4. ASSUME NEW c \in Clients, CallSends(c) PROVE Orderly'
    <2> DEFINE m == [type |-> "request", from |-> c, id |-> client[c].id, call |-> client[c].call]
    <2>1. m \in Msg
      BY DEF QueueTypes, ClientState, Msg
    <2>2. /\ \A d \in Clients \ {c} : client'[d] = client[d]
          /\ client'[c].pc \in {"waits", "out"} /\ client[c].pc = "numbers"
          /\ client'[c].id = client[c].id /\ client'[c].call = client[c].call
          /\ client'[c].result = "done" => client[c].result = "done"
      <3>1. client[c].pc = "numbers"
        BY <1>4 DEF CallSends
      <3> QED BY <1>4, <3>1, ClientAfter, NewCallLemma
    <2>3. /\ next_request_id' = client[c].id + 1 /\ next_request_id <= next_request_id'
          /\ client[c].id \in Nat /\ UNCHANGED <<owner, daemon, performed>>
      <3>1. next_request_id' = client[c].id + 1 /\ UNCHANGED <<owner, daemon, performed>>
        BY <1>4 DEF CallSends
      <3>2. ~(client[c].id + 1 < next_request_id)
        BY <1>4 DEF CallSends, QueueTypes
      <3>3. client[c].id \in Nat
        BY DEF QueueTypes, ClientState
      <3> QED BY <3>1, <3>2, <3>3, <1>0
    <2>4. /\ \A s \in QueueSlots : \A k \in Range(messages[s]) : GoodAfter(k)
          /\ daemon # NoMsg => GoodAfter(daemon)
      BY <1>0, <2>2, <2>3, GoodSame
    <2>5. GoodAfter(m)
      BY <2>1, <2>2, <2>3 DEF GoodAfter, GoodWith
    <2>6. \/ messages' = messages
          \/ CanSend(Daemon) /\ messages' = Sent(Daemon, m)
      BY <1>4 DEF CallSends
    <2> HIDE DEF m
    <2>7. /\ \A s \in QueueSlots : owner'[s] = NoTask => messages'[s] = << >>
          /\ \A s \in QueueSlots : owner'[s] \in Clients =>
                \A k \in Range(messages'[s]) : k.type = "response" /\ k.from = owner'[s]
          /\ \A s \in QueueSlots : \A k \in Range(messages'[s]) : GoodAfter(k)
      <3>1. CASE messages' = messages
        BY <3>1, <2>3, <2>4 DEF Orderly
      <3>2. CASE CanSend(Daemon) /\ messages' = Sent(Daemon, m)
        <4> DEFINE q == Min(QueueOf(Daemon))
        <4>1. /\ q \in QueueSlots /\ owner[q] = Daemon
              /\ \A s \in QueueSlots \ {q} : messages'[s] = messages[s]
              /\ Range(messages'[q]) = Range(messages[q]) \cup {m}
          BY <3>2, <2>1, SentLemma
        <4> HIDE DEF q
        <4> QED BY <4>1, <2>3, <2>4, <2>5 DEF Orderly
      <3> QED BY <2>6, <3>1, <3>2
    <2> QED BY <2>2, <2>3, <2>4, <2>7 DEF Orderly, Good, GoodAfter
  <1>5. ASSUME NEW c \in Clients, NEW back \in BOOLEAN, CallReceives(c, back) PROVE Orderly'
    <2> DEFINE m == First(c)
               q == Min(QueueOf(c))
               d == Min(QueueOf(Daemon))
    <2>1. /\ q \in QueueSlots /\ owner[q] = c /\ m \in Msg /\ m \in Range(messages[q])
          /\ Rest(c) \in [QueueSlots -> Seq(Msg)]
          /\ \A s \in QueueSlots : Range(Rest(c)[s]) \subseteq Range(messages[s])
          /\ \A s \in QueueSlots : messages[s] = << >> => Rest(c)[s] = << >>
      BY <1>5, RestLemma DEF CallReceives
    <2>2. Good(m) /\ m.from = c /\ m.type = "response"
      BY <2>1 DEF Orderly
    <2>3. UNCHANGED <<owner, next_request_id, daemon, performed>> /\ client[c].pc = "waits"
      BY <1>5 DEF CallReceives
    <2>4. /\ \A e \in Clients \ {c} : client'[e] = client[e]
          /\ \/ client'[c] = client[c]
             \/ /\ client'[c].pc = "out" /\ client'[c].call = client[c].call
                /\ m.id = client[c].id
      <3>1. CASE client' = client
        BY <3>1
      <3>2. CASE /\ Answers(c, First(c))
                 /\ NewCall(c, ClientWith("out", client[c].slot, client[c].id, client[c].call, "done"))
        BY <3>2, NewCallLemma DEF Answers
      <3> QED BY <1>5, <3>1, <3>2, ClientAfter
    <2>5. /\ \A s \in QueueSlots : \A k \in Range(messages[s]) : GoodAfter(k)
          /\ daemon # NoMsg => GoodAfter(daemon)
      BY <1>0, <2>3, <2>4, GoodSame
    <2>6. GoodAfter(m)
      BY <2>1, <2>5
    <2>7. ASSUME NEW e \in Clients, client'[e].result = "done" PROVE <<e, client'[e].call>> \in performed'
      <3>1. CASE client'[e] = client[e]
        BY <2>3, <2>7, <3>1 DEF Orderly
      <3>2. CASE e = c /\ client'[c].call = client[c].call /\ m.id = client[c].id
        <4>1. m.call = client[c].call
          BY <2>1, <2>2, <2>3, <3>2 DEF Good, GoodWith, Msg
        <4> QED BY <4>1, <2>2, <2>3, <3>2 DEF Good, GoodWith
      <3> QED BY <2>4, <3>1, <3>2
    <2>8. \/ messages' = Rest(c)
          \/ CanSend(Daemon) /\ messages' = [Rest(c) EXCEPT ![d] = Append(Rest(c)[d], m)]
      BY <1>5 DEF CallReceives
    <2> HIDE DEF m, q, d
    <2>9. /\ \A s \in QueueSlots : owner'[s] = NoTask => messages'[s] = << >>
          /\ \A s \in QueueSlots : owner'[s] \in Clients =>
                \A k \in Range(messages'[s]) : k.type = "response" /\ k.from = owner'[s]
          /\ \A s \in QueueSlots : \A k \in Range(messages'[s]) : GoodAfter(k)
      <3>1. CASE messages' = Rest(c)
        BY <3>1, <2>1, <2>3, <2>5 DEF Orderly
      <3>2. CASE CanSend(Daemon) /\ messages' = [Rest(c) EXCEPT ![d] = Append(Rest(c)[d], m)]
        <4>1. d \in QueueSlots /\ owner[d] = Daemon
          BY <3>2, QueueOfLemma DEF CanSend, d
        <4>2. Rest(c)[d] \in Seq(Msg)
          BY <4>1, <2>1
        <4>3. Range(Append(Rest(c)[d], m)) = Range(Rest(c)[d]) \cup {m}
          BY <4>2, <2>1, AppendRange
        <4>4. /\ Range(messages'[d]) = Range(Rest(c)[d]) \cup {m}
              /\ \A s \in QueueSlots \ {d} : messages'[s] = Rest(c)[s]
          BY <3>2, <4>1, <4>3, <2>1
        <4>5. \A s \in QueueSlots \ {d} :
                 /\ Range(messages'[s]) \subseteq Range(messages[s])
                 /\ messages[s] = << >> => messages'[s] = << >>
          BY <4>4, <2>1
        <4>6. owner'[d] = Daemon /\ \A k \in Range(messages'[d]) : GoodAfter(k)
          BY <4>1, <4>4, <2>1, <2>3, <2>5, <2>6
        <4>7. \A s \in QueueSlots : \A k \in Range(messages'[s]) : GoodAfter(k)
          BY <4>5, <4>6, <2>5
        <4>8. \A s \in QueueSlots : owner'[s] = NoTask => messages'[s] = << >>
          BY <4>5, <4>6, <2>3 DEF Orderly
        <4>9. \A s \in QueueSlots : owner'[s] \in Clients =>
                 \A k \in Range(messages'[s]) : k.type = "response" /\ k.from = owner'[s]
          BY <4>5, <4>6, <2>3 DEF Orderly
        <4> QED BY <4>7, <4>8, <4>9
      <3> QED BY <2>8, <3>1, <3>2
    <2> QED BY <2>3, <2>5, <2>7, <2>9 DEF Orderly, Good, GoodAfter
  <1>6. CASE DaemonReceives
    <2> DEFINE m == First(Daemon)
               q == Min(QueueOf(Daemon))
    <2>1. /\ q \in QueueSlots /\ owner[q] = Daemon /\ m \in Msg /\ m \in Range(messages[q])
          /\ \A s \in QueueSlots : Range(Rest(Daemon)[s]) \subseteq Range(messages[s])
          /\ \A s \in QueueSlots : messages[s] = << >> => Rest(Daemon)[s] = << >>
      BY <1>6, RestLemma DEF DaemonReceives
    <2>2. /\ UNCHANGED <<owner, next_request_id, client, performed>> /\ messages' = Rest(Daemon)
          /\ daemon' \in {m, NoMsg}
      BY <1>6 DEF DaemonReceives
    <2>3. \A s \in QueueSlots : \A k \in Range(messages[s]) : GoodAfter(k)
      BY <2>2 DEF Orderly, Good, GoodAfter
    <2> HIDE DEF m, q
    <2>4. daemon' # NoMsg => GoodAfter(daemon')
      BY <2>1, <2>2, <2>3
    <2> QED BY <2>1, <2>2, <2>3, <2>4 DEF Orderly, Good, GoodAfter
  <1>7. CASE DaemonServes
    <2> DEFINE m == [daemon EXCEPT !.type = "response"]
               t == daemon.from
    <2>1. daemon \in Requests /\ daemon # NoMsg
      BY <1>7 DEF DaemonServes, QueueTypes
    <2>2. /\ m \in Msg /\ m.type = "response" /\ m.from = t /\ m.id = daemon.id
          /\ m.call = daemon.call /\ t \in Clients
      BY <2>1 DEF Requests, Msg
    <2>3. /\ UNCHANGED <<owner, next_request_id, client>> /\ daemon' = NoMsg
          /\ performed' = performed \cup {<<t, daemon.call>>}
      BY <1>7 DEF DaemonServes
    <2>4. /\ \A s \in QueueSlots : \A k \in Range(messages[s]) : GoodAfter(k)
          /\ daemon # NoMsg => Good(daemon)
      BY <2>3 DEF Orderly, Good, GoodAfter, GoodWith
    <2>5. \/ messages' = messages
          \/ CanSend(t) /\ messages' = Sent(t, m)
      BY <1>7 DEF DaemonServes
    <2> HIDE DEF m, t
    <2>6. GoodAfter(m)
      <3>1. /\ daemon.id < next_request_id
            /\ client[t].pc \in {"numbers", "waits"} =>
                  \/ daemon.id < client[t].id
                  \/ daemon.id = client[t].id /\ daemon.call = client[t].call
        BY <2>1, <2>4 DEF Good, GoodWith, t
      <3> QED BY <3>1, <2>2, <2>3 DEF GoodAfter, GoodWith
    <2>7. /\ \A s \in QueueSlots : owner'[s] = NoTask => messages'[s] = << >>
          /\ \A s \in QueueSlots : owner'[s] \in Clients =>
                \A k \in Range(messages'[s]) : k.type = "response" /\ k.from = owner'[s]
          /\ \A s \in QueueSlots : \A k \in Range(messages'[s]) : GoodAfter(k)
      <3>1. CASE messages' = messages
        BY <3>1, <2>3, <2>4 DEF Orderly
      <3>2. CASE CanSend(t) /\ messages' = Sent(t, m)
        <4> DEFINE q == Min(QueueOf(t))
        <4>1. /\ q \in QueueSlots /\ owner[q] = t
              /\ \A s \in QueueSlots \ {q} : messages'[s] = messages[s]
              /\ Range(messages'[q]) = Range(messages[q]) \cup {m}
          BY <3>2, <2>2, SentLemma
        <4> HIDE DEF q
        <4> QED BY <4>1, <2>2, <2>3, <2>4, <2>6 DEF Orderly
      <3> QED BY <2>5, <3>1, <3>2
    <2> QED BY <2>3, <2>7 DEF Orderly, Good, GoodAfter
  <1>8. ASSUME NEW c \in Clients, DestroyQueue(c) PROVE Orderly'
    <2> DEFINE q == Min(QueueOf(c))
    <2>1. q \in QueueSlots
      BY <1>8, QueueOfLemma DEF DestroyQueue
    <2>2. /\ UNCHANGED <<next_request_id, client, daemon, performed>>
          /\ owner' = [owner EXCEPT ![q] = NoTask] /\ messages' = [messages EXCEPT ![q] = << >>]
      BY <1>8 DEF DestroyQueue
    <2>3. /\ \A s \in QueueSlots : \A k \in Range(messages[s]) : GoodAfter(k)
          /\ daemon # NoMsg => GoodAfter(daemon)
      BY <2>2 DEF Orderly, Good, GoodAfter
    <2>4. Range(<< >>) = {}
      BY DEF Range
    <2> HIDE DEF q
    <2>5. \A s \in QueueSlots :
             \/ owner'[s] = NoTask /\ messages'[s] = << >>
             \/ owner'[s] = owner[s] /\ messages'[s] = messages[s]
      BY <2>1, <2>2 DEF QueueTypes
    <2> QED BY <2>2, <2>3, <2>4, <2>5 DEF Orderly, Good, GoodAfter
  <1>9. CASE MutexNext \/ UNCHANGED IpcVars
    <2>1. UNCHANGED QueueVars
      BY <1>9 DEF MutexNext, TryLock, LockAgain, LockGivesUp, Unlock, IpcVars, QueueVars
    <2> QED BY <2>1 DEF QueueVars, Orderly, Good
  <1> QED BY <1>1, <1>2, <1>3, <1>4, <1>5, <1>6, <1>7, <1>8, <1>9 DEF IpcNext, QueueNext

\* A slot taken twice or a number drawn again is never forgotten.
LEMMA HistoryStep ==
    ASSUME QueueTypes, [IpcNext]_IpcVars
    PROVE  (ihist.shared => ihist'.shared) /\ (ihist.renumbered => ihist'.renumbered)
  <1>1. ASSUME NEW c \in Clients, CreateTakes(c) \/ CallSends(c)
        PROVE  (ihist.shared => ihist'.shared) /\ (ihist.renumbered => ihist'.renumbered)
    BY <1>1 DEF CreateTakes, CallSends, QueueTypes
  <1>2. CASE DaemonServes
    BY <1>2 DEF DaemonServes, QueueTypes
  <1>3. CASE UNCHANGED ihist
    BY <1>3
  <1> QED BY <1>1, <1>2, <1>3
          DEF IpcNext, QueueNext, MutexNext, CreateFinds, DirectCall, DestroyQueue, CallLoadsId,
              CallTimesOut, CallReceives, DaemonReceives, TryLock, LockAgain, LockGivesUp,
              Unlock, IpcVars, QueueVars

\* Every step keeps the queues sound.
LEMMA QueueStep == QueueInv /\ [IpcNext]_IpcVars => QueueInv'
  BY TypesStep, HistoryStep, OrderlyStep DEF QueueInv

\* Boot leaves them sound.
LEMMA QueueInit == IpcInit => QueueInv
  <1> SUFFICES ASSUME IpcInit PROVE QueueInv
    OBVIOUS
  <1> USE IpcAssumption DEF IpcInit
  <1>1. << >> \in Seq(Msg) /\ Len(<< >>) = 0 /\ Range(<< >>) = {}
    BY EmptySeq DEF Range
  <1>2. Outside \in ClientState /\ Outside.pc = "out" /\ Outside.result = "none"
    BY DEF Outside, ClientState
  <1>3. owner \in [QueueSlots -> Clients \cup {Daemon, Other, NoTask}]
    OBVIOUS
  <1>4. QueueTypes
    BY <1>1, <1>2, <1>3 DEF QueueTypes
  <1>5. Orderly
    BY <1>1, <1>2 DEF Orderly
  <1> QED BY <1>4, <1>5 DEF QueueInv

\* A disk call that returns success had its own request carried out, and the
\* mutex has one holder, for any number of clients, calls, lost and late
\* answers.
THEOREM IpcCorrect == IpcSpec => []IpcSound
  <1>1. QueueInv => AnswerIsOwn
    BY DEF QueueInv, Orderly, AnswerIsOwn
  <1>2. IpcSpec => []QueueInv
    BY QueueInit, QueueStep, PTL DEF IpcSpec
  <1>3. IpcSpec => []AnswerIsOwn
    BY <1>1, <1>2, PTL
  <1>4. AnswerIsOwn /\ MutexExcludes => IpcSound
    BY DEF IpcSound
  <1> QED BY <1>3, <1>4, OneHolder, PTL

\* Queues never exceed their length and every slot has a known owner.
THEOREM IpcTypeCorrect == IpcSpec => []IpcTypeOK
  <1>1. QueueInv /\ MutexInv => IpcTypeOK
    BY DEF QueueInv, QueueTypes, MutexInv, IpcTypeOK
  <1>2. IpcInit => MutexInv
    BY IpcAssumption DEF IpcInit, MutexInv
  <1> QED BY <1>1, <1>2, QueueInit, QueueStep, MutexStep, PTL DEF IpcSpec

-----------------------------------------------------------------------------
(* The ring.                                                               *)

Size == KEYBOARD_BUFFER_SIZE
Indices == 0 .. Size - 1
Key == [id : Nat, key : {"char", "control", "newline", "backspace"}]

\* The place i steps after the place p of the ring.
Slot(p, i) == IF p + i < Size THEN p + i ELSE p + i - Size

Rings == [buf : [Indices -> Key], head : Indices, tail : Indices, count : 0 .. CountWidth - 1]

\* The ring holds the queue: as many keys, from the head on, ending where
\* the tail is.
Holds(r, q) ==
    /\ r.count = Len(q) /\ r.count <= Size
    /\ r.tail = Slot(r.head, r.count)
    /\ \A i \in 1 .. Len(q) : r.buf[Slot(r.head, i - 1)] = q[i]

Histories == [torn : BOOLEAN, leaked : Nat, closed : SUBSET Sockets, stuck : SUBSET Sockets]

RingInv ==
    /\ kbd \in Rings /\ queue \in Seq(Key) /\ scans \in Nat
    /\ uhist \in Histories
    /\ ~uhist.torn => Holds(kbd, queue)

\* Places of the ring: distinct distances below the size lead to distinct
\* places.
LEMMA SlotFacts ==
    ASSUME NEW p \in Indices, NEW i \in 0 .. Size
    PROVE  /\ Slot(p, i) \in Indices
           /\ (p + i) % Size = Slot(p, i)
           /\ \A j \in 0 .. Size : i < j /\ j - i < Size => Slot(p, i) # Slot(p, j)
           /\ i < Size => Slot(p, i + 1) = (Slot(p, i) + 1) % Size
           /\ i > 0 => Slot(p, i) = Slot((p + 1) % Size, i - 1)
  <1>0. Size \in Nat \ {0}
    BY SyscallsAssumption DEF Size
  <1>1. Slot(p, i) \in Indices
    BY <1>0 DEF Slot, Indices
  <1>2. (p + i) % Size = Slot(p, i)
    <2>1. CASE p + i < Size
      <3>1. p + i \in 0 .. Size - 1
        BY <1>0, <2>1 DEF Indices
      <3>2. (p + i) % Size = p + i
        BY <1>0, <3>1
      <3> QED BY <2>1, <3>2 DEF Slot
    <2>2. CASE p + i >= Size
      <3>1. p + i - Size \in 0 .. Size - 1 /\ p + i = 1 * Size + (p + i - Size)
        BY <1>0, <2>2 DEF Indices
      <3>2. (p + i) % Size = p + i - Size
        BY <1>0, <3>1
      <3>3. Slot(p, i) = p + i - Size
        BY <1>0, <2>2 DEF Slot, Indices
      <3> QED BY <3>2, <3>3
    <2> QED BY <1>0, <2>1, <2>2 DEF Indices
  <1>3. \A j \in 0 .. Size : i < j /\ j - i < Size => Slot(p, i) # Slot(p, j)
    BY <1>0 DEF Slot, Indices
  <1>4. \A q \in Indices : (q + 1) % Size = IF q + 1 = Size THEN 0 ELSE q + 1
    <2> SUFFICES ASSUME NEW q \in Indices PROVE (q + 1) % Size = IF q + 1 = Size THEN 0 ELSE q + 1
      OBVIOUS
    <2>1. CASE q + 1 < Size
      BY <1>0, <2>1 DEF Indices
    <2>2. CASE q + 1 = Size
      BY <1>0, <2>2
    <2> QED BY <1>0, <2>1, <2>2 DEF Indices
  <1>5. i < Size => Slot(p, i + 1) = (Slot(p, i) + 1) % Size
    <2> SUFFICES ASSUME i < Size PROVE Slot(p, i + 1) = (Slot(p, i) + 1) % Size
      OBVIOUS
    <2>1. (Slot(p, i) + 1) % Size = IF Slot(p, i) + 1 = Size THEN 0 ELSE Slot(p, i) + 1
      BY <1>1, <1>4
    <2> QED BY <1>0, <2>1 DEF Slot, Indices
  <1>6. i > 0 => Slot(p, i) = Slot((p + 1) % Size, i - 1)
    <2>1. (p + 1) % Size = IF p + 1 = Size THEN 0 ELSE p + 1
      BY <1>4
    <2> QED BY <1>0, <2>1 DEF Slot, Indices
  <1> QED BY <1>1, <1>2, <1>3, <1>5, <1>6

\* The two fields a store or a take changes.
LEMMA RecordLemma ==
    ASSUME NEW b, NEW h, NEW t, NEW c, NEW v, NEW w,
           NEW r, r = [buf |-> b, head |-> h, tail |-> t, count |-> c]
    PROVE  /\ [r EXCEPT !.tail = v, !.count = w] = [buf |-> b, head |-> h, tail |-> v, count |-> w]
           /\ [r EXCEPT !.head = v, !.count = w] = [buf |-> b, head |-> v, tail |-> t, count |-> w]
  <1>1. ASSUME NEW x, x = [r EXCEPT !.tail = v]
        PROVE  x = [buf |-> b, head |-> h, tail |-> v, count |-> c]
    BY <1>1
  <1>2. ASSUME NEW x, x = [r EXCEPT !.head = v]
        PROVE  x = [buf |-> b, head |-> v, tail |-> t, count |-> c]
    BY <1>2
  <1>3. ASSUME NEW x, NEW i, NEW j, x = [buf |-> b, head |-> i, tail |-> j, count |-> c]
        PROVE  [x EXCEPT !.count = w] = [buf |-> b, head |-> i, tail |-> j, count |-> w]
    BY <1>3
  <1>4. [[r EXCEPT !.tail = v] EXCEPT !.count = w] = [buf |-> b, head |-> h, tail |-> v, count |-> w]
    BY <1>1, <1>3
  <1>5. [[r EXCEPT !.head = v] EXCEPT !.count = w] = [buf |-> b, head |-> v, tail |-> t, count |-> w]
    BY <1>2, <1>3
  <1> QED BY <1>4, <1>5, Zenon

\* A store leaves a ring, full or not.
LEMMA StoredType ==
    ASSUME NEW r \in Rings, NEW k \in Key
    PROVE  /\ Advanced(Stored(r, k)) \in Rings
           /\ Advanced(Stored(r, k)) =
                [buf |-> [r.buf EXCEPT ![r.tail] = k], head |-> r.head,
                 tail |-> (r.tail + 1) % Size, count |-> (r.count + 1) % CountWidth]
  <1>0. Size \in Nat \ {0} /\ CountWidth \in Nat \ {0} /\ Size = KEYBOARD_BUFFER_SIZE
    BY SyscallsAssumption DEF Size
  <1> DEFINE b == [r.buf EXCEPT ![r.tail] = k]
  <1>1. ASSUME NEW x, x = Stored(r, k)
        PROVE  x = [buf |-> b, head |-> r.head, tail |-> r.tail, count |-> r.count]
    BY <1>1 DEF Rings, Stored
  <1>2. ASSUME NEW c, NEW x, x = [buf |-> c, head |-> r.head, tail |-> r.tail, count |-> r.count]
        PROVE  Advanced(x) = [buf |-> c, head |-> r.head, tail |-> (r.tail + 1) % Size,
                              count |-> (r.count + 1) % CountWidth]
    <2>1. x.tail = r.tail /\ x.count = r.count
      BY <1>2
    <2>2. Advanced(x) = [x EXCEPT !.tail = (r.tail + 1) % Size, !.count = (r.count + 1) % CountWidth]
      BY <2>1 DEF Advanced, Size
    <2> QED BY <1>2, <2>2, RecordLemma
  <1>3. b \in [Indices -> Key]
    BY DEF Rings
  <1>4. (r.tail + 1) % Size \in Indices
    BY <1>0 DEF Rings, Indices
  <1>5. (r.count + 1) % CountWidth \in 0 .. CountWidth - 1
    BY <1>0 DEF Rings
  <1>6. Advanced(Stored(r, k)) = [buf |-> b, head |-> r.head, tail |-> (r.tail + 1) % Size,
                                  count |-> (r.count + 1) % CountWidth]
    BY <1>1, <1>2
  <1>7. r.head \in Indices
    BY DEF Rings
  <1> HIDE DEF b
  <1>8. Advanced(Stored(r, k)) \in Rings
    BY <1>3, <1>4, <1>5, <1>6, <1>7 DEF Rings
  <1> QED BY <1>6, <1>8 DEF b

\* A key stored at the tail of a ring with room is the last of the queue.
LEMMA StoreLemma ==
    ASSUME NEW r \in Rings, NEW q \in Seq(Key), NEW k \in Key, Holds(r, q), r.count < Size
    PROVE  Holds(Advanced(Stored(r, k)), Append(q, k))
  <1>0. Size \in Nat \ {0} /\ CountWidth \in Nat /\ CountWidth > Size /\ Size = KEYBOARD_BUFFER_SIZE
    BY SyscallsAssumption DEF Size
  <1> DEFINE n == Advanced(Stored(r, k))
             b == [r.buf EXCEPT ![r.tail] = k]
  <1>1. n = [buf |-> b, head |-> r.head, tail |-> (r.tail + 1) % Size,
             count |-> (r.count + 1) % CountWidth]
    BY StoredType
  <1>2. b \in [Indices -> Key] /\ b[r.tail] = k /\ \A i \in Indices : i # r.tail => b[i] = r.buf[i]
    BY DEF Rings
  <1>4. r.count = Len(q) /\ r.count \in 0 .. Size - 1 /\ r.head \in Indices
    BY <1>0 DEF Rings, Holds
  <1>3. (r.count + 1) % CountWidth = r.count + 1
    BY <1>0, <1>4
  <1>5. (r.tail + 1) % Size = Slot(r.head, r.count + 1) /\ (r.tail + 1) % Size \in Indices
    <2>1. Slot(r.head, r.count + 1) = (Slot(r.head, r.count) + 1) % Size
      BY <1>0, <1>4, SlotFacts
    <2>2. Slot(r.head, r.count + 1) \in Indices
      BY <1>0, <1>4, SlotFacts
    <2> QED BY <2>1, <2>2 DEF Holds
  <1> HIDE DEF n, b
  <1>7. /\ Len(Append(q, k)) = Len(q) + 1 /\ Append(q, k)[Len(q) + 1] = k
        /\ \A i \in 1 .. Len(q) : Append(q, k)[i] = q[i]
    BY AppendProperties
  <1>8. ASSUME NEW i \in 1 .. Len(q) + 1 PROVE n.buf[Slot(n.head, i - 1)] = Append(q, k)[i]
    <2>1. CASE i = Len(q) + 1
      <3>1. Slot(n.head, i - 1) = r.tail
        BY <1>1, <1>4, <2>1 DEF Holds
      <3> QED BY <1>1, <1>2, <1>7, <2>1, <3>1
    <2>2. CASE i \in 1 .. Len(q)
      <3>1. Slot(r.head, i - 1) # Slot(r.head, r.count) /\ Slot(r.head, i - 1) \in Indices
        <4>1. i - 1 \in 0 .. Size /\ r.count \in 0 .. Size /\ i - 1 < r.count /\ r.count - (i - 1) < Size
          BY <1>0, <1>4, <2>2
        <4> QED BY <1>4, <4>1, SlotFacts
      <3>2. b[Slot(r.head, i - 1)] = r.buf[Slot(r.head, i - 1)]
        BY <1>2, <3>1 DEF Holds
      <3>3. r.buf[Slot(r.head, i - 1)] = q[i]
        BY <2>2 DEF Holds
      <3> QED BY <1>1, <1>7, <2>2, <3>2, <3>3
    <2> QED BY <1>8, <1>4, <2>1, <2>2
  <1>9. Holds(n, Append(q, k))
    <2>1. n.count = Len(Append(q, k)) /\ n.count <= Size /\ n.tail = Slot(n.head, n.count)
      BY <1>0, <1>1, <1>3, <1>4, <1>5, <1>7
    <2> QED BY <1>7, <1>8, <2>1 DEF Holds
  <1> QED BY <1>9 DEF n

\* A key taken from a ring that has one is the first of the queue.
LEMMA DropLemma ==
    ASSUME NEW r \in Rings, NEW q \in Seq(Key), Holds(r, q), q # << >>
    PROVE  Holds(Dropped(r), Tail(q)) /\ r.buf[r.head] = Head(q)
  <1>0. Size \in Nat \ {0} /\ CountWidth \in Nat /\ CountWidth > Size /\ Size = KEYBOARD_BUFFER_SIZE
    BY SyscallsAssumption DEF Size
  <1> DEFINE n == Dropped(r)
  <1>1. n = [buf |-> r.buf, head |-> (r.head + 1) % Size, tail |-> r.tail,
             count |-> (r.count + CountWidth - 1) % CountWidth]
    <2>1. Dropped(r) = [r EXCEPT !.head = (r.head + 1) % Size,
                                 !.count = (r.count + CountWidth - 1) % CountWidth]
      BY DEF Dropped, Size
    <2>2. r = [buf |-> r.buf, head |-> r.head, tail |-> r.tail, count |-> r.count]
      BY DEF Rings
    <2> QED BY <2>1, <2>2, RecordLemma
  <1>2. /\ Head(q) = q[1] /\ Len(q) \in Nat \ {0} /\ Len(Tail(q)) = Len(q) - 1
        /\ \A i \in 1 .. Len(q) - 1 : Tail(q)[i] = q[i + 1]
    BY HeadTailProperties, LenProperties, EmptySeq
  <1>3. r.count = Len(q) /\ r.count \in 1 .. Size /\ r.head \in Indices
    BY <1>2 DEF Rings, Holds
  <1>4. (r.count + CountWidth - 1) % CountWidth = r.count - 1
    <2>1. PICK c \in 1 .. Size : c = r.count
      BY <1>3
    <2>2. PICK w \in Nat \ {0} : w = CountWidth
      BY <1>0
    <2>3. PICK k \in 0 .. 2 * w - 1 : k = c + w - 1
      BY <1>0, <2>1, <2>2
    <2>4. k % w = IF k < w THEN k ELSE k - w
      BY ModOnce
    <2>5. k % w = c - 1
      BY <1>0, <2>1, <2>3, <2>4
    <2> QED BY <2>1, <2>2, <2>3, <2>5
  <1>5. \A i \in 1 .. Size : Slot(r.head, i) = Slot((r.head + 1) % Size, i - 1)
    BY <1>0, <1>3, SlotFacts
  <1>6. Slot(r.head, 0) = r.head
    BY <1>0, <1>3 DEF Slot, Indices
  <1> HIDE DEF n
  <1>7. n.count = Len(Tail(q)) /\ n.count <= Size
    BY <1>0, <1>1, <1>2, <1>3, <1>4
  <1>8. n.tail = Slot(n.head, n.count)
    <2>1. Slot(r.head, r.count) = Slot((r.head + 1) % Size, r.count - 1)
      BY <1>3, <1>5
    <2> QED BY <1>1, <1>4, <2>1 DEF Holds
  <1>9. ASSUME NEW i \in 1 .. Len(q) - 1 PROVE n.buf[Slot(n.head, i - 1)] = Tail(q)[i]
    <2>1. Slot(r.head, i) = Slot(n.head, i - 1)
      BY <1>0, <1>1, <1>2, <1>3, <1>5
    <2>2. i + 1 \in 1 .. Len(q) /\ (i + 1) - 1 = i
      BY <1>2
    <2>3. r.buf[Slot(r.head, (i + 1) - 1)] = q[i + 1]
      BY <2>2 DEF Holds
    <2>4. r.buf[Slot(r.head, i)] = q[i + 1]
      BY <2>2, <2>3
    <2> QED BY <1>1, <1>2, <2>1, <2>4
  <1>10. r.buf[r.head] = Head(q)
    <2>1. r.buf[Slot(r.head, 1 - 1)] = q[1]
      BY <1>2 DEF Holds
    <2> QED BY <1>2, <1>6, <2>1
  <1> QED BY <1>2, <1>7, <1>8, <1>9, <1>10 DEF Holds, n

\* Taking a key keeps the ring; a key that was never stored tears it.
LEMMA TakeKeyLemma ==
    ASSUME RingInv, TakeKey
    PROVE  RingInv' /\ uhist'.leaked = uhist.leaked /\ uhist'.closed = uhist.closed
           /\ uhist'.stuck = uhist.stuck
  <1>0. Size \in Nat \ {0} /\ CountWidth \in Nat \ {0} /\ Size = KEYBOARD_BUFFER_SIZE
    BY SyscallsAssumption DEF Size
  <1>1. kbd' \in Rings
    <2>1. Dropped(kbd) = [kbd EXCEPT !.head = (kbd.head + 1) % Size,
                                     !.count = (kbd.count + CountWidth - 1) % CountWidth]
      BY DEF Dropped, Size
    <2>2. kbd = [buf |-> kbd.buf, head |-> kbd.head, tail |-> kbd.tail, count |-> kbd.count]
      BY DEF Rings, RingInv
    <2>3. (kbd.head + 1) % Size \in Indices
      BY <1>0 DEF Rings, RingInv, Indices
    <2>4. (kbd.count + CountWidth - 1) % CountWidth \in 0 .. CountWidth - 1
      BY <1>0 DEF Rings, RingInv
    <2>5. Dropped(kbd) = [buf |-> kbd.buf, head |-> (kbd.head + 1) % Size, tail |-> kbd.tail,
                          count |-> (kbd.count + CountWidth - 1) % CountWidth]
      BY <2>1, <2>2, RecordLemma
    <2>6. kbd' = Dropped(kbd)
      BY DEF TakeKey
    <2> QED BY <2>3, <2>4, <2>5, <2>6 DEF Rings, RingInv
  <1>2. queue' \in Seq(Key) /\ scans' \in Nat
    BY TailRange DEF RingInv, TakeKey
  <1>3. /\ uhist' \in Histories
        /\ uhist'.leaked = uhist.leaked /\ uhist'.closed = uhist.closed /\ uhist'.stuck = uhist.stuck
        /\ uhist'.torn = (uhist.torn \/ kbd.count = 0 \/ queue = << >>)
    BY DEF RingInv, TakeKey, Histories
  <1>4. ASSUME ~uhist'.torn PROVE Holds(kbd', queue')
    <2>1. ~uhist.torn /\ queue # << >>
      BY <1>3, <1>4
    <2>2. kbd' = Dropped(kbd) /\ queue' = Tail(queue)
      BY <2>1 DEF TakeKey
    <2> QED BY <2>1, <2>2, DropLemma DEF RingInv
  <1> QED BY <1>1, <1>2, <1>3, <1>4 DEF RingInv

\* So does emptying it.
LEMMA ClearLemma ==
    ASSUME RingInv, ClearBuffer
    PROVE  RingInv'
  <1>0. Size \in Nat \ {0} /\ CountWidth \in Nat \ {0} /\ CountWidth > Size
    BY SyscallsAssumption DEF Size
  <1>1. kbd' = [buf |-> kbd.buf, head |-> 0, tail |-> 0, count |-> 0]
    <2>1. kbd = [buf |-> kbd.buf, head |-> kbd.head, tail |-> kbd.tail, count |-> kbd.count]
      BY DEF Rings, RingInv
    <2>2. ASSUME NEW x, x = [kbd EXCEPT !.head = 0, !.tail = 0]
          PROVE  x = [buf |-> kbd.buf, head |-> 0, tail |-> 0, count |-> kbd.count]
      <3>1. ASSUME NEW y, y = [kbd EXCEPT !.head = 0]
            PROVE  y = [buf |-> kbd.buf, head |-> 0, tail |-> kbd.tail, count |-> kbd.count]
        BY <2>1, <3>1
      <3>2. ASSUME NEW y, y = [buf |-> kbd.buf, head |-> 0, tail |-> kbd.tail, count |-> kbd.count]
            PROVE  [y EXCEPT !.tail = 0] = [buf |-> kbd.buf, head |-> 0, tail |-> 0, count |-> kbd.count]
        BY <3>2
      <3> QED BY <2>2, <3>1, <3>2
    <2>3. ASSUME NEW y, y = [buf |-> kbd.buf, head |-> 0, tail |-> 0, count |-> kbd.count]
          PROVE  [y EXCEPT !.count = 0] = [buf |-> kbd.buf, head |-> 0, tail |-> 0, count |-> 0]
      BY <2>3
    <2>4. kbd' = [[kbd EXCEPT !.head = 0, !.tail = 0] EXCEPT !.count = 0]
      BY DEF ClearBuffer
    <2> QED BY <2>2, <2>3, <2>4
  <1>2. kbd' \in Rings
    BY <1>0, <1>1 DEF Rings, RingInv, Indices
  <1>3. queue' = << >> /\ uhist' = uhist /\ scans' = scans
    BY DEF ClearBuffer
  <1>4. Holds(kbd', << >>)
    BY <1>0, <1>1 DEF Holds, Slot
  <1> QED BY <1>2, <1>3, <1>4 DEF RingInv

\* A key that arrives is stored when there is room, or lost whole.
LEMMA IrqLemma ==
    ASSUME RingInv, NEW sc \in Scancodes, KeyboardIrq(sc)
    PROVE  RingInv' /\ uhist' = uhist
  <1>0. Size \in Nat \ {0} /\ CountWidth \in Nat \ {0} /\ CountWidth > Size /\ Size = KEYBOARD_BUFFER_SIZE
    BY SyscallsAssumption DEF Size
  <1>1. uhist' = uhist /\ scans' \in Nat
    BY DEF KeyboardIrq, RingInv
  <1>2. PICK k \in KeyOf(mods, sc) :
          IF InRing(k) /\ HasRoom
          THEN /\ kbd' = Advanced(Stored(kbd, [id |-> scans + 1, key |-> k]))
               /\ queue' = Append(queue, [id |-> scans + 1, key |-> k])
          ELSE UNCHANGED <<kbd, queue>>
    BY DEF KeyboardIrq
  <1>3. CASE ~(InRing(k) /\ HasRoom)
    BY <1>1, <1>2, <1>3 DEF RingInv
  <1>4. CASE InRing(k) /\ HasRoom
    <2> DEFINE key == [id |-> scans + 1, key |-> k]
    <2>1. key \in Key
      BY <1>4 DEF Key, InRing, RingInv
    <2>2. kbd' = Advanced(Stored(kbd, key)) /\ queue' = Append(queue, key)
      BY <1>2, <1>4
    <2> HIDE DEF key
    <2>3. kbd' \in Rings
      BY <2>1, <2>2, StoredType DEF RingInv
    <2>4. queue' \in Seq(Key)
      BY <2>1, <2>2, AppendRange DEF RingInv
    <2>5. ~uhist.torn => Holds(kbd', queue')
      BY <1>0, <1>4, <2>1, <2>2, StoreLemma DEF RingInv, HasRoom
    <2> QED BY <1>1, <2>3, <2>4, <2>5 DEF RingInv
  <1> QED BY <1>3, <1>4
-----------------------------------------------------------------------------
(* Calls and what they hold.                                               *)

Call == [op : BufferedOps \cup {"user", "dead"}, pos : Nat, max : Nat]
Moving(u) == {t \in UserTasks : u[t].op \in BufferedOps}

\* A task is in its program, dead or in a call, and a call has a buffer.
CallInv ==
    /\ ucall \in [UserTasks -> Call] /\ kbufs \in Nat
    /\ \A t \in UserTasks : /\ ucall[t].op = "user" => ucall[t] = InUser
                            /\ ucall[t].op = "dead" => ucall[t] = Dead
    /\ kbufs = uhist.leaked + Cardinality(Moving(ucall))

\* A connection in use has a descriptor or is being made, or was lost.
SocketInv ==
    /\ fd_table \in [UserTasks -> [Fds -> Sockets \cup {Free, File}]]
    /\ pcbs \in SUBSET Sockets
    /\ \A t \in UserTasks : ucall[t].op = "connect" => ucall[t].pos \in Sockets
    /\ \A s \in pcbs :
          \/ s \in uhist.closed \cup uhist.stuck
          \/ \E t \in UserTasks :
                \/ s \in Range(fd_table[t])
                \/ ucall[t].op = "connect" /\ ucall[t].pos = s

SyscallsInv == RingInv /\ CallInv /\ SocketInv

\* One task starts, ends or goes on with a call.
LEMMA BusyLemma ==
    ASSUME NEW u \in [UserTasks -> Call], NEW t \in UserTasks, NEW c \in Call
    PROVE  /\ [u EXCEPT ![t] = c] \in [UserTasks -> Call]
           /\ Cardinality(Moving(u)) \in Nat
           /\ u[t].op \notin BufferedOps /\ c.op \in BufferedOps =>
                Cardinality(Moving([u EXCEPT ![t] = c])) = Cardinality(Moving(u)) + 1
           /\ u[t].op \in BufferedOps /\ c.op \notin BufferedOps =>
                /\ Cardinality(Moving([u EXCEPT ![t] = c])) = Cardinality(Moving(u)) - 1
                /\ Cardinality(Moving(u)) > 0
           /\ (u[t].op \in BufferedOps <=> c.op \in BufferedOps) =>
                Cardinality(Moving([u EXCEPT ![t] = c])) = Cardinality(Moving(u))
  <1> DEFINE v == [u EXCEPT ![t] = c]
  <1>1. v \in [UserTasks -> Call] /\ v[t] = c /\ \A x \in UserTasks : x # t => v[x] = u[x]
    OBVIOUS
  <1>2. IsFiniteSet(Moving(u)) /\ Cardinality(Moving(u)) \in Nat
    <2>1. IsFiniteSet(UserTasks) /\ Moving(u) \subseteq UserTasks
      BY SyscallsAssumption DEF Moving
    <2> QED BY <2>1, FS_Subset, FS_CardinalityType
  <1> HIDE DEF v
  <1>3. ASSUME u[t].op \notin BufferedOps, c.op \in BufferedOps PROVE Cardinality(Moving(v)) = Cardinality(Moving(u)) + 1
    <2>1. Moving(v) = Moving(u) \cup {t} /\ t \notin Moving(u)
      BY <1>1, <1>3 DEF Moving
    <2> QED BY <1>2, <2>1, FS_AddElement
  <1>4. ASSUME u[t].op \in BufferedOps, c.op \notin BufferedOps
        PROVE  Cardinality(Moving(v)) = Cardinality(Moving(u)) - 1 /\ Cardinality(Moving(u)) > 0
    <2>1. Moving(v) = Moving(u) \ {t} /\ t \in Moving(u)
      BY <1>1, <1>4 DEF Moving
    <2>2. Cardinality(Moving(u)) # 0
      BY <1>2, <2>1, FS_EmptySet
    <2>3. Cardinality(Moving(v)) = Cardinality(Moving(u)) - 1
      BY <1>2, <2>1, FS_RemoveElement
    <2> QED BY <1>2, <2>2, <2>3
  <1>5. ASSUME u[t].op \in BufferedOps <=> c.op \in BufferedOps PROVE Cardinality(Moving(v)) = Cardinality(Moving(u))
    <2>1. Moving(v) = Moving(u)
      BY <1>1, <1>5 DEF Moving
    <2> QED BY <2>1
  <1> QED BY <1>1, <1>2, <1>3, <1>4, <1>5 DEF v

\* The three ways a call changes keep CallInv.
LEMMA CallLemma ==
    ASSUME CallInv, uhist \in Histories, NEW t \in UserTasks, NEW c \in Call,
           ucall' = [ucall EXCEPT ![t] = c],
           c.op = "user" => c = InUser, c.op = "dead" => c = Dead,
           uhist'.leaked \in Nat,
           \/ /\ ucall[t].op \notin BufferedOps /\ c.op \in BufferedOps
              /\ kbufs' = kbufs + 1 /\ uhist'.leaked = uhist.leaked
           \/ /\ ucall[t].op \in BufferedOps /\ c.op \notin BufferedOps
              /\ kbufs' = kbufs - 1 /\ uhist'.leaked = uhist.leaked
           \/ /\ ucall[t].op \in BufferedOps /\ c.op \notin BufferedOps
              /\ kbufs' = kbufs /\ uhist'.leaked = uhist.leaked + 1
           \/ /\ ucall[t].op \in BufferedOps <=> c.op \in BufferedOps
              /\ kbufs' = kbufs /\ uhist'.leaked = uhist.leaked
    PROVE  CallInv'
  <1>1. ucall \in [UserTasks -> Call] /\ uhist.leaked \in Nat /\ kbufs \in Nat
        /\ kbufs = uhist.leaked + Cardinality(Moving(ucall))
    BY DEF CallInv, Histories
  <1>2. /\ ucall' \in [UserTasks -> Call]
        /\ \A x \in UserTasks : /\ ucall'[x].op = "user" => ucall'[x] = InUser
                                /\ ucall'[x].op = "dead" => ucall'[x] = Dead
    BY DEF CallInv
  <1> DEFINE n == Cardinality(Moving(ucall))
             m == Cardinality(Moving(ucall'))
  <1>3. /\ n \in Nat
        /\ ucall[t].op \notin BufferedOps /\ c.op \in BufferedOps => m = n + 1
        /\ ucall[t].op \in BufferedOps /\ c.op \notin BufferedOps => m = n - 1 /\ n > 0
        /\ (ucall[t].op \in BufferedOps <=> c.op \in BufferedOps) => m = n
    BY <1>1, BusyLemma
  <1> HIDE DEF n, m
  <1>4. kbufs' \in Nat /\ kbufs' = uhist'.leaked + m
    BY <1>1, <1>3 DEF n
  <1> QED BY <1>2, <1>4 DEF CallInv, Moving, m

\* What a step that leaves the calls alone needs to keep.
LEMMA CallStutter ==
    ASSUME CallInv, UNCHANGED <<ucall, kbufs>>, uhist'.leaked = uhist.leaked
    PROVE  CallInv'
  <1>1. Moving(ucall') = Moving(ucall)
    OBVIOUS
  <1> QED BY <1>1 DEF CallInv, Moving

\* The calls that connect go on as they are.
SameConnects ==
    \A x \in UserTasks :
        ucall[x].op = "connect" \/ ucall'[x].op = "connect" => ucall'[x] = ucall[x]

\* No call that connects starts or ends with another call.
LEMMA OtherCall ==
    ASSUME CallInv, NEW t \in UserTasks, NEW c \in Call, ucall' = [ucall EXCEPT ![t] = c],
           ucall[t].op # "connect", c.op # "connect"
    PROVE  SameConnects
  BY DEF CallInv, SameConnects

LEMMA NoCall ==
    ASSUME UNCHANGED ucall
    PROVE  SameConnects
  BY DEF SameConnects

\* A step that leaves descriptors and connections alone.
LEMMA SocketStutter ==
    ASSUME SocketInv, UNCHANGED <<fd_table, pcbs>>, SameConnects,
           uhist'.closed = uhist.closed, uhist'.stuck = uhist.stuck
    PROVE  SocketInv'
  BY DEF SocketInv, SameConnects

\* A step that leaves the ring alone.
LEMMA RingStutter ==
    ASSUME RingInv, UNCHANGED KeyVars, uhist' \in Histories, uhist'.torn = uhist.torn
    PROVE  RingInv'
  BY DEF RingInv, KeyVars

\* The keyboard, top, and the calls that read it.
LEMMA KeyboardStep ==
    ASSUME SyscallsInv, KeyboardNext
    PROVE  SyscallsInv' \/ \E t \in UserTasks : TaskEnds(t)
  <1> USE DEF SyscallsInv
  <1>0. uhist \in Histories /\ Readers \subseteq UserTasks /\ MaxLine \in Nat
    BY SyscallsAssumption DEF RingInv
  <1>1. ASSUME NEW sc \in Scancodes, KeyboardIrq(sc) PROVE SyscallsInv'
    <2>1. UNCHANGED CallVars
      BY <1>1 DEF KeyboardIrq
    <2> QED BY <1>1, <2>1, IrqLemma, CallStutter, SocketStutter, NoCall DEF CallVars
  <1>2. CASE TopStart \/ TopTests
    <2>1. UNCHANGED <<KeyVars, CallVars, uhist>>
      BY <1>2 DEF TopStart, TopTests
    <2> QED BY <1>0, <2>1, RingStutter, CallStutter, SocketStutter, NoCall DEF CallVars
  <1>3. CASE TopTakes
    <2>1. TakeKey /\ UNCHANGED CallVars
      BY <1>3 DEF TopTakes
    <2> QED BY <2>1, TakeKeyLemma, CallStutter, SocketStutter, NoCall DEF CallVars
  <1>4. ASSUME NEW t \in UserTasks, NEW n \in 0 .. MaxLine, GetsStart(t, n) \/ ReadStart(t, n)
        PROVE  SyscallsInv'
    <2>1. PICK o \in BufferedOps \ {"connect"} : /\ ucall' = [ucall EXCEPT ![t] = [op |-> o, pos |-> 0, max |-> n]]
                                             /\ ucall[t] = InUser /\ kbufs' = kbufs + 1
                                             /\ UNCHANGED <<KeyVars, fd_table, pcbs, uhist>>
      BY <1>4 DEF GetsStart, ReadStart, Calls, BufferedOps
    <2>2. ucall[t].op \notin BufferedOps /\ uhist.leaked \in Nat
      BY <1>0, <2>1 DEF InUser, BufferedOps, Histories
    <2>3. [op |-> o, pos |-> 0, max |-> n] \in Call
      BY <1>0 DEF Call
    <2>4. CallInv' /\ SameConnects
      <3> DEFINE c == [op |-> o, pos |-> 0, max |-> n]
      <3>1. /\ c \in Call /\ c.op \in BufferedOps /\ c.op # "user" /\ c.op # "dead" /\ c.op # "connect"
            /\ ucall' = [ucall EXCEPT ![t] = c]
        BY <2>1, <2>3 DEF BufferedOps
      <3>2. ucall[t].op # "connect"
        BY <2>2 DEF BufferedOps
      <3> HIDE DEF c
      <3> QED BY <1>0, <2>1, <2>2, <3>1, <3>2, CallLemma, OtherCall
    <2> QED BY <1>0, <2>1, <2>4, RingStutter, SocketStutter
  <1>5. ASSUME NEW t \in UserTasks, GetsKey(t) \/ ReadKey(t) PROVE SyscallsInv'
    <2>1. PICK p \in Nat, done \in BOOLEAN :
            /\ ucall' = [ucall EXCEPT ![t] = IF done THEN InUser ELSE [@ EXCEPT !.pos = p]]
            /\ kbufs' = IF done THEN kbufs - 1 ELSE kbufs
      <3>0. ucall[t].pos \in Nat /\ ucall[t].max \in Nat
        BY DEF CallInv, Call
      <3> DEFINE k == OldestKey.key
                 gp == CASE k = "backspace" -> IF ucall[t].pos > 0 THEN ucall[t].pos - 1 ELSE 0
                         [] k = "char" -> Min({ucall[t].pos + 1, MaxLine + 1})
                         [] OTHER -> ucall[t].pos
                 gd == k = "newline" \/ (ucall[t].max # 0 /\ gp >= ucall[t].max - 1)
                 rp == CASE k = "backspace" /\ ucall[t].pos > 0 -> ucall[t].pos
                         [] k \in {"char", "control"} -> ucall[t].pos + 2
                         [] OTHER -> ucall[t].pos + 1
                 rd == k = "newline" \/ rp >= ucall[t].max
      <3>1. CASE GetsKey(t)
        <4>1. gp \in Nat
          <5>1. {ucall[t].pos + 1, MaxLine + 1} \in SUBSET Nat
            BY <1>0, <3>0
          <5>2. Min({ucall[t].pos + 1, MaxLine + 1}) \in Nat
            BY <5>1, MinNat
          <5> HIDE DEF k
          <5>3. CASE k = "backspace"
            BY <3>0, <5>3
          <5>4. CASE k = "char"
            BY <5>2, <5>4
          <5>5. CASE k \notin {"backspace", "char"}
            BY <3>0, <5>5
          <5> QED BY <5>3, <5>4, <5>5
        <4>2. gd \in BOOLEAN
          OBVIOUS
        <4>3. /\ ucall' = [ucall EXCEPT ![t] = IF gd THEN InUser ELSE [@ EXCEPT !.pos = gp]]
              /\ kbufs' = IF gd THEN kbufs - 1 ELSE kbufs
          BY <3>1 DEF GetsKey
        <4> HIDE DEF gp, gd
        <4> QED BY <4>1, <4>2, <4>3
      <3>2. CASE ReadKey(t)
        <4>1. rp \in Nat
          <5> HIDE DEF k
          <5> QED BY <3>0
        <4>2. rd \in BOOLEAN
          OBVIOUS
        <4>3. /\ ucall' = [ucall EXCEPT ![t] = IF rd THEN InUser ELSE [@ EXCEPT !.pos = rp]]
              /\ kbufs' = IF rd THEN kbufs - 1 ELSE kbufs
          BY <3>2 DEF ReadKey
        <4> HIDE DEF rp, rd
        <4> QED BY <4>1, <4>2, <4>3
      <3> QED BY <1>5, <3>1, <3>2
    <2>2. TakeKey /\ ucall[t].op \in BufferedOps \ {"connect"} /\ UNCHANGED <<fd_table, pcbs>>
      BY <1>5 DEF GetsKey, ReadKey, BufferedOps
    <2>3. RingInv' /\ uhist'.leaked = uhist.leaked /\ uhist'.closed = uhist.closed /\ uhist'.stuck = uhist.stuck
      BY <2>2, TakeKeyLemma
    <2>4. uhist'.leaked \in Nat
      BY <2>3 DEF RingInv, Histories
    <2> DEFINE c == IF done THEN InUser ELSE [ucall[t] EXCEPT !.pos = p]
    <2>5. ucall' = [ucall EXCEPT ![t] = c]
      BY <2>1
    <2>6. /\ c \in Call /\ c.op # "dead" /\ (c.op = "user" => c = InUser)
          /\ done => c.op \notin BufferedOps
          /\ ~done => c.op \in BufferedOps
          /\ c.op # "connect"
      <3>1. CASE done
        BY <3>1 DEF InUser, BufferedOps, Call
      <3>2. CASE ~done
        <4>1. ASSUME NEW x, x = [ucall[t] EXCEPT !.pos = p]
              PROVE  x = [op |-> ucall[t].op, pos |-> p, max |-> ucall[t].max]
          BY <4>1 DEF CallInv, Call
        <4>2. c = [op |-> ucall[t].op, pos |-> p, max |-> ucall[t].max]
          BY <3>2, <4>1
        <4>3. ucall[t].op \in BufferedOps \ {"connect"} /\ ucall[t].max \in Nat
          BY <2>2 DEF CallInv, Call
        <4> HIDE DEF c
        <4> QED BY <3>2, <4>2, <4>3 DEF Call, BufferedOps
      <3> QED BY <3>1, <3>2
    <2> HIDE DEF c
    <2>7. CallInv'
      <3>1. CASE done
        BY <1>0, <2>1, <2>2, <2>3, <2>4, <2>5, <2>6, <3>1, CallLemma
      <3>2. CASE ~done
        BY <1>0, <2>1, <2>2, <2>3, <2>4, <2>5, <2>6, <3>2, CallLemma
      <3> QED BY <3>1, <3>2
    <2>8. SameConnects
      BY <2>2, <2>5, <2>6, OtherCall
    <2> QED BY <2>2, <2>3, <2>7, <2>8, SocketStutter
  <1>6. ASSUME NEW t \in UserTasks, ReadTimesOut(t) PROVE SyscallsInv'
    <2>1. /\ ucall' = [ucall EXCEPT ![t] = InUser] /\ kbufs' = kbufs - 1
          /\ ucall[t].op \in BufferedOps \ {"connect"} /\ UNCHANGED <<KeyVars, fd_table, pcbs, uhist>>
      BY <1>6 DEF ReadTimesOut, Returns, BufferedOps
    <2>2. InUser \in Call /\ InUser.op = "user" /\ uhist.leaked \in Nat /\ InUser.op \notin BufferedOps
      BY <1>0 DEF InUser, Call, Histories, BufferedOps
    <2>3. CallInv' /\ SameConnects
      BY <1>0, <2>1, <2>2, CallLemma, OtherCall
    <2> QED BY <1>0, <2>1, <2>3, RingStutter, SocketStutter
  <1>7. ASSUME NEW t \in UserTasks, GetKey(t) PROVE SyscallsInv'
    <2>1. TakeKey /\ UNCHANGED CallVars
      BY <1>7 DEF GetKey
    <2> QED BY <2>1, TakeKeyLemma, CallStutter, SocketStutter, NoCall DEF CallVars
  <1>8. ASSUME NEW t \in UserTasks, Flush(t) PROVE SyscallsInv'
    <2>1. ClearBuffer /\ UNCHANGED CallVars /\ uhist' = uhist
      BY <1>8 DEF Flush, ClearBuffer
    <2> QED BY <2>1, ClearLemma, CallStutter, SocketStutter, NoCall DEF CallVars
  <1> QED BY <1>0, <1>1, <1>2, <1>3, <1>4, <1>5, <1>6, <1>7, <1>8 DEF KeyboardNext

\* The first free descriptor is one of the task's descriptors.
LEMMA FreeFdLemma ==
    ASSUME NEW t \in UserTasks, FreeFds(t) # {}
    PROVE  Min(FreeFds(t)) \in Fds /\ fd_table[t][Min(FreeFds(t))] = Free
  <1>1. FreeFds(t) \in SUBSET Nat
    BY SyscallsAssumption DEF FreeFds
  <1>2. Min(FreeFds(t)) \in FreeFds(t)
    BY <1>1, MinNat
  <1> QED BY <1>2 DEF FreeFds

\* A free descriptor that is given to a file or a connection: everything
\* that had a descriptor keeps it.
LEMMA FdLemma ==
    ASSUME fd_table \in [UserTasks -> [Fds -> Sockets \cup {Free, File}]],
           NEW t \in UserTasks, NEW f \in Fds, fd_table[t][f] = Free,
           NEW v \in Sockets \cup {Free, File}, fd_table' = [fd_table EXCEPT ![t][f] = v]
    PROVE  /\ fd_table' \in [UserTasks -> [Fds -> Sockets \cup {Free, File}]]
           /\ v \in Range(fd_table'[t])
           /\ \A s \in Sockets, x \in UserTasks : s \in Range(fd_table[x]) => s \in Range(fd_table'[x])
  <1>1. fd_table' \in [UserTasks -> [Fds -> Sockets \cup {Free, File}]]
    OBVIOUS
  <1>2. fd_table'[t][f] = v
    OBVIOUS
  <1>3. \A x \in UserTasks : DOMAIN fd_table[x] = Fds /\ DOMAIN fd_table'[x] = Fds
    BY <1>1
  <1>4. ASSUME NEW s \in Sockets, NEW x \in UserTasks, s \in Range(fd_table[x])
        PROVE  s \in Range(fd_table'[x])
    <2>1. PICK g \in Fds : s = fd_table[x][g]
      BY <1>3, <1>4 DEF Range
    <2>2. s # Free
      BY SyscallsAssumption DEF Free
    <2>3. fd_table'[x][g] = s
      BY <2>1, <2>2
    <2> QED BY <1>3, <2>3 DEF Range
  <1> QED BY <1>1, <1>2, <1>3, <1>4 DEF Range

\* A task that ends: its connections are closed, a buffer it waited with is
\* lost.
LEMMA EndStep ==
    ASSUME SyscallsInv, NEW t \in UserTasks, TaskEnds(t)
    PROVE  SyscallsInv'
  <1> USE DEF SyscallsInv
  <1> DEFINE waits == IF ucall[t].op = "connect" THEN {ucall[t].pos} ELSE {}
  <1>0. /\ uhist \in Histories /\ uhist.leaked \in Nat /\ UNCHANGED <<KeyVars, kbufs>>
        /\ ucall' = [ucall EXCEPT ![t] = Dead] /\ ucall[t] # Dead
        /\ uhist' = [uhist EXCEPT !.leaked = @ + IF ucall[t] = InUser THEN 0 ELSE 1,
                                  !.stuck = @ \cup waits]
    BY DEF RingInv, TaskEnds, Histories
  <1>9. waits \subseteq Sockets
    BY DEF SocketInv
  <1> HIDE DEF waits
  <1>1. /\ uhist' \in Histories /\ uhist'.torn = uhist.torn /\ uhist'.closed = uhist.closed
        /\ uhist'.leaked = uhist.leaked + IF ucall[t] = InUser THEN 0 ELSE 1
        /\ uhist'.stuck = uhist.stuck \cup waits
    <2> DEFINE n == uhist.leaked + IF ucall[t] = InUser THEN 0 ELSE 1
    <2>1. n \in Nat /\ uhist' = [uhist EXCEPT !.leaked = n, !.stuck = uhist.stuck \cup waits]
      BY <1>0
    <2> HIDE DEF n
    <2>2. /\ uhist' \in Histories /\ uhist'.torn = uhist.torn /\ uhist'.closed = uhist.closed
          /\ uhist'.leaked = n /\ uhist'.stuck = uhist.stuck \cup waits
      BY <1>0, <1>9, <2>1 DEF Histories
    <2> QED BY <2>2 DEF n
  <1>2. RingInv'
    BY <1>0, <1>1, RingStutter
  <1>3. Dead \in Call /\ Dead.op = "dead" /\ Dead.op \notin BufferedOps /\ uhist'.leaked \in Nat
    BY <1>1 DEF Dead, Call, BufferedOps, Histories
  <1>4. CallInv'
    <2>1. CASE ucall[t] = InUser
      <3>1. ucall[t].op \notin BufferedOps /\ uhist'.leaked = uhist.leaked
        BY <1>0, <1>1, <2>1 DEF InUser, BufferedOps
      <3> QED BY <1>0, <1>3, <3>1, CallLemma
    <2>2. CASE ucall[t] # InUser
      <3>1. ucall[t].op \in BufferedOps
        BY <1>0, <2>2 DEF CallInv, Call
      <3> QED BY <1>0, <1>1, <1>3, <2>2, <3>1, CallLemma
    <2> QED BY <2>1, <2>2
  <1>5. SocketInv'
    <2>1. fd_table' = [fd_table EXCEPT ![t] = [f \in Fds |-> Free]] /\ pcbs' = pcbs \ Range(fd_table[t])
      BY DEF TaskEnds
    <2>2. fd_table' \in [UserTasks -> [Fds -> Sockets \cup {Free, File}]] /\ pcbs' \in SUBSET Sockets
      BY <2>1 DEF SocketInv
    <2>3. ASSUME NEW s \in pcbs', s \notin uhist'.closed \cup uhist'.stuck
          PROVE  \E x \in UserTasks :
                    s \in Range(fd_table'[x]) \/ (ucall'[x].op = "connect" /\ ucall'[x].pos = s)
      <3>1. s \in pcbs /\ s \notin Range(fd_table[t]) /\ s \notin uhist.closed \cup uhist.stuck /\ s \notin waits
        BY <1>1, <2>1, <2>3
      <3>2. PICK x \in UserTasks : s \in Range(fd_table[x]) \/ (ucall[x].op = "connect" /\ ucall[x].pos = s)
        BY <3>1 DEF SocketInv
      <3>3. x # t
        BY <3>1, <3>2 DEF waits
      <3>4. fd_table'[x] = fd_table[x] /\ ucall'[x] = ucall[x]
        BY <1>0, <2>1, <3>3 DEF SocketInv, CallInv
      <3> QED BY <3>2, <3>4
    <2>4. ASSUME NEW x \in UserTasks, ucall'[x].op = "connect" PROVE ucall'[x].pos \in Sockets
      <3>1. ucall'[x] = ucall[x]
        BY <1>0, <1>3, <2>4 DEF CallInv
      <3> QED BY <2>4, <3>1 DEF SocketInv
    <2> QED BY <2>2, <2>3, <2>4 DEF SocketInv
  <1> QED BY <1>2, <1>4, <1>5

\* Opening, connecting, transferring and closing.
LEMMA DescriptorStep ==
    ASSUME SyscallsInv, DescriptorNext
    PROVE  SyscallsInv'
  <1> USE DEF SyscallsInv
  <1>0. uhist \in Histories /\ uhist.leaked \in Nat
    BY DEF RingInv, Histories
  <1>1. ASSUME NEW t \in UserTasks, OpenCall(t) PROVE SyscallsInv'
    <2>1. /\ FreeFds(t) # {} /\ fd_table' = [fd_table EXCEPT ![t][Min(FreeFds(t))] = File]
          /\ UNCHANGED <<KeyVars, ucall, pcbs, kbufs, uhist>>
      BY <1>1 DEF OpenCall
    <2>2. Min(FreeFds(t)) \in Fds /\ fd_table[t][Min(FreeFds(t))] = Free
      BY <2>1, FreeFdLemma
    <2>3. /\ fd_table' \in [UserTasks -> [Fds -> Sockets \cup {Free, File}]]
          /\ \A s \in Sockets, x \in UserTasks : s \in Range(fd_table[x]) => s \in Range(fd_table'[x])
      BY <2>1, <2>2, FdLemma DEF SocketInv
    <2>4. SocketInv'
      BY <2>1, <2>3 DEF SocketInv
    <2> QED BY <1>0, <2>1, <2>4, RingStutter, CallStutter
  <1>2. ASSUME NEW t \in UserTasks, ConnectStart(t) PROVE SyscallsInv'
    <2> DEFINE s == Min(Sockets \ pcbs)
               c == [op |-> "connect", pos |-> s, max |-> 0]
    <2>1. /\ Sockets \ pcbs # {} /\ UNCHANGED <<KeyVars, fd_table, uhist>> /\ ucall[t] = InUser
          /\ kbufs' = kbufs + 1 /\ pcbs' = pcbs \cup {s} /\ ucall' = [ucall EXCEPT ![t] = c]
      BY <1>2 DEF ConnectStart, Calls
    <2>2. s \in Sockets /\ s \in Nat
      BY <2>1, MinNat, SyscallsAssumption
    <2> HIDE DEF s
    <2>3. c \in Call /\ c.op = "connect" /\ c.op \in BufferedOps /\ c.pos = s
      BY <2>2 DEF Call, BufferedOps
    <2>4. ucall[t].op \notin BufferedOps /\ ucall[t].op # "connect"
      BY <2>1 DEF InUser, BufferedOps
    <2> HIDE DEF c
    <2>5. CallInv'
      BY <1>0, <2>1, <2>3, <2>4, CallLemma
    <2>6. /\ ucall'[t] = c
          /\ \A x \in UserTasks : x # t => ucall'[x] = ucall[x]
      BY <2>1 DEF CallInv
    <2>7. \A x \in UserTasks : ucall[x].op = "connect" => ucall'[x] = ucall[x]
      BY <2>4, <2>6
    <2>8. SocketInv'
      BY <2>1, <2>2, <2>3, <2>6, <2>7 DEF SocketInv
    <2> QED BY <1>0, <2>1, <2>5, <2>8, RingStutter
  <1>7. ASSUME NEW t \in UserTasks, ConnectEnd(t) PROVE SyscallsInv'
    <2> DEFINE s == ucall[t].pos
    <2>1. /\ ucall[t].op = "connect" /\ ucall' = [ucall EXCEPT ![t] = InUser] /\ kbufs' = kbufs - 1
          /\ UNCHANGED KeyVars /\ (Connects(t, s) \/ NotConnected(s) \/ SynNotSent(s))
      BY <1>7 DEF ConnectEnd, Returns
    <2>2. s \in Sockets /\ ucall[t].op \in BufferedOps
      BY <2>1 DEF SocketInv, BufferedOps
    <2>3. InUser \in Call /\ InUser.op = "user" /\ InUser.op \notin BufferedOps
      BY DEF InUser, Call, BufferedOps
    <2>4. /\ uhist' \in Histories /\ uhist'.torn = uhist.torn
          /\ uhist'.leaked = uhist.leaked /\ uhist'.closed = uhist.closed
          /\ uhist.stuck \subseteq uhist'.stuck /\ (SynNotSent(s) => s \in uhist'.stuck)
      <3>1. CASE UNCHANGED uhist
        <4>1. SynNotSent(s) => s \in uhist'.stuck
          BY <1>0, <2>2 DEF SynNotSent, Histories
        <4> QED BY <1>0, <3>1, <4>1
      <3>2. CASE SynNotSent(s)
        BY <1>0, <2>2, <3>2 DEF SynNotSent, Histories
      <3> QED BY <2>1, <3>1, <3>2 DEF Connects, NotConnected
    <2>5. CallInv'
      BY <1>0, <2>1, <2>2, <2>3, <2>4, CallLemma DEF Histories
    <2>6. /\ ucall'[t] = InUser
          /\ \A x \in UserTasks : x # t => ucall'[x] = ucall[x]
      BY <2>1 DEF CallInv
    <2>7. ASSUME NEW z \in pcbs, z # s
          PROVE  \/ z \in uhist.closed \cup uhist.stuck
                 \/ \E x \in UserTasks :
                    z \in Range(fd_table[x]) \/ (ucall'[x].op = "connect" /\ ucall'[x].pos = z)
      BY <2>6, <2>7 DEF SocketInv
    <2>8. \A x \in UserTasks : ucall'[x].op = "connect" => ucall'[x].pos \in Sockets
      BY <2>3, <2>6 DEF SocketInv
    <2> HIDE DEF s
    <2>9. SocketInv'
      <3>1. CASE Connects(t, s)
        <4>1. /\ FreeFds(t) # {} /\ UNCHANGED <<pcbs, uhist>>
              /\ fd_table' = [fd_table EXCEPT ![t][Min(FreeFds(t))] = s]
          BY <3>1 DEF Connects
        <4>2. Min(FreeFds(t)) \in Fds /\ fd_table[t][Min(FreeFds(t))] = Free
          BY <4>1, FreeFdLemma
        <4>3. /\ fd_table' \in [UserTasks -> [Fds -> Sockets \cup {Free, File}]]
              /\ s \in Range(fd_table'[t])
              /\ \A z \in Sockets, x \in UserTasks : z \in Range(fd_table[x]) => z \in Range(fd_table'[x])
          BY <2>2, <4>1, <4>2, FdLemma DEF SocketInv
        <4>4. pcbs \in SUBSET Sockets
          BY DEF SocketInv
        <4>5. ASSUME NEW z \in pcbs, z \notin uhist.closed \cup uhist.stuck
              PROVE  \E x \in UserTasks :
                    z \in Range(fd_table'[x]) \/ (ucall'[x].op = "connect" /\ ucall'[x].pos = z)
          <5>1. CASE z = s
            BY <5>1, <4>3
          <5>2. CASE z # s
            BY <5>2, <4>3, <4>4, <4>5, <2>7
          <5> QED BY <5>1, <5>2
        <4> QED BY <4>1, <4>3, <4>4, <4>5, <2>8 DEF SocketInv
      <3>2. CASE NotConnected(s)
        BY <3>2, <2>7, <2>8 DEF NotConnected, SocketInv
      <3>3. CASE SynNotSent(s)
        <4>1. UNCHANGED <<pcbs, fd_table>> /\ s \in uhist'.stuck
          BY <3>3, <2>4 DEF SynNotSent
        <4> QED BY <4>1, <2>4, <2>7, <2>8 DEF SocketInv
      <3> QED BY <2>1, <3>1, <3>2, <3>3
    <2> QED BY <2>1, <2>4, <2>5, <2>9, RingStutter
  <1>3. ASSUME NEW t \in UserTasks, TransferEnd(t) PROVE SyscallsInv'
    <2>1. /\ ucall' = [ucall EXCEPT ![t] = InUser] /\ kbufs' = kbufs - 1
          /\ ucall[t].op \in BufferedOps \ {"connect"} /\ UNCHANGED <<KeyVars, fd_table, pcbs, uhist>>
      BY <1>3 DEF TransferEnd, Returns, BufferedOps
    <2>2. InUser \in Call /\ InUser.op = "user" /\ InUser.op \notin BufferedOps
      BY DEF InUser, Call, BufferedOps
    <2>3. CallInv' /\ SameConnects
      BY <1>0, <2>1, <2>2, CallLemma, OtherCall
    <2> QED BY <1>0, <2>1, <2>3, RingStutter, SocketStutter
  <1>4. ASSUME NEW t \in UserTasks, NEW f \in Fds, TransferStart(t, f) PROVE SyscallsInv'
    <2> DEFINE c == [op |-> "transfer", pos |-> 0, max |-> 0]
    <2>1. /\ ucall' = [ucall EXCEPT ![t] = c] /\ kbufs' = kbufs + 1
          /\ ucall[t] = InUser /\ UNCHANGED <<KeyVars, fd_table, pcbs, uhist>>
      BY <1>4 DEF TransferStart, Calls
    <2>2. c \in Call /\ c.op = "transfer" /\ c.op \in BufferedOps /\ c.op # "connect"
      BY DEF Call, BufferedOps
    <2>3. ucall[t].op \notin BufferedOps /\ ucall[t].op # "connect"
      BY <2>1 DEF InUser, BufferedOps
    <2> HIDE DEF c
    <2>4. CallInv' /\ SameConnects
      BY <1>0, <2>1, <2>2, <2>3, CallLemma, OtherCall
    <2> QED BY <1>0, <2>1, <2>4, RingStutter, SocketStutter
  <1>5. ASSUME NEW t \in UserTasks, NEW f \in Fds, CloseCall(t, f) PROVE SyscallsInv'
    <2>1. /\ fd_table' = [fd_table EXCEPT ![t][f] = Free]
          /\ uhist' = [uhist EXCEPT !.closed = @ \cup ({fd_table[t][f]} \cap Sockets)]
          /\ UNCHANGED <<KeyVars, ucall, pcbs, kbufs>>
      BY <1>5 DEF CloseCall
    <2>2. /\ uhist' \in Histories /\ uhist'.torn = uhist.torn /\ uhist'.leaked = uhist.leaked
          /\ uhist'.closed = uhist.closed \cup ({fd_table[t][f]} \cap Sockets) /\ uhist'.stuck = uhist.stuck
      BY <1>0, <2>1 DEF Histories
    <2>3. fd_table' \in [UserTasks -> [Fds -> Sockets \cup {Free, File}]]
      BY <2>1 DEF SocketInv
    <2>4. ASSUME NEW s \in pcbs, s \notin uhist'.closed \cup uhist'.stuck
          PROVE  \E x \in UserTasks :
                    s \in Range(fd_table'[x]) \/ (ucall'[x].op = "connect" /\ ucall'[x].pos = s)
      <3>1. s \notin uhist.closed \cup uhist.stuck /\ s # fd_table[t][f]
        BY <2>2, <2>4 DEF SocketInv
      <3>6. CASE \E x \in UserTasks : ucall[x].op = "connect" /\ ucall[x].pos = s
        BY <3>6, <2>1
      <3>7. SUFFICES ASSUME \E x \in UserTasks : s \in Range(fd_table[x])
                     PROVE  \E x \in UserTasks : s \in Range(fd_table'[x])
        BY <3>1, <3>6 DEF SocketInv
      <3>2. PICK x \in UserTasks : s \in Range(fd_table[x])
        BY <3>7
      <3>3. PICK g \in Fds : s = fd_table[x][g]
        BY <3>2 DEF SocketInv, Range
      <3>4. fd_table'[x][g] = s
        BY <2>1, <3>1, <3>3 DEF SocketInv
      <3>5. DOMAIN fd_table'[x] = Fds
        BY <2>3
      <3> QED BY <3>4, <3>5 DEF Range
    <2>5. SocketInv'
      BY <2>1, <2>3, <2>4 DEF SocketInv
    <2> QED BY <2>1, <2>2, <2>5, RingStutter, CallStutter
  <1>6. ASSUME NEW t \in UserTasks, TaskEnds(t) PROVE SyscallsInv'
    BY <1>6, EndStep
  <1> QED BY <1>1, <1>2, <1>3, <1>4, <1>5, <1>6, <1>7 DEF DescriptorNext

\* Every step keeps the invariant.
LEMMA SyscallsStep == SyscallsInv /\ [SyscallsNext]_SyscallVars => SyscallsInv'
  <1> SUFFICES ASSUME SyscallsInv, [SyscallsNext]_SyscallVars PROVE SyscallsInv'
    OBVIOUS
  <1>1. CASE KeyboardNext
    BY <1>1, KeyboardStep, EndStep
  <1>2. CASE DescriptorNext
    BY <1>2, DescriptorStep
  <1>3. CASE UNCHANGED SyscallVars
    <2>1. UNCHANGED <<KeyVars, ucall, fd_table, pcbs, kbufs, uhist>> /\ uhist \in Histories
      BY <1>3 DEF SyscallVars, CallVars, SyscallsInv, RingInv
    <2> QED BY <2>1, RingStutter, CallStutter, SocketStutter, NoCall DEF SyscallsInv
  <1> QED BY <1>1, <1>2, <1>3 DEF SyscallsNext

\* It holds when the first task starts.
LEMMA SyscallsStart == SyscallsInit => SyscallsInv
  <1> SUFFICES ASSUME SyscallsInit PROVE SyscallsInv
    OBVIOUS
  <1>0. Size \in Nat \ {0} /\ CountWidth \in Nat \ {0} /\ CountWidth > Size /\ Size = KEYBOARD_BUFFER_SIZE
    BY SyscallsAssumption DEF Size
  <1>1. kbd \in Rings
    <2>1. [id |-> 0, key |-> "char"] \in Key
      BY DEF Key
    <2>2. [i \in Indices |-> [id |-> 0, key |-> "char"]] \in [Indices -> Key]
      BY <2>1
    <2>3. 0 \in Indices /\ 0 \in 0 .. CountWidth - 1
      BY <1>0 DEF Indices
    <2>4. kbd = [buf |-> [i \in Indices |-> [id |-> 0, key |-> "char"]], head |-> 0, tail |-> 0, count |-> 0]
      BY DEF SyscallsInit, Indices, Size
    <2> QED BY <2>2, <2>3, <2>4 DEF Rings
  <1>2. Holds(kbd, queue)
    BY <1>0 DEF SyscallsInit, Holds, Slot
  <1>3. RingInv
    BY <1>1, <1>2 DEF SyscallsInit, RingInv, Histories
  <1>4. CallInv
    <2>1. Moving(ucall) = {} /\ InUser \in Call /\ InUser.op = "user"
      BY DEF SyscallsInit, Moving, InUser, BufferedOps, Call
    <2>2. Cardinality(Moving(ucall)) = 0
      BY <2>1, FS_EmptySet
    <2> QED BY <2>1, <2>2 DEF SyscallsInit, CallInv
  <1>5. SocketInv
    <2>1. \A t \in UserTasks : ucall[t].op # "connect"
      BY DEF SyscallsInit, InUser
    <2> QED BY <2>1 DEF SyscallsInit, SocketInv
  <1> QED BY <1>3, <1>4, <1>5 DEF SyscallsInv

\* The ring of keyboard.c is a queue for every size of the ring, every
\* number of readers and every number of keys, whoever reads and whenever it
\* is flushed, until top takes a key that was already taken.
THEOREM KeyboardIsFifo == SyscallsSpec => []KeyboardFifo
  <1>1. SyscallsInv => KeyboardFifo
    <2> SUFFICES ASSUME SyscallsInv, ~uhist.torn PROVE
          /\ kbd.count = Len(queue)
          /\ \A i \in 1 .. kbd.count : kbd.buf[(kbd.head + i - 1) % KEYBOARD_BUFFER_SIZE] = queue[i]
      BY DEF KeyboardFifo
    <2>1. Holds(kbd, queue) /\ kbd \in Rings
      BY DEF SyscallsInv, RingInv
    <2>2. ASSUME NEW i \in 1 .. kbd.count
          PROVE  kbd.buf[(kbd.head + i - 1) % KEYBOARD_BUFFER_SIZE] = queue[i]
      <3>1. i - 1 \in 0 .. Size /\ kbd.head \in Indices /\ Size \in Nat \ {0}
        BY <2>1, SyscallsAssumption DEF Holds, Rings, Size
      <3>2. (kbd.head + (i - 1)) % Size = Slot(kbd.head, i - 1)
        BY <3>1, SlotFacts
      <3>3. kbd.head + (i - 1) = kbd.head + i - 1
        BY <3>1 DEF Indices
      <3>4. kbd.buf[Slot(kbd.head, i - 1)] = queue[i]
        BY <2>1, <2>2 DEF Holds
      <3> QED BY <3>2, <3>3, <3>4 DEF Size
    <2> QED BY <2>1, <2>2 DEF Holds
  <1> QED BY <1>1, SyscallsStart, SyscallsStep, PTL DEF SyscallsSpec

\* Whichever way calls end, the buffers allocated are those of calls in
\* progress and of tasks killed in one, and a connection nobody has a
\* descriptor for was lost by a
\* close, by a SYN that was not sent or with a task killed while connecting.
THEOREM CallsReturnWhatTheyTook == SyscallsSpec => []CallResources
  <1>1. SyscallsInv => CallResources
    BY DEF SyscallsInv, CallInv, SocketInv, CallResources, Moving, BufferedOps
  <1> QED BY <1>1, SyscallsStart, SyscallsStep, PTL DEF SyscallsSpec

\* The state of the system calls has its type; no more buffers are freed
\* than were allocated.
THEOREM SyscallsTypeCorrect == SyscallsSpec => []SyscallsTypeOK
  <1>1. SyscallsInv => SyscallsTypeOK
    BY DEF SyscallsInv, RingInv, CallInv, SocketInv, SyscallsTypeOK, Rings, Indices, Size, Call, BufferedOps
  <1> QED BY <1>1, SyscallsStart, SyscallsStep, PTL DEF SyscallsSpec

-----------------------------------------------------------------------------
(* The file systems without a disk.                                        *)

AllBlocks == TmpBlocks \cup {Root}
NodeRec == [kind : {"free", "file", "dir"}, name : Names \cup {"", "/"}, parent : AllBlocks, size : Nat, no : Nat]
HandleRec == [kind : CharDevs \cup {"tmp", "none"}, at : AllBlocks, no : Nat, stale : BOOLEAN]

TreeTyped ==
    /\ node \in [AllBlocks -> NodeRec]
    /\ children \in [AllBlocks -> Seq(TmpBlocks)]
    /\ handle \in [Handles -> HandleRec]
    /\ serial_no \in Nat
    /\ node[Root].kind = "dir"

IsChild(b, d) == \E i \in 1 .. Len(children[d]) : children[d][i] = b

\* The children of the directories: as the property says, and no directory
\* twice among them.
Linked == \A b \in TmpBlocks : node[b].kind # "free" <=> \E d \in LiveDirs : IsChild(b, d)
OneName ==
    \A d \in LiveDirs : \A i, j \in 1 .. Len(children[d]) :
        node[children[d][i]].name = node[children[d][j]].name => i = j
OneParent == \A c, d \in LiveDirs : \A b \in TmpBlocks : IsChild(b, c) /\ IsChild(b, d) => c = d

\* A vnode that is not stale leads to a node in use, the one it was made for.
HandlesFresh ==
    \A h \in Handles : handle[h].kind = "tmp" /\ ~handle[h].stale =>
        /\ handle[h].at \in TmpBlocks /\ node[handle[h].at].kind # "free"
        /\ node[handle[h].at].no = handle[h].no

TreeInv == TreeTyped /\ Linked /\ OneName /\ OneParent /\ HandlesFresh

\* The fields of a node, of a vnode and of the list of children.
LEMMA TreeFields ==
    ASSUME TreeTyped
    PROVE  /\ \A b \in AllBlocks : /\ node[b] \in NodeRec /\ children[b] \in Seq(TmpBlocks)
                                   /\ Len(children[b]) \in Nat
                                   /\ \A i \in 1 .. Len(children[b]) : children[b][i] \in TmpBlocks
           /\ \A h \in Handles : handle[h] \in HandleRec
           /\ LiveDirs \subseteq AllBlocks /\ TmpBlocks \subseteq AllBlocks /\ Root \in AllBlocks /\ Root \notin TmpBlocks
           /\ \A b \in AllBlocks : b \in LiveDirs <=> node[b].kind = "dir"
<1>1. \A b \in AllBlocks : node[b] \in NodeRec /\ children[b] \in Seq(TmpBlocks)
  BY DEF TreeTyped
<1>2. \A b \in AllBlocks : Len(children[b]) \in Nat /\ \A i \in 1 .. Len(children[b]) : children[b][i] \in TmpBlocks
  BY <1>1, ElementOfSeq, LenProperties
<1>3. \A h \in Handles : handle[h] \in HandleRec
  BY DEF TreeTyped
<1>4. \A b \in AllBlocks : b \in LiveDirs <=> node[b].kind = "dir"
  BY DEF LiveDirs, AllBlocks
<1>5. LiveDirs \subseteq AllBlocks /\ TmpBlocks \subseteq AllBlocks /\ Root \in AllBlocks /\ Root \notin TmpBlocks
  BY MemFsAssumption DEF LiveDirs, AllBlocks, Root
<1> QED BY <1>1, <1>2, <1>3, <1>4, <1>5

\* The empty tree.
LEMMA InitTree == MemFsInit => TreeInv
<1> SUFFICES ASSUME MemFsInit PROVE TreeInv
  OBVIOUS
<1>1. /\ \A b \in TmpBlocks : b # Root /\ node[b] = NoNode
      /\ node[Root] = [NoNode EXCEPT !.kind = "dir", !.name = "/"]
      /\ \A b \in AllBlocks : children[b] = <<>>
      /\ \A h \in Handles : handle[h] = NoHandle
  BY MemFsAssumption DEF MemFsInit, AllBlocks, Root
<1>2. NoNode \in NodeRec /\ [NoNode EXCEPT !.kind = "dir", !.name = "/"] \in NodeRec
  BY DEF NoNode, NodeRec, AllBlocks
<1>3. NoHandle \in HandleRec
  BY DEF NoHandle, HandleRec, AllBlocks, Root
<1>4. node \in [AllBlocks -> NodeRec]
  <2>1. \A b \in AllBlocks : (IF b = Root THEN [NoNode EXCEPT !.kind = "dir", !.name = "/"] ELSE NoNode) \in NodeRec
    BY <1>2
  <2> QED BY <2>1 DEF MemFsInit, AllBlocks
<1>5. children \in [AllBlocks -> Seq(TmpBlocks)]
  BY DEF MemFsInit, AllBlocks
<1>6. handle \in [Handles -> HandleRec]
  BY <1>3 DEF MemFsInit
<1>7. TreeTyped
  BY <1>1, <1>4, <1>5, <1>6 DEF TreeTyped, NoNode, MemFsInit
<1>8. \A b, d : d \in LiveDirs => ~IsChild(b, d)
  BY <1>1 DEF IsChild, LiveDirs, AllBlocks
<1>9. Linked
  <2>0. NoNode.kind = "free"
    BY DEF NoNode
  <2>1. \A b \in TmpBlocks : node[b].kind = "free"
    BY <1>1, <2>0
  <2> QED BY <2>1, <1>8 DEF Linked
<1>10. OneName /\ OneParent /\ HandlesFresh
  BY <1>1, <1>8 DEF OneName, OneParent, HandlesFresh, IsChild, NoHandle, LiveDirs, AllBlocks
<1> QED BY <1>7, <1>9, <1>10 DEF TreeInv

\* A vnode more or less leaves the tree.
LEMMA HandleStep ==
    ASSUME TreeInv, UNCHANGED <<node, children, serial_no>>, NEW h \in Handles, NEW v \in HandleRec,
           handle' = [handle EXCEPT ![h] = v],
           v.kind = "tmp" => /\ v.at \in TmpBlocks /\ node[v.at].kind # "free" /\ node[v.at].no = v.no
    PROVE  TreeInv'
<1>1. TreeTyped'
  BY DEF TreeInv, TreeTyped
<1>2. Linked' /\ OneName' /\ OneParent'
  BY DEF TreeInv, Linked, OneName, OneParent, IsChild, LiveDirs
<1>3. HandlesFresh'
  BY DEF TreeInv, TreeTyped, HandlesFresh
<1> QED BY <1>1, <1>2, <1>3 DEF TreeInv

\* Nothing changes.
LEMMA UnchangedTree == TreeInv /\ UNCHANGED <<node, children, handle, serial_no>> => TreeInv'
  BY DEF TreeInv, TreeTyped, Linked, OneName, OneParent, HandlesFresh, IsChild, LiveDirs

\* The first child of a name is a node in use.
LEMMA ChildFacts ==
    ASSUME TreeInv, NEW d \in LiveDirs, NEW n, Children(d, n) # {}
    PROVE  /\ Min(Children(d, n)) \in 1 .. Len(children[d])
           /\ children[d][Min(Children(d, n))] \in TmpBlocks
           /\ node[children[d][Min(Children(d, n))]].kind # "free"
<1>0. d \in AllBlocks
  BY TreeFields DEF TreeInv
<1>1. Children(d, n) \subseteq 1 .. Len(children[d]) /\ Len(children[d]) \in Nat
  BY <1>0, TreeFields DEF Children, TreeInv
<1>2. Children(d, n) \subseteq Nat
  BY <1>1
<1>3. Min(Children(d, n)) \in Children(d, n)
  BY <1>2, MinNat
<1>4. PICK i \in 1 .. Len(children[d]) : i = Min(Children(d, n))
  BY <1>1, <1>3
<1>5. children[d][i] \in TmpBlocks
  BY <1>0, TreeFields DEF TreeInv
<1>6. node[children[d][i]].kind # "free"
  BY <1>5 DEF TreeInv, Linked, IsChild
<1> QED BY <1>4, <1>5, <1>6

\* tmp_lookup.
LEMMA LookupStep ==
    ASSUME TreeInv, NEW h \in Handles, NEW d \in AllBlocks, NEW n, TmpLookup(h, d, n)
    PROVE  TreeInv'
<1>1. d \in LiveDirs /\ Children(d, n) # {}
  BY DEF TmpLookup
<1>2. PICK b \in TmpBlocks : b = children[d][Min(Children(d, n))] /\ node[b].kind # "free"
  BY <1>1, ChildFacts
<1>3. node[b] \in NodeRec /\ b \in AllBlocks
  BY TreeFields DEF TreeInv
<1>4. Vnode(b, node[b].no) \in HandleRec
  BY <1>3 DEF Vnode, HandleRec, NodeRec
<1>5. handle' = [handle EXCEPT ![h] = Vnode(b, node[b].no)] /\ UNCHANGED <<node, children, serial_no>>
  BY <1>2 DEF TmpLookup
<1>6. Vnode(b, node[b].no).at = b /\ Vnode(b, node[b].no).no = node[b].no
  BY DEF Vnode
<1> QED BY <1>2, <1>4, <1>5, <1>6, HandleStep

\* A vnode is given back.
LEMMA ReleaseStep ==
    ASSUME TreeInv, NEW h \in Handles, handle' = [handle EXCEPT ![h] = NoHandle],
           UNCHANGED <<node, children, serial_no>>
    PROVE  TreeInv'
<1>1. NoHandle \in HandleRec /\ NoHandle.kind = "none"
  BY DEF NoHandle, HandleRec, AllBlocks, Root
<1> QED BY <1>1, HandleStep

\* tmp_create and tmp_mkdir.
LEMMA TmpCreateStep ==
    ASSUME TreeInv, NEW h \in Handles, NEW d \in AllBlocks, NEW n \in Names, NEW kind \in {"file", "dir"},
           TmpCreate(h, d, n, kind)
    PROVE  TreeInv'
<1> DEFINE kids == children[d]
           new(b) == [kind |-> kind, name |-> n, parent |-> d, size |-> 0, no |-> serial_no + 1]
<1>t. TreeTyped /\ Linked /\ OneName /\ OneParent /\ HandlesFresh
  BY DEF TreeInv
<1>0. /\ d \in LiveDirs /\ Children(d, n) = {} /\ node[d].kind = "dir"
      /\ kids \in Seq(TmpBlocks) /\ Len(kids) \in Nat /\ serial_no + 1 \in Nat
  BY <1>t, TreeFields DEF TmpCreate, TreeTyped
<1>1. PICK b \in FreeBlocks : b = Min(FreeBlocks)
  <2>1. FreeBlocks # {} /\ FreeBlocks \subseteq Nat
    BY MemFsAssumption DEF FreeBlocks, TmpCreate
  <2> QED BY <2>1, MinNat
<1>2. b \in TmpBlocks /\ node[b].kind = "free" /\ b # d /\ b # Root /\ b \in AllBlocks
  BY <1>0, <1>1, <1>t, TreeFields DEF FreeBlocks
<1>3. /\ node' = [node EXCEPT ![b] = new(b)]
      /\ children' = [children EXCEPT ![d] = Append(kids, b), ![b] = <<>>]
      /\ handle' = [handle EXCEPT ![h] = Vnode(b, serial_no + 1)]
      /\ serial_no' = serial_no + 1
  BY <1>1 DEF TmpCreate
<1>4. new(b) \in NodeRec /\ Vnode(b, serial_no + 1) \in HandleRec
  BY <1>0, <1>2 DEF NodeRec, Vnode, HandleRec
<1>5. /\ Append(kids, b) \in Seq(TmpBlocks) /\ Len(Append(kids, b)) = Len(kids) + 1
      /\ \A i \in 1 .. Len(kids) : Append(kids, b)[i] = kids[i]
      /\ Append(kids, b)[Len(kids) + 1] = b
  BY <1>0, <1>2, AppendProperties
<1>6. TreeTyped'
  <2>1. node' \in [AllBlocks -> NodeRec] /\ node'[Root].kind = "dir"
    BY <1>t, <1>2, <1>3, <1>4, TreeFields DEF TreeTyped
  <2>2. children' \in [AllBlocks -> Seq(TmpBlocks)]
    <3>1. PICK q \in Seq(TmpBlocks) : q = Append(kids, b)
      BY <1>5
    <3>2. PICK z \in Seq(TmpBlocks) : z = <<>>
      <4>1. <<>> \in Seq(TmpBlocks)
        OBVIOUS
      <4> QED BY <4>1
    <3>3. children' = [children EXCEPT ![d] = q, ![b] = z]
      BY <3>1, <3>2, <1>3
    <3> QED BY <3>3, <1>t DEF TreeTyped
  <2>3. handle' \in [Handles -> HandleRec]
    BY <1>t, <1>3, <1>4 DEF TreeTyped
  <2> QED BY <2>1, <2>2, <2>3, <1>0, <1>3 DEF TreeTyped
<1>7. /\ \A x \in AllBlocks : x # b => node'[x] = node[x]
      /\ node'[b] = new(b) /\ node'[b].kind = kind /\ node'[b].name = n /\ node'[b].no = serial_no + 1
      /\ \A x \in AllBlocks : x # b /\ x # d => children'[x] = children[x]
      /\ children'[b] = <<>> /\ children'[d] = Append(kids, b)
  BY <1>t, <1>2, <1>3 DEF TreeTyped
<1>8. /\ \A x \in AllBlocks : x # b => (x \in LiveDirs' <=> x \in LiveDirs)
      /\ LiveDirs' \subseteq AllBlocks /\ b \notin LiveDirs
  BY <1>2, <1>6, <1>7, <1>t, TreeFields DEF LiveDirs, AllBlocks
<1>9. /\ \A x : ~IsChild(x, b)'
      /\ \A x : IsChild(x, d)' <=> IsChild(x, d) \/ x = b
      /\ \A x : \A e \in AllBlocks : e # b /\ e # d => (IsChild(x, e)' <=> IsChild(x, e))
  <2>1. \A x : ~IsChild(x, b)'
    BY <1>7 DEF IsChild
  <2>2. ASSUME NEW x PROVE IsChild(x, d)' <=> IsChild(x, d) \/ x = b
    <3>1. IsChild(x, d)' <=> \E i \in 1 .. Len(kids) + 1 : Append(kids, b)[i] = x
      BY <1>5, <1>7 DEF IsChild
    <3>2. (\E i \in 1 .. Len(kids) + 1 : Append(kids, b)[i] = x) <=> (\E i \in 1 .. Len(kids) : kids[i] = x) \/ x = b
      BY <1>0, <1>5
    <3> QED BY <3>1, <3>2 DEF IsChild
  <2>3. ASSUME NEW x, NEW e \in AllBlocks, e # b, e # d PROVE IsChild(x, e)' <=> IsChild(x, e)
    BY <2>3, <1>7 DEF IsChild
  <2> QED BY <2>1, <2>2, <2>3
<1>10. \A e \in LiveDirs : ~IsChild(b, e)
  BY <1>2, <1>t DEF Linked
<1>11. Linked'
  <2>1. ASSUME NEW x \in TmpBlocks, x # b
        PROVE  node'[x].kind # "free" <=> \E e \in LiveDirs' : IsChild(x, e)'
    <3>1. node'[x] = node[x]
      BY <2>1, <1>7, <1>t, TreeFields
    <3>2. (\E e \in LiveDirs' : IsChild(x, e)') <=> \E e \in LiveDirs : IsChild(x, e)
      BY <2>1, <1>0, <1>8, <1>9, <1>2, <1>t, TreeFields
    <3> QED BY <3>1, <3>2, <1>t DEF Linked
  <2>2. node'[b].kind # "free" /\ d \in LiveDirs' /\ IsChild(b, d)'
    BY <1>0, <1>2, <1>7, <1>8, <1>9
  <2> QED BY <2>1, <2>2 DEF Linked
<1>12. OneName'
  <2> SUFFICES ASSUME NEW e \in LiveDirs', NEW i \in 1 .. Len(children'[e]), NEW j \in 1 .. Len(children'[e]),
                      node'[children'[e][i]].name = node'[children'[e][j]].name
               PROVE  i = j
    BY DEF OneName
  <2>0. \A x \in 1 .. Len(kids) : kids[x] \in AllBlocks /\ kids[x] # b /\ node[kids[x]].name # n
    <3>1. ASSUME NEW x \in 1 .. Len(kids) PROVE kids[x] \in AllBlocks /\ kids[x] # b /\ node[kids[x]].name # n
      <4>1. kids[x] \in AllBlocks
        BY <1>0, <1>t, TreeFields
      <4>2. IsChild(kids[x], d)
        BY DEF IsChild
      <4> QED BY <4>1, <4>2, <1>0, <1>10 DEF Children
    <3> QED BY <3>1
  <2>1. CASE e = d
    <3>1. i \in 1 .. Len(kids) + 1 /\ j \in 1 .. Len(kids) + 1 /\ children'[e] = Append(kids, b)
      BY <2>1, <1>5, <1>7
    <3>2. \A x \in 1 .. Len(kids) : node'[Append(kids, b)[x]].name = node[kids[x]].name
      BY <2>0, <1>5, <1>7
    <3>3. node'[Append(kids, b)[Len(kids) + 1]].name = n
      BY <1>5, <1>7
    <3>4. CASE i \in 1 .. Len(kids) /\ j \in 1 .. Len(kids)
      <4>1. node[kids[i]].name = node[kids[j]].name
        BY <3>1, <3>2, <3>4
      <4> QED BY <4>1, <3>4, <1>0, <1>t DEF OneName
    <3>5. CASE i = Len(kids) + 1 /\ j \in 1 .. Len(kids)
      BY <3>5, <3>1, <3>2, <3>3, <2>0
    <3>6. CASE j = Len(kids) + 1 /\ i \in 1 .. Len(kids)
      BY <3>6, <3>1, <3>2, <3>3, <2>0
    <3>7. i = j \/ (i \in 1 .. Len(kids) /\ j \in 1 .. Len(kids)) \/ (i = Len(kids) + 1 /\ j \in 1 .. Len(kids))
          \/ (j = Len(kids) + 1 /\ i \in 1 .. Len(kids))
      BY <3>1, <1>0
    <3> QED BY <3>4, <3>5, <3>6, <3>7
  <2>2. CASE e = b
    BY <2>2, <1>7
  <2>3. CASE e # d /\ e # b
    <3>1. e \in LiveDirs /\ e \in AllBlocks /\ children'[e] = children[e]
      BY <2>3, <1>7, <1>8
    <3>2. \A x \in 1 .. Len(children[e]) : children[e][x] \in AllBlocks /\ children[e][x] # b
      BY <3>1, <1>10, <1>t, TreeFields DEF IsChild
    <3>3. node[children[e][i]].name = node[children[e][j]].name
      BY <3>1, <3>2, <1>7
    <3> QED BY <3>1, <3>3, <1>t DEF OneName
  <2> QED BY <2>1, <2>2, <2>3
<1>13. OneParent'
  <2> SUFFICES ASSUME NEW c \in LiveDirs', NEW e \in LiveDirs', NEW x \in TmpBlocks, IsChild(x, c)', IsChild(x, e)'
               PROVE  c = e
    BY DEF OneParent
  <2>1. c # b /\ e # b /\ c \in LiveDirs /\ e \in LiveDirs /\ c \in AllBlocks /\ e \in AllBlocks
    BY <1>8, <1>9
  <2>2. CASE x = b
    BY <2>1, <2>2, <1>9, <1>10
  <2>3. CASE x # b
    <3>1. IsChild(x, c) /\ IsChild(x, e)
      BY <2>1, <2>3, <1>9
    <3> QED BY <3>1, <2>1, <1>t DEF OneParent
  <2> QED BY <2>2, <2>3
<1>14. HandlesFresh'
  <2> SUFFICES ASSUME NEW g \in Handles, handle'[g].kind = "tmp", ~handle'[g].stale
               PROVE  /\ handle'[g].at \in TmpBlocks /\ node'[handle'[g].at].kind # "free"
                      /\ node'[handle'[g].at].no = handle'[g].no
    BY DEF HandlesFresh
  <2>1. CASE g = h
    <3>1. handle'[g] = Vnode(b, serial_no + 1)
      BY <2>1, <1>3, <1>t DEF TreeTyped
    <3> QED BY <3>1, <1>2, <1>7 DEF Vnode
  <2>2. CASE g # h
    <3>1. handle'[g] = handle[g]
      BY <2>2, <1>3, <1>t DEF TreeTyped
    <3>2. handle[g].at \in TmpBlocks /\ node[handle[g].at].kind # "free" /\ node[handle[g].at].no = handle[g].no
      BY <3>1, <1>t DEF HandlesFresh
    <3>3. handle[g].at # b /\ handle[g].at \in AllBlocks
      BY <3>2, <1>2, <1>t, TreeFields
    <3> QED BY <3>1, <3>2, <3>3, <1>7
  <2> QED BY <2>1, <2>2
<1> QED BY <1>6, <1>11, <1>12, <1>13, <1>14 DEF TreeInv

\* tmp_write, also through a stale vnode.
LEMMA WriteStep ==
    ASSUME TreeInv, NEW h \in Handles, NEW need \in Nat, TmpWrite(h, need)
    PROVE  TreeInv'
<1>t. TreeTyped /\ Linked /\ OneName /\ OneParent /\ HandlesFresh
  BY DEF TreeInv
<1>1. PICK a \in AllBlocks : a = handle[h].at
  BY <1>t, TreeFields DEF HandleRec
<1>2. PICK s \in Nat : s = Max({node[a].size, need})
  <2>1. PICK z \in Nat : z = node[a].size
    BY <1>t, TreeFields DEF NodeRec
  <2>2. \E m \in {z, need} : \A k \in {z, need} : m >= k
    BY <2>1
  <2>3. Max({z, need}) \in {z, need}
    BY <2>2 DEF Max
  <2> QED BY <2>1, <2>3
<1>3. node' = [node EXCEPT ![a].size = s] /\ children' = children /\ handle' = handle /\ serial_no' = serial_no
  BY <1>1, <1>2 DEF TmpWrite
<1>4. node' \in [AllBlocks -> NodeRec]
  <2>1. [node[a] EXCEPT !.size = s] \in NodeRec
    <3>1. PICK r \in NodeRec : r = node[a]
      BY <1>t, TreeFields
    <3>2. [r EXCEPT !.size = s] \in NodeRec
      BY DEF NodeRec
    <3> QED BY <3>1, <3>2
  <2> QED BY <2>1, <1>3, <1>t DEF TreeTyped
<1>5. \A x \in AllBlocks : node'[x].kind = node[x].kind /\ node'[x].name = node[x].name /\ node'[x].no = node[x].no
  BY <1>3, <1>t, TreeFields DEF TreeTyped, NodeRec
<1>6. TreeTyped'
  BY <1>3, <1>4, <1>5, <1>t, TreeFields DEF TreeTyped
<1>7. LiveDirs' = LiveDirs /\ LiveDirs \subseteq AllBlocks /\ TmpBlocks \subseteq AllBlocks
  BY <1>5, <1>t, TreeFields DEF LiveDirs, AllBlocks
<1>8. Linked' /\ OneParent'
  BY <1>3, <1>5, <1>7, <1>t DEF Linked, OneParent, IsChild
<1>9. OneName'
  <2>1. \A d \in LiveDirs : \A i \in 1 .. Len(children[d]) : children[d][i] \in AllBlocks
    BY <1>t, TreeFields
  <2> QED BY <2>1, <1>3, <1>5, <1>7, <1>t DEF OneName
<1>10. HandlesFresh'
  BY <1>3, <1>5, <1>7, <1>t DEF HandlesFresh
<1> QED BY <1>6, <1>8, <1>9, <1>10 DEF TreeInv

\* tmp_unlink: the node leaves its one directory, and what still leads to it
\* is stale.
LEMMA UnlinkStep ==
    ASSUME TreeInv, NEW d \in AllBlocks, NEW n \in Names, TmpUnlink(d, n)
    PROVE  TreeInv'
<1> DEFINE kids == children[d]
<1>t. TreeTyped /\ Linked /\ OneName /\ OneParent /\ HandlesFresh
  BY DEF TreeInv
<1>0. /\ d \in LiveDirs /\ Children(d, n) # {} /\ node[d].kind = "dir"
      /\ kids \in Seq(TmpBlocks) /\ Len(kids) \in Nat
  BY <1>t, TreeFields DEF TmpUnlink
<1>1. PICK i \in 1 .. Len(kids) : i = Min(Children(d, n))
  BY <1>0, ChildFacts
<1>2. PICK b \in TmpBlocks : b = kids[i] /\ node[b].kind # "free"
  BY <1>0, <1>1, ChildFacts
<1>3. /\ ~(node[b].kind = "dir" /\ children[b] # <<>>)
      /\ node' = [node EXCEPT ![b] = NoNode]
      /\ children' = [children EXCEPT ![d] = RemoveAt(kids, i), ![b] = <<>>]
      /\ handle' = [h \in Handles |->
                       IF handle[h].kind = "tmp" /\ handle[h].at = b
                       THEN [handle[h] EXCEPT !.stale = TRUE] ELSE handle[h]]
      /\ serial_no' = serial_no
  BY <1>1, <1>2 DEF TmpUnlink, WithoutChild
<1>4. b # d /\ b # Root /\ b \in AllBlocks /\ IsChild(b, d)
  <2>1. kids # <<>>
    BY <1>0, <1>1
  <2> QED BY <2>1, <1>0, <1>2, <1>3, <1>t, TreeFields DEF IsChild
<1>5. /\ RemoveAt(kids, i) \in Seq(TmpBlocks) /\ Len(RemoveAt(kids, i)) = Len(kids) - 1
      /\ \A k \in 1 .. Len(kids) - 1 : RemoveAt(kids, i)[k] = kids[IF k < i THEN k ELSE k + 1]
  BY <1>0, RemoveAtLemma
<1>6. NoNode \in NodeRec /\ NoNode.kind = "free"
  BY DEF NoNode, NodeRec, AllBlocks
<1>7. TreeTyped'
  <2>1. node' \in [AllBlocks -> NodeRec] /\ node'[Root].kind = "dir"
    BY <1>t, <1>3, <1>4, <1>6, TreeFields DEF TreeTyped
  <2>2. children' \in [AllBlocks -> Seq(TmpBlocks)]
    <3>1. PICK q \in Seq(TmpBlocks) : q = RemoveAt(kids, i)
      BY <1>5
    <3>2. PICK z \in Seq(TmpBlocks) : z = <<>>
      <4>1. <<>> \in Seq(TmpBlocks)
        OBVIOUS
      <4> QED BY <4>1
    <3>3. children' = [children EXCEPT ![d] = q, ![b] = z]
      BY <3>1, <3>2, <1>3
    <3> QED BY <3>3, <1>t DEF TreeTyped
  <2>3. handle' \in [Handles -> HandleRec]
    <3>1. \A r \in HandleRec : [r EXCEPT !.stale = TRUE] \in HandleRec
      BY DEF HandleRec
    <3>2. \A h \in Handles : handle[h] \in HandleRec
      BY <1>t, TreeFields
    <3> QED BY <3>1, <3>2, <1>3
  <2> QED BY <2>1, <2>2, <2>3, <1>3, <1>t DEF TreeTyped
<1>8. /\ \A x \in AllBlocks : x # b => node'[x] = node[x]
      /\ node'[b].kind = "free"
      /\ \A x \in AllBlocks : x # b /\ x # d => children'[x] = children[x]
      /\ children'[d] = RemoveAt(kids, i)
  BY <1>t, <1>3, <1>4, <1>6 DEF TreeTyped
<1>9. /\ \A x \in AllBlocks : x \in LiveDirs' <=> x \in LiveDirs /\ x # b
      /\ LiveDirs' \subseteq AllBlocks /\ LiveDirs \subseteq AllBlocks
  <2>1. \A x \in AllBlocks : (x \in LiveDirs' <=> node'[x].kind = "dir") /\ (x \in LiveDirs <=> node[x].kind = "dir")
    BY DEF LiveDirs, AllBlocks
  <2> QED BY <2>1, <1>8 DEF LiveDirs, AllBlocks
<1>10. \A k \in 1 .. Len(kids) : kids[k] = b => k = i
  BY <1>0, <1>2, <1>t DEF OneName
<1>11. /\ \A x : IsChild(x, d)' <=> IsChild(x, d) /\ x # b
       /\ \A x : \A e \in AllBlocks : e # b /\ e # d => (IsChild(x, e)' <=> IsChild(x, e))
       /\ b \in LiveDirs => \A x : ~IsChild(x, b)
  <2>1. ASSUME NEW x PROVE IsChild(x, d)' <=> IsChild(x, d) /\ x # b
    <3>1. IsChild(x, d)' <=> \E k \in 1 .. Len(kids) - 1 : RemoveAt(kids, i)[k] = x
      BY <1>5, <1>8 DEF IsChild
    <3>2. ASSUME NEW k \in 1 .. Len(kids) - 1, RemoveAt(kids, i)[k] = x PROVE IsChild(x, d) /\ x # b
      <4>1. PICK m \in 1 .. Len(kids) : m = (IF k < i THEN k ELSE k + 1) /\ m # i
        BY <1>0, <1>1
      <4>2. kids[m] = x
        BY <3>2, <4>1, <1>5
      <4> QED BY <4>1, <4>2, <1>10 DEF IsChild
    <3>3. ASSUME NEW m \in 1 .. Len(kids), kids[m] = x, x # b PROVE \E k \in 1 .. Len(kids) - 1 : RemoveAt(kids, i)[k] = x
      <4>1. m # i
        BY <3>3, <1>2
      <4>2. PICK k \in 1 .. Len(kids) - 1 : k = IF m < i THEN m ELSE m - 1
        BY <4>1, <1>0, <1>1
      <4>3. (IF k < i THEN k ELSE k + 1) = m
        BY <4>1, <4>2, <1>0, <1>1
      <4> QED BY <4>2, <4>3, <3>3, <1>5
    <3> QED BY <3>1, <3>2, <3>3 DEF IsChild
  <2>2. ASSUME NEW x, NEW e \in AllBlocks, e # b, e # d PROVE IsChild(x, e)' <=> IsChild(x, e)
    BY <2>2, <1>8 DEF IsChild
  <2>3. ASSUME b \in LiveDirs, NEW x PROVE ~IsChild(x, b)
    <3>1. children[b] = <<>>
      BY <2>3, <1>3 DEF LiveDirs
    <3> QED BY <3>1 DEF IsChild
  <2> QED BY <2>1, <2>2, <2>3
<1>12. \A x : \A e \in LiveDirs' : IsChild(x, e)' => e \in LiveDirs /\ IsChild(x, e) /\ x # b
  <2> SUFFICES ASSUME NEW x, NEW e \in LiveDirs', IsChild(x, e)' PROVE e \in LiveDirs /\ IsChild(x, e) /\ x # b
    OBVIOUS
  <2>1. e \in LiveDirs /\ e # b /\ e \in AllBlocks
    BY <1>9
  <2>2. CASE e = d
    BY <2>1, <2>2, <1>11
  <2>3. CASE e # d
    <3>1. IsChild(x, e)
      BY <2>1, <2>3, <1>11
    <3>2. x # b
      BY <3>1, <2>1, <2>3, <1>0, <1>2, <1>4, <1>t DEF OneParent
    <3> QED BY <2>1, <3>1, <3>2
  <2> QED BY <2>2, <2>3
<1>13. Linked'
  <2>1. ASSUME NEW x \in TmpBlocks, x # b
        PROVE  node'[x].kind # "free" <=> \E e \in LiveDirs' : IsChild(x, e)'
    <3>1. node'[x] = node[x]
      BY <2>1, <1>8, <1>t, TreeFields
    <3>2. ASSUME NEW e \in LiveDirs, IsChild(x, e) PROVE e \in LiveDirs' /\ IsChild(x, e)'
      <4>1. e # b /\ e \in AllBlocks
        BY <3>2, <1>9, <1>11
      <4> QED BY <3>2, <4>1, <2>1, <1>9, <1>11
    <3>3. (\E e \in LiveDirs' : IsChild(x, e)') <=> \E e \in LiveDirs : IsChild(x, e)
      BY <3>2, <1>12
    <3> QED BY <3>1, <3>3, <1>t DEF Linked
  <2>2. node'[b].kind = "free" /\ ~\E e \in LiveDirs' : IsChild(b, e)'
    BY <1>8, <1>12
  <2> QED BY <2>1, <2>2 DEF Linked
<1>14. OneName'
  <2> SUFFICES ASSUME NEW e \in LiveDirs', NEW k \in 1 .. Len(children'[e]), NEW j \in 1 .. Len(children'[e]),
                      node'[children'[e][k]].name = node'[children'[e][j]].name
               PROVE  k = j
    BY DEF OneName
  <2>0. e \in LiveDirs /\ e # b /\ e \in AllBlocks
    BY <1>9
  <2>1. \A m \in 1 .. Len(children'[e]) : children'[e][m] # b /\ children'[e][m] \in AllBlocks
    <3>1. ASSUME NEW m \in 1 .. Len(children'[e]) PROVE children'[e][m] # b /\ children'[e][m] \in AllBlocks
      <4>0. PICK c : c = children'[e][m]
        OBVIOUS
      <4>1. IsChild(c, e)'
        BY <4>0 DEF IsChild
      <4>2. c # b /\ IsChild(c, e)
        BY <4>1, <1>12
      <4>3. \A y \in 1 .. Len(children[e]) : children[e][y] \in AllBlocks
        BY <2>0, <1>t, TreeFields
      <4> QED BY <4>0, <4>2, <4>3 DEF IsChild
    <3> QED BY <3>1
  <2>2. node[children'[e][k]].name = node[children'[e][j]].name
    BY <2>1, <1>8
  <2>3. CASE e # d
    <3>1. children'[e] = children[e]
      BY <2>0, <2>3, <1>8
    <3> QED BY <3>1, <2>0, <2>2, <1>t DEF OneName
  <2>4. CASE e = d
    <3>0. k \in 1 .. Len(kids) - 1 /\ j \in 1 .. Len(kids) - 1 /\ children'[e] = RemoveAt(kids, i)
      BY <2>4, <1>5, <1>8
    <3>1. PICK x \in 1 .. Len(kids) : x = IF k < i THEN k ELSE k + 1
      BY <3>0, <1>0
    <3>2. PICK y \in 1 .. Len(kids) : y = IF j < i THEN j ELSE j + 1
      BY <3>0, <1>0
    <3>3. children'[e][k] = kids[x] /\ children'[e][j] = kids[y]
      BY <3>0, <3>1, <3>2, <1>5
    <3>4. x = y
      BY <3>3, <2>2, <1>0, <1>t DEF OneName
    <3> QED BY <3>0, <3>1, <3>2, <3>4, <1>0, <1>1
  <2> QED BY <2>3, <2>4
<1>15. OneParent'
  BY <1>12, <1>t DEF OneParent
<1>16. HandlesFresh'
  <2> SUFFICES ASSUME NEW g \in Handles, handle'[g].kind = "tmp", ~handle'[g].stale
               PROVE  /\ handle'[g].at \in TmpBlocks /\ node'[handle'[g].at].kind # "free"
                      /\ node'[handle'[g].at].no = handle'[g].no
    BY DEF HandlesFresh
  <2>0. handle[g] \in HandleRec
    BY <1>t, TreeFields
  <2>1. handle'[g] = IF handle[g].kind = "tmp" /\ handle[g].at = b
                     THEN [handle[g] EXCEPT !.stale = TRUE] ELSE handle[g]
    BY <1>3
  <2>2. [handle[g] EXCEPT !.stale = TRUE].stale = TRUE
    BY <2>0 DEF HandleRec
  <2>3. handle'[g] = handle[g] /\ handle[g].at # b
    BY <2>1, <2>2
  <2>4. handle[g].at \in TmpBlocks /\ node[handle[g].at].kind # "free" /\ node[handle[g].at].no = handle[g].no
    BY <2>3, <1>t DEF HandlesFresh
  <2>5. handle[g].at \in AllBlocks
    BY <2>4, <1>t, TreeFields
  <2> QED BY <2>3, <2>4, <2>5, <1>8
<1> QED BY <1>7, <1>13, <1>14, <1>15, <1>16 DEF TreeInv

\* Vnodes whose kind does not change, or becomes none of the devices.
LEMMA RefsKept ==
    ASSUME DeviceRefs, dev_ref' = dev_ref,
           \A h \in Handles : \A d \in CharDevs : handle'[h].kind = d <=> handle[h].kind = d
    PROVE  DeviceRefs'
<1>1. \A d \in CharDevs : Users(d)' = Users(d)
  BY DEF Users
<1> QED BY <1>1 DEF DeviceRefs

\* dev_lookup and chardev_vfs_release.
LEMMA DevStep ==
    ASSUME TreeInv, DeviceRefs, dev_ref \in [CharDevs -> Nat], NEW h \in Handles,
           (\E d \in CharDevs : DevLookup(h, d)) \/ DevRelease(h)
    PROVE  TreeInv' /\ DeviceRefs' /\ dev_ref' \in [CharDevs -> Nat]
<1>t. handle \in [Handles -> HandleRec]
  BY DEF TreeInv, TreeTyped
<1>f. \A d : IsFiniteSet(Users(d)) /\ Cardinality(Users(d)) \in Nat
  <2>1. \A d : Users(d) \in SUBSET Handles
    BY DEF Users
  <2> QED BY <2>1, MemFsAssumption, FS_Subset, FS_CardinalityType
<1>1. ASSUME NEW d \in CharDevs, DevLookup(h, d)
      PROVE  TreeInv' /\ DeviceRefs' /\ dev_ref' \in [CharDevs -> Nat]
  <2>1. CASE UNCHANGED <<handle, dev_ref>>
    BY <1>1, <2>1, RefsKept, UnchangedTree DEF DevLookup
  <2>2. CASE handle' = [handle EXCEPT ![h] = [NoHandle EXCEPT !.kind = d]] /\ dev_ref' = [dev_ref EXCEPT ![d] = @ + 1]
    <3>1. [NoHandle EXCEPT !.kind = d] \in HandleRec /\ [NoHandle EXCEPT !.kind = d].kind = d /\ d # "tmp" /\ d # "none"
      BY MemFsAssumption DEF NoHandle, HandleRec, AllBlocks, Root
    <3>2. TreeInv'
      BY <1>1, <2>2, <3>1, HandleStep DEF DevLookup
    <3>3. /\ handle'[h].kind = d /\ handle[h].kind = "none"
          /\ \A g \in Handles : g # h => handle'[g] = handle[g]
      BY <1>1, <2>2, <3>1, <1>t DEF DevLookup, FreeHandles
    <3>4. \A c \in CharDevs : c # d => Users(c)' = Users(c) /\ dev_ref'[c] = dev_ref[c]
      BY <2>2, <3>3, MemFsAssumption DEF Users
    <3>5. Users(d)' = Users(d) \cup {h} /\ h \notin Users(d)
      BY <3>1, <3>3 DEF Users
    <3>6. Cardinality(Users(d)') = Cardinality(Users(d)) + 1
      BY <3>5, <1>f, FS_AddElement
    <3>7. dev_ref'[d] = dev_ref[d] + 1 /\ dev_ref' \in [CharDevs -> Nat]
      BY <2>2
    <3>8. DeviceRefs'
      BY <3>4, <3>6, <3>7, <1>f DEF DeviceRefs
    <3> QED BY <3>2, <3>7, <3>8
  <2> QED BY <1>1, <2>1, <2>2 DEF DevLookup
<1>2. ASSUME DevRelease(h) PROVE TreeInv' /\ DeviceRefs' /\ dev_ref' \in [CharDevs -> Nat]
  <2>1. PICK d \in CharDevs : d = handle[h].kind
    BY <1>2 DEF DevRelease
  <2>2. /\ dev_ref' = [dev_ref EXCEPT ![d] = IF @ > 0 THEN @ - 1 ELSE @]
        /\ handle' = [handle EXCEPT ![h] = NoHandle] /\ UNCHANGED <<node, children, serial_no>>
    BY <1>2, <2>1 DEF DevRelease
  <2>3. TreeInv'
    BY <2>2, ReleaseStep
  <2>4. handle'[h].kind = "none" /\ \A g \in Handles : g # h => handle'[g] = handle[g]
    BY <2>2, <1>t DEF NoHandle
  <2>5. \A c \in CharDevs : c # d => Users(c)' = Users(c) /\ dev_ref'[c] = dev_ref[c]
    BY <2>1, <2>2, <2>4, MemFsAssumption DEF Users
  <2>6. Users(d)' = Users(d) \ {h} /\ h \in Users(d)
    BY <2>1, <2>4, MemFsAssumption DEF Users
  <2>7. Cardinality(Users(d)') = Cardinality(Users(d)) - 1
    BY <2>6, <1>f, FS_RemoveElement
  <2>8. dev_ref[d] = 1 + Cardinality(Users(d)) /\ dev_ref[d] > 0
    BY <1>f DEF DeviceRefs
  <2>9. dev_ref'[d] = dev_ref[d] - 1 /\ dev_ref' \in [CharDevs -> Nat]
    BY <2>2, <2>8
  <2>10. DeviceRefs'
    BY <2>5, <2>7, <2>8, <2>9, <1>f DEF DeviceRefs
  <2> QED BY <2>3, <2>9, <2>10
<1> QED BY <1>1, <1>2

\* The random pool.
PoolOK(e) == e \in [index : 0 .. EntropyPool, estimate : 0 .. EntropyPool]

\* The smaller of two.
LEMMA MinOfTwo == ASSUME NEW a \in Nat, NEW b \in Nat PROVE Min({a, b}) = IF a <= b THEN a ELSE b
<1>1. Min({a, b}) \in {a, b} /\ \A k \in {a, b} : Min({a, b}) <= k
  BY MinNat
<1> QED BY <1>1

\* One turn of a read copies what was asked for or what is left, and leaves
\* the index inside the pool.
LEMMA PoolRead ==
    ASSUME NEW e, PoolOK(e), NEW n \in 0 .. EntropyPool, NEW blocking \in BOOLEAN
    PROVE  /\ ReadPool(e, n, blocking).got \in 0 .. n
           /\ PoolOK(ReadPool(e, n, blocking).state)
<1>0. EntropyPool \in Nat \ {0} /\ PoolOK(Refilled)
  BY MemFsAssumption DEF PoolOK, Refilled
<1>1. PICK st : /\ st = IF e.index >= EntropyPool THEN Refilled ELSE e
                /\ st.index \in 0 .. EntropyPool - 1 /\ st.estimate \in 0 .. EntropyPool
  <2>1. Refilled.index \in 0 .. EntropyPool - 1 /\ Refilled.estimate \in 0 .. EntropyPool
    BY <1>0 DEF Refilled
  <2>2. e.index \in 0 .. EntropyPool /\ e.estimate \in 0 .. EntropyPool
    BY DEF PoolOK
  <2>3. CASE e.index >= EntropyPool
    BY <2>1, <2>3
  <2>4. CASE ~(e.index >= EntropyPool)
    <3>1. e.index \in 0 .. EntropyPool - 1
      BY <2>2, <2>4, <1>0
    <3> QED BY <2>2, <2>4, <3>1
  <2> QED BY <2>3, <2>4
<1>2. PICK k \in 0 .. n : k = Min({n, EntropyPool - st.index}) /\ st.index + k \in 0 .. EntropyPool
  <2>0. PICK i \in 0 .. EntropyPool - 1 : i = st.index
    BY <1>1
  <2>1. EntropyPool - i \in Nat
    BY <1>0
  <2>2. Min({n, EntropyPool - i}) = IF n <= EntropyPool - i THEN n ELSE EntropyPool - i
    BY <2>1, MinOfTwo
  <2>3. Min({n, EntropyPool - i}) \in 0 .. n /\ i + Min({n, EntropyPool - i}) \in 0 .. EntropyPool
    BY <2>2, <1>0
  <2> QED BY <2>0, <2>3
<1>3. PICK x \in 0 .. EntropyPool : x = IF st.estimate > k THEN st.estimate - k ELSE 0
  BY <1>0, <1>1, <1>2
<1>4. PICK r : r = [index |-> st.index + k, estimate |-> x]
  OBVIOUS
<1>5. PoolOK(r)
  BY <1>2, <1>4 DEF PoolOK
<1>6. ReadPool(e, n, blocking) = [got |-> k, state |-> IF blocking /\ r.estimate = 0 THEN Refilled ELSE r]
  BY <1>1, <1>2, <1>3, <1>4, Zenon DEF ReadPool
<1>7. PICK z : z = IF blocking /\ r.estimate = 0 THEN Refilled ELSE r
  OBVIOUS
<1>8. PoolOK(z)
  BY <1>0, <1>5, <1>7
<1> QED BY <1>6, <1>7, <1>8

\* Reading and writing keep the pool.
LEMMA RandomStep ==
    ASSUME PoolOK(entropy), NEW h, NEW n \in 1 .. EntropyPool, RandomRead(h, n) \/ RandomWrite(h, n)
    PROVE  PoolOK(entropy)'
<1>0. EntropyPool \in Nat \ {0} /\ n \in 0 .. EntropyPool
  BY MemFsAssumption
<1>1. CASE RandomRead(h, n)
  <2> DEFINE bl == handle[h].kind = "random"
             one == ReadPool(entropy, n, bl)
             two == ReadPool(one.state, n - one.got, bl)
  <2>1. bl \in BOOLEAN /\ one.got \in 0 .. n /\ PoolOK(one.state)
    BY <1>0, PoolRead
  <2>2. n - one.got \in 0 .. EntropyPool
    BY <2>1, <1>0
  <2>3. PoolOK(two.state)
    BY <2>1, <2>2, PoolRead
  <2>4. entropy' \in {one.state, two.state}
    BY <1>1 DEF RandomRead
  <2> HIDE DEF one, two
  <2> QED BY <2>1, <2>3, <2>4
<1>2. CASE RandomWrite(h, n)
  <2>1. PICK s \in 0 .. EntropyPool : s = Min({entropy.estimate + n, EntropyPool})
    <3>1. entropy.estimate + n \in Nat
      BY <1>0 DEF PoolOK
    <3> QED BY <3>1, <1>0, MinOfTwo
  <2> QED BY <1>2, <2>1 DEF RandomWrite, PoolOK
<1> QED BY <1>1, <1>2

MemFsInv == TreeInv /\ DeviceRefs /\ dev_ref \in [CharDevs -> Nat] /\ PoolOK(entropy)

\* Mount and boot.
LEMMA InitMemFs == MemFsInit => MemFsInv
<1> SUFFICES ASSUME MemFsInit PROVE MemFsInv
  OBVIOUS
<1>1. \A h \in Handles : handle[h].kind = "none"
  BY DEF MemFsInit, NoHandle
<1>2. \A d \in CharDevs : Users(d) = {}
  BY <1>1, MemFsAssumption DEF Users
<1>3. DeviceRefs /\ dev_ref \in [CharDevs -> Nat]
  <2>1. dev_ref = [d \in CharDevs |-> 1]
    BY DEF MemFsInit, DevInit
  <2>2. \A d \in CharDevs : Cardinality(Users(d)) = 0
    BY <1>2, FS_EmptySet
  <2>3. \A d \in CharDevs : dev_ref[d] = 1 + Cardinality(Users(d))
    BY <2>1, <2>2
  <2> QED BY <2>1, <2>3 DEF DeviceRefs
<1>4. PoolOK(entropy)
  BY MemFsAssumption DEF MemFsInit, DevInit, PoolOK, Refilled
<1> QED BY <1>3, <1>4, InitTree DEF MemFsInv

\* Every step.
LEMMA MemFsStep == MemFsInv /\ [MemFsNext]_MemFsVars => MemFsInv'
<1> SUFFICES ASSUME MemFsInv, [MemFsNext]_MemFsVars PROVE MemFsInv'
  OBVIOUS
<1>t. TreeInv /\ DeviceRefs /\ dev_ref \in [CharDevs -> Nat] /\ PoolOK(entropy) /\ handle \in [Handles -> HandleRec]
  BY DEF MemFsInv, TreeInv, TreeTyped
<1>k. \A d \in CharDevs : d # "tmp" /\ d # "none"
  BY MemFsAssumption
<1>1. ASSUME NEW h \in Handles, NEW d \in AllBlocks, NEW n \in Names,
             TmpLookup(h, d, n) \/ TmpCreate(h, d, n, "file") \/ TmpCreate(h, d, n, "dir")
      PROVE  MemFsInv'
  <2>1. TreeInv'
    BY <1>1, <1>t, LookupStep, TmpCreateStep
  <2>2. dev_ref' = dev_ref /\ entropy' = entropy
    BY <1>1 DEF TmpLookup, TmpCreate, DevVars
  <2>3. PICK b, z : handle' = [handle EXCEPT ![h] = Vnode(b, z)]
    BY <1>1 DEF TmpLookup, TmpCreate
  <2>4. Vnode(b, z).kind = "tmp" /\ handle[h].kind = "none"
    BY <1>1 DEF TmpLookup, TmpCreate, FreeHandles, Vnode
  <2>5. \A g \in Handles : \A c \in CharDevs : handle'[g].kind = c <=> handle[g].kind = c
    BY <2>3, <2>4, <1>t, <1>k
  <2>6. DeviceRefs'
    BY <2>2, <2>5, <1>t, RefsKept
  <2> QED BY <2>1, <2>2, <2>6, <1>t DEF MemFsInv
<1>2. ASSUME NEW h \in Handles, NEW need \in 1 .. MaxSize, TmpWrite(h, need) PROVE MemFsInv'
  <2>1. TreeInv'
    BY <1>2, <1>t, WriteStep, MemFsAssumption
  <2>2. dev_ref' = dev_ref /\ entropy' = entropy /\ handle' = handle
    BY <1>2 DEF TmpWrite, DevVars
  <2> QED BY <2>1, <2>2, <1>t, RefsKept DEF MemFsInv
<1>3. ASSUME NEW d \in AllBlocks, NEW n \in Names, TmpUnlink(d, n) PROVE MemFsInv'
  <2>1. TreeInv'
    BY <1>3, <1>t, UnlinkStep
  <2>2. dev_ref' = dev_ref /\ entropy' = entropy
    BY <1>3 DEF TmpUnlink, DevVars
  <2>3. PICK b : handle' = [h \in Handles |-> IF handle[h].kind = "tmp" /\ handle[h].at = b
                                            THEN [handle[h] EXCEPT !.stale = TRUE] ELSE handle[h]]
    BY <1>3 DEF TmpUnlink
  <2>4. \A g \in Handles : handle'[g].kind = handle[g].kind
    <3>1. \A g \in Handles : [handle[g] EXCEPT !.stale = TRUE].kind = handle[g].kind
      BY <1>t DEF HandleRec
    <3> QED BY <2>3, <3>1
  <2>5. DeviceRefs'
    BY <2>2, <2>4, <1>t, RefsKept
  <2> QED BY <2>1, <2>2, <2>5, <1>t DEF MemFsInv
<1>4. ASSUME NEW h \in Handles, TmpRelease(h) PROVE MemFsInv'
  <2>1. /\ handle[h].kind = "tmp" /\ handle' = [handle EXCEPT ![h] = NoHandle]
        /\ UNCHANGED <<node, children, serial_no>> /\ dev_ref' = dev_ref /\ entropy' = entropy
    BY <1>4 DEF TmpRelease, DevVars
  <2>2. \A g \in Handles : \A c \in CharDevs : handle'[g].kind = c <=> handle[g].kind = c
    BY <2>1, <1>t, <1>k DEF NoHandle
  <2>3. TreeInv' /\ DeviceRefs'
    BY <2>1, <2>2, <1>t, ReleaseStep, RefsKept
  <2> QED BY <2>1, <2>3, <1>t DEF MemFsInv
<1>w. ASSUME NEW h \in Handles, TmpWriteFreed(h) PROVE MemFsInv'
  <2>1. UNCHANGED <<node, children, handle, serial_no>> /\ dev_ref' = dev_ref /\ entropy' = entropy
    BY <1>w DEF TmpWriteFreed, DevVars
  <2>2. TreeInv' /\ DeviceRefs'
    BY <2>1, <1>t, UnchangedTree, RefsKept
  <2> QED BY <2>1, <2>2, <1>t DEF MemFsInv
<1>5. ASSUME NEW h \in Handles, (\E d \in CharDevs : DevLookup(h, d)) \/ DevRelease(h) PROVE MemFsInv'
  <2>1. entropy' = entropy
    BY <1>5 DEF DevLookup, DevRelease
  <2> QED BY <2>1, <1>5, <1>t, DevStep DEF MemFsInv
<1>6. ASSUME NEW h \in Handles, NEW n \in 1 .. EntropyPool, RandomRead(h, n) \/ RandomWrite(h, n) PROVE MemFsInv'
  <2>1. UNCHANGED TreeVars /\ dev_ref' = dev_ref
    BY <1>6 DEF RandomRead, RandomWrite
  <2>2. TreeInv' /\ DeviceRefs'
    BY <2>1, <1>t, UnchangedTree, RefsKept DEF TreeVars
  <2> QED BY <2>1, <2>2, <1>6, <1>t, RandomStep DEF MemFsInv
<1>7. CASE UNCHANGED MemFsVars
  <2>1. UNCHANGED TreeVars /\ dev_ref' = dev_ref /\ entropy' = entropy
    BY <1>7 DEF MemFsVars, DevVars
  <2>2. TreeInv' /\ DeviceRefs'
    BY <2>1, <1>t, UnchangedTree, RefsKept DEF TreeVars
  <2> QED BY <2>1, <2>2, <1>t DEF MemFsInv
<1> QED BY <1>1, <1>2, <1>3, <1>4, <1>w, <1>5, <1>6, <1>7 DEF MemFsNext, TreeNext, DevNext, AllBlocks

\* What the run checks follows.
LEMMA MemFsImplies == MemFsInv => MemFsSound /\ MemFsTypeOK
<1> SUFFICES ASSUME MemFsInv PROVE MemFsSound /\ MemFsTypeOK
  OBVIOUS
<1>t. TreeTyped /\ Linked /\ OneName /\ OneParent /\ HandlesFresh
  BY DEF MemFsInv, TreeInv
<1>1. \A c, d \in LiveDirs : c # d => Range(children[c]) \cap Range(children[d]) = {}
  <2> SUFFICES ASSUME NEW c \in LiveDirs, NEW d \in LiveDirs, c # d, NEW x \in Range(children[c]), x \in Range(children[d])
               PROVE  FALSE
    OBVIOUS
  <2>1. c \in AllBlocks /\ d \in AllBlocks
    BY <1>t, TreeFields
  <2>2. DOMAIN children[c] = 1 .. Len(children[c]) /\ DOMAIN children[d] = 1 .. Len(children[d])
    BY <2>1, <1>t, TreeFields, LenProperties
  <2>3. IsChild(x, c) /\ IsChild(x, d)
    BY <2>2 DEF IsChild, Range
  <2>4. x \in TmpBlocks
    BY <2>1, <2>3, <1>t, TreeFields DEF IsChild
  <2> QED BY <2>3, <2>4, <1>t DEF OneParent
<1>2. TmpTree
  BY <1>1, <1>t DEF TmpTree, Linked, OneName, HandlesFresh, IsChild
<1>3. MemFsTypeOK
  <2>1. \A b \in TmpBlocks : node[b] \in NodeRec
    BY <1>t, TreeFields
  <2> QED BY <2>1 DEF MemFsTypeOK, MemFsInv, PoolOK, NodeRec
<1> QED BY <1>2, <1>3 DEF MemFsSound, MemFsInv

\* As long as nobody wrote through a vnode whose node was freed, the tmpfs
\* tree names every node in use once and no freed one, a directory
\* has no name twice, a vnode leads to its own file unless that was unlinked,
\* and a device counts its vnodes (tmp_create, tmp_unlink, dev_lookup,
\* chardev_vfs_release), for any blocks, names, vnodes and devices.
THEOREM MemFsCorrect == MemFsSpec => []MemFsSound
  BY InitMemFs, MemFsStep, MemFsImplies, PTL DEF MemFsSpec

\* Nodes keep their kinds, and the index and the estimate of the random pool
\* stay inside the pool (random_read_internal).
THEOREM MemFsTypeCorrect == MemFsSpec => []MemFsTypeOK
  BY InitMemFs, MemFsStep, MemFsImplies, PTL DEF MemFsSpec

-----------------------------------------------------------------------------
(* The services together, as the run of MCKernel composes them.             *)

\* The composed system is a system of each of its components, so all
\* that is proved of a component holds in it.  A step belongs to one service
\* and leaves the variables of the others alone; ACPI's steps are also steps
\* of the page tables it maps its windows with.
LEMMA KernelComposes ==
    Spec => HeapSpec /\ AcpiSpec /\ ExecSpec /\ SyscallsSpec /\ IpcSpec /\ MemFsSpec
  <1> DEFINE MapNext == AcpiNext \/ (PagingNext /\ UNCHANGED AcpiVars)
             MapVars == <<PagingVars, AcpiVars>>
  <1>1. Init => /\ HeapInit /\ PagingInit /\ AcpiInit /\ ExecInit
                /\ SyscallsInit /\ IpcInit /\ MemFsInit
    BY DEF Init
  <1>2. ASSUME [Next]_vars
        PROVE  /\ [HeapNext]_HeapVars /\ [MapNext]_MapVars /\ [ExecNext]_ExecVars
               /\ [SyscallsNext]_SyscallVars /\ [IpcNext]_IpcVars /\ [MemFsNext]_MemFsVars
    <2>1. CASE UNCHANGED vars
      BY <2>1 DEF vars
    <2>2. CASE Next
      BY <2>2 DEF Next, Others, SyscallsNext, IpcNext, MemFsNext
    <2> QED BY <1>2, <2>1, <2>2
  <1> QED BY <1>1, <1>2, PTL
          DEF Spec, HeapSpec, AcpiSpec, ExecSpec, SyscallsSpec, IpcSpec, MemFsSpec

\* Theorem: every service keeps its tables, indices and counters within their
\* types and limits.
THEOREM KernelTypeCorrect == Spec => []TypeOK
  <1>1. HeapTypeOK /\ PagingTypeOK /\ AcpiTypeOK /\ ExecTypeOK /\ SyscallsTypeOK /\ IpcTypeOK /\ MemFsTypeOK
           => TypeOK
    BY DEF TypeOK
  <1> QED BY <1>1, KernelComposes, HeapTypeCorrect, MappingTypeCorrect, ExecTypeCorrect,
             SyscallsTypeCorrect, IpcTypeCorrect, MemFsTypeCorrect, PTL
=============================================================================
