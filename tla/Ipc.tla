-------------------------------- MODULE Ipc ---------------------------------
(***************************************************************************)
(* Message passing (kernel/ipc.c) on top of the scheduler and the          *)
(* semaphores, for the ARM kernel: a system call runs undisturbed from its *)
(* entry, or from the return of scheduler_switch, to the next              *)
(* scheduler_switch or to its end, so each such segment is one action.     *)
(*                                                                         *)
(* A message is named by the thread that sent it.  A server answers it     *)
(* with data of the same name, or none, and with a status that says whom   *)
(* it means to answer and whether data comes with it: enough to see where  *)
(* a message or a reply ends up.  What user programs may be relied on to   *)
(* do is given by Rules, see Obeys.                                        *)
(***************************************************************************)
EXTENDS SemOps, SequencesExt

CONSTANTS
  Processes,
  ProcOf,     \* thread->process
  Servers,    \* the processes that offer a service; the others are clients
  BootOrder,  \* the threads in the order the kernel created them
  Channels,   \* addresses for channel objects
  Connects,   \* addresses for connect objects
  Garbage,    \* what uninitialized memory reads as
  Wild,       \* a pointer read outside of a vector
  Ids,        \* identifiers that user programs pass to the kernel
  Rules       \* the rules that user programs obey

ASSUME IpcAssumption ==
  /\ ProcOf \in [Threads -> Processes]
  /\ Servers \subseteq Processes
  /\ BootOrder \in Seq(Threads) /\ ToSet(BootOrder) = Threads /\ IsInjective(BootOrder)
  /\ Garbage \notin Threads \cup {NULL}
  /\ {NULL, Wild} \cap (Channels \cup Connects) = {}
  /\ Ids \subseteq Nat
  /\ Rules \subseteq {"own_connect", "one_channel", "valid_ids", "quiet_free",
                      "data_first", "reply_first", "server_stays"}

INSTANCE VectorOps

VARIABLES
  sch,      \* the scheduler and the thread control blocks, see SchedOps
  proc,     \* process: its vectors fds and chans, and chan
  chan,     \* channel objects
  conn,     \* connect objects
  pc,       \* where each thread continues when it is dispatched
  loc,      \* the local variables of a thread inside ipc_send or ipc_receive
  pending,  \* messages a process has received and not answered
  fault     \* the kernel followed a null, dangling or wild pointer

vars == <<sch, proc, chan, conn, pc, loc, pending, fault>>

Message == Threads \cup {NULL, Garbage}
Status == [to : Message, data : BOOLEAN]
NoStatus == [to |-> NULL, data |-> FALSE]
NoLocals == [conn |-> NULL, chan |-> NULL]

\* struct channel, with its buffer and size as one message.
IsChannel(ch) ==
  /\ ch.live \in BOOLEAN /\ ch.msg \in Message /\ ch.recvid \in Nat
  /\ ch.send \in SemState /\ ch.recv \in SemState
  /\ IsVector(ch.reply, Connects)

\* struct connect, likewise.
Connect == [live : BOOLEAN, owner : Pointer, chan : Channels \cup {NULL},
            msg : Message, status : Status]

TypeOK ==
  /\ sch \in Sched
  /\ \A p \in Processes : /\ proc[p].chan \in Channels \cup {NULL}
                           /\ IsVector(proc[p].chans, Channels)
                           /\ IsVector(proc[p].fds, Connects)
  /\ \A c \in Channels : IsChannel(chan[c])
  /\ conn \in [Connects -> Connect]
  /\ pc \in [Threads -> {"user", "send_wait", "send_reply", "recv_wait"}]
  /\ loc \in [Threads -> [conn : Connects \cup {NULL}, chan : Channels \cup {NULL}]]
  /\ \A p \in Processes : \A m \in pending[p] : m \in [recvid : Nat, msg : Message]
  /\ fault \in BOOLEAN

\* What scheduler_enqueue_thread makes of the threads the kernel created: a run
\* queue in the order of their creation.
BootedSched ==
  LET last == Len(BootOrder)
      Place(t) == CHOOSE i \in 1..last : BootOrder[i] = t
  IN  [head |-> IF last = 0 THEN NULL ELSE BootOrder[1],
       tail |-> IF last = 0 THEN NULL ELSE BootOrder[last],
       next |-> [t \in Threads |-> IF Place(t) = last THEN NULL ELSE BootOrder[Place(t) + 1]],
       state |-> [t \in Threads |-> "READY"],
       current |-> NULL]

\* The processes exist and nobody listens yet.
Init ==
  /\ sch = BootedSched
  /\ proc = [p \in Processes |->
               [chan |-> NULL, chans |-> vector_init(0), fds |-> vector_init(8)]]
  /\ chan = [c \in Channels |->
               [live |-> FALSE, reply |-> vector_init(0), recvid |-> 0, msg |-> NULL,
                send |-> semaphore_init(0), recv |-> semaphore_init(0)]]
  /\ conn = [k \in Connects |->
               [live |-> FALSE, owner |-> NULL, chan |-> NULL, msg |-> NULL,
                status |-> NoStatus]]
  /\ pc = [t \in Threads |-> "user"]
  /\ loc = [t \in Threads |-> NoLocals]
  /\ pending = [p \in Processes |-> {}]
  /\ fault = FALSE

-----------------------------------------------------------------------------
(* What user programs do *)

\* A condition that programs meet if they obey the rule.
Obeys(rule, cond) == rule \in Rules => cond

\* Threads in the middle of a send through k, or of any call on c.
Using(k) == {t \in Threads : pc[t] # "user" /\ loc[t].conn = k}
Inside(c) == {t \in Threads : pc[t] # "user" /\ loc[t].chan = c}

\* t is on the CPU and about to continue at label l.
At(t, l) == ~fault /\ sch.current = t /\ pc[t] = l

\* The call ends in undefined behaviour; the model stops here.
Fault == fault' = TRUE /\ UNCHANGED <<sch, proc, chan, conn, pc, loc, pending>>

-----------------------------------------------------------------------------

ipc_listen(t, c) ==
  LET p == ProcOf[t] IN
  /\ At(t, "user")
  /\ ~chan[c].live
  /\ Obeys("one_channel", proc[p].chan = NULL)
  /\ chan' = [chan EXCEPT ![c] =
       [live |-> TRUE, reply |-> vector_init(4), recvid |-> 0, msg |-> NULL,
        send |-> semaphore_init(1), recv |-> semaphore_init(0)]]
  /\ proc' = [proc EXCEPT ![p].chan = c, ![p].chans = vector_add(@, c)]
  /\ UNCHANGED <<sch, conn, pc, loc, pending, fault>>

\* proc->chan keeps pointing to the closed channel.
ipc_close(t, id) ==
  LET p == ProcOf[t]
      c == vector_get(proc[p].chans, id)
  IN
  /\ At(t, "user")
  /\ Obeys("valid_ids", c \in Channels)
  /\ Obeys("quiet_free", \A k \in Connects : ~(conn[k].live /\ conn[k].chan = c))
  /\ Obeys("quiet_free", Inside(c) = {} /\ pending[p] = {})
  /\ IF c \in Channels
     THEN /\ chan' = [chan EXCEPT ![c].live = FALSE, ![c].reply = vector_free(@)]
          /\ proc' = [proc EXCEPT ![p].chans = vector_set(@, id, NULL, NULL)]
          /\ UNCHANGED <<sch, conn, pc, loc, pending, fault>>
     ELSE Fault

\* The channel that is looked up is not the one that is connected to.  conn->size
\* is not set: the new object holds whatever its memory held.
ipc_connect(t, p, id, k, old) ==
  LET c == vector_get(proc[p].chans, id) IN
  /\ At(t, "user")
  /\ ~conn[k].live
  /\ c # NULL
  /\ Obeys("valid_ids", c \in Channels)
  /\ conn' = [conn EXCEPT ![k] =
       [live |-> TRUE, owner |-> NULL, chan |-> proc[p].chan, msg |-> old,
        status |-> NoStatus]]
  /\ proc' = [proc EXCEPT ![ProcOf[t]].fds = vector_add(@, k)]
  /\ UNCHANGED <<sch, chan, pc, loc, pending, fault>>

\* Faulty variant: the identifier stays in the table.
disconnect_keeps_id(t, id) ==
  LET k == vector_get(proc[ProcOf[t]].fds, id) IN
  /\ At(t, "user")
  /\ k \in Connects
  /\ Using(k) = {}
  /\ conn' = [conn EXCEPT ![k].live = FALSE]
  /\ UNCHANGED <<sch, proc, chan, pc, loc, pending, fault>>

ipc_disconnect(t, id) ==
  LET p == ProcOf[t]
      k == vector_get(proc[p].fds, id)
  IN
  /\ At(t, "user")
  /\ k # NULL
  /\ Obeys("valid_ids", k \in Connects)
  /\ Obeys("quiet_free", Using(k) = {})
  /\ IF k \in Connects
     THEN /\ conn' = [conn EXCEPT ![k].live = FALSE]
          /\ proc' = [proc EXCEPT ![p].fds = vector_set(@, id, NULL, NULL)]
          /\ UNCHANGED <<sch, chan, pc, loc, pending, fault>>
     ELSE Fault

-----------------------------------------------------------------------------
(* ipc_send *)

\* Faulty variant: recvid keeps the identifier of an earlier message.
deposit_keeps_id(s, ch, t, k) ==
  [ch EXCEPT !.msg = t,
             !.reply = vector_add(ch.reply, k),
             !.recv = SignalSem(s, ch.recv)]

\* The channel ch after a sender that holds the slot has left its message:
\* read_message, vector_add to the reply table, semaphore_signal.
Deposit(s, ch, t, k) ==
  [ch EXCEPT !.msg = t,
             !.recvid = AddIndex(ch.reply),
             !.reply = vector_add(ch.reply, k),
             !.recv = SignalSem(s, ch.recv)]

\* Faulty variant: the receiver's thread is not woken.
deposit_without_signal(s, ch, t) == scheduler_schedule(thread_block(s, t, "REPLY"))

\* Signal the receiver, then wait for the reply.
DepositSched(s, ch, t) ==
  scheduler_schedule(thread_block(SignalSched(s, ch.recv), t, "REPLY"))

\* From the system call to the first switch: either the slot is free and the
\* message goes into it, or the thread queues for the slot.
ipc_send(t, id) ==
  LET k == vector_get(proc[ProcOf[t]].fds, id)
      c == conn[k].chan
      ch == [chan[c] EXCEPT !.send = WaitSem(sch, chan[c].send)]
  IN
  /\ At(t, "user")
  /\ Obeys("valid_ids", k \in Connects)
  /\ Obeys("own_connect", Using(k) = {})
  /\ IF k \in Connects /\ c \in Channels /\ chan[c].live
     THEN /\ conn' = [conn EXCEPT ![k].owner = t]
          /\ loc' = [loc EXCEPT ![t] = [conn |-> k, chan |-> c]]
          /\ IF HasToken(chan[c].send)
             THEN /\ chan' = [chan EXCEPT ![c] = Deposit(sch, ch, t, k)]
                  /\ sch' = DepositSched(sch, ch, t)
                  /\ pc' = [pc EXCEPT ![t] = "send_reply"]
             ELSE /\ chan' = [chan EXCEPT ![c] = ch]
                  /\ sch' = WaitSched(sch, chan[c].send)
                  /\ pc' = [pc EXCEPT ![t] = "send_wait"]
          /\ UNCHANGED <<proc, pending, fault>>
     ELSE Fault

\* semaphore_wait(&chan->send_sem) returns after a switch.
SendResume(t) ==
  LET k == loc[t].conn
      c == loc[t].chan
  IN
  /\ At(t, "send_wait")
  /\ IF chan[c].live /\ conn[k].live
     THEN /\ chan' = [chan EXCEPT ![c] = Deposit(sch, chan[c], t, k)]
          /\ sch' = DepositSched(sch, chan[c], t)
          /\ pc' = [pc EXCEPT ![t] = "send_reply"]
          /\ UNCHANGED <<proc, conn, loc, pending, fault>>
     ELSE Fault

\* Faulty variant: write_message leaves conn->size as it is.
return_keeps_size(t) ==
  /\ At(t, "send_reply")
  /\ pc' = [pc EXCEPT ![t] = "user"]
  /\ loc' = [loc EXCEPT ![t] = NoLocals]
  /\ UNCHANGED <<sch, proc, chan, conn, pending, fault>>

\* The reply has come: copy it out and free it if there is one, and return its
\* status.  A size that was never set makes the kernel copy from and free a
\* pointer that was never set either.
SendReturn(t) ==
  LET k == loc[t].conn IN
  /\ At(t, "send_reply")
  /\ IF conn[k].live /\ conn[k].msg # Garbage
     THEN /\ conn' = [conn EXCEPT ![k].msg = NULL]
          /\ pc' = [pc EXCEPT ![t] = "user"]
          /\ loc' = [loc EXCEPT ![t] = NoLocals]
          /\ UNCHANGED <<sch, proc, chan, pending, fault>>
     ELSE Fault

-----------------------------------------------------------------------------
(* ipc_receive *)

\* Faulty variant: the slot is not passed on.
collect_keeps_slot(s, t, c, ch) ==
  /\ chan' = [chan EXCEPT ![c] = [ch EXCEPT !.msg = NULL]]
  /\ sch' = s
  /\ pending' = [pending EXCEPT ![ProcOf[t]] =
                   @ \cup {[recvid |-> ch.recvid, msg |-> ch.msg]}]
  /\ pc' = [pc EXCEPT ![t] = "user"]
  /\ loc' = [loc EXCEPT ![t] = NoLocals]

\* write_message empties the slot, semaphore_signal passes it to a sender; the
\* server notes the message it got and the id it has to answer to.
Collect(s, t, c, ch) ==
  /\ chan' = [chan EXCEPT ![c] = [ch EXCEPT !.msg = NULL, !.send = SignalSem(s, ch.send)]]
  /\ sch' = SignalSched(s, ch.send)
  /\ pending' = [pending EXCEPT ![ProcOf[t]] =
                   @ \cup {[recvid |-> ch.recvid, msg |-> ch.msg]}]
  /\ pc' = [pc EXCEPT ![t] = "user"]
  /\ loc' = [loc EXCEPT ![t] = NoLocals]

ipc_receive(t, id) ==
  LET p == ProcOf[t]
      c == vector_get(proc[p].chans, id)
      ch == [chan[c] EXCEPT !.recv = WaitSem(sch, chan[c].recv)]
  IN
  /\ At(t, "user")
  /\ c # NULL
  /\ Obeys("valid_ids", c \in Channels)
  /\ Obeys("reply_first", pending[p] = {})
  /\ IF c \in Channels
     THEN /\ IF HasToken(chan[c].recv)
             THEN Collect(sch, t, c, ch)
             ELSE /\ chan' = [chan EXCEPT ![c] = ch]
                  /\ sch' = WaitSched(sch, chan[c].recv)
                  /\ pc' = [pc EXCEPT ![t] = "recv_wait"]
                  /\ loc' = [loc EXCEPT ![t] = [conn |-> NULL, chan |-> c]]
                  /\ UNCHANGED pending
          /\ UNCHANGED <<proc, conn, fault>>
     ELSE Fault

\* semaphore_wait(&chan->recv_sem) returns after a switch.
ReceiveResume(t) ==
  LET c == loc[t].chan IN
  /\ At(t, "recv_wait")
  /\ IF chan[c].live
     THEN /\ Collect(sch, t, c, chan[c])
          /\ UNCHANGED <<proc, conn, fault>>
     ELSE Fault

-----------------------------------------------------------------------------

\* Faulty variant: the entry stays in the reply table.
reply_keeps_entry(t, id, data) ==
  LET p == ProcOf[t]
      k == vector_get(chan[proc[p].chan].reply, id)
      answered == {m \in pending[p] : m.recvid = id}
  IN
  /\ At(t, "user")
  /\ answered # {}
  /\ k \in Connects
  /\ conn' = [conn EXCEPT ![k].status = [to |-> (CHOOSE x \in answered : TRUE).msg,
                                         data |-> data]]
  /\ sch' = thread_unblock(sch, conn[k].owner)
  /\ pending' = [pending EXCEPT ![p] = @ \ answered]
  /\ UNCHANGED <<proc, chan, pc, loc, fault>>

\* A server answers the message it received under id, with data or with a
\* status alone.  The reply table is that of the process's last channel.
ipc_reply(t, id, data) ==
  LET p == ProcOf[t]
      c == proc[p].chan
      k == vector_get(chan[c].reply, id)
      answered == {m \in pending[p] : m.recvid = id}
      m == IF answered = {} THEN NULL ELSE (CHOOSE x \in answered : TRUE).msg
  IN
  /\ At(t, "user")
  /\ Obeys("valid_ids", answered # {})
  /\ Obeys("data_first", data \/ (k \in Connects => conn[k].msg # Garbage))
  /\ IF c # NULL /\ chan[c].live /\ k \in Connects /\ conn[k].live /\ conn[k].owner # NULL
     THEN /\ chan' = [chan EXCEPT ![c].reply = vector_set(@, id, NULL, NULL)]
          /\ conn' = [conn EXCEPT ![k].status = [to |-> m, data |-> data],
                               ![k].msg = IF data THEN m ELSE @]
          /\ sch' = thread_unblock(sch, conn[k].owner)
          /\ pending' = [pending EXCEPT ![p] = @ \ answered]
          /\ UNCHANGED <<proc, pc, loc, fault>>
     ELSE Fault

-----------------------------------------------------------------------------

\* The user or the idle thread runs.  swi_handler and irq_handler are entered with
\* IRQs masked, and only the return to the interrupted frame unmasks them.
IrqsEnabled == \A t \in Threads : sch.current = t => pc[t] = "user"

timer_tick ==
  /\ ~fault
  /\ IrqsEnabled
  /\ sch' = scheduler_schedule(sch)
  /\ UNCHANGED <<proc, chan, conn, pc, loc, pending, fault>>

\* process_exit: the calling thread ends; the kernel keeps its channels,
\* connects and unanswered messages as they are.
process_exit(t) ==
  /\ At(t, "user")
  /\ Obeys("server_stays", ProcOf[t] \notin Servers)
  /\ sch' = scheduler_schedule(thread_block(sch, t, "DEAD"))
  /\ UNCHANGED <<proc, chan, conn, pc, loc, pending, fault>>

Resume(t) == SendResume(t) \/ SendReturn(t) \/ ReceiveResume(t)

ServerThreads == {t \in Threads : ProcOf[t] \in Servers}
ClientThreads == Threads \ ServerThreads

Serve(t) ==
  \/ \E id \in Ids : ipc_receive(t, id)
  \/ \E id \in Ids, data \in BOOLEAN : ipc_reply(t, id, data)

Next ==
  \/ timer_tick
  \/ \E t \in Threads : Resume(t)
  \/ \E t \in Threads : process_exit(t)
  \/ \E t \in ServerThreads : Serve(t)
  \/ \E t \in ServerThreads, c \in Channels : ipc_listen(t, c)
  \/ \E t \in ServerThreads, id \in Ids : ipc_close(t, id)
  \/ \E t \in ClientThreads, p \in Servers, id \in Ids, k \in Connects,
        old \in {NULL, Garbage} : ipc_connect(t, p, id, k, old)
  \/ \E t \in ClientThreads, id \in Ids : ipc_disconnect(t, id)
  \/ \E t \in ClientThreads, id \in Ids : ipc_send(t, id)

\* Timer interrupts keep coming and a dispatched thread finishes its system
\* call; a server that gets the CPU again and again serves.
Fairness ==
  /\ WF_vars(timer_tick)
  /\ \A t \in Threads : WF_vars(Resume(t))
  /\ \A t \in ServerThreads : SF_vars(Serve(t))

Spec == Init /\ [][Next]_vars /\ Fairness

-----------------------------------------------------------------------------

Live == {c \in Channels : chan[c].live}

\* Threads that were taken off a semaphore's queue of channel c and did not run
\* since.
WokenAt(c, l) == {t \in Inside(c) : pc[t] = l /\ sch.state[t] = "READY"}

\* The run queue and the semaphore queues of all channels end and share no
\* thread, although they are linked through the same field.
ListsDisjoint ==
  LET heads == {sch.head} \cup {chan[c].send.queue : c \in Live}
                 \cup {chan[c].recv.queue : c \in Live}
  IN  /\ \A h \in heads : Ends(sch.next, h)
      /\ \A g, h \in heads \ {NULL} : g # h => Chain(sch.next, g) \cap Chain(sch.next, h) = {}
      /\ \A h \in heads : sch.current \notin Chain(sch.next, h)

\* The right to the message slot of a channel exists once: as the count of
\* send_sem, in the hands of a sender that was just woken, as the count of
\* recv_sem, or in the hands of a receiver that was just woken.  The slot holds
\* a message in the last two cases only, so no message is overwritten or
\* received twice; and whoever waits for it waits in one list.
SlotHandedAround ==
  /\ ListsDisjoint
  /\ \A c \in Live :
       LET empty == chan[c].send.count + Cardinality(WokenAt(c, "send_wait"))
           full  == chan[c].recv.count + Cardinality(WokenAt(c, "recv_wait"))
       IN  /\ empty + full = 1
           /\ chan[c].msg # NULL <=> full = 1

\* The senders whose message is on its way or with the server are exactly the
\* owners of the connects in the reply table, each of them once and blocked:
\* no sender is forgotten and no reply goes to a thread that awaits none.
ReplyTableExact ==
  /\ TypeOK
  /\ \A c \in Live :
       LET entries == {i \in DOMAIN chan[c].reply.content : chan[c].reply.content[i] # NULL}
           OwnerOf(i) == conn[chan[c].reply.content[i]].owner
       IN  /\ \A i, j \in entries : OwnerOf(i) = OwnerOf(j) => i = j
           /\ {OwnerOf(i) : i \in entries} = {t \in Inside(c) : sch.state[t] = "REPLY"}

\* Every message of a blocked sender is either in the slot or known to the
\* server, under the id that leads back to that sender.
MessageLeadsBack ==
  \A c \in Live : \A t \in Inside(c) :
    sch.state[t] = "REPLY" =>
      \E i \in DOMAIN chan[c].reply.content :
        /\ chan[c].reply.content[i] = loc[t].conn
        /\ \/ chan[c].msg = t /\ chan[c].recvid = i
           \/ \E p \in Servers : [recvid |-> i, msg |-> t] \in pending[p]

\* A send returns with the status that was meant for it and the data that came
\* with it, if any: never with the answer to somebody else, nor with data left
\* over from an earlier reply.
SenderGetsOwnReply ==
  [][\A t \in Threads : pc[t] = "send_reply" /\ pc'[t] = "user" =>
       LET k == loc[t].conn IN
       /\ conn[k].status.to = t
       /\ conn[k].msg = IF conn[k].status.data THEN t ELSE NULL]_vars

\* semaphore_wait: "Blocks if the counter is zero."  A thread that queued for
\* the slot goes on only with the token handed to it by a signal; before, it is
\* still linked in the queue of send_sem and may not be READY.
NoWaitWithoutToken ==
  \A c \in Live : \A t \in Chain(sch.next, chan[c].send.queue) :
    pc[t] = "send_wait" => sch.state[t] = "SEMA"

\* Programs that obey the rules never make the kernel follow a bad pointer.
NoFault == ~fault

\* Every send is answered, whatever the order in which senders and receivers
\* find the slot, if the server keeps serving.
SendCompletes == \A t \in ClientThreads : pc[t] # "user" ~> pc[t] = "user"
=============================================================================
