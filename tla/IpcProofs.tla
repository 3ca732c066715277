----------------------------- MODULE IpcProofs ------------------------------
(***************************************************************************)
(* Proofs about message passing on the ARM kernel, for any number of       *)
(* threads, processes, channels and connects and any identifiers, as long  *)
(* as user programs obey the rules in Polite.                              *)
(***************************************************************************)
EXTENDS Ipc, ThreadListProofs

-----------------------------------------------------------------------------
(* Lists of threads.  A semaphore queue is named by its channel and by the   *)
(* label at which the threads in it continue.                                *)

Waits == {"send_wait", "recv_wait"}
Queues == Channels \X Waits

\* p starts a list of exactly the threads in S.
IsList(next, p, S) ==
  \E w \in Seq(Threads) : Linked(next, p, w) /\ \A t \in Threads : InQueue(t, w) <=> t \in S

\* The run queue of s holds exactly the threads that may run and do not.
RunQueueHolds(s) ==
  \E r \in Seq(Threads) :
    /\ IsRunQueue(s, r)
    /\ \A t \in Threads : InQueue(t, r) <=> s.state[t] = "READY" /\ t # s.current

\* heads[x] starts the list of the threads in members[x], which are blocked and in
\* no other list.
ListsHold(s, heads, members) ==
  /\ s \in Sched
  /\ RunQueueHolds(s)
  /\ \A x \in Queues : IsList(s.next, heads[x], members[x])
  /\ \A x \in Queues : \A t \in members[x] : t \in Threads /\ s.state[t] = "SEMA"
  /\ \A x, y \in Queues : \A t \in members[x] : t \in members[y] => x = y

-----------------------------------------------------------------------------
(* The inductive invariant *)

\* Vectors of pointers to members of S.
Vector(S) == [count : Int, content : UNION {[0..(n - 1) -> S \cup {NULL}] : n \in Nat}]

Channel == [live : BOOLEAN, reply : Vector(Connects), recvid : Nat, msg : Message,
            send : SemState, recv : SemState]

Process == [chan : Channels \cup {NULL}, chans : Vector(Channels), fds : Vector(Connects)]

Types ==
  /\ sch \in Sched
  /\ proc \in [Processes -> Process]
  /\ chan \in [Channels -> Channel]
  /\ conn \in [Connects -> Connect]
  /\ pc \in [Threads -> {"user", "send_wait", "send_reply", "recv_wait"}]
  /\ loc \in [Threads -> [conn : Connects \cup {NULL}, chan : Channels \cup {NULL}]]
  /\ pending \in [Processes -> SUBSET [recvid : Nat, msg : Message]]
  /\ fault = FALSE

SemOf(c, l) == IF l = "send_wait" THEN chan[c].send ELSE chan[c].recv

Heads == [x \in Queues |-> SemOf(x[1], x[2]).queue]
Members == [x \in Queues |->
              {t \in Threads : pc[t] = x[2] /\ loc[t].chan = x[1] /\ sch.state[t] = "SEMA"}]

\* The queue of each semaphore holds the threads that are blocked on it.
Lists ==
  /\ ListsHold(sch, Heads, Members)
  /\ sch.current # NULL => sch.state[sch.current] = "READY"

\* The indices in use.
Entries(v) == {i \in DOMAIN v.content : v.content[i] # NULL}

\* c is a channel that p listens on.
Owns(p, c) == \E i \in Entries(proc[p].chans) : proc[p].chans.content[i] = c

Sending == {"send_wait", "send_reply"}

\* A thread outside of the kernel has no part in a message; a sender is the owner
\* of a connect to the channel it uses, a receiver listens on its own.
Callers ==
  \A t \in Threads :
    /\ pc[t] = "user" => loc[t] = NoLocals /\ sch.state[t] \in {"READY", "DEAD"}
    /\ pc[t] \in Waits => sch.state[t] \in {"READY", "SEMA"}
    /\ pc[t] = "send_reply" => sch.state[t] \in {"READY", "REPLY"}
    /\ pc[t] \in Sending =>
         /\ loc[t].conn \in Connects /\ loc[t].chan \in Channels
         /\ conn[loc[t].conn].live
         /\ conn[loc[t].conn].owner = t
         /\ conn[loc[t].conn].chan = loc[t].chan
    /\ pc[t] = "recv_wait" =>
         loc[t].conn = NULL /\ loc[t].chan \in Channels /\ Owns(ProcOf[t], loc[t].chan)

\* Only a server listens, on one channel at most, which exists and is nobody
\* else's.
OwnChannels ==
  \A p \in Processes : \A i \in Entries(proc[p].chans) :
    LET c == proc[p].chans.content[i] IN
    /\ p \in Servers /\ proc[p].chan = c /\ chan[c].live
    /\ \A j \in Entries(proc[p].chans) : i = j
    /\ \A q \in Processes : Owns(q, c) => p = q

\* An identifier leads to a connect that exists and that no other one leads to,
\* and a connect to a channel that exists.
OwnConnects ==
  /\ \A p, q \in Processes :
       \A i \in Entries(proc[p].fds) : \A j \in Entries(proc[q].fds) :
         proc[p].fds.content[i] = proc[q].fds.content[j] => p = q /\ i = j
  /\ \A p \in Processes : \A i \in Entries(proc[p].fds) : conn[proc[p].fds.content[i]].live
  /\ \A k \in Connects : conn[k].live => conn[k].chan \in Channels /\ chan[conn[k].chan].live

\* Where the right to a message slot is: the counts of the two semaphores, the
\* woken senders, the woken receivers and the content of the slot.
SlotHeld(empty, senders, full, receivers, msg) ==
  \/ empty = 1 /\ senders = {} /\ full = 0 /\ receivers = {} /\ msg = NULL
  \/ empty = 0 /\ (\E t \in Threads : senders = {t}) /\ full = 0 /\ receivers = {} /\ msg = NULL
  \/ empty = 0 /\ senders = {} /\ full = 1 /\ receivers = {} /\ msg # NULL
  \/ empty = 0 /\ senders = {} /\ full = 0 /\ (\E t \in Threads : receivers = {t}) /\ msg # NULL

Slots ==
  \A c \in Live : SlotHeld(chan[c].send.count, WokenAt(c, "send_wait"),
                           chan[c].recv.count, WokenAt(c, "recv_wait"), chan[c].msg)

\* The connect in entry i of the reply table of c, and the thread that awaits the
\* reply.
ConnAt(c, i) == chan[c].reply.content[i]
Awaiting(c, i) == conn[ConnAt(c, i)].owner

\* The reply table of c leads to senders that wait, to each once.
RepliesAt(c) ==
  /\ \A i \in Entries(chan[c].reply) :
       LET t == Awaiting(c, i) IN
       /\ t \in Threads /\ pc[t] = "send_reply" /\ sch.state[t] = "REPLY"
       /\ loc[t].conn = ConnAt(c, i) /\ loc[t].chan = c
  /\ \A i, j \in Entries(chan[c].reply) : ConnAt(c, i) = ConnAt(c, j) => i = j
  /\ \A t \in Threads : loc[t].chan = c /\ sch.state[t] = "REPLY" =>
       \E i \in Entries(chan[c].reply) : ConnAt(c, i) = loc[t].conn

Replies == \A c \in Live : RepliesAt(c)

\* The slot of c holds the message that its receiver is to answer under i.
InSlot(c, i) == chan[c].msg # NULL /\ chan[c].recvid = i

\* A message is in the slot or with the server, under the identifier that leads
\* back to its sender.
MessagesAt(c) ==
  /\ chan[c].msg # NULL =>
       /\ chan[c].recvid \in Entries(chan[c].reply)
       /\ chan[c].msg = Awaiting(c, chan[c].recvid)
  /\ \A i \in Entries(chan[c].reply) :
       InSlot(c, i) \/ \E p \in Processes : /\ Owns(p, c)
                                            /\ [recvid |-> i, msg |-> Awaiting(c, i)] \in pending[p]

\* What a server has received and not answered is in the reply table of its
\* channel.
PendingOf(p) ==
  \A m \in pending[p] :
    LET c == proc[p].chan IN
    /\ Owns(p, c)
    /\ m.recvid \in Entries(chan[c].reply)
    /\ m.msg = Awaiting(c, m.recvid)
    /\ ~InSlot(c, m.recvid)

Messages ==
  /\ \A c \in Live : MessagesAt(c)
  /\ \A p \in Processes : PendingOf(p)

\* A connect holds the data of a reply only while its owner is about to return
\* with it.
Answers ==
  /\ \A t \in Threads : pc[t] = "send_reply" /\ sch.state[t] = "READY" =>
       LET k == conn[loc[t].conn] IN
       k.status.to = t /\ k.msg = IF k.status.data THEN t ELSE NULL
  /\ \A k \in Connects : conn[k].live =>
       \/ conn[k].msg \in {NULL, Garbage}
       \/ \E t \in Threads : pc[t] = "send_reply" /\ sch.state[t] = "READY" /\ loc[t].conn = k

IInv ==
  /\ Types
  /\ Lists
  /\ Callers
  /\ OwnChannels
  /\ OwnConnects
  /\ Slots
  /\ Replies
  /\ Messages
  /\ Answers

\* The rules that the proofs rely on.
Polite == {"own_connect", "one_channel", "valid_ids", "quiet_free", "data_first"} \subseteq Rules

-----------------------------------------------------------------------------
(* What the operations of the scheduler and the semaphores do to the lists *)

\* A list does not notice changes of link fields of threads outside of it.
LEMMA ListFrame ==
  ASSUME NEW next, NEW next2, NEW p, NEW S, IsList(next, p, S),
         \A t \in Threads : t \in S => next2[t] = next[t]
  PROVE  IsList(next2, p, S)
<1>1. PICK w \in Seq(Threads) : Linked(next, p, w) /\ \A t \in Threads : InQueue(t, w) <=> t \in S
  BY DEF IsList
<1>2. \A u \in Threads : InQueue(u, w) => next2[u] = next[u]
  BY <1>1
<1>3. Linked(next2, p, w)
  BY <1>1, <1>2, LinkedFrame
<1> QED
  BY <1>1, <1>3 DEF IsList

\* A list is empty if its pointer is null; otherwise the pointer is its first
\* thread, behind which the rest follows.
LEMMA ListHead ==
  ASSUME NEW next, NEW p, NEW S \in SUBSET Threads, IsList(next, p, S)
  PROVE  /\ p = NULL => S = {}
         /\ p # NULL => p \in S /\ IsList(next, next[p], S \ {p})
<1>1. PICK w \in Seq(Threads) : Linked(next, p, w) /\ \A t \in Threads : InQueue(t, w) <=> t \in S
  BY DEF IsList
<1>2. CASE w = <<>>
  <2>1. p = NULL
    BY <1>1, <1>2 DEF Linked
  <2>2. \A t : ~InQueue(t, w)
    BY <1>2, EmptySeq DEF InQueue
  <2>3. S = {}
    BY <1>1, <2>2
  <2> QED
    BY <2>1, <2>3
<1>3. CASE w # <<>>
  <2>0. Head(w) = w[1]
    BY <1>3
  <2>1. p = w[1] /\ p = Head(w) /\ \A i, j \in 1..Len(w) : w[i] = w[j] => i = j
    BY <1>1, <1>3, <2>0, Zenon DEF Linked
  <2>2. Rest(w) = Tail(w) /\ Tail(w) \in Seq(Threads)
    BY <1>3 DEF Rest
  <2>3. Head(w) \in Threads /\ InQueue(Head(w), w)
        /\ \A u \in Threads : InQueue(u, Rest(w)) <=> InQueue(u, w) /\ u # Head(w)
    BY <1>3, <2>1, RestMembers, Zenon
  <2>4. /\ p \in Threads /\ InQueue(p, w)
        /\ \A u \in Threads : InQueue(u, Tail(w)) <=> InQueue(u, w) /\ u # p
    BY <2>1, <2>2, <2>3, Zenon
  <2>5. Linked(next, next[p], Tail(w))
    BY <1>1, <1>3, LinkedTail
  <2>6. IsList(next, next[p], S \ {p})
    BY <1>1, <2>2, <2>4, <2>5 DEF IsList
  <2> QED
    BY <1>1, <2>4, <2>6, NullAssumption
<1> QED
  BY <1>2, <1>3

\* semaphore_wait links the thread t at the end of a list.
LEMMA ListAppend ==
  ASSUME NEW next \in [Threads -> Pointer], NEW p, NEW S \in SUBSET Threads, IsList(next, p, S),
         NEW t \in Threads, t \notin S, next[t] = NULL
  PROVE  /\ p = NULL => IsList(next, t, S \cup {t})
         /\ p # NULL => /\ LastOf(next, p) \in S
                        /\ IsList([next EXCEPT ![LastOf(next, p)] = t], p, S \cup {t})
<1>1. PICK w \in Seq(Threads) : Linked(next, p, w) /\ \A u \in Threads : InQueue(u, w) <=> u \in S
  BY DEF IsList
<1>2. CASE p = NULL
  <2>1. S = {}
    BY <1>2, ListHead
  <2>2. <<t>> \in Seq(Threads) /\ Len(<<t>>) = 1 /\ <<t>>[1] = t /\ <<t>> # <<>>
    OBVIOUS
  <2>3. Linked(next, t, <<t>>)
    BY <2>2 DEF Linked
  <2>4. \A u \in Threads : InQueue(u, <<t>>) <=> u \in S \cup {t}
    BY <2>1, <2>2 DEF InQueue
  <2> QED
    BY <1>2, <2>2, <2>3, <2>4 DEF IsList
<1>3. CASE p # NULL
  <2>1. w # <<>>
    BY <1>1, <1>3 DEF Linked
  <2>2. LastOf(next, p) = w[Len(w)]
    BY <1>1, <2>1, ChainLemma
  <2>3. w[Len(w)] \in Threads /\ InQueue(w[Len(w)], w)
    <3>1. Len(w) \in Nat /\ Len(w) # 0
      BY <2>1, EmptySeq
    <3>2. Len(w) \in 1..Len(w)
      BY <3>1
    <3> QED
      BY <3>2, ElementOfSeq DEF InQueue
  <2>4. ~InQueue(t, w)
    BY <1>1
  <2>5. Linked([next EXCEPT ![w[Len(w)]] = t], p, Append(w, t))
    BY <1>1, <2>1, <2>4, LinkedAppend
  <2>6. \A u \in Threads : InQueue(u, Append(w, t)) <=> u \in S \cup {t}
    BY <1>1, AppendMembers
  <2>7. Append(w, t) \in Seq(Threads)
    OBVIOUS
  <2> QED
    BY <1>1, <1>3, <2>2, <2>3, <2>5, <2>6, <2>7 DEF IsList
<1> QED
  BY <1>2, <1>3

\* scheduler_schedule leaves the lists as they are and runs a thread that may run.
LEMMA ScheduleLists ==
  ASSUME NEW s, NEW heads, NEW members, ListsHold(s, heads, members),
         NEW s2, s2 = scheduler_schedule(s)
  PROVE  /\ ListsHold(s2, heads, members)
         /\ s2.state = s.state
         /\ s2.current # NULL => s2.state[s2.current] = "READY"
<1>1. s \in Sched
  BY DEF ListsHold
<1>2. PICK r \in Seq(Threads) :
        /\ IsRunQueue(s, r)
        /\ \A t \in Threads : InQueue(t, r) <=> s.state[t] = "READY" /\ t # s.current
  BY DEF ListsHold, RunQueueHolds
<1>3. s.current # NULL => s.current \in Threads
  BY <1>1 DEF Sched, Pointer
<1>4. s.current # NULL /\ s.state[s.current] = "READY" => ~InQueue(s.current, r)
  BY <1>2, <1>3
<1>5. PICK p : p = Offered(s, r)
  OBVIOUS
<1>6. /\ s2 \in Sched
      /\ p \in Seq(Threads)
      /\ \A i, j \in 1..Len(p) : p[i] = p[j] => i = j
      /\ Rest(p) \in Seq(Threads)
      /\ IsRunQueue(s2, Rest(p))
      /\ s2.state = s.state
      /\ s2.current = IF p = <<>> THEN NULL ELSE Head(p)
      /\ \A u \in Threads : ~InQueue(u, p) => s2.next[u] = s.next[u]
  <2>1. s \in Sched /\ r \in Seq(Threads) /\ IsRunQueue(s, r) /\ p = Offered(s, r)
        /\ s2 = scheduler_schedule(s)
        /\ (s.current # NULL /\ s.state[s.current] = "READY" => ~InQueue(s.current, r))
    BY <1>1, <1>2, <1>4, <1>5, Zenon
  <2> QED
    BY <2>1, SwitchLemma, SMTT(30)
<1>7. \A u \in Threads : InQueue(u, p) <=> s.state[u] = "READY"
  <2>1. CASE s.current # NULL /\ s.state[s.current] = "READY"
    <3>1. p = Append(r, s.current)
      BY <1>5, <2>1 DEF Offered
    <3>2. \A u \in Threads : InQueue(u, p) <=> InQueue(u, r) \/ u = s.current
      BY <1>3, <2>1, <3>1, AppendMembers
    <3> QED
      BY <1>2, <2>1, <3>2
  <2>2. CASE ~(s.current # NULL /\ s.state[s.current] = "READY")
    <3>1. p = r
      BY <1>5, <2>2 DEF Offered
    <3> QED
      BY <1>2, <2>2, <3>1, NullAssumption
  <2> QED
    BY <2>1, <2>2
<1>8. /\ \A u \in Threads : InQueue(u, Rest(p)) <=> s2.state[u] = "READY" /\ u # s2.current
      /\ s2.current # NULL => s2.state[s2.current] = "READY"
  <2>1. CASE p = <<>>
    <3>1. \A u : ~InQueue(u, p)
      BY <2>1, EmptySeq DEF InQueue
    <3> QED
      BY <1>6, <1>7, <2>1, <3>1 DEF Rest
  <2>2. CASE p # <<>>
    <3>1. Head(p) \in Threads /\ InQueue(Head(p), p)
      BY <1>6, <2>2, RestMembers
    <3>2. \A u \in Threads : InQueue(u, Rest(p)) <=> InQueue(u, p) /\ u # Head(p)
      BY <1>6, <2>2, RestMembers
    <3> QED
      BY <1>6, <1>7, <2>2, <3>1, <3>2
  <2> QED
    BY <2>1, <2>2
<1>9. RunQueueHolds(s2)
  BY <1>6, <1>8 DEF RunQueueHolds
<1>10. \A x \in Queues : IsList(s2.next, heads[x], members[x])
  <2> SUFFICES ASSUME NEW x \in Queues PROVE IsList(s2.next, heads[x], members[x])
    OBVIOUS
  <2>1. \A t \in Threads : t \in members[x] => s2.next[t] = s.next[t]
    BY <1>6, <1>7 DEF ListsHold
  <2> QED
    BY <2>1, ListFrame DEF ListsHold
<1> QED
  BY <1>6, <1>8, <1>9, <1>10 DEF ListsHold

\* A thread on the CPU that blocks itself, other than for a semaphore, is in no
\* list.
LEMMA BlockLists ==
  ASSUME NEW s, NEW heads, NEW members, ListsHold(s, heads, members),
         NEW t \in Threads, t = s.current, s.state[t] = "READY", NEW why \in {"REPLY", "DEAD"},
         NEW s2, s2 = scheduler_schedule(thread_block(s, t, why))
  PROVE  /\ ListsHold(s2, heads, members)
         /\ s2.state[t] = why /\ \A z \in Threads \ {t} : s2.state[z] = s.state[z]
         /\ s2.current # NULL => s2.state[s2.current] = "READY"
<1> DEFINE s1 == thread_block(s, t, why)
<1>1. s \in Sched
  BY DEF ListsHold
<1>2. /\ s1 \in Sched /\ s1.head = s.head /\ s1.tail = s.tail /\ s1.next = s.next
      /\ s1.current = s.current /\ s1.state = [s.state EXCEPT ![t] = why]
  BY <1>1 DEF thread_block, Sched, ThreadState, Blocked
<1> HIDE DEF s1
<1>3. s1.state[t] = why /\ \A u \in Threads \ {t} : s1.state[u] = s.state[u]
  BY <1>1, <1>2 DEF Sched
<1>4. PICK r \in Seq(Threads) :
        /\ IsRunQueue(s, r)
        /\ \A u \in Threads : InQueue(u, r) <=> s.state[u] = "READY" /\ u # s.current
  BY DEF ListsHold, RunQueueHolds
<1>5. IsRunQueue(s1, r)
  BY <1>2, <1>4, RunQueueFrame
<1>6. RunQueueHolds(s1)
  BY <1>2, <1>3, <1>4, <1>5 DEF RunQueueHolds
<1>7. ListsHold(s1, heads, members)
  BY <1>2, <1>3, <1>6 DEF ListsHold
<1>8. s2 = scheduler_schedule(s1)
  BY DEF s1
<1>9. /\ ListsHold(s2, heads, members) /\ s2.state = s1.state
      /\ (s2.current # NULL => s2.state[s2.current] = "READY")
  BY <1>7, <1>8, ScheduleLists
<1> QED
  BY <1>3, <1>9

\* thread_unblock appends a thread that is in no list to the run queue.
LEMMA UnblockLists ==
  ASSUME NEW s, NEW heads, NEW members, ListsHold(s, heads, members),
         NEW u \in Threads, u # s.current, s.state[u] # "READY",
         \A x \in Queues : u \notin members[x],
         NEW s2, s2 = thread_unblock(s, u)
  PROVE  /\ ListsHold(s2, heads, members)
         /\ s2.state[u] = "READY" /\ \A z \in Threads \ {u} : s2.state[z] = s.state[z]
         /\ s2.current = s.current
<1> DEFINE s1 == [s EXCEPT !.state = [s.state EXCEPT ![u] = "READY"]]
<1>1. s \in Sched
  BY DEF ListsHold
<1>2. /\ s1 \in Sched /\ s1.head = s.head /\ s1.tail = s.tail /\ s1.next = s.next
      /\ s1.current = s.current /\ s1.state = [s.state EXCEPT ![u] = "READY"]
  BY <1>1 DEF Sched, ThreadState, Blocked
<1>3. s2 = scheduler_enqueue_thread(s1, u)
  BY DEF thread_unblock
<1> HIDE DEF s1
<1>4. s1.state[u] = "READY" /\ \A v \in Threads \ {u} : s1.state[v] = s.state[v]
  BY <1>1, <1>2 DEF Sched
<1>5. PICK r \in Seq(Threads) :
        /\ IsRunQueue(s, r)
        /\ \A v \in Threads : InQueue(v, r) <=> s.state[v] = "READY" /\ v # s.current
  BY DEF ListsHold, RunQueueHolds
<1>6. IsRunQueue(s1, r) /\ ~InQueue(u, r)
  BY <1>2, <1>5, RunQueueFrame
<1>7. /\ s2 \in Sched /\ Append(r, u) \in Seq(Threads) /\ IsRunQueue(s2, Append(r, u))
      /\ s2.state = s1.state /\ s2.current = s1.current
      /\ \A v \in Threads : ~InQueue(v, r) /\ v # u => s2.next[v] = s1.next[v]
  BY <1>2, <1>3, <1>6, EnqueueLemma
<1>8. \A v \in Threads : InQueue(v, Append(r, u)) <=> s2.state[v] = "READY" /\ v # s2.current
  <2>1. \A v \in Threads : InQueue(v, Append(r, u)) <=> InQueue(v, r) \/ v = u
    BY AppendMembers
  <2> QED
    BY <1>2, <1>4, <1>5, <1>7, <2>1
<1>9. RunQueueHolds(s2)
  BY <1>7, <1>8 DEF RunQueueHolds
<1>10. \A x \in Queues : \A t \in members[x] : t \in Threads /\ t # u /\ s2.state[t] = "SEMA"
  BY <1>4, <1>7 DEF ListsHold
<1>11. \A x \in Queues : IsList(s2.next, heads[x], members[x])
  <2> SUFFICES ASSUME NEW x \in Queues PROVE IsList(s2.next, heads[x], members[x])
    OBVIOUS
  <2>1. \A t \in Threads : t \in members[x] => s2.next[t] = s.next[t]
    BY <1>2, <1>5, <1>7 DEF ListsHold
  <2> QED
    BY <2>1, ListFrame DEF ListsHold
<1> QED
  BY <1>2, <1>4, <1>7, <1>9, <1>10, <1>11 DEF ListsHold

\* The first thread of a queue is blocked on it.
LEMMA QueueHead ==
  ASSUME NEW s, NEW heads, NEW members, ListsHold(s, heads, members), NEW x \in Queues
  PROVE  /\ heads[x] = NULL => members[x] = {}
         /\ heads[x] # NULL => /\ heads[x] \in members[x]
                               /\ heads[x] \in Threads /\ s.state[heads[x]] = "SEMA"
<1>1. members[x] \in SUBSET Threads /\ IsList(s.next, heads[x], members[x])
  BY DEF ListsHold
<1>2. /\ heads[x] = NULL => members[x] = {}
      /\ heads[x] # NULL => heads[x] \in members[x]
  BY <1>1, ListHead, Zenon
<1> QED
  BY <1>2 DEF ListsHold

\* semaphore_signal takes the first thread off the queue x, if there is one, and
\* lets it run.
Signalled(s, heads, members, x, s2, heads2, members2) ==
  LET u == heads[x] IN
  /\ s2 = IF u = NULL THEN s ELSE thread_unblock(s, u)
  /\ \A y \in Queues : heads2[y] = IF y = x /\ u # NULL THEN s.next[u] ELSE heads[y]
  /\ \A y \in Queues : members2[y] = IF y = x THEN members[x] \ {u} ELSE members[y]

LEMMA SignalLists ==
  ASSUME NEW s, NEW heads, NEW members, ListsHold(s, heads, members),
         s.current # NULL => s.state[s.current] = "READY",
         NEW x \in Queues, NEW s2, NEW heads2, NEW members2,
         Signalled(s, heads, members, x, s2, heads2, members2)
  PROVE  /\ ListsHold(s2, heads2, members2)
         /\ \A v \in Threads : s2.state[v] = IF v = heads[x] THEN "READY" ELSE s.state[v]
         /\ s2.current = s.current
         /\ heads[x] # NULL => heads[x] \in members[x]
<1> DEFINE u == heads[x]
<1>1. /\ s2 = IF u = NULL THEN s ELSE thread_unblock(s, u)
      /\ \A y \in Queues : heads2[y] = IF y = x /\ u # NULL THEN s.next[u] ELSE heads[y]
      /\ \A y \in Queues : members2[y] = IF y = x THEN members[x] \ {u} ELSE members[y]
  BY DEF Signalled
<1>2. CASE u = NULL
  <2>1. s2 = s
    BY <1>1, <1>2
  <2>2. members[x] = {}
    BY <1>2, QueueHead
  <2>3. \A y \in Queues : heads2[y] = heads[y] /\ members2[y] = members[y]
    BY <1>1, <1>2, <2>2
  <2>4. ListsHold(s2, heads2, members2)
    BY <2>1, <2>3 DEF ListsHold
  <2> QED
    BY <1>2, <2>1, <2>4, NullAssumption
<1>3. CASE u # NULL
  <2>1. u \in members[x] /\ u \in Threads /\ s.state[u] = "SEMA"
    BY <1>3, QueueHead
  <2>2. IsList(s.next, s.next[u], members[x] \ {u})
    <3>1. members[x] \in SUBSET Threads /\ IsList(s.next, heads[x], members[x])
      BY DEF ListsHold
    <3> QED
      BY <1>3, <3>1, ListHead
  <2>3. ListsHold(s, heads2, members2)
    <3>1. \A y \in Queues : IsList(s.next, heads2[y], members2[y])
      BY <1>1, <1>3, <2>2 DEF ListsHold
    <3>2. \A y \in Queues : members2[y] \subseteq members[y]
      BY <1>1
    <3> QED
      BY <3>1, <3>2 DEF ListsHold
  <2>4. \A y \in Queues : u \notin members2[y]
    BY <1>1, <2>1 DEF ListsHold
  <2>5. u # s.current /\ s.state[u] # "READY" /\ s2 = thread_unblock(s, u)
    BY <1>1, <1>3, <2>1, NullAssumption
  <2> HIDE DEF u
  <2>6. /\ ListsHold(s2, heads2, members2)
        /\ s2.state[u] = "READY" /\ \A z \in Threads \ {u} : s2.state[z] = s.state[z]
        /\ s2.current = s.current
    BY <2>1, <2>3, <2>4, <2>5, UnblockLists
  <2>7. \A v \in Threads : s2.state[v] = IF v = u THEN "READY" ELSE s.state[v]
    BY <2>6
  <2> QED
    BY <2>1, <2>6, <2>7 DEF u
<1> QED
  BY <1>2, <1>3

\* semaphore_wait without a token: the thread on the CPU is linked at the end of
\* the queue x, blocked and switched away from.
LEMMA WaitLists ==
  ASSUME NEW s, NEW heads, NEW members, ListsHold(s, heads, members),
         NEW t \in Threads, t = s.current, s.state[t] = "READY",
         NEW x \in Queues, NEW sem, sem.queue = heads[x], ~HasToken(sem),
         NEW heads2, \A y \in Queues : heads2[y] = IF y = x /\ heads[x] = NULL THEN t ELSE heads[y],
         NEW members2, \A y \in Queues : members2[y] = IF y = x THEN members[x] \cup {t} ELSE members[y],
         NEW s2, s2 = WaitSched(s, sem)
  PROVE  /\ ListsHold(s2, heads2, members2)
         /\ s2.state[t] = "SEMA" /\ \A z \in Threads \ {t} : s2.state[z] = s.state[z]
         /\ s2.current # NULL => s2.state[s2.current] = "READY"
<1> DEFINE p == heads[x]
           ended == [s.next EXCEPT ![t] = NULL]
           linked == IF p = NULL THEN ended ELSE [ended EXCEPT ![LastOf(ended, p)] = t]
           s1 == thread_block([s EXCEPT !.next = linked], t, "SEMA")
<1>1. s \in Sched
  BY DEF ListsHold
<1>2. s2 = scheduler_schedule(s1)
  BY DEF WaitSched
<1>3. /\ ended \in [Threads -> Pointer] /\ ended[t] = NULL
      /\ \A v \in Threads \ {t} : ended[v] = s.next[v]
  BY <1>1 DEF Sched, Pointer
<1> HIDE DEF ended
<1>4. \A y \in Queues : t \notin members[y] /\ members[y] \in SUBSET Threads
  BY DEF ListsHold
<1>5. \A y \in Queues : IsList(ended, heads[y], members[y])
  <2> SUFFICES ASSUME NEW y \in Queues PROVE IsList(ended, heads[y], members[y])
    OBVIOUS
  <2>1. \A v \in Threads : v \in members[y] => ended[v] = s.next[v]
    BY <1>3, <1>4
  <2> QED
    BY <2>1, ListFrame DEF ListsHold
<1>6. /\ p = NULL => IsList(ended, t, members[x] \cup {t})
      /\ p # NULL => /\ LastOf(ended, p) \in members[x]
                     /\ IsList([ended EXCEPT ![LastOf(ended, p)] = t], p, members[x] \cup {t})
  BY <1>3, <1>4, <1>5, ListAppend
<1>7. /\ linked \in [Threads -> Pointer]
      /\ \A v \in Threads : v # t /\ v \notin members[x] => linked[v] = s.next[v]
  BY <1>3, <1>4, <1>6 DEF Pointer
<1>8. IsList(linked, heads2[x], members2[x])
  BY <1>6
<1> HIDE DEF linked
<1>9. /\ s1 \in Sched /\ s1.head = s.head /\ s1.tail = s.tail /\ s1.next = linked
      /\ s1.current = s.current /\ s1.state = [s.state EXCEPT ![t] = "SEMA"]
  BY <1>1, <1>7 DEF thread_block, Sched, ThreadState, Blocked
<1> HIDE DEF s1, p
<1>10. s1.state[t] = "SEMA" /\ \A v \in Threads \ {t} : s1.state[v] = s.state[v]
  BY <1>1, <1>9 DEF Sched
<1>11. PICK r \in Seq(Threads) :
        /\ IsRunQueue(s, r)
        /\ \A v \in Threads : InQueue(v, r) <=> s.state[v] = "READY" /\ v # s.current
  BY DEF ListsHold, RunQueueHolds
<1>12. RunQueueHolds(s1)
  <2>1. \A v \in Threads : InQueue(v, r) => s1.next[v] = s.next[v]
    BY <1>7, <1>9, <1>11 DEF ListsHold
  <2>2. IsRunQueue(s1, r)
    BY <1>9, <1>11, <2>1, RunQueueFrame
  <2>3. \A v \in Threads : InQueue(v, r) <=> s1.state[v] = "READY" /\ v # s1.current
    BY <1>9, <1>10, <1>11
  <2> QED
    BY <2>2, <2>3 DEF RunQueueHolds
<1>13. \A y \in Queues : IsList(s1.next, heads2[y], members2[y])
  <2> SUFFICES ASSUME NEW y \in Queues PROVE IsList(s1.next, heads2[y], members2[y])
    OBVIOUS
  <2>1. CASE y = x
    BY <1>8, <1>9, <2>1
  <2>2. CASE y # x
    <3>1. \A v \in Threads : v \in members[y] => s1.next[v] = s.next[v]
      BY <1>4, <1>7, <1>9, <2>2 DEF ListsHold
    <3>2. IsList(s1.next, heads[y], members[y])
      BY <3>1, ListFrame DEF ListsHold
    <3> QED
      BY <2>2, <3>2
  <2> QED
    BY <2>1, <2>2
<1>14. \A y \in Queues : \A v \in members2[y] : v \in Threads /\ s1.state[v] = "SEMA"
  BY <1>4, <1>10 DEF ListsHold
<1>15. \A y, z \in Queues : \A v \in members2[y] : v \in members2[z] => y = z
  BY <1>4 DEF ListsHold
<1>16. ListsHold(s1, heads2, members2)
  BY <1>9, <1>12, <1>13, <1>14, <1>15 DEF ListsHold
<1> QED
  BY <1>2, <1>10, <1>16, ScheduleLists

-----------------------------------------------------------------------------
(* Vectors *)

\* The bounds of a vector are the size of its content.
LEMMA VectorBounds ==
  ASSUME NEW S, NEW v \in Vector(S)
  PROVE  /\ Bounds(v) \in Nat
         /\ v.content \in [0..(Bounds(v) - 1) -> S \cup {NULL}]
         /\ v.count \in Int
<1>1. PICK n \in Nat : v.content \in [0..(n - 1) -> S \cup {NULL}]
  BY DEF Vector
<1>2. DOMAIN v.content = 0..(n - 1) /\ 0 \in Int /\ n - 1 \in Int
  BY <1>1
<1>3. Cardinality(0..(n - 1)) = n
  BY <1>2, FS_Interval
<1>4. Bounds(v) = n
  BY <1>2, <1>3 DEF Bounds
<1> QED
  BY <1>1, <1>4 DEF Vector

\* vector_init and vector_free leave no entries.
LEMMA VectorInit ==
  ASSUME NEW S, NEW n \in Nat
  PROVE  vector_init(n) \in Vector(S) /\ Entries(vector_init(n)) = {}
<1>1. [i \in 0..(n - 1) |-> NULL] \in [0..(n - 1) -> S \cup {NULL}]
  OBVIOUS
<1> QED
  BY <1>1 DEF vector_init, Vector, Entries

LEMMA VectorFree ==
  ASSUME NEW S, NEW v \in Vector(S)
  PROVE  vector_free(v) \in Vector(S) /\ Entries(vector_free(v)) = {}
<1>1. CASE Bounds(v) = 0
  BY <1>1, VectorBounds DEF vector_free, Entries
<1>2. CASE Bounds(v) # 0
  BY <1>2, VectorInit DEF vector_free
<1> QED
  BY <1>1, <1>2

\* vector_add uses a free index and keeps every entry where it is.
LEMMA VectorAdd ==
  ASSUME NEW S, NEW v \in Vector(S), NEW x \in S, x # NULL,
         NEW i, i = AddIndex(v), NEW v2, v2 = vector_add(v, x)
  PROVE  /\ i \in Nat /\ i \notin Entries(v)
         /\ v2 \in Vector(S)
         /\ Entries(v2) = Entries(v) \cup {i}
         /\ v2.content[i] = x
         /\ \A j \in Entries(v) : v2.content[j] = v.content[j]
<1> DEFINE n == Bounds(v)
           room == IF FreeSlots(v) = {} THEN vector_resize(v) ELSE v
<1>1. n \in Nat /\ v.content \in [0..(n - 1) -> S \cup {NULL}] /\ v.count \in Int
  BY VectorBounds
<1>2. PICK k \in Nat :
        /\ room.content \in [0..(k - 1) -> S \cup {NULL}] /\ room.count \in Int
        /\ i \in 0..(k - 1) /\ i \notin Entries(v) /\ n <= k
        /\ \A j \in 0..(n - 1) : room.content[j] = v.content[j]
        /\ \A j \in 0..(k - 1) : j >= n => room.content[j] = NULL
  <2>1. CASE FreeSlots(v) = {}
    <3>1. i = n
      BY <2>1 DEF AddIndex
    <3>2. n \notin Entries(v)
      BY <1>1 DEF Entries
    <3>3. CASE n > 0
      <4>1. room.content = [j \in 0..(2 * n - 1) |-> IF j < n THEN v.content[j] ELSE NULL]
            /\ room.count = v.count
        BY <2>1, <3>3 DEF vector_resize, Vector
      <4> HIDE DEF room, n
      <4>2. room.content \in [0..(2 * n - 1) -> S \cup {NULL}]
        BY <1>1, <4>1
      <4>3. 2 * n \in Nat /\ n \in 0..(2 * n - 1) /\ n <= 2 * n
        BY <1>1, <3>3
      <4>4. /\ \A j \in 0..(n - 1) : room.content[j] = v.content[j]
            /\ \A j \in 0..(2 * n - 1) : j >= n => room.content[j] = NULL
        BY <1>1, <4>1
      <4> QED
        BY <1>1, <3>1, <3>2, <4>1, <4>2, <4>3, <4>4
    <3>4. CASE n = 0
      <4>1. room = [count |-> 0, content |-> [j \in 0..(4 - 1) |-> NULL]]
        BY <2>1, <3>4 DEF vector_resize, vector_init
      <4> HIDE DEF room, n
      <4>2. room.content \in [0..(4 - 1) -> S \cup {NULL}] /\ room.count \in Int
        BY <4>1
      <4>3. n \in 0..(4 - 1) /\ n <= 4 /\ 4 \in Nat
        BY <3>4
      <4>4. /\ \A j \in 0..(n - 1) : room.content[j] = v.content[j]
            /\ \A j \in 0..(4 - 1) : j >= n => room.content[j] = NULL
        BY <3>4, <4>1
      <4> QED
        BY <3>1, <3>2, <4>2, <4>3, <4>4
    <3> QED
      BY <1>1, <3>3, <3>4
  <2>2. CASE FreeSlots(v) # {}
    <3>1. FreeSlots(v) \in SUBSET Nat /\ FreeSlots(v) \subseteq 0..(n - 1)
      BY <1>1 DEF FreeSlots
    <3>2. \E m \in FreeSlots(v) : \A j \in FreeSlots(v) : m <= j
      BY <2>2, <3>1, SmallestExists
    <3>3. i \in FreeSlots(v)
      BY <2>2, <3>2 DEF AddIndex
    <3>4. i \in 0..(n - 1) /\ i \notin Entries(v)
      BY <3>1, <3>3 DEF FreeSlots, Entries
    <3>5. room = v
      BY <2>2
    <3> HIDE DEF room, n
    <3> QED
      BY <1>1, <3>4, <3>5
  <2> QED
    BY <2>1, <2>2
<1>3. v2 = [count |-> room.count + 1, content |-> [room.content EXCEPT ![i] = x]]
  BY DEF vector_add
<1> HIDE DEF room, n
<1>4. /\ v2.content \in [0..(k - 1) -> S \cup {NULL}] /\ v2.content[i] = x
      /\ \A j \in 0..(k - 1) : j # i => v2.content[j] = room.content[j]
  BY <1>2, <1>3
<1>5. v2 \in Vector(S)
  <2>1. v2.content \in UNION {[0..(m - 1) -> S \cup {NULL}] : m \in Nat}
    BY <1>2, <1>4
  <2>2. room.count + 1 \in Int
    BY <1>2
  <2> QED
    BY <1>3, <2>1, <2>2 DEF Vector
<1>6. DOMAIN v.content = 0..(n - 1) /\ DOMAIN v2.content = 0..(k - 1) /\ 0..(n - 1) \subseteq 0..(k - 1)
  BY <1>1, <1>2, <1>4
<1>7. \A j \in 0..(k - 1) : j \notin 0..(n - 1) => room.content[j] = NULL
  BY <1>1, <1>2
<1>8. \A j \in Entries(v) : j \in 0..(n - 1) /\ j # i /\ v2.content[j] = v.content[j]
  BY <1>2, <1>4, <1>6 DEF Entries
<1>9. Entries(v2) = Entries(v) \cup {i}
  <2>1. ASSUME NEW j \in Entries(v2) PROVE j \in Entries(v) \cup {i}
    BY <1>2, <1>4, <1>6, <1>7, <2>1 DEF Entries
  <2>2. ASSUME NEW j \in Entries(v) PROVE j \in Entries(v2)
    BY <1>6, <1>8, <2>2 DEF Entries
  <2>3. i \in Entries(v2)
    BY <1>2, <1>4, <1>6 DEF Entries
  <2> QED
    BY <2>1, <2>2, <2>3
<1> QED
  BY <1>2, <1>4, <1>5, <1>8, <1>9

\* vector_set with a null pointer takes an entry out.
LEMMA VectorDrop ==
  ASSUME NEW S, NEW v \in Vector(S), NEW i \in Entries(v),
         NEW v2, v2 = vector_set(v, i, NULL, NULL)
  PROVE  /\ v2 \in Vector(S)
         /\ Entries(v2) = Entries(v) \ {i}
         /\ \A j \in Entries(v2) : v2.content[j] = v.content[j]
<1> DEFINE n == Bounds(v)
<1>1. n \in Nat /\ v.content \in [0..(n - 1) -> S \cup {NULL}] /\ v.count \in Int
  BY VectorBounds
<1>2. i \in 0..(n - 1) /\ i \in DOMAIN v.content /\ v.content[i] # NULL
  BY <1>1 DEF Entries
<1>3. ~(i > n)
  BY <1>1, <1>2
<1>4. v2 = [count |-> v.count - 1, content |-> [v.content EXCEPT ![i] = NULL]]
  BY <1>2, <1>3 DEF vector_set, IndexPasses
<1> HIDE DEF n
<1>5. /\ v2.content \in [0..(n - 1) -> S \cup {NULL}] /\ v2.content[i] = NULL
      /\ \A j \in 0..(n - 1) : j # i => v2.content[j] = v.content[j]
  BY <1>1, <1>2, <1>4
<1>6. v2 \in Vector(S)
  <2>1. v2.content \in UNION {[0..(m - 1) -> S \cup {NULL}] : m \in Nat}
    BY <1>1, <1>5
  <2>2. v.count - 1 \in Int
    BY <1>1
  <2> QED
    BY <1>4, <2>1, <2>2 DEF Vector
<1>7. DOMAIN v.content = 0..(n - 1) /\ DOMAIN v2.content = 0..(n - 1)
  BY <1>1, <1>5
<1> QED
  BY <1>2, <1>5, <1>6, <1>7 DEF Entries

\* vector_get finds an entry, or nothing that could pass for one.
LEMMA VectorGet ==
  ASSUME NEW S, NULL \notin S, Wild \notin S, NEW v \in Vector(S), NEW i
  PROVE  /\ i \in Entries(v) => vector_get(v, i) = v.content[i] /\ v.content[i] \in S
         /\ vector_get(v, i) \in S => i \in Entries(v)
<1> DEFINE n == Bounds(v)
<1>1. n \in Nat /\ v.content \in [0..(n - 1) -> S \cup {NULL}]
  BY VectorBounds
<1>2. ASSUME i \in Entries(v) PROVE vector_get(v, i) = v.content[i] /\ v.content[i] \in S
  <2>1. i \in 0..(n - 1) /\ i \in DOMAIN v.content /\ v.content[i] # NULL
    BY <1>1, <1>2 DEF Entries
  <2>2. ~(i > n)
    BY <1>1, <2>1
  <2> QED
    BY <1>1, <2>1, <2>2 DEF vector_get, IndexPasses
<1>3. ASSUME vector_get(v, i) \in S PROVE i \in Entries(v)
  BY <1>3 DEF vector_get, Entries
<1> QED
  BY <1>2, <1>3

-----------------------------------------------------------------------------
(* The initial state *)

\* At boot the run queue holds every thread.
LEMMA BootedLemma ==
  /\ BootedSched \in Sched
  /\ RunQueueHolds(BootedSched)
  /\ BootedSched.current = NULL
  /\ \A t \in Threads : BootedSched.state[t] = "READY"
<1> DEFINE n == Len(BootOrder)
           Place(t) == CHOOSE i \in 1..n : BootOrder[i] = t
           s == BootedSched
<1>1. BootOrder \in Seq(Threads) /\ n \in Nat /\ DOMAIN BootOrder = 1..n
  BY IpcAssumption
<1>2. \A i \in 1..n : BootOrder[i] \in Threads
  BY <1>1, ElementOfSeq
<1>3. \A i, j \in 1..n : BootOrder[i] = BootOrder[j] => i = j
  BY <1>1, IpcAssumption DEF IsInjective
<1>4. \A t \in Threads : \E i \in 1..n : BootOrder[i] = t
  BY <1>1, IpcAssumption DEF ToSet
<1>5. \A t \in Threads : Place(t) \in 1..n /\ BootOrder[Place(t)] = t
  BY <1>4
<1>6. \A i \in 1..n : Place(BootOrder[i]) = i
  BY <1>2, <1>3, <1>5
<1>7. /\ s.head = IF n = 0 THEN NULL ELSE BootOrder[1]
      /\ s.tail = IF n = 0 THEN NULL ELSE BootOrder[n]
      /\ s.next = [t \in Threads |-> IF Place(t) = n THEN NULL ELSE BootOrder[Place(t) + 1]]
      /\ s.state = [t \in Threads |-> "READY"]
      /\ s.current = NULL
      /\ s = [head |-> s.head, tail |-> s.tail, next |-> s.next, state |-> s.state,
              current |-> s.current]
  BY DEF BootedSched
<1> HIDE DEF s, n, Place
<1>8. \A i \in 1..n : i # n => BootOrder[i + 1] \in Threads
  <2> SUFFICES ASSUME NEW i \in 1..n, i # n PROVE BootOrder[i + 1] \in Threads
    OBVIOUS
  <2>1. i + 1 \in 1..n
    BY <1>1
  <2> QED
    BY <1>2, <2>1
<1>9. s.next \in [Threads -> Pointer]
  BY <1>5, <1>7, <1>8 DEF Pointer
<1>10. s \in Sched
  <2>1. s.head \in Pointer /\ s.tail \in Pointer
    BY <1>1, <1>2, <1>7 DEF Pointer
  <2> QED
    BY <1>7, <1>9, <2>1 DEF Sched, Pointer, ThreadState
<1>11. IsRunQueue(s, BootOrder)
  <2>1. BootOrder = <<>> <=> n = 0
    BY <1>1, EmptySeq DEF n
  <2>2. \A i \in 1..n : s.next[BootOrder[i]] = IF i = n THEN NULL ELSE BootOrder[i + 1]
    BY <1>2, <1>6, <1>7
  <2> QED
    BY <1>3, <1>7, <2>1, <2>2 DEF IsRunQueue, n
<1>12. \A t \in Threads : InQueue(t, BootOrder) <=> s.state[t] = "READY" /\ t # s.current
  BY <1>4, <1>7, NullAssumption DEF InQueue, n
<1>13. RunQueueHolds(s)
  BY <1>1, <1>11, <1>12 DEF RunQueueHolds
<1> QED
  BY <1>7, <1>10, <1>13 DEF s

\* A null pointer starts an empty list.
LEMMA EmptyList ==
  ASSUME NEW next
  PROVE  IsList(next, NULL, {})
<1>1. <<>> \in Seq(Threads) /\ Len(<<>>) = 0
  OBVIOUS
<1>2. Linked(next, NULL, <<>>) /\ \A t : ~InQueue(t, <<>>)
  BY <1>1 DEF Linked, InQueue
<1> QED
  BY <1>1, <1>2 DEF IsList

LEMMA InitIInv == Init => IInv
<1> SUFFICES ASSUME Init PROVE IInv
  OBVIOUS
<1>1. /\ sch \in Sched /\ RunQueueHolds(sch) /\ sch.current = NULL
      /\ \A t \in Threads : sch.state[t] = "READY"
  BY BootedLemma DEF Init
<1>2. /\ \A p \in Processes : proc[p].chan = NULL /\ Entries(proc[p].chans) = {}
                              /\ Entries(proc[p].fds) = {}
      /\ proc \in [Processes -> Process]
  <2>1. /\ vector_init(0) \in Vector(Channels) /\ Entries(vector_init(0)) = {}
        /\ vector_init(8) \in Vector(Connects) /\ Entries(vector_init(8)) = {}
    BY VectorInit
  <2> QED
    BY <2>1 DEF Init, Process
<1>3. /\ \A c \in Channels : ~chan[c].live /\ chan[c].send.queue = NULL /\ chan[c].recv.queue = NULL
      /\ chan \in [Channels -> Channel]
  <2>1. vector_init(0) \in Vector(Connects)
    BY VectorInit
  <2> QED
    BY <2>1 DEF Init, Channel, semaphore_init, SemState, Pointer, Message
<1>4. /\ \A k \in Connects : ~conn[k].live
      /\ conn \in [Connects -> Connect]
  BY DEF Init, Connect, Pointer, Message, Status, NoStatus
<1>5. Types
  BY <1>1, <1>2, <1>3, <1>4 DEF Init, Types, NoLocals
<1>6. Lists
  <2>1. \A x \in Queues : Heads[x] = NULL
    BY <1>3 DEF Heads, SemOf, Queues
  <2>2. \A x \in Queues : Members[x] = {}
    BY <1>1 DEF Members
  <2>3. \A x \in Queues : IsList(sch.next, Heads[x], Members[x])
    BY <2>1, <2>2, EmptyList
  <2> QED
    BY <1>1, <2>2, <2>3 DEF Lists, ListsHold
<1>7. Callers
  BY <1>1 DEF Init, Callers, Waits, Sending
<1>8. OwnChannels /\ OwnConnects
  BY <1>2, <1>4 DEF OwnChannels, OwnConnects
<1>9. Slots /\ Replies
  BY <1>3 DEF Slots, Replies, Live
<1>10. Messages /\ Answers
  BY <1>1, <1>3, <1>4 DEF Init, Messages, PendingOf, Answers, Live
<1> QED
  BY <1>5, <1>6, <1>7, <1>8, <1>9, <1>10 DEF IInv

-----------------------------------------------------------------------------
(* Facts that several steps use *)

\* What the tables of the processes and of the channels hold.
LEMMA EntryTypes ==
  ASSUME Types
  PROVE  /\ \A p \in Processes : \A i \in Entries(proc[p].chans) : proc[p].chans.content[i] \in Channels
         /\ \A p \in Processes : \A i \in Entries(proc[p].fds) : proc[p].fds.content[i] \in Connects
         /\ \A c \in Channels : \A i \in Entries(chan[c].reply) : ConnAt(c, i) \in Connects
         /\ \A p \in Processes : proc[p].chans \in Vector(Channels) /\ proc[p].fds \in Vector(Connects)
         /\ \A c \in Channels : chan[c].reply \in Vector(Connects)
<1>1. /\ \A p \in Processes : proc[p].chans \in Vector(Channels) /\ proc[p].fds \in Vector(Connects)
      /\ \A c \in Channels : chan[c].reply \in Vector(Connects)
  BY DEF Types, Process, Channel
<1>2. {NULL, Wild} \cap Channels = {} /\ {NULL, Wild} \cap Connects = {}
  BY IpcAssumption
<1>3. /\ \A v \in Vector(Channels) : \A i \in Entries(v) : v.content[i] \in Channels
      /\ \A v \in Vector(Connects) : \A i \in Entries(v) : v.content[i] \in Connects
  BY <1>2, VectorGet
<1> QED
  BY <1>1, <1>3 DEF ConnAt

\* A process listens on a channel that exists, and nobody else does.
LEMMA OwnsFacts ==
  ASSUME Types, OwnChannels, NEW p \in Processes, NEW c, Owns(p, c)
  PROVE  p \in Servers /\ c \in Live /\ c \in Channels /\ proc[p].chan = c /\ \A q \in Processes : Owns(q, c) => p = q
<1>1. PICK i \in Entries(proc[p].chans) : proc[p].chans.content[i] = c
  BY DEF Owns
<1>2. c \in Channels
  BY <1>1, EntryTypes
<1> QED
  BY <1>1, <1>2 DEF OwnChannels, Live

\* A channel that somebody uses exists.
LEMMA InsideLive ==
  ASSUME IInv, NEW t \in Threads, pc[t] # "user"
  PROVE  loc[t].chan \in Channels /\ loc[t].chan \in Live
<1>1. Types /\ Callers /\ OwnChannels /\ OwnConnects
  BY DEF IInv
<1>2. CASE pc[t] \in Sending
  BY <1>1, <1>2 DEF Callers, OwnConnects, Live
<1>3. CASE pc[t] = "recv_wait"
  <2>1. Owns(ProcOf[t], loc[t].chan) /\ ProcOf[t] \in Processes
    BY <1>1, <1>3, IpcAssumption DEF Callers
  <2> QED
    BY <1>1, <2>1, OwnsFacts
<1> QED
  BY <1>1, <1>2, <1>3 DEF Types, Sending

\* A blocked thread is in the middle of a call.
LEMMA BlockedInside ==
  ASSUME Types, Callers, NEW t \in Threads
  PROVE  /\ sch.state[t] = "REPLY" => pc[t] = "send_reply"
         /\ sch.state[t] = "SEMA" => pc[t] \in Waits
         /\ pc[t] = "user" => loc[t].chan = NULL /\ loc[t].conn = NULL
  BY DEF Types, Callers, NoLocals, Waits, Sending

\* The reply table and the messages of a channel that a step does not concern.
LEMMA RepliesFrame ==
  ASSUME NEW c \in Channels, RepliesAt(c), chan'[c].reply = chan[c].reply,
         \A i \in Entries(chan[c].reply) : conn'[ConnAt(c, i)].owner = Awaiting(c, i),
         \A t \in Threads : loc'[t].chan = c /\ sch'.state[t] = "REPLY" =>
                              loc[t].chan = c /\ sch.state[t] = "REPLY",
         \A t \in Threads : loc[t].chan = c /\ sch.state[t] = "REPLY" =>
                              sch'.state[t] = "REPLY" /\ pc'[t] = pc[t] /\ loc'[t] = loc[t]
  PROVE  RepliesAt(c)'
<1>1. \A i : ConnAt(c, i)' = ConnAt(c, i)
  BY DEF ConnAt
<1>2. \A i \in Entries(chan[c].reply) : Awaiting(c, i)' = Awaiting(c, i)
  BY <1>1 DEF Awaiting
<1>3. \A i \in Entries(chan[c].reply) : LET t == Awaiting(c, i) IN
        /\ t \in Threads /\ pc'[t] = "send_reply" /\ sch'.state[t] = "REPLY"
        /\ loc'[t].conn = ConnAt(c, i) /\ loc'[t].chan = c
  BY DEF RepliesAt
<1>4. \A t \in Threads : loc'[t].chan = c /\ sch'.state[t] = "REPLY" =>
        \E i \in Entries(chan[c].reply) : ConnAt(c, i) = loc'[t].conn
  BY DEF RepliesAt
<1> QED
  BY <1>1, <1>2, <1>3, <1>4 DEF RepliesAt

LEMMA MessagesFrame ==
  ASSUME NEW c \in Channels, MessagesAt(c),
         chan'[c].reply = chan[c].reply, chan'[c].msg = chan[c].msg, chan'[c].recvid = chan[c].recvid,
         \A i \in Entries(chan[c].reply) : conn'[ConnAt(c, i)].owner = Awaiting(c, i),
         \A p \in Processes : Owns(p, c) => Owns(p, c)' /\ pending'[p] = pending[p]
  PROVE  MessagesAt(c)'
<1>1. \A i : ConnAt(c, i)' = ConnAt(c, i) /\ InSlot(c, i)' = InSlot(c, i)
  BY DEF ConnAt, InSlot
<1>2. \A i \in Entries(chan[c].reply) : Awaiting(c, i)' = Awaiting(c, i)
  BY <1>1 DEF Awaiting
<1>3. chan'[c].msg # NULL => /\ chan[c].recvid \in Entries(chan[c].reply)
                             /\ chan[c].msg = Awaiting(c, chan[c].recvid)
  BY DEF MessagesAt
<1>4. \A i \in Entries(chan[c].reply) :
        InSlot(c, i) \/ \E p \in Processes : /\ Owns(p, c)'
                                             /\ [recvid |-> i, msg |-> Awaiting(c, i)] \in pending'[p]
  BY DEF MessagesAt
<1> QED
  BY <1>1, <1>2, <1>3, <1>4 DEF MessagesAt

LEMMA PendingFrame ==
  ASSUME NEW p \in Processes, PendingOf(p), pending'[p] = pending[p], NEW c, c = proc[p].chan,
         pending[p] # {} =>
           /\ proc'[p].chan = c /\ Owns(p, c)'
           /\ chan'[c].reply = chan[c].reply /\ chan'[c].msg = chan[c].msg /\ chan'[c].recvid = chan[c].recvid
           /\ \A i \in Entries(chan[c].reply) : conn'[ConnAt(c, i)].owner = Awaiting(c, i)
  PROVE  PendingOf(p)'
<1> SUFFICES ASSUME NEW m \in pending[p]
             PROVE  /\ Owns(p, c)'
                    /\ m.recvid \in Entries(chan'[c].reply)
                    /\ m.msg = Awaiting(c, m.recvid)'
                    /\ ~InSlot(c, m.recvid)'
  BY DEF PendingOf
<1>1. \A i : ConnAt(c, i)' = ConnAt(c, i) /\ InSlot(c, i)' = InSlot(c, i)
  BY DEF ConnAt, InSlot
<1>2. \A i \in Entries(chan[c].reply) : Awaiting(c, i)' = Awaiting(c, i)
  BY <1>1 DEF Awaiting
<1>3. /\ m.recvid \in Entries(chan[c].reply)
      /\ m.msg = Awaiting(c, m.recvid)
      /\ ~InSlot(c, m.recvid)
  BY DEF PendingOf
<1> QED
  BY <1>1, <1>2, <1>3

-----------------------------------------------------------------------------
(* Steps of the scheduler *)

\* The thread on the CPU may run.
LEMMA AtFacts ==
  ASSUME IInv, NEW t \in Threads, NEW l, At(t, l)
  PROVE  sch.current = t /\ pc[t] = l /\ sch.state[t] = "READY" /\ sch.current # NULL
  BY NullAssumption DEF At, IInv, Lists

\* Parts of the invariant that a step does not concern.
LEMMA KeepOwned ==
  ASSUME Types, OwnChannels, OwnConnects, UNCHANGED proc,
         \A c \in Channels : chan'[c].live <=> chan[c].live,
         \A k \in Connects : (conn'[k].live <=> conn[k].live) /\ conn'[k].chan = conn[k].chan
  PROVE  OwnChannels' /\ OwnConnects' /\ Live' = Live
<1>1. \A p \in Processes : /\ \A i \in Entries(proc[p].chans) : proc[p].chans.content[i] \in Channels
                           /\ \A i \in Entries(proc[p].fds) : proc[p].fds.content[i] \in Connects
  <2>1. \A p \in Processes : proc[p].chans \in Vector(Channels) /\ proc[p].fds \in Vector(Connects)
    BY DEF Types, Process
  <2> QED
    BY <2>1, VectorGet, IpcAssumption
<1>2. \A p, c : Owns(p, c)' = Owns(p, c)
  BY DEF Owns, Entries
<1>3. \A p \in Processes : Entries(proc[p].chans)' = Entries(proc[p].chans)
                         /\ Entries(proc[p].fds)' = Entries(proc[p].fds)
  BY DEF Entries
<1>4. OwnChannels'
  BY <1>1, <1>2, <1>3 DEF OwnChannels
<1>5. OwnConnects'
  <2>1. \A k \in Connects : conn'[k].live => conn'[k].chan \in Channels /\ chan'[conn'[k].chan].live
    BY DEF OwnConnects
  <2>2. \A p \in Processes : \A i \in Entries(proc[p].fds) : conn'[proc[p].fds.content[i]].live
    <3>1. \A p \in Processes : \A i \in Entries(proc[p].fds) : conn[proc[p].fds.content[i]].live
      BY DEF OwnConnects
    <3> QED
      BY <1>1, <3>1
  <2> QED
    BY <2>1, <2>2 DEF OwnConnects, Entries
<1>6. Live' = Live
  BY DEF Live
<1> QED
  BY <1>4, <1>5, <1>6

LEMMA KeepMessages ==
  ASSUME Messages, UNCHANGED <<proc, chan, conn, pending>>
  PROVE  Messages'
  BY DEF Messages, MessagesAt, PendingOf, Live, Awaiting, ConnAt, InSlot, Owns, Entries

\* The lists depend on where the threads are and on the pointers of the
\* semaphores only.
LEMMA TickStep ==
  ASSUME IInv, timer_tick
  PROVE  IInv'
<1>1. /\ sch' = scheduler_schedule(sch)
      /\ UNCHANGED <<proc, chan, conn, pc, loc, pending, fault>>
  BY DEF timer_tick
<1>2. /\ ListsHold(sch', Heads, Members) /\ sch'.state = sch.state
      /\ (sch'.current # NULL => sch'.state[sch'.current] = "READY")
  BY <1>1, ScheduleLists DEF IInv, Lists
<1>3. Heads' = Heads /\ Members' = Members
  BY <1>1, <1>2 DEF Heads, SemOf, Members
<1>4. Lists'
  BY <1>2, <1>3 DEF Lists
<1>5. Types'
  BY <1>1, <1>2 DEF IInv, Types, ListsHold
<1>6. Callers' /\ OwnChannels' /\ OwnConnects'
  BY <1>1, <1>2 DEF IInv, Callers, OwnChannels, OwnConnects, Owns, Entries
<1>7. Slots'
  BY <1>1, <1>2 DEF IInv, Slots, Live, WokenAt, Inside
<1>8. Replies'
  <2>1. Replies /\ sch'.state = sch.state /\ UNCHANGED <<chan, conn, pc, loc>>
    BY <1>1, <1>2 DEF IInv
  <2> QED
    BY <2>1 DEF Replies, RepliesAt, Live, Awaiting, ConnAt, Entries
<1>9. Messages'
  BY <1>1, KeepMessages DEF IInv
<1>10. Answers'
  BY <1>1, <1>2 DEF IInv, Answers
<1> QED
  BY <1>4, <1>5, <1>6, <1>7, <1>8, <1>9, <1>10 DEF IInv

\* A thread that exits has no part in a message.
LEMMA ExitStep ==
  ASSUME IInv, NEW t \in Threads, process_exit(t)
  PROVE  IInv'
<1>1. /\ sch' = scheduler_schedule(thread_block(sch, t, "DEAD"))
      /\ UNCHANGED <<proc, chan, conn, pc, loc, pending, fault>>
      /\ At(t, "user")
  BY DEF process_exit
<1>2. t = sch.current /\ pc[t] = "user" /\ sch.state[t] = "READY"
  BY <1>1, AtFacts
<1>3. /\ ListsHold(sch', Heads, Members)
      /\ (sch'.current # NULL => sch'.state[sch'.current] = "READY")
      /\ sch'.state[t] = "DEAD" /\ \A u \in Threads \ {t} : sch'.state[u] = sch.state[u]
  <2>1. /\ ListsHold(sch, Heads, Members) /\ "DEAD" \in {"REPLY", "DEAD"}
        /\ t = sch.current /\ sch.state[t] = "READY"
        /\ sch' = scheduler_schedule(thread_block(sch, t, "DEAD"))
    BY <1>1, <1>2 DEF IInv, Lists
  <2> QED
    BY <2>1, BlockLists
<1>5. Heads' = Heads
  BY <1>1 DEF Heads, SemOf
<1>6. Members' = Members
  BY <1>1, <1>2, <1>3 DEF Members, Queues, Waits
<1>7. Lists'
  BY <1>3, <1>5, <1>6 DEF Lists
<1>8. Types'
  BY <1>1, <1>3 DEF IInv, Types, ListsHold
<1>9. Callers'
  BY <1>1, <1>2, <1>3 DEF IInv, Callers, Owns, Entries, Waits, Sending
<1>10. OwnChannels' /\ OwnConnects'
  BY <1>1 DEF IInv, OwnChannels, OwnConnects, Owns, Entries
<1>11. \A c \in Channels : WokenAt(c, "send_wait")' = WokenAt(c, "send_wait")
                         /\ WokenAt(c, "recv_wait")' = WokenAt(c, "recv_wait")
  BY <1>1, <1>2, <1>3 DEF WokenAt, Inside
<1>12. Slots'
  BY <1>1, <1>11 DEF IInv, Slots, Live
<1>13. Replies'
  <2>1. Replies /\ Types /\ Callers /\ Live' = Live /\ Live \subseteq Channels
    BY <1>1 DEF IInv, Live
  <2>2. ASSUME NEW c \in Live PROVE RepliesAt(c)'
    <3>1. \A i \in Entries(chan[c].reply) : conn'[ConnAt(c, i)].owner = Awaiting(c, i)
      BY <1>1 DEF Awaiting
    <3>2. \A u \in Threads : sch'.state[u] = "REPLY" <=> sch.state[u] = "REPLY"
      BY <1>2, <1>3
    <3> QED
      BY <1>1, <2>1, <3>1, <3>2, RepliesFrame DEF Replies
  <2> QED
    BY <2>1, <2>2 DEF Replies
<1>14. Messages'
  BY <1>1, KeepMessages DEF IInv
<1>15. Answers'
  BY <1>1, <1>2, <1>3 DEF IInv, Answers
<1> QED
  BY <1>7, <1>8, <1>9, <1>10, <1>12, <1>13, <1>14, <1>15 DEF IInv

-----------------------------------------------------------------------------
(* Channels and connects *)

\* A new channel is empty and nobody uses it.
LEMMA ListenStep ==
  ASSUME IInv, Polite, NEW t \in ServerThreads, NEW c \in Channels, ipc_listen(t, c)
  PROVE  IInv'
<1> DEFINE p == ProcOf[t]
<1>0. Types /\ Callers /\ OwnChannels /\ OwnConnects /\ Slots /\ Replies /\ Messages
  BY DEF IInv
<1>1. /\ p \in Processes /\ p \in Servers /\ proc[p].chan = NULL /\ ~chan[c].live
      /\ UNCHANGED <<sch, conn, pc, loc, pending, fault>>
  BY IpcAssumption DEF ipc_listen, Obeys, Polite, ServerThreads
<1>2. /\ chan' = [chan EXCEPT ![c] =
           [live |-> TRUE, reply |-> vector_init(4), recvid |-> 0, msg |-> NULL,
            send |-> semaphore_init(1), recv |-> semaphore_init(0)]]
      /\ proc' = [proc EXCEPT ![p].chan = c, ![p].chans = vector_add(@, c)]
  BY DEF ipc_listen
<1> HIDE DEF p
<1>3. NULL \notin Channels /\ NULL \notin Connects
  BY IpcAssumption
<1>4. /\ \A d : ~Owns(p, d)
      /\ \A q \in Processes : ~Owns(q, c)
      /\ Entries(proc[p].chans) = {}
  <2>1. \A i \in Entries(proc[p].chans) : FALSE
    BY <1>0, <1>1, <1>3, EntryTypes DEF OwnChannels
  <2>2. \A q \in Processes : ~Owns(q, c)
    BY <1>0, <1>1, OwnsFacts DEF Live
  <2> QED
    BY <2>1, <2>2 DEF Owns
<1>5. \A u \in Threads : loc[u].chan # c
  BY <1>0, <1>1, <1>3, InsideLive, BlockedInside DEF Live
<1>6. /\ vector_init(4) \in Vector(Connects) /\ Entries(vector_init(4)) = {}
      /\ semaphore_init(1) \in SemState /\ semaphore_init(0) \in SemState
  BY VectorInit DEF semaphore_init, SemState, Pointer
<1>7. /\ chan'[c].live /\ chan'[c].reply = vector_init(4) /\ chan'[c].msg = NULL
      /\ chan'[c].send = semaphore_init(1) /\ chan'[c].recv = semaphore_init(0)
      /\ \A d \in Channels \ {c} : chan'[d] = chan[d]
      /\ chan' \in [Channels -> Channel]
  BY <1>0, <1>2, <1>6 DEF Types, Channel, Message
<1>8. PICK i : /\ proc' \in [Processes -> Process]
               /\ proc'[p].chan = c /\ proc'[p].fds = proc[p].fds
               /\ Entries(proc'[p].chans) = {i} /\ proc'[p].chans.content[i] = c
               /\ \A q \in Processes \ {p} : proc'[q] = proc[q]
  <2>1. PICK i, v2 : i = AddIndex(proc[p].chans) /\ v2 = vector_add(proc[p].chans, c)
    OBVIOUS
  <2>2. v2 \in Vector(Channels) /\ Entries(v2) = {i} /\ v2.content[i] = c
    <3>1. proc[p].chans \in Vector(Channels) /\ c # NULL
      BY <1>0, <1>1, <1>3, EntryTypes
    <3> QED
      BY <1>4, <2>1, <3>1, VectorAdd
  <2>3. proc[p] \in Process /\ proc \in [Processes -> Process]
    BY <1>0, <1>1 DEF Types
  <2>4. /\ proc'[p] = [proc[p] EXCEPT !.chan = c, !.chans = v2]
        /\ \A q \in Processes \ {p} : proc'[q] = proc[q]
        /\ DOMAIN proc' = Processes /\ proc' = [q \in Processes |-> proc'[q]]
    BY <1>1, <1>2, <2>1, <2>3
  <2>5. /\ proc'[p].chan = c /\ proc'[p].fds = proc[p].fds /\ proc'[p].chans = v2
        /\ proc'[p] \in Process
    BY <2>2, <2>3, <2>4 DEF Process
  <2> QED
    BY <2>2, <2>3, <2>4, <2>5
<1>9. \A q \in Processes : \A d : Owns(q, d)' <=> (IF q = p THEN d = c ELSE Owns(q, d))
  BY <1>8 DEF Owns
<1>10. Live' = Live \cup {c} /\ c \notin Live /\ Live \subseteq Channels
  BY <1>1, <1>7 DEF Live
<1>11. Types'
  BY <1>0, <1>1, <1>7, <1>8 DEF Types
<1>12. Lists'
  <2>1. Members' = Members
    BY <1>1 DEF Members
  <2>2. \A x \in Queues : IF x[1] = c THEN Heads'[x] = NULL /\ Members[x] = {} ELSE Heads'[x] = Heads[x]
    BY <1>5, <1>7 DEF Heads, Members, SemOf, Queues, semaphore_init
  <2>3. \A x \in Queues : IsList(sch.next, Heads'[x], Members[x])
    BY <2>2, EmptyList DEF IInv, Lists, ListsHold
  <2> QED
    BY <1>1, <2>1, <2>3 DEF IInv, Lists, ListsHold
<1>13. Callers'
  BY <1>0, <1>1, <1>4, <1>9, IpcAssumption DEF Callers
<1>14. OwnChannels'
  <2> SUFFICES ASSUME NEW q \in Processes, NEW j \in Entries(proc'[q].chans),
                      NEW d, d = proc'[q].chans.content[j]
               PROVE  /\ q \in Servers /\ proc'[q].chan = d /\ chan'[d].live
                      /\ \A j2 \in Entries(proc'[q].chans) : j = j2
                      /\ \A q2 \in Processes : Owns(q2, d)' => q = q2
    BY DEF OwnChannels
  <2>1. CASE q = p
    BY <1>1, <1>4, <1>7, <1>8, <1>9, <2>1
  <2>2. CASE q # p
    <3>1. proc'[q] = proc[q] /\ d \in Channels
      BY <1>0, <1>8, <2>2, EntryTypes
    <3>2. Owns(q, d)
      BY <3>1 DEF Owns
    <3>3. d # c
      BY <1>4, <3>2
    <3> QED
      BY <1>0, <1>7, <1>9, <2>2, <3>1, <3>3 DEF OwnChannels
  <2> QED
    BY <2>1, <2>2
<1>15. OwnConnects'
  <2>1. \A q \in Processes : proc'[q].fds = proc[q].fds
    BY <1>8
  <2>2. \A k \in Connects : conn[k].live => conn[k].chan \in Channels /\ chan'[conn[k].chan].live
    BY <1>0, <1>7 DEF OwnConnects
  <2> QED
    BY <1>0, <1>1, <2>1, <2>2 DEF OwnConnects
<1>16. Slots'
  <2>1. \A d \in Channels : /\ WokenAt(d, "send_wait")' = WokenAt(d, "send_wait")
                            /\ WokenAt(d, "recv_wait")' = WokenAt(d, "recv_wait")
    BY <1>1 DEF WokenAt, Inside
  <2>2. WokenAt(c, "send_wait") = {} /\ WokenAt(c, "recv_wait") = {}
    BY <1>5 DEF WokenAt, Inside
  <2>3. SlotHeld(1, {}, 0, {}, NULL)
    BY DEF SlotHeld
  <2>4. chan'[c].send.count = 1 /\ chan'[c].recv.count = 0
    BY <1>7 DEF semaphore_init
  <2>5. ASSUME NEW d \in Live'
        PROVE  SlotHeld(chan'[d].send.count, WokenAt(d, "send_wait")',
                        chan'[d].recv.count, WokenAt(d, "recv_wait")', chan'[d].msg)
    <3>1. CASE d = c
      BY <1>7, <2>1, <2>2, <2>3, <2>4, <3>1
    <3>2. CASE d # c
      BY <1>0, <1>7, <1>10, <2>1, <3>2 DEF Slots
    <3> QED
      BY <3>1, <3>2
  <2> QED
    BY <2>5 DEF Slots
<1>17. Replies'
  <2> SUFFICES ASSUME NEW d \in Live' PROVE RepliesAt(d)'
    BY DEF Replies
  <2>1. CASE d = c
    BY <1>1, <1>5, <1>6, <1>7, <2>1 DEF RepliesAt
  <2>2. CASE d # c
    <3>1. d \in Channels /\ RepliesAt(d) /\ chan'[d] = chan[d]
      BY <1>0, <1>7, <1>10, <2>2 DEF Replies
    <3>2. \A j \in Entries(chan[d].reply) : conn'[ConnAt(d, j)].owner = Awaiting(d, j)
      BY <1>1 DEF Awaiting
    <3> QED
      BY <1>1, <3>1, <3>2, RepliesFrame
  <2> QED
    BY <2>1, <2>2
<1>18. Messages'
  <2>1. \A d \in Channels : \A j \in Entries(chan[d].reply) : conn'[ConnAt(d, j)].owner = Awaiting(d, j)
    BY <1>1 DEF Awaiting
  <2>2. ASSUME NEW d \in Live' PROVE MessagesAt(d)'
    <3>1. CASE d = c
      BY <1>6, <1>7, <3>1 DEF MessagesAt
    <3>2. CASE d # c
      <4>1. d \in Channels /\ MessagesAt(d) /\ chan'[d] = chan[d]
        BY <1>0, <1>7, <1>10, <3>2 DEF Messages
      <4>2. \A q \in Processes : Owns(q, d) => Owns(q, d)' /\ pending'[q] = pending[q]
        BY <1>1, <1>4, <1>9
      <4> QED
        BY <2>1, <4>1, <4>2, MessagesFrame
    <3> QED
      BY <3>1, <3>2
  <2>3. ASSUME NEW q \in Processes PROVE PendingOf(q)'
    <3>1. PendingOf(q) /\ pending'[q] = pending[q]
      BY <1>0, <1>1 DEF Messages
    <3>2. PICK d : d = proc[q].chan
      OBVIOUS
    <3>3. pending[q] # {} => Owns(q, d)
      BY <3>1, <3>2 DEF PendingOf
    <3>4. pending[q] # {} => d \in Channels /\ d # c /\ q # p /\ Owns(q, d)'
      BY <1>0, <1>4, <1>9, <3>3, OwnsFacts
    <3>5. pending[q] # {} => proc'[q].chan = d /\ chan'[d] = chan[d]
      BY <1>7, <1>8, <3>2, <3>4
    <3> QED
      BY <2>1, <3>1, <3>2, <3>4, <3>5, PendingFrame
  <2> QED
    BY <2>2, <2>3 DEF Messages
<1>19. Answers'
  BY <1>1 DEF IInv, Answers
<1> QED
  BY <1>11, <1>12, <1>13, <1>14, <1>15, <1>16, <1>17, <1>18, <1>19 DEF IInv

\* The other three leave the channels that remain, and what happens in them, as
\* they are.
LEMMA QuietStep ==
  ASSUME IInv, UNCHANGED <<sch, pc, loc, pending, fault>>,
         Live' \subseteq Live, \A d \in Live' : chan'[d] = chan[d],
         \A d \in Live' : \A i \in Entries(chan[d].reply) : conn'[ConnAt(d, i)].owner = Awaiting(d, i),
         \A d \in Live' : \A q \in Processes : Owns(q, d) => Owns(q, d)',
         \A q \in Processes : pending[q] # {} => proc'[q].chan = proc[q].chan /\ proc[q].chan \in Live'
  PROVE  Slots' /\ Replies' /\ Messages'
<1>0. Types /\ Slots /\ Replies /\ Messages /\ Live \subseteq Channels
  BY DEF IInv, Live
<1>1. Slots'
  <2>1. \A d \in Channels : /\ WokenAt(d, "send_wait")' = WokenAt(d, "send_wait")
                            /\ WokenAt(d, "recv_wait")' = WokenAt(d, "recv_wait")
    BY DEF WokenAt, Inside
  <2> QED
    BY <1>0, <2>1 DEF Slots
<1>2. Replies'
  <2> SUFFICES ASSUME NEW d \in Live' PROVE RepliesAt(d)'
    BY DEF Replies
  <2>1. d \in Channels /\ RepliesAt(d) /\ chan'[d] = chan[d]
    BY <1>0 DEF Replies
  <2> QED
    BY <2>1, RepliesFrame
<1>3. ASSUME NEW d \in Live' PROVE MessagesAt(d)'
  <2>1. d \in Channels /\ MessagesAt(d) /\ chan'[d] = chan[d]
    BY <1>0 DEF Messages
  <2> QED
    BY <2>1, MessagesFrame
<1>4. ASSUME NEW q \in Processes PROVE PendingOf(q)'
  <2>1. PendingOf(q) /\ pending'[q] = pending[q]
    BY <1>0 DEF Messages
  <2>2. PICK d : d = proc[q].chan
    OBVIOUS
  <2>3. pending[q] # {} => Owns(q, d)' /\ chan'[d] = chan[d] /\ proc'[q].chan = d
    BY <2>1, <2>2 DEF PendingOf
  <2>4. pending[q] # {} =>
          \A i \in Entries(chan[d].reply) : conn'[ConnAt(d, i)].owner = Awaiting(d, i)
    BY <2>2
  <2> QED
    BY <2>1, <2>2, <2>3, <2>4, PendingFrame
<1> QED
  BY <1>0, <1>1, <1>2, <1>3, <1>4 DEF Messages

\* Nobody uses a channel that its owner closes.
LEMMA CloseStep ==
  ASSUME IInv, Polite, NEW t \in Threads, NEW id, ipc_close(t, id)
  PROVE  IInv'
<1>0. Types /\ Callers /\ OwnChannels /\ OwnConnects /\ Messages
  BY DEF IInv
<1>a. PICK p \in Processes : p = ProcOf[t]
  BY IpcAssumption
<1>1. PICK c : p = ProcOf[t] /\ c = vector_get(proc[p].chans, id)
  BY <1>a
<1>2. /\ c \in Channels
      /\ \A k \in Connects : conn[k].live => conn[k].chan # c
      /\ \A u \in Threads : pc[u] # "user" => loc[u].chan # c
      /\ pending[p] = {}
      /\ chan' = [chan EXCEPT ![c].live = FALSE, ![c].reply = vector_free(@)]
      /\ proc' = [proc EXCEPT ![p].chans = vector_set(@, id, NULL, NULL)]
      /\ UNCHANGED <<sch, conn, pc, loc, pending, fault>>
  BY <1>1 DEF ipc_close, Obeys, Polite, Inside
<1>3. NULL \notin Channels /\ Wild \notin Channels
  BY IpcAssumption
<1>4. id \in Entries(proc[p].chans) /\ proc[p].chans.content[id] = c /\ proc[p].chans \in Vector(Channels)
  BY <1>0, <1>1, <1>2, <1>3, EntryTypes, VectorGet
<1>5. Owns(p, c)
  BY <1>4 DEF Owns
<1>6. /\ \A i \in Entries(proc[p].chans) : i = id
      /\ \A q \in Processes : Owns(q, c) => p = q
      /\ \A d : Owns(p, d) => d = c
  BY <1>0, <1>4, <1>5, OwnsFacts DEF OwnChannels, Owns
<1>7. /\ ~chan'[c].live /\ chan'[c].send = chan[c].send /\ chan'[c].recv = chan[c].recv
      /\ \A d \in Channels \ {c} : chan'[d] = chan[d]
      /\ chan' \in [Channels -> Channel]
  <2>1. chan[c] \in Channel /\ chan \in [Channels -> Channel] /\ vector_free(chan[c].reply) \in Vector(Connects)
    BY <1>0, <1>2, EntryTypes, VectorFree DEF Types
  <2>2. /\ chan'[c] = [chan[c] EXCEPT !.live = FALSE, !.reply = vector_free(chan[c].reply)]
        /\ \A d \in Channels \ {c} : chan'[d] = chan[d]
        /\ chan' = [d \in Channels |-> chan'[d]]
    BY <1>2, <2>1
  <2>3. ~chan'[c].live /\ chan'[c].send = chan[c].send /\ chan'[c].recv = chan[c].recv /\ chan'[c] \in Channel
    BY <2>1, <2>2 DEF Channel
  <2> QED
    BY <2>1, <2>2, <2>3
<1>8. /\ proc' \in [Processes -> Process]
      /\ proc'[p].chan = proc[p].chan /\ proc'[p].fds = proc[p].fds
      /\ Entries(proc'[p].chans) = {}
      /\ \A q \in Processes \ {p} : proc'[q] = proc[q]
  <2>1. PICK v2 : v2 = vector_set(proc[p].chans, id, NULL, NULL)
    OBVIOUS
  <2>2. v2 \in Vector(Channels) /\ Entries(v2) = {}
    BY <1>4, <1>6, <2>1, VectorDrop
  <2>3. proc[p] \in Process /\ proc \in [Processes -> Process]
    BY <1>0 DEF Types
  <2>4. /\ proc'[p] = [proc[p] EXCEPT !.chans = v2]
        /\ \A q \in Processes \ {p} : proc'[q] = proc[q]
        /\ proc' = [q \in Processes |-> proc'[q]]
    BY <1>2, <2>1, <2>3
  <2>5. /\ proc'[p].chan = proc[p].chan /\ proc'[p].fds = proc[p].fds /\ proc'[p].chans = v2
        /\ proc'[p] \in Process
    BY <2>2, <2>3, <2>4 DEF Process
  <2> QED
    BY <2>2, <2>3, <2>4, <2>5
<1>9. \A q \in Processes : \A d : Owns(q, d)' <=> q # p /\ Owns(q, d)
  BY <1>8 DEF Owns
<1>10. Live' = Live \ {c} /\ Live \subseteq Channels
  BY <1>2, <1>7 DEF Live
<1>11. Types'
  BY <1>0, <1>2, <1>7, <1>8 DEF Types
<1>12. Lists'
  <2>1. Heads' = Heads
    <3>1. \A x \in Queues : SemOf(x[1], x[2])' = SemOf(x[1], x[2])
      BY <1>7 DEF SemOf, Queues
    <3> QED
      BY <3>1 DEF Heads
  <2>2. Members' = Members
    BY <1>2 DEF Members
  <2> QED
    BY <1>2, <2>1, <2>2 DEF IInv, Lists
<1>13. Callers'
  <2>1. \A u \in Threads : pc[u] = "recv_wait" => Owns(ProcOf[u], loc[u].chan)'
    BY <1>0, <1>2, <1>6, <1>9, IpcAssumption DEF Callers
  <2> QED
    BY <1>0, <1>2, <2>1 DEF Callers
<1>14. OwnChannels'
  <2> SUFFICES ASSUME NEW q \in Processes, NEW j \in Entries(proc'[q].chans),
                      NEW d, d = proc'[q].chans.content[j]
               PROVE  /\ q \in Servers /\ proc'[q].chan = d /\ chan'[d].live
                      /\ \A j2 \in Entries(proc'[q].chans) : j = j2
                      /\ \A q2 \in Processes : Owns(q2, d)' => q = q2
    BY DEF OwnChannels
  <2>1. q # p /\ proc'[q] = proc[q] /\ d \in Channels
    BY <1>0, <1>8, EntryTypes
  <2>2. Owns(q, d)
    BY <2>1 DEF Owns
  <2>3. d # c
    BY <1>6, <2>1, <2>2
  <2> QED
    BY <1>0, <1>7, <1>9, <2>1, <2>3 DEF OwnChannels
<1>15. OwnConnects'
  <2>1. \A q \in Processes : proc'[q].fds = proc[q].fds
    BY <1>8
  <2>2. \A k \in Connects : conn[k].live => conn[k].chan \in Channels /\ chan'[conn[k].chan].live
    BY <1>0, <1>2, <1>7 DEF OwnConnects
  <2>3. OwnConnects /\ conn' = conn
    BY <1>0, <1>2
  <2> QED
    BY <2>1, <2>2, <2>3 DEF OwnConnects
<1>16. Slots' /\ Replies' /\ Messages'
  <2>1. \A d \in Live' : \A i \in Entries(chan[d].reply) : conn'[ConnAt(d, i)].owner = Awaiting(d, i)
    BY <1>2 DEF Awaiting
  <2>2. \A d \in Live' : chan'[d] = chan[d] /\ \A q \in Processes : Owns(q, d) => Owns(q, d)'
    BY <1>6, <1>7, <1>9, <1>10
  <2>3. ASSUME NEW q \in Processes, pending[q] # {}
        PROVE  proc'[q].chan = proc[q].chan /\ proc[q].chan \in Live'
    <3>1. q # p /\ Owns(q, proc[q].chan)
      BY <1>0, <1>2, <2>3 DEF Messages, PendingOf
    <3>2. proc[q].chan \in Live /\ proc[q].chan # c
      BY <1>0, <1>6, <3>1, OwnsFacts
    <3> QED
      BY <1>8, <1>10, <3>1, <3>2
  <2>4. Live' \subseteq Live
    BY <1>10
  <2>5. \A q \in Processes : pending[q] # {} => proc'[q].chan = proc[q].chan /\ proc[q].chan \in Live'
    BY <2>3
  <2> QED
    BY <1>2, <2>1, <2>2, <2>4, <2>5, QuietStep, Zenon
<1>17. Answers'
  BY <1>2 DEF IInv, Answers
<1> QED
  BY <1>11, <1>12, <1>13, <1>14, <1>15, <1>16, <1>17 DEF IInv

\* The connects in a reply table exist and their owners are in the middle of a
\* send.
LEMMA ReplyFacts ==
  ASSUME IInv, NEW c \in Live, NEW i \in Entries(chan[c].reply), NEW k, k = ConnAt(c, i),
         NEW u, u = Awaiting(c, i)
  PROVE  /\ k \in Connects /\ conn[k].live /\ conn[k].owner = u /\ conn[k].chan = c
         /\ u \in Threads /\ pc[u] = "send_reply" /\ sch.state[u] = "REPLY"
         /\ loc[u].conn = k /\ loc[u].chan = c
<1>0. Types /\ Callers /\ Replies /\ c \in Channels
  BY DEF IInv, Live
<1>1. /\ u \in Threads /\ pc[u] = "send_reply" /\ sch.state[u] = "REPLY"
      /\ loc[u].conn = k /\ loc[u].chan = c
  BY <1>0 DEF Replies, RepliesAt
<1>2. k \in Connects
  BY <1>0, EntryTypes
<1> QED
  BY <1>0, <1>1, <1>2 DEF Callers, Sending

\* A new connect leads to a channel that exists; what it holds has not been set.
LEMMA ConnectStep ==
  ASSUME IInv, Polite, NEW t \in Threads, NEW p \in Processes, NEW id, NEW k \in Connects,
         NEW old \in {NULL, Garbage}, ipc_connect(t, p, id, k, old)
  PROVE  IInv'
<1>0. Types /\ Callers /\ OwnChannels /\ OwnConnects /\ Messages /\ Answers
  BY DEF IInv
<1>a. PICK q \in Processes : q = ProcOf[t]
  BY IpcAssumption
<1>1. PICK c : q = ProcOf[t] /\ c = vector_get(proc[p].chans, id)
  BY <1>a
<1>2. /\ c \in Channels /\ ~conn[k].live
      /\ conn' = [conn EXCEPT ![k] =
           [live |-> TRUE, owner |-> NULL, chan |-> proc[p].chan, msg |-> old, status |-> NoStatus]]
      /\ proc' = [proc EXCEPT ![q].fds = vector_add(@, k)]
      /\ UNCHANGED <<sch, chan, pc, loc, pending, fault>>
  BY <1>1 DEF ipc_connect, Obeys, Polite
<1>3. NULL \notin Channels /\ Wild \notin Channels /\ NULL \notin Connects
  BY IpcAssumption
<1>4. id \in Entries(proc[p].chans) /\ proc[p].chans.content[id] = c
  BY <1>0, <1>1, <1>2, <1>3, EntryTypes, VectorGet
<1>5. proc[p].chan = c /\ chan[c].live
  BY <1>0, <1>4 DEF OwnChannels
<1>6. /\ conn'[k].live /\ conn'[k].chan = c /\ conn'[k].msg \in {NULL, Garbage}
      /\ \A l \in Connects \ {k} : conn'[l] = conn[l]
      /\ conn' \in [Connects -> Connect]
  BY <1>0, <1>2, <1>5 DEF Types, Connect, Pointer, Message, Status, NoStatus
<1>7. PICK i : /\ proc' \in [Processes -> Process]
               /\ proc'[q].chan = proc[q].chan /\ proc'[q].chans = proc[q].chans
               /\ i \notin Entries(proc[q].fds) /\ Entries(proc'[q].fds) = Entries(proc[q].fds) \cup {i}
               /\ proc'[q].fds.content[i] = k
               /\ \A j \in Entries(proc[q].fds) : proc'[q].fds.content[j] = proc[q].fds.content[j]
               /\ \A r \in Processes \ {q} : proc'[r] = proc[r]
  <2>1. PICK i, v2 : i = AddIndex(proc[q].fds) /\ v2 = vector_add(proc[q].fds, k)
    OBVIOUS
  <2>2. /\ v2 \in Vector(Connects) /\ Entries(v2) = Entries(proc[q].fds) \cup {i} /\ v2.content[i] = k
        /\ i \notin Entries(proc[q].fds)
        /\ \A j \in Entries(proc[q].fds) : v2.content[j] = proc[q].fds.content[j]
    <3>1. proc[q].fds \in Vector(Connects) /\ k # NULL
      BY <1>0, <1>3, EntryTypes
    <3> QED
      BY <2>1, <3>1, VectorAdd
  <2>3. proc[q] \in Process /\ proc \in [Processes -> Process]
    BY <1>0 DEF Types
  <2>4. /\ proc'[q] = [proc[q] EXCEPT !.fds = v2]
        /\ \A r \in Processes \ {q} : proc'[r] = proc[r]
        /\ proc' = [r \in Processes |-> proc'[r]]
    BY <1>2, <2>1, <2>3
  <2>5. /\ proc'[q].chan = proc[q].chan /\ proc'[q].fds = v2 /\ proc'[q].chans = proc[q].chans
        /\ proc'[q] \in Process
    BY <2>2, <2>3, <2>4 DEF Process
  <2> QED
    BY <2>2, <2>3, <2>4, <2>5
<1>8. \A r \in Processes : proc'[r].chan = proc[r].chan /\ proc'[r].chans = proc[r].chans
  BY <1>7
<1>9. \A r \in Processes : \A d : Owns(r, d)' <=> Owns(r, d)
  BY <1>8 DEF Owns
<1>10. Live' = Live /\ Live \subseteq Channels
  BY <1>2 DEF Live
<1>11. \A u \in Threads : pc[u] \in Sending => loc[u].conn \in Connects \ {k}
  BY <1>0, <1>2 DEF Callers
<1>12. Types'
  BY <1>0, <1>2, <1>6, <1>7 DEF Types
<1>13. Lists'
  <2>1. Heads' = Heads /\ Members' = Members
    BY <1>2 DEF Heads, SemOf, Members
  <2> QED
    BY <1>2, <2>1 DEF IInv, Lists
<1>14. Callers'
  BY <1>0, <1>2, <1>6, <1>9, <1>11, IpcAssumption DEF Callers
<1>15. OwnChannels'
  <2>1. OwnChannels /\ chan' = chan
    BY <1>0, <1>2
  <2> QED
    BY <1>8, <1>9, <2>1, EntryTypes DEF OwnChannels
<1>16. OwnConnects'
  <2>1. \A r \in Processes : \A j \in Entries(proc[r].fds) :
          proc[r].fds.content[j] \in Connects \ {k} /\ conn'[proc[r].fds.content[j]].live
    BY <1>0, <1>2, <1>6, EntryTypes DEF OwnConnects
  <2>2. \A r \in Processes : \A j \in Entries(proc'[r].fds) :
          \/ r = q /\ j = i /\ proc'[r].fds.content[j] = k
          \/ j \in Entries(proc[r].fds) /\ proc'[r].fds.content[j] = proc[r].fds.content[j]
    BY <1>7
  <2>3. ASSUME NEW r1 \in Processes, NEW r2 \in Processes,
               NEW j1 \in Entries(proc'[r1].fds), NEW j2 \in Entries(proc'[r2].fds),
               proc'[r1].fds.content[j1] = proc'[r2].fds.content[j2]
        PROVE  r1 = r2 /\ j1 = j2
    <3>1. OwnConnects
      BY <1>0
    <3> QED
      BY <2>1, <2>2, <2>3, <3>1 DEF OwnConnects
  <2>4. \A r \in Processes : \A j \in Entries(proc'[r].fds) : conn'[proc'[r].fds.content[j]].live
    BY <1>6, <2>1, <2>2
  <2>5. \A l \in Connects : conn'[l].live => conn'[l].chan \in Channels /\ chan'[conn'[l].chan].live
    BY <1>0, <1>2, <1>5, <1>6 DEF OwnConnects
  <2> QED
    BY <2>3, <2>4, <2>5 DEF OwnConnects
<1>17. Slots' /\ Replies' /\ Messages'
  <2>1. \A d \in Live' : \A j \in Entries(chan[d].reply) : conn'[ConnAt(d, j)].owner = Awaiting(d, j)
    BY <1>2, <1>6, <1>10, ReplyFacts DEF Awaiting
  <2>2. \A d \in Live' : chan'[d] = chan[d] /\ \A r \in Processes : Owns(r, d) => Owns(r, d)'
    BY <1>2, <1>9
  <2>3. \A r \in Processes : pending[r] # {} => proc'[r].chan = proc[r].chan /\ proc[r].chan \in Live'
    <3>1. \A r \in Processes : pending[r] # {} => Owns(r, proc[r].chan)
      BY <1>0 DEF Messages, PendingOf
    <3> QED
      BY <1>0, <1>8, <1>10, <3>1, OwnsFacts
  <2>4. Live' \subseteq Live
    BY <1>10
  <2> QED
    BY <1>2, <2>1, <2>2, <2>3, <2>4, QuietStep, Zenon
<1>18. Answers'
  <2>1. \A u \in Threads : pc[u] = "send_reply" => conn'[loc[u].conn] = conn[loc[u].conn]
    BY <1>6, <1>11 DEF Sending
  <2>2. \A l \in Connects : conn'[l].live =>
          \/ conn'[l].msg \in {NULL, Garbage}
          \/ \E u \in Threads : pc[u] = "send_reply" /\ sch.state[u] = "READY" /\ loc[u].conn = l
    BY <1>0, <1>6 DEF Answers
  <2>3. Answers /\ UNCHANGED <<sch, pc, loc>>
    BY <1>0, <1>2
  <2> QED
    BY <2>1, <2>2, <2>3 DEF Answers
<1> QED
  BY <1>12, <1>13, <1>14, <1>15, <1>16, <1>17, <1>18 DEF IInv

\* Nobody uses a connect that its owner gives up.
LEMMA DisconnectStep ==
  ASSUME IInv, Polite, NEW t \in Threads, NEW id, ipc_disconnect(t, id)
  PROVE  IInv'
<1>0. Types /\ Callers /\ OwnChannels /\ OwnConnects /\ Messages /\ Answers
  BY DEF IInv
<1>a. PICK q \in Processes : q = ProcOf[t]
  BY IpcAssumption
<1>1. PICK k : q = ProcOf[t] /\ k = vector_get(proc[q].fds, id)
  BY <1>a
<1>2. /\ k \in Connects
      /\ \A u \in Threads : pc[u] # "user" => loc[u].conn # k
      /\ conn' = [conn EXCEPT ![k].live = FALSE]
      /\ proc' = [proc EXCEPT ![q].fds = vector_set(@, id, NULL, NULL)]
      /\ UNCHANGED <<sch, chan, pc, loc, pending, fault>>
  BY <1>1 DEF ipc_disconnect, Obeys, Polite, Using
<1>3. NULL \notin Connects /\ Wild \notin Connects
  BY IpcAssumption
<1>4. id \in Entries(proc[q].fds) /\ proc[q].fds.content[id] = k /\ proc[q].fds \in Vector(Connects)
  BY <1>0, <1>1, <1>2, <1>3, EntryTypes, VectorGet
<1>5. /\ ~conn'[k].live /\ conn'[k].owner = conn[k].owner
      /\ \A l \in Connects \ {k} : conn'[l] = conn[l]
      /\ conn' \in [Connects -> Connect]
  BY <1>0, <1>2 DEF Types, Connect
<1>6. /\ proc' \in [Processes -> Process]
      /\ proc'[q].chan = proc[q].chan /\ proc'[q].chans = proc[q].chans
      /\ Entries(proc'[q].fds) = Entries(proc[q].fds) \ {id}
      /\ \A j \in Entries(proc'[q].fds) : proc'[q].fds.content[j] = proc[q].fds.content[j]
      /\ \A r \in Processes \ {q} : proc'[r] = proc[r]
  <2>1. PICK v2 : v2 = vector_set(proc[q].fds, id, NULL, NULL)
    OBVIOUS
  <2>2. /\ v2 \in Vector(Connects) /\ Entries(v2) = Entries(proc[q].fds) \ {id}
        /\ \A j \in Entries(v2) : v2.content[j] = proc[q].fds.content[j]
    BY <1>4, <2>1, VectorDrop
  <2>3. proc[q] \in Process /\ proc \in [Processes -> Process]
    BY <1>0 DEF Types
  <2>4. /\ proc'[q] = [proc[q] EXCEPT !.fds = v2]
        /\ \A r \in Processes \ {q} : proc'[r] = proc[r]
        /\ proc' = [r \in Processes |-> proc'[r]]
    BY <1>2, <2>1, <2>3
  <2>5. /\ proc'[q].chan = proc[q].chan /\ proc'[q].fds = v2 /\ proc'[q].chans = proc[q].chans
        /\ proc'[q] \in Process
    BY <2>2, <2>3, <2>4 DEF Process
  <2> QED
    BY <2>2, <2>3, <2>4, <2>5
<1>7. \A r \in Processes : proc'[r].chan = proc[r].chan /\ proc'[r].chans = proc[r].chans
  BY <1>6
<1>8. \A r \in Processes : \A d : Owns(r, d)' <=> Owns(r, d)
  BY <1>7 DEF Owns
<1>9. Live' = Live /\ Live \subseteq Channels
  BY <1>2 DEF Live
<1>10. \A u \in Threads : pc[u] \in Sending => loc[u].conn \in Connects \ {k}
  BY <1>0, <1>2 DEF Callers, Sending
<1>11. Types'
  BY <1>0, <1>2, <1>5, <1>6 DEF Types
<1>12. Lists'
  <2>1. Heads' = Heads /\ Members' = Members
    BY <1>2 DEF Heads, SemOf, Members
  <2> QED
    BY <1>2, <2>1 DEF IInv, Lists
<1>13. Callers'
  BY <1>0, <1>2, <1>5, <1>8, <1>10, IpcAssumption DEF Callers
<1>14. OwnChannels'
  <2>1. OwnChannels /\ chan' = chan
    BY <1>0, <1>2
  <2> QED
    BY <1>7, <1>8, <2>1, EntryTypes DEF OwnChannels
<1>15. OwnConnects'
  <2>1. OwnConnects
    BY <1>0
  <2>2. \A r \in Processes : \A j \in Entries(proc'[r].fds) :
          /\ j \in Entries(proc[r].fds) /\ proc'[r].fds.content[j] = proc[r].fds.content[j]
          /\ r = q => j # id
    BY <1>6
  <2>3. \A r \in Processes : \A j \in Entries(proc'[r].fds) : proc[r].fds.content[j] \in Connects \ {k}
    BY <1>0, <1>4, <2>1, <2>2, EntryTypes DEF OwnConnects
  <2>4. \A r \in Processes : \A j \in Entries(proc'[r].fds) : conn'[proc'[r].fds.content[j]].live
    BY <1>5, <2>1, <2>2, <2>3 DEF OwnConnects
  <2>5. \A l \in Connects : conn'[l].live => conn'[l].chan \in Channels /\ chan'[conn'[l].chan].live
    BY <1>2, <1>5, <2>1 DEF OwnConnects
  <2>6. ASSUME NEW r1 \in Processes, NEW r2 \in Processes,
               NEW j1 \in Entries(proc'[r1].fds), NEW j2 \in Entries(proc'[r2].fds),
               proc'[r1].fds.content[j1] = proc'[r2].fds.content[j2]
        PROVE  r1 = r2 /\ j1 = j2
    BY <2>1, <2>2, <2>6 DEF OwnConnects
  <2> QED
    BY <2>4, <2>5, <2>6 DEF OwnConnects
<1>16. Slots' /\ Replies' /\ Messages'
  <2>1. \A d \in Live' : \A j \in Entries(chan[d].reply) : conn'[ConnAt(d, j)].owner = Awaiting(d, j)
    BY <1>5, <1>9, ReplyFacts DEF Awaiting
  <2>2. \A d \in Live' : chan'[d] = chan[d] /\ \A r \in Processes : Owns(r, d) => Owns(r, d)'
    BY <1>2, <1>8
  <2>3. \A r \in Processes : pending[r] # {} => proc'[r].chan = proc[r].chan /\ proc[r].chan \in Live'
    <3>1. \A r \in Processes : pending[r] # {} => Owns(r, proc[r].chan)
      BY <1>0 DEF Messages, PendingOf
    <3> QED
      BY <1>0, <1>7, <1>9, <3>1, OwnsFacts
  <2>4. Live' \subseteq Live
    BY <1>9
  <2> QED
    BY <1>2, <2>1, <2>2, <2>3, <2>4, QuietStep, Zenon
<1>17. Answers'
  <2>1. \A u \in Threads : pc[u] = "send_reply" => conn'[loc[u].conn] = conn[loc[u].conn]
    BY <1>5, <1>10 DEF Sending
  <2>2. \A l \in Connects : conn'[l].live => conn'[l] = conn[l]
    BY <1>5
  <2>3. Answers /\ UNCHANGED <<sch, pc, loc>>
    BY <1>0, <1>2
  <2> QED
    BY <2>1, <2>2, <2>3 DEF Answers
<1> QED
  BY <1>11, <1>12, <1>13, <1>14, <1>15, <1>16, <1>17 DEF IInv

-----------------------------------------------------------------------------
(* Messages *)

\* A sender that returns takes its answer with it.
LEMMA ReturnStep ==
  ASSUME IInv, NEW t \in Threads, SendReturn(t)
  PROVE  IInv'
<1>0. Types /\ Callers /\ OwnChannels /\ OwnConnects /\ Slots /\ Replies /\ Messages /\ Answers
  BY DEF IInv
<1>1. PICK k : k = loc[t].conn
  OBVIOUS
<1>2. pc[t] = "send_reply" /\ sch.state[t] = "READY"
  BY AtFacts DEF SendReturn
<1>3. k \in Connects /\ conn[k].live /\ conn[k].owner = t
  BY <1>0, <1>1, <1>2 DEF Callers, Sending
<1>4. conn[k].msg # Garbage
  BY <1>0, <1>1, <1>2, IpcAssumption DEF Answers
<1>5. /\ conn' = [conn EXCEPT ![k].msg = NULL]
      /\ pc' = [pc EXCEPT ![t] = "user"]
      /\ loc' = [loc EXCEPT ![t] = NoLocals]
      /\ UNCHANGED <<sch, proc, chan, pending, fault>>
  BY <1>1, <1>3, <1>4 DEF SendReturn
<1>6. /\ conn'[k].msg = NULL /\ conn'[k].live /\ conn'[k].owner = t
      /\ conn'[k].chan = conn[k].chan
      /\ \A l \in Connects \ {k} : conn'[l] = conn[l]
      /\ conn' \in [Connects -> Connect]
  BY <1>0, <1>3, <1>5 DEF Types, Connect, Message
<1>7. /\ pc'[t] = "user" /\ loc'[t] = NoLocals
      /\ \A u \in Threads \ {t} : pc'[u] = pc[u] /\ loc'[u] = loc[u]
  BY <1>0, <1>5 DEF Types
<1>8. Types'
  BY <1>0, <1>5, <1>6 DEF Types, NoLocals
<1>9. Lists'
  <2>1. Heads' = Heads
    BY <1>5 DEF Heads, SemOf
  <2>2. Members' = Members
    BY <1>2, <1>5, <1>7 DEF Members, Queues, Waits
  <2> QED
    BY <1>5, <2>1, <2>2 DEF IInv, Lists
<1>10. \A u \in Threads \ {t} : pc[u] \in Sending => loc[u].conn \in Connects \ {k}
  BY <1>0, <1>3 DEF Callers
<1>11. Callers'
  <2>1. \A p, c : Owns(p, c)' <=> Owns(p, c)
    BY <1>5 DEF Owns
  <2>2. ASSUME NEW u \in Threads, u # t
        PROVE  pc[u] \in Sending => conn'[loc[u].conn] = conn[loc[u].conn]
    BY <1>6, <1>10, <2>2
  <2> QED
    BY <1>0, <1>2, <1>5, <1>7, <2>1, <2>2 DEF Callers, Waits, Sending
<1>12. OwnChannels' /\ OwnConnects' /\ Live' = Live
  <2>1. \A l \in Connects : (conn'[l].live <=> conn[l].live) /\ conn'[l].chan = conn[l].chan
    BY <1>3, <1>6
  <2> QED
    BY <1>0, <1>5, <2>1, KeepOwned
<1>13. Slots'
  <2>1. \A d \in Channels : /\ WokenAt(d, "send_wait")' = WokenAt(d, "send_wait")
                            /\ WokenAt(d, "recv_wait")' = WokenAt(d, "recv_wait")
    BY <1>2, <1>5, <1>7 DEF WokenAt, Inside
  <2>2. Live \subseteq Channels
    BY DEF Live
  <2> QED
    BY <1>0, <1>5, <1>12, <2>1, <2>2 DEF Slots
<1>14. \A d \in Live : \A i \in Entries(chan[d].reply) : conn'[ConnAt(d, i)].owner = Awaiting(d, i)
  BY <1>3, <1>6, ReplyFacts DEF Awaiting
<1>15. Replies'
  <2> SUFFICES ASSUME NEW d \in Live PROVE RepliesAt(d)'
    BY <1>12 DEF Replies
  <2>1. d \in Channels /\ RepliesAt(d) /\ chan'[d].reply = chan[d].reply
    BY <1>0, <1>5 DEF Replies, Live
  <2>2. /\ \A u \in Threads : loc'[u].chan = d /\ sch'.state[u] = "REPLY" =>
                                loc[u].chan = d /\ sch.state[u] = "REPLY"
        /\ \A u \in Threads : loc[u].chan = d /\ sch.state[u] = "REPLY" =>
                                sch'.state[u] = "REPLY" /\ pc'[u] = pc[u] /\ loc'[u] = loc[u]
    BY <1>2, <1>5, <1>7
  <2> QED
    BY <1>14, <2>1, <2>2, RepliesFrame
<1>16. Messages'
  <2>1. ASSUME NEW d \in Live PROVE MessagesAt(d)'
    <3>1. d \in Channels /\ MessagesAt(d) /\ chan'[d] = chan[d] /\ pending' = pending
      BY <1>0, <1>5 DEF Messages, Live
    <3>2. \A p \in Processes : Owns(p, d) => Owns(p, d)'
      BY <1>5 DEF Owns
    <3> QED
      BY <1>14, <3>1, <3>2, MessagesFrame
  <2>2. ASSUME NEW p \in Processes PROVE PendingOf(p)'
    <3>1. PICK d : d = proc[p].chan
      OBVIOUS
    <3>2. PendingOf(p) /\ pending'[p] = pending[p] /\ proc'[p].chan = d /\ chan'[d] = chan[d]
      BY <1>0, <1>5, <3>1 DEF Messages
    <3>3. pending[p] # {} => Owns(p, d) /\ Owns(p, d)'
      BY <1>5, <3>1, <3>2 DEF PendingOf, Owns
    <3>4. pending[p] # {} => d \in Live
      BY <1>0, <3>3, OwnsFacts
    <3> QED
      BY <1>14, <3>1, <3>2, <3>3, <3>4, PendingFrame
  <2> QED
    BY <1>12, <2>1, <2>2 DEF Messages
<1>17. Answers'
  <2>1. Answers /\ sch' = sch
    BY <1>0, <1>5
  <2>2. \A u \in Threads \ {t} : pc[u] = "send_reply" => conn'[loc[u].conn] = conn[loc[u].conn]
    BY <1>6, <1>10 DEF Sending
  <2>3. ASSUME NEW l \in Connects, conn'[l].live
        PROVE  \/ conn'[l].msg \in {NULL, Garbage}
               \/ \E u \in Threads : pc'[u] = "send_reply" /\ sch.state[u] = "READY" /\ loc'[u].conn = l
    <3>1. CASE l = k
      BY <1>6, <3>1
    <3>2. CASE l # k
      <4>1. conn'[l] = conn[l]
        BY <1>6, <3>2
      <4>2. ASSUME NEW u \in Threads, pc[u] = "send_reply", sch.state[u] = "READY", loc[u].conn = l
            PROVE  pc'[u] = "send_reply" /\ loc'[u].conn = l
        BY <1>1, <1>7, <3>2, <4>2
      <4> QED
        BY <2>1, <2>3, <4>1, <4>2 DEF Answers
    <3> QED
      BY <3>1, <3>2
  <2> QED
    BY <1>7, <2>1, <2>2, <2>3 DEF Answers
<1> QED
  BY <1>8, <1>9, <1>11, <1>12, <1>13, <1>15, <1>16, <1>17 DEF IInv

\* The queues after a wait without a token on the semaphore l of channel c.
LEMMA WaitQueues ==
  ASSUME Lists, NEW t \in Threads, NEW c \in Channels, NEW l \in Waits,
         t = sch.current, sch.state[t] = "READY",
         ~HasToken(SemOf(c, l)), sch' = WaitSched(sch, SemOf(c, l)),
         \A y \in Queues : Heads'[y] = IF y = <<c, l>> /\ Heads[<<c, l>>] = NULL THEN t ELSE Heads[y],
         pc'[t] = l, loc'[t].chan = c,
         \A u \in Threads \ {t} : pc'[u] = pc[u] /\ loc'[u] = loc[u]
  PROVE  /\ Lists'
         /\ sch'.state[t] = "SEMA" /\ \A u \in Threads \ {t} : sch'.state[u] = sch.state[u]
<1>1. PICK x, h2, m2, sem :
        /\ x = <<c, l>> /\ h2 = Heads' /\ sem = SemOf(c, l)
        /\ m2 = [y \in Queues |-> IF y = <<c, l>> THEN Members[<<c, l>>] \cup {t} ELSE Members[y]]
  OBVIOUS
<1>2. \A y \in Queues : y = x <=> y[1] = c /\ y[2] = l
  BY <1>1 DEF Queues
<1>3. /\ ListsHold(sch, Heads, Members) /\ x \in Queues
      /\ t = sch.current /\ sch.state[t] = "READY"
      /\ sem.queue = Heads[x] /\ ~HasToken(sem) /\ sch' = WaitSched(sch, sem)
      /\ \A y \in Queues : h2[y] = IF y = x /\ Heads[x] = NULL THEN t ELSE Heads[y]
      /\ \A y \in Queues : m2[y] = IF y = x THEN Members[x] \cup {t} ELSE Members[y]
  <2>1. x \in Queues
    BY <1>1 DEF Queues
  <2>2. Heads[x] = SemOf(x[1], x[2]).queue /\ x[1] = c /\ x[2] = l
    BY <1>1, <2>1 DEF Heads
  <2> QED
    BY <1>1, <2>1, <2>2 DEF Lists
<1>4. /\ ListsHold(sch', h2, m2)
      /\ sch'.state[t] = "SEMA" /\ \A z \in Threads \ {t} : sch'.state[z] = sch.state[z]
      /\ sch'.current # NULL => sch'.state[sch'.current] = "READY"
  BY <1>3, WaitLists
<1>5. ASSUME NEW y \in Queues PROVE Members'[y] = m2[y]
  <2>1. /\ Members[y] = {u \in Threads : pc[u] = y[2] /\ loc[u].chan = y[1] /\ sch.state[u] = "SEMA"}
        /\ Members'[y] = {u \in Threads : pc'[u] = y[2] /\ loc'[u].chan = y[1] /\ sch'.state[u] = "SEMA"}
    BY DEF Members
  <2>2. \A u \in Threads : (pc'[u] = y[2] /\ loc'[u].chan = y[1] /\ sch'.state[u] = "SEMA")
          <=> IF u = t THEN y = x ELSE pc[u] = y[2] /\ loc[u].chan = y[1] /\ sch.state[u] = "SEMA"
    BY <1>2, <1>4
  <2> QED
    BY <1>3, <2>1, <2>2
<1>6. Members' = m2
  BY <1>1, <1>5 DEF Members
<1> QED
  BY <1>1, <1>4, <1>6 DEF Lists

\* A thread that finds no token queues on the semaphore l of channel c.  A sender
\* becomes the owner of a connect that nobody else uses.
LEMMA WaitStep ==
  ASSUME IInv, NEW t \in Threads, NEW c \in Live, NEW l \in Waits, At(t, "user"),
         ~HasToken(SemOf(c, l)), sch' = WaitSched(sch, SemOf(c, l)),
         chan' \in [Channels -> Channel], \A d \in Channels \ {c} : chan'[d] = chan[d],
         /\ chan'[c].live /\ chan'[c].reply = chan[c].reply /\ chan'[c].msg = chan[c].msg
         /\ chan'[c].recvid = chan[c].recvid,
         /\ chan'[c].send.count = chan[c].send.count /\ chan'[c].recv.count = chan[c].recv.count,
         /\ chan'[c].send.queue = IF l = "send_wait" /\ chan[c].send.queue = NULL THEN t ELSE chan[c].send.queue
         /\ chan'[c].recv.queue = IF l = "recv_wait" /\ chan[c].recv.queue = NULL THEN t ELSE chan[c].recv.queue,
         conn' \in [Connects -> Connect],
         \A k \in Connects : /\ conn'[k].live = conn[k].live /\ conn'[k].chan = conn[k].chan
                             /\ conn'[k].msg = conn[k].msg /\ conn'[k].status = conn[k].status,
         \A u \in Threads : pc[u] \in Sending => conn'[loc[u].conn] = conn[loc[u].conn],
         pc' = [pc EXCEPT ![t] = l],
         NEW k, loc' = [loc EXCEPT ![t] = [conn |-> k, chan |-> c]],
         l = "send_wait" => k \in Connects /\ conn'[k].live /\ conn'[k].owner = t /\ conn'[k].chan = c,
         l = "recv_wait" => k = NULL /\ Owns(ProcOf[t], c),
         UNCHANGED <<proc, pending, fault>>
  PROVE  IInv'
<1>0. Types /\ Callers /\ OwnChannels /\ OwnConnects /\ Slots /\ Replies /\ Messages /\ Answers
      /\ c \in Channels /\ Live \subseteq Channels
  BY DEF IInv, Live
<1>1. t = sch.current /\ pc[t] = "user" /\ sch.state[t] = "READY" /\ loc[t].chan = NULL
  BY <1>0, AtFacts, BlockedInside
<1>2. /\ pc'[t] = l /\ loc'[t] = [conn |-> k, chan |-> c]
      /\ \A u \in Threads \ {t} : pc'[u] = pc[u] /\ loc'[u] = loc[u]
  BY <1>0 DEF Types
<1>3. \A y \in Queues : Heads'[y] = IF y = <<c, l>> /\ Heads[<<c, l>>] = NULL THEN t ELSE Heads[y]
  <2> SUFFICES ASSUME NEW y \in Queues
               PROVE  Heads'[y] = IF y = <<c, l>> /\ Heads[<<c, l>>] = NULL THEN t ELSE Heads[y]
    OBVIOUS
  <2>1. y[1] \in Channels /\ y[2] \in Waits /\ (y = <<c, l>> <=> y[1] = c /\ y[2] = l)
        /\ <<c, l>> \in Queues
    BY <1>0 DEF Queues
  <2>2. Heads[y] = SemOf(y[1], y[2]).queue /\ Heads'[y] = SemOf(y[1], y[2])'.queue
        /\ Heads[<<c, l>>] = SemOf(c, l).queue
    BY <2>1 DEF Heads
  <2>3. CASE y[1] # c
    BY <2>1, <2>2, <2>3 DEF SemOf
  <2>4. CASE y[1] = c
    BY <2>1, <2>2, <2>4 DEF SemOf, Waits
  <2> QED
    BY <2>3, <2>4
<1>7. /\ Lists'
      /\ sch'.state[t] = "SEMA" /\ \A u \in Threads \ {t} : sch'.state[u] = sch.state[u]
  <2>1. /\ Lists /\ c \in Channels /\ t = sch.current /\ sch.state[t] = "READY"
        /\ ~HasToken(SemOf(c, l)) /\ sch' = WaitSched(sch, SemOf(c, l))
        /\ pc'[t] = l /\ loc'[t].chan = c
        /\ \A u \in Threads \ {t} : pc'[u] = pc[u] /\ loc'[u] = loc[u]
    BY <1>0, <1>1, <1>2 DEF IInv
  <2> QED
    BY <1>3, <2>1, WaitQueues
<1>10. Types'
  <2>1. sch' \in Sched
    BY <1>7 DEF Lists, ListsHold
  <2>2. k \in Connects \cup {NULL} /\ l \in {"user", "send_wait", "send_reply", "recv_wait"}
    BY DEF Waits
  <2> QED
    BY <1>0, <2>1, <2>2 DEF Types
<1>11. OwnChannels' /\ OwnConnects' /\ Live' = Live
  <2>1. \A d \in Channels : chan'[d].live <=> chan[d].live
    BY DEF Live
  <2> QED
    BY <1>0, <2>1, KeepOwned
<1>12. \A p, d : Owns(p, d)' <=> Owns(p, d)
  BY DEF Owns
<1>13. Callers'
  <2> SUFFICES ASSUME NEW u \in Threads
      PROVE  /\ pc'[u] = "user" => loc'[u] = NoLocals /\ sch'.state[u] \in {"READY", "DEAD"}
             /\ pc'[u] \in Waits => sch'.state[u] \in {"READY", "SEMA"}
             /\ pc'[u] = "send_reply" => sch'.state[u] \in {"READY", "REPLY"}
             /\ pc'[u] \in Sending =>
                  /\ loc'[u].conn \in Connects /\ loc'[u].chan \in Channels
                  /\ conn'[loc'[u].conn].live
                  /\ conn'[loc'[u].conn].owner = u
                  /\ conn'[loc'[u].conn].chan = loc'[u].chan
             /\ pc'[u] = "recv_wait" =>
                  loc'[u].conn = NULL /\ loc'[u].chan \in Channels /\ Owns(ProcOf[u], loc'[u].chan)
    BY <1>12 DEF Callers
  <2>1. CASE u = t
    BY <1>0, <1>2, <1>7, <2>1 DEF Waits, Sending
  <2>2. CASE u # t
    BY <1>0, <1>2, <1>7, <2>2 DEF Callers
  <2> QED
    BY <2>1, <2>2
<1>14. Slots'
  <2>1. \A d \in Channels : /\ WokenAt(d, "send_wait")' = WokenAt(d, "send_wait")
                            /\ WokenAt(d, "recv_wait")' = WokenAt(d, "recv_wait")
    BY <1>1, <1>2, <1>7 DEF WokenAt, Inside
  <2>2. \A d \in Channels : /\ chan'[d].send.count = chan[d].send.count /\ chan'[d].msg = chan[d].msg
                            /\ chan'[d].recv.count = chan[d].recv.count
    OBVIOUS
  <2> QED
    BY <1>0, <1>11, <2>1, <2>2 DEF Slots
<1>15. \A d \in Live : \A i \in Entries(chan[d].reply) : conn'[ConnAt(d, i)].owner = Awaiting(d, i)
  <2> SUFFICES ASSUME NEW d \in Live, NEW i \in Entries(chan[d].reply)
               PROVE  conn'[ConnAt(d, i)].owner = Awaiting(d, i)
    OBVIOUS
  <2>1. PICK u : u = Awaiting(d, i)
    OBVIOUS
  <2>2. u \in Threads /\ pc[u] \in Sending /\ loc[u].conn = ConnAt(d, i)
    BY <2>1, ReplyFacts DEF Sending
  <2> QED
    BY <2>1, <2>2 DEF Awaiting
<1>16. \A d \in Channels : chan'[d].reply = chan[d].reply /\ chan'[d].msg = chan[d].msg
                           /\ chan'[d].recvid = chan[d].recvid
  OBVIOUS
<1>17. Replies'
  <2> SUFFICES ASSUME NEW d \in Live PROVE RepliesAt(d)'
    BY <1>11 DEF Replies
  <2>1. d \in Channels /\ RepliesAt(d) /\ chan'[d].reply = chan[d].reply
    BY <1>0, <1>16 DEF Replies
  <2>2. /\ \A u \in Threads : loc'[u].chan = d /\ sch'.state[u] = "REPLY" =>
                                loc[u].chan = d /\ sch.state[u] = "REPLY"
        /\ \A u \in Threads : loc[u].chan = d /\ sch.state[u] = "REPLY" =>
                                sch'.state[u] = "REPLY" /\ pc'[u] = pc[u] /\ loc'[u] = loc[u]
    BY <1>1, <1>2, <1>7
  <2> QED
    BY <1>15, <2>1, <2>2, RepliesFrame
<1>18. Messages'
  <2>1. ASSUME NEW d \in Live PROVE MessagesAt(d)'
    <3>1. d \in Channels /\ MessagesAt(d) /\ pending' = pending
      BY <1>0 DEF Messages
    <3> QED
      BY <1>12, <1>15, <1>16, <3>1, MessagesFrame
  <2>2. ASSUME NEW p \in Processes PROVE PendingOf(p)'
    <3>1. PICK d : d = proc[p].chan
      OBVIOUS
    <3>2. PendingOf(p) /\ pending'[p] = pending[p] /\ proc'[p].chan = d
      BY <1>0, <3>1 DEF Messages
    <3>3. pending[p] # {} => Owns(p, d) /\ Owns(p, d)'
      BY <1>12, <3>1, <3>2 DEF PendingOf
    <3>4. pending[p] # {} => d \in Live /\ d \in Channels
      BY <1>0, <3>3, OwnsFacts
    <3> QED
      BY <1>15, <1>16, <3>1, <3>2, <3>3, <3>4, PendingFrame
  <2> QED
    BY <1>11, <2>1, <2>2 DEF Messages
<1>19. Answers'
  <2>1. \A u \in Threads : pc'[u] = "send_reply" /\ sch'.state[u] = "READY" <=>
                           pc[u] = "send_reply" /\ sch.state[u] = "READY"
    BY <1>1, <1>2, <1>7
  <2>2. \A u \in Threads : pc[u] = "send_reply" => loc'[u] = loc[u] /\ conn'[loc'[u].conn] = conn[loc[u].conn]
    BY <1>1, <1>2 DEF Sending
  <2>3. \A j \in Connects : conn'[j].live = conn[j].live /\ conn'[j].msg = conn[j].msg
    OBVIOUS
  <2>4. Answers
    BY <1>0
  <2> QED
    BY <2>1, <2>2, <2>3, <2>4 DEF Answers
<1> QED
  BY <1>7, <1>10, <1>11, <1>13, <1>14, <1>17, <1>18, <1>19 DEF IInv

\* A member of a queue waits there.
LEMMA MemberFacts ==
  ASSUME NEW c \in Channels, NEW l \in Waits, NEW u, u \in Members[<<c, l>>]
  PROVE  u \in Threads /\ pc[u] = l /\ loc[u].chan = c /\ sch.state[u] = "SEMA"
<1>1. <<c, l>> \in Queues
  BY DEF Queues
<1> QED
  BY <1>1 DEF Members

\* The queues after a message has been left in the slot of channel c.
LEMMA DepositQueues ==
  ASSUME Lists, NEW t \in Threads, NEW c \in Channels, NEW u, u = chan[c].recv.queue,
         t = sch.current, sch.state[t] = "READY",
         NEW ch, ch.recv = chan[c].recv, sch' = DepositSched(sch, ch, t),
         \A y \in Queues :
           Heads'[y] = IF y = <<c, "recv_wait">> /\ u # NULL THEN sch.next[u] ELSE Heads[y],
         pc'[t] = "send_reply",
         \A v \in Threads \ {t} : pc'[v] = pc[v] /\ loc'[v] = loc[v]
  PROVE  /\ Lists'
         /\ sch'.state[t] = "REPLY"
         /\ \A v \in Threads \ {t} : sch'.state[v] = IF v = u THEN "READY" ELSE sch.state[v]
         /\ u # NULL => u \in Threads /\ u # t /\ pc[u] = "recv_wait" /\ loc[u].chan = c
                        /\ sch.state[u] = "SEMA"
<1>1. PICK x, h2, m2, s1 :
        /\ x = <<c, "recv_wait">> /\ h2 = Heads' /\ s1 = SignalSched(sch, chan[c].recv)
        /\ m2 = [y \in Queues |-> IF y = x THEN Members[x] \ {u} ELSE Members[y]]
  OBVIOUS
<1>2. \A y \in Queues : y = x <=> y[1] = c /\ y[2] = "recv_wait"
  BY <1>1 DEF Queues
<1>3. /\ ListsHold(s1, h2, m2)
      /\ s1.current = sch.current
      /\ \A v \in Threads : s1.state[v] = IF v = u THEN "READY" ELSE sch.state[v]
      /\ u # NULL => u \in Members[x]
  <2>1. x \in Queues /\ x[1] = c /\ x[2] = "recv_wait"
    BY <1>1 DEF Queues, Waits
  <2>2. Heads[x] = u
    BY <2>1 DEF Heads, SemOf
  <2>3. Signalled(sch, Heads, Members, x, s1, h2, m2)
    BY <1>1, <2>2 DEF Signalled, SignalSched
  <2>4. ListsHold(sch, Heads, Members) /\ (sch.current # NULL => sch.state[sch.current] = "READY")
    BY DEF Lists
  <2> QED
    BY <2>1, <2>2, <2>3, <2>4, SignalLists
<1>4. u # NULL => u \in Threads /\ pc[u] = "recv_wait" /\ loc[u].chan = c /\ sch.state[u] = "SEMA"
  <2>1. "recv_wait" \in Waits
    BY DEF Waits
  <2> QED
    BY <1>1, <1>3, <2>1, MemberFacts
<1>5. u # NULL => u # t
  BY <1>4
<1>6. t = s1.current /\ s1.state[t] = "READY" /\ sch' = scheduler_schedule(thread_block(s1, t, "REPLY"))
  BY <1>1, <1>3 DEF DepositSched
<1>7. /\ ListsHold(sch', h2, m2)
      /\ sch'.state[t] = "REPLY" /\ \A z \in Threads \ {t} : sch'.state[z] = s1.state[z]
      /\ sch'.current # NULL => sch'.state[sch'.current] = "READY"
  <2>1. "REPLY" \in {"REPLY", "DEAD"}
    OBVIOUS
  <2> QED
    BY <1>3, <1>6, <2>1, BlockLists
<1>8. ASSUME NEW y \in Queues PROVE Members'[y] = m2[y]
  <2>1. /\ Members[y] = {v \in Threads : pc[v] = y[2] /\ loc[v].chan = y[1] /\ sch.state[v] = "SEMA"}
        /\ Members'[y] = {v \in Threads : pc'[v] = y[2] /\ loc'[v].chan = y[1] /\ sch'.state[v] = "SEMA"}
        /\ m2[y] = IF y = x THEN Members[x] \ {u} ELSE Members[y]
    BY <1>1 DEF Members
  <2>2. \A v \in Threads : (pc'[v] = y[2] /\ loc'[v].chan = y[1] /\ sch'.state[v] = "SEMA")
          <=> (pc[v] = y[2] /\ loc[v].chan = y[1] /\ sch.state[v] = "SEMA") /\ v # u
    BY <1>3, <1>7
  <2>3. \A v \in Threads : v = u /\ pc[v] = y[2] /\ loc[v].chan = y[1] => y = x
    BY <1>2, <1>4, NullAssumption
  <2> QED
    BY <2>1, <2>2, <2>3
<1>9. Members' = m2
  BY <1>1, <1>8 DEF Members
<1> QED
  BY <1>1, <1>3, <1>4, <1>5, <1>7, <1>9 DEF Lists

\* The queues after the slot of channel c has been passed on.
LEMMA CollectQueues ==
  ASSUME Lists, NEW t \in Threads, NEW c \in Channels, NEW u, u = chan[c].send.queue,
         t = sch.current, sch.state[t] = "READY", sch' = SignalSched(sch, chan[c].send),
         \A y \in Queues :
           Heads'[y] = IF y = <<c, "send_wait">> /\ u # NULL THEN sch.next[u] ELSE Heads[y],
         pc'[t] = "user",
         \A v \in Threads \ {t} : pc'[v] = pc[v] /\ loc'[v] = loc[v]
  PROVE  /\ Lists'
         /\ sch'.state[t] = "READY"
         /\ \A v \in Threads \ {t} : sch'.state[v] = IF v = u THEN "READY" ELSE sch.state[v]
         /\ u # NULL => u \in Threads /\ u # t /\ pc[u] = "send_wait" /\ loc[u].chan = c
                        /\ sch.state[u] = "SEMA"
<1>1. PICK x, h2, m2, s1 :
        /\ x = <<c, "send_wait">> /\ h2 = Heads' /\ s1 = sch'
        /\ m2 = [y \in Queues |-> IF y = x THEN Members[x] \ {u} ELSE Members[y]]
  OBVIOUS
<1>2. \A y \in Queues : y = x <=> y[1] = c /\ y[2] = "send_wait"
  BY <1>1 DEF Queues
<1>3. /\ ListsHold(s1, h2, m2)
      /\ s1.current = sch.current
      /\ \A v \in Threads : s1.state[v] = IF v = u THEN "READY" ELSE sch.state[v]
      /\ u # NULL => u \in Members[x]
  <2>1. x \in Queues /\ x[1] = c /\ x[2] = "send_wait"
    BY <1>1 DEF Queues, Waits
  <2>2. Heads[x] = u
    BY <2>1 DEF Heads, SemOf
  <2>3. Signalled(sch, Heads, Members, x, s1, h2, m2)
    BY <1>1, <2>2 DEF Signalled, SignalSched
  <2>4. ListsHold(sch, Heads, Members) /\ (sch.current # NULL => sch.state[sch.current] = "READY")
    BY DEF Lists
  <2> QED
    BY <2>1, <2>2, <2>3, <2>4, SignalLists
<1>4. u # NULL => u \in Threads /\ pc[u] = "send_wait" /\ loc[u].chan = c /\ sch.state[u] = "SEMA"
  <2>1. "send_wait" \in Waits
    BY DEF Waits
  <2> QED
    BY <1>1, <1>3, <2>1, MemberFacts
<1>5. u # NULL => u # t
  BY <1>4
<1>6. ASSUME NEW y \in Queues PROVE Members'[y] = m2[y]
  <2>1. /\ Members[y] = {v \in Threads : pc[v] = y[2] /\ loc[v].chan = y[1] /\ sch.state[v] = "SEMA"}
        /\ Members'[y] = {v \in Threads : pc'[v] = y[2] /\ loc'[v].chan = y[1] /\ sch'.state[v] = "SEMA"}
        /\ m2[y] = IF y = x THEN Members[x] \ {u} ELSE Members[y]
    BY <1>1 DEF Members
  <2>2. \A v \in Threads : (pc'[v] = y[2] /\ loc'[v].chan = y[1] /\ sch'.state[v] = "SEMA")
          <=> (pc[v] = y[2] /\ loc[v].chan = y[1] /\ sch.state[v] = "SEMA") /\ v # u
    BY <1>1, <1>3
  <2>3. \A v \in Threads : v = u /\ pc[v] = y[2] /\ loc[v].chan = y[1] => y = x
    BY <1>2, <1>4, NullAssumption
  <2> QED
    BY <2>1, <2>2, <2>3
<1>7. Members' = m2
  BY <1>1, <1>6 DEF Members
<1>8. sch'.current # NULL => sch'.state[sch'.current] = "READY"
  BY <1>1, <1>3
<1> QED
  BY <1>1, <1>3, <1>4, <1>5, <1>7, <1>8 DEF Lists

\* A sender that holds the slot of channel c, which is empty, leaves its message
\* there; the connect k is its own.
LEMMA DepositStep ==
  ASSUME IInv, NEW t \in Threads, NEW c \in Live, NEW k \in Connects,
         t = sch.current, sch.state[t] = "READY", pc[t] \in {"user", "send_wait"},
         loc[t].chan \in {NULL, c},
         chan[c].msg = NULL, chan[c].recv.count = 0, WokenAt(c, "recv_wait") = {},
         \A u \in WokenAt(c, "send_wait") : u = t,
         chan' \in [Channels -> Channel], \A d \in Channels \ {c} : chan'[d] = chan[d],
         chan'[c].live, chan'[c].msg = t,
         chan'[c].recvid = AddIndex(chan[c].reply), chan'[c].reply = vector_add(chan[c].reply, k),
         chan'[c].send.count = 0, chan'[c].send.queue = chan[c].send.queue,
         chan'[c].recv = SignalSem(sch, chan[c].recv),
         conn' \in [Connects -> Connect],
         \A l \in Connects : /\ conn'[l].live = conn[l].live /\ conn'[l].chan = conn[l].chan
                             /\ conn'[l].msg = conn[l].msg /\ conn'[l].status = conn[l].status,
         \A u \in Threads \ {t} : pc[u] \in Sending => loc[u].conn # k /\ conn'[loc[u].conn] = conn[loc[u].conn],
         conn'[k].live, conn'[k].owner = t, conn'[k].chan = c,
         pc' = [pc EXCEPT ![t] = "send_reply"],
         loc' = [loc EXCEPT ![t] = [conn |-> k, chan |-> c]],
         NEW ch, ch.recv = chan[c].recv, sch' = DepositSched(sch, ch, t),
         UNCHANGED <<proc, pending, fault>>
  PROVE  IInv'
<1>0. Types /\ Callers /\ OwnChannels /\ OwnConnects /\ Slots /\ Replies /\ Messages /\ Answers
      /\ c \in Channels /\ Live \subseteq Channels /\ Lists
  BY DEF IInv, Live
<1>1. /\ pc'[t] = "send_reply" /\ loc'[t].conn = k /\ loc'[t].chan = c
      /\ \A u \in Threads \ {t} : pc'[u] = pc[u] /\ loc'[u] = loc[u]
  BY <1>0 DEF Types
<1>2. PICK w : w = chan[c].recv.queue
  OBVIOUS
<1>3. /\ chan'[c].recv.count = IF w = NULL THEN 1 ELSE 0
      /\ chan'[c].recv.queue = IF w = NULL THEN NULL ELSE sch.next[w]
  BY <1>0, <1>2 DEF SignalSem, Types, Channel, SemState
<1>4. \A y \in Queues :
        Heads'[y] = IF y = <<c, "recv_wait">> /\ w # NULL THEN sch.next[w] ELSE Heads[y]
  <2> SUFFICES ASSUME NEW y \in Queues
      PROVE  Heads'[y] = IF y = <<c, "recv_wait">> /\ w # NULL THEN sch.next[w] ELSE Heads[y]
    OBVIOUS
  <2>1. y[1] \in Channels /\ y[2] \in Waits /\ (y = <<c, "recv_wait">> <=> y[1] = c /\ y[2] = "recv_wait")
    BY DEF Queues
  <2>2. Heads[y] = SemOf(y[1], y[2]).queue /\ Heads'[y] = SemOf(y[1], y[2])'.queue
    BY DEF Heads
  <2>3. CASE y[1] # c
    BY <2>1, <2>2, <2>3 DEF SemOf
  <2>4. CASE y[1] = c
    BY <1>2, <1>3, <2>1, <2>2, <2>4 DEF SemOf, Waits
  <2> QED
    BY <2>3, <2>4
<1>5. /\ Lists'
      /\ sch'.state[t] = "REPLY"
      /\ \A v \in Threads \ {t} : sch'.state[v] = IF v = w THEN "READY" ELSE sch.state[v]
      /\ w # NULL => w \in Threads /\ w # t /\ pc[w] = "recv_wait" /\ loc[w].chan = c
                     /\ sch.state[w] = "SEMA"
  <2>1. /\ Lists /\ c \in Channels /\ w = chan[c].recv.queue
        /\ t = sch.current /\ sch.state[t] = "READY"
        /\ ch.recv = chan[c].recv /\ sch' = DepositSched(sch, ch, t)
        /\ pc'[t] = "send_reply" /\ \A v \in Threads \ {t} : pc'[v] = pc[v] /\ loc'[v] = loc[v]
    BY <1>0, <1>1, <1>2
  <2> QED
    BY <1>4, <2>1, DepositQueues
<1>6. PICK i : i = AddIndex(chan[c].reply)
  OBVIOUS
<1>7. /\ i \notin Entries(chan[c].reply) /\ Entries(chan'[c].reply) = Entries(chan[c].reply) \cup {i}
      /\ ConnAt(c, i)' = k /\ \A j \in Entries(chan[c].reply) : ConnAt(c, j)' = ConnAt(c, j)
      /\ chan'[c].recvid = i
  <2>1. chan[c].reply \in Vector(Connects) /\ k # NULL
    BY <1>0, EntryTypes, IpcAssumption
  <2>2. PICK v2 : v2 = vector_add(chan[c].reply, k)
    OBVIOUS
  <2>3. /\ i \notin Entries(chan[c].reply) /\ Entries(v2) = Entries(chan[c].reply) \cup {i}
        /\ v2.content[i] = k /\ \A j \in Entries(chan[c].reply) : v2.content[j] = chan[c].reply.content[j]
    BY <1>6, <2>1, <2>2, VectorAdd
  <2> QED
    BY <1>6, <2>2, <2>3 DEF ConnAt
<1>8. Types'
  <2>1. sch' \in Sched
    BY <1>5 DEF Lists, ListsHold
  <2> QED
    BY <1>0, <2>1 DEF Types
<1>9. OwnChannels' /\ OwnConnects' /\ Live' = Live
  <2>1. \A d \in Channels : chan'[d].live <=> chan[d].live
    BY DEF Live
  <2> QED
    BY <1>0, <2>1, KeepOwned
<1>10. \A p, d : Owns(p, d)' <=> Owns(p, d)
  BY DEF Owns
<1>11. Callers'
  <2> SUFFICES ASSUME NEW u \in Threads
      PROVE  /\ pc'[u] = "user" => loc'[u] = NoLocals /\ sch'.state[u] \in {"READY", "DEAD"}
             /\ pc'[u] \in Waits => sch'.state[u] \in {"READY", "SEMA"}
             /\ pc'[u] = "send_reply" => sch'.state[u] \in {"READY", "REPLY"}
             /\ pc'[u] \in Sending =>
                  /\ loc'[u].conn \in Connects /\ loc'[u].chan \in Channels
                  /\ conn'[loc'[u].conn].live
                  /\ conn'[loc'[u].conn].owner = u
                  /\ conn'[loc'[u].conn].chan = loc'[u].chan
             /\ pc'[u] = "recv_wait" =>
                  loc'[u].conn = NULL /\ loc'[u].chan \in Channels /\ Owns(ProcOf[u], loc'[u].chan)
    BY <1>10 DEF Callers
  <2>1. CASE u = t
    <3>1. /\ pc'[u] = "send_reply" /\ sch'.state[u] = "REPLY" /\ loc'[u].conn = k /\ loc'[u].chan = c
          /\ c \in Channels
      BY <1>0, <1>1, <1>5, <2>1
    <3> QED
      BY <2>1, <3>1 DEF Waits
  <2>2. CASE u # t
    <3>1. Callers /\ pc'[u] = pc[u] /\ loc'[u] = loc[u]
          /\ (pc[u] \in Sending => conn'[loc[u].conn] = conn[loc[u].conn])
          /\ sch'.state[u] \in {sch.state[u], "READY"}
      BY <1>0, <1>1, <1>5, <2>2
    <3> QED
      BY <3>1 DEF Callers
  <2> QED
    BY <2>1, <2>2
<1>12. Slots'
  <2> SUFFICES ASSUME NEW d \in Live
               PROVE  SlotHeld(chan'[d].send.count, WokenAt(d, "send_wait")',
                               chan'[d].recv.count, WokenAt(d, "recv_wait")', chan'[d].msg)
    BY <1>9 DEF Slots
  <2>1. CASE d = c
    <3>1. WokenAt(c, "send_wait")' = {}
      BY <1>1, <1>5, NullAssumption DEF WokenAt, Inside
    <3>2. WokenAt(c, "recv_wait")' = IF w = NULL THEN {} ELSE {w}
      BY <1>1, <1>5, NullAssumption DEF WokenAt, Inside
    <3>3. t # NULL
      BY NullAssumption
    <3> QED
      BY <1>3, <1>5, <2>1, <3>1, <3>2, <3>3 DEF SlotHeld
  <2>2. CASE d # c
    <3>1. loc[t].chan # d /\ loc'[t].chan # d
      BY <1>0, <1>1, <2>2, IpcAssumption
    <3>2. /\ WokenAt(d, "send_wait")' = WokenAt(d, "send_wait")
          /\ WokenAt(d, "recv_wait")' = WokenAt(d, "recv_wait")
      BY <1>1, <1>5, <2>2, <3>1, NullAssumption DEF WokenAt, Inside
    <3> QED
      BY <1>0, <2>2, <3>2 DEF Slots
  <2> QED
    BY <2>1, <2>2
<1>13. \A d \in Live : \A j \in Entries(chan[d].reply) :
         conn'[ConnAt(d, j)].owner = Awaiting(d, j) /\ ConnAt(d, j) # k /\ Awaiting(d, j) # t
  <2> SUFFICES ASSUME NEW d \in Live, NEW j \in Entries(chan[d].reply)
               PROVE  conn'[ConnAt(d, j)].owner = Awaiting(d, j) /\ ConnAt(d, j) # k /\ Awaiting(d, j) # t
    OBVIOUS
  <2>1. PICK u : u = Awaiting(d, j)
    OBVIOUS
  <2>2. u \in Threads /\ pc[u] = "send_reply" /\ loc[u].conn = ConnAt(d, j)
    BY <2>1, ReplyFacts
  <2>3. u # t /\ pc[u] \in Sending
    BY <2>2 DEF Sending
  <2> QED
    BY <2>1, <2>2, <2>3 DEF Awaiting
<1>14. Replies'
  <2> SUFFICES ASSUME NEW d \in Live PROVE RepliesAt(d)'
    BY <1>9 DEF Replies
  <2>1. /\ \A u \in Threads \ {t} : sch'.state[u] = "REPLY" <=> sch.state[u] = "REPLY"
        /\ \A u \in Threads \ {t} : pc'[u] = pc[u] /\ loc'[u] = loc[u]
    BY <1>1, <1>5, NullAssumption
  <2>2. RepliesAt(d) /\ d \in Channels
    BY <1>0 DEF Replies
  <2>3. CASE d = c
    <3>1. /\ \A j \in Entries(chan[c].reply) : Awaiting(c, j)' = Awaiting(c, j)
          /\ Awaiting(c, i)' = t
      BY <1>7, <1>13 DEF Awaiting
    <3>2. \A j \in Entries(chan'[c].reply) : LET u == Awaiting(c, j)' IN
            /\ u \in Threads /\ pc'[u] = "send_reply" /\ sch'.state[u] = "REPLY"
            /\ loc'[u].conn = ConnAt(c, j)' /\ loc'[u].chan = c
      <4> SUFFICES ASSUME NEW j \in Entries(chan'[c].reply), NEW u, u = Awaiting(c, j)'
                   PROVE  /\ u \in Threads /\ pc'[u] = "send_reply" /\ sch'.state[u] = "REPLY"
                          /\ loc'[u].conn = ConnAt(c, j)' /\ loc'[u].chan = c
        OBVIOUS
      <4>1. CASE j = i
        BY <1>1, <1>5, <1>7, <3>1, <4>1
      <4>2. CASE j # i
        <5>1. j \in Entries(chan[c].reply) /\ u = Awaiting(c, j) /\ ConnAt(c, j)' = ConnAt(c, j)
          BY <1>7, <3>1, <4>2
        <5>2. /\ u \in Threads /\ pc[u] = "send_reply" /\ sch.state[u] = "REPLY"
              /\ loc[u].conn = ConnAt(c, j) /\ loc[u].chan = c
          BY <5>1, ReplyFacts
        <5>3. u # t
          BY <5>2
        <5> QED
          BY <2>1, <5>1, <5>2, <5>3
      <4> QED
        BY <4>1, <4>2
    <3>3. \A j1, j2 \in Entries(chan'[c].reply) : ConnAt(c, j1)' = ConnAt(c, j2)' => j1 = j2
      <4>1. \A j1, j2 \in Entries(chan[c].reply) : ConnAt(c, j1) = ConnAt(c, j2) => j1 = j2
        BY <2>2, <2>3 DEF RepliesAt
      <4> QED
        BY <1>7, <1>13, <4>1
    <3>4. ASSUME NEW u \in Threads, loc'[u].chan = c, sch'.state[u] = "REPLY"
          PROVE  \E j \in Entries(chan'[c].reply) : ConnAt(c, j)' = loc'[u].conn
      <4>1. CASE u = t
        BY <1>1, <1>7, <4>1
      <4>2. CASE u # t
        <5>1. loc[u].chan = c /\ sch.state[u] = "REPLY" /\ loc'[u] = loc[u]
          BY <2>1, <3>4, <4>2
        <5>2. \E j \in Entries(chan[c].reply) : ConnAt(c, j) = loc[u].conn
          BY <2>2, <2>3, <5>1 DEF RepliesAt
        <5> QED
          BY <1>7, <5>1, <5>2
      <4> QED
        BY <4>1, <4>2
    <3> QED
      BY <2>3, <3>2, <3>3, <3>4 DEF RepliesAt
  <2>4. CASE d # c
    <3>1. chan'[d].reply = chan[d].reply /\ loc'[t].chan # d /\ loc[t].chan # d
      BY <1>1, <2>2, <2>4, IpcAssumption
    <3>2. /\ \A u \in Threads : loc'[u].chan = d /\ sch'.state[u] = "REPLY" =>
                                loc[u].chan = d /\ sch.state[u] = "REPLY"
          /\ \A u \in Threads : loc[u].chan = d /\ sch.state[u] = "REPLY" =>
                                sch'.state[u] = "REPLY" /\ pc'[u] = pc[u] /\ loc'[u] = loc[u]
      BY <2>1, <3>1
    <3>3. \A j \in Entries(chan[d].reply) : conn'[ConnAt(d, j)].owner = Awaiting(d, j)
      BY <1>13
    <3> QED
      BY <2>2, <3>1, <3>2, <3>3, RepliesFrame
  <2> QED
    BY <2>3, <2>4
<1>15. Messages'
  <2>1. ASSUME NEW d \in Live PROVE MessagesAt(d)'
    <3>1. d \in Channels /\ MessagesAt(d) /\ pending' = pending
      BY <1>0 DEF Messages
    <3>2. CASE d = c
      <4>1. /\ \A j \in Entries(chan[c].reply) : Awaiting(c, j)' = Awaiting(c, j)
            /\ Awaiting(c, i)' = t /\ InSlot(c, i)'
        BY <1>7, <1>13, NullAssumption DEF Awaiting, InSlot
      <4>2. \A j \in Entries(chan[c].reply) : ~InSlot(c, j)
        BY DEF InSlot
      <4>3. \A j \in Entries(chan[c].reply) :
              \E p \in Processes : /\ Owns(p, c)' /\ [recvid |-> j, msg |-> Awaiting(c, j)'] \in pending'[p]
        BY <1>10, <3>1, <3>2, <4>1, <4>2 DEF MessagesAt
      <4> QED
        BY <1>7, <3>2, <4>1, <4>3 DEF MessagesAt
    <3>3. CASE d # c
      <4>1. \A j \in Entries(chan[d].reply) : conn'[ConnAt(d, j)].owner = Awaiting(d, j)
        BY <1>13
      <4>2. /\ chan'[d].reply = chan[d].reply /\ chan'[d].msg = chan[d].msg
            /\ chan'[d].recvid = chan[d].recvid
        BY <3>1, <3>3
      <4> QED
        BY <1>10, <3>1, <4>1, <4>2, MessagesFrame
    <3> QED
      BY <3>2, <3>3
  <2>2. ASSUME NEW p \in Processes PROVE PendingOf(p)'
    <3>1. PICK d : d = proc[p].chan
      OBVIOUS
    <3>2. PendingOf(p) /\ pending'[p] = pending[p] /\ proc'[p].chan = d
      BY <1>0, <3>1 DEF Messages
    <3>3. pending[p] # {} => Owns(p, d) /\ Owns(p, d)'
      BY <1>10, <3>1, <3>2 DEF PendingOf
    <3>4. pending[p] # {} => d \in Live /\ d \in Channels
      BY <1>0, <3>3, OwnsFacts
    <3>5. CASE d = c
      <4> SUFFICES ASSUME NEW m \in pending[p]
                   PROVE  /\ Owns(p, c)' /\ m.recvid \in Entries(chan'[c].reply)
                          /\ m.msg = Awaiting(c, m.recvid)' /\ ~InSlot(c, m.recvid)'
        BY <3>2, <3>5 DEF PendingOf
      <4>1. m.recvid \in Entries(chan[c].reply) /\ m.msg = Awaiting(c, m.recvid)
        BY <3>1, <3>2, <3>5 DEF PendingOf
      <4>2. m.recvid # i /\ Awaiting(c, m.recvid)' = Awaiting(c, m.recvid)
        BY <1>7, <1>13, <4>1 DEF Awaiting
      <4> QED
        BY <1>7, <3>3, <3>5, <4>1, <4>2 DEF InSlot
    <3>6. CASE d # c
      <4>1. pending[p] # {} => \A j \in Entries(chan[d].reply) : conn'[ConnAt(d, j)].owner = Awaiting(d, j)
        BY <1>13, <3>4
      <4>2. pending[p] # {} => /\ chan'[d].reply = chan[d].reply /\ chan'[d].msg = chan[d].msg
                               /\ chan'[d].recvid = chan[d].recvid
        BY <3>4, <3>6
      <4> QED
        BY <3>1, <3>2, <3>3, <4>1, <4>2, PendingFrame
    <3> QED
      BY <3>5, <3>6
  <2> QED
    BY <1>9, <2>1, <2>2 DEF Messages
<1>16. Answers'
  <2>1. \A u \in Threads : pc'[u] = "send_reply" /\ sch'.state[u] = "READY" <=>
                           pc[u] = "send_reply" /\ sch.state[u] = "READY"
    BY <1>1, <1>5, NullAssumption
  <2>2. \A u \in Threads : pc[u] = "send_reply" => loc'[u] = loc[u] /\ conn'[loc'[u].conn] = conn[loc[u].conn]
    BY <1>1 DEF Sending
  <2>3. \A j \in Connects : conn'[j].live = conn[j].live /\ conn'[j].msg = conn[j].msg
    OBVIOUS
  <2>4. Answers
    BY <1>0
  <2> QED
    BY <2>1, <2>2, <2>3, <2>4 DEF Answers
<1> QED
  BY <1>5, <1>8, <1>9, <1>11, <1>12, <1>14, <1>15, <1>16 DEF IInv

\* A receiver that holds the slot of channel c, which is full, takes the message
\* out; its process is to answer it.
LEMMA CollectStep ==
  ASSUME IInv, NEW t \in Threads, NEW c \in Live, NEW p \in Processes, p = ProcOf[t], Owns(p, c),
         t = sch.current, sch.state[t] = "READY", pc[t] \in {"user", "recv_wait"},
         loc[t].chan \in {NULL, c},
         chan[c].msg # NULL, chan[c].send.count = 0, WokenAt(c, "send_wait") = {},
         \A u \in WokenAt(c, "recv_wait") : u = t,
         chan' \in [Channels -> Channel], \A d \in Channels \ {c} : chan'[d] = chan[d],
         chan'[c].live, chan'[c].msg = NULL,
         chan'[c].recvid = chan[c].recvid, chan'[c].reply = chan[c].reply,
         chan'[c].recv.count = 0, chan'[c].recv.queue = chan[c].recv.queue,
         chan'[c].send = SignalSem(sch, chan[c].send),
         pc' = [pc EXCEPT ![t] = "user"],
         loc' = [loc EXCEPT ![t] = NoLocals],
         pending' = [pending EXCEPT ![p] = @ \cup {[recvid |-> chan[c].recvid, msg |-> chan[c].msg]}],
         sch' = SignalSched(sch, chan[c].send),
         UNCHANGED <<proc, conn, fault>>
  PROVE  IInv'
<1>0. Types /\ Callers /\ OwnChannels /\ OwnConnects /\ Slots /\ Replies /\ Messages /\ Answers
      /\ c \in Channels /\ Live \subseteq Channels /\ Lists
  BY DEF IInv, Live
<1>1. /\ pc'[t] = "user" /\ loc'[t] = NoLocals /\ loc'[t].chan = NULL
      /\ \A u \in Threads \ {t} : pc'[u] = pc[u] /\ loc'[u] = loc[u]
  BY <1>0 DEF Types, NoLocals
<1>2. PICK w : w = chan[c].send.queue
  OBVIOUS
<1>3. /\ chan'[c].send.count = IF w = NULL THEN 1 ELSE 0
      /\ chan'[c].send.queue = IF w = NULL THEN NULL ELSE sch.next[w]
  BY <1>0, <1>2 DEF SignalSem, Types, Channel, SemState
<1>4. \A y \in Queues :
        Heads'[y] = IF y = <<c, "send_wait">> /\ w # NULL THEN sch.next[w] ELSE Heads[y]
  <2> SUFFICES ASSUME NEW y \in Queues
      PROVE  Heads'[y] = IF y = <<c, "send_wait">> /\ w # NULL THEN sch.next[w] ELSE Heads[y]
    OBVIOUS
  <2>1. y[1] \in Channels /\ y[2] \in Waits /\ (y = <<c, "send_wait">> <=> y[1] = c /\ y[2] = "send_wait")
    BY DEF Queues
  <2>2. Heads[y] = SemOf(y[1], y[2]).queue /\ Heads'[y] = SemOf(y[1], y[2])'.queue
    BY DEF Heads
  <2>3. CASE y[1] # c
    BY <2>1, <2>2, <2>3 DEF SemOf
  <2>4. CASE y[1] = c
    BY <1>2, <1>3, <2>1, <2>2, <2>4 DEF SemOf, Waits
  <2> QED
    BY <2>3, <2>4
<1>5. /\ Lists'
      /\ sch'.state[t] = "READY"
      /\ \A v \in Threads \ {t} : sch'.state[v] = IF v = w THEN "READY" ELSE sch.state[v]
      /\ w # NULL => w \in Threads /\ w # t /\ pc[w] = "send_wait" /\ loc[w].chan = c
                     /\ sch.state[w] = "SEMA"
  <2>1. /\ Lists /\ c \in Channels /\ w = chan[c].send.queue
        /\ t = sch.current /\ sch.state[t] = "READY"
        /\ sch' = SignalSched(sch, chan[c].send)
        /\ pc'[t] = "user" /\ \A v \in Threads \ {t} : pc'[v] = pc[v] /\ loc'[v] = loc[v]
    BY <1>0, <1>1, <1>2
  <2> QED
    BY <1>4, <2>1, CollectQueues
<1>6. /\ chan[c].recvid \in Entries(chan[c].reply) /\ chan[c].msg = Awaiting(c, chan[c].recvid)
  BY <1>0 DEF Messages, MessagesAt
<1>7. /\ pending'[p] = pending[p] \cup {[recvid |-> chan[c].recvid, msg |-> chan[c].msg]}
      /\ \A q \in Processes \ {p} : pending'[q] = pending[q]
      /\ pending' \in [Processes -> SUBSET [recvid : Nat, msg : Message]]
  BY <1>0 DEF Types, Channel
<1>8. Types'
  <2>1. sch' \in Sched
    BY <1>5 DEF Lists, ListsHold
  <2> QED
    BY <1>0, <1>7, <2>1 DEF Types, NoLocals
<1>9. OwnChannels' /\ OwnConnects' /\ Live' = Live
  <2>1. \A d \in Channels : chan'[d].live <=> chan[d].live
    BY DEF Live
  <2> QED
    BY <1>0, <2>1, KeepOwned
<1>10. \A q, d : Owns(q, d)' <=> Owns(q, d)
  BY DEF Owns
<1>11. Callers'
  <2> SUFFICES ASSUME NEW u \in Threads
      PROVE  /\ pc'[u] = "user" => loc'[u] = NoLocals /\ sch'.state[u] \in {"READY", "DEAD"}
             /\ pc'[u] \in Waits => sch'.state[u] \in {"READY", "SEMA"}
             /\ pc'[u] = "send_reply" => sch'.state[u] \in {"READY", "REPLY"}
             /\ pc'[u] \in Sending =>
                  /\ loc'[u].conn \in Connects /\ loc'[u].chan \in Channels
                  /\ conn'[loc'[u].conn].live
                  /\ conn'[loc'[u].conn].owner = u
                  /\ conn'[loc'[u].conn].chan = loc'[u].chan
             /\ pc'[u] = "recv_wait" =>
                  loc'[u].conn = NULL /\ loc'[u].chan \in Channels /\ Owns(ProcOf[u], loc'[u].chan)
    BY <1>10 DEF Callers
  <2>1. CASE u = t
    BY <1>1, <1>5, <2>1 DEF Waits, Sending
  <2>2. CASE u # t
    <3>1. Callers /\ pc'[u] = pc[u] /\ loc'[u] = loc[u] /\ conn' = conn
          /\ sch'.state[u] \in {sch.state[u], "READY"}
      BY <1>0, <1>1, <1>5, <2>2
    <3> QED
      BY <3>1 DEF Callers
  <2> QED
    BY <2>1, <2>2
<1>12. Slots'
  <2> SUFFICES ASSUME NEW d \in Live
               PROVE  SlotHeld(chan'[d].send.count, WokenAt(d, "send_wait")',
                               chan'[d].recv.count, WokenAt(d, "recv_wait")', chan'[d].msg)
    BY <1>9 DEF Slots
  <2>1. CASE d = c
    <3>1. WokenAt(c, "recv_wait")' = {}
      BY <1>1, <1>5, NullAssumption DEF WokenAt, Inside
    <3>2. WokenAt(c, "send_wait")' = IF w = NULL THEN {} ELSE {w}
      BY <1>1, <1>5, NullAssumption DEF WokenAt, Inside
    <3> QED
      BY <1>3, <1>5, <2>1, <3>1, <3>2 DEF SlotHeld
  <2>2. CASE d # c
    <3>1. loc[t].chan # d /\ loc'[t].chan # d
      BY <1>0, <1>1, <2>2, IpcAssumption
    <3>2. /\ WokenAt(d, "send_wait")' = WokenAt(d, "send_wait")
          /\ WokenAt(d, "recv_wait")' = WokenAt(d, "recv_wait")
      BY <1>1, <1>5, <2>2, <3>1, NullAssumption DEF WokenAt, Inside
    <3> QED
      BY <1>0, <2>2, <3>2 DEF Slots
  <2> QED
    BY <2>1, <2>2
<1>13. \A d, j : ConnAt(d, j)' = ConnAt(d, j) \/ d \notin Channels
  BY DEF ConnAt
<1>14. \A d \in Channels : \A j : Awaiting(d, j)' = Awaiting(d, j) /\ conn'[ConnAt(d, j)].owner = Awaiting(d, j)
  BY <1>13 DEF Awaiting
<1>15. \A d \in Channels : chan'[d].reply = chan[d].reply /\ chan'[d].recvid = chan[d].recvid
  OBVIOUS
<1>16. Replies'
  <2> SUFFICES ASSUME NEW d \in Live PROVE RepliesAt(d)'
    BY <1>9 DEF Replies
  <2>1. /\ \A u \in Threads : sch'.state[u] = "REPLY" <=> sch.state[u] = "REPLY"
        /\ \A u \in Threads : sch.state[u] = "REPLY" => pc'[u] = pc[u] /\ loc'[u] = loc[u]
    BY <1>1, <1>5, NullAssumption
  <2>2. RepliesAt(d) /\ d \in Channels
    BY <1>0 DEF Replies
  <2> QED
    BY <1>14, <1>15, <2>1, <2>2, RepliesFrame
<1>17. Messages'
  <2>1. ASSUME NEW d \in Live PROVE MessagesAt(d)'
    <3>1. d \in Channels /\ MessagesAt(d)
      BY <1>0 DEF Messages
    <3>2. CASE d = c
      <4> SUFFICES ASSUME NEW i \in Entries(chan[c].reply)
                   PROVE  \E q \in Processes : /\ Owns(q, c)
                                               /\ [recvid |-> i, msg |-> Awaiting(c, i)] \in pending'[q]
        BY <1>10, <1>14, <1>15, <3>1, <3>2 DEF MessagesAt
      <4>1. CASE InSlot(c, i)
        BY <1>6, <1>7, <4>1 DEF InSlot
      <4>2. CASE ~InSlot(c, i)
        <5>1. PICK q \in Processes : Owns(q, c) /\ [recvid |-> i, msg |-> Awaiting(c, i)] \in pending[q]
          BY <3>1, <3>2, <4>2 DEF MessagesAt
        <5>2. pending[q] \subseteq pending'[q]
          BY <1>7
        <5> QED
          BY <5>1, <5>2
      <4> QED
        BY <4>1, <4>2
    <3>3. CASE d # c
      <4>1. \A q \in Processes : Owns(q, d) => Owns(q, d)' /\ pending'[q] = pending[q]
        BY <1>0, <1>7, <1>10, <3>3, OwnsFacts
      <4>2. /\ chan'[d].reply = chan[d].reply /\ chan'[d].msg = chan[d].msg
            /\ chan'[d].recvid = chan[d].recvid
        BY <3>1, <3>3
      <4> QED
        BY <1>14, <3>1, <4>1, <4>2, MessagesFrame
    <3> QED
      BY <3>2, <3>3
  <2>2. ASSUME NEW q \in Processes PROVE PendingOf(q)'
    <3>1. PICK d : d = proc[q].chan
      OBVIOUS
    <3>2. PendingOf(q) /\ proc'[q].chan = d
      BY <1>0, <3>1 DEF Messages
    <3>3. CASE q = p
      <4>1. d = c
        BY <1>0, <3>1, <3>3, OwnsFacts
      <4> SUFFICES ASSUME NEW m \in pending'[p]
                   PROVE  /\ Owns(p, c)' /\ m.recvid \in Entries(chan'[c].reply)
                          /\ m.msg = Awaiting(c, m.recvid)' /\ ~InSlot(c, m.recvid)'
        BY <3>2, <3>3, <4>1 DEF PendingOf
      <4>2. m.recvid \in Entries(chan[c].reply) /\ m.msg = Awaiting(c, m.recvid)
        <5>1. CASE m \in pending[p]
          BY <3>1, <3>2, <3>3, <4>1, <5>1 DEF PendingOf
        <5>2. CASE m = [recvid |-> chan[c].recvid, msg |-> chan[c].msg]
          BY <1>6, <5>2
        <5> QED
          BY <1>7, <5>1, <5>2
      <4> QED
        BY <1>0, <1>10, <1>14, <4>2 DEF InSlot
    <3>4. CASE q # p
      <4>1. pending'[q] = pending[q]
        BY <1>7, <3>4
      <4>2. pending[q] # {} => Owns(q, d) /\ Owns(q, d)'
        BY <1>10, <3>1, <3>2 DEF PendingOf
      <4>3. pending[q] # {} => d \in Live /\ d \in Channels /\ d # c
        BY <1>0, <3>4, <4>2, OwnsFacts
      <4>4. pending[q] # {} => /\ chan'[d].reply = chan[d].reply /\ chan'[d].msg = chan[d].msg
                               /\ chan'[d].recvid = chan[d].recvid
        BY <4>3
      <4>5. pending[q] # {} => \A j \in Entries(chan[d].reply) : conn'[ConnAt(d, j)].owner = Awaiting(d, j)
        BY <1>14, <4>3
      <4> QED
        BY <3>1, <3>2, <4>1, <4>2, <4>4, <4>5, PendingFrame
    <3> QED
      BY <3>3, <3>4
  <2> QED
    BY <1>9, <2>1, <2>2 DEF Messages
<1>18. Answers'
  <2>1. \A u \in Threads : pc'[u] = "send_reply" /\ sch'.state[u] = "READY" <=>
                           pc[u] = "send_reply" /\ sch.state[u] = "READY"
    BY <1>1, <1>5, NullAssumption
  <2>2. \A u \in Threads : pc[u] = "send_reply" => loc'[u] = loc[u]
    BY <1>1
  <2>3. Answers /\ conn' = conn
    BY <1>0
  <2> QED
    BY <2>1, <2>2, <2>3 DEF Answers
<1> QED
  BY <1>5, <1>8, <1>9, <1>11, <1>12, <1>16, <1>17, <1>18 DEF IInv

\* A reply wakes the sender whose message has been answered.
LEMMA ReplyStep ==
  ASSUME IInv, Polite, NEW t \in Threads, NEW id, NEW data \in BOOLEAN, ipc_reply(t, id, data)
  PROVE  IInv'
<1>0. Types /\ Callers /\ OwnChannels /\ OwnConnects /\ Slots /\ Replies /\ Messages /\ Answers
      /\ Live \subseteq Channels /\ Lists
  BY DEF IInv, Live
<1>a. PICK p \in Processes : p = ProcOf[t]
  BY IpcAssumption
<1>b. PICK answered, c, k : /\ answered = {m \in pending[p] : m.recvid = id}
                            /\ c = proc[p].chan /\ k = vector_get(chan[c].reply, id)
  OBVIOUS
<1>1. /\ t = sch.current /\ pc[t] = "user" /\ sch.state[t] = "READY" /\ sch.current # NULL
      /\ answered # {}
      /\ data \/ (k \in Connects => conn[k].msg # Garbage)
  <2>1. At(t, "user")
    BY DEF ipc_reply
  <2>2. /\ answered # {}
        /\ data \/ (k \in Connects => conn[k].msg # Garbage)
    BY <1>a, <1>b DEF ipc_reply, Obeys, Polite
  <2> QED
    BY <2>1, <2>2, AtFacts
<1>2. /\ Owns(p, c) /\ id \in Entries(chan[c].reply) /\ ~InSlot(c, id)
      /\ \A m \in answered : m.msg = Awaiting(c, id)
  BY <1>0, <1>1, <1>b DEF Messages, PendingOf
<1>3. c \in Live /\ c \in Channels /\ \A q \in Processes : Owns(q, c) => p = q
  BY <1>0, <1>2, OwnsFacts
<1>4. k = ConnAt(c, id)
  <2>1. chan[c].reply \in Vector(Connects) /\ NULL \notin Connects /\ Wild \notin Connects
    BY <1>0, <1>3, EntryTypes, IpcAssumption
  <2> QED
    BY <1>2, <1>b, <2>1, VectorGet DEF ConnAt
<1>5. PICK u : u = Awaiting(c, id)
  OBVIOUS
<1>6. /\ k \in Connects /\ conn[k].live /\ conn[k].owner = u
      /\ u \in Threads /\ pc[u] = "send_reply" /\ sch.state[u] = "REPLY"
      /\ loc[u].conn = k /\ loc[u].chan = c
  BY <1>2, <1>3, <1>4, <1>5, ReplyFacts
<1>7. /\ chan' = [chan EXCEPT ![c].reply = vector_set(@, id, NULL, NULL)]
      /\ conn' = [conn EXCEPT ![k].status = [to |-> u, data |-> data], ![k].msg = IF data THEN u ELSE @]
      /\ sch' = thread_unblock(sch, u)
      /\ pending' = [pending EXCEPT ![p] = @ \ answered]
      /\ UNCHANGED <<proc, pc, loc, fault>>
  <2>1. PICK m : m = IF answered = {} THEN NULL ELSE (CHOOSE x \in answered : TRUE).msg
    OBVIOUS
  <2>2. m = u
    BY <1>1, <1>2, <1>5, <2>1
  <2>3. c # NULL /\ chan[c].live /\ k \in Connects /\ conn[k].live /\ conn[k].owner # NULL
    BY <1>3, <1>6, IpcAssumption, NullAssumption DEF Live
  <2>4. /\ c = proc[ProcOf[t]].chan /\ k = vector_get(chan[proc[ProcOf[t]].chan].reply, id)
        /\ answered = {x \in pending[ProcOf[t]] : x.recvid = id}
    BY <1>a, <1>b
  <2>5. /\ chan' = [chan EXCEPT ![c].reply = vector_set(@, id, NULL, NULL)]
        /\ conn' = [conn EXCEPT ![k].status = [to |-> m, data |-> data], ![k].msg = IF data THEN m ELSE @]
    BY <2>1, <2>3, <2>4, ZenonT(60) DEF ipc_reply
  <2>6. /\ sch' = thread_unblock(sch, conn[k].owner)
        /\ pending' = [pending EXCEPT ![ProcOf[t]] = @ \ answered]
        /\ UNCHANGED <<proc, pc, loc, fault>>
    BY <2>3, <2>4, ZenonT(60) DEF ipc_reply
  <2> QED
    BY <1>6, <1>a, <2>2, <2>5, <2>6
<1>8. \A v \in Threads : pc[v] \in Sending /\ v # u => loc[v].conn \in Connects \ {k}
  BY <1>0, <1>6 DEF Callers
<1>9. /\ ListsHold(sch', Heads, Members)
      /\ sch'.state[u] = "READY" /\ \A v \in Threads \ {u} : sch'.state[v] = sch.state[v]
      /\ sch'.current = sch.current
  <2>1. \A x \in Queues : u \notin Members[x]
    BY <1>6 DEF Members
  <2>2. ListsHold(sch, Heads, Members) /\ u # sch.current /\ sch.state[u] # "READY"
    BY <1>0, <1>1, <1>6 DEF Lists
  <2> QED
    BY <1>6, <1>7, <2>1, <2>2, UnblockLists
<1>10. /\ Entries(chan'[c].reply) = Entries(chan[c].reply) \ {id}
       /\ \A i \in Entries(chan'[c].reply) : ConnAt(c, i)' = ConnAt(c, i)
       /\ chan'[c].msg = chan[c].msg /\ chan'[c].recvid = chan[c].recvid
       /\ chan'[c].send = chan[c].send /\ chan'[c].recv = chan[c].recv
       /\ chan'[c].live = chan[c].live
       /\ \A d \in Channels \ {c} : chan'[d] = chan[d]
       /\ chan' \in [Channels -> Channel]
  <2>1. PICK v2 : v2 = vector_set(chan[c].reply, id, NULL, NULL)
    OBVIOUS
  <2>2. /\ v2 \in Vector(Connects) /\ Entries(v2) = Entries(chan[c].reply) \ {id}
        /\ \A i \in Entries(v2) : v2.content[i] = chan[c].reply.content[i]
    <3>1. chan[c].reply \in Vector(Connects)
      BY <1>0, <1>3, EntryTypes
    <3> QED
      BY <1>2, <2>1, <3>1, VectorDrop
  <2>3. chan[c] \in Channel /\ chan \in [Channels -> Channel]
    BY <1>0, <1>3 DEF Types
  <2>4. /\ chan'[c] = [chan[c] EXCEPT !.reply = v2]
        /\ \A d \in Channels \ {c} : chan'[d] = chan[d]
        /\ chan' = [d \in Channels |-> chan'[d]]
    BY <1>3, <1>7, <2>1, <2>3
  <2>5. /\ chan'[c].msg = chan[c].msg /\ chan'[c].recvid = chan[c].recvid
        /\ chan'[c].send = chan[c].send /\ chan'[c].recv = chan[c].recv
        /\ chan'[c].live = chan[c].live /\ chan'[c].reply = v2
        /\ chan'[c] \in Channel
    BY <2>2, <2>3, <2>4 DEF Channel
  <2> QED
    BY <2>2, <2>3, <2>4, <2>5 DEF ConnAt
<1>11. /\ conn'[k].status.to = u /\ conn'[k].status.data = data
       /\ conn'[k].msg = IF data THEN u ELSE conn[k].msg
       /\ \A l \in Connects : conn'[l].live = conn[l].live /\ conn'[l].chan = conn[l].chan
                              /\ conn'[l].owner = conn[l].owner
       /\ \A l \in Connects \ {k} : conn'[l] = conn[l]
       /\ conn' \in [Connects -> Connect]
  <2>1. conn[k] \in Connect /\ conn \in [Connects -> Connect]
    BY <1>0, <1>6 DEF Types
  <2>2. /\ conn'[k] = [conn[k] EXCEPT !.status = [to |-> u, data |-> data],
                                       !.msg = IF data THEN u ELSE conn[k].msg]
        /\ \A l \in Connects \ {k} : conn'[l] = conn[l]
        /\ conn' = [l \in Connects |-> conn'[l]]
    BY <1>6, <1>7, <2>1
  <2>a. [to |-> u, data |-> data] \in Status /\ (IF data THEN u ELSE conn[k].msg) \in Message
    BY <1>6, <2>1 DEF Connect, Status, Message
  <2>b. PICK status, msg, new : /\ status = [to |-> u, data |-> data]
                                /\ msg = IF data THEN u ELSE conn[k].msg
                                /\ new = conn'[k]
    OBVIOUS
  <2>c. new = [conn[k] EXCEPT !.status = status, !.msg = msg] /\ status \in Status /\ msg \in Message
    BY <2>2, <2>a, <2>b
  <2>d. /\ new.status = status /\ new.msg = msg
        /\ new.live = conn[k].live /\ new.chan = conn[k].chan /\ new.owner = conn[k].owner
        /\ new \in Connect
    BY <2>1, <2>c DEF Connect
  <2>3. /\ conn'[k].status.to = u /\ conn'[k].status.data = data
        /\ conn'[k].msg = IF data THEN u ELSE conn[k].msg
        /\ conn'[k].live = conn[k].live /\ conn'[k].chan = conn[k].chan /\ conn'[k].owner = conn[k].owner
        /\ conn'[k] \in Connect
    BY <2>b, <2>d
  <2>4. \A l \in Connects : conn'[l].live = conn[l].live /\ conn'[l].chan = conn[l].chan
                            /\ conn'[l].owner = conn[l].owner /\ conn'[l] \in Connect
    BY <2>1, <2>2, <2>3
  <2>5. conn' \in [Connects -> Connect]
    BY <2>2, <2>4
  <2> QED
    BY <2>2, <2>3, <2>4, <2>5
<1>12. /\ pending'[p] = pending[p] \ answered
       /\ \A q \in Processes \ {p} : pending'[q] = pending[q]
       /\ pending' \in [Processes -> SUBSET [recvid : Nat, msg : Message]]
  BY <1>0, <1>7 DEF Types
<1>13. Lists'
  <2>1. Heads' = Heads
    <3>1. \A d \in Channels : chan'[d].send = chan[d].send /\ chan'[d].recv = chan[d].recv
      BY <1>10
    <3>2. \A x \in Queues : SemOf(x[1], x[2])' = SemOf(x[1], x[2])
      BY <3>1 DEF SemOf, Queues
    <3> QED
      BY <3>2 DEF Heads
  <2>2. Members' = Members
    BY <1>6, <1>7, <1>9 DEF Members, Queues, Waits
  <2>3. sch'.current # NULL => sch'.state[sch'.current] = "READY"
    BY <1>1, <1>9
  <2> QED
    BY <1>9, <2>1, <2>2, <2>3 DEF Lists
<1>14. Types'
  BY <1>0, <1>7, <1>9, <1>10, <1>11, <1>12 DEF Types, ListsHold
<1>15. OwnChannels' /\ OwnConnects' /\ Live' = Live
  <2>1. \A d \in Channels : chan'[d].live <=> chan[d].live
    BY <1>10
  <2> QED
    BY <1>0, <1>7, <1>11, <2>1, KeepOwned
<1>16. \A q, d : Owns(q, d)' <=> Owns(q, d)
  BY <1>7 DEF Owns
<1>17. Callers'
  <2>1. \A v \in Threads : /\ pc'[v] = pc[v] /\ loc'[v] = loc[v]
                           /\ sch'.state[v] = IF v = u THEN "READY" ELSE sch.state[v]
    BY <1>7, <1>9
  <2>2. Callers
    BY <1>0
  <2> QED
    BY <1>6, <1>11, <1>16, <2>1, <2>2 DEF Callers, Waits, Sending
<1>18. Slots'
  <2>1. \A d \in Channels : /\ WokenAt(d, "send_wait")' = WokenAt(d, "send_wait")
                            /\ WokenAt(d, "recv_wait")' = WokenAt(d, "recv_wait")
    BY <1>6, <1>7, <1>9 DEF WokenAt, Inside
  <2>2. \A d \in Channels : /\ chan'[d].send = chan[d].send /\ chan'[d].msg = chan[d].msg
                            /\ chan'[d].recv = chan[d].recv
    BY <1>10
  <2> QED
    BY <1>0, <1>15, <2>1, <2>2 DEF Slots
<1>19. /\ \A i \in Entries(chan'[c].reply) : Awaiting(c, i)' = Awaiting(c, i) /\ Awaiting(c, i) # u
       /\ \A d \in Live : \A i \in Entries(chan[d].reply) : conn'[ConnAt(d, i)].owner = Awaiting(d, i)
  <2>1. \A d \in Live : \A i \in Entries(chan[d].reply) : conn'[ConnAt(d, i)].owner = Awaiting(d, i)
    BY <1>11, ReplyFacts DEF Awaiting
  <2>2. \A i, j \in Entries(chan[c].reply) : ConnAt(c, i) = ConnAt(c, j) => i = j
    BY <1>0, <1>3 DEF Replies, RepliesAt
  <2>3. ASSUME NEW i \in Entries(chan'[c].reply)
        PROVE  Awaiting(c, i)' = Awaiting(c, i) /\ Awaiting(c, i) # u
    <3>1. i \in Entries(chan[c].reply) /\ i # id /\ ConnAt(c, i)' = ConnAt(c, i)
      BY <1>10
    <3>2. ConnAt(c, i) # k
      BY <1>2, <1>4, <2>2, <3>1
    <3>3. loc[Awaiting(c, i)].conn = ConnAt(c, i)
      BY <1>3, <3>1, ReplyFacts
    <3> QED
      BY <1>3, <1>6, <2>1, <3>1, <3>2, <3>3 DEF Awaiting
  <2> QED
    BY <2>1, <2>3
<1>20. Replies'
  <2> SUFFICES ASSUME NEW d \in Live PROVE RepliesAt(d)'
    BY <1>15 DEF Replies
  <2>1. RepliesAt(d) /\ d \in Channels
    BY <1>0 DEF Replies
  <2>2. /\ \A v \in Threads : sch'.state[v] = "REPLY" <=> sch.state[v] = "REPLY" /\ v # u
        /\ \A v \in Threads : pc'[v] = pc[v] /\ loc'[v] = loc[v]
    BY <1>7, <1>9
  <2>3. CASE d = c
    <3>1. ASSUME NEW i \in Entries(chan'[c].reply), NEW v, v = Awaiting(c, i)'
          PROVE  /\ v \in Threads /\ pc'[v] = "send_reply" /\ sch'.state[v] = "REPLY"
                 /\ loc'[v].conn = ConnAt(c, i)' /\ loc'[v].chan = c
      <4>1. i \in Entries(chan[c].reply) /\ ConnAt(c, i)' = ConnAt(c, i) /\ v = Awaiting(c, i) /\ v # u
        BY <1>10, <1>19, <3>1
      <4>2. /\ v \in Threads /\ pc[v] = "send_reply" /\ sch.state[v] = "REPLY"
            /\ loc[v].conn = ConnAt(c, i) /\ loc[v].chan = c
        BY <1>3, <4>1, ReplyFacts
      <4> QED
        BY <2>2, <4>1, <4>2
    <3>2. \A i, j \in Entries(chan'[c].reply) : ConnAt(c, i)' = ConnAt(c, j)' => i = j
      BY <1>10, <2>1, <2>3 DEF RepliesAt
    <3>3. ASSUME NEW v \in Threads, loc'[v].chan = c, sch'.state[v] = "REPLY"
          PROVE  \E i \in Entries(chan'[c].reply) : ConnAt(c, i)' = loc'[v].conn
      <4>1. loc[v].chan = c /\ sch.state[v] = "REPLY" /\ v # u /\ loc'[v] = loc[v]
        BY <2>2, <3>3
      <4>2. PICK i \in Entries(chan[c].reply) : ConnAt(c, i) = loc[v].conn
        BY <2>1, <2>3, <4>1 DEF RepliesAt
      <4>3. loc[v].conn # k
        <5>1. pc[v] \in Sending
          BY <1>0, <4>1, BlockedInside DEF Sending
        <5> QED
          BY <1>8, <4>1, <5>1
      <4>4. i # id
        BY <1>4, <4>2, <4>3
      <4> QED
        BY <1>10, <4>1, <4>2, <4>4
    <3> QED
      BY <2>3, <3>1, <3>2, <3>3 DEF RepliesAt
  <2>4. CASE d # c
    <3>1. chan'[d].reply = chan[d].reply
      BY <1>10, <2>1, <2>4
    <3>2. /\ \A v \in Threads : loc'[v].chan = d /\ sch'.state[v] = "REPLY" =>
                                loc[v].chan = d /\ sch.state[v] = "REPLY"
          /\ \A v \in Threads : loc[v].chan = d /\ sch.state[v] = "REPLY" =>
                                sch'.state[v] = "REPLY" /\ pc'[v] = pc[v] /\ loc'[v] = loc[v]
      BY <1>6, <2>2, <2>4
    <3>3. \A i \in Entries(chan[d].reply) : conn'[ConnAt(d, i)].owner = Awaiting(d, i)
      BY <1>19
    <3> QED
      BY <2>1, <3>1, <3>2, <3>3, RepliesFrame
  <2> QED
    BY <2>3, <2>4
<1>21. Messages'
  <2>1. ASSUME NEW d \in Live PROVE MessagesAt(d)'
    <3>1. d \in Channels /\ MessagesAt(d)
      BY <1>0 DEF Messages
    <3>2. CASE d = c
      <4>1. \A i : InSlot(c, i)' <=> InSlot(c, i)
        BY <1>10 DEF InSlot
      <4>2. chan'[c].msg # NULL => /\ chan'[c].recvid \in Entries(chan'[c].reply)
                                   /\ chan'[c].msg = Awaiting(c, chan[c].recvid)'
        <5>1. chan[c].msg # NULL => /\ chan[c].recvid \in Entries(chan[c].reply)
                                    /\ chan[c].msg = Awaiting(c, chan[c].recvid)
          BY <3>1, <3>2 DEF MessagesAt
        <5>2. chan[c].msg # NULL => chan[c].recvid # id
          BY <1>2 DEF InSlot
        <5>3. PICK r : r = chan[c].recvid
          OBVIOUS
        <5>4. chan[c].msg # NULL => /\ r \in Entries(chan'[c].reply) /\ chan[c].msg = Awaiting(c, r)'
          BY <1>10, <1>19, <5>1, <5>2, <5>3
        <5> QED
          BY <1>10, <5>3, <5>4
      <4>3. ASSUME NEW i \in Entries(chan'[c].reply), ~InSlot(c, i)
            PROVE  \E q \in Processes : /\ Owns(q, c)' /\ [recvid |-> i, msg |-> Awaiting(c, i)'] \in pending'[q]
        <5>1. i \in Entries(chan[c].reply) /\ i # id /\ Awaiting(c, i)' = Awaiting(c, i)
          BY <1>10, <1>19
        <5>2. PICK q \in Processes : Owns(q, c) /\ [recvid |-> i, msg |-> Awaiting(c, i)] \in pending[q]
          BY <3>1, <3>2, <4>3, <5>1 DEF MessagesAt
        <5>3. [recvid |-> i, msg |-> Awaiting(c, i)] \notin answered
          BY <1>b, <5>1
        <5>4. [recvid |-> i, msg |-> Awaiting(c, i)] \in pending'[q]
          BY <1>12, <5>2, <5>3
        <5> QED
          BY <1>16, <5>1, <5>2, <5>4
      <4> QED
        BY <1>10, <3>2, <4>1, <4>2, <4>3 DEF MessagesAt
    <3>3. CASE d # c
      <4>1. \A q \in Processes : Owns(q, d) => Owns(q, d)' /\ pending'[q] = pending[q]
        BY <1>0, <1>2, <1>12, <1>16, <3>3, OwnsFacts
      <4>2. /\ chan'[d].reply = chan[d].reply /\ chan'[d].msg = chan[d].msg
            /\ chan'[d].recvid = chan[d].recvid
        BY <1>10, <3>1, <3>3
      <4> QED
        BY <1>19, <3>1, <4>1, <4>2, MessagesFrame
    <3> QED
      BY <3>2, <3>3
  <2>2. ASSUME NEW q \in Processes PROVE PendingOf(q)'
    <3>1. PICK d : d = proc[q].chan
      OBVIOUS
    <3>2. PendingOf(q) /\ proc'[q].chan = d
      BY <1>0, <1>7, <3>1 DEF Messages
    <3>3. CASE q = p
      <4>1. d = c
        BY <1>b, <3>1, <3>3
      <4> SUFFICES ASSUME NEW m \in pending'[p]
                   PROVE  /\ Owns(p, c)' /\ m.recvid \in Entries(chan'[c].reply)
                          /\ m.msg = Awaiting(c, m.recvid)' /\ ~InSlot(c, m.recvid)'
        BY <3>2, <3>3, <4>1 DEF PendingOf
      <4>2. m \in pending[p] /\ m.recvid # id
        BY <1>12, <1>b
      <4>3. m.recvid \in Entries(chan[c].reply) /\ m.msg = Awaiting(c, m.recvid) /\ ~InSlot(c, m.recvid)
        BY <3>1, <3>2, <3>3, <4>1, <4>2 DEF PendingOf
      <4>4. m.recvid \in Entries(chan'[c].reply) /\ m.msg = Awaiting(c, m.recvid)'
        BY <1>10, <1>19, <4>2, <4>3
      <4> QED
        BY <1>2, <1>10, <1>16, <4>3, <4>4 DEF InSlot
    <3>4. CASE q # p
      <4>1. pending'[q] = pending[q]
        BY <1>12, <3>4
      <4>2. pending[q] # {} => Owns(q, d) /\ Owns(q, d)'
        BY <1>16, <3>1, <3>2 DEF PendingOf
      <4>3. pending[q] # {} => d \in Live /\ d \in Channels /\ d # c
        BY <1>0, <1>3, <3>4, <4>2, OwnsFacts
      <4>4. pending[q] # {} => /\ chan'[d].reply = chan[d].reply /\ chan'[d].msg = chan[d].msg
                               /\ chan'[d].recvid = chan[d].recvid
        BY <1>10, <4>3
      <4>5. pending[q] # {} => \A j \in Entries(chan[d].reply) : conn'[ConnAt(d, j)].owner = Awaiting(d, j)
        BY <1>19, <4>3
      <4> QED
        BY <3>1, <3>2, <4>1, <4>2, <4>4, <4>5, PendingFrame
    <3> QED
      BY <3>3, <3>4
  <2> QED
    BY <1>15, <2>1, <2>2 DEF Messages
<1>22. Answers'
  <2>1. /\ \A v \in Threads : pc'[v] = pc[v] /\ loc'[v] = loc[v]
        /\ \A v \in Threads \ {u} : sch'.state[v] = sch.state[v]
    BY <1>7, <1>9
  <2>2. \A v \in Threads \ {u} : pc[v] = "send_reply" => conn'[loc[v].conn] = conn[loc[v].conn]
    BY <1>8, <1>11 DEF Sending
  <2>3. ~data => conn[k].msg = NULL
    <3>1. ~(\E v \in Threads : pc[v] = "send_reply" /\ sch.state[v] = "READY" /\ loc[v].conn = k)
      BY <1>6, <1>8 DEF Sending
    <3>2. conn[k].msg \in {NULL, Garbage}
      BY <1>0, <1>6, <3>1 DEF Answers
    <3> QED
      BY <1>1, <1>6, <3>2
  <2>4. conn'[loc[u].conn].status.to = u
        /\ conn'[loc[u].conn].msg = IF conn'[loc[u].conn].status.data THEN u ELSE NULL
    BY <1>6, <1>11, <2>3
  <2>5. ASSUME NEW l \in Connects, conn'[l].live
        PROVE  \/ conn'[l].msg \in {NULL, Garbage}
               \/ \E v \in Threads : pc'[v] = "send_reply" /\ sch'.state[v] = "READY" /\ loc'[v].conn = l
    <3>1. CASE l = k
      BY <1>6, <1>9, <2>1, <3>1
    <3>2. CASE l # k
      <4>1. conn'[l] = conn[l] /\ conn[l].live
        BY <1>11, <2>5, <3>2
      <4>2. \A v \in Threads : sch.state[v] = "READY" => sch'.state[v] = "READY"
        BY <1>9
      <4> QED
        BY <1>0, <2>1, <4>1, <4>2 DEF Answers
    <3> QED
      BY <3>1, <3>2
  <2>6. \A v \in Threads : pc'[v] = "send_reply" /\ sch'.state[v] = "READY" =>
          /\ conn'[loc'[v].conn].status.to = v
          /\ conn'[loc'[v].conn].msg = IF conn'[loc'[v].conn].status.data THEN v ELSE NULL
    <3>1. Answers
      BY <1>0
    <3> QED
      BY <2>1, <2>2, <2>4, <3>1 DEF Answers
  <2> QED
    BY <2>5, <2>6 DEF Answers
<1> QED
  BY <1>13, <1>14, <1>15, <1>17, <1>18, <1>20, <1>21, <1>22 DEF IInv

-----------------------------------------------------------------------------
(* Sending and receiving *)

\* A call of a semaphore operation leaves a semaphore.
LEMMA SemTypes ==
  ASSUME NEW s \in Sched, NEW sem \in SemState
  PROVE  SignalSem(s, sem) \in SemState /\ WaitSem(s, sem) \in SemState
<1>1. sem.count \in Nat /\ sem.queue \in Pointer /\ sem = [count |-> sem.count, queue |-> sem.queue]
  BY DEF SemState
<1>2. s.current \in Pointer /\ \A t \in Threads : s.next[t] \in Pointer
  BY DEF Sched
<1>3. SignalSem(s, sem) \in SemState
  <2>1. CASE sem.queue = NULL
    BY <1>1, <2>1 DEF SignalSem, SemState
  <2>2. CASE sem.queue # NULL
    <3>1. s.next[sem.queue] \in Pointer
      BY <1>1, <1>2, <2>2 DEF Pointer
    <3> QED
      BY <1>1, <2>2, <3>1 DEF SignalSem, SemState
  <2> QED
    BY <2>1, <2>2
<1>4. WaitSem(s, sem) \in SemState
  BY <1>1, <1>2 DEF WaitSem, SemState, HasToken
<1> QED
  BY <1>3, <1>4

\* The channel after a message has been left in its slot.
LEMMA DepositChannel ==
  ASSUME Types, NEW c \in Channels, NEW t \in Threads, NEW k \in Connects, NEW ch \in Channel,
         ch.recv = chan[c].recv, ch.reply = chan[c].reply,
         chan' = [chan EXCEPT ![c] = Deposit(sch, ch, t, k)]
  PROVE  /\ chan' \in [Channels -> Channel] /\ \A d \in Channels \ {c} : chan'[d] = chan[d]
         /\ chan'[c].live = ch.live /\ chan'[c].msg = t
         /\ chan'[c].recvid = AddIndex(chan[c].reply) /\ chan'[c].reply = vector_add(chan[c].reply, k)
         /\ chan'[c].send = ch.send
         /\ chan'[c].recv = SignalSem(sch, chan[c].recv)
<1>1. PICK index, table, sem : /\ index = AddIndex(chan[c].reply)
                               /\ table = vector_add(chan[c].reply, k)
                               /\ sem = SignalSem(sch, chan[c].recv)
  OBVIOUS
<1>2. chan[c].reply \in Vector(Connects) /\ k # NULL /\ chan \in [Channels -> Channel]
  BY EntryTypes, IpcAssumption DEF Types
<1>3. index \in Nat /\ table \in Vector(Connects)
  BY <1>1, <1>2, VectorAdd
<1>4. sem \in SemState
  <2>1. sch \in Sched /\ chan[c].recv \in SemState
    BY DEF Types, Channel
  <2> QED
    BY <1>1, <2>1, SemTypes
<1>5. PICK new : new = [ch EXCEPT !.msg = t, !.recvid = index, !.reply = table, !.recv = sem]
  OBVIOUS
<1>6. /\ new \in Channel /\ new.live = ch.live /\ new.msg = t /\ new.recvid = index
      /\ new.reply = table /\ new.send = ch.send /\ new.recv = sem
  <2>1. t \in Message
    BY DEF Message
  <2> QED
    BY <1>3, <1>4, <1>5, <2>1 DEF Channel
<1>7. chan' = [chan EXCEPT ![c] = new]
  BY <1>1, <1>5 DEF Deposit
<1> QED
  BY <1>1, <1>2, <1>6, <1>7

\* The channel after its message has been taken out of the slot.
LEMMA CollectChannel ==
  ASSUME Types, NEW c \in Channels, NEW ch \in Channel, ch.send = chan[c].send,
         chan' = [chan EXCEPT ![c] = [ch EXCEPT !.msg = NULL, !.send = SignalSem(sch, ch.send)]]
  PROVE  /\ chan' \in [Channels -> Channel] /\ \A d \in Channels \ {c} : chan'[d] = chan[d]
         /\ chan'[c].live = ch.live /\ chan'[c].msg = NULL
         /\ chan'[c].recvid = ch.recvid /\ chan'[c].reply = ch.reply
         /\ chan'[c].send = SignalSem(sch, chan[c].send) /\ chan'[c].recv = ch.recv
<1>1. PICK sem : sem = SignalSem(sch, ch.send)
  OBVIOUS
<1>2. sem \in SemState /\ chan \in [Channels -> Channel]
  <2>1. sch \in Sched /\ chan[c].send \in SemState /\ chan \in [Channels -> Channel]
    BY DEF Types, Channel
  <2> QED
    BY <1>1, <2>1, SemTypes
<1>3. PICK new : new = [ch EXCEPT !.msg = NULL, !.send = sem]
  OBVIOUS
<1>4. /\ new \in Channel /\ new.live = ch.live /\ new.msg = NULL /\ new.recvid = ch.recvid
      /\ new.reply = ch.reply /\ new.send = sem /\ new.recv = ch.recv
  <2>1. NULL \in Message
    BY DEF Message
  <2> QED
    BY <1>2, <1>3, <2>1 DEF Channel
<1>5. chan' = [chan EXCEPT ![c] = new]
  BY <1>1, <1>3
<1> QED
  BY <1>1, <1>2, <1>4, <1>5

\* A connect that a program names with an identifier leads to a channel that exists.
LEMMA NamedConnect ==
  ASSUME IInv, NEW p \in Processes, NEW id, NEW k \in Connects, k = vector_get(proc[p].fds, id)
  PROVE  conn[k].live /\ conn[k].chan \in Live /\ conn[k].chan \in Channels
<1>1. Types /\ OwnConnects
  BY DEF IInv
<1>2. proc[p].fds \in Vector(Connects) /\ NULL \notin Connects /\ Wild \notin Connects
  BY <1>1, EntryTypes, IpcAssumption
<1>3. id \in Entries(proc[p].fds) /\ k = proc[p].fds.content[id]
  BY <1>2, VectorGet
<1> QED
  BY <1>1, <1>3 DEF OwnConnects, Live

\* Likewise a channel.
LEMMA NamedChannel ==
  ASSUME IInv, NEW p \in Processes, NEW id, NEW c \in Channels, c = vector_get(proc[p].chans, id)
  PROVE  Owns(p, c) /\ c \in Live
<1>1. Types /\ OwnChannels
  BY DEF IInv
<1>2. proc[p].chans \in Vector(Channels) /\ NULL \notin Channels /\ Wild \notin Channels
  BY <1>1, EntryTypes, IpcAssumption
<1>3. id \in Entries(proc[p].chans) /\ c = proc[p].chans.content[id]
  BY <1>2, VectorGet
<1>4. Owns(p, c)
  BY <1>3 DEF Owns
<1> QED
  BY <1>1, <1>4, OwnsFacts

\* A sender leaves its message in the slot or queues for it.
LEMMA SendStep ==
  ASSUME IInv, Polite, NEW t \in Threads, NEW id, ipc_send(t, id)
  PROVE  IInv'
<1>0. Types /\ Callers /\ OwnConnects /\ Slots /\ Live \subseteq Channels
  BY DEF IInv, Live
<1>a. PICK p \in Processes : p = ProcOf[t]
  BY IpcAssumption
<1>b. PICK k, c : k = vector_get(proc[ProcOf[t]].fds, id) /\ c = conn[k].chan
  OBVIOUS
<1>c. PICK ch : ch = [chan[c] EXCEPT !.send = WaitSem(sch, chan[c].send)]
  OBVIOUS
<1>1. /\ At(t, "user") /\ k \in Connects
      /\ \A u \in Threads : pc[u] # "user" => loc[u].conn # k
  BY <1>b DEF ipc_send, Obeys, Polite, Using
<1>2. t = sch.current /\ pc[t] = "user" /\ sch.state[t] = "READY" /\ loc[t].chan = NULL
  BY <1>0, <1>1, AtFacts, BlockedInside
<1>3. conn[k].live /\ c \in Live /\ c \in Channels /\ chan[c].live
  <2>1. k = vector_get(proc[p].fds, id)
    BY <1>a, <1>b
  <2> QED
    BY <1>1, <1>b, <2>1, NamedConnect DEF Live
<1>4. /\ conn' = [conn EXCEPT ![k].owner = t]
      /\ loc' = [loc EXCEPT ![t] = [conn |-> k, chan |-> c]]
      /\ UNCHANGED <<proc, pending, fault>>
      /\ HasToken(chan[c].send) =>
           /\ chan' = [chan EXCEPT ![c] = Deposit(sch, ch, t, k)]
           /\ sch' = DepositSched(sch, ch, t)
           /\ pc' = [pc EXCEPT ![t] = "send_reply"]
      /\ ~HasToken(chan[c].send) =>
           /\ chan' = [chan EXCEPT ![c] = ch]
           /\ sch' = WaitSched(sch, chan[c].send)
           /\ pc' = [pc EXCEPT ![t] = "send_wait"]
  BY <1>b, <1>c, <1>1, <1>3, ZenonT(60) DEF ipc_send
<1>5. /\ conn' \in [Connects -> Connect]
      /\ conn'[k].owner = t
      /\ \A l \in Connects : /\ conn'[l].live = conn[l].live /\ conn'[l].chan = conn[l].chan
                             /\ conn'[l].msg = conn[l].msg /\ conn'[l].status = conn[l].status
      /\ \A l \in Connects \ {k} : conn'[l] = conn[l]
  BY <1>0, <1>1, <1>4 DEF Types, Connect, Pointer
<1>6. \A u \in Threads : pc[u] \in Sending => loc[u].conn # k /\ conn'[loc[u].conn] = conn[loc[u].conn]
  BY <1>0, <1>1, <1>5 DEF Callers, Sending
<1>7. conn'[k].live /\ conn'[k].chan = c
  BY <1>1, <1>3, <1>5, <1>b
<1>8. PICK sem : sem = WaitSem(sch, chan[c].send)
  OBVIOUS
<1>9. /\ chan[c] \in Channel /\ chan[c].send \in SemState /\ sem \in SemState
      /\ ch \in Channel /\ ch.send = sem /\ ch.live /\ ch.recv = chan[c].recv
      /\ ch.reply = chan[c].reply /\ ch.msg = chan[c].msg /\ ch.recvid = chan[c].recvid
  <2>1. chan[c] \in Channel /\ sch \in Sched
    BY <1>0, <1>3 DEF Types
  <2>2. chan[c].send \in SemState
    BY <2>1 DEF Channel
  <2>3. sem \in SemState
    BY <1>8, <2>1, <2>2, SemTypes
  <2>4. ch = [chan[c] EXCEPT !.send = sem]
    BY <1>c, <1>8
  <2> QED
    BY <1>3, <2>1, <2>2, <2>3, <2>4 DEF Channel
<1>10. SlotHeld(chan[c].send.count, WokenAt(c, "send_wait"),
                chan[c].recv.count, WokenAt(c, "recv_wait"), chan[c].msg)
  BY <1>0, <1>3 DEF Slots
<1>11. CASE HasToken(chan[c].send)
  <2>1. /\ chan[c].send.count = 1 /\ chan[c].msg = NULL /\ chan[c].recv.count = 0
        /\ WokenAt(c, "recv_wait") = {} /\ WokenAt(c, "send_wait") = {}
    BY <1>10, <1>11 DEF SlotHeld, HasToken
  <2>2. sem.count = 0 /\ sem.queue = chan[c].send.queue
    BY <1>8, <1>9, <1>11, <2>1 DEF WaitSem, SemState
  <2>3. /\ chan' \in [Channels -> Channel] /\ \A d \in Channels \ {c} : chan'[d] = chan[d]
        /\ chan'[c].live /\ chan'[c].msg = t
        /\ chan'[c].recvid = AddIndex(chan[c].reply) /\ chan'[c].reply = vector_add(chan[c].reply, k)
        /\ chan'[c].send.count = 0 /\ chan'[c].send.queue = chan[c].send.queue
        /\ chan'[c].recv = SignalSem(sch, chan[c].recv)
    <3>1. chan' = [chan EXCEPT ![c] = Deposit(sch, ch, t, k)]
      BY <1>4, <1>11
    <3>2. /\ chan' \in [Channels -> Channel] /\ \A d \in Channels \ {c} : chan'[d] = chan[d]
          /\ chan'[c].live = ch.live /\ chan'[c].msg = t
          /\ chan'[c].recvid = AddIndex(chan[c].reply) /\ chan'[c].reply = vector_add(chan[c].reply, k)
          /\ chan'[c].send = ch.send
          /\ chan'[c].recv = SignalSem(sch, chan[c].recv)
      BY <1>0, <1>1, <1>3, <1>9, <3>1, DepositChannel
    <3> QED
      BY <1>9, <2>2, <3>2
  <2>4. /\ IInv /\ c \in Live /\ k \in Connects
        /\ t = sch.current /\ sch.state[t] = "READY" /\ pc[t] \in {"user", "send_wait"}
        /\ loc[t].chan \in {NULL, c}
        /\ \A u \in WokenAt(c, "send_wait") : u = t
        /\ \A u \in Threads \ {t} : pc[u] \in Sending => loc[u].conn # k /\ conn'[loc[u].conn] = conn[loc[u].conn]
        /\ pc' = [pc EXCEPT ![t] = "send_reply"]
        /\ loc' = [loc EXCEPT ![t] = [conn |-> k, chan |-> c]]
        /\ ch.recv = chan[c].recv /\ sch' = DepositSched(sch, ch, t)
        /\ UNCHANGED <<proc, pending, fault>>
    BY <1>1, <1>2, <1>3, <1>4, <1>6, <1>9, <1>11, <2>1
  <2> QED
    BY <1>5, <1>7, <2>1, <2>3, <2>4, DepositStep
<1>12. CASE ~HasToken(chan[c].send)
  <2>1. PICK l : l = "send_wait"
    OBVIOUS
  <2>2. SemOf(c, l) = chan[c].send /\ l \in Waits
    BY <2>1 DEF SemOf, Waits
  <2>3. sem.count = chan[c].send.count
        /\ sem.queue = IF chan[c].send.queue = NULL THEN t ELSE chan[c].send.queue
    BY <1>2, <1>8, <1>9, <1>12 DEF WaitSem, SemState
  <2>4. /\ chan' \in [Channels -> Channel] /\ \A d \in Channels \ {c} : chan'[d] = chan[d]
        /\ chan'[c] = ch
    BY <1>0, <1>3, <1>4, <1>9, <1>12 DEF Types
  <2>5. /\ chan'[c].live /\ chan'[c].reply = chan[c].reply /\ chan'[c].msg = chan[c].msg
        /\ chan'[c].recvid = chan[c].recvid
        /\ chan'[c].send.count = chan[c].send.count /\ chan'[c].recv.count = chan[c].recv.count
        /\ chan'[c].send.queue = IF l = "send_wait" /\ chan[c].send.queue = NULL THEN t ELSE chan[c].send.queue
        /\ chan'[c].recv.queue = IF l = "recv_wait" /\ chan[c].recv.queue = NULL THEN t ELSE chan[c].recv.queue
    BY <1>9, <2>1, <2>3, <2>4
  <2>6. /\ IInv /\ c \in Live /\ l \in Waits /\ At(t, "user")
        /\ ~HasToken(SemOf(c, l)) /\ sch' = WaitSched(sch, SemOf(c, l))
        /\ pc' = [pc EXCEPT ![t] = l]
        /\ loc' = [loc EXCEPT ![t] = [conn |-> k, chan |-> c]]
        /\ (l = "send_wait" => k \in Connects /\ conn'[k].live /\ conn'[k].owner = t /\ conn'[k].chan = c)
        /\ (l = "recv_wait" => k = NULL /\ Owns(ProcOf[t], c))
        /\ UNCHANGED <<proc, pending, fault>>
        /\ conn' \in [Connects -> Connect]
        /\ \A x \in Connects : /\ conn'[x].live = conn[x].live /\ conn'[x].chan = conn[x].chan
                               /\ conn'[x].msg = conn[x].msg /\ conn'[x].status = conn[x].status
        /\ \A u \in Threads : pc[u] \in Sending => conn'[loc[u].conn] = conn[loc[u].conn]
        /\ chan' \in [Channels -> Channel] /\ \A d \in Channels \ {c} : chan'[d] = chan[d]
    BY <1>1, <1>3, <1>4, <1>5, <1>6, <1>7, <1>12, <2>1, <2>2, <2>4
  <2> QED
    BY <2>5, <2>6, WaitStep
<1> QED
  BY <1>11, <1>12

\* A sender that was woken finds the slot empty.
LEMMA SendResumeStep ==
  ASSUME IInv, NEW t \in Threads, SendResume(t)
  PROVE  IInv'
<1>0. Types /\ Callers /\ Slots /\ Live \subseteq Channels
  BY DEF IInv, Live
<1>1. PICK k, c : k = loc[t].conn /\ c = loc[t].chan
  OBVIOUS
<1>2. At(t, "send_wait")
  BY DEF SendResume
<1>3. t = sch.current /\ pc[t] = "send_wait" /\ sch.state[t] = "READY"
  BY <1>2, AtFacts
<1>4. /\ k \in Connects /\ conn[k].live /\ conn[k].owner = t /\ conn[k].chan = c
      /\ c \in Live /\ c \in Channels /\ chan[c].live
  BY <1>0, <1>1, <1>3, InsideLive DEF Callers, Sending, Live
<1>5. /\ chan' = [chan EXCEPT ![c] = Deposit(sch, chan[c], t, k)]
      /\ sch' = DepositSched(sch, chan[c], t)
      /\ pc' = [pc EXCEPT ![t] = "send_reply"]
      /\ UNCHANGED <<proc, conn, loc, pending, fault>>
  BY <1>1, <1>4 DEF SendResume
<1>6. /\ chan[c].msg = NULL /\ chan[c].recv.count = 0 /\ chan[c].send.count = 0
      /\ WokenAt(c, "recv_wait") = {} /\ \A u \in WokenAt(c, "send_wait") : u = t
  <2>1. SlotHeld(chan[c].send.count, WokenAt(c, "send_wait"),
                 chan[c].recv.count, WokenAt(c, "recv_wait"), chan[c].msg)
    BY <1>0, <1>4 DEF Slots
  <2>2. t \in WokenAt(c, "send_wait")
    BY <1>1, <1>3 DEF WokenAt, Inside
  <2> QED
    BY <2>1, <2>2 DEF SlotHeld
<1>7. /\ chan' \in [Channels -> Channel] /\ \A d \in Channels \ {c} : chan'[d] = chan[d]
      /\ chan'[c].live /\ chan'[c].msg = t
      /\ chan'[c].recvid = AddIndex(chan[c].reply) /\ chan'[c].reply = vector_add(chan[c].reply, k)
      /\ chan'[c].send.count = 0 /\ chan'[c].send.queue = chan[c].send.queue
      /\ chan'[c].recv = SignalSem(sch, chan[c].recv)
  <2>1. PICK ch \in Channel : ch = chan[c]
    BY <1>0, <1>4 DEF Types
  <2>2. /\ Types /\ c \in Channels /\ k \in Connects /\ ch \in Channel
        /\ ch.recv = chan[c].recv /\ ch.reply = chan[c].reply
        /\ chan' = [chan EXCEPT ![c] = Deposit(sch, ch, t, k)]
    BY <1>0, <1>4, <1>5, <2>1
  <2>3. /\ chan' \in [Channels -> Channel] /\ \A d \in Channels \ {c} : chan'[d] = chan[d]
        /\ chan'[c].live = ch.live /\ chan'[c].msg = t
        /\ chan'[c].recvid = AddIndex(chan[c].reply) /\ chan'[c].reply = vector_add(chan[c].reply, k)
        /\ chan'[c].send = ch.send
        /\ chan'[c].recv = SignalSem(sch, chan[c].recv)
    BY <2>2, DepositChannel
  <2> QED
    BY <1>4, <1>6, <2>1, <2>3
<1>8. \A u \in Threads \ {t} : pc[u] \in Sending => loc[u].conn # k /\ conn'[loc[u].conn] = conn[loc[u].conn]
  BY <1>0, <1>4, <1>5 DEF Callers
<1>9. loc' = [loc EXCEPT ![t] = [conn |-> k, chan |-> c]]
  <2>1. loc \in [Threads -> [conn : Connects \cup {NULL}, chan : Channels \cup {NULL}]]
    BY <1>0 DEF Types
  <2>2. loc[t] = [conn |-> k, chan |-> c]
    BY <1>1, <2>1
  <2> QED
    BY <1>5, <2>1, <2>2
<1>10. PICK ch : ch = chan[c]
  OBVIOUS
<1>11. /\ IInv /\ c \in Live /\ k \in Connects
       /\ t = sch.current /\ sch.state[t] = "READY" /\ pc[t] \in {"user", "send_wait"}
       /\ loc[t].chan \in {NULL, c}
       /\ conn' \in [Connects -> Connect]
       /\ \A l \in Connects : /\ conn'[l].live = conn[l].live /\ conn'[l].chan = conn[l].chan
                              /\ conn'[l].msg = conn[l].msg /\ conn'[l].status = conn[l].status
       /\ conn'[k].live /\ conn'[k].owner = t /\ conn'[k].chan = c
       /\ pc' = [pc EXCEPT ![t] = "send_reply"]
       /\ ch.recv = chan[c].recv /\ sch' = DepositSched(sch, ch, t)
       /\ UNCHANGED <<proc, pending, fault>>
  BY <1>0, <1>1, <1>3, <1>4, <1>5, <1>10 DEF Types
<1> QED
  BY <1>6, <1>7, <1>8, <1>9, <1>11, DepositStep

\* A receiver takes the message out of the slot or queues for one.
LEMMA ReceiveStep ==
  ASSUME IInv, Polite, NEW t \in Threads, NEW id, ipc_receive(t, id)
  PROVE  IInv'
<1>0. Types /\ Callers /\ Slots /\ Live \subseteq Channels
  BY DEF IInv, Live
<1>a. PICK p \in Processes : p = ProcOf[t]
  BY IpcAssumption
<1>b. PICK c : c = vector_get(proc[ProcOf[t]].chans, id)
  OBVIOUS
<1>c. PICK ch : ch = [chan[c] EXCEPT !.recv = WaitSem(sch, chan[c].recv)]
  OBVIOUS
<1>1. At(t, "user") /\ c \in Channels
  BY <1>b DEF ipc_receive, Obeys, Polite
<1>2. t = sch.current /\ pc[t] = "user" /\ sch.state[t] = "READY" /\ loc[t].chan = NULL
  BY <1>0, <1>1, AtFacts, BlockedInside
<1>3. Owns(p, c) /\ Owns(ProcOf[t], c) /\ c \in Live /\ chan[c].live
  <2>1. c = vector_get(proc[p].chans, id)
    BY <1>a, <1>b
  <2>2. Owns(p, c) /\ c \in Live
    BY <1>1, <2>1, NamedChannel
  <2> QED
    BY <1>a, <2>2 DEF Live
<1>4. /\ UNCHANGED <<proc, conn, fault>>
      /\ HasToken(chan[c].recv) => Collect(sch, t, c, ch)
      /\ ~HasToken(chan[c].recv) =>
           /\ chan' = [chan EXCEPT ![c] = ch]
           /\ sch' = WaitSched(sch, chan[c].recv)
           /\ pc' = [pc EXCEPT ![t] = "recv_wait"]
           /\ loc' = [loc EXCEPT ![t] = [conn |-> NULL, chan |-> c]]
           /\ UNCHANGED pending
  BY <1>b, <1>c, <1>1, ZenonT(60) DEF ipc_receive
<1>5. PICK sem : sem = WaitSem(sch, chan[c].recv)
  OBVIOUS
<1>6. /\ chan[c] \in Channel /\ chan[c].recv \in SemState /\ sem \in SemState
      /\ ch \in Channel /\ ch.recv = sem /\ ch.live /\ ch.send = chan[c].send
      /\ ch.reply = chan[c].reply /\ ch.msg = chan[c].msg /\ ch.recvid = chan[c].recvid
  <2>1. chan[c] \in Channel /\ sch \in Sched
    BY <1>0, <1>1 DEF Types
  <2>2. chan[c].recv \in SemState
    BY <2>1 DEF Channel
  <2>3. sem \in SemState
    BY <1>5, <2>1, <2>2, SemTypes
  <2>4. ch = [chan[c] EXCEPT !.recv = sem]
    BY <1>c, <1>5
  <2> QED
    BY <1>3, <2>1, <2>2, <2>3, <2>4 DEF Channel
<1>7. CASE HasToken(chan[c].recv)
  <2>1. /\ chan[c].recv.count = 1 /\ chan[c].msg # NULL /\ chan[c].send.count = 0
        /\ WokenAt(c, "recv_wait") = {} /\ WokenAt(c, "send_wait") = {}
    <3>1. SlotHeld(chan[c].send.count, WokenAt(c, "send_wait"),
                   chan[c].recv.count, WokenAt(c, "recv_wait"), chan[c].msg)
      BY <1>0, <1>3 DEF Slots
    <3> QED
      BY <1>7, <3>1 DEF SlotHeld, HasToken
  <2>2. sem.count = 0 /\ sem.queue = chan[c].recv.queue
    BY <1>5, <1>6, <1>7, <2>1 DEF WaitSem, SemState
  <2>3. /\ chan' = [chan EXCEPT ![c] = [ch EXCEPT !.msg = NULL, !.send = SignalSem(sch, ch.send)]]
        /\ sch' = SignalSched(sch, ch.send)
        /\ pending' = [pending EXCEPT ![ProcOf[t]] = @ \cup {[recvid |-> ch.recvid, msg |-> ch.msg]}]
        /\ pc' = [pc EXCEPT ![t] = "user"]
        /\ loc' = [loc EXCEPT ![t] = NoLocals]
    BY <1>4, <1>7 DEF Collect
  <2>4. /\ chan' \in [Channels -> Channel] /\ \A d \in Channels \ {c} : chan'[d] = chan[d]
        /\ chan'[c].live = ch.live /\ chan'[c].msg = NULL
        /\ chan'[c].recvid = ch.recvid /\ chan'[c].reply = ch.reply
        /\ chan'[c].send = SignalSem(sch, chan[c].send) /\ chan'[c].recv = ch.recv
    <3>1. Types /\ c \in Channels /\ ch \in Channel /\ ch.send = chan[c].send
          /\ chan' = [chan EXCEPT ![c] = [ch EXCEPT !.msg = NULL, !.send = SignalSem(sch, ch.send)]]
      BY <1>0, <1>1, <1>6, <2>3
    <3> QED
      BY <3>1, CollectChannel
  <2>5. /\ IInv /\ c \in Live /\ p \in Processes /\ p = ProcOf[t] /\ Owns(p, c)
        /\ t = sch.current /\ sch.state[t] = "READY" /\ pc[t] \in {"user", "recv_wait"}
        /\ loc[t].chan \in {NULL, c}
        /\ chan[c].msg # NULL /\ chan[c].send.count = 0 /\ WokenAt(c, "send_wait") = {}
        /\ (\A u \in WokenAt(c, "recv_wait") : u = t)
        /\ chan' \in [Channels -> Channel] /\ (\A d \in Channels \ {c} : chan'[d] = chan[d])
        /\ chan'[c].live /\ chan'[c].msg = NULL
        /\ chan'[c].recvid = chan[c].recvid /\ chan'[c].reply = chan[c].reply
        /\ chan'[c].recv.count = 0 /\ chan'[c].recv.queue = chan[c].recv.queue
        /\ chan'[c].send = SignalSem(sch, chan[c].send)
    BY <1>a, <1>2, <1>3, <1>6, <2>1, <2>2, <2>4
  <2>6. /\ pc' = [pc EXCEPT ![t] = "user"]
        /\ loc' = [loc EXCEPT ![t] = NoLocals]
        /\ pending' = [pending EXCEPT ![p] = @ \cup {[recvid |-> chan[c].recvid, msg |-> chan[c].msg]}]
        /\ sch' = SignalSched(sch, chan[c].send)
        /\ UNCHANGED <<proc, conn, fault>>
    BY <1>a, <1>4, <1>6, <2>3
  <2> QED
    BY <2>5, <2>6, CollectStep
<1>8. CASE ~HasToken(chan[c].recv)
  <2>1. PICK l, k : l = "recv_wait" /\ k = NULL
    OBVIOUS
  <2>2. SemOf(c, l) = chan[c].recv /\ l \in Waits
    BY <2>1 DEF SemOf, Waits
  <2>3. sem.count = chan[c].recv.count
        /\ sem.queue = IF chan[c].recv.queue = NULL THEN t ELSE chan[c].recv.queue
    BY <1>2, <1>5, <1>6, <1>8 DEF WaitSem, SemState
  <2>4. /\ chan' \in [Channels -> Channel] /\ \A d \in Channels \ {c} : chan'[d] = chan[d]
        /\ chan'[c] = ch
    BY <1>0, <1>1, <1>4, <1>6, <1>8 DEF Types
  <2>5. /\ chan'[c].live /\ chan'[c].reply = chan[c].reply /\ chan'[c].msg = chan[c].msg
        /\ chan'[c].recvid = chan[c].recvid
        /\ chan'[c].send.count = chan[c].send.count /\ chan'[c].recv.count = chan[c].recv.count
        /\ chan'[c].send.queue = IF l = "send_wait" /\ chan[c].send.queue = NULL THEN t ELSE chan[c].send.queue
        /\ chan'[c].recv.queue = IF l = "recv_wait" /\ chan[c].recv.queue = NULL THEN t ELSE chan[c].recv.queue
    BY <1>6, <2>1, <2>3, <2>4
  <2>6. /\ IInv /\ c \in Live /\ l \in Waits /\ At(t, "user")
        /\ ~HasToken(SemOf(c, l)) /\ sch' = WaitSched(sch, SemOf(c, l))
        /\ pc' = [pc EXCEPT ![t] = l]
        /\ loc' = [loc EXCEPT ![t] = [conn |-> k, chan |-> c]]
        /\ (l = "send_wait" => k \in Connects /\ conn'[k].live /\ conn'[k].owner = t /\ conn'[k].chan = c)
        /\ (l = "recv_wait" => k = NULL /\ Owns(ProcOf[t], c))
        /\ UNCHANGED <<proc, pending, fault>>
        /\ conn' \in [Connects -> Connect]
        /\ \A x \in Connects : /\ conn'[x].live = conn[x].live /\ conn'[x].chan = conn[x].chan
                               /\ conn'[x].msg = conn[x].msg /\ conn'[x].status = conn[x].status
        /\ \A u \in Threads : pc[u] \in Sending => conn'[loc[u].conn] = conn[loc[u].conn]
        /\ chan' \in [Channels -> Channel] /\ \A d \in Channels \ {c} : chan'[d] = chan[d]
    BY <1>0, <1>1, <1>3, <1>4, <1>8, <2>1, <2>2, <2>4 DEF Types
  <2> QED
    BY <2>5, <2>6, WaitStep
<1> QED
  BY <1>7, <1>8

\* A receiver that was woken finds a message in the slot.
LEMMA ReceiveResumeStep ==
  ASSUME IInv, NEW t \in Threads, ReceiveResume(t)
  PROVE  IInv'
<1>0. Types /\ Callers /\ Slots /\ Live \subseteq Channels
  BY DEF IInv, Live
<1>1. PICK p \in Processes : p = ProcOf[t]
  BY IpcAssumption
<1>2. PICK c : c = loc[t].chan
  OBVIOUS
<1>3. At(t, "recv_wait")
  BY DEF ReceiveResume
<1>4. t = sch.current /\ pc[t] = "recv_wait" /\ sch.state[t] = "READY"
  BY <1>3, AtFacts
<1>5. Owns(p, c) /\ c \in Live /\ c \in Channels /\ chan[c].live
  <2>1. Owns(ProcOf[t], c)
    BY <1>0, <1>2, <1>4 DEF Callers
  <2> QED
    BY <1>0, <1>1, <1>2, <1>4, <2>1, InsideLive DEF Live
<1>6. /\ chan' = [chan EXCEPT ![c] = [chan[c] EXCEPT !.msg = NULL, !.send = SignalSem(sch, chan[c].send)]]
      /\ sch' = SignalSched(sch, chan[c].send)
      /\ pending' = [pending EXCEPT ![p] = @ \cup {[recvid |-> chan[c].recvid, msg |-> chan[c].msg]}]
      /\ pc' = [pc EXCEPT ![t] = "user"]
      /\ loc' = [loc EXCEPT ![t] = NoLocals]
      /\ UNCHANGED <<proc, conn, fault>>
  BY <1>1, <1>2, <1>5 DEF ReceiveResume, Collect
<1>7. /\ chan[c].msg # NULL /\ chan[c].recv.count = 0 /\ chan[c].send.count = 0
      /\ WokenAt(c, "send_wait") = {} /\ \A u \in WokenAt(c, "recv_wait") : u = t
  <2>1. SlotHeld(chan[c].send.count, WokenAt(c, "send_wait"),
                 chan[c].recv.count, WokenAt(c, "recv_wait"), chan[c].msg)
    BY <1>0, <1>5 DEF Slots
  <2>2. t \in WokenAt(c, "recv_wait")
    BY <1>2, <1>4 DEF WokenAt, Inside
  <2> QED
    BY <2>1, <2>2 DEF SlotHeld
<1>8. PICK ch \in Channel : ch = chan[c]
  BY <1>0, <1>5 DEF Types
<1>9. /\ chan' \in [Channels -> Channel] /\ \A d \in Channels \ {c} : chan'[d] = chan[d]
      /\ chan'[c].live = ch.live /\ chan'[c].msg = NULL
      /\ chan'[c].recvid = ch.recvid /\ chan'[c].reply = ch.reply
      /\ chan'[c].send = SignalSem(sch, chan[c].send) /\ chan'[c].recv = ch.recv
  <2>1. Types /\ c \in Channels /\ ch \in Channel /\ ch.send = chan[c].send
        /\ chan' = [chan EXCEPT ![c] = [ch EXCEPT !.msg = NULL, !.send = SignalSem(sch, ch.send)]]
    BY <1>0, <1>5, <1>6, <1>8
  <2> QED
    BY <2>1, CollectChannel
<1>10. /\ IInv /\ c \in Live /\ p \in Processes /\ p = ProcOf[t] /\ Owns(p, c)
       /\ t = sch.current /\ sch.state[t] = "READY" /\ pc[t] \in {"user", "recv_wait"}
       /\ loc[t].chan \in {NULL, c}
       /\ chan[c].msg # NULL /\ chan[c].send.count = 0 /\ WokenAt(c, "send_wait") = {}
       /\ (\A u \in WokenAt(c, "recv_wait") : u = t)
       /\ chan' \in [Channels -> Channel] /\ (\A d \in Channels \ {c} : chan'[d] = chan[d])
       /\ chan'[c].live /\ chan'[c].msg = NULL
       /\ chan'[c].recvid = chan[c].recvid /\ chan'[c].reply = chan[c].reply
       /\ chan'[c].recv.count = 0 /\ chan'[c].recv.queue = chan[c].recv.queue
       /\ chan'[c].send = SignalSem(sch, chan[c].send)
  BY <1>1, <1>2, <1>4, <1>5, <1>7, <1>8, <1>9
<1> QED
  BY <1>6, <1>10, CollectStep

-----------------------------------------------------------------------------
(* Every step preserves the invariant *)

LEMMA StutterStep ==
  ASSUME IInv, UNCHANGED vars
  PROVE  IInv'
<1>0. UNCHANGED <<sch, proc, chan, conn, pc, loc, pending, fault>>
  BY DEF vars
<1>1. Types' /\ OwnChannels' /\ OwnConnects' /\ Answers'
  BY <1>0 DEF IInv, Types, OwnChannels, OwnConnects, Answers, Owns
<1>2. Lists'
  <2>1. Heads' = Heads /\ Members' = Members
    BY <1>0 DEF Heads, Members, SemOf
  <2> QED
    BY <1>0, <2>1 DEF IInv, Lists
<1>3. Callers'
  BY <1>0 DEF IInv, Callers, Owns
<1>4. Slots'
  BY <1>0 DEF IInv, Slots, Live, WokenAt, Inside
<1>5. Replies'
  BY <1>0 DEF IInv, Replies, RepliesAt, Live, Awaiting, ConnAt
<1>6. Messages'
  BY <1>0, KeepMessages DEF IInv
<1> QED
  BY <1>1, <1>2, <1>3, <1>4, <1>5, <1>6 DEF IInv

LEMMA StepIInv == Polite /\ IInv /\ [Next]_vars => IInv'
<1> SUFFICES ASSUME Polite, IInv, [Next]_vars PROVE IInv'
  OBVIOUS
<1>1. CASE timer_tick
  BY <1>1, TickStep
<1>2. ASSUME NEW t \in Threads, Resume(t) PROVE IInv'
  BY <1>2, SendResumeStep, ReturnStep, ReceiveResumeStep DEF Resume
<1>3. ASSUME NEW t \in Threads, process_exit(t) PROVE IInv'
  BY <1>3, ExitStep
<1>4. ASSUME NEW t \in ServerThreads, Serve(t) PROVE IInv'
  <2>1. t \in Threads
    BY DEF ServerThreads
  <2> QED
    BY <1>4, <2>1, ReceiveStep, ReplyStep DEF Serve
<1>5. ASSUME NEW t \in ServerThreads, NEW c \in Channels, ipc_listen(t, c) PROVE IInv'
  BY <1>5, ListenStep
<1>6. ASSUME NEW t \in ServerThreads, NEW id \in Ids, ipc_close(t, id) PROVE IInv'
  BY <1>6, CloseStep DEF ServerThreads
<1>7. ASSUME NEW t \in ClientThreads, NEW p \in Servers, NEW id \in Ids, NEW k \in Connects,
             NEW old \in {NULL, Garbage}, ipc_connect(t, p, id, k, old)
      PROVE  IInv'
  BY <1>7, ConnectStep, IpcAssumption DEF ClientThreads
<1>8. ASSUME NEW t \in ClientThreads, NEW id \in Ids, ipc_disconnect(t, id) PROVE IInv'
  BY <1>8, DisconnectStep DEF ClientThreads
<1>9. ASSUME NEW t \in ClientThreads, NEW id \in Ids, ipc_send(t, id) PROVE IInv'
  BY <1>9, SendStep DEF ClientThreads
<1>10. CASE UNCHANGED vars
  BY <1>10, StutterStep
<1> QED
  BY <1>1, <1>2, <1>3, <1>4, <1>5, <1>6, <1>7, <1>8, <1>9, <1>10 DEF Next

LEMMA Invariance ==
  ASSUME Polite
  PROVE  Spec => []IInv
<1>1. Init => IInv
  BY InitIInv
<1>2. IInv /\ [Next]_vars => IInv'
  BY StepIInv
<1> QED
  BY <1>1, <1>2, PTL DEF Spec

-----------------------------------------------------------------------------
(* What the invariant implies *)

\* The chain of a list that ends consists of its members.
LEMMA ListChain ==
  ASSUME NEW next \in [Threads -> Pointer], NEW p, NEW S \in SUBSET Threads, IsList(next, p, S)
  PROVE  Ends(next, p) /\ Chain(next, p) = S
<1>1. PICK w \in Seq(Threads) : Linked(next, p, w) /\ \A t \in Threads : InQueue(t, w) <=> t \in S
  BY DEF IsList
<1>2. Ends(next, p) /\ \A u : u \in Chain(next, p) <=> InQueue(u, w)
  BY <1>1, ChainLemma
<1>3. \A u : InQueue(u, w) => u \in Threads
  BY ElementOfSeq DEF InQueue
<1> QED
  BY <1>1, <1>2, <1>3

\* The chains of the run queue and of the semaphores.
LEMMA Chains ==
  ASSUME IInv
  PROVE  /\ Ends(sch.next, sch.head)
         /\ Chain(sch.next, sch.head) = {t \in Threads : sch.state[t] = "READY" /\ t # sch.current}
         /\ \A x \in Queues : Ends(sch.next, Heads[x]) /\ Chain(sch.next, Heads[x]) = Members[x]
         /\ \A c \in Channels : /\ <<c, "send_wait">> \in Queues /\ <<c, "recv_wait">> \in Queues
                                /\ chan[c].send.queue = Heads[<<c, "send_wait">>]
                                /\ chan[c].recv.queue = Heads[<<c, "recv_wait">>]
<1>1. /\ ListsHold(sch, Heads, Members)
      /\ sch.next \in [Threads -> Pointer]
  BY DEF IInv, Lists, Types, Sched
<1>2. Ends(sch.next, sch.head)
      /\ Chain(sch.next, sch.head) = {t \in Threads : sch.state[t] = "READY" /\ t # sch.current}
  <2> DEFINE S == {t \in Threads : sch.state[t] = "READY" /\ t # sch.current}
  <2>1. PICK r \in Seq(Threads) :
          /\ IsRunQueue(sch, r)
          /\ \A t \in Threads : InQueue(t, r) <=> sch.state[t] = "READY" /\ t # sch.current
    BY <1>1 DEF ListsHold, RunQueueHolds
  <2>2. Linked(sch.next, sch.head, r)
    BY <2>1 DEF IsRunQueue, Linked
  <2>3. IsList(sch.next, sch.head, S)
    BY <2>1, <2>2 DEF IsList
  <2>4. S \in SUBSET Threads
    OBVIOUS
  <2> HIDE DEF S
  <2>5. Ends(sch.next, sch.head) /\ Chain(sch.next, sch.head) = S
    BY <1>1, <2>3, <2>4, ListChain
  <2> QED
    BY <2>5 DEF S
<1>3. ASSUME NEW x \in Queues
      PROVE  Ends(sch.next, Heads[x]) /\ Chain(sch.next, Heads[x]) = Members[x]
  <2>1. IsList(sch.next, Heads[x], Members[x])
    BY <1>1 DEF ListsHold
  <2>2. Members[x] \in SUBSET Threads
    BY DEF Members
  <2> QED
    BY <1>1, <2>1, <2>2, ListChain
<1>4. ASSUME NEW c \in Channels
      PROVE  /\ <<c, "send_wait">> \in Queues /\ <<c, "recv_wait">> \in Queues
             /\ chan[c].send.queue = Heads[<<c, "send_wait">>]
             /\ chan[c].recv.queue = Heads[<<c, "recv_wait">>]
  BY DEF Queues, Waits, Heads, SemOf
<1> QED
  BY <1>2, <1>3, <1>4

LEMMA IInvLists == IInv => ListsDisjoint
<1> SUFFICES ASSUME IInv PROVE ListsDisjoint
  OBVIOUS
<1> DEFINE heads == {sch.head} \cup {chan[c].send.queue : c \in Live}
                      \cup {chan[c].recv.queue : c \in Live}
           run == {t \in Threads : sch.state[t] = "READY" /\ t # sch.current}
<1>1. \A h \in heads : \/ h = sch.head /\ Chain(sch.next, h) = run /\ Ends(sch.next, h)
                       \/ \E x \in Queues : h = Heads[x] /\ Chain(sch.next, h) = Members[x]
                                            /\ Ends(sch.next, h)
  <2>1. /\ Ends(sch.next, sch.head) /\ Chain(sch.next, sch.head) = run
        /\ \A x \in Queues : Ends(sch.next, Heads[x]) /\ Chain(sch.next, Heads[x]) = Members[x]
        /\ \A c \in Channels : /\ <<c, "send_wait">> \in Queues /\ <<c, "recv_wait">> \in Queues
                               /\ chan[c].send.queue = Heads[<<c, "send_wait">>]
                               /\ chan[c].recv.queue = Heads[<<c, "recv_wait">>]
    BY Chains
  <2> HIDE DEF run
  <2>2. ASSUME NEW h \in heads
        PROVE  h = sch.head \/ \E x \in Queues : h = Heads[x]
    BY <2>1 DEF Live
  <2> HIDE DEF heads
  <2> QED
    BY <2>1, <2>2
<1>2. \A x \in Queues : \A t \in Members[x] : t \in Threads /\ sch.state[t] = "SEMA"
  BY DEF Members
<1>3. \A x, y \in Queues : \A t \in Members[x] : t \in Members[y] => x = y
  BY DEF IInv, Lists, ListsHold
<1>4. \A h \in heads : Ends(sch.next, h)
  BY <1>1
<1>5. ASSUME NEW g \in heads \ {NULL}, NEW h \in heads \ {NULL}, g # h
      PROVE  Chain(sch.next, g) \cap Chain(sch.next, h) = {}
  <2> SUFFICES ASSUME NEW t, t \in Chain(sch.next, g), t \in Chain(sch.next, h) PROVE FALSE
    OBVIOUS
  <2>1. CASE g = sch.head /\ Chain(sch.next, g) = run
    BY <1>1, <1>2, <1>5, <2>1
  <2>2. CASE h = sch.head /\ Chain(sch.next, h) = run
    BY <1>1, <1>2, <1>5, <2>2
  <2>3. ASSUME NEW x \in Queues, g = Heads[x], Chain(sch.next, g) = Members[x],
               NEW y \in Queues, h = Heads[y], Chain(sch.next, h) = Members[y]
        PROVE  FALSE
    BY <1>3, <1>5, <2>3
  <2> HIDE DEF heads, run
  <2> QED
    BY <1>1, <2>1, <2>2, <2>3
<1>6. ASSUME NEW h \in heads PROVE sch.current \notin Chain(sch.next, h)
  <2>1. sch.current \in Threads => sch.state[sch.current] = "READY"
    BY NullAssumption DEF IInv, Lists
  <2> QED
    BY <1>1, <1>2, <2>1
<1> HIDE DEF heads
<1>7. /\ \A h \in heads : Ends(sch.next, h)
      /\ \A g, h \in heads \ {NULL} : g # h => Chain(sch.next, g) \cap Chain(sch.next, h) = {}
      /\ \A h \in heads : sch.current \notin Chain(sch.next, h)
  BY <1>4, <1>5, <1>6
<1> QED
  BY <1>7, Zenon DEF ListsDisjoint, heads

LEMMA IInvSlots == IInv => SlotHandedAround
<1> SUFFICES ASSUME IInv PROVE SlotHandedAround
  OBVIOUS
<1>1. ASSUME NEW c \in Live
      PROVE  LET empty == chan[c].send.count + Cardinality(WokenAt(c, "send_wait"))
                 full  == chan[c].recv.count + Cardinality(WokenAt(c, "recv_wait"))
             IN  /\ empty + full = 1
                 /\ chan[c].msg # NULL <=> full = 1
  <2>1. SlotHeld(chan[c].send.count, WokenAt(c, "send_wait"),
                 chan[c].recv.count, WokenAt(c, "recv_wait"), chan[c].msg)
    BY DEF IInv, Slots
  <2>2. PICK senders, receivers, n, m :
          /\ senders = WokenAt(c, "send_wait") /\ receivers = WokenAt(c, "recv_wait")
          /\ n = Cardinality(senders) /\ m = Cardinality(receivers)
    OBVIOUS
  <2>3. /\ senders = {} => n = 0
        /\ receivers = {} => m = 0
        /\ (\E t \in Threads : senders = {t}) => n = 1
        /\ (\E t \in Threads : receivers = {t}) => m = 1
    BY <2>2, FS_EmptySet, FS_Singleton
  <2>4. /\ chan[c].send.count + n + (chan[c].recv.count + m) = 1
        /\ chan[c].msg # NULL <=> chan[c].recv.count + m = 1
    BY <2>1, <2>2, <2>3 DEF SlotHeld
  <2> QED
    BY <2>2, <2>4
<1> QED
  BY <1>1, IInvLists DEF SlotHandedAround

LEMMA IInvTypeOK == IInv => TypeOK
<1> SUFFICES ASSUME Types PROVE TypeOK
  BY DEF IInv
<1>1. ASSUME NEW S, NEW v \in Vector(S) PROVE IsVector(v, S)
  BY VectorBounds DEF IsVector
<1>2. \A p \in Processes : /\ proc[p].chan \in Channels \cup {NULL}
                           /\ IsVector(proc[p].chans, Channels)
                           /\ IsVector(proc[p].fds, Connects)
  BY <1>1 DEF Types, Process
<1>3. \A c \in Channels : IsChannel(chan[c])
  BY <1>1 DEF Types, Channel, IsChannel
<1> QED
  BY <1>2, <1>3 DEF Types, TypeOK

LEMMA IInvReplies == IInv => ReplyTableExact
<1> SUFFICES ASSUME IInv PROVE ReplyTableExact
  OBVIOUS
<1>1. ASSUME NEW c \in Live
      PROVE  LET entries == {i \in DOMAIN chan[c].reply.content : chan[c].reply.content[i] # NULL}
                 OwnerOf(i) == conn[chan[c].reply.content[i]].owner
             IN  /\ \A i, j \in entries : OwnerOf(i) = OwnerOf(j) => i = j
                 /\ {OwnerOf(i) : i \in entries} = {t \in Inside(c) : sch.state[t] = "REPLY"}
  <2>1. \A i \in Entries(chan[c].reply) :
          /\ Awaiting(c, i) \in Threads /\ pc[Awaiting(c, i)] = "send_reply"
          /\ sch.state[Awaiting(c, i)] = "REPLY"
          /\ loc[Awaiting(c, i)].conn = ConnAt(c, i) /\ loc[Awaiting(c, i)].chan = c
    BY ReplyFacts
  <2>2. /\ \A i, j \in Entries(chan[c].reply) : ConnAt(c, i) = ConnAt(c, j) => i = j
        /\ \A t \in Threads : loc[t].chan = c /\ sch.state[t] = "REPLY" =>
             \E i \in Entries(chan[c].reply) : ConnAt(c, i) = loc[t].conn
    BY DEF IInv, Replies, RepliesAt
  <2>3. \A i, j \in Entries(chan[c].reply) : Awaiting(c, i) = Awaiting(c, j) => i = j
    BY <2>1, <2>2
  <2>4. \A i \in Entries(chan[c].reply) :
          Awaiting(c, i) \in {t \in Inside(c) : sch.state[t] = "REPLY"}
    BY <2>1 DEF Inside
  <2>5. ASSUME NEW t \in Inside(c), sch.state[t] = "REPLY"
        PROVE  \E i \in Entries(chan[c].reply) : Awaiting(c, i) = t
    <3>1. t \in Threads /\ loc[t].chan = c
      BY DEF Inside
    <3>2. PICK i \in Entries(chan[c].reply) : ConnAt(c, i) = loc[t].conn
      BY <2>2, <2>5, <3>1
    <3>3. pc[t] \in Sending
      BY <2>5, <3>1, BlockedInside DEF IInv, Sending
    <3>4. conn[loc[t].conn].owner = t
      BY <3>1, <3>3 DEF IInv, Callers
    <3> QED
      BY <3>2, <3>4 DEF Awaiting
  <2>6. {Awaiting(c, i) : i \in Entries(chan[c].reply)} = {t \in Inside(c) : sch.state[t] = "REPLY"}
    BY <2>4, <2>5
  <2> QED
    BY <2>3, <2>6, Zenon DEF Entries, Awaiting, ConnAt
<1> QED
  BY <1>1, IInvTypeOK DEF ReplyTableExact

LEMMA IInvMessages == IInv => MessageLeadsBack
<1> SUFFICES ASSUME IInv, NEW c \in Live, NEW t \in Inside(c), sch.state[t] = "REPLY"
             PROVE  \E i \in DOMAIN chan[c].reply.content :
                      /\ chan[c].reply.content[i] = loc[t].conn
                      /\ \/ chan[c].msg = t /\ chan[c].recvid = i
                         \/ \E p \in Servers : [recvid |-> i, msg |-> t] \in pending[p]
  BY DEF MessageLeadsBack
<1>1. Types /\ Callers /\ OwnChannels /\ Replies /\ Messages
  BY DEF IInv
<1>2. t \in Threads /\ loc[t].chan = c
  BY DEF Inside
<1>3. PICK i \in Entries(chan[c].reply) : ConnAt(c, i) = loc[t].conn
  BY <1>1, <1>2 DEF Replies, RepliesAt
<1>4. Awaiting(c, i) = t
  <2>1. pc[t] \in Sending
    BY <1>1, <1>2, BlockedInside DEF Sending
  <2>2. conn[loc[t].conn].owner = t
    BY <1>1, <1>2, <2>1 DEF Callers
  <2> QED
    BY <1>3, <2>2 DEF Awaiting
<1>5. i \in DOMAIN chan[c].reply.content /\ chan[c].reply.content[i] = loc[t].conn
  BY <1>3 DEF Entries, ConnAt
<1>6. MessagesAt(c)
  BY <1>1 DEF Messages
<1>7. CASE InSlot(c, i)
  <2>1. chan[c].msg = t /\ chan[c].recvid = i
    BY <1>4, <1>6, <1>7 DEF MessagesAt, InSlot
  <2> QED
    BY <1>5, <2>1
<1>8. CASE ~InSlot(c, i)
  <2>1. PICK p \in Processes : Owns(p, c) /\ [recvid |-> i, msg |-> t] \in pending[p]
    BY <1>3, <1>4, <1>6, <1>8 DEF MessagesAt
  <2>2. p \in Servers
    BY <1>1, <2>1, OwnsFacts
  <2> QED
    BY <1>5, <2>1, <2>2
<1> QED
  BY <1>7, <1>8

LEMMA IInvWaits == IInv => NoWaitWithoutToken
<1> SUFFICES ASSUME IInv, NEW c \in Live, NEW t \in Chain(sch.next, chan[c].send.queue)
             PROVE  sch.state[t] = "SEMA"
  BY DEF NoWaitWithoutToken
<1>1. PICK x : x = <<c, "send_wait">>
  OBVIOUS
<1>2. x \in Queues /\ chan[c].send.queue = Heads[x]
  BY <1>1, Chains DEF Live
<1>3. t \in Members[x]
  BY <1>2, Chains
<1> QED
  BY <1>2, <1>3 DEF Members

\* Only the thread on the CPU changes its place.
LEMMA PlaceStep ==
  ASSUME IInv, NEW t \in Threads, [Next]_vars, pc'[t] # pc[t]
  PROVE  At(t, pc[t])
<1>1. pc \in [Threads -> {"user", "send_wait", "send_reply", "recv_wait"}]
  BY DEF IInv, Types
<1>2. ~fault
  BY DEF IInv, Types
<1>3. CASE timer_tick
  BY <1>3 DEF timer_tick
<1>4. ASSUME NEW u \in Threads, Resume(u) PROVE At(t, pc[t])
  <2>1. CASE SendResume(u)
    BY <1>1, <2>1 DEF SendResume, At, Fault
  <2>2. CASE SendReturn(u)
    BY <1>1, <2>2 DEF SendReturn, At, Fault
  <2>3. CASE ReceiveResume(u)
    BY <1>1, <2>3 DEF ReceiveResume, Collect, At, Fault
  <2> QED
    BY <1>4, <2>1, <2>2, <2>3 DEF Resume
<1>5. ASSUME NEW u \in Threads, process_exit(u) PROVE At(t, pc[t])
  BY <1>5 DEF process_exit
<1>6. ASSUME NEW u \in ServerThreads, Serve(u) PROVE At(t, pc[t])
  <2>1. CASE \E id \in Ids : ipc_receive(u, id)
    BY <1>1, <2>1 DEF ipc_receive, Collect, At, Fault
  <2>2. CASE \E id \in Ids, data \in BOOLEAN : ipc_reply(u, id, data)
    BY <2>2 DEF ipc_reply, Fault
  <2> QED
    BY <1>6, <2>1, <2>2 DEF Serve
<1>7. ASSUME NEW u \in ServerThreads, NEW c \in Channels, ipc_listen(u, c) PROVE At(t, pc[t])
  BY <1>7 DEF ipc_listen
<1>8. ASSUME NEW u \in ServerThreads, NEW id \in Ids, ipc_close(u, id) PROVE At(t, pc[t])
  BY <1>8 DEF ipc_close, Fault
<1>9. ASSUME NEW u \in ClientThreads, NEW p \in Servers, NEW id \in Ids, NEW k \in Connects,
             NEW old \in {NULL, Garbage}, ipc_connect(u, p, id, k, old)
      PROVE  At(t, pc[t])
  BY <1>9 DEF ipc_connect
<1>10. ASSUME NEW u \in ClientThreads, NEW id \in Ids, ipc_disconnect(u, id) PROVE At(t, pc[t])
  BY <1>10 DEF ipc_disconnect, Fault
<1>11. ASSUME NEW u \in ClientThreads, NEW id \in Ids, ipc_send(u, id) PROVE At(t, pc[t])
  BY <1>1, <1>11 DEF ipc_send, At, Fault
<1>12. CASE UNCHANGED vars
  BY <1>12 DEF vars
<1> QED
  BY <1>3, <1>4, <1>5, <1>6, <1>7, <1>8, <1>9, <1>10, <1>11, <1>12 DEF Next

-----------------------------------------------------------------------------
(* The theorems *)

\* The right to the message slot of a channel exists once, the slot is full only
\* when it lies with the receivers, and the run queue and the semaphore queues
\* never mix.
THEOREM SlotAlwaysHandedAround ==
  ASSUME Polite
  PROVE  Spec => []SlotHandedAround
<1>1. IInv => SlotHandedAround
  BY IInvSlots
<1> QED
  BY <1>1, Invariance, PTL

\* The reply table of a channel leads to the senders that await a reply, to each
\* of them once, and to nobody else.
THEOREM ReplyTableStaysExact ==
  ASSUME Polite
  PROVE  Spec => []ReplyTableExact
<1>1. IInv => ReplyTableExact
  BY IInvReplies
<1> QED
  BY <1>1, Invariance, PTL

\* No message is lost between ipc_send and ipc_reply: a blocked sender's message
\* is in the slot or with the server, under the identifier that leads back to it.
THEOREM MessagesLeadBack ==
  ASSUME Polite
  PROVE  Spec => []MessageLeadsBack
<1>1. IInv => MessageLeadsBack
  BY IInvMessages
<1> QED
  BY <1>1, Invariance, PTL

\* semaphore_wait in ipc_send: a thread in the queue of the slot may not run
\* before a signal has taken it off.
THEOREM WaitersStayBlocked ==
  ASSUME Polite
  PROVE  Spec => []NoWaitWithoutToken
<1>1. IInv => NoWaitWithoutToken
  BY IInvWaits
<1> QED
  BY <1>1, Invariance, PTL

\* The kernel follows no null, dangling or wild pointer as long as programs obey
\* the rules.
THEOREM PoliteProgramsNeverFault ==
  ASSUME Polite
  PROVE  Spec => []NoFault
<1>1. IInv => NoFault
  BY DEF IInv, Types, NoFault
<1> QED
  BY <1>1, Invariance, PTL

\* A send returns with the status and the data that were meant for it.
THEOREM SendersGetTheirReply ==
  ASSUME Polite
  PROVE  Spec => SenderGetsOwnReply
<1> DEFINE Own(t) == LET k == loc[t].conn IN
                     /\ conn[k].status.to = t
                     /\ conn[k].msg = IF conn[k].status.data THEN t ELSE NULL
<1>1. ASSUME IInv, [Next]_vars, NEW t \in Threads, pc[t] = "send_reply", pc'[t] = "user"
      PROVE  Own(t)
  <2>1. At(t, "send_reply")
    BY <1>1, PlaceStep
  <2>2. sch.state[t] = "READY"
    BY <1>1, <2>1, AtFacts
  <2> QED
    BY <1>1, <2>2 DEF IInv, Answers
<1>2. IInv /\ [Next]_vars =>
        [\A t \in Threads : pc[t] = "send_reply" /\ pc'[t] = "user" => Own(t)]_vars
  BY <1>1
<1> QED
  BY <1>2, Invariance, PTL DEF Spec, SenderGetsOwnReply
=============================================================================
