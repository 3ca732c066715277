-------------------------- MODULE SchedulerProofs ---------------------------
(***************************************************************************)
(* Proofs about the scheduler, for any set of threads.                     *)
(***************************************************************************)
EXTENDS SchedulerFifo, ThreadListProofs

\* scheduler_schedule called in a state in which the queue holds the READY
\* threads that are not on the CPU runs the first of the queue, and again
\* leaves exactly the others in it.
LEMMA ScheduleLemma ==
  ASSUME NEW s \in Sched, NEW q \in Seq(Threads), IsRunQueue(s, q), AwaitCpu(s, q),
         NEW r, r = scheduler_schedule(s), NEW p, p = Offered(s, q)
  PROVE  /\ r \in Sched
         /\ Rest(p) \in Seq(Threads)
         /\ IsRunQueue(r, Rest(p))
         /\ AwaitCpu(r, Rest(p))
         /\ r.current # NULL => r.state[r.current] = "READY"
         /\ r.state = s.state
         /\ r.current = IF p = <<>> THEN NULL ELSE Head(p)
<1>1. /\ r \in Sched /\ p \in Seq(Threads) /\ Rest(p) \in Seq(Threads)
      /\ \A i, j \in 1..Len(p) : p[i] = p[j] => i = j
      /\ IsRunQueue(r, Rest(p)) /\ r.state = s.state
      /\ r.current = IF p = <<>> THEN NULL ELSE Head(p)
  <2>1. s.current # NULL => s.current \in Threads
    BY DEF Sched, Pointer
  <2>2. s.current # NULL /\ s.state[s.current] = "READY" => ~InQueue(s.current, q)
    BY <2>1 DEF AwaitCpu
  <2> QED
    BY <2>2, SwitchLemma
<1>2. \A t \in Threads : InQueue(t, p) <=> s.state[t] = "READY"
  <2>1. CASE s.current # NULL /\ s.state[s.current] = "READY"
    <3>1. s.current \in Threads /\ p = Append(q, s.current)
      BY <2>1 DEF Sched, Pointer, Offered
    <3>2. \A t \in Threads : InQueue(t, p) <=> InQueue(t, q) \/ t = s.current
      BY <3>1, AppendMembers
    <3> QED
      BY <2>1, <3>2 DEF AwaitCpu
  <2>2. CASE ~(s.current # NULL /\ s.state[s.current] = "READY")
    <3>1. p = q
      BY <2>2 DEF Offered
    <3>2. \A t \in Threads : s.state[t] = "READY" => t # s.current
      BY <2>2, NullAssumption
    <3> QED
      BY <3>1, <3>2 DEF AwaitCpu
  <2> QED
    BY <2>1, <2>2
<1>3. CASE p = <<>>
  <2>1. \A t : ~InQueue(t, p)
    BY <1>3, EmptySeq DEF InQueue
  <2>2. Rest(p) = p
    BY <1>3 DEF Rest
  <2> QED
    BY <1>1, <1>2, <1>3, <2>1, <2>2 DEF AwaitCpu
<1>4. CASE p # <<>>
  <2>1. /\ Head(p) \in Threads /\ InQueue(Head(p), p)
        /\ \A u : InQueue(u, Rest(p)) <=> InQueue(u, p) /\ u # Head(p)
    BY <1>1, <1>4, RestMembers
  <2> QED
    BY <1>1, <1>2, <1>4, <2>1 DEF AwaitCpu
<1> QED
  BY <1>3, <1>4

-----------------------------------------------------------------------------

SetState(s, t, why) == [s EXCEPT !.state = [s.state EXCEPT ![t] = why]]

\* Blocking or creating a thread changes one state and none of the pointers.
LEMMA SetStateLemma ==
  ASSUME NEW s \in Sched, NEW q \in Seq(Threads), IsRunQueue(s, q),
         NEW t \in Threads, NEW why \in ThreadState,
         NEW r, r = SetState(s, t, why)
  PROVE  /\ r \in Sched
         /\ IsRunQueue(r, q)
         /\ r.state = [s.state EXCEPT ![t] = why]
         /\ r.current = s.current
<1>1. /\ r \in Sched /\ r.state = [s.state EXCEPT ![t] = why]
      /\ r.current = s.current /\ r.head = s.head /\ r.tail = s.tail
      /\ r.next = s.next
  BY DEF Sched, SetState
<1> QED
  BY <1>1 DEF IsRunQueue

\* The inductive invariant.  RunQueueIntact alone is not preserved by an
\* enqueue unless the thread is in no list yet, which is what
\* ReadyThreadsQueued says of the running and of every blocked thread.
IInv ==
  /\ TypeOK
  /\ fifo \in Seq(Threads)
  /\ RunQueueIntact
  /\ ReadyThreadsQueued

\* No thread exists and no timer interrupt has come.
LEMMA InitIInv == HInit => IInv
<1> SUFFICES ASSUME HInit PROVE IInv
  OBVIOUS
<1>1. TypeOK
  BY TimerAssumption DEF HInit, Init, TypeOK, BootSched, Sched, Pointer, ThreadState
<1>2. fifo \in Seq(Threads) /\ fifo = <<>> /\ Len(fifo) = 0
  BY EmptySeq DEF HInit
<1>3. RunQueueIntact
  BY <1>2 DEF HInit, Init, BootSched, RunQueueIntact, IsRunQueue
<1>4. ReadyThreadsQueued
  BY <1>2 DEF HInit, Init, BootSched, ReadyThreadsQueued, AwaitCpu, InQueue
<1> QED
  BY <1>1, <1>2, <1>3, <1>4 DEF IInv

\* timer_tick keeps the two counters of the clock in range.
LEMMA ClockLemma ==
  ASSUME TypeOK, timer_tick
  PROVE  ticks' \in 0..(TickModulus - 1) /\ subticks' \in 0..TIMER_FREQ
<1>1. (ticks + 1) % TickModulus \in 0..(TickModulus - 1)
  BY TimerAssumption DEF TypeOK
<1> QED
  BY <1>1, TimerAssumption DEF TypeOK, timer_tick

\* timer_tick and sys_yield: the thread on the CPU goes to the end of the
\* queue and the one that waited longest runs.
LEMMA SwitchStep ==
  ASSUME IInv, HSwitch
  PROVE  IInv' /\ Queue!Rotate
<1> DEFINE p == Offered(sch, fifo)
<1>1. /\ sch \in Sched /\ fifo \in Seq(Threads) /\ IsRunQueue(sch, fifo)
      /\ AwaitCpu(sch, fifo)
      /\ sch.current # NULL => sch.state[sch.current] = "READY"
  BY DEF IInv, TypeOK, RunQueueIntact, ReadyThreadsQueued
<1>2. p = Requeued
  BY <1>1 DEF Offered, Requeued
<1>3. sch' = scheduler_schedule(sch) /\ fifo' = Rest(p)
  BY <1>2 DEF HSwitch, timer_tick, sys_yield
<1>4. ticks' \in 0..(TickModulus - 1) /\ subticks' \in 0..TIMER_FREQ
  BY ClockLemma DEF HSwitch, sys_yield, clock, IInv, TypeOK
<1> HIDE DEF p
<1>5. /\ sch' \in Sched /\ Rest(p) \in Seq(Threads) /\ IsRunQueue(sch', Rest(p))
      /\ AwaitCpu(sch', Rest(p))
      /\ sch'.current # NULL => sch'.state[sch'.current] = "READY"
      /\ sch'.state = sch.state
      /\ sch'.current = IF p = <<>> THEN NULL ELSE Head(p)
  BY <1>1, <1>3, ScheduleLemma DEF p
<1>6. IInv'
  BY <1>3, <1>4, <1>5
  DEF IInv, TypeOK, RunQueueIntact, IsRunQueue, ReadyThreadsQueued, AwaitCpu
<1>7. Queue!Dispatch(p)
  BY <1>3, <1>5 DEF Queue!Dispatch, Rest
<1> QED
  BY <1>2, <1>5, <1>6, <1>7 DEF Queue!Rotate, Requeued

\* process_exit and the waits: the thread on the CPU leaves it without joining
\* the queue.
LEMMA StopStep ==
  ASSUME IInv, HStop
  PROVE  IInv' /\ \E why \in {"REPLY", "SEMA", "DEAD"} : Queue!Stop(why)
<1>1. /\ sch \in Sched /\ fifo \in Seq(Threads) /\ IsRunQueue(sch, fifo)
      /\ AwaitCpu(sch, fifo)
  BY DEF IInv, TypeOK, RunQueueIntact, ReadyThreadsQueued
<1>2. PICK why \in {"REPLY", "SEMA", "DEAD"} :
        sch' = scheduler_schedule(thread_block(sch, sch.current, why))
  BY DEF HStop, process_exit, BlockCurrent, Blocked
<1>3. sch.current # NULL /\ UNCHANGED clock /\ fifo' = Rest(fifo)
  BY DEF HStop, process_exit, BlockCurrent
<1>4. sch.current \in Threads /\ why \in ThreadState /\ why # "READY"
  BY <1>1, <1>3 DEF Sched, Pointer, ThreadState, Blocked
<1> DEFINE b == thread_block(sch, sch.current, why)
<1>5. /\ b \in Sched /\ IsRunQueue(b, fifo)
      /\ b.state = [sch.state EXCEPT ![sch.current] = why]
      /\ b.current = sch.current
  <2>1. b = SetState(sch, sch.current, why)
    BY DEF thread_block, SetState
  <2> HIDE DEF b
  <2> QED
    BY <1>1, <1>4, <2>1, SetStateLemma
<1> HIDE DEF b
<1>6. sch.state \in [Threads -> ThreadState]
  BY <1>1 DEF Sched
<1>7. AwaitCpu(b, fifo) /\ Offered(b, fifo) = fifo
  BY <1>1, <1>4, <1>5, <1>6 DEF AwaitCpu, Offered
<1>8. /\ sch' \in Sched /\ Rest(fifo) \in Seq(Threads) /\ IsRunQueue(sch', Rest(fifo))
      /\ AwaitCpu(sch', Rest(fifo))
      /\ sch'.current # NULL => sch'.state[sch'.current] = "READY"
      /\ sch'.state = b.state
      /\ sch'.current = IF fifo = <<>> THEN NULL ELSE Head(fifo)
  BY <1>1, <1>2, <1>5, <1>7, ScheduleLemma DEF b
<1>9. IInv'
  BY <1>3, <1>8
  DEF IInv, TypeOK, RunQueueIntact, IsRunQueue, ReadyThreadsQueued, AwaitCpu, clock
<1>10. Queue!Dispatch(fifo)
  BY <1>3, <1>8 DEF Queue!Dispatch, Rest
<1> QED
  BY <1>2, <1>3, <1>5, <1>8, <1>9, <1>10 DEF Queue!Stop

\* sys_clone, process_create and thread_unblock: a thread that is in no list
\* joins the queue at its end.
LEMMA JoinStep ==
  ASSUME IInv, NEW t \in Threads, HJoin(t)
  PROVE  IInv' /\ Queue!Admit(t)
<1>1. /\ sch \in Sched /\ fifo \in Seq(Threads) /\ IsRunQueue(sch, fifo)
      /\ AwaitCpu(sch, fifo)
      /\ sch.current # NULL => sch.state[sch.current] = "READY"
  BY DEF IInv, TypeOK, RunQueueIntact, ReadyThreadsQueued
<1> DEFINE b == [sch EXCEPT !.state = [sch.state EXCEPT ![t] = "READY"]]
<1>2. /\ sch' = scheduler_enqueue_thread(b, t) /\ UNCHANGED clock
      /\ fifo' = Append(fifo, t)
      /\ sch.state[t] \in {"FREE", "REPLY", "SEMA"}
  BY DEF HJoin, sys_clone, process_create, WakeThread, thread_new, thread_unblock, Blocked
<1>3. /\ b \in Sched /\ IsRunQueue(b, fifo)
      /\ b.state = [sch.state EXCEPT ![t] = "READY"]
      /\ b.current = sch.current
  <2>1. b = SetState(sch, t, "READY")
    BY DEF SetState
  <2>2. "READY" \in ThreadState
    BY DEF ThreadState
  <2> HIDE DEF b
  <2> QED
    BY <1>1, <2>1, <2>2, SetStateLemma
<1> HIDE DEF b
<1>4. ~InQueue(t, fifo) /\ t # sch.current /\ sch.state \in [Threads -> ThreadState]
  BY <1>1, <1>2, NullAssumption DEF AwaitCpu, Sched
<1>5. /\ sch' \in Sched /\ Append(fifo, t) \in Seq(Threads)
      /\ IsRunQueue(sch', Append(fifo, t))
      /\ sch'.state = b.state /\ sch'.current = b.current
  BY <1>1, <1>2, <1>3, <1>4, EnqueueLemma
<1>6. \A u \in Threads : InQueue(u, Append(fifo, t)) <=> InQueue(u, fifo) \/ u = t
  BY <1>1, AppendMembers
<1>7. /\ AwaitCpu(sch', Append(fifo, t))
      /\ sch'.current # NULL => sch'.state[sch'.current] = "READY"
  BY <1>1, <1>3, <1>4, <1>5, <1>6 DEF AwaitCpu, Sched, Pointer
<1>8. IInv'
  BY <1>2, <1>5, <1>7, <1>1
  DEF IInv, TypeOK, RunQueueIntact, IsRunQueue, ReadyThreadsQueued, AwaitCpu, clock
<1> QED
  BY <1>2, <1>3, <1>5, <1>8 DEF Queue!Admit

\* A stuttering step preserves the invariant.
LEMMA StutterStep ==
  ASSUME IInv, UNCHANGED hvars
  PROVE  IInv' /\ UNCHANGED Queue!vars
BY DEF IInv, TypeOK, RunQueueIntact, IsRunQueue, ReadyThreadsQueued, AwaitCpu, InQueue,
       hvars, vars, Queue!vars

\* Every step preserves the invariant and is a step of the abstract queue.
LEMMA StepIInv ==
  ASSUME IInv, [HNext]_hvars
  PROVE  IInv' /\ [Queue!Next]_(Queue!vars)
<1>1. CASE HSwitch
  BY <1>1, SwitchStep DEF Queue!Next
<1>2. CASE HStop
  BY <1>2, StopStep DEF Queue!Next
<1>3. ASSUME NEW t \in Threads, HJoin(t)
      PROVE  IInv' /\ Queue!Next
  BY <1>3, JoinStep DEF Queue!Next
<1>4. CASE UNCHANGED hvars
  BY <1>4, StutterStep
<1> QED
  BY <1>1, <1>2, <1>3, <1>4 DEF HNext

\* The inductive invariant holds throughout.
LEMMA Inductive == HSpec => []IInv
<1>1. HInit => IInv
  BY InitIInv
<1>2. IInv /\ [HNext]_hvars => IInv'
  BY StepIInv
<1> QED
  BY <1>1, <1>2, PTL DEF HSpec

\* The scheduler's state keeps its types: head, tail, next and current are
\* always threads or NULL, and both clock counters stay in range.
THEOREM TypeCorrect == HSpec => []TypeOK
<1>1. IInv => TypeOK
  BY DEF IInv
<1> QED
  BY <1>1, Inductive, PTL

\* For any number of threads, the pointers of the run queue describe exactly
\* the threads that joined it and did not leave it, in that order.
THEOREM RunQueueCorrect == HSpec => []RunQueueIntact
<1>1. IInv => RunQueueIntact
  BY DEF IInv
<1> QED
  BY <1>1, Inductive, PTL

\* For any number of threads, the run queue and the CPU together hold exactly
\* the READY threads.
THEOREM NoThreadForgotten == HSpec => []ReadyThreadsQueued
<1>1. IInv => ReadyThreadsQueued
  BY DEF IInv
<1> QED
  BY <1>1, Inductive, PTL

\* For any number of threads, scheduler.c implements the first-come-first-
\* served scheduler of FifoScheduler.
THEOREM Refinement == HSpec => RefinesFifo
<1>1. HInit => Queue!Init
  BY DEF HInit, Init, BootSched, Queue!Init
<1>2. IInv /\ [HNext]_hvars => [Queue!Next]_(Queue!vars)
  BY StepIInv
<1> QED
  BY <1>1, <1>2, Inductive, PTL DEF HSpec, RefinesFifo, Queue!Spec

\* For any number of threads, a dead thread stays dead and off the CPU, and a
\* waiting one is never dispatched without passing through the run queue.
THEOREM OffCpu == HSpec => DeadAndWaitingStayOffCpu
<1> DEFINE Step == \A t \in Threads :
              /\ sch.state[t] = "DEAD" => sch'.state[t] = "DEAD" /\ sch'.current # t
              /\ sch.state[t] \in Blocked => sch'.current # t
<1>1. ASSUME IInv, IInv', [HNext]_hvars PROVE [Step]_hvars
  <2>1. Queue!Next \/ UNCHANGED Queue!vars
    BY <1>1, StepIInv
  <2>2. /\ sch.state \in [Threads -> ThreadState] /\ sch.current \in Pointer
        /\ sch.current # NULL => sch.state[sch.current] = "READY"
        /\ sch'.current # NULL => sch'.state[sch'.current] = "READY"
    BY <1>1 DEF IInv, TypeOK, Sched, ReadyThreadsQueued
  <2>3. CASE Queue!Rotate \/ UNCHANGED Queue!vars
    <3>1. sch'.state = sch.state
      BY <2>3 DEF Queue!Rotate, Queue!vars
    <3> QED
      BY <2>2, <3>1, NullAssumption DEF Blocked
  <2>4. ASSUME NEW why \in {"REPLY", "SEMA", "DEAD"}, Queue!Stop(why) PROVE Step
    <3>1. sch'.state = [sch.state EXCEPT ![sch.current] = why] /\ sch.current # NULL
      BY <2>4 DEF Queue!Stop
    <3>2. \A t \in Threads : t # sch.current => sch'.state[t] = sch.state[t]
      BY <2>2, <3>1
    <3> QED
      BY <2>2, <3>1, <3>2, NullAssumption DEF Blocked
  <2>5. ASSUME NEW u \in Threads, Queue!Admit(u) PROVE Step
    <3>1. /\ sch'.state = [sch.state EXCEPT ![u] = "READY"] /\ sch'.current = sch.current
          /\ sch.state[u] # "DEAD"
      BY <2>5 DEF Queue!Admit
    <3>2. \A t \in Threads : t # u => sch'.state[t] = sch.state[t]
      BY <2>2, <3>1
    <3> QED
      BY <2>2, <3>1, <3>2, NullAssumption DEF Blocked
  <2> QED
    BY <2>1, <2>3, <2>4, <2>5 DEF Queue!Next
<1> QED
  BY <1>1, Inductive, PTL DEF HSpec, DeadAndWaitingStayOffCpu
=============================================================================
