--------------------------- MODULE SchedulerFifo ----------------------------
(***************************************************************************)
(* The linked run queue of Scheduler implements the queue of FifoScheduler.*)
(* The history variable fifo records the order in which threads joined the *)
(* run queue; it is never read by an action of the scheduler.              *)
(***************************************************************************)
EXTENDS Scheduler, ThreadList

VARIABLE fifo

hvars == <<vars, fifo>>

Requeued == IF sch.current = NULL THEN fifo ELSE Append(fifo, sch.current)

HInit == Init /\ fifo = <<>>

HSwitch == (timer_tick \/ sys_yield) /\ fifo' = Rest(Requeued)

HStop ==
  /\ process_exit \/ \E why \in Blocked : BlockCurrent(why)
  /\ fifo' = Rest(fifo)

HJoin(t) ==
  /\ \/ sys_clone(t)
     \/ process_create(t)
     \/ \E why \in Blocked : WakeThread(t, why)
  /\ fifo' = Append(fifo, t)

HNext == HSwitch \/ HStop \/ \E t \in Threads : HJoin(t)

HSpec == HInit /\ [][HNext]_hvars /\ WF_hvars(timer_tick /\ fifo' = Rest(Requeued))

-----------------------------------------------------------------------------

\* queue_head, queue_tail and the next fields always describe exactly the
\* threads that joined the queue and did not leave it, in the order they
\* joined: enqueue and dequeue lose, repeat and reorder nothing.
RunQueueIntact == IsRunQueue(sch, fifo)

\* The threads of q are those that could run and do not.
AwaitCpu(s, q) ==
  \A t \in Threads : InQueue(t, q) <=> s.state[t] = "READY" /\ t # s.current

\* The run queue holds every READY thread but the one on the CPU and no
\* other, and the thread on the CPU is READY: no runnable thread is
\* forgotten, no blocked or dead one is run.
ReadyThreadsQueued ==
  /\ AwaitCpu(sch, fifo)
  /\ sch.current # NULL => sch.state[sch.current] = "READY"

Queue == INSTANCE FifoScheduler
           WITH queue <- fifo, running <- sch.current, status <- sch.state

\* scheduler.c implements the first-come-first-served scheduler: the thread
\* that scheduler_schedule picks through the pointers is the one that has
\* waited longest.
RefinesFifo == Queue!Spec

\* Every READY thread gets the CPU again, given only that timer interrupts
\* keep coming.
NoStarvation ==
  \A t \in Threads : sch.state[t] = "READY" ~> sch.current = t

\* A thread that ended never runs or changes state again, and a thread
\* leaves a wait only through the run queue: from blocked to on the CPU in
\* one step is impossible.
DeadAndWaitingStayOffCpu ==
  [][\A t \in Threads :
       /\ sch.state[t] = "DEAD" => sch'.state[t] = "DEAD" /\ sch'.current # t
       /\ sch.state[t] \in Blocked => sch'.current # t]_hvars
=============================================================================
