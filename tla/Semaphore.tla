----------------------------- MODULE Semaphore ------------------------------
(***************************************************************************)
(* One semaphore (kernel/semaphore.c) used by threads that a timer         *)
(* interrupt may preempt, statement by statement.                          *)
(*                                                                         *)
(* Preemptible says whether a system call runs with interrupts enabled.    *)
(* It is FALSE on ARM, where entering the kernel masks IRQs, and TRUE on   *)
(* i386, where the system call gate is a trap gate and leaves the          *)
(* interrupt flag set.  On both, a thread that comes back from             *)
(* scheduler_switch runs masked until it returns to the user.              *)
(***************************************************************************)
EXTENDS ThreadList

CONSTANTS
  Preemptible,
  InitCount,    \* the count given to semaphore_init
  MaxSignals    \* bound on the number of calls of semaphore_signal

ASSUME SemaphoreAssumption ==
  /\ Preemptible \in BOOLEAN
  /\ InitCount \in Nat
  /\ MaxSignals \in Nat

VARIABLES
  sch,      \* the scheduler and the thread control blocks, see SchedOps
  sem,      \* the semaphore: count, lock and queue
  qlock,    \* queue_lock of scheduler.c
  pc,       \* what every thread executes next
  woken,    \* the thread a caller of semaphore_signal took off the queue
  hung,     \* an interrupt handler spins on a lock that cannot be released
  signals,  \* calls of semaphore_signal so far
  waits     \* returns from semaphore_wait so far

vars == <<sch, sem, qlock, pc, woken, hung, signals, waits>>

Calls ==
  {"w_lock", "w_test", "w_clear", "w_link", "w_unlock", "w_block", "w_switch",
   "w_return", "s_lock", "s_test", "s_ready", "s_clear", "s_link", "s_unlock"}

TypeOK ==
  /\ sch \in Sched
  /\ sem \in [count : 0..(InitCount + MaxSignals), lock : {0, 1}, queue : Pointer]
  /\ qlock \in {0, 1}
  /\ pc \in [Threads -> Calls \cup {"user"}]
  /\ woken \in [Threads -> Pointer]
  /\ hung \in BOOLEAN
  /\ signals \in 0..MaxSignals
  /\ waits \in 0..(InitCount + MaxSignals)

\* semaphore_init
Init ==
  /\ sch = BootSched
  /\ sem = [count |-> InitCount, lock |-> 0, queue |-> NULL]
  /\ qlock = 0
  /\ pc = [t \in Threads |-> "user"]
  /\ woken = [t \in Threads |-> NULL]
  /\ hung = FALSE
  /\ signals = 0
  /\ waits = 0

-----------------------------------------------------------------------------

Goto(t, l) == pc' = [pc EXCEPT ![t] = l]

\* The CPU is about to execute label l of t.
At(t, l) == ~hung /\ sch.current = t /\ pc[t] = l

process_create(t) ==
  /\ ~hung
  /\ sch.current = NULL
  /\ sch.state[t] = "FREE"
  /\ sch' = scheduler_enqueue_thread(thread_new(sch, t), t)
  /\ UNCHANGED <<sem, qlock, pc, woken, hung, signals, waits>>

\* A system call of the running thread that leads to one of the operations.
CallWait(t) ==
  /\ At(t, "user")
  /\ Goto(t, "w_lock")
  /\ UNCHANGED <<sch, sem, qlock, woken, hung, signals, waits>>

CallSignal(t) ==
  /\ At(t, "user")
  /\ signals < MaxSignals
  /\ signals' = signals + 1
  /\ Goto(t, "s_lock")
  /\ UNCHANGED <<sch, sem, qlock, woken, hung, waits>>

-----------------------------------------------------------------------------
(* semaphore_wait *)

\* A thread that finds the lock taken spins, which changes nothing.
w_lock(t) ==
  /\ At(t, "w_lock")
  /\ sem.lock = 0
  /\ sem' = [sem EXCEPT !.lock = 1]
  /\ Goto(t, "w_test")
  /\ UNCHANGED <<sch, qlock, woken, hung, signals, waits>>

w_test(t) ==
  /\ At(t, "w_test")
  /\ IF sem.count > 0
     THEN /\ sem' = [sem EXCEPT !.count = sem.count - 1, !.lock = 0]
          /\ waits' = waits + 1
          /\ Goto(t, "user")
     ELSE /\ Goto(t, "w_clear")
          /\ UNCHANGED <<sem, waits>>
  /\ UNCHANGED <<sch, qlock, woken, hung, signals>>

\* Faulty variant: the link field keeps what the run queue left in it.
clear_dropped(t) ==
  /\ At(t, "w_clear")
  /\ Goto(t, "w_link")
  /\ UNCHANGED <<sch, sem, qlock, woken, hung, signals, waits>>

w_clear(t) ==
  /\ At(t, "w_clear")
  /\ sch' = [sch EXCEPT !.next = [sch.next EXCEPT ![t] = NULL]]
  /\ Goto(t, "w_link")
  /\ UNCHANGED <<sem, qlock, woken, hung, signals, waits>>

\* Faulty variant: the thread goes to the front of the queue.
link_at_front(t) ==
  /\ At(t, "w_link")
  /\ sch' = [sch EXCEPT !.next = [sch.next EXCEPT ![t] = sem.queue]]
  /\ sem' = [sem EXCEPT !.queue = t]
  /\ Goto(t, "w_unlock")
  /\ UNCHANGED <<qlock, woken, hung, signals, waits>>

\* On a chain without an end the walk to the last thread never stops.
w_link(t) ==
  /\ At(t, "w_link")
  /\ IF sem.queue = NULL
     THEN /\ sem' = [sem EXCEPT !.queue = t]
          /\ UNCHANGED sch
     ELSE /\ Ends(sch.next, sem.queue)
          /\ sch' = [sch EXCEPT
               !.next = [sch.next EXCEPT ![LastOf(sch.next, sem.queue)] = t]]
          /\ UNCHANGED sem
  /\ Goto(t, "w_unlock")
  /\ UNCHANGED <<qlock, woken, hung, signals, waits>>

w_unlock(t) ==
  /\ At(t, "w_unlock")
  /\ sem' = [sem EXCEPT !.lock = 0]
  /\ Goto(t, "w_block")
  /\ UNCHANGED <<sch, qlock, woken, hung, signals, waits>>

w_block(t) ==
  /\ At(t, "w_block")
  /\ sch' = thread_block(sch, t, "SEMA")
  /\ Goto(t, "w_switch")
  /\ UNCHANGED <<sem, qlock, woken, hung, signals, waits>>

\* scheduler_switch masks interrupts before it does anything else.
w_switch(t) ==
  /\ At(t, "w_switch")
  /\ qlock = 0
  /\ sch' = scheduler_schedule(sch)
  /\ Goto(t, "w_return")
  /\ UNCHANGED <<sem, qlock, woken, hung, signals, waits>>

\* The thread is dispatched again: semaphore_wait returns.
w_return(t) ==
  /\ At(t, "w_return")
  /\ waits' = waits + 1
  /\ Goto(t, "user")
  /\ UNCHANGED <<sch, sem, qlock, woken, hung, signals>>

-----------------------------------------------------------------------------
(* semaphore_signal, with thread_unblock and scheduler_enqueue_thread in line *)

s_lock(t) ==
  /\ At(t, "s_lock")
  /\ sem.lock = 0
  /\ sem' = [sem EXCEPT !.lock = 1]
  /\ Goto(t, "s_test")
  /\ UNCHANGED <<sch, qlock, woken, hung, signals, waits>>

\* Faulty variant: the token is stored although a waiter gets it.
signal_counts_always(t) ==
  /\ At(t, "s_test")
  /\ IF sem.queue = NULL
     THEN /\ sem' = [sem EXCEPT !.count = sem.count + 1, !.lock = 0]
          /\ Goto(t, "user")
          /\ UNCHANGED woken
     ELSE /\ sem' = [sem EXCEPT !.queue = sch.next[sem.queue], !.count = sem.count + 1]
          /\ woken' = [woken EXCEPT ![t] = sem.queue]
          /\ Goto(t, "s_ready")
  /\ UNCHANGED <<sch, qlock, hung, signals, waits>>

s_test(t) ==
  /\ At(t, "s_test")
  /\ IF sem.queue = NULL
     THEN /\ sem' = [sem EXCEPT !.count = sem.count + 1, !.lock = 0]
          /\ Goto(t, "user")
          /\ UNCHANGED woken
     ELSE /\ sem' = [sem EXCEPT !.queue = sch.next[sem.queue]]
          /\ woken' = [woken EXCEPT ![t] = sem.queue]
          /\ Goto(t, "s_ready")
  /\ UNCHANGED <<sch, qlock, hung, signals, waits>>

s_ready(t) ==
  /\ At(t, "s_ready")
  /\ sch' = [sch EXCEPT !.state = [sch.state EXCEPT ![woken[t]] = "READY"]]
  /\ Goto(t, "s_clear")
  /\ UNCHANGED <<sem, qlock, woken, hung, signals, waits>>

s_clear(t) ==
  /\ At(t, "s_clear")
  /\ qlock = 0
  /\ sch' = [sch EXCEPT !.next = [sch.next EXCEPT ![woken[t]] = NULL]]
  /\ qlock' = 1
  /\ Goto(t, "s_link")
  /\ UNCHANGED <<sem, woken, hung, signals, waits>>

\* Faulty variant: thread_unblock changes the state and does not enqueue.
link_dropped(t) ==
  /\ At(t, "s_link")
  /\ qlock' = 0
  /\ Goto(t, "s_unlock")
  /\ UNCHANGED <<sch, sem, woken, hung, signals, waits>>

s_link(t) ==
  /\ At(t, "s_link")
  /\ sch' = scheduler_enqueue_thread(sch, woken[t])
  /\ qlock' = 0
  /\ Goto(t, "s_unlock")
  /\ UNCHANGED <<sem, woken, hung, signals, waits>>

s_unlock(t) ==
  /\ At(t, "s_unlock")
  /\ sem' = [sem EXCEPT !.lock = 0]
  /\ woken' = [woken EXCEPT ![t] = NULL]
  /\ Goto(t, "user")
  /\ UNCHANGED <<sch, qlock, hung, signals, waits>>

KernelStep(t) ==
  \/ w_lock(t) \/ w_test(t) \/ w_clear(t) \/ w_link(t)
  \/ w_unlock(t) \/ w_block(t) \/ w_switch(t) \/ w_return(t)
  \/ s_lock(t) \/ s_test(t) \/ s_ready(t) \/ s_clear(t) \/ s_link(t) \/ s_unlock(t)

-----------------------------------------------------------------------------

\* Faulty variant: a system call entry that does not mask interrupts.
trap_gate == \A t \in Threads : sch.current = t => pc[t] # "w_return"

\* Interrupts are enabled: the idle thread or the user runs, or a system call
\* that does not mask them.
Interruptible ==
  \A t \in Threads : sch.current = t =>
    pc[t] = "user" \/ (Preemptible /\ pc[t] # "w_return")

\* The handler of TIMER_IRQ calls scheduler_schedule.  It spins on queue_lock,
\* with interrupts masked, if it interrupted the holder.
timer_tick ==
  /\ ~hung
  /\ Interruptible
  /\ IF qlock = 1
     THEN hung' = TRUE /\ UNCHANGED sch
     ELSE sch' = scheduler_schedule(sch) /\ UNCHANGED hung
  /\ UNCHANGED <<sem, qlock, pc, woken, signals, waits>>

Next ==
  \/ timer_tick
  \/ \E t \in Threads : process_create(t)
  \/ \E t \in Threads : CallWait(t)
  \/ \E t \in Threads : CallSignal(t)
  \/ \E t \in Threads : KernelStep(t)

\* Timer interrupts keep coming, and a thread that is on the CPU again and
\* again in the kernel executes its next statement.
Fairness == WF_vars(timer_tick) /\ \A t \in Threads : SF_vars(KernelStep(t))

Spec == Init /\ [][Next]_vars /\ Fairness

-----------------------------------------------------------------------------

\* The threads queued at the semaphore, first come first, and the run queue.
SemQueue == ChainSeq(sch.next, sem.queue)

SemWaiters == Chain(sch.next, sem.queue)

RunQueue == Chain(sch.next, sch.head)

\* Taken off the semaphore's queue and still inside semaphore_wait.
Granted(t) ==
  pc[t] \in {"w_unlock", "w_block", "w_switch", "w_return"} /\ t \notin SemWaiters

\* No token is lost or made: those stored, those handed to a thread that did
\* not return yet and those that returned waits took make up those that
\* semaphore_init and the effective signals put in.  (A signal counts from the
\* moment it stores or hands over its token.)
TokensConserved ==
  /\ TypeOK
  /\ sem.count + waits + Cardinality({t \in Threads : Granted(t)})
       = InitCount + signals - Cardinality({t \in Threads : pc[t] \in {"s_lock", "s_test"}})

\* The next field serves one list at a time: the semaphore's queue and the run
\* queue end and share no thread, and the thread on the CPU is on none of them
\* except while it is queueing itself.  No thread in the run queue is blocked, as
\* thread_block demands ("The thread has to be removed from the scheduler queue
\* before").
ListsDisjoint ==
  /\ Ends(sch.next, sem.queue) /\ Ends(sch.next, sch.head)
  /\ SemWaiters \cap RunQueue = {}
  /\ sch.current \notin RunQueue
  /\ \A t \in RunQueue : sch.state[t] \notin Blocked
  /\ \A t \in SemWaiters : sch.current = t => pc[t] \in {"w_unlock", "w_block", "w_switch"}

\* A thread that semaphore_signal took off the queue returns from
\* semaphore_wait: the wakeup cannot be lost between the test of the count and
\* the switch to another thread.  (A kernel that hangs is HandlerNeverSpins'
\* concern.)
SignalWakes == \A t \in Threads : Granted(t) ~> (pc[t] = "user" \/ hung)

\* The timer interrupt never arrives while the interrupted code holds
\* queue_lock: scheduler_schedule would spin on it with interrupts masked and
\* nothing could ever release it.
HandlerNeverSpins == ~hung

Abstract == INSTANCE CountingSemaphore WITH count <- sem.count, waiting <- SemQueue

\* The linked queue implements a counting semaphore that serves its waiters in
\* the order they came and hands a token over instead of storing it.
RefinesCounting == Abstract!Spec
=============================================================================
