----------------------------- MODULE Scheduler ------------------------------
(***************************************************************************)
(* The scheduler under every caller the kernel has: the timer interrupt,   *)
(* the system calls that give up the CPU, block, end, create or wake a     *)
(* thread.  A handler runs to its end (or to its scheduler_switch) without *)
(* interruption, which is how the ARM kernel executes: an exception entry  *)
(* masks IRQs, and only the return to the user restores them.  Module      *)
(* Semaphore drops that restriction.                                       *)
(***************************************************************************)
EXTENDS Integers, SchedOps

CONSTANTS
  TIMER_FREQ,   \* reload value of the subtick counter (100 in the configs)
  TickModulus   \* range of the unsigned tick counter (2^32 in the code)

ASSUME TimerAssumption ==
  /\ TIMER_FREQ \in Nat \ {0}
  /\ TickModulus \in Nat \ {0}

VARIABLES
  sch,      \* scheduler.c and the thread control blocks, see SchedOps
  ticks,    \* the uptime counter of timer.c
  subticks  \* timer interrupts left until the next tick

vars == <<sch, ticks, subticks>>

clock == <<ticks, subticks>>

TypeOK ==
  /\ sch \in Sched
  /\ ticks \in 0..(TickModulus - 1)
  /\ subticks \in 0..TIMER_FREQ

Init ==
  /\ sch = BootSched
  /\ ticks = 0
  /\ subticks = 0

-----------------------------------------------------------------------------

\* Faulty variant: the counter is not tested for zero.
tick_without_test ==
  /\ subticks' = subticks - 1
  /\ ticks' = (ticks + 1) % TickModulus
  /\ sch' = scheduler_schedule(sch)

\* timer_tick, the handler of TIMER_IRQ: count, then schedule.
timer_tick ==
  /\ IF subticks = 0
     THEN /\ subticks' = TIMER_FREQ
          /\ ticks' = (ticks + 1) % TickModulus
     ELSE /\ subticks' = subticks - 1
          /\ UNCHANGED ticks
  /\ sch' = scheduler_schedule(sch)

\* sys_yield: scheduler_switch with the thread still READY.
sys_yield ==
  /\ sch.current # NULL
  /\ sch' = scheduler_schedule(sch)
  /\ UNCHANGED clock

\* process_exit, from sys_exit and (on i386) from the page fault handler:
\* only the calling thread ends.
process_exit ==
  /\ sch.current # NULL
  /\ sch' = scheduler_schedule(thread_block(sch, sch.current, "DEAD"))
  /\ UNCHANGED clock

\* sys_clone: a new thread of the caller's process joins the run queue.
sys_clone(t) ==
  /\ sch.current # NULL
  /\ sch.state[t] = "FREE"
  /\ sch' = scheduler_enqueue_thread(thread_new(sch, t), t)
  /\ UNCHANGED clock

\* process_create: the first thread of a new process joins the run queue.
\* The kernel calls it outside any thread.
process_create(t) ==
  /\ sch.current = NULL
  /\ sch.state[t] = "FREE"
  /\ sch' = scheduler_enqueue_thread(thread_new(sch, t), t)
  /\ UNCHANGED clock

\* thread_block and scheduler_switch, as the waiting halves of
\* semaphore_wait and ipc_send call them.
BlockCurrent(why) ==
  /\ sch.current # NULL
  /\ sch' = scheduler_schedule(thread_block(sch, sch.current, why))
  /\ UNCHANGED clock

\* thread_unblock of a thread that waits for why, as semaphore_signal and
\* ipc_reply call it.  ipc_reply does not test that the thread waits: module Ipc
\* says when it may not.
WakeThread(t, why) ==
  /\ sch.current # NULL
  /\ sch.state[t] = why
  /\ sch' = thread_unblock(sch, t)
  /\ UNCHANGED clock

Next ==
  \/ timer_tick
  \/ sys_yield
  \/ process_exit
  \/ \E t \in Threads : sys_clone(t)
  \/ \E t \in Threads : process_create(t)
  \/ \E why \in Blocked : BlockCurrent(why)
  \/ \E t \in Threads, why \in Blocked : WakeThread(t, why)

\* The interrupt controller keeps delivering timer interrupts.
Fairness == WF_vars(timer_tick)

Spec == Init /\ [][Next]_vars /\ Fairness
=============================================================================
