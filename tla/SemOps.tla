------------------------------- MODULE SemOps -------------------------------
(***************************************************************************)
(* semaphore_wait and semaphore_signal where nothing can interrupt them    *)
(* (the ARM kernel), as functions on the scheduler record of SchedOps and  *)
(* a semaphore [count, queue].  The lock is free before and after.         *)
(***************************************************************************)
EXTENDS ThreadList

SemState == [count : Nat, queue : Pointer]

semaphore_init(n) == [count |-> n, queue |-> NULL]

\* The wait returns at once.
HasToken(sem) == sem.count > 0

\* The scheduler after the current thread has called semaphore_wait: without a
\* token it is linked at the end of the queue, blocked and switched away from.
WaitSched(s, sem) ==
  LET t     == s.current
      ended == [s.next EXCEPT ![t] = NULL]
      linked == IF sem.queue = NULL THEN ended
                ELSE [ended EXCEPT ![LastOf(ended, sem.queue)] = t]
  IN  IF HasToken(sem) THEN s
      ELSE scheduler_schedule(thread_block([s EXCEPT !.next = linked], t, "SEMA"))

WaitSem(s, sem) ==
  IF HasToken(sem) THEN [sem EXCEPT !.count = sem.count - 1]
  ELSE IF sem.queue = NULL THEN [sem EXCEPT !.queue = s.current]
  ELSE sem

\* The scheduler and the semaphore after a call of semaphore_signal.
SignalSched(s, sem) == IF sem.queue = NULL THEN s ELSE thread_unblock(s, sem.queue)

\* Faulty variant: the woken thread stays at the head of the queue.
signal_keeps_head(s, sem) ==
  IF sem.queue = NULL THEN [sem EXCEPT !.count = sem.count + 1] ELSE sem

SignalSem(s, sem) ==
  IF sem.queue = NULL THEN [sem EXCEPT !.count = sem.count + 1]
  ELSE [sem EXCEPT !.queue = s.next[sem.queue]]
=============================================================================
