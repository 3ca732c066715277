------------------------------ MODULE SchedOps ------------------------------
(***************************************************************************)
(* The scheduler of kernel/scheduler.c and the thread primitives of        *)
(* kernel/thread.c, as functions on a record that holds the state they     *)
(* share:                                                                  *)
(*                                                                         *)
(*   head, tail   queue_head and queue_tail of the run queue               *)
(*   next         thread->next, the link field of every control block; the *)
(*                run queue and the semaphore queues use the same field    *)
(*   state        thread->state, "FREE" for a block not yet allocated      *)
(*   current      current_thread, NULL while the idle thread runs          *)
(*                                                                         *)
(* Every C function that changes this state is one operator, so that a     *)
(* handler is a composition of the operators for the calls it makes.       *)
(***************************************************************************)

CONSTANTS Threads, NULL

ASSUME NullAssumption == NULL \notin Threads

Pointer == Threads \cup {NULL}

\* thread_state; STATE_WAIT is declared in thread.h but never assigned.
Blocked == {"REPLY", "SEMA"}
ThreadState == {"FREE", "READY", "DEAD"} \cup Blocked

Sched == [head : Pointer, tail : Pointer, next : [Threads -> Pointer],
          state : [Threads -> ThreadState], current : Pointer]

\* The static variables of scheduler.c at boot, no thread created yet.
BootSched ==
  [head |-> NULL, tail |-> NULL, next |-> [t \in Threads |-> NULL],
   state |-> [t \in Threads |-> "FREE"], current |-> NULL]

-----------------------------------------------------------------------------

\* Faulty variants, to show which properties notice: the link field of the new
\* block is left as it was, or the new block goes to the front.
enqueue_keeps_link(s, t) ==
  [s EXCEPT !.next = IF s.tail # NULL THEN [s.next EXCEPT ![s.tail] = t] ELSE s.next,
            !.head = IF s.tail = NULL /\ s.head = NULL THEN t ELSE s.head,
            !.tail = t]

enqueue_at_front(s, t) ==
  [s EXCEPT !.next = [s.next EXCEPT ![t] = s.head],
            !.head = t,
            !.tail = IF s.tail = NULL THEN t ELSE s.tail]

\* Append t: the new block ends the list, whatever its link field held.
scheduler_enqueue_thread(s, t) ==
  LET ended == [s.next EXCEPT ![t] = NULL]
  IN  [s EXCEPT
         !.next = IF s.tail # NULL THEN [ended EXCEPT ![s.tail] = t] ELSE ended,
         !.head = IF s.tail = NULL /\ s.head = NULL THEN t ELSE s.head,
         !.tail = t]

\* Faulty variant: queue_tail survives the removal of the last thread.
dequeue_keeps_tail(s) ==
  IF s.head = NULL THEN s ELSE [s EXCEPT !.head = s.next[s.head]]

\* The state after removing the head; the thread returned is s.head.
scheduler_dequeue_thread(s) ==
  IF s.head = NULL
  THEN s
  ELSE [s EXCEPT !.head = s.next[s.head],
                 !.tail = IF s.next[s.head] = NULL THEN NULL ELSE s.tail]

\* Faulty variant: the state of the thread is not tested.
schedule_any_state(s) ==
  LET saved == IF s.current # NULL THEN scheduler_enqueue_thread(s, s.current) ELSE s
  IN  [scheduler_dequeue_thread(saved) EXCEPT !.current = saved.head]

\* A thread that gives up the CPU goes to the end of the queue unless it has
\* been blocked; the head of the queue runs next, the idle thread if there is
\* none.
scheduler_schedule(s) ==
  LET saved == IF s.current # NULL /\ s.state[s.current] = "READY"
               THEN scheduler_enqueue_thread(s, s.current)
               ELSE s
  IN  [scheduler_dequeue_thread(saved) EXCEPT !.current = saved.head]

thread_new(s, t) == [s EXCEPT !.state = [s.state EXCEPT ![t] = "READY"]]

thread_block(s, t, why) == [s EXCEPT !.state = [s.state EXCEPT ![t] = why]]

thread_unblock(s, t) ==
  scheduler_enqueue_thread(
    [s EXCEPT !.state = [s.state EXCEPT ![t] = "READY"]], t)
=============================================================================
