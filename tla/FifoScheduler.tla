--------------------------- MODULE FifoScheduler ----------------------------
(***************************************************************************)
(* What the scheduler promises: threads that can run wait in one queue and *)
(* get the CPU in the order they joined it.                                *)
(***************************************************************************)
EXTENDS Sequences

CONSTANTS Threads, NULL

VARIABLES
  queue,    \* the runnable threads that wait for the CPU, first come first
  running,  \* the thread on the CPU, NULL if none
  status    \* the state of every thread

vars == <<queue, running, status>>

Init ==
  /\ queue = <<>>
  /\ running = NULL
  /\ status = [t \in Threads |-> "FREE"]

\* The first of q gets the CPU, the rest keep their order.
Dispatch(q) ==
  IF q = <<>>
  THEN queue' = q /\ running' = NULL
  ELSE queue' = Tail(q) /\ running' = Head(q)

\* The thread on the CPU joins the queue and the first one leaves it.
Rotate ==
  /\ IF running = NULL THEN Dispatch(queue) ELSE Dispatch(Append(queue, running))
  /\ UNCHANGED status

\* The thread on the CPU blocks or ends and never joins the queue.
Stop(why) ==
  /\ running # NULL
  /\ status' = [status EXCEPT ![running] = why]
  /\ Dispatch(queue)

\* A new thread, or one that was waiting, joins the queue at its end.
Admit(t) ==
  /\ status[t] \in {"FREE", "REPLY", "SEMA"}
  /\ status' = [status EXCEPT ![t] = "READY"]
  /\ queue' = Append(queue, t)
  /\ UNCHANGED running

Next ==
  \/ Rotate
  \/ \E why \in {"REPLY", "SEMA", "DEAD"} : Stop(why)
  \/ \E t \in Threads : Admit(t)

Spec == Init /\ [][Next]_vars
=============================================================================
