----------------------------- MODULE ThreadList -----------------------------
(***************************************************************************)
(* The list of threads a pointer starts, followed through thread->next.    *)
(* The field belongs to the thread and not to a list, so a chain is what   *)
(* the pointers say and need not be what its owner put there.              *)
(***************************************************************************)
EXTENDS Integers, FiniteSets, Sequences, SchedOps

\* Thread control blocks come from a finite memory.
ASSUME ThreadsAssumption == IsFiniteSet(Threads)

\* Where n steps along next lead from p.
Hop(next, p) ==
  LET hop[n \in 0..Cardinality(Threads)] ==
        IF n = 0 THEN p
        ELSE IF hop[n - 1] = NULL THEN NULL ELSE next[hop[n - 1]]
  IN  hop

\* The walk from p comes to a null pointer.
Ends(next, p) == Hop(next, p)[Cardinality(Threads)] = NULL

\* The threads on the chain from p.
Chain(next, p) ==
  {Hop(next, p)[n] : n \in 0..Cardinality(Threads)} \ {NULL}

\* The same threads in order; each once, also when the chain is a cycle.
ChainSeq(next, p) ==
  [i \in 1..Cardinality(Chain(next, p)) |-> Hop(next, p)[i - 1]]

\* The thread at which the loop "while (curr->next) curr = curr->next" stops.
LastOf(next, p) == CHOOSE t \in Chain(next, p) : next[t] = NULL

-----------------------------------------------------------------------------
(* A run queue as a sequence *)

\* The pointers of s form a list of the threads in q, in order, each of them
\* linked once.
IsRunQueue(s, q) ==
  /\ s.head = IF q = <<>> THEN NULL ELSE q[1]
  /\ s.tail = IF q = <<>> THEN NULL ELSE q[Len(q)]
  /\ \A i \in 1..Len(q) : s.next[q[i]] = IF i = Len(q) THEN NULL ELSE q[i + 1]
  /\ \A i, j \in 1..Len(q) : q[i] = q[j] => i = j

\* t is one of the threads linked in q.
InQueue(t, q) == \E i \in 1..Len(q) : q[i] = t

\* The threads that wait once scheduler_schedule has chosen the next one.
Rest(q) == IF q = <<>> THEN q ELSE Tail(q)
=============================================================================
