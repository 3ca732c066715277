-------------------------- MODULE SemaphoreProofs ---------------------------
(***************************************************************************)
(* Proofs about the semaphore where system calls are not preemptible (the  *)
(* ARM kernel), for any finite set of threads, any initial count and any   *)
(* number of signals.                                                      *)
(***************************************************************************)
EXTENDS Semaphore, ThreadListProofs

-----------------------------------------------------------------------------
(* The inductive invariant.  It speaks about the sequences w and r that the  *)
(* queue of the semaphore and the run queue are.                             *)

Types ==
  /\ sch \in Sched
  /\ sem \in [count : Nat, lock : {0, 1}, queue : Pointer]
  /\ qlock \in {0, 1}
  /\ pc \in [Threads -> Calls \cup {"user"}]
  /\ woken \in [Threads -> Pointer]
  /\ signals \in 0..MaxSignals
  /\ waits \in Nat

\* The pointers describe the two sequences.
Lists(w, r) == IsRunQueue(sch, r) /\ Linked(sch.next, sem.queue, w)

\* A thread in the run queue may run, does not, and is in no other list.
InRunQueue(w, r) ==
  \A t \in Threads : InQueue(t, r) =>
    /\ sch.state[t] = "READY" /\ pc[t] \in {"user", "w_return"}
    /\ t # sch.current /\ ~InQueue(t, w)

\* A thread in the semaphore's queue is blocked, or is about to block itself.
InSemQueue(w) ==
  \A t \in Threads : InQueue(t, w) =>
    \/ pc[t] = "w_return" /\ sch.state[t] = "SEMA" /\ t # sch.current
    \/ pc[t] \in {"w_unlock", "w_block"} /\ sch.state[t] = "READY"
    \/ pc[t] = "w_switch" /\ sch.state[t] = "SEMA"

\* Only the thread on the CPU is inside the kernel, other threads wait at most
\* for their return from scheduler_switch.
OneInKernel(w) ==
  \A t \in Threads :
    /\ t # sch.current => pc[t] \in {"user", "w_return"}
    /\ t = sch.current =>
         /\ sch.state[t] = "READY" \/ pc[t] = "w_switch"
         /\ pc[t] \in {"w_unlock", "w_block", "w_switch"} => InQueue(t, w)
    /\ sch.state[t] = "FREE" => pc[t] = "user"

\* The thread that semaphore_signal has taken off the queue is in no list until
\* it joins the run queue.
Handing(w, r) ==
  \A t \in Threads : pc[t] \in {"s_ready", "s_clear", "s_link"} =>
    /\ woken[t] \in Threads
    /\ ~InQueue(woken[t], w) /\ ~InQueue(woken[t], r)
    /\ pc[woken[t]] = "w_return"
    /\ sch.state[woken[t]] = IF pc[t] = "s_ready" THEN "SEMA" ELSE "READY"

\* queue_lock is held between the two halves of scheduler_enqueue_thread only,
\* so no interrupt handler meets it, and what semaphore_wait has tested and
\* written still holds when it uses it.
Undisturbed ==
  /\ hung = FALSE
  /\ qlock = 1 => \E t \in Threads : t = sch.current /\ pc[t] = "s_link"
  /\ \A t \in Threads :
       /\ pc[t] \in {"w_clear", "w_link"} => sem.count = 0
       /\ pc[t] = "w_link" => sch.next[t] = NULL

\* The threads that own a token and did not return yet, and the signals that did
\* not deliver theirs yet.
Owners(w) ==
  {t \in Threads : pc[t] \in {"w_unlock", "w_block", "w_switch", "w_return"} /\ ~InQueue(t, w)}

Pending == {t \in Threads : pc[t] \in {"s_lock", "s_test"}}

Balance(w) ==
  sem.count + waits + Cardinality(Owners(w)) = InitCount + signals - Cardinality(Pending)

GInv(w, r) ==
  /\ Types
  /\ Lists(w, r)
  /\ InRunQueue(w, r)
  /\ InSemQueue(w)
  /\ OneInKernel(w)
  /\ Handing(w, r)
  /\ Undisturbed
  /\ Balance(w)

IInv == \E w, r \in Seq(Threads) : GInv(w, r)

-----------------------------------------------------------------------------
(* Counting *)

\* A set of threads is finite, and one thread more or less counts one.
LEMMA CardNat ==
  ASSUME NEW S \in SUBSET Threads
  PROVE  IsFiniteSet(S) /\ Cardinality(S) \in Nat
  BY FS_Subset, FS_CardinalityType, ThreadsAssumption

LEMMA CardGrow ==
  ASSUME NEW S \in SUBSET Threads, NEW x, x \notin S
  PROVE  Cardinality(S \cup {x}) = Cardinality(S) + 1
  BY CardNat, FS_AddElement

LEMMA CardShrink ==
  ASSUME NEW S \in SUBSET Threads, NEW x, x \in S
  PROVE  Cardinality(S \ {x}) = Cardinality(S) - 1
  BY CardNat, FS_RemoveElement

\* The sets that are counted are sets of threads.
LEMMA CountedSets ==
  ASSUME NEW w
  PROVE  /\ Owners(w) \in SUBSET Threads /\ Pending \in SUBSET Threads
         /\ Owners(w)' \in SUBSET Threads /\ Pending' \in SUBSET Threads
  BY DEF Owners, Pending

-----------------------------------------------------------------------------

\* At the start nobody runs and nobody waits.
LEMMA InitIInv == Init => IInv
<1> SUFFICES ASSUME Init PROVE GInv(<<>>, <<>>)
  BY EmptySeq DEF IInv
<1>1. \A t : ~InQueue(t, <<>>)
  BY EmptySeq DEF InQueue
<1>2. Types
  BY SemaphoreAssumption
  DEF Init, Types, BootSched, Sched, Pointer, ThreadState, Calls
<1>3. Lists(<<>>, <<>>)
  BY EmptySeq DEF Init, Lists, BootSched, IsRunQueue, Linked
<1>4. InRunQueue(<<>>, <<>>) /\ InSemQueue(<<>>) /\ Handing(<<>>, <<>>)
  BY <1>1 DEF Init, InRunQueue, InSemQueue, Handing
<1>5. OneInKernel(<<>>) /\ Undisturbed
  BY NullAssumption DEF Init, OneInKernel, Undisturbed, BootSched
<1>6. Balance(<<>>)
  <2>1. Owners(<<>>) = {} /\ Pending = {}
    BY DEF Init, Owners, Pending
  <2> QED
    BY <2>1, FS_EmptySet, SemaphoreAssumption DEF Init, Balance
<1> QED
  BY <1>2, <1>3, <1>4, <1>5, <1>6 DEF GInv

\* The thread on the CPU goes from one statement to another outside the parts of
\* the operations that touch a list.
LEMMA PlainMove ==
  ASSUME NEW w \in Seq(Threads), NEW r \in Seq(Threads), GInv(w, r),
         NEW t \in Threads, t = sch.current,
         pc[t] \in {"user", "w_lock", "w_test", "w_return", "s_lock", "s_test", "s_unlock"},
         NEW l \in {"user", "w_lock", "w_test", "w_clear", "s_lock", "s_test"},
         pc' = [pc EXCEPT ![t] = l],
         UNCHANGED <<sch, qlock, hung>>, sem'.queue = sem.queue,
         l = "w_clear" => sem'.count = 0
  PROVE  /\ Lists(w, r)' /\ InRunQueue(w, r)' /\ InSemQueue(w)' /\ OneInKernel(w)'
         /\ Handing(w, r)' /\ Undisturbed'
         /\ Owners(w)' = Owners(w) \ {t}
         /\ t \in Owners(w) <=> pc[t] = "w_return"
         /\ Pending' = IF l \in {"s_lock", "s_test"} THEN Pending \cup {t} ELSE Pending \ {t}
<1>1. pc \in [Threads -> Calls \cup {"user"}] /\ pc'[t] = l /\ \A u \in Threads \ {t} : pc'[u] = pc[u]
  BY DEF GInv, Types
<1>2. ~InQueue(t, w) /\ ~InQueue(t, r)
  BY DEF GInv, InSemQueue, InRunQueue
<1>3. \A u \in Threads : pc'[u] \notin {"w_link", "s_ready", "s_clear", "s_link"}
  BY <1>1 DEF GInv, OneInKernel
<1>4. Lists(w, r)'
  BY DEF GInv, Lists
<1>5. InRunQueue(w, r)' /\ InSemQueue(w)' /\ OneInKernel(w)'
  BY <1>1, <1>2 DEF GInv, InRunQueue, InSemQueue, OneInKernel
<1>6. Handing(w, r)'
  BY <1>3 DEF Handing
<1>7. Undisturbed'
  <2>1. qlock = 0
    BY DEF GInv, Types, Undisturbed
  <2>2. \A u \in Threads : pc'[u] = "w_clear" => u = t
    BY <1>1 DEF GInv, OneInKernel
  <2> QED
    BY <1>1, <1>3, <2>1, <2>2 DEF GInv, Undisturbed
<1>8. Owners(w)' = Owners(w) \ {t} /\ (t \in Owners(w) <=> pc[t] = "w_return")
  BY <1>1, <1>2 DEF Owners
<1>9. Pending' = IF l \in {"s_lock", "s_test"} THEN Pending \cup {t} ELSE Pending \ {t}
  BY <1>1 DEF Pending
<1> QED
  BY <1>4, <1>5, <1>6, <1>7, <1>8, <1>9

\* A step of the counting semaphore, or none, from the waiting threads w to w2.
AStep(w, w2) ==
  \/ w2 = w /\ sem'.count = sem.count
  \/ w2 = w /\ sem.count > 0 /\ sem'.count = sem.count - 1
  \/ /\ sem.count = 0 /\ sem'.count = sem.count
     /\ \E t \in Threads : ~InQueue(t, w) /\ w2 = Append(w, t)
  \/ w2 = w /\ w = <<>> /\ sem'.count = sem.count + 1
  \/ w # <<>> /\ w2 = Tail(w) /\ sem'.count = sem.count

\* The invariant holds again, with w2 and r2 as the two lists.
Becomes(w, w2, r2) == GInv(w2, r2)' /\ AStep(w, w2)

LEMMA CallStep ==
  ASSUME NEW w \in Seq(Threads), NEW r \in Seq(Threads), GInv(w, r),
         NEW t \in Threads, CallWait(t) \/ CallSignal(t)
  PROVE  Becomes(w, w, r)
<1>1. CASE CallWait(t)
  <2>1. /\ t = sch.current /\ pc[t] = "user" /\ pc' = [pc EXCEPT ![t] = "w_lock"]
        /\ UNCHANGED <<sch, sem, qlock, woken, hung, signals, waits>>
    BY <1>1 DEF CallWait, At, Goto
  <2>2. /\ Lists(w, r)' /\ InRunQueue(w, r)' /\ InSemQueue(w)' /\ OneInKernel(w)'
        /\ Handing(w, r)' /\ Undisturbed'
        /\ Owners(w)' = Owners(w) \ {t} /\ t \notin Owners(w) /\ Pending' = Pending \ {t}
    BY <2>1, PlainMove
  <2>3. Owners(w)' = Owners(w) /\ Pending' = Pending
    BY <2>1, <2>2 DEF Pending
  <2>4. Types' /\ Balance(w)'
    BY <2>1, <2>3 DEF GInv, Types, Balance, Calls
  <2> QED
    BY <2>1, <2>2, <2>4 DEF Becomes, GInv, AStep
<1>2. CASE CallSignal(t)
  <2>1. /\ t = sch.current /\ pc[t] = "user" /\ pc' = [pc EXCEPT ![t] = "s_lock"]
        /\ signals < MaxSignals /\ signals' = signals + 1
        /\ UNCHANGED <<sch, sem, qlock, woken, hung, waits>>
    BY <1>2 DEF CallSignal, At, Goto
  <2>2. /\ Lists(w, r)' /\ InRunQueue(w, r)' /\ InSemQueue(w)' /\ OneInKernel(w)'
        /\ Handing(w, r)' /\ Undisturbed'
        /\ Owners(w)' = Owners(w) \ {t} /\ t \notin Owners(w) /\ Pending' = Pending \cup {t}
    BY <2>1, PlainMove
  <2>3. Owners(w)' = Owners(w) /\ t \notin Pending
    BY <2>1, <2>2 DEF Pending
  <2>4. Cardinality(Pending)' = Cardinality(Pending) + 1 /\ Cardinality(Pending) \in Nat
        /\ Cardinality(Owners(w)) \in Nat
    BY <2>2, <2>3, CountedSets, CardGrow, CardNat
  <2>5. Types'
    BY <2>1, SemaphoreAssumption DEF GInv, Types, Calls
  <2>6. Balance(w)'
    BY <2>1, <2>3, <2>4, SemaphoreAssumption DEF GInv, Types, Balance
  <2> QED
    BY <2>1, <2>2, <2>5, <2>6 DEF Becomes, GInv, AStep
<1> QED
  BY <1>1, <1>2

\* Taking and leaving the lock of the semaphore where no list is touched.
LEMMA LockStep ==
  ASSUME NEW w \in Seq(Threads), NEW r \in Seq(Threads), GInv(w, r),
         NEW t \in Threads, w_lock(t) \/ s_lock(t) \/ s_unlock(t)
  PROVE  Becomes(w, w, r)
<1>1. PICK l \in {"w_test", "s_test", "user"} :
        /\ t = sch.current /\ pc' = [pc EXCEPT ![t] = l]
        /\ pc[t] = IF l = "w_test" THEN "w_lock" ELSE IF l = "s_test" THEN "s_lock" ELSE "s_unlock"
  <2>1. CASE w_lock(t)
    <3> WITNESS "w_test" \in {"w_test", "s_test", "user"}
    <3> QED
      BY <2>1 DEF w_lock, At, Goto
  <2>2. CASE s_lock(t)
    <3> WITNESS "s_test" \in {"w_test", "s_test", "user"}
    <3> QED
      BY <2>2 DEF s_lock, At, Goto
  <2>3. CASE s_unlock(t)
    <3> WITNESS "user" \in {"w_test", "s_test", "user"}
    <3> QED
      BY <2>3 DEF s_unlock, At, Goto
  <2> QED
    BY <2>1, <2>2, <2>3
<1>2. /\ UNCHANGED <<sch, qlock, hung, signals, waits>>
      /\ sem' \in [count : Nat, lock : {0, 1}, queue : Pointer]
      /\ sem'.queue = sem.queue /\ sem'.count = sem.count
      /\ woken' \in [Threads -> Pointer]
  BY DEF w_lock, s_lock, s_unlock, GInv, Types, Pointer
<1>3. /\ Lists(w, r)' /\ InRunQueue(w, r)' /\ InSemQueue(w)' /\ OneInKernel(w)'
      /\ Handing(w, r)' /\ Undisturbed'
      /\ Owners(w)' = Owners(w) \ {t}
      /\ t \in Owners(w) <=> pc[t] = "w_return"
      /\ Pending' = IF l \in {"s_lock", "s_test"} THEN Pending \cup {t} ELSE Pending \ {t}
  BY <1>1, <1>2, PlainMove
<1>4. Owners(w)' = Owners(w)
  BY <1>1, <1>3
<1>5. Pending' = Pending
  BY <1>1, <1>3 DEF Pending
<1>6. Types' /\ Balance(w)'
  BY <1>1, <1>2, <1>4, <1>5 DEF GInv, Types, Balance, Calls
<1> QED
  BY <1>2, <1>3, <1>6 DEF Becomes, GInv, AStep

\* semaphore_wait tests the count: it takes a token or goes on to wait.
LEMMA TestStep ==
  ASSUME NEW w \in Seq(Threads), NEW r \in Seq(Threads), GInv(w, r),
         NEW t \in Threads, w_test(t)
  PROVE  Becomes(w, w, r)
<1>1. /\ t = sch.current /\ pc[t] = "w_test"
      /\ UNCHANGED <<sch, qlock, woken, hung, signals>>
  BY DEF w_test, At
<1>2. CASE sem.count > 0
  <2>1. /\ pc' = [pc EXCEPT ![t] = "user"] /\ waits' = waits + 1
        /\ sem' = [sem EXCEPT !.count = sem.count - 1, !.lock = 0]
    BY <1>2 DEF w_test, Goto
  <2>2. /\ sem' \in [count : Nat, lock : {0, 1}, queue : Pointer]
        /\ sem'.queue = sem.queue /\ sem'.count = sem.count - 1
    <3>1. sem \in [count : Nat, lock : {0, 1}, queue : Pointer]
      BY DEF GInv, Types
    <3>2. sem.count - 1 \in Nat
      BY <1>2, <3>1
    <3> QED
      BY <2>1, <3>1, <3>2
  <2>3. /\ Lists(w, r)' /\ InRunQueue(w, r)' /\ InSemQueue(w)' /\ OneInKernel(w)'
        /\ Handing(w, r)' /\ Undisturbed'
        /\ Owners(w)' = Owners(w) \ {t} /\ t \notin Owners(w) /\ Pending' = Pending \ {t}
    BY <1>1, <2>1, <2>2, PlainMove
  <2>4. Owners(w)' = Owners(w) /\ Pending' = Pending
    BY <1>1, <2>3 DEF Pending
  <2>5. Cardinality(Owners(w)) \in Nat /\ Cardinality(Pending) \in Nat
    BY CountedSets, CardNat
  <2>6. Types'
    BY <1>1, <2>1, <2>2 DEF GInv, Types
  <2>7. Balance(w)'
    BY <1>1, <2>1, <2>2, <2>4, <2>5, SemaphoreAssumption DEF GInv, Types, Balance
  <2> QED
    BY <1>2, <2>2, <2>3, <2>6, <2>7 DEF Becomes, GInv, AStep
<1>3. CASE ~(sem.count > 0)
  <2>1. pc' = [pc EXCEPT ![t] = "w_clear"] /\ UNCHANGED <<sem, waits>> /\ sem.count = 0
    BY <1>3 DEF w_test, Goto, GInv, Types
  <2>2. /\ Lists(w, r)' /\ InRunQueue(w, r)' /\ InSemQueue(w)' /\ OneInKernel(w)'
        /\ Handing(w, r)' /\ Undisturbed'
        /\ Owners(w)' = Owners(w) \ {t} /\ t \notin Owners(w) /\ Pending' = Pending \ {t}
    BY <1>1, <2>1, PlainMove
  <2>3. Owners(w)' = Owners(w) /\ Pending' = Pending
    BY <1>1, <2>2 DEF Pending
  <2>4. Types' /\ Balance(w)'
    BY <1>1, <2>1, <2>3 DEF GInv, Types, Balance, Calls
  <2> QED
    BY <2>1, <2>2, <2>4 DEF Becomes, GInv, AStep
<1> QED
  BY <1>2, <1>3

\* A thread that was woken returns from semaphore_wait with its token.
LEMMA ReturnStep ==
  ASSUME NEW w \in Seq(Threads), NEW r \in Seq(Threads), GInv(w, r),
         NEW t \in Threads, w_return(t)
  PROVE  Becomes(w, w, r)
<1>1. /\ t = sch.current /\ pc[t] = "w_return" /\ pc' = [pc EXCEPT ![t] = "user"]
      /\ waits' = waits + 1 /\ UNCHANGED <<sch, sem, qlock, woken, hung, signals>>
  BY DEF w_return, At, Goto
<1>2. /\ Lists(w, r)' /\ InRunQueue(w, r)' /\ InSemQueue(w)' /\ OneInKernel(w)'
      /\ Handing(w, r)' /\ Undisturbed'
      /\ Owners(w)' = Owners(w) \ {t} /\ t \in Owners(w) /\ Pending' = Pending \ {t}
  BY <1>1, PlainMove
<1>3. Pending' = Pending
  BY <1>1, <1>2 DEF Pending
<1>4. /\ Cardinality(Owners(w))' = Cardinality(Owners(w)) - 1
      /\ Cardinality(Owners(w)) \in Nat /\ Cardinality(Pending) \in Nat
  BY <1>2, CountedSets, CardShrink, CardNat
<1>5. Types'
  BY <1>1 DEF GInv, Types
<1>6. Balance(w)'
  BY <1>1, <1>3, <1>4, SemaphoreAssumption DEF GInv, Types, Balance
<1> QED
  BY <1>1, <1>2, <1>5, <1>6 DEF Becomes, GInv, AStep

-----------------------------------------------------------------------------
(* The steps that touch a list *)

\* The two lists stay as they are when nobody writes their pointers or the link
\* field of one of their threads.
LEMMA ListsFrame ==
  ASSUME NEW w \in Seq(Threads), NEW r \in Seq(Threads), GInv(w, r),
         sch'.head = sch.head, sch'.tail = sch.tail, sem'.queue = sem.queue,
         \A u \in Threads : InQueue(u, w) \/ InQueue(u, r) => sch'.next[u] = sch.next[u]
  PROVE  Lists(w, r)'
<1>1. IsRunQueue(sch, r) /\ Linked(sch.next, sem.queue, w)
  BY DEF GInv, Lists
<1>2. IsRunQueue(sch', r)
  BY <1>1, RunQueueFrame
<1>3. Linked(sch'.next, sem.queue, w)
  BY <1>1, LinkedFrame
<1> QED
  BY <1>2, <1>3 DEF Lists

\* semaphore_wait ends the list at its own block before it links it.
LEMMA ClearStep ==
  ASSUME NEW w \in Seq(Threads), NEW r \in Seq(Threads), GInv(w, r),
         NEW t \in Threads, w_clear(t)
  PROVE  Becomes(w, w, r)
<1>1. /\ t = sch.current /\ pc[t] = "w_clear" /\ pc' = [pc EXCEPT ![t] = "w_link"]
      /\ sch' = [sch EXCEPT !.next = [sch.next EXCEPT ![t] = NULL]]
      /\ UNCHANGED <<sem, qlock, woken, hung, signals, waits>>
  BY DEF w_clear, At, Goto
<1>2. pc \in [Threads -> Calls \cup {"user"}] /\ pc'[t] = "w_link"
      /\ \A u \in Threads \ {t} : pc'[u] = pc[u] /\ pc[u] \in {"user", "w_return"}
  BY <1>1 DEF GInv, Types, OneInKernel
<1>3. /\ sch' \in Sched /\ sch'.next = [sch.next EXCEPT ![t] = NULL]
      /\ sch'.head = sch.head /\ sch'.tail = sch.tail
      /\ sch'.state = sch.state /\ sch'.current = sch.current
  BY <1>1 DEF GInv, Types, Sched, Pointer
<1>4. ~InQueue(t, w) /\ ~InQueue(t, r)
  BY <1>1 DEF GInv, InSemQueue, InRunQueue
<1>5. Types'
  BY <1>1, <1>3 DEF GInv, Types, Calls
<1>6. Lists(w, r)'
  <2>1. sch.next \in [Threads -> Pointer]
    BY DEF GInv, Types, Sched
  <2> QED
    BY <1>1, <1>3, <1>4, <2>1, ListsFrame
<1>7. InRunQueue(w, r)' /\ InSemQueue(w)' /\ OneInKernel(w)'
  BY <1>1, <1>2, <1>3, <1>4 DEF GInv, InRunQueue, InSemQueue, OneInKernel
<1>8. Handing(w, r)'
  BY <1>2 DEF Handing
<1>9. Undisturbed'
  <2>1. sch.next \in [Threads -> Pointer]
    BY DEF GInv, Types, Sched
  <2> QED
    BY <1>1, <1>2, <1>3, <2>1 DEF GInv, Types, Undisturbed
<1>10. Balance(w)'
  <2>1. Owners(w)' = Owners(w) /\ Pending' = Pending
    BY <1>1, <1>2 DEF Owners, Pending
  <2> QED
    BY <1>1, <2>1 DEF GInv, Balance
<1> QED
  BY <1>1, <1>5, <1>6, <1>7, <1>8, <1>9, <1>10 DEF Becomes, GInv, AStep

\* semaphore_wait links the thread at the end of the queue.
LEMMA LinkStep ==
  ASSUME NEW w \in Seq(Threads), NEW r \in Seq(Threads), GInv(w, r),
         NEW t \in Threads, w_link(t)
  PROVE  Append(w, t) \in Seq(Threads) /\ Becomes(w, Append(w, t), r)
<1>1. /\ t = sch.current /\ pc[t] = "w_link" /\ pc' = [pc EXCEPT ![t] = "w_unlock"]
      /\ UNCHANGED <<qlock, woken, hung, signals, waits>>
  BY DEF w_link, At, Goto
<1>2. pc \in [Threads -> Calls \cup {"user"}] /\ pc'[t] = "w_unlock"
      /\ \A u \in Threads \ {t} : pc'[u] = pc[u] /\ pc[u] \in {"user", "w_return"}
  BY <1>1 DEF GInv, Types, OneInKernel
<1>3. ~InQueue(t, w) /\ ~InQueue(t, r) /\ sch.next[t] = NULL /\ sem.count = 0
  BY <1>1 DEF GInv, InSemQueue, InRunQueue, Undisturbed
<1>4. /\ sch \in Sched /\ sch.next \in [Threads -> Pointer]
      /\ sem \in [count : Nat, lock : {0, 1}, queue : Pointer]
      /\ IsRunQueue(sch, r) /\ Linked(sch.next, sem.queue, w)
  BY DEF GInv, Types, Sched, Lists
<1> DEFINE v == Append(w, t)
<1>5. v \in Seq(Threads) /\ \A u : InQueue(u, v) <=> InQueue(u, w) \/ u = t
  BY AppendProperties, AppendMembers
<1>6. /\ sch' \in Sched /\ sem' \in [count : Nat, lock : {0, 1}, queue : Pointer]
      /\ sch'.state = sch.state /\ sch'.current = sch.current
      /\ sem'.count = sem.count
      /\ Lists(v, r)'
  <2>1. CASE w = <<>>
    <3>1. sem.queue = NULL
      BY <1>4, <2>1 DEF Linked
    <3>2. UNCHANGED sch /\ sem' = [sem EXCEPT !.queue = t]
      BY <3>1 DEF w_link
    <3>3. Len(v) = 1 /\ v[1] = t /\ v # <<>>
      BY <2>1, AppendProperties, EmptySeq
    <3>4. Linked(sch.next, t, v)
      BY <1>3, <3>3 DEF Linked
    <3> HIDE DEF v
    <3>5. /\ sem'.queue = t /\ sem'.count = sem.count
          /\ sem' \in [count : Nat, lock : {0, 1}, queue : Pointer]
      BY <1>4, <3>2 DEF Pointer
    <3> QED
      BY <1>4, <3>2, <3>4, <3>5 DEF Lists
  <2>2. CASE w # <<>>
    <3>1. sem.queue = w[1] /\ w[1] \in Threads /\ w[Len(w)] \in Threads /\ InQueue(w[Len(w)], w)
      <4>1. Len(w) \in Nat /\ Len(w) # 0
        BY <2>2, LenProperties, EmptySeq
      <4>2. 1 \in 1..Len(w) /\ Len(w) \in 1..Len(w)
        BY <4>1
      <4> QED
        BY <1>4, <2>2, <4>2, ElementOfSeq DEF Linked, InQueue
    <3> DEFINE e == w[Len(w)]
    <3>2. LastOf(sch.next, sem.queue) = e
      BY <1>4, <2>2, ChainLemma
    <3>3. /\ UNCHANGED sem
          /\ sch' = [sch EXCEPT !.next = [sch.next EXCEPT ![e] = t]]
      BY <3>1, <3>2, NullAssumption DEF w_link
    <3>4. Linked([sch.next EXCEPT ![e] = t], sem.queue, v)
      BY <1>3, <1>4, <2>2, LinkedAppend
    <3> HIDE DEF e, v
    <3>5. e \in Threads /\ ~InQueue(e, r)
      BY <3>1 DEF GInv, InRunQueue, e
    <3>6. /\ sch' \in Sched /\ sch'.next = [sch.next EXCEPT ![e] = t]
          /\ sch'.head = sch.head /\ sch'.tail = sch.tail
          /\ sch'.state = sch.state /\ sch'.current = sch.current
      BY <1>4, <3>3, <3>5 DEF Sched, Pointer
    <3>7. \A u \in Threads : InQueue(u, r) => sch'.next[u] = sch.next[u]
      BY <1>4, <3>5, <3>6
    <3>8. IsRunQueue(sch', r)
      BY <1>4, <3>6, <3>7, RunQueueFrame
    <3> QED
      BY <1>4, <3>3, <3>4, <3>6, <3>8 DEF Lists
  <2> QED
    BY <2>1, <2>2
<1> HIDE DEF v
<1>7. Types'
  BY <1>1, <1>6 DEF GInv, Types, Calls
<1>8. InRunQueue(v, r)' /\ InSemQueue(v)' /\ OneInKernel(v)'
  BY <1>1, <1>2, <1>3, <1>5, <1>6 DEF GInv, InRunQueue, InSemQueue, OneInKernel
<1>9. Handing(v, r)'
  BY <1>2 DEF Handing
<1>10. Undisturbed'
  BY <1>1, <1>2, <1>6 DEF GInv, Types, Undisturbed
<1>11. Balance(v)'
  <2>1. Owners(v)' = Owners(w) /\ Pending' = Pending
    BY <1>1, <1>2, <1>5 DEF Owners, Pending
  <2> QED
    BY <1>1, <1>6, <2>1 DEF GInv, Balance
<1>12. AStep(w, v)
  BY <1>3, <1>6 DEF AStep, v
<1> QED
  BY <1>5, <1>6, <1>7, <1>8, <1>9, <1>10, <1>11, <1>12 DEF Becomes, GInv, v

\* Queued at the semaphore, the thread gives the lock back and blocks itself.
LEMMA BlockStep ==
  ASSUME NEW w \in Seq(Threads), NEW r \in Seq(Threads), GInv(w, r),
         NEW t \in Threads, w_unlock(t) \/ w_block(t)
  PROVE  Becomes(w, w, r)
<1> DEFINE l == IF pc[t] = "w_unlock" THEN "w_block" ELSE "w_switch"
<1>1. /\ t = sch.current /\ pc[t] \in {"w_unlock", "w_block"} /\ pc' = [pc EXCEPT ![t] = l]
      /\ UNCHANGED <<qlock, woken, hung, signals, waits>>
  BY DEF w_unlock, w_block, At, Goto
<1>2. pc \in [Threads -> Calls \cup {"user"}] /\ pc'[t] = l
      /\ \A u \in Threads \ {t} : pc'[u] = pc[u] /\ pc[u] \in {"user", "w_return"}
  BY <1>1 DEF GInv, Types, OneInKernel
<1>3. /\ sch \in Sched /\ sem \in [count : Nat, lock : {0, 1}, queue : Pointer]
  BY DEF GInv, Types
<1>4. /\ sem' \in [count : Nat, lock : {0, 1}, queue : Pointer]
      /\ sem'.queue = sem.queue /\ sem'.count = sem.count
  BY <1>3 DEF w_unlock, w_block
<1>5. /\ sch' \in Sched /\ sch'.next = sch.next /\ sch'.head = sch.head /\ sch'.tail = sch.tail
      /\ sch'.current = sch.current
      /\ sch'.state = IF pc[t] = "w_unlock" THEN sch.state ELSE [sch.state EXCEPT ![t] = "SEMA"]
  <2>1. CASE w_unlock(t)
    BY <1>3, <2>1 DEF w_unlock, At
  <2>2. CASE w_block(t)
    <3>1. pc[t] # "w_unlock" /\ sch' = [sch EXCEPT !.state = [sch.state EXCEPT ![t] = "SEMA"]]
      BY <2>2 DEF w_block, At, thread_block
    <3> QED
      BY <1>3, <3>1 DEF Sched, ThreadState, Blocked
  <2> QED
    BY <2>1, <2>2
<1>6. InQueue(t, w) /\ ~InQueue(t, r) /\ sch.state[t] = "READY"
      /\ sch.state \in [Threads -> ThreadState]
  BY <1>1, <1>3 DEF GInv, OneInKernel, InRunQueue, Sched
<1>7. Types'
  BY <1>1, <1>4, <1>5 DEF GInv, Types, Calls
<1>8. Lists(w, r)'
  BY <1>4, <1>5, ListsFrame
<1>9. InRunQueue(w, r)'
  BY <1>1, <1>2, <1>5, <1>6 DEF GInv, InRunQueue
<1>10. InSemQueue(w)'
  BY <1>1, <1>2, <1>5, <1>6 DEF GInv, InSemQueue
<1>11. OneInKernel(w)'
  BY <1>1, <1>2, <1>5, <1>6 DEF GInv, OneInKernel
<1>12. Handing(w, r)'
  BY <1>2 DEF Handing
<1>13. Undisturbed'
  BY <1>1, <1>2, <1>4, <1>5 DEF GInv, Types, Undisturbed
<1>14. Balance(w)'
  <2>1. Owners(w)' = Owners(w) /\ Pending' = Pending
    BY <1>1, <1>2, <1>6 DEF Owners, Pending
  <2> QED
    BY <1>1, <1>4, <2>1 DEF GInv, Balance
<1> QED
  BY <1>4, <1>7, <1>8, <1>9, <1>10, <1>11, <1>12, <1>13, <1>14 DEF Becomes, GInv, AStep

\* scheduler_schedule, from the timer interrupt with the running thread outside
\* the kernel or from semaphore_wait with the running thread blocked: the first
\* thread of the run queue comes back, and the semaphore's queue is not touched.
LEMMA DispatchStep ==
  ASSUME NEW w \in Seq(Threads), NEW r \in Seq(Threads), GInv(w, r),
         sch' = scheduler_schedule(sch), qlock = 0,
         UNCHANGED <<sem, qlock, woken, hung, signals, waits>>,
         \/ UNCHANGED pc /\ \A t \in Threads : t = sch.current => pc[t] = "user"
         \/ /\ sch.current \in Threads /\ pc[sch.current] = "w_switch"
            /\ pc' = [pc EXCEPT ![sch.current] = "w_return"],
         NEW p, p = Offered(sch, r)
  PROVE  Rest(p) \in Seq(Threads) /\ Becomes(w, w, Rest(p))
<1> DEFINE c == sch.current
<1>1. sch \in Sched /\ IsRunQueue(sch, r) /\ Linked(sch.next, sem.queue, w)
  BY DEF GInv, Types, Lists
<1>2. c \in Threads \/ c = NULL
  BY <1>1 DEF Sched, Pointer
<1>3. c \in Threads => ~InQueue(c, r)
  BY DEF GInv, InRunQueue
<1>4. /\ sch' \in Sched /\ p \in Seq(Threads) /\ Rest(p) \in Seq(Threads)
      /\ \A i, j \in 1..Len(p) : p[i] = p[j] => i = j
      /\ IsRunQueue(sch', Rest(p)) /\ sch'.state = sch.state
      /\ sch'.current = IF p = <<>> THEN NULL ELSE Head(p)
      /\ \A u \in Threads : ~InQueue(u, p) => sch'.next[u] = sch.next[u]
  BY <1>1, <1>2, <1>3, SwitchLemma
\* What joins the run queue before the choice.
<1>5. \A u \in Threads : InQueue(u, p) =>
        /\ sch.state[u] = "READY" /\ ~InQueue(u, w) /\ pc[u] \in {"user", "w_return"}
        /\ pc'[u] = pc[u]
  <2>1. ASSUME NEW u \in Threads, InQueue(u, r)
        PROVE  /\ sch.state[u] = "READY" /\ ~InQueue(u, w) /\ pc[u] \in {"user", "w_return"}
               /\ u # c
    BY <2>1 DEF GInv, InRunQueue
  <2>2. pc \in [Threads -> Calls \cup {"user"}]
    BY DEF GInv, Types
  <2>3. CASE c # NULL /\ sch.state[c] = "READY"
    <3>1. p = Append(r, c) /\ c \in Threads
      BY <1>2, <2>3 DEF Offered
    <3>2. \A u : InQueue(u, p) <=> InQueue(u, r) \/ u = c
      BY <3>1, AppendMembers
    <3>3. pc[c] = "user" /\ UNCHANGED pc /\ ~InQueue(c, w)
      BY <2>3, <3>1 DEF GInv, InSemQueue, OneInKernel
    <3> QED
      BY <2>1, <2>3, <3>2, <3>3
  <2>4. CASE ~(c # NULL /\ sch.state[c] = "READY")
    <3>1. p = r
      BY <2>4 DEF Offered
    <3> QED
      BY <2>1, <2>2, <3>1
  <2> QED
    BY <2>3, <2>4
<1>6. \A u \in Threads : InQueue(u, Rest(p)) => InQueue(u, p) /\ u # sch'.current
  <2>1. CASE p = <<>>
    BY <2>1, EmptySeq DEF Rest, InQueue
  <2>2. CASE p # <<>>
    BY <1>4, <2>2, RestMembers
  <2> QED
    BY <2>1, <2>2
<1>7. \A u \in Threads : u = sch'.current => InQueue(u, p)
  <2>1. CASE p = <<>>
    BY <1>4, <2>1, NullAssumption
  <2>2. CASE p # <<>>
    BY <1>4, <2>2, RestMembers
  <2> QED
    BY <2>1, <2>2
<1>8. \A u \in Threads : /\ pc'[u] \in {"user", "w_return"}
                         /\ pc'[u] # pc[u] => pc[u] = "w_switch" /\ pc'[u] = "w_return"
  BY DEF GInv, Types, OneInKernel
<1>9. Types'
  BY <1>4 DEF GInv, Types, Calls
<1>10. Lists(w, Rest(p))'
  <2>1. \A u \in Threads : InQueue(u, w) => sch'.next[u] = sch.next[u]
    BY <1>4, <1>5
  <2>2. Linked(sch'.next, sem.queue, w)
    BY <1>1, <2>1, LinkedFrame
  <2> QED
    BY <1>4, <2>2 DEF Lists
<1>11. InRunQueue(w, Rest(p))'
  BY <1>4, <1>5, <1>6 DEF InRunQueue
<1>12. InSemQueue(w)'
  BY <1>4, <1>5, <1>7, <1>8 DEF GInv, InSemQueue
<1>13. OneInKernel(w)'
  <2>1. ASSUME NEW u \in Threads, sch.state[u] = "FREE" PROVE pc'[u] = "user"
    BY <1>8, <2>1 DEF GInv, OneInKernel
  <2> QED
    BY <1>4, <1>5, <1>7, <1>8, <2>1 DEF OneInKernel
<1>14. Handing(w, Rest(p))'
  BY <1>8 DEF Handing
<1>15. Undisturbed'
  BY <1>8 DEF GInv, Undisturbed
<1>16. Balance(w)'
  <2>1. Owners(w)' = Owners(w) /\ Pending' = Pending
    <3>1. \A u \in Threads :
            pc'[u] \in {"w_unlock", "w_block", "w_switch", "w_return"}
              <=> pc[u] \in {"w_unlock", "w_block", "w_switch", "w_return"}
      BY <1>8 DEF GInv, Types
    <3>2. \A u \in Threads : pc'[u] \in {"s_lock", "s_test"} <=> pc[u] \in {"s_lock", "s_test"}
      BY <1>8
    <3> QED
      BY <3>1, <3>2 DEF Owners, Pending
  <2> QED
    BY <2>1 DEF GInv, Balance
<1>17. AStep(w, w)
  BY DEF AStep
<1> QED
  BY <1>4, <1>9, <1>10, <1>11, <1>12, <1>13, <1>14, <1>15, <1>16, <1>17 DEF Becomes, GInv

\* semaphore_signal stores its token, or takes the first thread off the queue.
LEMMA SignalStep ==
  ASSUME NEW w \in Seq(Threads), NEW r \in Seq(Threads), GInv(w, r),
         NEW t \in Threads, s_test(t)
  PROVE  Rest(w) \in Seq(Threads) /\ Becomes(w, Rest(w), r)
<1>1. /\ t = sch.current /\ pc[t] = "s_test"
      /\ UNCHANGED <<sch, qlock, hung, signals, waits>>
  BY DEF s_test, At
<1>2. /\ sch \in Sched /\ sem \in [count : Nat, lock : {0, 1}, queue : Pointer]
      /\ Linked(sch.next, sem.queue, w) /\ pc \in [Threads -> Calls \cup {"user"}]
      /\ woken \in [Threads -> Pointer]
  BY DEF GInv, Types, Lists
<1>3. t \in Pending /\ Cardinality(Pending \ {t}) = Cardinality(Pending) - 1
      /\ Cardinality(Pending) \in Nat
  BY <1>1, CountedSets, CardShrink, CardNat DEF Pending
<1>4. CASE w = <<>>
  <2>1. sem.queue = NULL /\ Rest(w) = w
    BY <1>2, <1>4 DEF Linked, Rest
  <2>2. /\ sem' = [sem EXCEPT !.count = sem.count + 1, !.lock = 0]
        /\ pc' = [pc EXCEPT ![t] = "user"] /\ UNCHANGED woken
    BY <2>1 DEF s_test, Goto
  <2>3. /\ sem' \in [count : Nat, lock : {0, 1}, queue : Pointer]
        /\ sem'.queue = sem.queue /\ sem'.count = sem.count + 1
    <3>1. sem.count \in Nat /\ sem.count + 1 \in Nat
      BY <1>2
    <3> QED
      BY <1>2, <2>2, <3>1
  <2>4. /\ Lists(w, r)' /\ InRunQueue(w, r)' /\ InSemQueue(w)' /\ OneInKernel(w)'
        /\ Handing(w, r)' /\ Undisturbed'
        /\ Owners(w)' = Owners(w) \ {t} /\ t \notin Owners(w) /\ Pending' = Pending \ {t}
    BY <1>1, <2>2, <2>3, PlainMove
  <2>5. /\ Cardinality(Owners(w))' = Cardinality(Owners(w)) /\ Cardinality(Owners(w)) \in Nat
        /\ Cardinality(Pending)' = Cardinality(Pending) - 1
    BY <1>3, <2>4, CountedSets, CardNat
  <2>6. Types'
    BY <1>1, <2>2, <2>3 DEF GInv, Types
  <2>7. Balance(w)'
    <3> DEFINE c == sem.count
               own == Cardinality(Owners(w))
               pend == Cardinality(Pending)
    <3>1. /\ c \in Nat /\ waits \in Nat /\ signals \in Nat /\ InitCount \in Nat
          /\ own \in Nat /\ pend \in Nat
      BY <1>3, <2>5, SemaphoreAssumption DEF GInv, Types
    <3>2. c + waits + own = InitCount + signals - pend
      BY DEF GInv, Balance
    <3> HIDE DEF c, own, pend
    <3>3. c + 1 + waits + own = InitCount + signals - (pend - 1)
      BY <3>1, <3>2
    <3>4. own' = own /\ pend' = pend - 1
      BY <2>5 DEF own, pend
    <3> QED
      BY <1>1, <2>3, <3>3, <3>4 DEF Balance, c, own, pend
  <2> QED
    BY <1>4, <2>1, <2>3, <2>4, <2>6, <2>7 DEF Becomes, GInv, AStep
<1>5. CASE w # <<>>
  <2>1. PICK h \in Threads : h = sem.queue
    <3>1. Len(w) \in Nat /\ Len(w) # 0
      BY <1>5, LenProperties, EmptySeq
    <3>2. w[1] \in Threads /\ sem.queue = w[1]
      BY <1>2, <1>5, <3>1, ElementOfSeq DEF Linked
    <3> QED
      BY <3>2
  <2> DEFINE v == Rest(w)
  <2>2. /\ sem' = [sem EXCEPT !.queue = sch.next[h]]
        /\ woken' = [woken EXCEPT ![t] = h]
        /\ pc' = [pc EXCEPT ![t] = "s_ready"]
    BY <2>1, NullAssumption DEF s_test, Goto
  <2>3. /\ sem' \in [count : Nat, lock : {0, 1}, queue : Pointer]
        /\ sem'.queue = sch.next[h] /\ sem'.count = sem.count
    BY <1>2, <2>2 DEF Sched
  <2>4. v = Tail(w) /\ v \in Seq(Threads)
    BY <1>5, HeadTailProperties DEF Rest
  <2>5. InQueue(h, w) /\ \A u : InQueue(u, v) <=> InQueue(u, w) /\ u # h
    <3>1. Head(w) = h
      BY <1>2, <1>5, <2>1, HeadTailProperties DEF Linked
    <3>2. \A i, j \in 1..Len(w) : w[i] = w[j] => i = j
      BY <1>2 DEF Linked
    <3> QED
      BY <1>5, <3>1, <3>2, RestMembers
  <2> HIDE DEF v
  <2>6. /\ ~InQueue(t, w) /\ ~InQueue(t, r) /\ h # t /\ ~InQueue(h, r)
        /\ pc[h] = "w_return" /\ sch.state[h] = "SEMA"
    BY <1>1, <2>5 DEF GInv, InSemQueue, InRunQueue, OneInKernel
  <2>7. pc'[t] = "s_ready"
        /\ \A u \in Threads \ {t} : pc'[u] = pc[u] /\ pc[u] \in {"user", "w_return"}
    BY <1>1, <1>2, <2>2 DEF GInv, OneInKernel
  <2>8. Types'
    BY <1>1, <1>2, <2>2, <2>3 DEF GInv, Types, Calls, Pointer
  <2>9. Lists(v, r)'
    <3>1. Linked(sch.next, sch.next[h], v)
      BY <1>2, <1>5, <2>1, <2>4, LinkedTail
    <3> QED
      BY <1>1, <2>3, <3>1 DEF GInv, Lists
  <2>10. InRunQueue(v, r)' /\ InSemQueue(v)' /\ OneInKernel(v)'
    BY <1>1, <2>5, <2>6, <2>7 DEF GInv, InRunQueue, InSemQueue, OneInKernel
  <2>11. Handing(v, r)'
    BY <1>1, <1>2, <2>2, <2>5, <2>6, <2>7 DEF Handing
  <2>12. Undisturbed'
    BY <1>1, <2>3, <2>7 DEF GInv, Types, Undisturbed
  <2>13. Balance(v)'
    <3>1. Pending' = Pending \ {t}
      BY <1>1, <2>7 DEF Pending
    <3>2. Owners(v)' = Owners(w) \cup {h} /\ h \notin Owners(w)
      BY <1>1, <2>5, <2>6, <2>7 DEF Owners
    <3>3. /\ Cardinality(Owners(v))' = Cardinality(Owners(w)) + 1
          /\ Cardinality(Owners(w)) \in Nat
      BY <3>2, CountedSets, CardGrow, CardNat
    <3> QED
      BY <1>1, <1>3, <2>3, <3>1, <3>3, SemaphoreAssumption DEF GInv, Types, Balance
  <2>14. AStep(w, v)
    BY <1>5, <2>3, <2>4 DEF AStep
  <2> QED
    BY <2>4, <2>8, <2>9, <2>10, <2>11, <2>12, <2>13, <2>14 DEF Becomes, GInv, v
<1> QED
  BY <1>4, <1>5

\* thread_unblock up to the second half of scheduler_enqueue_thread: the woken
\* thread becomes READY and its link field is cleared, under queue_lock.
LEMMA ReadyStep ==
  ASSUME NEW w \in Seq(Threads), NEW r \in Seq(Threads), GInv(w, r),
         NEW t \in Threads, s_ready(t) \/ s_clear(t)
  PROVE  Becomes(w, w, r)
<1>1. PICK l \in {"s_clear", "s_link"} :
        /\ t = sch.current /\ pc' = [pc EXCEPT ![t] = l]
        /\ pc[t] = IF l = "s_clear" THEN "s_ready" ELSE "s_clear"
        /\ qlock' = IF l = "s_link" THEN 1 ELSE qlock
        /\ sch' = IF l = "s_clear"
                  THEN [sch EXCEPT !.state = [sch.state EXCEPT ![woken[t]] = "READY"]]
                  ELSE [sch EXCEPT !.next = [sch.next EXCEPT ![woken[t]] = NULL]]
  <2>1. CASE s_ready(t)
    <3> WITNESS "s_clear" \in {"s_clear", "s_link"}
    <3> QED
      BY <2>1 DEF s_ready, At, Goto
  <2>2. CASE s_clear(t)
    <3> WITNESS "s_link" \in {"s_clear", "s_link"}
    <3> QED
      BY <2>2 DEF s_clear, At, Goto
  <2> QED
    BY <2>1, <2>2
<1>2. UNCHANGED <<sem, woken, hung, signals, waits>>
  BY DEF s_ready, s_clear
<1>3. pc \in [Threads -> Calls \cup {"user"}] /\ pc'[t] = l
      /\ \A u \in Threads \ {t} : pc'[u] = pc[u] /\ pc[u] \in {"user", "w_return"}
  BY <1>1 DEF GInv, Types, OneInKernel
<1>4. PICK k \in Threads :
        /\ k = woken[t] /\ ~InQueue(k, w) /\ ~InQueue(k, r) /\ pc[k] = "w_return" /\ k # t
        /\ sch.state[k] = IF pc[t] = "s_ready" THEN "SEMA" ELSE "READY"
  BY <1>1 DEF GInv, Handing
<1>5. /\ sch \in Sched /\ sch.next \in [Threads -> Pointer] /\ sch.state \in [Threads -> ThreadState]
  BY DEF GInv, Types, Sched
<1>6. /\ sch' \in Sched /\ sch'.head = sch.head /\ sch'.tail = sch.tail
      /\ sch'.current = sch.current
      /\ \A u \in Threads \ {k} : sch'.next[u] = sch.next[u] /\ sch'.state[u] = sch.state[u]
      /\ sch'.state[k] = "READY"
  <2>1. CASE l = "s_clear"
    BY <1>1, <1>4, <1>5, <2>1 DEF Sched, ThreadState
  <2>2. CASE l = "s_link"
    <3>1. sch' = [sch EXCEPT !.next = [sch.next EXCEPT ![k] = NULL]] /\ sch.state[k] = "READY"
      BY <1>1, <1>4, <2>2
    <3> QED
      BY <1>5, <3>1 DEF Sched, Pointer
  <2> QED
    BY <2>1, <2>2
<1>7. Types'
  BY <1>1, <1>2, <1>6 DEF GInv, Types, Calls
<1>8. Lists(w, r)'
  BY <1>2, <1>4, <1>6, ListsFrame
<1>9. ~InQueue(t, w) /\ ~InQueue(t, r) /\ pc'[k] = pc[k]
  BY <1>1, <1>3, <1>4 DEF GInv, InSemQueue, InRunQueue
<1>10. InRunQueue(w, r)' /\ InSemQueue(w)'
  BY <1>3, <1>4, <1>6, <1>9 DEF GInv, InRunQueue, InSemQueue
<1>11. OneInKernel(w)'
  BY <1>1, <1>3, <1>4, <1>6, <1>9 DEF GInv, OneInKernel
<1>12. Handing(w, r)'
  BY <1>2, <1>3, <1>4, <1>6, <1>9 DEF Handing
<1>13. Undisturbed'
  BY <1>1, <1>2, <1>3, <1>6 DEF GInv, Types, Undisturbed
<1>14. Balance(w)'
  <2>1. Owners(w)' = Owners(w) /\ Pending' = Pending
    BY <1>1, <1>3 DEF Owners, Pending
  <2> QED
    BY <1>2, <2>1 DEF GInv, Balance
<1> QED
  BY <1>2, <1>7, <1>8, <1>10, <1>11, <1>12, <1>13, <1>14 DEF Becomes, GInv, AStep

\* A thread that is in no list joins the run queue.
LEMMA JoinLemma ==
  ASSUME NEW w \in Seq(Threads), NEW r \in Seq(Threads),
         NEW s \in Sched, IsRunQueue(s, r), Linked(s.next, sem.queue, w),
         \A u \in Threads : InQueue(u, w) => ~InQueue(u, r),
         NEW k \in Threads, ~InQueue(k, w), ~InQueue(k, r),
         sch' = scheduler_enqueue_thread(s, k), sem'.queue = sem.queue
  PROVE  /\ sch' \in Sched /\ sch'.state = s.state /\ sch'.current = s.current
         /\ Append(r, k) \in Seq(Threads) /\ Lists(w, Append(r, k))'
         /\ \A u : InQueue(u, Append(r, k)) <=> InQueue(u, r) \/ u = k
<1> DEFINE v == Append(r, k)
<1>1. /\ sch' \in Sched /\ v \in Seq(Threads) /\ IsRunQueue(sch', v)
      /\ sch'.state = s.state /\ sch'.current = s.current
      /\ \A u \in Threads : ~InQueue(u, r) /\ u # k => sch'.next[u] = s.next[u]
  BY EnqueueLemma
<1>2. Linked(sch'.next, sem.queue, w)
  BY <1>1, LinkedFrame
<1>3. \A u : InQueue(u, v) <=> InQueue(u, r) \/ u = k
  BY AppendMembers
<1> HIDE DEF v
<1>4. Lists(w, v)'
  BY <1>1, <1>2 DEF Lists
<1> QED
  BY <1>1, <1>3, <1>4 DEF v

\* The second half of scheduler_enqueue_thread in thread_unblock.
LEMMA WakeStep ==
  ASSUME NEW w \in Seq(Threads), NEW r \in Seq(Threads), GInv(w, r),
         NEW t \in Threads, s_link(t), NEW k, k = woken[t]
  PROVE  Append(r, k) \in Seq(Threads) /\ Becomes(w, w, Append(r, k))
<1>1. /\ t = sch.current /\ pc[t] = "s_link" /\ pc' = [pc EXCEPT ![t] = "s_unlock"]
      /\ sch' = scheduler_enqueue_thread(sch, k) /\ qlock' = 0
      /\ UNCHANGED <<sem, woken, hung, signals, waits>>
  BY DEF s_link, At, Goto
<1>2. pc \in [Threads -> Calls \cup {"user"}] /\ pc'[t] = "s_unlock"
      /\ \A u \in Threads \ {t} : pc'[u] = pc[u] /\ pc[u] \in {"user", "w_return"}
  BY <1>1 DEF GInv, Types, OneInKernel
<1>3. /\ k \in Threads /\ ~InQueue(k, w) /\ ~InQueue(k, r) /\ pc[k] = "w_return" /\ k # t
      /\ sch.state[k] = "READY"
  BY <1>1 DEF GInv, Handing
<1> DEFINE v == Append(r, k)
<1>4. /\ sch' \in Sched /\ sch'.state = sch.state /\ sch'.current = sch.current
      /\ v \in Seq(Threads) /\ Lists(w, v)'
      /\ \A u : InQueue(u, v) <=> InQueue(u, r) \/ u = k
  <2>1. /\ sch \in Sched /\ IsRunQueue(sch, r) /\ Linked(sch.next, sem.queue, w)
        /\ \A u \in Threads : InQueue(u, w) => ~InQueue(u, r)
    BY DEF GInv, Types, Lists, InRunQueue
  <2> QED
    BY <1>1, <1>3, <2>1, JoinLemma
<1> HIDE DEF v
<1>5. Types'
  BY <1>1, <1>4 DEF GInv, Types, Calls
<1>6. ~InQueue(t, w) /\ ~InQueue(t, r)
  BY <1>1 DEF GInv, InSemQueue, InRunQueue
<1>7. InRunQueue(w, v)' /\ InSemQueue(w)' /\ OneInKernel(w)'
  BY <1>1, <1>2, <1>3, <1>4, <1>6 DEF GInv, InRunQueue, InSemQueue, OneInKernel
<1>8. Handing(w, v)'
  BY <1>2 DEF Handing
<1>9. Undisturbed'
  BY <1>1, <1>2, <1>4 DEF GInv, Undisturbed
<1>10. Balance(w)'
  <2>1. Owners(w)' = Owners(w) /\ Pending' = Pending
    BY <1>1, <1>2 DEF Owners, Pending
  <2> QED
    BY <1>1, <2>1 DEF GInv, Balance
<1>11. AStep(w, w)
  BY <1>1 DEF AStep
<1> QED
  BY <1>4, <1>5, <1>7, <1>8, <1>9, <1>10, <1>11 DEF Becomes, GInv, v

\* process_create: the first thread of a process joins the run queue.
LEMMA CreateStep ==
  ASSUME NEW w \in Seq(Threads), NEW r \in Seq(Threads), GInv(w, r),
         NEW t \in Threads, process_create(t)
  PROVE  Append(r, t) \in Seq(Threads) /\ Becomes(w, w, Append(r, t))
<1> DEFINE s == thread_new(sch, t)
           v == Append(r, t)
<1>1. /\ sch.current = NULL /\ sch.state[t] = "FREE" /\ sch' = scheduler_enqueue_thread(s, t)
      /\ UNCHANGED <<sem, qlock, pc, woken, hung, signals, waits>>
  BY DEF process_create
<1>2. /\ sch \in Sched /\ sch.state \in [Threads -> ThreadState]
      /\ IsRunQueue(sch, r) /\ Linked(sch.next, sem.queue, w)
      /\ \A u \in Threads : InQueue(u, w) => ~InQueue(u, r)
  BY DEF GInv, Types, Sched, Lists, InRunQueue
<1>3. /\ ~InQueue(t, w) /\ ~InQueue(t, r) /\ pc[t] = "user"
      /\ \A u \in Threads : pc[u] \in {"user", "w_return"}
  BY <1>1, NullAssumption DEF GInv, InSemQueue, InRunQueue, OneInKernel
<1>4. /\ s \in Sched /\ s.head = sch.head /\ s.tail = sch.tail /\ s.next = sch.next
      /\ s.current = sch.current /\ s.state = [sch.state EXCEPT ![t] = "READY"]
  BY <1>2 DEF thread_new, Sched, ThreadState
<1> HIDE DEF s
<1>5. IsRunQueue(s, r) /\ Linked(s.next, sem.queue, w)
  BY <1>2, <1>4, RunQueueFrame
<1>6. /\ sch' \in Sched /\ sch'.state = s.state /\ sch'.current = sch.current
      /\ v \in Seq(Threads) /\ Lists(w, v)'
      /\ \A u : InQueue(u, v) <=> InQueue(u, r) \/ u = t
  BY <1>1, <1>2, <1>3, <1>4, <1>5, JoinLemma
<1> HIDE DEF v
<1>7. Types'
  BY <1>1, <1>6 DEF GInv, Types
<1>8. InRunQueue(w, v)' /\ InSemQueue(w)' /\ OneInKernel(w)'
  BY <1>1, <1>2, <1>3, <1>4, <1>6, NullAssumption DEF GInv, InRunQueue, InSemQueue, OneInKernel
<1>9. Handing(w, v)'
  BY <1>1, <1>3 DEF Handing
<1>10. Undisturbed'
  BY <1>1, <1>3, <1>6 DEF GInv, Undisturbed
<1>11. Balance(w)'
  BY <1>1 DEF GInv, Balance, Owners, Pending
<1>12. AStep(w, w)
  BY <1>1 DEF AStep
<1> QED
  BY <1>6, <1>7, <1>8, <1>9, <1>10, <1>11, <1>12 DEF Becomes, GInv, v

-----------------------------------------------------------------------------

\* One lemma per action of the specification comes together: from any lists that
\* satisfy the invariant every step leads to lists that do.
LEMMA StepLemma ==
  ASSUME ~Preemptible, NEW w \in Seq(Threads), NEW r \in Seq(Threads), GInv(w, r), [Next]_vars
  PROVE  \E w2, r2 \in Seq(Threads) : Becomes(w, w2, r2)
<1>1. CASE timer_tick
  <2>1. \A t \in Threads : t = sch.current => pc[t] = "user"
    BY <1>1 DEF timer_tick, Interruptible
  <2>2. qlock = 0
    BY <2>1 DEF GInv, Types, Undisturbed
  <2>3. sch' = scheduler_schedule(sch) /\ UNCHANGED <<sem, qlock, pc, woken, hung, signals, waits>>
    BY <1>1, <2>2 DEF timer_tick
  <2> QED
    BY <2>1, <2>2, <2>3, DispatchStep
<1>2. ASSUME NEW t \in Threads, process_create(t)
      PROVE  \E w2, r2 \in Seq(Threads) : Becomes(w, w2, r2)
  BY <1>2, CreateStep
<1>3. ASSUME NEW t \in Threads, CallWait(t) \/ CallSignal(t)
      PROVE  \E w2, r2 \in Seq(Threads) : Becomes(w, w2, r2)
  BY <1>3, CallStep
<1>4. ASSUME NEW t \in Threads, KernelStep(t)
      PROVE  \E w2, r2 \in Seq(Threads) : Becomes(w, w2, r2)
  <2>1. CASE w_lock(t) \/ s_lock(t) \/ s_unlock(t)
    BY <2>1, LockStep
  <2>2. CASE w_test(t)
    BY <2>2, TestStep
  <2>3. CASE w_clear(t)
    BY <2>3, ClearStep
  <2>4. CASE w_link(t)
    BY <2>4, LinkStep
  <2>5. CASE w_unlock(t) \/ w_block(t)
    BY <2>5, BlockStep
  <2>6. CASE w_switch(t)
    <3>1. /\ sch.current = t /\ pc[t] = "w_switch" /\ pc' = [pc EXCEPT ![t] = "w_return"]
          /\ sch' = scheduler_schedule(sch) /\ qlock = 0
          /\ UNCHANGED <<sem, qlock, woken, hung, signals, waits>>
      BY <2>6 DEF w_switch, At, Goto
    <3> QED
      BY <3>1, DispatchStep
  <2>7. CASE w_return(t)
    BY <2>7, ReturnStep
  <2>8. CASE s_test(t)
    BY <2>8, SignalStep
  <2>9. CASE s_ready(t) \/ s_clear(t)
    BY <2>9, ReadyStep
  <2>10. CASE s_link(t)
    BY <2>10, WakeStep
  <2> QED
    BY <1>4, <2>1, <2>2, <2>3, <2>4, <2>5, <2>6, <2>7, <2>8, <2>9, <2>10 DEF KernelStep
<1>5. CASE UNCHANGED vars
  <2>1. GInv(w, r)'
    BY <1>5
    DEF vars, GInv, Types, Lists, InRunQueue, InSemQueue, OneInKernel, Handing, Undisturbed,
        Balance, Owners, Pending
  <2> QED
    BY <1>5, <2>1 DEF vars, Becomes, AStep
<1> QED
  BY <1>1, <1>2, <1>3, <1>4, <1>5 DEF Next

\* What the invariant says about the operators that follow the pointers.
LEMMA ListsFound ==
  ASSUME NEW w \in Seq(Threads), NEW r \in Seq(Threads), GInv(w, r)
  PROVE  /\ SemQueue = w
         /\ \A u : u \in SemWaiters <=> InQueue(u, w)
         /\ \A u : u \in RunQueue <=> InQueue(u, r)
         /\ Ends(sch.next, sem.queue) /\ Ends(sch.next, sch.head)
<1>1. /\ sch.next \in [Threads -> Pointer] /\ Linked(sch.next, sem.queue, w)
      /\ IsRunQueue(sch, r)
  BY DEF GInv, Types, Sched, Lists
<1>2. Linked(sch.next, sch.head, r)
  BY <1>1, RunQueueLinked
<1> QED
  BY <1>1, <1>2, ChainLemma DEF SemQueue, SemWaiters, RunQueue

\* The invariant in terms of the properties of the specification.
LEMMA IInvImplies == IInv => TokensConserved /\ ListsDisjoint /\ HandlerNeverSpins
<1> SUFFICES ASSUME NEW w \in Seq(Threads), NEW r \in Seq(Threads), GInv(w, r)
             PROVE  TokensConserved /\ ListsDisjoint /\ HandlerNeverSpins
  BY DEF IInv
<1>1. /\ \A u : u \in SemWaiters <=> InQueue(u, w)
      /\ \A u : u \in RunQueue <=> InQueue(u, r)
      /\ Ends(sch.next, sem.queue) /\ Ends(sch.next, sch.head)
  BY ListsFound
<1>2. HandlerNeverSpins
  BY DEF GInv, Undisturbed, HandlerNeverSpins
<1>3. ListsDisjoint
  <2>1. \A u : InQueue(u, w) \/ InQueue(u, r) => u \in Threads
    BY ElementOfSeq DEF InQueue
  <2> QED
    BY <1>1, <2>1 DEF ListsDisjoint, GInv, InRunQueue, InSemQueue, Blocked
<1>4. TokensConserved
  <2> DEFINE c == sem.count
             own == Cardinality(Owners(w))
             pend == Cardinality(Pending)
  <2>1. {t \in Threads : Granted(t)} = Owners(w)
    BY <1>1 DEF Granted, Owners
  <2>2. /\ c \in Nat /\ waits \in Nat /\ signals \in 0..MaxSignals /\ InitCount \in Nat
        /\ MaxSignals \in Nat /\ own \in Nat /\ pend \in Nat
    BY CountedSets, CardNat, SemaphoreAssumption DEF GInv, Types
  <2>3. c + waits + own = InitCount + signals - pend
    BY DEF GInv, Balance
  <2> HIDE DEF c, own, pend
  <2>4. c \in 0..(InitCount + MaxSignals) /\ waits \in 0..(InitCount + MaxSignals)
    BY <2>2, <2>3
  <2>5. TypeOK
    <3>1. sem \in [count : 0..(InitCount + MaxSignals), lock : {0, 1}, queue : Pointer]
      BY <2>4 DEF GInv, Types, c
    <3>2. hung \in BOOLEAN
      BY DEF GInv, Undisturbed
    <3> QED
      BY <2>4, <3>1, <3>2 DEF GInv, Types, TypeOK
  <2> QED
    BY <2>1, <2>3, <2>5 DEF TokensConserved, c, own, pend, Pending
<1> QED
  BY <1>2, <1>3, <1>4

LEMMA StepIInv == ~Preemptible /\ IInv /\ [Next]_vars => IInv'
<1> SUFFICES ASSUME ~Preemptible, IInv, [Next]_vars PROVE IInv'
  OBVIOUS
<1>1. PICK w, r \in Seq(Threads) : GInv(w, r)
  BY DEF IInv
<1>2. PICK w2, r2 \in Seq(Threads) : GInv(w2, r2)'
  BY <1>1, StepLemma DEF Becomes
<1> QED
  BY <1>2 DEF IInv

LEMMA Invariance ==
  ASSUME ~Preemptible
  PROVE  Spec => []IInv
<1>1. Init => IInv
  BY InitIInv
<1>2. IInv /\ [Next]_vars => IInv'
  BY StepIInv
<1> QED
  BY <1>1, <1>2, PTL DEF Spec

\* On ARM no token of a semaphore is lost or made up, whatever the threads do
\* and whenever the timer interrupts them.
THEOREM TokensAlwaysConserved ==
  ASSUME ~Preemptible
  PROVE  Spec => []TokensConserved
<1>1. IInv => TokensConserved
  BY IInvImplies
<1> QED
  BY <1>1, Invariance, PTL

\* On ARM the semaphore's queue and the run queue, which share the link fields,
\* both end and never mix, and no blocked thread is in the run queue.
THEOREM ListsNeverMix ==
  ASSUME ~Preemptible
  PROVE  Spec => []ListsDisjoint
<1>1. IInv => ListsDisjoint
  BY IInvImplies
<1> QED
  BY <1>1, Invariance, PTL

\* On ARM the timer handler never finds queue_lock taken by the code it
\* interrupted, so it never spins.
THEOREM HandlerFindsLockFree ==
  ASSUME ~Preemptible
  PROVE  Spec => []HandlerNeverSpins
<1>1. IInv => HandlerNeverSpins
  BY IInvImplies
<1> QED
  BY <1>1, Invariance, PTL

\* A change of the two lists as a step of the counting semaphore.
LEMMA AbstractStep ==
  ASSUME NEW w \in Seq(Threads), NEW w2 \in Seq(Threads), AStep(w, w2),
         SemQueue = w, SemQueue' = w2
  PROVE  [Abstract!Next]_<<sem.count, SemQueue>>
<1>1. CASE w2 = w /\ sem'.count = sem.count
  BY <1>1
<1>2. CASE w2 = w /\ sem.count > 0 /\ sem'.count = sem.count - 1
  <2>1. Abstract!Take
    BY <1>2 DEF Abstract!Take
  <2> QED
    BY <2>1 DEF Abstract!Next
<1>3. CASE /\ sem.count = 0 /\ sem'.count = sem.count
           /\ \E t \in Threads : ~InQueue(t, w) /\ w2 = Append(w, t)
  <2>1. PICK t \in Threads : ~InQueue(t, w) /\ w2 = Append(w, t)
    BY <1>3
  <2>2. \A i \in 1..Len(w) : w[i] # t
    BY <2>1 DEF InQueue
  <2>3. Abstract!Join(t)
    BY <1>3, <2>1, <2>2 DEF Abstract!Join
  <2> QED
    BY <2>3 DEF Abstract!Next
<1>4. CASE w2 = w /\ w = <<>> /\ sem'.count = sem.count + 1
  <2>1. Abstract!Store
    BY <1>4 DEF Abstract!Store
  <2> QED
    BY <2>1 DEF Abstract!Next
<1>5. CASE w # <<>> /\ w2 = Tail(w) /\ sem'.count = sem.count
  <2>1. Abstract!HandOver
    BY <1>5 DEF Abstract!HandOver
  <2> QED
    BY <2>1 DEF Abstract!Next
<1> QED
  BY <1>1, <1>2, <1>3, <1>4, <1>5 DEF AStep

\* On ARM semaphore.c implements a counting semaphore that serves its waiters in
\* the order they came, for any number of threads: the queue linked through the
\* thread control blocks is the line of waiting threads, and every statement of
\* semaphore_wait and semaphore_signal is a step of it or changes nothing.
THEOREM ImplementsCounting ==
  ASSUME ~Preemptible
  PROVE  Spec => RefinesCounting
<1>1. Init => IInv
  BY InitIInv
<1>2. IInv /\ [Next]_vars => IInv'
  BY StepIInv
<1>3. Init => Abstract!Init
  <2> SUFFICES ASSUME Init PROVE Abstract!Init
    OBVIOUS
  <2>1. sch.next \in [Threads -> Pointer] /\ sem.queue = NULL /\ sem.count = InitCount
    BY DEF Init, BootSched, Pointer
  <2>2. Linked(sch.next, sem.queue, <<>>) /\ <<>> \in Seq(Threads)
    BY <2>1, EmptySeq DEF Linked
  <2>3. SemQueue = <<>>
    BY <2>1, <2>2, ChainLemma DEF SemQueue
  <2> QED
    BY <2>1, <2>3 DEF Abstract!Init
<1>4. IInv /\ [Next]_vars => [Abstract!Next]_<<sem.count, SemQueue>>
  <2> SUFFICES ASSUME IInv, [Next]_vars PROVE [Abstract!Next]_<<sem.count, SemQueue>>
    OBVIOUS
  <2>1. PICK w, r \in Seq(Threads) : GInv(w, r)
    BY DEF IInv
  <2>2. PICK w2, r2 \in Seq(Threads) : GInv(w2, r2)' /\ AStep(w, w2)
    BY <2>1, StepLemma DEF Becomes
  <2>3. SemQueue = w
    BY <2>1, ListsFound
  <2>4. SemQueue' = w2
    <3>1. sch'.next \in [Threads -> Pointer] /\ Linked(sch'.next, sem'.queue, w2)
      BY <2>2 DEF GInv, Types, Sched, Lists
    <3>2. ChainSeq(sch'.next, sem'.queue) = w2
      BY <3>1, ChainLemma
    <3> QED
      BY <3>2 DEF SemQueue
  <2> QED
    BY <2>2, <2>3, <2>4, AbstractStep
<1> QED
  BY <1>1, <1>2, <1>3, <1>4, PTL DEF Spec, RefinesCounting, Abstract!Spec, Abstract!vars
=============================================================================
