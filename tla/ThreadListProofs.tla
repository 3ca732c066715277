-------------------------- MODULE ThreadListProofs --------------------------
(***************************************************************************)
(* Facts about lists of threads linked through thread->next, for any set   *)
(* of threads: what the operations of the scheduler do to the run queue    *)
(* and leave alone elsewhere, and what a walk along the pointers finds.    *)
(***************************************************************************)
EXTENDS ThreadList, SequenceTheorems, FiniteSetTheorems, TLAPS

\* scheduler_enqueue_thread appends a thread that is in no queue: the
\* pointers then describe the longer list and nothing else has changed.
LEMMA EnqueueLemma ==
  ASSUME NEW s \in Sched, NEW q \in Seq(Threads), NEW t \in Threads,
         IsRunQueue(s, q), ~InQueue(t, q),
         NEW r, r = scheduler_enqueue_thread(s, t)
  PROVE  /\ r \in Sched
         /\ Append(q, t) \in Seq(Threads)
         /\ IsRunQueue(r, Append(q, t))
         /\ r.state = s.state
         /\ r.current = s.current
         /\ \A u \in Threads : ~InQueue(u, q) /\ u # t => r.next[u] = s.next[u]
<1> DEFINE p == Append(q, t)
<1>1. /\ p \in Seq(Threads) /\ p # <<>> /\ Len(p) = Len(q) + 1
      /\ p[Len(q) + 1] = t
      /\ \A i \in 1..Len(q) : p[i] = q[i]
  BY AppendProperties
<1>2. Len(q) \in Nat /\ (q = <<>> <=> Len(q) = 0) /\ \A i \in 1..Len(q) : q[i] \in Threads
  BY LenProperties, EmptySeq, ElementOfSeq
<1>3. r \in Sched /\ r.state = s.state /\ r.current = s.current
  BY DEF scheduler_enqueue_thread, Sched, Pointer
<1>4. r.tail = t /\ r.head = IF q = <<>> THEN t ELSE q[1]
  BY <1>2, NullAssumption DEF scheduler_enqueue_thread, Sched, IsRunQueue
<1>5. ASSUME NEW i \in 1..Len(p)
      PROVE  r.next[p[i]] = IF i = Len(p) THEN NULL ELSE p[i + 1]
  <2>1. CASE i = Len(p)
    <3>1. s.tail # t
      BY <1>2, NullAssumption DEF IsRunQueue, InQueue
    <3> QED
      BY <1>1, <1>2, <2>1, <3>1 DEF scheduler_enqueue_thread, Sched, Pointer
  <2>2. CASE i = Len(q)
    <3>1. s.tail = q[i] /\ s.tail \in Threads
      BY <1>2, <2>2 DEF IsRunQueue
    <3> QED
      BY <1>1, <1>2, <2>2, <3>1, NullAssumption
      DEF scheduler_enqueue_thread, Sched, Pointer
  <2>3. CASE i \in 1..(Len(q) - 1)
    <3>1. q[i] # s.tail /\ q[i] # t /\ s.next[q[i]] = q[i + 1]
      BY <1>2, <2>3 DEF IsRunQueue, InQueue
    <3> QED
      BY <1>1, <1>2, <2>3, <3>1 DEF scheduler_enqueue_thread, Sched, Pointer
  <2> QED
    BY <1>1, <1>2, <2>1, <2>2, <2>3
<1>6. ASSUME NEW i \in 1..Len(p), NEW j \in 1..Len(p), p[i] = p[j]
      PROVE  i = j
  <2>1. \A k \in 1..Len(q) : p[k] # t
    BY <1>1 DEF InQueue
  <2>2. CASE i \in 1..Len(q) /\ j \in 1..Len(q)
    BY <1>1, <1>6, <2>2 DEF IsRunQueue
  <2>3. CASE i = Len(q) + 1 \/ j = Len(q) + 1
    BY <1>1, <1>2, <1>6, <2>1, <2>3
  <2> QED
    BY <1>1, <1>2, <2>2, <2>3
<1>7. r.head = IF p = <<>> THEN NULL ELSE p[1]
  BY <1>1, <1>2, <1>4
<1>8. r.tail = IF p = <<>> THEN NULL ELSE p[Len(p)]
  BY <1>1, <1>4
<1> HIDE DEF p
<1>9. IsRunQueue(r, p)
  BY <1>5, <1>6, <1>7, <1>8 DEF IsRunQueue
<1>10. ASSUME NEW u \in Threads, ~InQueue(u, q), u # t PROVE r.next[u] = s.next[u]
  <2>1. u # s.tail
    BY <1>2, <1>10, NullAssumption DEF IsRunQueue, InQueue
  <2> QED
    BY <1>10, <2>1 DEF scheduler_enqueue_thread, Sched, Pointer
<1> QED
  BY <1>1, <1>3, <1>9, <1>10 DEF p

\* scheduler_dequeue_thread removes the first thread and keeps the others in
\* order; the head pointer it returned was that first thread.
LEMMA DequeueLemma ==
  ASSUME NEW s \in Sched, NEW q \in Seq(Threads), IsRunQueue(s, q),
         NEW r, r = scheduler_dequeue_thread(s)
  PROVE  /\ r \in Sched
         /\ Rest(q) \in Seq(Threads)
         /\ IsRunQueue(r, Rest(q))
         /\ r.state = s.state
         /\ r.current = s.current
         /\ r.next = s.next
         /\ s.head = IF q = <<>> THEN NULL ELSE Head(q)
<1>1. Len(q) \in Nat /\ (q = <<>> <=> Len(q) = 0) /\ \A i \in 1..Len(q) : q[i] \in Threads
  BY LenProperties, EmptySeq, ElementOfSeq
<1>2. CASE q = <<>>
  BY <1>2 DEF scheduler_dequeue_thread, IsRunQueue, Rest
<1>3. CASE q # <<>>
  <2>1. /\ Rest(q) \in Seq(Threads) /\ Len(Rest(q)) = Len(q) - 1
        /\ \A i \in 1..Len(Rest(q)) : Rest(q)[i] = q[i + 1]
        /\ Head(q) = q[1]
    BY <1>3, HeadTailProperties DEF Rest
  <2>2. Rest(q) = <<>> <=> Len(q) = 1
    BY <1>1, <1>3, <2>1, EmptySeq
  <2>3. s.head = q[1] /\ s.head \in Threads /\ s.head # NULL
    BY <1>1, <1>3, NullAssumption DEF IsRunQueue
  <2>4. s.next[q[1]] = IF 1 = Len(q) THEN NULL ELSE q[1 + 1]
    <3>1. 1 \in 1..Len(q)
      BY <1>1, <1>3
    <3> QED
      BY <3>1 DEF IsRunQueue
  <2>5. /\ r \in Sched /\ r.state = s.state /\ r.current = s.current
        /\ r.next = s.next /\ r.head = s.next[s.head]
        /\ r.tail = IF s.next[s.head] = NULL THEN NULL ELSE s.tail
    BY <2>3 DEF scheduler_dequeue_thread, Sched, Pointer
  <2>6. s.next[s.head] = NULL <=> Len(q) = 1
    <3>1. CASE Len(q) = 1
      BY <2>3, <2>4, <3>1
    <3>2. CASE Len(q) # 1
      <4>1. Len(q) \in Nat /\ Len(q) # 0
        BY <1>1, <1>3
      <4>2. 1 + 1 \in 1..Len(q)
        <5>1. \A n \in Nat : n # 0 /\ n # 1 => 1 + 1 \in 1..n
          OBVIOUS
        <5> QED
          BY <3>2, <4>1, <5>1
      <4>3. q[1 + 1] \in Threads
        BY <1>1, <4>2
      <4> QED
        BY <2>3, <2>4, <3>2, <4>3, NullAssumption
    <3> QED
      BY <3>1, <3>2
  <2>7. r.head = IF Rest(q) = <<>> THEN NULL ELSE Rest(q)[1]
    BY <1>1, <1>3, <2>1, <2>2, <2>3, <2>4, <2>5
  <2>8. r.tail = IF Rest(q) = <<>> THEN NULL ELSE Rest(q)[Len(Rest(q))]
    BY <1>1, <1>3, <2>1, <2>2, <2>5, <2>6 DEF IsRunQueue
  <2>9. \A i \in 1..Len(Rest(q)) :
           r.next[Rest(q)[i]] = IF i = Len(Rest(q)) THEN NULL ELSE Rest(q)[i + 1]
    <3> SUFFICES ASSUME NEW i \in 1..Len(Rest(q))
                 PROVE  r.next[Rest(q)[i]]
                          = IF i = Len(Rest(q)) THEN NULL ELSE Rest(q)[i + 1]
      OBVIOUS
    <3>1. i + 1 \in 1..Len(q) /\ (i = Len(Rest(q)) <=> i + 1 = Len(q))
      BY <1>1, <2>1
    <3>2. s.next[q[i + 1]] = IF i + 1 = Len(q) THEN NULL ELSE q[i + 1 + 1]
      BY <3>1 DEF IsRunQueue
    <3>3. i # Len(Rest(q)) => i + 1 \in 1..Len(Rest(q))
      BY <1>1, <2>1
    <3> QED
      BY <2>1, <2>5, <3>1, <3>2, <3>3
  <2>10. \A i, j \in 1..Len(Rest(q)) : Rest(q)[i] = Rest(q)[j] => i = j
    BY <1>1, <2>1 DEF IsRunQueue
  <2> QED
    BY <1>3, <2>1, <2>3, <2>5, <2>7, <2>8, <2>9, <2>10 DEF IsRunQueue
<1> QED
  BY <1>2, <1>3

\* The members of a queue after an append.
LEMMA AppendMembers ==
  ASSUME NEW q \in Seq(Threads), NEW t \in Threads, NEW u
  PROVE  InQueue(u, Append(q, t)) <=> InQueue(u, q) \/ u = t
<1> DEFINE p == Append(q, t)
<1>1. /\ Len(p) = Len(q) + 1 /\ p[Len(q) + 1] = t /\ Len(q) \in Nat
      /\ \A i \in 1..Len(q) : p[i] = q[i]
  BY AppendProperties, LenProperties
<1>2. Len(q) + 1 \in 1..Len(p) /\ \A i \in 1..Len(q) : i \in 1..Len(p)
  BY <1>1
<1>3. \A i \in 1..Len(p) : i \in 1..Len(q) \/ i = Len(q) + 1
  BY <1>1
<1> QED
  BY <1>1, <1>2, <1>3 DEF InQueue

\* The members of a queue without repetition after its first has left.
LEMMA RestMembers ==
  ASSUME NEW q \in Seq(Threads), q # <<>>, NEW u,
         \A i, j \in 1..Len(q) : q[i] = q[j] => i = j
  PROVE  /\ Head(q) \in Threads
         /\ InQueue(Head(q), q)
         /\ InQueue(u, Rest(q)) <=> InQueue(u, q) /\ u # Head(q)
<1>1. /\ Len(Rest(q)) = Len(q) - 1 /\ Head(q) = q[1] /\ Head(q) \in Threads
      /\ \A i \in 1..Len(Rest(q)) : Rest(q)[i] = q[i + 1]
  BY HeadTailProperties DEF Rest
<1>2. Len(q) \in Nat /\ Len(q) # 0
  BY LenProperties, EmptySeq
<1>3. 1 \in 1..Len(q)
  BY <1>2
<1>4. ASSUME InQueue(u, Rest(q)) PROVE InQueue(u, q) /\ u # Head(q)
  <2>1. PICK i \in 1..Len(Rest(q)) : Rest(q)[i] = u
    BY <1>4 DEF InQueue
  <2>2. i + 1 \in 1..Len(q) /\ i + 1 # 1 /\ q[i + 1] = u
    BY <1>1, <1>2, <2>1
  <2> QED
    BY <1>1, <1>3, <2>2 DEF InQueue
<1>5. ASSUME InQueue(u, q), u # Head(q) PROVE InQueue(u, Rest(q))
  <2>1. PICK i \in 1..Len(q) : q[i] = u
    BY <1>5 DEF InQueue
  <2>2. i # 1
    BY <1>1, <1>5, <2>1
  <2>3. i - 1 \in 1..Len(Rest(q)) /\ (i - 1) + 1 = i
    BY <1>1, <1>2, <2>2
  <2>4. Rest(q)[i - 1] = u
    BY <1>1, <2>1, <2>3
  <2> QED
    BY <2>3, <2>4 DEF InQueue
<1> QED
  BY <1>1, <1>3, <1>4, <1>5 DEF InQueue

\* The queue from which scheduler_schedule takes the next thread.
Offered(s, q) ==
  IF s.current # NULL /\ s.state[s.current] = "READY" THEN Append(q, s.current) ELSE q

\* scheduler_schedule runs the first thread of the queue, after the thread that
\* gives up the CPU has been appended unless it may not run, and changes no
\* link field of a thread outside the queue.
LEMMA SwitchLemma ==
  ASSUME NEW s \in Sched, NEW q \in Seq(Threads), IsRunQueue(s, q),
         s.current # NULL /\ s.state[s.current] = "READY" => ~InQueue(s.current, q),
         NEW r, r = scheduler_schedule(s), NEW p, p = Offered(s, q)
  PROVE  /\ r \in Sched
         /\ p \in Seq(Threads)
         /\ \A i, j \in 1..Len(p) : p[i] = p[j] => i = j
         /\ Rest(p) \in Seq(Threads)
         /\ IsRunQueue(r, Rest(p))
         /\ r.state = s.state
         /\ r.current = IF p = <<>> THEN NULL ELSE Head(p)
         /\ \A u \in Threads : ~InQueue(u, p) => r.next[u] = s.next[u]
<1> DEFINE saved == IF s.current # NULL /\ s.state[s.current] = "READY"
                    THEN scheduler_enqueue_thread(s, s.current)
                    ELSE s
           deq == scheduler_dequeue_thread(saved)
<1>1. /\ saved \in Sched /\ p \in Seq(Threads) /\ IsRunQueue(saved, p)
      /\ saved.state = s.state
      /\ \A u \in Threads : ~InQueue(u, p) => saved.next[u] = s.next[u]
  <2>1. CASE s.current # NULL /\ s.state[s.current] = "READY"
    <3>1. s.current \in Threads /\ ~InQueue(s.current, q)
      BY <2>1 DEF Sched, Pointer
    <3>2. p = Append(q, s.current) /\ saved = scheduler_enqueue_thread(s, s.current)
      BY <2>1 DEF Offered
    <3> HIDE DEF saved
    <3>3. /\ saved \in Sched /\ p \in Seq(Threads) /\ IsRunQueue(saved, p)
          /\ saved.state = s.state
          /\ \A u \in Threads : ~InQueue(u, q) /\ u # s.current => saved.next[u] = s.next[u]
      BY <3>1, <3>2, EnqueueLemma
    <3>4. \A u : InQueue(u, p) <=> InQueue(u, q) \/ u = s.current
      BY <3>1, <3>2, AppendMembers
    <3> QED
      BY <3>3, <3>4
  <2>2. CASE ~(s.current # NULL /\ s.state[s.current] = "READY")
    BY <2>2 DEF Offered
  <2> QED
    BY <2>1, <2>2
<1>2. r = [deq EXCEPT !.current = saved.head]
  BY DEF scheduler_schedule
<1> HIDE DEF saved, deq
<1>3. /\ deq \in Sched /\ Rest(p) \in Seq(Threads) /\ IsRunQueue(deq, Rest(p))
      /\ deq.state = s.state /\ deq.next = saved.next
      /\ saved.head = IF p = <<>> THEN NULL ELSE Head(p)
  BY <1>1, DequeueLemma DEF deq
<1>4. /\ r \in Sched /\ r.state = s.state /\ r.current = saved.head
      /\ r.head = deq.head /\ r.tail = deq.tail /\ r.next = deq.next
  BY <1>1, <1>2, <1>3 DEF Sched
<1>5. IsRunQueue(r, Rest(p)) /\ \A i, j \in 1..Len(p) : p[i] = p[j] => i = j
  BY <1>1, <1>3, <1>4 DEF IsRunQueue
<1> QED
  BY <1>1, <1>3, <1>4, <1>5

-----------------------------------------------------------------------------
(* Walks along the pointers *)

\* The chain from p through next is the sequence q, each thread once.
Linked(next, p, q) ==
  /\ p = IF q = <<>> THEN NULL ELSE q[1]
  /\ \A i \in 1..Len(q) : next[q[i]] = IF i = Len(q) THEN NULL ELSE q[i + 1]
  /\ \A i, j \in 1..Len(q) : q[i] = q[j] => i = j

\* The run queue is such a chain.
LEMMA RunQueueLinked ==
  ASSUME NEW s, NEW q, IsRunQueue(s, q)
  PROVE  Linked(s.next, s.head, q)
  BY DEF IsRunQueue, Linked

\* A non-empty set of naturals has a smallest element.
LEMMA SmallestExists ==
  ASSUME NEW S \in SUBSET Nat, S # {}
  PROVE  \E m \in S : \A k \in S : m <= k
<1> DEFINE R == OpToRel(<, Nat)
<1>1. IsWellFoundedOn(R, Nat)
  BY NatLessThanWellFounded
<1>2. \A x, y \in Nat : <<x, y>> \in R <=> x < y
  BY DEF OpToRel
<1> HIDE DEF R
<1>3. PICK m \in S : \A k \in S : ~(<<k, m>> \in R)
  BY <1>1, WFMin
<1>4. ASSUME NEW k \in S PROVE m <= k
  <2>1. m \in Nat /\ k \in Nat /\ ~(k < m)
    BY <1>2, <1>3
  <2> QED
    BY <2>1
<1> QED
  BY <1>4

\* There are n numbers from 1 to n.
LEMMA IntervalSize ==
  ASSUME NEW n \in Nat
  PROVE  IsFiniteSet(1..n) /\ Cardinality(1..n) = n
<1>1. 1 \in Int /\ n \in Int
  OBVIOUS
<1>2. IsFiniteSet(1..n) /\ Cardinality(1..n) = IF 1 > n THEN 0 ELSE n - 1 + 1
  BY <1>1, FS_Interval, Zenon
<1> QED
  BY <1>2

\* No sequence without repetition is longer than the number of threads.
LEMMA LinkedLength ==
  ASSUME NEW q \in Seq(Threads), \A i, j \in 1..Len(q) : q[i] = q[j] => i = j
  PROVE  /\ Len(q) \in Nat /\ Cardinality(Threads) \in Nat
         /\ Len(q) <= Cardinality(Threads)
<1>1. Len(q) \in Nat /\ Cardinality(Threads) \in Nat
  BY LenProperties, FS_CardinalityType, ThreadsAssumption
<1>2. IsFiniteSet(1..Len(q)) /\ Cardinality(1..Len(q)) = Len(q)
  BY <1>1, IntervalSize
<1>3. q \in [1..Len(q) -> Threads]
  BY LenProperties
<1>4. ASSUME Cardinality(Threads) < Len(q) PROVE FALSE
  BY <1>2, <1>3, <1>4, FS_PigeonHole, ThreadsAssumption
<1> QED
  BY <1>1, <1>4

\* n steps along the pointers lead to thread n + 1 of the sequence, and past its
\* end to the null pointer: Hop is what its recursive definition says.
LEMMA HopLemma ==
  ASSUME NEW next \in [Threads -> Pointer], NEW p, NEW q \in Seq(Threads), Linked(next, p, q)
  PROVE  Hop(next, p) = [n \in 0..Cardinality(Threads) |->
                           IF n < Len(q) THEN q[n + 1] ELSE NULL]
<1> DEFINE N == Cardinality(Threads)
           f == [n \in 0..N |-> IF n < Len(q) THEN q[n + 1] ELSE NULL]
           Step(g) == [n \in 0..N |-> IF n = 0 THEN p
                         ELSE IF g[n - 1] = NULL THEN NULL ELSE next[g[n - 1]]]
<1>1. N \in Nat /\ Len(q) \in Nat /\ Len(q) <= N /\ (q = <<>> <=> Len(q) = 0)
  BY LinkedLength, EmptySeq, LenProperties DEF Linked
<1>2. \A i \in 1..Len(q) : q[i] \in Threads /\ q[i] # NULL
  BY ElementOfSeq, NullAssumption
<1> HIDE DEF N
<1>3. f = Step(f)
  <2>1. ASSUME NEW n \in 0..N PROVE f[n] = Step(f)[n]
    <3>1. CASE n = 0
      BY <1>1, <3>1 DEF Linked
    <3>2. CASE n # 0
      <4>1. n - 1 \in 0..N /\ n \in 1..N /\ (n - 1) + 1 = n
        BY <1>1, <3>2
      <4>2. f[n - 1] = IF n - 1 < Len(q) THEN q[n] ELSE NULL
        BY <4>1
      <4>3. CASE n - 1 < Len(q)
        <5>1. n \in 1..Len(q) /\ (n = Len(q) <=> ~(n < Len(q)))
          BY <1>1, <4>1, <4>3
        <5>2. next[q[n]] = IF n = Len(q) THEN NULL ELSE q[n + 1]
          BY <5>1 DEF Linked
        <5> QED
          BY <1>2, <3>2, <4>2, <4>3, <5>1, <5>2
      <4>4. CASE ~(n - 1 < Len(q))
        <5>1. ~(n < Len(q))
          BY <1>1, <4>1, <4>4
        <5> QED
          BY <3>2, <4>2, <4>4, <5>1
      <4> QED
        BY <4>3, <4>4
    <3> QED
      BY <3>1, <3>2
  <2> QED
    BY <2>1
<1>4. ASSUME NEW g, g = Step(g) PROVE g = f
  <2> DEFINE Bad == {n \in 0..N : g[n] # f[n]}
  <2>1. ASSUME Bad # {} PROVE FALSE
    <3>1. PICK m \in Bad : \A k \in Bad : m <= k
      <4>1. Bad \in SUBSET Nat
        BY <1>1
      <4> QED
        BY <2>1, <4>1, SmallestExists
    <3>2. CASE m = 0
      <4>1. Step(g)[0] = p /\ Step(f)[0] = p
        BY <1>1
      <4>2. g[0] = f[0]
        BY <1>3, <1>4, <4>1, Zenon
      <4> QED
        BY <3>1, <3>2, <4>2
    <3>3. CASE m # 0
      <4>1. m \in 0..N /\ m - 1 \in 0..N /\ ~(m <= m - 1)
        BY <1>1, <3>3
      <4>2. g[m - 1] = f[m - 1]
        BY <3>1, <4>1
      <4>3. Step(g)[m] = Step(f)[m]
        BY <4>1, <4>2
      <4>4. g[m] = f[m]
        BY <1>3, <1>4, <4>3, Zenon
      <4> QED
        BY <3>1, <4>4
    <3> QED
      BY <3>2, <3>3
  <2>2. \A n \in 0..N : g[n] = f[n]
    BY <2>1
  <2>3. g = [n \in 0..N |-> g[n]]
    BY <1>4
  <2> QED
    BY <2>2, <2>3
<1>5. Hop(next, p) = CHOOSE g : g = Step(g)
  BY DEF Hop, N
<1> HIDE DEF Step, f
<1>6. Hop(next, p) = f
  BY <1>3, <1>4, <1>5
<1> QED
  BY <1>6 DEF f, N

\* Following the pointers of a linked list comes to an end, meets exactly its
\* threads in their order, and finds its last thread.
LEMMA ChainLemma ==
  ASSUME NEW next \in [Threads -> Pointer], NEW p, NEW q \in Seq(Threads), Linked(next, p, q)
  PROVE  /\ Ends(next, p)
         /\ \A u : u \in Chain(next, p) <=> InQueue(u, q)
         /\ ChainSeq(next, p) = q
         /\ q # <<>> => LastOf(next, p) = q[Len(q)]
<1> DEFINE N == Cardinality(Threads)
           h == Hop(next, p)
<1>1. N \in Nat /\ Len(q) \in Nat /\ Len(q) <= N /\ (q = <<>> <=> Len(q) = 0)
  BY LinkedLength, EmptySeq, LenProperties DEF Linked
<1>2. \A i \in 1..Len(q) : q[i] \in Threads /\ q[i] # NULL
  BY ElementOfSeq, NullAssumption
<1>3. h = [n \in 0..N |-> IF n < Len(q) THEN q[n + 1] ELSE NULL]
  BY HopLemma
<1>4. Ends(next, p) <=> h[N] = NULL
  BY DEF Ends
<1>5. Chain(next, p) = {h[n] : n \in 0..N} \ {NULL}
  BY DEF Chain
<1> HIDE DEF N, h
<1>6. Ends(next, p)
  BY <1>1, <1>3, <1>4
<1>7. ASSUME NEW u PROVE u \in Chain(next, p) <=> InQueue(u, q)
  <2>1. ASSUME u \in Chain(next, p) PROVE InQueue(u, q)
    <3>1. PICK n \in 0..N : u = h[n] /\ h[n] # NULL
      BY <1>5, <2>1
    <3>2. n < Len(q) /\ u = q[n + 1]
      BY <1>3, <3>1
    <3>3. n + 1 \in 1..Len(q)
      BY <1>1, <3>2
    <3> QED
      BY <3>2, <3>3 DEF InQueue
  <2>2. ASSUME InQueue(u, q) PROVE u \in Chain(next, p)
    <3>1. PICK i \in 1..Len(q) : q[i] = u
      BY <2>2 DEF InQueue
    <3>2. i - 1 \in 0..N /\ i - 1 < Len(q) /\ (i - 1) + 1 = i
      BY <1>1
    <3>3. h[i - 1] = u /\ u # NULL
      BY <1>2, <1>3, <3>1, <3>2
    <3> QED
      BY <1>5, <3>2, <3>3
  <2> QED
    BY <2>1, <2>2
<1>8. Cardinality(Chain(next, p)) = Len(q)
  <2> DEFINE C == Chain(next, p)
  <2>1. q \in [1..Len(q) -> C] /\ \A u \in C : \E i \in 1..Len(q) : q[i] = u
    <3>1. q \in [1..Len(q) -> Threads]
      BY LenProperties
    <3> QED
      BY <1>7, <3>1 DEF InQueue
  <2> HIDE DEF C
  <2>2. q \in Bijection(1..Len(q), C)
    BY <2>1 DEF Linked, Bijection, Injection, Surjection, IsInjective
  <2>3. IsFiniteSet(1..Len(q)) /\ Cardinality(1..Len(q)) = Len(q)
    BY <1>1, IntervalSize
  <2>4. Cardinality(C) = Cardinality(1..Len(q))
    BY <2>2, <2>3, FS_Bijection DEF ExistsBijection
  <2> QED
    BY <2>3, <2>4 DEF C
<1>9. ChainSeq(next, p) = q
  <2>1. ChainSeq(next, p) = [i \in 1..Len(q) |-> h[i - 1]]
    BY <1>8 DEF ChainSeq, h
  <2>2. \A i \in 1..Len(q) : h[i - 1] = q[i]
    BY <1>1, <1>3
  <2>3. q = [i \in 1..Len(q) |-> q[i]]
    BY LenProperties
  <2> QED
    BY <2>1, <2>2, <2>3
<1>10. ASSUME q # <<>> PROVE LastOf(next, p) = q[Len(q)]
  <2> DEFINE e == q[Len(q)]
  <2>1. Len(q) \in 1..Len(q)
    BY <1>1, <1>10
  <2>2. e \in Chain(next, p) /\ next[e] = NULL
    BY <1>7, <2>1 DEF InQueue, Linked
  <2>3. ASSUME NEW t \in Chain(next, p), next[t] = NULL PROVE t = e
    <3>1. PICK i \in 1..Len(q) : q[i] = t
      BY <1>7 DEF InQueue
    <3>2. next[q[i]] = IF i = Len(q) THEN NULL ELSE q[i + 1]
      BY DEF Linked
    <3>3. CASE i # Len(q)
      <4>1. i + 1 \in 1..Len(q)
        BY <1>1, <3>3
      <4> QED
        BY <1>2, <2>3, <3>1, <3>2, <3>3, <4>1
    <3> QED
      BY <3>1, <3>3
  <2> HIDE DEF e
  <2>4. LastOf(next, p) = e
    BY <2>2, <2>3 DEF LastOf
  <2> QED
    BY <2>4 DEF e
<1> QED
  BY <1>6, <1>7, <1>9, <1>10

\* Writing the link field of a thread outside a list leaves the list alone.
LEMMA LinkedFrame ==
  ASSUME NEW next, NEW next2, NEW p, NEW q \in Seq(Threads), Linked(next, p, q),
         \A u \in Threads : InQueue(u, q) => next2[u] = next[u]
  PROVE  Linked(next2, p, q)
<1>1. \A i \in 1..Len(q) : q[i] \in Threads /\ InQueue(q[i], q)
  BY ElementOfSeq DEF InQueue
<1> QED
  BY <1>1 DEF Linked

\* semaphore_wait: linking a thread whose own link field is null behind the last
\* one appends it.
LEMMA LinkedAppend ==
  ASSUME NEW next \in [Threads -> Pointer], NEW p, NEW q \in Seq(Threads), Linked(next, p, q),
         NEW t \in Threads, ~InQueue(t, q), next[t] = NULL, q # <<>>
  PROVE  Linked([next EXCEPT ![q[Len(q)]] = t], p, Append(q, t))
<1> DEFINE r == Append(q, t)
           n2 == [next EXCEPT ![q[Len(q)]] = t]
<1>1. /\ r \in Seq(Threads) /\ r # <<>> /\ Len(r) = Len(q) + 1 /\ r[Len(q) + 1] = t
      /\ \A i \in 1..Len(q) : r[i] = q[i]
  BY AppendProperties
<1>2. Len(q) \in Nat /\ Len(q) # 0 /\ \A i \in 1..Len(q) : q[i] \in Threads /\ q[i] # t
  BY LenProperties, EmptySeq, ElementOfSeq DEF InQueue
<1>3. 1 \in 1..Len(q) /\ Len(q) \in 1..Len(q)
  BY <1>2
<1>4. ASSUME NEW i \in 1..Len(r) PROVE n2[r[i]] = IF i = Len(r) THEN NULL ELSE r[i + 1]
  <2>1. CASE i = Len(r)
    BY <1>1, <1>2, <1>3, <2>1
  <2>2. CASE i = Len(q)
    BY <1>1, <1>2, <1>3, <2>2
  <2>3. CASE i \in 1..(Len(q) - 1)
    <3>1. i \in 1..Len(q) /\ i # Len(q) /\ i + 1 \in 1..Len(q)
      BY <1>2, <2>3
    <3>2. q[i] # q[Len(q)] /\ next[q[i]] = q[i + 1]
      BY <1>3, <3>1 DEF Linked
    <3> QED
      BY <1>1, <1>2, <2>3, <3>1, <3>2
  <2> QED
    BY <1>1, <1>2, <2>1, <2>2, <2>3
<1>5. ASSUME NEW i \in 1..Len(r), NEW j \in 1..Len(r), r[i] = r[j] PROVE i = j
  <2>1. CASE i \in 1..Len(q) /\ j \in 1..Len(q)
    BY <1>1, <1>5, <2>1 DEF Linked
  <2>2. CASE i = Len(q) + 1 \/ j = Len(q) + 1
    BY <1>1, <1>2, <1>5, <2>2
  <2> QED
    BY <1>1, <1>2, <2>1, <2>2
<1>6. p = r[1]
  BY <1>1, <1>3 DEF Linked
<1> HIDE DEF r, n2
<1>7. Linked(n2, p, r)
  BY <1>1, <1>4, <1>5, <1>6 DEF Linked
<1> QED
  BY <1>7 DEF r, n2

\* semaphore_signal: moving the queue pointer on to the second thread takes the
\* first one off.
LEMMA LinkedTail ==
  ASSUME NEW next, NEW p, NEW q \in Seq(Threads), Linked(next, p, q), q # <<>>
  PROVE  Linked(next, next[p], Tail(q))
<1> DEFINE r == Tail(q)
<1>1. /\ r \in Seq(Threads) /\ Len(r) = Len(q) - 1
      /\ \A i \in 1..Len(r) : r[i] = q[i + 1]
  BY HeadTailProperties
<1>2. Len(q) \in Nat /\ Len(q) # 0 /\ (r = <<>> <=> Len(r) = 0)
  BY <1>1, LenProperties, EmptySeq
<1>3. 1 \in 1..Len(q) /\ p = q[1] /\ next[q[1]] = IF 1 = Len(q) THEN NULL ELSE q[1 + 1]
  BY <1>2 DEF Linked
<1> HIDE DEF r
<1>4. next[p] = IF r = <<>> THEN NULL ELSE r[1]
  BY <1>1, <1>2, <1>3
<1>5. ASSUME NEW i \in 1..Len(r) PROVE next[r[i]] = IF i = Len(r) THEN NULL ELSE r[i + 1]
  <2>1. i + 1 \in 1..Len(q) /\ (i = Len(r) <=> i + 1 = Len(q))
    BY <1>1, <1>2
  <2>2. next[q[i + 1]] = IF i + 1 = Len(q) THEN NULL ELSE q[i + 1 + 1]
    BY <2>1 DEF Linked
  <2>3. i # Len(r) => i + 1 \in 1..Len(r)
    BY <1>1, <1>2
  <2> QED
    BY <1>1, <2>1, <2>2, <2>3
<1>6. \A i, j \in 1..Len(r) : r[i] = r[j] => i = j
  BY <1>1, <1>2 DEF Linked
<1> QED
  BY <1>4, <1>5, <1>6 DEF Linked, r

\* The run queue is a matter of its two pointers and of the link fields of its
\* threads.
LEMMA RunQueueFrame ==
  ASSUME NEW s, NEW s2, NEW q \in Seq(Threads), IsRunQueue(s, q),
         s2.head = s.head, s2.tail = s.tail,
         \A u \in Threads : InQueue(u, q) => s2.next[u] = s.next[u]
  PROVE  IsRunQueue(s2, q)
<1>1. \A i \in 1..Len(q) : q[i] \in Threads /\ InQueue(q[i], q)
  BY ElementOfSeq DEF InQueue
<1> QED
  BY <1>1 DEF IsRunQueue

=============================================================================
