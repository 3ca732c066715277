---------------------------- MODULE MemoryProofs ----------------------------
(***************************************************************************)
(* Proofs about the frame allocator, for any size of the bitmap, and about *)
(* the address spaces of the ARM kernel on top of it, for any size of the  *)
(* tables and of the heap and any number of processes, where system calls  *)
(* are not preemptible.                                                    *)
(***************************************************************************)
EXTENDS ArmPaging, FiniteSetTheorems, WellFoundedInduction, TLAPS

-----------------------------------------------------------------------------
(* The frame allocator *)

\* A non-empty set of naturals has a lowest element, the one the scan of the
\* bitmap stops at.
LEMMA LowestExists ==
  ASSUME NEW S \in SUBSET Nat, S # {}
  PROVE  Lowest(S) \in S
<1> DEFINE R == OpToRel(<, Nat)
<1>1. IsWellFoundedOn(R, Nat)
  BY NatLessThanWellFounded
<1>2. \A x, y \in Nat : <<x, y>> \in R <=> x < y
  BY DEF OpToRel
<1> HIDE DEF R
<1>3. PICK x \in S : \A y \in S : ~(<<y, x>> \in R)
  BY <1>1, WFMin
<1>4. ASSUME NEW y \in S PROVE x <= y
  <2>1. x \in Nat /\ y \in Nat
    OBVIOUS
  <2>2. ~(y < x)
    BY <1>2, <1>3, <2>1
  <2> QED
    BY <2>1, <2>2
<1> QED
  BY <1>4 DEF Lowest

-----------------------------------------------------------------------------

\* Where system calls run to completion a frame that memory_alloc has found is
\* still free when its bit is cleared, and only one caller is at that point.
IInv ==
  /\ TypeOK
  /\ NoSharedFrame
  /\ FramesConserved
  /\ FoundIsFree
  /\ \A t, u \in Threads : found[t] # NoFrame /\ found[u] # NoFrame => t = u

\* Every frame is a natural number, and no frame is NoFrame.
LEMMA FrameNat == Frame \subseteq Nat /\ NoFrame \notin Frame
  BY FramesAssumption DEF Frame

LEMMA InitIInv == Init => IInv
  BY FrameNat DEF Init, IInv, TypeOK, NoSharedFrame, FramesConserved, FoundIsFree, Usable

\* Handing out a set of free frames keeps the partition of the bitmap.
LEMMA TakeLemma ==
  ASSUME TypeOK, NoSharedFrame, FramesConserved,
         NEW t \in Threads, NEW S \in SUBSET free,
         free' = free \ S, held' = held \cup ({t} \X S)
  PROVE  NoSharedFrame' /\ FramesConserved' /\ held' \subseteq Threads \X Frame
<1>1. held' \subseteq Threads \X Frame
  BY DEF TypeOK
<1>2. \A v \in Threads, f \in Frame :
        <<v, f>> \in held' <=> <<v, f>> \in held \/ (v = t /\ f \in S)
  OBVIOUS
<1>3. NoSharedFrame'
  BY <1>2 DEF NoSharedFrame
<1>4. FramesConserved'
  BY <1>2 DEF FramesConserved, TypeOK, Usable
<1> QED
  BY <1>1, <1>3, <1>4

LEMMA FindStep ==
  ASSUME IInv, ~Preemptible, NEW t \in Threads, AllocFind(t)
  PROVE  IInv'
<1>1. CASE free = {}
  <2>1. panicked' = TRUE /\ UNCHANGED <<free, held, found>>
    BY <1>1 DEF AllocFind
  <2> QED
    BY <2>1 DEF IInv, TypeOK, NoSharedFrame, FramesConserved, FoundIsFree, Usable
<1>2. CASE free # {}
  <2>1. Lowest(free) \in free
    BY <1>2, LowestExists, FrameNat DEF IInv, TypeOK
  <2>2. found' = [found EXCEPT ![t] = Lowest(free)] /\ UNCHANGED <<free, held, panicked>>
    BY <1>2 DEF AllocFind
  <2>3. \A u \in Threads \ {t} : found[u] = NoFrame
    BY DEF AllocFind, CanRun
  <2>4. TypeOK'
    BY <2>1, <2>2 DEF IInv, TypeOK
  <2>5. NoSharedFrame' /\ FramesConserved'
    BY <2>2 DEF IInv, NoSharedFrame, FramesConserved, Usable
  <2>6. \A u \in Threads : found'[u] # NoFrame => u = t /\ found'[u] \in free'
    BY <2>1, <2>2, <2>3 DEF IInv, TypeOK
  <2> QED
    BY <2>4, <2>5, <2>6 DEF IInv, FoundIsFree
<1> QED
  BY <1>1, <1>2

LEMMA TakeStep ==
  ASSUME IInv, ~Preemptible, NEW t \in Threads, AllocTake(t)
  PROVE  IInv'
<1> DEFINE f == found[t]
<1>1. f \in free
  BY DEF AllocTake, IInv, FoundIsFree
<1>2. free' = free \ {f} /\ held' = held \cup ({t} \X {f})
  BY DEF AllocTake
<1> HIDE DEF f
<1>3. NoSharedFrame' /\ FramesConserved' /\ held' \subseteq Threads \X Frame
  <2>1. {f} \in SUBSET free /\ TypeOK /\ NoSharedFrame /\ FramesConserved
    BY <1>1 DEF IInv
  <2> QED
    BY <1>2, <2>1, TakeLemma, Zenon
<1>4. \A u \in Threads : found'[u] = NoFrame
  BY DEF AllocTake, CanRun, IInv, TypeOK
<1>5. TypeOK'
  BY <1>2, <1>3, <1>4 DEF AllocTake, IInv, TypeOK
<1> QED
  BY <1>3, <1>4, <1>5 DEF IInv, FoundIsFree

LEMMA AlignedStep ==
  ASSUME IInv, ~Preemptible, NEW t \in Threads, NEW r \in Requests,
         memory_alloc_aligned(t, r[1], r[2])
  PROVE  IInv'
<1> DEFINE F == Fits(r[1], 2^r[2])
           f == Lowest(F)
           S == f..(f + r[1] - 1)
<1>0. \A u \in Threads : found[u] = NoFrame
  BY DEF memory_alloc_aligned, CanRun
<1>1. CASE F = {}
  BY <1>1 DEF memory_alloc_aligned, IInv, TypeOK, NoSharedFrame, FramesConserved, FoundIsFree, Usable
<1>2. CASE F # {}
  <2>1. f \in F
    <3>1. F \subseteq Nat
      BY FrameNat DEF Fits
    <3> QED
      BY <1>2, <3>1, LowestExists
  <2>2. f \in Frame /\ \A k \in 0..(r[1] - 1) : f + k \in free
    BY <2>1 DEF Fits
  <2>3. S \subseteq free
    <3>1. r[1] \in Nat \ {0}
      BY FramesAssumption
    <3>2. f \in Nat
      BY <2>2, FrameNat
    <3>3. ASSUME NEW x \in S PROVE x \in free
      <4>1. x - f \in 0..(r[1] - 1) /\ f + (x - f) = x
        BY <3>1, <3>2
      <4> QED
        BY <4>1, <2>2
    <3> QED
      BY <3>3
  <2>4. free' = free \ S /\ held' = held \cup ({t} \X S) /\ UNCHANGED <<found, panicked>>
    BY <1>2 DEF memory_alloc_aligned
  <2> HIDE DEF S
  <2>5. NoSharedFrame' /\ FramesConserved' /\ held' \subseteq Threads \X Frame
    BY <2>3, <2>4, TakeLemma DEF IInv
  <2> QED
    BY <1>0, <2>4, <2>5 DEF IInv, TypeOK, FoundIsFree
<1> QED
  BY <1>1, <1>2

LEMMA FreeStep ==
  ASSUME IInv, ~Preemptible, NEW t \in Threads, NEW f \in Frame, memory_free(t, f)
  PROVE  IInv'
<1>1. <<t, f>> \in held /\ free' = free \cup {f} /\ held' = held \ {<<t, f>>}
      /\ UNCHANGED <<found, panicked>>
  BY DEF memory_free
<1>2. \A v \in Threads, g \in Frame :
        <<v, g>> \in held' <=> <<v, g>> \in held /\ ~(v = t /\ g = f)
  BY <1>1
<1>3. TypeOK'
  BY <1>1 DEF IInv, TypeOK
<1>4. NoSharedFrame'
  BY <1>1, <1>2 DEF IInv, NoSharedFrame
<1>5. FramesConserved'
  <2> DEFINE Owned(h) == {g \in Frame : \E v \in Threads : <<v, g>> \in h}
  <2>1. Owned(held) \subseteq Owned(held') \cup {f}
    BY <1>2
  <2>2. Owned(held') \subseteq Owned(held) /\ f \in Owned(held)
    BY <1>1, <1>2
  <2>3. free \cup Owned(held) = Usable
    BY DEF IInv, FramesConserved
  <2> HIDE DEF Owned
  <2>4. free' \cup Owned(held') = Usable
    BY <1>1, <2>1, <2>2, <2>3
  <2>5. Usable' = Usable
    BY DEF Usable
  <2> QED
    BY <2>4, <2>5 DEF FramesConserved, Owned
<1>6. FoundIsFree'
  BY <1>1 DEF IInv, FoundIsFree
<1> QED
  BY <1>1, <1>3, <1>4, <1>5, <1>6 DEF IInv

LEMMA StepIInv == ~Preemptible /\ IInv /\ [Next]_vars => IInv'
<1> SUFFICES ASSUME ~Preemptible, IInv, [Next]_vars PROVE IInv'
  OBVIOUS
<1>1. ASSUME NEW t \in Threads, AllocFind(t) PROVE IInv'
  BY <1>1, FindStep
<1>2. ASSUME NEW t \in Threads, AllocTake(t) PROVE IInv'
  BY <1>2, TakeStep
<1>3. ASSUME NEW t \in Threads, NEW r \in Requests, memory_alloc_aligned(t, r[1], r[2])
      PROVE IInv'
  BY <1>3, AlignedStep
<1>4. ASSUME NEW t \in Threads, NEW f \in Frame, memory_free(t, f) PROVE IInv'
  BY <1>4, FreeStep
<1>5. CASE UNCHANGED vars
  BY <1>5 DEF vars, IInv, TypeOK, NoSharedFrame, FramesConserved, FoundIsFree, Usable
<1> QED
  BY <1>1, <1>2, <1>3, <1>4, <1>5 DEF Next

\* On ARM, where memory_alloc is never preempted, no frame is ever given to two
\* callers or is free while owned, and the frame found free is still free when
\* it is taken: for every size of memory and any requests.
THEOREM FramesStayDisjoint ==
  ASSUME ~Preemptible
  PROVE  Spec => []FramesDisjoint
<1>1. Init => IInv
  BY InitIInv
<1>2. IInv /\ [Next]_vars => IInv'
  BY StepIInv
<1>3. IInv => FramesDisjoint
  BY DEF IInv, FramesDisjoint
<1> QED
  BY <1>1, <1>2, <1>3, PTL DEF Spec

\* Nor is a frame ever lost or one that memory_init reserved given out.
THEOREM FramesStayConserved ==
  ASSUME ~Preemptible
  PROVE  Spec => []FramesConserved
<1>1. Init => IInv
  BY InitIInv
<1>2. IInv /\ [Next]_vars => IInv'
  BY StepIInv
<1>3. IInv => FramesConserved
  BY DEF IInv
<1> QED
  BY <1>1, <1>2, <1>3, PTL DEF Spec

-----------------------------------------------------------------------------
(* Alignment *)

\* Division with remainder.
LEMMA DivMod ==
  ASSUME NEW a \in Nat \ {0}, NEW n \in Nat
  PROVE  n \div a \in Nat /\ n % a \in 0..(a - 1) /\ n = a * (n \div a) + (n % a)
  OBVIOUS

\* A multiple of a leaves no remainder, and only a multiple does.
LEMMA MultipleMod ==
  ASSUME NEW a \in Nat \ {0}, NEW k \in Nat
  PROVE  (a * k) % a = 0
<1> DEFINE q == (a * k) \div a
           m == (a * k) % a
<1>1. q \in Nat /\ m \in 0..(a - 1) /\ a * k = a * q + m
  <2>1. a * k \in Nat
    OBVIOUS
  <2> QED
    BY <2>1, DivMod, Zenon
<1> HIDE DEF q, m
<1>2. CASE k > q
  <2>1. a * k >= a * (q + 1)
    BY <1>1, <1>2
  <2> QED
    BY <1>1, <2>1
<1>3. CASE k < q
  <2>1. a * q >= a * (k + 1)
    BY <1>1, <1>3
  <2> QED
    BY <1>1, <2>1
<1>4. CASE k = q
  BY <1>1, <1>4
<1> QED
  BY <1>1, <1>2, <1>3, <1>4 DEF m

LEMMA ModMultiple ==
  ASSUME NEW a \in Nat \ {0}, NEW n \in Nat, n % a = 0
  PROVE  \E k \in Nat : n = a * k
<1> DEFINE q == n \div a
           m == n % a
<1>1. q \in Nat /\ m = 0 /\ n = a * q + m
  BY DivMod
<1> HIDE DEF q, m
<1>2. n = a * q
  BY <1>1
<1> QED
  BY <1>1, <1>2

\* The place that memory_alloc_aligned takes is a multiple of the alignment,
\* because the alignment divides the size of an element.
LEMMA FitsAligned ==
  ASSUME NEW n \in Nat \ {0}, NEW align \in Nat \ {0}, WordBits % align = 0,
         NEW f \in Fits(n, align)
  PROVE  f \in Frame /\ f % align = 0
<1> DEFINE i == f \div WordBits
           j == f % WordBits
<1>1. f \in Frame /\ f \in Nat /\ WordBits \in Nat \ {0}
  BY FrameNat, FramesAssumption DEF Fits
<1>2. i \in Nat /\ j \in 0..(WordBits - 1) /\ f = WordBits * i + j
  BY <1>1, DivMod
<1>3. j >= (i * WordBits) % align /\ (j - ((i * WordBits) % align)) % align = 0
  BY DEF Fits
<1> HIDE DEF i, j
<1>4. PICK k \in Nat : WordBits = align * k
  BY <1>1, ModMultiple
<1>5. i * WordBits = align * (k * i) /\ k * i \in Nat
  BY <1>2, <1>4
<1>6. (i * WordBits) % align = 0
  BY <1>5, MultipleMod
<1>7. j \in Nat /\ j % align = 0
  BY <1>1, <1>2, <1>3, <1>6
<1>8. PICK m \in Nat : j = align * m
  BY <1>7, ModMultiple
<1>9. f = align * (k * i + m) /\ k * i + m \in Nat
  BY <1>1, <1>2, <1>5, <1>8
<1> QED
  BY <1>1, <1>9, MultipleMod

\* What a caller of memory_alloc_aligned gets was free before, so it is exactly
\* what it holds in addition.
LEMMA AlignedRuns ==
  ASSUME IInv, NEW t \in Threads, NEW r \in Requests,
         memory_alloc_aligned(t, r[1], r[2]), ~panicked'
  PROVE  \E f \in Frame : /\ f % (2^r[2]) = 0
                          /\ held' \ held = {t} \X (f..(f + r[1] - 1))
<1> DEFINE F == Fits(r[1], 2^r[2])
           f == Lowest(F)
           S == f..(f + r[1] - 1)
<1>1. r[1] \in Nat \ {0} /\ 2^r[2] \in Nat \ {0} /\ WordBits % 2^r[2] = 0
  BY FramesAssumption, AlignmentAssumption
<1>2. F # {} /\ held' = held \cup ({t} \X S)
  BY DEF memory_alloc_aligned
<1>3. f \in F
  <2>1. F \subseteq Nat
    BY FrameNat DEF Fits
  <2> QED
    BY <1>2, <2>1, LowestExists
<1>4. f \in Frame /\ f % (2^r[2]) = 0
  BY <1>1, <1>3, FitsAligned
<1>5. S \subseteq free
  <2>1. \A k \in 0..(r[1] - 1) : f + k \in free
    BY <1>3 DEF Fits
  <2>2. f \in Nat
    BY <1>4, FrameNat
  <2>3. ASSUME NEW x \in S PROVE x \in free
    <3>1. x - f \in 0..(r[1] - 1) /\ f + (x - f) = x
      BY <1>1, <2>2
    <3> QED
      BY <2>1, <3>1
  <2> QED
    BY <2>3
<1>6. \A x \in S : <<t, x>> \notin held
  BY <1>5 DEF IInv, TypeOK, NoSharedFrame
<1>7. held' \ held = {t} \X S
  BY <1>2, <1>6
<1> QED
  BY <1>4, <1>7

\* memory_alloc_aligned hands out runs of frames that start at a multiple of the
\* alignment, in any state the allocator can reach.
THEOREM RunsStayAligned ==
  ASSUME ~Preemptible
  PROVE  Spec => RunsAligned
<1>1. Init => IInv
  BY InitIInv
<1>2. IInv /\ [Next]_vars => IInv'
  BY StepIInv
<1> DEFINE Aligned ==
      \A t \in Threads, r \in Requests :
        memory_alloc_aligned(t, r[1], r[2]) /\ ~panicked' =>
          \E f \in Frame : /\ f % (2^r[2]) = 0
                           /\ held' \ held = {t} \X (f..(f + r[1] - 1))
<1>3. IInv => Aligned
  BY AlignedRuns
<1>4. RunsAligned <=> [][Aligned]_vars
  BY DEF RunsAligned
<1> HIDE DEF Aligned
<1> QED
  BY <1>1, <1>2, <1>3, <1>4, PTL DEF Spec

-----------------------------------------------------------------------------
(* The inductive invariant, on top of that of the allocator *)

\* A process holds the frames its address space is made of.
OwnFrames ==
  \A t \in Threads :
    /\ context[t] # NoFrame => <<t, context[t]>> \in held /\ <<t, context[t] + 1>> \in held
    /\ \A i \in 0..(Entries - 1) : table[t][i] # NoFrame => <<t, table[t][i]>> \in held
    /\ \A v \in Page : page[t][v] # NoFrame => <<t, page[t][v]>> \in held

\* No page of a process lies in one of its tables.
PagesApart ==
  \A t \in Threads : \A v \in Page : page[t][v] # NoFrame =>
    /\ \A i \in 0..(Entries - 1) : page[t][v] # table[t][i]
    /\ context[t] # NoFrame => page[t][v] # context[t] /\ page[t][v] # context[t] + 1

\* A process with a stack, and the one that runs, has a translation table.
HaveContext ==
  /\ \A t \in Threads : page[t][Stack] # NoFrame => context[t] # NoFrame
  /\ ttbr # NoFrame => context[ttbr] # NoFrame

\* What the CPU has cached is what the tables say.
CacheCurrent ==
  ttbr # NoFrame => \A v \in Page : tlb[v] # NoFrame => tlb[v] = Walk(ttbr, v)

AInv ==
  /\ IInv
  /\ ATypeOK
  /\ OwnFrames
  /\ PagesApart
  /\ HaveContext
  /\ CacheCurrent

-----------------------------------------------------------------------------

\* Page numbers and indices of page tables.
LEMMA PageFacts ==
  /\ Page \subseteq Nat /\ Stack \in Page
  /\ \A v \in Page : Index(v) \in 0..(Entries - 1)
  /\ \A v \in HeapStart..(Stack - 1) : v \in Page
<1>1. Slots \in Nat \ {0} /\ Entries \in Nat \ {0} /\ HeapStart \in Nat
  BY ArmAssumption
<1> DEFINE N == Slots * Entries
<1>2. N \in Nat /\ N # 0
  <2>1. \A a, b \in Nat \ {0} : a * b \in Nat /\ a * b # 0
    OBVIOUS
  <2> QED
    BY <1>1, <2>1
<1>3. Page = 0..(N - 1) /\ Stack = N - 1
  BY DEF Page, Stack
<1>4. ASSUME NEW v \in Page PROVE Index(v) \in 0..(Entries - 1)
  <2> DEFINE q == v \div Slots
             m == v % Slots
  <2>1. v \in Nat /\ v < Slots * Entries
    BY <1>2, <1>3
  <2>2. q \in Nat /\ m \in 0..(Slots - 1) /\ v = Slots * q + m
    BY <1>1, <2>1, DivMod
  <2> HIDE DEF q, m
  <2>3. CASE q >= Entries
    <3>1. Slots * q >= Slots * Entries
      BY <1>1, <2>2, <2>3
    <3> QED
      BY <1>1, <2>1, <2>2, <3>1
  <2>4. CASE ~(q >= Entries)
    BY <1>1, <2>2, <2>4 DEF Index, q
  <2> QED
    BY <2>3, <2>4
<1> HIDE DEF N
<1> QED
  BY <1>1, <1>2, <1>3, <1>4

LEMMA InitAInv == AInit => AInv
<1> SUFFICES ASSUME AInit PROVE AInv
  OBVIOUS
<1>1. IInv
  BY InitIInv DEF AInit
<1>2. ATypeOK
  BY <1>1 DEF AInit, Init, IInv, ATypeOK, Usable, EmptyTlb
<1>3. OwnFrames /\ PagesApart /\ HaveContext /\ CacheCurrent
  BY PageFacts DEF AInit, OwnFrames, PagesApart, HaveContext, CacheCurrent
<1> QED
  BY <1>1, <1>2, <1>3 DEF AInv

\* A held frame is a frame, is not free, and belongs to nobody else.
LEMMA HeldFacts ==
  ASSUME AInv, NEW t \in Threads, NEW f, <<t, f>> \in held
  PROVE  f \in Frame /\ f \notin free /\ \A u \in Threads : <<u, f>> \in held => u = t
  BY DEF AInv, IInv, TypeOK, NoSharedFrame

-----------------------------------------------------------------------------
(* The other callers of the allocator *)

\* The address spaces do not notice what happens to frames they do not contain.
LEMMA SpacesKept ==
  ASSUME AInv, UNCHANGED <<context, table, page, soiled, ttbr, tlb>>,
         IInv', dirty' \subseteq free',
         \A t \in Threads, f \in Frame : <<t, f>> \in held /\ f \in Spanned(t) => <<t, f>> \in held'
  PROVE  AInv'
<1>1. ATypeOK'
  BY DEF AInv, ATypeOK, IInv
<1>2. OwnFrames'
  <2> SUFFICES ASSUME NEW t \in Threads
               PROVE  /\ context[t] # NoFrame =>
                           <<t, context[t]>> \in held' /\ <<t, context[t] + 1>> \in held'
                      /\ \A i \in 0..(Entries - 1) :
                           table[t][i] # NoFrame => <<t, table[t][i]>> \in held'
                      /\ \A v \in Page : page[t][v] # NoFrame => <<t, page[t][v]>> \in held'
    BY DEF OwnFrames
  <2>1. ASSUME NEW f, f \in Spanned(t), <<t, f>> \in held PROVE <<t, f>> \in held'
    BY <2>1, HeldFacts
  <2>2. context[t] # NoFrame => context[t] \in Spanned(t) /\ context[t] + 1 \in Spanned(t)
    BY DEF Spanned
  <2>3. \A i \in 0..(Entries - 1) : table[t][i] \in Spanned(t)
    BY DEF Spanned
  <2>4. \A v \in Page : page[t][v] \in Spanned(t)
    BY DEF Spanned
  <2> QED
    BY <2>1, <2>2, <2>3, <2>4 DEF AInv, OwnFrames
<1>3. PagesApart' /\ HaveContext'
  BY DEF AInv, PagesApart, HaveContext
<1>4. CacheCurrent'
  BY DEF AInv, CacheCurrent, Walk
<1> QED
  BY <1>1, <1>2, <1>3, <1>4 DEF AInv

LEMMA OthersStep ==
  ASSUME AInv, ~Preemptible, Others
  PROVE  AInv'
<1>1. UNCHANGED <<context, table, page, soiled, ttbr, tlb>> /\ IInv /\ dirty \subseteq free
  BY DEF Others, AInv, ATypeOK
<1>2. ASSUME NEW t \in Threads, AllocFind(t), UNCHANGED dirty PROVE AInv'
  <2>1. IInv'
    BY <1>1, <1>2, FindStep
  <2> QED
    BY <1>1, <1>2, <2>1, SpacesKept DEF AllocFind
<1>3. ASSUME NEW t \in Threads, AllocTake(t), dirty' = dirty \ {found[t]} PROVE AInv'
  <2>1. IInv'
    BY <1>1, <1>3, TakeStep
  <2>2. dirty' \subseteq free' /\ held \subseteq held'
    BY <1>1, <1>3 DEF AllocTake
  <2> QED
    BY <1>1, <2>1, <2>2, SpacesKept
<1>4. ASSUME NEW t \in Threads, NEW r \in Requests, memory_alloc_aligned(t, r[1], r[2]),
             dirty' = dirty \cap free'
      PROVE  AInv'
  <2>1. IInv'
    BY <1>1, <1>4, AlignedStep
  <2>2. dirty' \subseteq free' /\ held \subseteq held'
    BY <1>4 DEF memory_alloc_aligned
  <2> QED
    BY <1>1, <2>1, <2>2, SpacesKept
<1>5. ASSUME NEW t \in Threads, NEW f \in Frame, f \notin Spanned(t), memory_free(t, f),
             dirty' = dirty \cup {f}
      PROVE  AInv'
  <2>1. IInv'
    BY <1>1, <1>5, FreeStep
  <2>2. dirty' \subseteq free' /\ held' = held \ {<<t, f>>}
    BY <1>1, <1>5 DEF memory_free
  <2>3. \A u \in Threads, g \in Frame : <<u, g>> \in held /\ g \in Spanned(u) => <<u, g>> \in held'
    BY <1>5, <2>2
  <2> QED
    BY <1>1, <2>1, <2>2, <2>3, SpacesKept
<1> QED
  BY <1>2, <1>3, <1>4, <1>5 DEF Others

-----------------------------------------------------------------------------
(* The address spaces *)

LEMMA ContextStep ==
  ASSUME AInv, ~Preemptible, NEW t \in Threads, paging_create_context(t)
  PROVE  AInv'
<1> DEFINE F == Fits(2, 2^2)
           f == Lowest(F)
<1>1. /\ UNCHANGED <<table, page, soiled, ttbr, tlb>>
      /\ context[t] = NoFrame /\ memory_alloc_aligned(t, 2, 2)
  BY DEF paging_create_context
<1>2. IInv'
  <2>1. <<2, 2>> \in Requests /\ <<2, 2>>[1] = 2 /\ <<2, 2>>[2] = 2
    BY ArmAssumption
  <2>2. memory_alloc_aligned(t, <<2, 2>>[1], <<2, 2>>[2])
    BY <1>1, <2>1
  <2> QED
    BY <2>1, <2>2, AlignedStep DEF AInv
<1>3. CASE panicked'
  <2>1. UNCHANGED <<context, dirty>>
    BY <1>3 DEF paging_create_context
  <2>2. UNCHANGED <<free, held>>
    BY <1>1, <1>3 DEF memory_alloc_aligned, CanRun
  <2> QED
    BY <1>1, <1>2, <2>1, <2>2, SpacesKept DEF AInv, ATypeOK
<1>4. CASE ~panicked'
  <2>1. context' = [context EXCEPT ![t] = f] /\ dirty' = dirty \ {f, f + 1}
    BY <1>4 DEF paging_create_context
  <2>2. /\ F # {}
        /\ free' = free \ (f..(f + 2 - 1))
        /\ held' = held \cup ({t} \X (f..(f + 2 - 1)))
    BY <1>1, <1>4 DEF memory_alloc_aligned
  <2>3. f \in F
    <3>1. F \subseteq Nat
      BY FrameNat DEF Fits
    <3> QED
      BY <2>2, <3>1, LowestExists
  <2>4. f \in Frame /\ f \in Nat /\ f \in free /\ f + 1 \in free
    <3>1. f \in Frame /\ \A k \in 0..(2 - 1) : f + k \in free
      BY <2>3 DEF Fits
    <3>2. f \in Nat
      BY <3>1, FrameNat
    <3>3. 0 \in 0..(2 - 1) /\ 1 \in 0..(2 - 1) /\ f + 0 = f
      BY <3>2
    <3> HIDE DEF f
    <3> QED
      BY <3>1, <3>2, <3>3
  <2> HIDE DEF f
  <2>5. f..(f + 2 - 1) = {f, f + 1}
    BY <2>4
  <2>6. free' = free \ {f, f + 1} /\ held' = held \cup ({t} \X {f, f + 1})
    BY <2>2, <2>5
  <2>7. ATypeOK'
    BY <1>1, <1>2, <2>1, <2>4, <2>6 DEF AInv, ATypeOK, IInv
  <2>8. /\ context'[t] = f
        /\ \A u \in Threads : u # t => context'[u] = context[u]
    BY <2>1 DEF AInv, ATypeOK
  <2>9. OwnFrames'
    BY <1>1, <2>4, <2>6, <2>8 DEF AInv, OwnFrames
  <2>10. \A u \in Threads, v \in Page : page[u][v] # NoFrame => page[u][v] \notin free
    BY HeldFacts DEF AInv, OwnFrames
  <2>11. PagesApart'
    BY <1>1, <2>4, <2>8, <2>10 DEF AInv, PagesApart
  <2>12. f # NoFrame
    BY <2>4, FrameNat
  <2>13. HaveContext'
    BY <1>1, <2>8, <2>12 DEF AInv, HaveContext, ATypeOK
  <2>14. CacheCurrent'
    BY <1>1 DEF AInv, CacheCurrent, Walk
  <2> QED
    BY <1>2, <2>7, <2>9, <2>11, <2>13, <2>14 DEF AInv
<1> QED
  BY <1>3, <1>4

\* Frames are finitely many, so the bits that are set can be counted: one bit is
\* enough for one frame, two for two.
LEMMA EnoughFree ==
  ASSUME NEW S \in SUBSET Frame
  PROVE  /\ Cardinality(S) >= 1 => S # {}
         /\ Cardinality(S) >= 2 => S # {} /\ \A x \in S : S \ {x} # {}
<1>1. IsFiniteSet(S)
  <2>1. IsFiniteSet(Frame)
    <3>1. WordBits * BITMAP_SIZE - 1 \in Int
      BY FramesAssumption
    <3> QED
      BY <3>1, FS_Interval DEF Frame
  <2> QED
    BY <2>1, FS_Subset
<1>2. Cardinality({}) = 0
  BY FS_EmptySet
<1>3. Cardinality(S) >= 1 => S # {}
  BY <1>2
<1>4. ASSUME Cardinality(S) >= 2, NEW x \in S PROVE S \ {x} # {}
  <2>1. Cardinality(S \ {x}) = Cardinality(S) - 1
    BY <1>1, FS_RemoveElement
  <2>2. Cardinality(S) \in Nat
    BY <1>1, FS_CardinalityType
  <2> QED
    BY <1>2, <1>4, <2>1, <2>2
<1>5. Cardinality(S) >= 2 => S # {}
  BY <1>2
<1> QED
  BY <1>3, <1>4, <1>5

\* Mapping a new page v of t, with the page table behind it if there is none.
LEMMA MapStep ==
  ASSUME AInv, NEW t \in Threads, NEW v \in Page,
         page[t][v] = NoFrame, context[t] # NoFrame, paging_map(t, v)
  PROVE  AInv'
<1> DEFINE i == Index(v)
           phys == Lowest(free)
           fresh == table[t][i] = NoFrame
           ppt == IF fresh THEN Lowest(free \ {phys}) ELSE table[t][i]
           taken == IF fresh THEN {phys, ppt} ELSE {phys}
           enough == Cardinality(free) >= (IF fresh THEN 2 ELSE 1)
<1>1. /\ \A u \in Threads : found[u] = NoFrame
      /\ UNCHANGED <<found, context, ttbr>>
  BY DEF paging_map
<1>2. i \in 0..(Entries - 1)
  BY PageFacts
<1>3. free \in SUBSET Frame /\ free \in SUBSET Nat
  BY FrameNat DEF AInv, IInv, TypeOK
<1>4. CASE ~enough
  <2>1. panicked' = TRUE /\ UNCHANGED <<free, held, table, page, dirty, soiled, tlb>>
    BY <1>4 DEF paging_map
  <2>2. IInv'
    BY <1>1, <2>1 DEF AInv, IInv, TypeOK, NoSharedFrame, FramesConserved, FoundIsFree, Usable
  <2> QED
    BY <1>1, <2>1, <2>2, SpacesKept DEF AInv, ATypeOK
<1>5. CASE enough
  <2>1. /\ free' = free \ taken
        /\ held' = held \cup ({t} \X taken)
        /\ table' = [table EXCEPT ![t][i] = ppt]
        /\ soiled' = IF fresh /\ ppt \in dirty THEN soiled \cup {<<t, i>>} ELSE soiled
        /\ page' = [page EXCEPT ![t][v] = phys]
        /\ dirty' = dirty \ taken
        /\ tlb' = [tlb EXCEPT ![v] = NoFrame]
        /\ UNCHANGED panicked
    BY <1>5 DEF paging_map, InvalidateEntry
  <2>2. phys \in free
    <3>1. free # {}
      BY <1>3, <1>5, EnoughFree
    <3> QED
      BY <1>3, <3>1, LowestExists
  <2>3. fresh => ppt \in free /\ ppt # phys
    <3>1. ASSUME fresh PROVE free \ {phys} # {}
      <4>1. Cardinality(free) >= 2
        BY <1>5, <3>1
      <4> HIDE DEF phys
      <4> QED
        BY <1>3, <2>2, <4>1, EnoughFree
    <3>2. ASSUME fresh PROVE Lowest(free \ {phys}) \in free \ {phys}
      <4>1. free \ {phys} \in SUBSET Nat
        BY <1>3
      <4> HIDE DEF phys
      <4> QED
        BY <3>1, <3>2, <4>1, LowestExists
    <3> QED
      BY <3>2
  <2>4. ~fresh => ppt = table[t][i] /\ ppt # NoFrame
    OBVIOUS
  <2>5. (fresh => taken = {phys, ppt}) /\ (~fresh => taken = {phys})
    OBVIOUS
  <2>6. fresh => table[t][i] = NoFrame
    OBVIOUS
  <2> HIDE DEF phys, ppt, taken, fresh, enough, i
  <2>7. taken \in SUBSET free
    BY <2>2, <2>3, <2>5
  <2>8. IInv'
    <3>1. NoSharedFrame' /\ FramesConserved' /\ held' \subseteq Threads \X Frame
      BY <2>1, <2>7, TakeLemma DEF AInv, IInv
    <3> QED
      BY <1>1, <2>1, <3>1 DEF AInv, IInv, TypeOK, FoundIsFree
  <2>9. phys \in Frame /\ ppt \in Frame /\ phys # NoFrame /\ ppt # NoFrame
    <3>1. table[t][i] \in Frame \cup {NoFrame}
      <4>1. table \in [Threads -> [0..(Entries - 1) -> Frame \cup {NoFrame}]]
        BY DEF AInv, ATypeOK
      <4> QED
        BY <1>2, <4>1
    <3>2. ppt \in Frame
      BY <1>3, <2>3, <2>4, <3>1
    <3> QED
      BY <1>3, <2>2, <3>2, FrameNat
  <2>10. /\ table'[t][i] = ppt
         /\ \A u \in Threads, j \in 0..(Entries - 1) :
              ~(u = t /\ j = i) => table'[u][j] = table[u][j]
         /\ page'[t][v] = phys
         /\ \A u \in Threads, w \in Page :
              ~(u = t /\ w = v) => page'[u][w] = page[u][w]
         /\ tlb'[v] = NoFrame
         /\ \A w \in Page : w # v => tlb'[w] = tlb[w]
    BY <1>2, <2>1 DEF AInv, ATypeOK
  <2>11. ATypeOK'
    <3>1. table' \in [Threads -> [0..(Entries - 1) -> Frame \cup {NoFrame}]]
      BY <2>1, <2>9 DEF AInv, ATypeOK
    <3>2. page' \in [Threads -> [Page -> Frame \cup {NoFrame}]]
      BY <2>1, <2>9 DEF AInv, ATypeOK
    <3>3. soiled' \subseteq Threads \X (0..(Entries - 1)) /\ dirty' \subseteq free'
      BY <1>2, <2>1 DEF AInv, ATypeOK
    <3>4. tlb' \in [Page -> Frame \cup {NoFrame, Stale}]
      BY <2>1 DEF AInv, ATypeOK
    <3> QED
      BY <1>1, <2>8, <3>1, <3>2, <3>3, <3>4 DEF AInv, ATypeOK, IInv
  <2>12. <<t, phys>> \in held' /\ <<t, ppt>> \in held' /\ held \subseteq held'
    BY <1>2, <2>1, <2>4, <2>5 DEF AInv, OwnFrames
  <2>13. OwnFrames'
    BY <1>1, <2>10, <2>12 DEF AInv, OwnFrames
  <2>14. \A u \in Threads :
           /\ context[u] # NoFrame => context[u] \notin free /\ context[u] + 1 \notin free
           /\ \A j \in 0..(Entries - 1) : table[u][j] # NoFrame => table[u][j] \notin free
           /\ \A w \in Page : page[u][w] # NoFrame => page[u][w] \notin free
    <3> SUFFICES ASSUME NEW u \in Threads
                 PROVE  /\ context[u] # NoFrame =>
                             context[u] \notin free /\ context[u] + 1 \notin free
                        /\ \A j \in 0..(Entries - 1) :
                             table[u][j] # NoFrame => table[u][j] \notin free
                        /\ \A w \in Page : page[u][w] # NoFrame => page[u][w] \notin free
      OBVIOUS
    <3>1. \A f : <<u, f>> \in held => f \notin free
      BY HeldFacts
    <3> QED
      BY <3>1 DEF AInv, OwnFrames
  <2>15. PagesApart'
    <3> SUFFICES ASSUME NEW u \in Threads, NEW w \in Page, page'[u][w] # NoFrame
                 PROVE  /\ \A j \in 0..(Entries - 1) : page'[u][w] # table'[u][j]
                        /\ context[u] # NoFrame =>
                             page'[u][w] # context[u] /\ page'[u][w] # context[u] + 1
      BY <1>1 DEF PagesApart
    <3>1. CASE u = t /\ w = v
      <4>1. page'[u][w] = phys
        BY <2>10, <3>1
      <4>2. phys # ppt
        BY <1>2, <2>2, <2>3, <2>4, <2>14
      <4> QED
        BY <2>2, <2>9, <2>10, <2>14, <3>1, <4>1, <4>2
    <3>2. CASE ~(u = t /\ w = v)
      <4>1. page'[u][w] = page[u][w] /\ page[u][w] # NoFrame
        BY <2>10, <3>2
      <4>2. u = t => page[u][w] # ppt
        BY <1>2, <2>3, <2>4, <2>14, <4>1 DEF AInv, PagesApart
      <4> QED
        BY <2>10, <4>1, <4>2 DEF AInv, PagesApart
    <3> QED
      BY <3>1, <3>2
  <2>16. HaveContext'
    BY <1>1, <2>10, PageFacts DEF AInv, HaveContext
  <2>17. CacheCurrent'
    <3> SUFFICES ASSUME ttbr # NoFrame, NEW w \in Page, tlb'[w] # NoFrame
                 PROVE  tlb'[w] = Walk(ttbr, w)'
      BY <1>1 DEF CacheCurrent
    <3>1. w # v /\ tlb'[w] = tlb[w] /\ ttbr \in Threads
      BY <2>10 DEF AInv, ATypeOK
    <3>2. tlb[w] = Walk(ttbr, w)
      BY <3>1 DEF AInv, CacheCurrent
    <3>3. page'[ttbr][w] = page[ttbr][w] /\ soiled \subseteq soiled'
      BY <2>1, <2>10, <3>1
    <3> QED
      BY <1>1, <3>1, <3>2, <3>3 DEF Walk
  <2> QED
    BY <2>8, <2>11, <2>13, <2>15, <2>16, <2>17 DEF AInv
<1> QED
  BY <1>4, <1>5

LEMMA CreateStep ==
  ASSUME AInv, NEW t \in Threads, process_create(t)
  PROVE  AInv'
  BY MapStep, PageFacts DEF process_create

LEMMA SbrkStep ==
  ASSUME AInv, NEW t \in Threads, process_sbrk(t)
  PROVE  AInv'
<1>1. ttbr = t
  BY DEF process_sbrk
<1>2. PICK v \in HeapStart..(Stack - 1) : page[t][v] = NoFrame /\ paging_map(t, v)
  BY DEF process_sbrk
<1>3. v \in Page
  BY PageFacts
<1>4. context[t] # NoFrame
  BY <1>1, ArmAssumption DEF AInv, HaveContext
<1> QED
  BY <1>2, <1>3, <1>4, MapStep

LEMMA SwitchStep ==
  ASSUME AInv, NEW t \in Threads, arch_switch_context(t)
  PROVE  AInv'
<1>1. /\ page[t][Stack] # NoFrame
      /\ ttbr' = t /\ tlb' = [v \in Page |-> NoFrame]
      /\ UNCHANGED <<free, held, found, panicked, context, table, page, dirty, soiled>>
  BY DEF arch_switch_context, paging_activate_context, EmptyTlb, vars
<1>2. IInv'
  BY <1>1 DEF AInv, IInv, TypeOK, NoSharedFrame, FramesConserved, FoundIsFree, Usable
<1>3. ATypeOK'
  BY <1>1, <1>2 DEF AInv, ATypeOK, IInv
<1>4. OwnFrames' /\ PagesApart'
  BY <1>1 DEF AInv, OwnFrames, PagesApart
<1>5. HaveContext' /\ CacheCurrent'
  BY <1>1 DEF AInv, HaveContext, CacheCurrent
<1> QED
  BY <1>2, <1>3, <1>4, <1>5 DEF AInv

\* With a cache that agrees with the tables, the CPU uses what the tables say.
LEMMA TranslationWalk ==
  ASSUME AInv, ttbr # NoFrame, NEW v \in Page
  PROVE  Translation(v) = Walk(ttbr, v) /\ Walk(ttbr, v) \in Frame \cup {NoFrame, Stale}
<1>1. ttbr \in Threads /\ (tlb[v] # NoFrame => tlb[v] = Walk(ttbr, v))
  BY DEF AInv, ATypeOK, CacheCurrent
<1>2. page[ttbr][v] \in Frame \cup {NoFrame}
  BY <1>1 DEF AInv, ATypeOK
<1> QED
  BY <1>1, <1>2 DEF Translation, Walk

LEMMA TouchStep ==
  ASSUME AInv, NEW v \in Page, Touch(v)
  PROVE  AInv'
<1>1. /\ ttbr # NoFrame
      /\ tlb' = [tlb EXCEPT ![v] = Translation(v)]
      /\ UNCHANGED <<free, held, found, panicked, context, table, page, dirty, soiled, ttbr>>
  BY DEF Touch, vars
<1>2. Translation(v) = Walk(ttbr, v) /\ Walk(ttbr, v) \in Frame \cup {NoFrame, Stale}
  BY <1>1, TranslationWalk
<1>3. IInv'
  BY <1>1 DEF AInv, IInv, TypeOK, NoSharedFrame, FramesConserved, FoundIsFree, Usable
<1>4. ATypeOK'
  BY <1>1, <1>2, <1>3 DEF AInv, ATypeOK, IInv
<1>5. OwnFrames' /\ PagesApart' /\ HaveContext'
  BY <1>1 DEF AInv, OwnFrames, PagesApart, HaveContext
<1>6. CacheCurrent'
  <2>1. \A w \in Page : Walk(ttbr, w)' = Walk(ttbr, w)
    BY <1>1 DEF Walk
  <2>2. \A w \in Page : tlb'[w] = IF w = v THEN Walk(ttbr, v) ELSE tlb[w]
    BY <1>1, <1>2 DEF AInv, ATypeOK
  <2> QED
    BY <1>1, <2>1, <2>2 DEF AInv, CacheCurrent
<1> QED
  BY <1>3, <1>4, <1>5, <1>6 DEF AInv

LEMMA StepAInv == ~Preemptible /\ AInv /\ [ANext]_<<vars, avars>> => AInv'
<1> SUFFICES ASSUME ~Preemptible, AInv, [ANext]_<<vars, avars>> PROVE AInv'
  OBVIOUS
<1>1. CASE Others
  BY <1>1, OthersStep
<1>2. ASSUME NEW t \in Threads, paging_create_context(t) PROVE AInv'
  BY <1>2, ContextStep
<1>3. ASSUME NEW t \in Threads, process_create(t) PROVE AInv'
  BY <1>3, CreateStep
<1>4. ASSUME NEW t \in Threads, process_sbrk(t) PROVE AInv'
  BY <1>4, SbrkStep
<1>5. ASSUME NEW t \in Threads, arch_switch_context(t) PROVE AInv'
  BY <1>5, SwitchStep
<1>6. ASSUME NEW v \in Page, Touch(v) PROVE AInv'
  BY <1>6, TouchStep
<1>7. CASE UNCHANGED <<vars, avars>>
  <2>1. UNCHANGED <<free, held, found, panicked>>
        /\ UNCHANGED <<context, table, page, dirty, soiled, ttbr, tlb>>
    BY <1>7 DEF vars, avars
  <2>2. IInv'
    BY <2>1 DEF AInv, IInv, TypeOK, NoSharedFrame, FramesConserved, FoundIsFree, Usable
  <2> QED
    BY <2>1, <2>2, SpacesKept DEF AInv, ATypeOK
<1> QED
  BY <1>1, <1>2, <1>3, <1>4, <1>5, <1>6, <1>7 DEF ANext

-----------------------------------------------------------------------------

\* The frames of an address space are held by its process.
LEMMA SpannedHeld ==
  ASSUME AInv, NEW u \in Threads, NEW f \in Spanned(u), f \in Frame
  PROVE  <<u, f>> \in held
<1>1. f # NoFrame
  BY FrameNat
<1>2. \/ \E i \in 0..(Entries - 1) : f = table[u][i]
      \/ \E v \in Page : f = page[u][v]
      \/ context[u] # NoFrame /\ (f = context[u] \/ f = context[u] + 1)
  BY DEF Spanned
<1> QED
  BY <1>1, <1>2 DEF AInv, OwnFrames

LEMMA AInvTranslation == AInv => ArmTranslationCurrent
<1> SUFFICES ASSUME AInv, ttbr # NoFrame, NEW v \in Page
             PROVE
       /\ Translation(v) = (IF page[ttbr][v] # NoFrame THEN page[ttbr][v]
                            ELSE IF <<ttbr, Index(v)>> \in soiled THEN Translation(v)
                            ELSE NoFrame)
       /\ Translation(v) \in Frame =>
            /\ Translation(v) \notin UNION {Spanned(u) : u \in Threads \ {ttbr}}
            /\ Translation(v) \notin {table[ttbr][i] : i \in 0..(Entries - 1)}
            /\ Translation(v) \notin {context[ttbr], context[ttbr] + 1}
  BY DEF ArmTranslationCurrent, AInv
<1>1. Translation(v) = Walk(ttbr, v) /\ ttbr \in Threads
  BY TranslationWalk DEF AInv, ATypeOK
<1>2. ASSUME Translation(v) \in Frame
      PROVE  page[ttbr][v] # NoFrame /\ Translation(v) = page[ttbr][v]
  BY <1>1, <1>2, ArmAssumption, FrameNat DEF Walk
<1>3. ASSUME Translation(v) \in Frame
      PROVE  Translation(v) \notin UNION {Spanned(u) : u \in Threads \ {ttbr}}
  <2>1. <<ttbr, page[ttbr][v]>> \in held
    BY <1>1, <1>2, <1>3 DEF AInv, OwnFrames
  <2>2. ASSUME NEW u \in Threads \ {ttbr}, page[ttbr][v] \in Spanned(u) PROVE FALSE
    <3>1. <<u, page[ttbr][v]>> \in held
      BY <1>2, <1>3, <2>2, SpannedHeld
    <3> QED
      BY <1>1, <2>1, <3>1, HeldFacts
  <2> QED
    BY <1>2, <1>3, <2>2
<1>4. ASSUME Translation(v) \in Frame
      PROVE  /\ Translation(v) \notin {table[ttbr][i] : i \in 0..(Entries - 1)}
             /\ Translation(v) \notin {context[ttbr], context[ttbr] + 1}
  <2>1. context[ttbr] # NoFrame
    BY DEF AInv, HaveContext
  <2> QED
    BY <1>1, <1>2, <1>4, <2>1 DEF AInv, PagesApart
<1> QED
  BY <1>1, <1>3, <1>4 DEF Walk

\* On ARM the CPU reaches, in every address space and whatever it has cached, the
\* frame the kernel mapped at that page and nothing of another process or of a
\* table, for every size of memory, every number of processes and however the
\* other callers of the allocator behave.
THEOREM ArmTranslationsStayCurrent ==
  ASSUME ~Preemptible
  PROVE  ASpec => []ArmTranslationCurrent
<1>1. AInit => AInv
  BY InitAInv
<1>2. AInv /\ [ANext]_<<vars, avars>> => AInv'
  BY StepAInv
<1>3. AInv => ArmTranslationCurrent
  BY AInvTranslation
<1> QED
  BY <1>1, <1>2, <1>3, PTL DEF ASpec

\* Paging uses the allocator as it must: with address spaces on top of it, no
\* frame is shared or taken twice and none is lost.
THEOREM ArmFramesStayPartitioned ==
  ASSUME ~Preemptible
  PROVE  ASpec => [](FramesDisjoint /\ FramesConserved)
<1>1. AInit => AInv
  BY InitAInv
<1>2. AInv /\ [ANext]_<<vars, avars>> => AInv'
  BY StepAInv
<1>3. AInv => FramesDisjoint /\ FramesConserved
  BY DEF AInv, IInv, FramesDisjoint
<1> QED
  BY <1>1, <1>2, <1>3, PTL DEF ASpec
=============================================================================
