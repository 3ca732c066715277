------------------------------- MODULE Frames -------------------------------
(***************************************************************************)
(* The physical memory allocator (kernel/memory.c): one bit per frame, set *)
(* while the frame is free, here the set of free frames.  The search for a *)
(* set bit and the clearing of it are two steps, so that a timer interrupt *)
(* can come between them where system calls are preemptible (i386).        *)
(***************************************************************************)
EXTENDS Integers

CONSTANTS
  Threads,      \* the callers
  NoFrame,      \* not a frame
  WordBits,     \* bits of a bitmap element (32)
  BITMAP_SIZE,  \* number of elements (32768)
  Reserved,     \* elements that memory_init leaves used (64)
  Requests,     \* <<frames, alignment>> passed to memory_alloc_aligned
  Preemptible   \* see module Semaphore

ASSUME FramesAssumption ==
  /\ WordBits \in Nat \ {0} /\ BITMAP_SIZE \in Nat /\ Reserved \in 0..BITMAP_SIZE
  /\ Requests \subseteq (Nat \ {0}) \X Nat
  /\ Preemptible \in BOOLEAN
  /\ NoFrame \notin Nat

\* Every alignment divides an element, as the 4 frames of an ARM translation
\* table divide 32: memory_alloc_aligned starts each element as if it did.
ASSUME AlignmentAssumption ==
  \A r \in Requests : 2^r[2] \in Nat \ {0} /\ WordBits % 2^r[2] = 0

VARIABLES
  free,     \* the frames whose bit is set
  held,     \* <<caller, frame>> for the frames callers have got
  found,    \* the frame a caller of memory_alloc is about to take
  panicked  \* "out of memory"

vars == <<free, held, found, panicked>>

Frame == 0..(WordBits * BITMAP_SIZE - 1)

TypeOK ==
  /\ free \subseteq Frame
  /\ held \subseteq Threads \X Frame
  /\ found \in [Threads -> Frame \cup {NoFrame}]
  /\ panicked \in BOOLEAN

\* memory_init
Init ==
  /\ free = {f \in Frame : f >= WordBits * Reserved}
  /\ held = {}
  /\ found = [t \in Threads |-> NoFrame]
  /\ panicked = FALSE

-----------------------------------------------------------------------------

Lowest(S) == CHOOSE f \in S : \A g \in S : f <= g

\* t may run: no other thread is inside the allocator, or it was preempted there.
CanRun(t) == ~panicked /\ (Preemptible \/ \A u \in Threads \ {t} : found[u] = NoFrame)

\* memory_alloc up to the test of the bit ...
AllocFind(t) ==
  /\ CanRun(t)
  /\ found[t] = NoFrame
  /\ IF free = {}
     THEN panicked' = TRUE /\ UNCHANGED found
     ELSE found' = [found EXCEPT ![t] = Lowest(free)] /\ UNCHANGED panicked
  /\ UNCHANGED <<free, held>>

\* Faulty variant: the bit is not cleared.
take_keeps_bit(t) ==
  /\ CanRun(t)
  /\ found[t] # NoFrame
  /\ held' = held \cup {<<t, found[t]>>}
  /\ found' = [found EXCEPT ![t] = NoFrame]
  /\ UNCHANGED <<free, panicked>>

\* ... and from there to its return.
AllocTake(t) ==
  /\ CanRun(t)
  /\ found[t] # NoFrame
  /\ free' = free \ {found[t]}
  /\ held' = held \cup {<<t, found[t]>>}
  /\ found' = [found EXCEPT ![t] = NoFrame]
  /\ UNCHANGED panicked

\* Faulty variant: the search goes on bit by bit.
fits_unaligned(n, align) ==
  {f \in Frame : /\ f % WordBits <= WordBits - n
                 /\ \A k \in 0..(n - 1) : f + k \in free}

\* The places at which memory_alloc_aligned finds n free frames: within one
\* element of the bitmap, at the bits its inner loop visits.
Fits(n, align) ==
  {f \in Frame :
     LET i == f \div WordBits
         j == f % WordBits
         start == (i * WordBits) % align
     IN  /\ j >= start /\ (j - start) % align = 0
         /\ j <= WordBits - n
         /\ \A k \in 0..(n - 1) : f + k \in free}

\* Called by paging_create_context of the ARM kernel only, hence undisturbed.
memory_alloc_aligned(t, n, alignment) ==
  LET align == 2^alignment
      f == Lowest(Fits(n, align))
  IN
  /\ ~Preemptible /\ CanRun(t) /\ found[t] = NoFrame
  /\ IF Fits(n, align) = {}
     THEN panicked' = TRUE /\ UNCHANGED <<free, held>>
     ELSE /\ free' = free \ (f..(f + n - 1))
          /\ held' = held \cup ({t} \X (f..(f + n - 1)))
          /\ UNCHANGED panicked
  /\ UNCHANGED found

\* Faulty variant: the bit is not set.
free_keeps_bit(t, f) ==
  /\ CanRun(t) /\ found[t] = NoFrame
  /\ <<t, f>> \in held
  /\ held' = held \ {<<t, f>>}
  /\ UNCHANGED <<free, found, panicked>>

\* An owner gives a frame back.
memory_free(t, f) ==
  /\ CanRun(t) /\ found[t] = NoFrame
  /\ <<t, f>> \in held
  /\ free' = free \cup {f}
  /\ held' = held \ {<<t, f>>}
  /\ UNCHANGED <<found, panicked>>

\* panic never returns.
Next ==
  \/ \E t \in Threads : AllocFind(t)
  \/ \E t \in Threads : AllocTake(t)
  \/ \E t \in Threads, r \in Requests : memory_alloc_aligned(t, r[1], r[2])
  \/ \E t \in Threads, f \in Frame : memory_free(t, f)

Spec == Init /\ [][Next]_vars

-----------------------------------------------------------------------------

Usable == {f \in Frame : f >= WordBits * Reserved}

\* No frame has two owners and no owned frame is free.
NoSharedFrame ==
  \A f \in Frame : \A t \in Threads : <<t, f>> \in held =>
    f \notin free /\ \A u \in Threads : <<u, f>> \in held => u = t

\* memory_alloc: "found a free section".  The frame a caller is about to take is
\* still free.
FoundIsFree == \A t \in Threads : found[t] # NoFrame => found[t] \in free

\* No frame is given to two callers or is free while somebody owns it, and a
\* caller that found the bit of a frame set still finds it set when it takes the
\* frame, whatever other callers do in between.
FramesDisjoint == NoSharedFrame /\ FoundIsFree

\* No frame gets lost or made up: a frame is free or held unless the kernel
\* reserved it, and reserved frames are never given out.
FramesConserved ==
  free \cup {f \in Frame : \E t \in Threads : <<t, f>> \in held} = Usable

\* memory_alloc_aligned gives the caller n consecutive frames that start at a
\* multiple of the alignment, as an ARM translation table needs.
RunsAligned ==
  [][\A t \in Threads, r \in Requests :
       memory_alloc_aligned(t, r[1], r[2]) /\ ~panicked' =>
         \E f \in Frame : /\ f % (2^r[2]) = 0
                          /\ held' \ held = {t} \X (f..(f + r[1] - 1))]_vars
=============================================================================
