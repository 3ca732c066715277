----------------------------- MODULE ArmPaging ------------------------------
(***************************************************************************)
(* Address spaces of the ARM kernel (kernel/arch/arm/paging.c, arch.c) on  *)
(* top of the physical memory allocator, whose other callers go on as in   *)
(* Frames.  A caller of the allocator owns one address space: a            *)
(* translation table of two frames and, behind it, page tables of one      *)
(* frame.  System calls are not interrupted.                               *)
(*                                                                         *)
(* A virtual page is a number; Slots of them share a page table.  The heap *)
(* of a process grows from HeapStart, its stack is the last page.  RAM is  *)
(* reached directly (paging_map_kernel adds a constant), so nothing else   *)
(* is mapped for the kernel's own accesses.                                *)
(***************************************************************************)
EXTENDS Frames, FiniteSets

CONSTANTS
  Slots,    \* entries of a page table (256)
  Entries,  \* entries of a translation table (2048)
  HeapStart,\* the first page of a heap (0x1000)
  MaxOther, \* bound on the frames of other callers
  Stale     \* what an entry that was never written may lead to

ASSUME ArmAssumption ==
  /\ Slots \in Nat \ {0} /\ Entries \in Nat \ {0} /\ MaxOther \in Nat
  /\ HeapStart \in Nat
  /\ <<2, 2>> \in Requests
  /\ Stale \notin Frame \cup {NoFrame}
  /\ NoFrame \notin Threads

VARIABLES
  context,  \* the first frame of a process's translation table
  table,    \* its page tables: the frame, or NoFrame
  page,     \* the frame that was mapped at each virtual page, or NoFrame
  dirty,    \* free frames that hold something
  soiled,   \* page tables that lie in frames that held something
  ttbr,     \* the process whose table is active
  tlb       \* the translations the CPU has cached

avars == <<context, table, page, dirty, soiled, ttbr, tlb>>

Page == 0..(Slots * Entries - 1)
Stack == Slots * Entries - 1
Index(v) == v \div Slots  \* translation table index

EmptyTlb == [v \in Page |-> NoFrame]

ATypeOK ==
  /\ TypeOK
  /\ context \in [Threads -> Frame \cup {NoFrame}]
  /\ table \in [Threads -> [0..(Entries - 1) -> Frame \cup {NoFrame}]]
  /\ page \in [Threads -> [Page -> Frame \cup {NoFrame}]]
  /\ dirty \subseteq free
  /\ soiled \subseteq Threads \X (0..(Entries - 1))
  /\ ttbr \in Threads \cup {NoFrame}
  /\ tlb \in [Page -> Frame \cup {NoFrame, Stale}]

\* RAM is clear at power on, or it is not.
AInit ==
  /\ Init
  /\ context = [t \in Threads |-> NoFrame]
  /\ table = [t \in Threads |-> [i \in 0..(Entries - 1) |-> NoFrame]]
  /\ page = [t \in Threads |-> [v \in Page |-> NoFrame]]
  /\ dirty \in {{}, Usable}
  /\ soiled = {}
  /\ ttbr = NoFrame
  /\ tlb = EmptyTlb

-----------------------------------------------------------------------------

\* The frames of t that its address space is made of.
Spanned(t) ==
  {table[t][i] : i \in 0..(Entries - 1)} \cup {page[t][v] : v \in Page}
    \cup (IF context[t] = NoFrame THEN {} ELSE {context[t], context[t] + 1})

\* The whole translation table is cleared.
paging_create_context(t) ==
  LET f == Lowest(Fits(2, 2^2)) IN
  /\ context[t] = NoFrame
  /\ memory_alloc_aligned(t, 2, 2)
  /\ IF panicked' THEN UNCHANGED <<context, dirty>>
     ELSE /\ context' = [context EXCEPT ![t] = f]
          /\ dirty' = dirty \ {f, f + 1}
  /\ UNCHANGED <<table, page, soiled, ttbr, tlb>>

\* Faulty variant: what the CPU has cached stays.
map_without_invalidate(v) == tlb

\* What paging_map leaves in the TLB: the entry of the page is invalidated.
InvalidateEntry(v) == [tlb EXCEPT ![v] = NoFrame]

\* paging_map(context, v, memory_alloc(), PAGE_PERM_USER) of process_create and
\* process_sbrk: a page table is taken if there is none, and is not cleared.
paging_map(t, v) ==
  LET i == Index(v)
      phys == Lowest(free)
      fresh == table[t][i] = NoFrame
      ppt == IF fresh THEN Lowest(free \ {phys}) ELSE table[t][i]
      taken == IF fresh THEN {phys, ppt} ELSE {phys}
      enough == Cardinality(free) >= (IF fresh THEN 2 ELSE 1)
  IN
  /\ \A u \in Threads : found[u] = NoFrame
  /\ ~panicked
  /\ IF ~enough
     THEN panicked' = TRUE /\ UNCHANGED <<free, held, table, page, dirty, soiled, tlb>>
     ELSE /\ free' = free \ taken
          /\ held' = held \cup ({t} \X taken)
          /\ table' = [table EXCEPT ![t][i] = ppt]
          /\ soiled' = IF fresh /\ ppt \in dirty THEN soiled \cup {<<t, i>>} ELSE soiled
          /\ page' = [page EXCEPT ![t][v] = phys]
          /\ dirty' = dirty \ taken
          /\ tlb' = InvalidateEntry(v)
          /\ UNCHANGED panicked
  /\ UNCHANGED <<found, context, ttbr>>

\* process_create maps the stack ...
process_create(t) ==
  /\ context[t] # NoFrame
  /\ page[t][Stack] = NoFrame
  /\ paging_map(t, Stack)

\* ... and process_sbrk the next page of the heap of the running process.  The
\* kernel has no bound for it; here the page of the stack is one, as in Process.
process_sbrk(t) ==
  /\ ttbr = t
  /\ \E v \in HeapStart..(Stack - 1) :
       /\ page[t][v] = NoFrame
       /\ \A w \in HeapStart..(v - 1) : page[t][w] # NoFrame
       /\ paging_map(t, v)

paging_activate_context(t) == ttbr' = t /\ tlb' = EmptyTlb

\* A thread of process t is dispatched.
arch_switch_context(t) ==
  /\ ~panicked /\ \A u \in Threads : found[u] = NoFrame
  /\ page[t][Stack] # NoFrame
  /\ paging_activate_context(t)
  /\ UNCHANGED <<vars, context, table, page, dirty, soiled>>

\* What the tables of t say about v.
Walk(t, v) ==
  IF page[t][v] # NoFrame THEN page[t][v]
  ELSE IF <<t, Index(v)>> \in soiled THEN Stale ELSE NoFrame

\* The translation that the CPU uses for v.
Translation(v) == IF tlb[v] # NoFrame THEN tlb[v] ELSE Walk(ttbr, v)

\* The running program uses the page v, and the CPU keeps the translation.
Touch(v) ==
  /\ ~panicked /\ ttbr # NoFrame
  /\ Translation(v) # NoFrame
  /\ tlb' = [tlb EXCEPT ![v] = Translation(v)]
  /\ UNCHANGED <<vars, context, table, page, dirty, soiled, ttbr>>

\* What the other callers of the allocator hold.
OtherFrames == {h \in held : h[2] \notin Spanned(h[1])}

\* The other callers write to their frames before they give them back.
Others ==
  /\ \/ \E t \in Threads :
          Cardinality(OtherFrames) < MaxOther /\ AllocFind(t) /\ UNCHANGED dirty
     \/ \E t \in Threads : AllocTake(t) /\ dirty' = dirty \ {found[t]}
     \/ \E t \in Threads, r \in Requests :
          /\ OtherFrames = {}
          /\ memory_alloc_aligned(t, r[1], r[2])
          /\ dirty' = dirty \cap free'
     \/ \E t \in Threads, f \in Frame :
          f \notin Spanned(t) /\ memory_free(t, f) /\ dirty' = dirty \cup {f}
  /\ UNCHANGED <<context, table, page, soiled, ttbr, tlb>>

ANext ==
  \/ Others
  \/ \E t \in Threads : paging_create_context(t)
  \/ \E t \in Threads : process_create(t)
  \/ \E t \in Threads : process_sbrk(t)
  \/ \E t \in Threads : arch_switch_context(t)
  \/ \E v \in Page : Touch(v)

ASpec == AInit /\ [][ANext]_<<vars, avars>>

-----------------------------------------------------------------------------

\* Whatever the CPU does with a virtual page, from its tables or from the TLB,
\* ends in the frame that the kernel mapped there for the process whose table is
\* active, and that frame is no table and no page of anybody else.  A page that
\* was never mapped faults, unless its page table lies in a frame that held
\* something before: paging_map does not clear it.
ArmTranslationCurrent ==
  /\ ATypeOK
  /\ ttbr # NoFrame => \A v \in Page :
       /\ Translation(v) = (IF page[ttbr][v] # NoFrame THEN page[ttbr][v]
                            ELSE IF <<ttbr, Index(v)>> \in soiled THEN Translation(v)
                            ELSE NoFrame)
       /\ Translation(v) \in Frame =>
            /\ Translation(v) \notin UNION {Spanned(u) : u \in Threads \ {ttbr}}
            /\ Translation(v) \notin {table[ttbr][i] : i \in 0..(Entries - 1)}
            /\ Translation(v) \notin {context[ttbr], context[ttbr] + 1}
=============================================================================
