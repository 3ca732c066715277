------------------------------- MODULE Paging -------------------------------
(***************************************************************************)
(* Address translation of the i386 kernel (kernel/arch/i386/paging.c), as  *)
(* functions on a record m:                                                *)
(*                                                                         *)
(*   mem        the words of every frame, as far as they matter            *)
(*   free       the frames that memory_alloc may return                    *)
(*   window     the kernel mapping area: the frame each of its pages maps  *)
(*   cr3        the page directory the CPU uses                            *)
(*   current_context   what the kernel takes for it                        *)
(*   tlb        the translations the CPU has cached                        *)
(*                                                                         *)
(* Pages are numbered: 0..N*N-1 are the user's, the window follows.  The   *)
(* other kernel mappings are the same in every context and never change;   *)
(* they are left out, and so are access bits, as every mapping made by     *)
(* paging_map is a user's.  A directory has N entries for the user, and    *)
(* the two that lead back to it: VIEW (1022), the table whose last entry   *)
(* shows the directory at page_dir, and SELF (1023), which shows all the   *)
(* tables at page_tables.                                                  *)
(***************************************************************************)
EXTENDS Integers, FiniteSets

CONSTANTS
  N,           \* entries of a table, and user entries of a directory
  FrameCount,  \* frames of the machine
  WindowSize,  \* pages of the kernel mapping area (65536)
  Nil,         \* zero
  Garbage      \* what memory holds at boot

Frame == 0..(FrameCount - 1)

\* Zero in an entry means that there is none; a frame is named by its number.
ASSUME PagingAssumption ==
  /\ N \in Nat \ {0} /\ FrameCount \in Nat /\ WindowSize \in Nat
  /\ FrameCount >= 2 /\ Nil # Garbage /\ Nil \notin Frame /\ Garbage \notin Frame

UserPages == 0..(N * N - 1)
WindowPage(i) == N * N + i
VIEW == N
SELF == N + 1
Word == 0..SELF

Zeroed == [w \in Word |-> Nil]

\* paging_init: the boot directory, frame 0, and the table (frame 1) at VIEW.
paging_init ==
  [mem |-> [f \in Frame |->
              CASE f = 0 -> [Zeroed EXCEPT ![SELF] = 0, ![VIEW] = 1]
                [] f = 1 -> [Zeroed EXCEPT ![SELF] = 0]
                [] OTHER -> [w \in Word |-> Garbage]],
   free |-> Frame \ {0, 1},
   window |-> [i \in 0..(WindowSize - 1) |-> Nil],
   cr3 |-> 0, current_context |-> 0, tlb |-> {}]

-----------------------------------------------------------------------------

Lowest(S) == CHOOSE x \in S : \A y \in S : x <= y

\* memory_alloc returns NextFrame(m) and leaves Take(m), see module Frames.
NextFrame(m) == Lowest(m.free)
Take(m) == [m EXCEPT !.free = @ \ {NextFrame(m)}]

\* The word w of the table in frame f; nothing sensible is read elsewhere.
Entry(m, f, w) == IF f \in Frame THEN m.mem[f][w] ELSE Garbage

\* What a page table walk finds for page v under the directory in frame d.
Walk(m, d, v) ==
  IF v \in UserPages
  THEN LET table == Entry(m, d, v \div N)
       IN  IF table = Nil THEN Nil ELSE Entry(m, table, v % N)
  ELSE m.window[v - N * N]

Cached(m, v) == {e \in m.tlb : e[1] = v}

\* The frame the CPU uses for page v: a cached translation goes first.
Translate(m, v) ==
  IF Cached(m, v) # {} THEN (CHOOSE e \in Cached(m, v) : TRUE)[2] ELSE Walk(m, m.cr3, v)

Single(w, value) == [x \in {w} |-> value]

\* The words of a frame after some of them are written.
Overwrite(frame, words) ==
  [w \in DOMAIN frame |-> IF w \in DOMAIN words THEN words[w] ELSE frame[w]]

\* The CPU writes the given words of page v and keeps the translation.
Write(m, v, words) ==
  LET f == Translate(m, v)
  IN  IF f \in Frame
      THEN [m EXCEPT !.mem = [m.mem EXCEPT ![f] = Overwrite(m.mem[f], words)],
                       !.tlb = @ \cup {<<v, f>>}]
      ELSE m

invlpg(m, v) == [m EXCEPT !.tlb = @ \ Cached(m, v)]

-----------------------------------------------------------------------------

EmptySlots(m) == {i \in DOMAIN m.window : m.window[i] = Nil}
NextSlot(m) == Lowest(EmptySlots(m))

\* The first free page of the window, NextSlot(m), shows frame phys.
paging_map_kernel(m, phys) ==
  invlpg([m EXCEPT !.window = [@ EXCEPT ![NextSlot(m)] = phys]], WindowPage(NextSlot(m)))

\* Faulty variants: the entry stays, the translation stays cached.
unmap_keeps_entry(m, i) == invlpg(m, WindowPage(i))

unmap_without_invlpg(m, i) == [m EXCEPT !.window = [@ EXCEPT ![i] = Nil]]

paging_unmap_kernel(m, i) ==
  invlpg([m EXCEPT !.window = [@ EXCEPT ![i] = Nil]], WindowPage(i))

\* A directory without user mappings, NextFrame(m), and its table at VIEW.
paging_create_context(m) ==
  LET context == NextFrame(m)
      i  == NextSlot(m)
      m1 == paging_map_kernel(Take(m), context)
      table == NextFrame(m1)
      j  == NextSlot(m1)
      m2 == paging_map_kernel(Take(m1), table)
      m3 == Write(m2, WindowPage(j), Zeroed)
      m4 == Write(m3, WindowPage(i), [w \in 0..(N - 1) |-> Nil])
      m5 == Write(m4, WindowPage(j), Single(SELF, context))
      m6 == Write(m5, WindowPage(i),
                  [w \in {VIEW, SELF} |-> IF w = VIEW THEN table ELSE context])
  IN  paging_unmap_kernel(paging_unmap_kernel(m6, j), i)

\* Whether paging_map finds the table for page v at page_tables.
TableInView(m, context, v) ==
  /\ context = m.current_context
  /\ Entry(m, Entry(m, Entry(m, m.cr3, VIEW), SELF), v \div N) # Nil

\* Faulty variant: a new page table is not cleared.
map_without_memset(m, context, v, phys) ==
  LET i  == NextSlot(m)
      m1 == paging_map_kernel(m, context)
      j  == NextSlot(m1)
      entry == Entry(m1, Translate(m1, WindowPage(i)), v \div N)
      m2 == IF entry = Nil
            THEN Write(paging_map_kernel(Take(m1), NextFrame(m1)), WindowPage(i),
                       Single(v \div N, NextFrame(m1)))
            ELSE paging_map_kernel(m1, entry)
      m3 == Write(m2, WindowPage(j), Single(v % N, phys))
  IN  invlpg(paging_unmap_kernel(paging_unmap_kernel(m3, j), i), v)

\* Page v of the context shows frame phys.  The tables of the active context
\* are in view; any other is reached through the window.  No caller leaves the
\* context out (null means the active one).
paging_map(m, context, v, phys) ==
  LET table == Entry(m, Entry(m, m.cr3, SELF), v \div N)
      i  == NextSlot(m)
      m1 == paging_map_kernel(m, context)
      j  == NextSlot(m1)
      entry == Entry(m1, Translate(m1, WindowPage(i)), v \div N)
      fresh == Write(paging_map_kernel(Take(m1), NextFrame(m1)), WindowPage(j), Zeroed)
      m2 == IF entry = Nil
            THEN Write(fresh, WindowPage(i), Single(v \div N, NextFrame(m1)))
            ELSE paging_map_kernel(m1, entry)
      m3 == Write(m2, WindowPage(j), Single(v % N, phys))
  IN  IF TableInView(m, context, v)
      THEN invlpg([m EXCEPT !.mem = [m.mem EXCEPT ![table] = [@ EXCEPT ![v % N] = phys]]], v)
      ELSE invlpg(paging_unmap_kernel(paging_unmap_kernel(m3, j), i), v)

\* Loading cr3 drops the user's translations from the TLB; those of the window
\* are global (bit 0x100, and init.S enables PGE).
paging_activate_context(m, context) ==
  IF context = m.current_context THEN m
  ELSE [m EXCEPT !.cr3 = context, !.current_context = context,
                !.tlb = {e \in @ : e[1] \notin UserPages}]
=============================================================================
