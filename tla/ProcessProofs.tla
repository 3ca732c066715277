--------------------------- MODULE ProcessProofs ----------------------------
(***************************************************************************)
(* Proofs about the processes of the i386 kernel and their address spaces, *)
(* for any size of memory, of the page tables, of the kernel mapping area  *)
(* and of the heap, and any number of processes and threads.               *)
(***************************************************************************)
EXTENDS Process, ThreadListProofs

-----------------------------------------------------------------------------
(* Memory *)

\* What a word of a frame holds.
Value == Frame \cup Procs \cup {Nil, Garbage}

Memory == [mem : [Frame -> [Word -> Value]], free : SUBSET Frame,
           window : [0..(WindowSize - 1) -> Frame \cup {Nil}],
           cr3 : Frame, current_context : Frame, tlb : SUBSET (Nat \X Frame)]

\* Translations of the kernel mapping area are those its entries give.
WindowCurrent(x) ==
  \A e \in x.tlb : \/ e[1] \in UserPages
                   \/ \E i \in 0..(WindowSize - 1) : e[1] = WindowPage(i) /\ e[2] = x.window[i]

UserTlb(x) == {e \in x.tlb : e[1] \in UserPages}

\* Memory y while a handler that was called with memory x uses the window.
InHandler(x, y) ==
  /\ y \in Memory
  /\ WindowCurrent(y)
  /\ y.cr3 = x.cr3
  /\ y.current_context = x.current_context
  /\ UserTlb(y) = UserTlb(x)

\* Memory between two handlers: the window is empty.
Quiet(x) ==
  /\ x \in Memory
  /\ \A i \in 0..(WindowSize - 1) : x.window[i] = Nil
  /\ \A e \in x.tlb : e[1] \in UserPages

-----------------------------------------------------------------------------
(* The use of frames.  Every frame has one use at most: a frame f is the      *)
(* directory, the table at VIEW, the page table at[f] or the page at[f] of    *)
(* the address space with directory of[f], or waits in process_sbrk of thread *)
(* of[f] to be mapped ("loose"), or is free.                                  *)

\* The address space with directory d.
Space(x, d, kind, of, at) ==
  /\ d \in Frame /\ kind[d] = "dir" /\ x.mem[d][SELF] = d
  /\ LET f == x.mem[d][VIEW] IN
       f \in Frame /\ kind[f] = "view" /\ of[f] = d /\ x.mem[f][SELF] = d
  /\ \A i \in 0..(N - 1) :
       LET f == x.mem[d][i] IN
       f # Nil => f \in Frame /\ kind[f] = "table" /\ of[f] = d /\ at[f] = i
  /\ \A v \in UserPages :
       LET f == Walk(x, d, v) IN
       f # Nil => f \in Frame /\ kind[f] = "page" /\ of[f] = d /\ at[f] = v

\* The address spaces with directories D, and the frames that are still as
\* they were at boot.
Spaces(x, D, kind, of, at) ==
  /\ \A f \in x.free : kind[f] = "free"
  /\ \A f \in Frame : kind[f] \in {"free", "loose"} => \A w \in Word : x.mem[f][w] = Garbage
  /\ \A d \in D : Space(x, d, kind, of, at)

-----------------------------------------------------------------------------
(* Numbers *)

\* Indices of pages in the tables and in the window.
LEMMA PageNumbers ==
  /\ UserPages \subseteq Nat /\ StackPage \in UserPages /\ HeapStart \in Nat
  /\ HeapStart <= StackPage
  /\ \A v \in Nat : v <= StackPage <=> v \in UserPages
  /\ \A v \in UserPages : v \div N \in 0..(N - 1) /\ v % N \in 0..(N - 1)
  /\ \A u, v \in UserPages : u \div N = v \div N /\ u % N = v % N => u = v
  /\ \A i \in Nat : WindowPage(i) \in Nat /\ WindowPage(i) \notin UserPages
  /\ \A i, j \in Nat : WindowPage(i) = WindowPage(j) => i = j
  /\ \A i \in Nat : WindowPage(i) - N * N = i
<1> DEFINE M == N * N
<1>1. N \in Nat \ {0} /\ HeapStart \in UserPages
  BY PagingAssumption, ProcessAssumption
<1>2. M \in Nat /\ M # 0
  <2>1. \A a \in Nat \ {0} : a * a \in Nat /\ a * a # 0
    OBVIOUS
  <2> QED
    BY <1>1, <2>1
<1>3. UserPages = 0..(M - 1) /\ StackPage = M - 1 /\ \A i : WindowPage(i) = M + i
  BY DEF UserPages, StackPage, WindowPage
<1>4. ASSUME NEW v \in UserPages
      PROVE  /\ v \div N \in 0..(N - 1) /\ v % N \in 0..(N - 1)
             /\ v = N * (v \div N) + (v % N)
  <2> DEFINE q == v \div N
             r == v % N
  <2>1. v \in Nat /\ v < N * N
    BY <1>2, <1>3
  <2>2. q \in Nat /\ r \in 0..(N - 1) /\ v = N * q + r
    BY <1>1, <2>1
  <2> HIDE DEF q, r
  <2>3. CASE q >= N
    <3>1. N * q >= N * N
      BY <1>1, <2>2, <2>3
    <3> QED
      BY <1>1, <2>1, <2>2, <3>1
  <2>4. CASE ~(q >= N)
    BY <1>1, <2>2, <2>4 DEF q, r
  <2> QED
    BY <2>3, <2>4
<1>5. \A u, v \in UserPages : u \div N = v \div N /\ u % N = v % N => u = v
  BY <1>4, Zenon
<1> HIDE DEF M
<1>6. /\ UserPages \subseteq Nat /\ StackPage \in UserPages /\ HeapStart \in Nat
      /\ HeapStart <= StackPage
      /\ \A v \in Nat : v <= StackPage <=> v \in UserPages
  BY <1>1, <1>2, <1>3
<1>7. /\ \A i \in Nat : WindowPage(i) \in Nat /\ WindowPage(i) \notin UserPages
      /\ \A i, j \in Nat : WindowPage(i) = WindowPage(j) => i = j
      /\ \A i \in Nat : WindowPage(i) - M = i
  BY <1>2, <1>3
<1> QED
  BY <1>4, <1>5, <1>6, <1>7 DEF M

\* The words of a table.
LEMMA Words ==
  /\ 0..(N - 1) \subseteq Word /\ 0 \in 0..(N - 1) /\ 0 \in Word
  /\ VIEW \in Word /\ SELF \in Word /\ VIEW # SELF
  /\ VIEW \notin 0..(N - 1) /\ SELF \notin 0..(N - 1)
  BY PagingAssumption DEF Word, VIEW, SELF

\* Frames are finitely many numbers.
LEMMA FrameFacts ==
  /\ Frame \subseteq Nat /\ IsFiniteSet(Frame) /\ 0 \in Frame /\ 1 \in Frame
  /\ Nil \notin Frame /\ Garbage \notin Frame
  /\ IsFiniteSet(0..(WindowSize - 1)) /\ 0..(WindowSize - 1) \subseteq Nat
<1>1. FrameCount \in Nat /\ FrameCount >= 2 /\ WindowSize \in Nat
  BY PagingAssumption
<1>2. FrameCount - 1 \in Int /\ WindowSize - 1 \in Int /\ 0 \in Int
  BY <1>1
<1>3. IsFiniteSet(0..(FrameCount - 1)) /\ IsFiniteSet(0..(WindowSize - 1))
  BY <1>2, FS_Interval
<1> QED
  BY <1>1, <1>3, PagingAssumption DEF Frame

\* Of k + 1 numbers the lowest can be taken, and k are left.
LEMMA TakeLowest ==
  ASSUME NEW S \in SUBSET Nat, IsFiniteSet(S), NEW k \in Nat, Cardinality(S) >= k + 1
  PROVE  /\ Lowest(S) \in S
         /\ S \ {Lowest(S)} \in SUBSET Nat /\ IsFiniteSet(S \ {Lowest(S)})
         /\ Cardinality(S \ {Lowest(S)}) >= k
<1>1. S # {}
  <2>1. Cardinality({}) = 0
    BY FS_EmptySet
  <2> QED
    BY <2>1
<1>2. Lowest(S) \in S
  BY <1>1, SmallestExists DEF Lowest
<1>3. Cardinality(S \ {Lowest(S)}) = Cardinality(S) - 1 /\ IsFiniteSet(S \ {Lowest(S)})
  BY <1>2, FS_RemoveElement
<1>4. Cardinality(S) \in Nat
  BY FS_CardinalityType
<1>5. Cardinality(S \ {Lowest(S)}) >= k
  <2>1. \A a, b \in Int : a = b - 1 /\ b >= k + 1 => a >= k
    OBVIOUS
  <2>2. Cardinality(S \ {Lowest(S)}) \in Int
    BY <1>3, FS_CardinalityType
  <2> QED
    BY <1>3, <1>4, <2>1, <2>2
<1>6. S \ {Lowest(S)} \in SUBSET Nat
  OBVIOUS
<1> QED
  BY <1>2, <1>3, <1>5, <1>6

-----------------------------------------------------------------------------
(* The kernel mapping area *)

\* A current cache agrees with the page tables.
LEMMA TranslateCurrent ==
  ASSUME NEW x, NEW v, \A e \in x.tlb : e[1] = v => e[2] = Walk(x, x.cr3, v)
  PROVE  Translate(x, v) = Walk(x, x.cr3, v)
<1>1. CASE Cached(x, v) = {}
  BY <1>1 DEF Translate
<1>2. CASE Cached(x, v) # {}
  <2>1. (CHOOSE e \in Cached(x, v) : TRUE) \in Cached(x, v)
    BY <1>2
  <2> QED
    BY <1>2, <2>1 DEF Translate, Cached
<1> QED
  BY <1>1, <1>2

LEMMA TranslateWindow ==
  ASSUME NEW x \in Memory, WindowCurrent(x), NEW i \in 0..(WindowSize - 1)
  PROVE  Translate(x, WindowPage(i)) = x.window[i]
<1>1. /\ i \in Nat /\ WindowPage(i) \notin UserPages /\ WindowPage(i) - N * N = i
      /\ \A j \in 0..(WindowSize - 1) : WindowPage(i) = WindowPage(j) => i = j
  BY PageNumbers, FrameFacts
<1>2. Walk(x, x.cr3, WindowPage(i)) = x.window[i]
  BY <1>1 DEF Walk
<1>3. \A e \in x.tlb : e[1] = WindowPage(i) => e[2] = Walk(x, x.cr3, WindowPage(i))
  BY <1>1, <1>2 DEF WindowCurrent
<1> QED
  BY <1>2, <1>3, TranslateCurrent

\* A handler starts in quiet memory, and is back in it when it has emptied the
\* window: no translation of the window is left in the cache.
LEMMA Entering ==
  ASSUME NEW x, Quiet(x)
  PROVE  InHandler(x, x)
  BY DEF Quiet, InHandler, WindowCurrent

LEMMA Leaving ==
  ASSUME NEW x, Quiet(x), NEW y, InHandler(x, y), \A i \in 0..(WindowSize - 1) : y.window[i] = Nil
  PROVE  Quiet(y) /\ y.tlb = x.tlb
<1>1. y \in Memory /\ y.tlb \subseteq Nat \X Frame
  BY DEF InHandler, Memory
<1>2. \A e \in y.tlb : e[2] # Nil
  BY <1>1, FrameFacts
<1>3. \A e \in y.tlb : e[1] \in UserPages
  BY <1>2 DEF InHandler, WindowCurrent
<1>4. UserTlb(y) = y.tlb
  BY <1>3 DEF UserTlb
<1>5. UserTlb(x) = x.tlb
  BY DEF Quiet, UserTlb
<1> QED
  BY <1>1, <1>3, <1>4, <1>5 DEF Quiet, InHandler

\* The frame that words are written to through the window.
LEMMA WriteWindow ==
  ASSUME NEW x, NEW y, InHandler(x, y), NEW i \in 0..(WindowSize - 1), NEW f \in Frame,
         y.window[i] = f, NEW words, \A w \in DOMAIN words : words[w] \in Value,
         NEW z, z = Write(y, WindowPage(i), words)
  PROVE  /\ InHandler(x, z)
         /\ z.mem = [y.mem EXCEPT ![f] = Overwrite(y.mem[f], words)]
         /\ z.window = y.window /\ z.free = y.free
<1>1. y \in Memory /\ WindowCurrent(y) /\ i \in Nat
  BY FrameFacts DEF InHandler
<1>2. Translate(y, WindowPage(i)) = f
  BY <1>1, TranslateWindow
<1> DEFINE mem == [y.mem EXCEPT ![f] = Overwrite(y.mem[f], words)]
           tlb == y.tlb \cup {<<WindowPage(i), f>>}
<1>3. z = [y EXCEPT !.mem = mem, !.tlb = tlb]
  <2> DEFINE g == Translate(y, WindowPage(i))
  <2>1. Write(y, WindowPage(i), words) =
          IF g \in Frame
          THEN [y EXCEPT !.mem = [y.mem EXCEPT ![g] = Overwrite(y.mem[g], words)],
                         !.tlb = y.tlb \cup {<<WindowPage(i), g>>}]
          ELSE y
    BY Zenon DEF Write
  <2> HIDE DEF g
  <2>2. g = f
    BY <1>2 DEF g
  <2> QED
    BY <2>1, <2>2
<1>a. /\ z.mem = mem /\ z.window = y.window /\ z.free = y.free
      /\ z.cr3 = y.cr3 /\ z.current_context = y.current_context
      /\ z.tlb = tlb
  <2> HIDE DEF mem, tlb
  <2> QED
    BY <1>1, <1>3 DEF Memory
<1>4. /\ z.mem = [y.mem EXCEPT ![f] = Overwrite(y.mem[f], words)]
      /\ z.window = y.window /\ z.free = y.free
      /\ z.cr3 = y.cr3 /\ z.current_context = y.current_context
      /\ z.tlb = y.tlb \cup {<<WindowPage(i), f>>}
  BY <1>a
<1>5. Overwrite(y.mem[f], words) \in [Word -> Value]
  <2>1. y.mem[f] \in [Word -> Value]
    BY <1>1 DEF Memory
  <2> QED
    BY <2>1 DEF Overwrite
<1>6. WindowPage(i) \in Nat /\ WindowPage(i) \notin UserPages
  BY <1>1, PageNumbers
<1>7. z \in Memory
  <2>1. z.mem \in [Frame -> [Word -> Value]]
    BY <1>1, <1>4, <1>5 DEF Memory
  <2>2. z.tlb \in SUBSET (Nat \X Frame)
    BY <1>1, <1>4, <1>6 DEF Memory
  <2> QED
    BY <1>1, <1>3, <1>4, <2>1, <2>2 DEF Memory
<1>8. WindowCurrent(z)
  BY <1>1, <1>4 DEF WindowCurrent
<1>9. UserTlb(z) = UserTlb(y)
  BY <1>4, <1>6 DEF UserTlb
<1> QED
  BY <1>4, <1>7, <1>8, <1>9 DEF InHandler

\* Entry i of the window is changed and its translation dropped.
LEMMA SetWindow ==
  ASSUME NEW x, NEW y, InHandler(x, y), NEW i \in 0..(WindowSize - 1), NEW f \in Frame \cup {Nil},
         NEW z, z = invlpg([y EXCEPT !.window = [@ EXCEPT ![i] = f]], WindowPage(i))
  PROVE  /\ InHandler(x, z)
         /\ z.window = [y.window EXCEPT ![i] = f]
         /\ z.mem = y.mem /\ z.free = y.free
<1>1. y \in Memory /\ WindowCurrent(y) /\ i \in Nat
  BY FrameFacts DEF InHandler
<1> DEFINE y1 == [y EXCEPT !.window = [@ EXCEPT ![i] = f]]
<1>2. /\ y1 \in Memory /\ y1.window = [y.window EXCEPT ![i] = f] /\ y1.tlb = y.tlb
      /\ y1.mem = y.mem /\ y1.free = y.free
      /\ y1.cr3 = y.cr3 /\ y1.current_context = y.current_context
  BY <1>1 DEF Memory
<1>3. z = [y1 EXCEPT !.tlb = @ \ {e \in y1.tlb : e[1] = WindowPage(i)}]
  BY DEF invlpg, Cached
<1> HIDE DEF y1
<1>4. /\ z \in Memory /\ z.window = y1.window /\ z.mem = y1.mem /\ z.free = y1.free
      /\ z.cr3 = y1.cr3 /\ z.current_context = y1.current_context
      /\ z.tlb = {e \in y.tlb : e[1] # WindowPage(i)}
  BY <1>2, <1>3 DEF Memory
<1>5. WindowPage(i) \notin UserPages
  BY <1>1, PageNumbers
<1>6. WindowCurrent(z)
  <2> SUFFICES ASSUME NEW e \in z.tlb, e[1] \notin UserPages
               PROVE  \E j \in 0..(WindowSize - 1) : e[1] = WindowPage(j) /\ e[2] = z.window[j]
    BY DEF WindowCurrent
  <2>1. PICK j \in 0..(WindowSize - 1) : e[1] = WindowPage(j) /\ e[2] = y.window[j]
    BY <1>1, <1>4 DEF WindowCurrent
  <2>2. j # i
    BY <1>4, <2>1
  <2>3. z.window[j] = y.window[j]
    BY <1>1, <1>2, <1>4, <2>1, <2>2 DEF Memory
  <2> QED
    BY <2>1, <2>3
<1>7. UserTlb(z) = UserTlb(y)
  BY <1>4, <1>5 DEF UserTlb
<1> QED
  BY <1>2, <1>4, <1>6, <1>7 DEF InHandler

\* paging_map_kernel shows frame f in a page of the window that was free.
LEMMA MapKernel ==
  ASSUME NEW x, NEW y, InHandler(x, y), NEW f \in Frame, NEW k \in Nat,
         Cardinality(EmptySlots(y)) >= k + 1,
         NEW i, i = NextSlot(y), NEW z, z = paging_map_kernel(y, f)
  PROVE  /\ InHandler(x, z)
         /\ i \in 0..(WindowSize - 1) /\ y.window[i] = Nil
         /\ z.window = [y.window EXCEPT ![i] = f]
         /\ Cardinality(EmptySlots(z)) >= k
         /\ z.mem = y.mem /\ z.free = y.free
<1>1. y.window \in [0..(WindowSize - 1) -> Frame \cup {Nil}]
  BY DEF InHandler, Memory
<1>2. EmptySlots(y) = {j \in 0..(WindowSize - 1) : y.window[j] = Nil}
  BY <1>1 DEF EmptySlots
<1>3. EmptySlots(y) \in SUBSET Nat /\ IsFiniteSet(EmptySlots(y))
  <2>1. EmptySlots(y) \subseteq 0..(WindowSize - 1)
    BY <1>2
  <2> QED
    BY <2>1, FrameFacts, FS_Subset
<1>4. i \in EmptySlots(y) /\ Cardinality(EmptySlots(y) \ {i}) >= k
  BY <1>3, TakeLowest DEF NextSlot
<1>5. i \in 0..(WindowSize - 1) /\ y.window[i] = Nil
  BY <1>2, <1>4
<1>6. z = invlpg([y EXCEPT !.window = [@ EXCEPT ![i] = f]], WindowPage(i))
  BY DEF paging_map_kernel
<1>7. /\ InHandler(x, z) /\ z.window = [y.window EXCEPT ![i] = f]
      /\ z.mem = y.mem /\ z.free = y.free
  BY <1>5, <1>6, SetWindow
<1>8. EmptySlots(z) = EmptySlots(y) \ {i}
  <2>1. EmptySlots(z) = {j \in 0..(WindowSize - 1) : z.window[j] = Nil}
    BY <1>1, <1>7 DEF EmptySlots
  <2>2. \A j \in 0..(WindowSize - 1) : z.window[j] = IF j = i THEN f ELSE y.window[j]
    BY <1>1, <1>7
  <2> QED
    BY <1>2, <2>1, <2>2, FrameFacts
<1> QED
  BY <1>4, <1>5, <1>7, <1>8

\* paging_unmap_kernel
LEMMA UnmapKernel ==
  ASSUME NEW x, NEW y, InHandler(x, y), NEW i \in 0..(WindowSize - 1),
         NEW z, z = paging_unmap_kernel(y, i)
  PROVE  /\ InHandler(x, z)
         /\ z.window = [y.window EXCEPT ![i] = Nil]
         /\ z.mem = y.mem /\ z.free = y.free
<1>1. z = invlpg([y EXCEPT !.window = [@ EXCEPT ![i] = Nil]], WindowPage(i))
  BY DEF paging_unmap_kernel
<1> QED
  BY <1>1, SetWindow

\* memory_alloc takes a free frame.
LEMMA TakeFrame ==
  ASSUME NEW x, NEW y, InHandler(x, y), NEW k \in Nat, Cardinality(y.free) >= k + 1,
         NEW f, f = NextFrame(y), NEW z, z = Take(y)
  PROVE  /\ InHandler(x, z)
         /\ f \in y.free /\ f \in Frame
         /\ z.free = y.free \ {f}
         /\ Cardinality(z.free) >= k
         /\ z.mem = y.mem /\ z.window = y.window
<1>1. y \in Memory /\ y.free \in SUBSET Frame
  BY DEF InHandler, Memory
<1>2. y.free \in SUBSET Nat /\ IsFiniteSet(y.free)
  BY <1>1, FrameFacts, FS_Subset
<1>3. f \in y.free /\ Cardinality(y.free \ {f}) >= k
  BY <1>2, TakeLowest DEF NextFrame
<1>4. z = [y EXCEPT !.free = @ \ {f}]
  BY DEF Take
<1>5. /\ z \in Memory /\ z.free = y.free \ {f} /\ z.mem = y.mem /\ z.window = y.window
      /\ z.cr3 = y.cr3 /\ z.current_context = y.current_context /\ z.tlb = y.tlb
  BY <1>1, <1>4 DEF Memory
<1> QED
  BY <1>1, <1>3, <1>5 DEF InHandler, WindowCurrent, UserTlb

LEMMA SameWindow ==
  ASSUME NEW y, NEW z, y.window = z.window
  PROVE  EmptySlots(y) = EmptySlots(z) /\ NextSlot(y) = NextSlot(z)
  BY DEF EmptySlots, NextSlot

\* What a write leaves in the words of a frame.
LEMMA OverwriteWord ==
  ASSUME NEW g \in [Word -> Value], NEW words, NEW w \in Word
  PROVE  Overwrite(g, words)[w] = IF w \in DOMAIN words THEN words[w] ELSE g[w]
  BY DEF Overwrite

-----------------------------------------------------------------------------
(* paging_create_context *)

\* The new directory and its table at VIEW are taken from the free frames and
\* lead to each other; no other frame changes and the window is given back.
LEMMA CreateContext ==
  ASSUME NEW x, Quiet(x), NEW k \in Nat, Cardinality(x.free) >= k + 1 + 1,
         Cardinality(EmptySlots(x)) >= 2,
         NEW c, c = NextFrame(x), NEW r, r = paging_create_context(x)
  PROVE  \E t \in x.free :
           /\ c \in x.free /\ t # c /\ r.free = x.free \ {c, t}
           /\ Cardinality(r.free) >= k
           /\ Quiet(r) /\ r.cr3 = x.cr3 /\ r.current_context = x.current_context
           /\ r.tlb = x.tlb /\ r.window = x.window
           /\ \A g \in Frame : g # c /\ g # t => r.mem[g] = x.mem[g]
           /\ r.mem[c][VIEW] = t /\ r.mem[c][SELF] = c
           /\ \A i \in 0..(N - 1) : r.mem[c][i] = Nil
           /\ r.mem[t][SELF] = c
<1> DEFINE y0 == Take(x)
           i  == NextSlot(x)
           y1 == paging_map_kernel(y0, c)
           t  == NextFrame(y1)
           j  == NextSlot(y1)
           y2 == Take(y1)
           y3 == paging_map_kernel(y2, t)
           w4 == Zeroed
           y4 == Write(y3, WindowPage(j), w4)
           w5 == [w \in 0..(N - 1) |-> Nil]
           y5 == Write(y4, WindowPage(i), w5)
           w6 == Single(SELF, c)
           y6 == Write(y5, WindowPage(j), w6)
           w7 == [w \in {VIEW, SELF} |-> IF w = VIEW THEN t ELSE c]
           y7 == Write(y6, WindowPage(i), w7)
           y8 == paging_unmap_kernel(y7, j)
           y9 == paging_unmap_kernel(y8, i)
<1>1. r = y9
  BY Zenon DEF paging_create_context
<1>2. k + 1 \in Nat /\ 1 \in Nat /\ 2 = 1 + 1 /\ 0 \in Nat /\ 1 = 0 + 1
  OBVIOUS
<1>3. /\ InHandler(x, y0) /\ c \in x.free /\ c \in Frame
      /\ y0.free = x.free \ {c} /\ Cardinality(y0.free) >= k + 1
      /\ y0.mem = x.mem /\ y0.window = x.window
  <2>1. InHandler(x, x)
    BY Entering
  <2> QED
    BY <1>2, <2>1, TakeFrame
<1>4. /\ InHandler(x, y1)
      /\ i \in 0..(WindowSize - 1) /\ x.window[i] = Nil
      /\ y1.window = [x.window EXCEPT ![i] = c]
      /\ Cardinality(EmptySlots(y1)) >= 1
      /\ y1.mem = x.mem /\ y1.free = y0.free
  <2>1. EmptySlots(y0) = EmptySlots(x) /\ NextSlot(y0) = i
    BY <1>3, SameWindow
  <2>2. InHandler(x, y0) /\ c \in Frame /\ Cardinality(EmptySlots(y0)) >= 1 + 1
    BY <1>2, <1>3, <2>1
  <2> HIDE DEF y0
  <2> QED
    BY <1>2, <1>3, <2>1, <2>2, MapKernel
<1> HIDE DEF y0, i, y1
<1>5. /\ InHandler(x, y2) /\ t \in y1.free /\ t \in Frame
      /\ y2.free = y1.free \ {t} /\ Cardinality(y2.free) >= k
      /\ y2.mem = y1.mem /\ y2.window = y1.window
  <2>1. Cardinality(y1.free) >= k + 1
    BY <1>3, <1>4
  <2> QED
    BY <1>4, <2>1, TakeFrame
<1>6. /\ InHandler(x, y3)
      /\ j \in 0..(WindowSize - 1) /\ y1.window[j] = Nil
      /\ y3.window = [y1.window EXCEPT ![j] = t]
      /\ y3.mem = x.mem /\ y3.free = y2.free
  <2>1. EmptySlots(y2) = EmptySlots(y1) /\ NextSlot(y2) = j
    BY <1>5, SameWindow
  <2> PICK z \in Nat : z = 0
    OBVIOUS
  <2>2. Cardinality(EmptySlots(y2)) >= z + 1
    <3>1. Cardinality(EmptySlots(y2)) >= 1 /\ z + 1 = 1
      BY <1>4, <2>1
    <3> QED
      BY <3>1
  <2>3. /\ InHandler(x, y2) /\ t \in Frame /\ j = NextSlot(y2)
        /\ y3 = paging_map_kernel(y2, t)
    BY <1>5, <2>1
  <2> HIDE DEF y2, t, j, y3
  <2>4. /\ InHandler(x, y3)
        /\ j \in 0..(WindowSize - 1) /\ y2.window[j] = Nil
        /\ y3.window = [y2.window EXCEPT ![j] = t]
        /\ y3.mem = y2.mem /\ y3.free = y2.free
    BY <2>2, <2>3, MapKernel
  <2> QED
    BY <1>4, <1>5, <2>4
<1> HIDE DEF y2, t, j, y3
<1>7. x.window \in [0..(WindowSize - 1) -> Frame \cup {Nil}] /\ x.mem \in [Frame -> [Word -> Value]]
  BY DEF Quiet, Memory
<1>8. i # j /\ y3.window[i] = c /\ y3.window[j] = t /\ t # c
  <2>1. y1.window[i] = c /\ c # Nil
    BY <1>3, <1>4, <1>7, FrameFacts
  <2>2. i # j
    BY <1>6, <2>1
  <2>3. y1.window \in [0..(WindowSize - 1) -> Frame \cup {Nil}]
    BY <1>4 DEF InHandler, Memory
  <2> QED
    BY <1>3, <1>4, <1>5, <1>6, <2>1, <2>2, <2>3
<1>9. /\ \A w \in DOMAIN w4 : w4[w] \in Value
      /\ \A w \in DOMAIN w5 : w5[w] \in Value
      /\ \A w \in DOMAIN w6 : w6[w] \in Value
      /\ \A w \in DOMAIN w7 : w7[w] \in Value
  BY <1>3, <1>5 DEF Zeroed, Single, Value
<1>10. /\ DOMAIN w4 = Word /\ \A w \in Word : w4[w] = Nil
       /\ DOMAIN w5 = 0..(N - 1) /\ \A w \in 0..(N - 1) : w5[w] = Nil
       /\ DOMAIN w6 = {SELF} /\ w6[SELF] = c
       /\ DOMAIN w7 = {VIEW, SELF} /\ w7[VIEW] = t /\ w7[SELF] = c
  BY Words DEF Zeroed, Single
<1> HIDE DEF w4, w5, w6, w7
<1>11. /\ InHandler(x, y4) /\ y4.mem = [x.mem EXCEPT ![t] = Overwrite(x.mem[t], w4)]
       /\ y4.window = y3.window /\ y4.free = y3.free
  <2>1. /\ InHandler(x, y3) /\ j \in 0..(WindowSize - 1) /\ t \in Frame /\ y3.window[j] = t
        /\ \A w \in DOMAIN w4 : w4[w] \in Value
        /\ y4 = Write(y3, WindowPage(j), w4)
    BY <1>5, <1>6, <1>8, <1>9
  <2> HIDE DEF y4
  <2>2. /\ InHandler(x, y4) /\ y4.mem = [y3.mem EXCEPT ![t] = Overwrite(y3.mem[t], w4)]
        /\ y4.window = y3.window /\ y4.free = y3.free
    BY <2>1, WriteWindow
  <2> QED
    BY <1>6, <2>2
<1> HIDE DEF y4
<1>12. /\ InHandler(x, y5) /\ y5.mem = [y4.mem EXCEPT ![c] = Overwrite(y4.mem[c], w5)]
       /\ y5.window = y3.window /\ y5.free = y3.free
  <2>1. /\ InHandler(x, y4) /\ i \in 0..(WindowSize - 1) /\ c \in Frame /\ y4.window[i] = c
        /\ \A w \in DOMAIN w5 : w5[w] \in Value
        /\ y5 = Write(y4, WindowPage(i), w5)
    BY <1>3, <1>4, <1>5, <1>6, <1>8, <1>9, <1>11
  <2> HIDE DEF y5
  <2>2. /\ InHandler(x, y5) /\ y5.mem = [y4.mem EXCEPT ![c] = Overwrite(y4.mem[c], w5)]
        /\ y5.window = y4.window /\ y5.free = y4.free
    BY <2>1, WriteWindow
  <2> QED
    BY <1>11, <2>2
<1> HIDE DEF y5
<1>13. /\ InHandler(x, y6) /\ y6.mem = [y5.mem EXCEPT ![t] = Overwrite(y5.mem[t], w6)]
       /\ y6.window = y3.window /\ y6.free = y3.free
  <2>1. /\ InHandler(x, y5) /\ j \in 0..(WindowSize - 1) /\ t \in Frame /\ y5.window[j] = t
        /\ \A w \in DOMAIN w6 : w6[w] \in Value
        /\ y6 = Write(y5, WindowPage(j), w6)
    BY <1>3, <1>4, <1>5, <1>6, <1>8, <1>9, <1>12
  <2> HIDE DEF y6
  <2>2. /\ InHandler(x, y6) /\ y6.mem = [y5.mem EXCEPT ![t] = Overwrite(y5.mem[t], w6)]
        /\ y6.window = y5.window /\ y6.free = y5.free
    BY <2>1, WriteWindow
  <2> QED
    BY <1>12, <2>2
<1> HIDE DEF y6
<1>14. /\ InHandler(x, y7) /\ y7.mem = [y6.mem EXCEPT ![c] = Overwrite(y6.mem[c], w7)]
       /\ y7.window = y3.window /\ y7.free = y3.free
  <2>1. /\ InHandler(x, y6) /\ i \in 0..(WindowSize - 1) /\ c \in Frame /\ y6.window[i] = c
        /\ \A w \in DOMAIN w7 : w7[w] \in Value
        /\ y7 = Write(y6, WindowPage(i), w7)
    BY <1>3, <1>4, <1>5, <1>6, <1>8, <1>9, <1>13
  <2> HIDE DEF y7
  <2>2. /\ InHandler(x, y7) /\ y7.mem = [y6.mem EXCEPT ![c] = Overwrite(y6.mem[c], w7)]
        /\ y7.window = y6.window /\ y7.free = y6.free
    BY <2>1, WriteWindow
  <2> QED
    BY <1>13, <2>2
<1> HIDE DEF y7
<1>15. /\ InHandler(x, y8) /\ y8.mem = y7.mem /\ y8.free = y7.free
       /\ y8.window = [y7.window EXCEPT ![j] = Nil]
  BY <1>6, <1>14, UnmapKernel
<1> HIDE DEF y8
<1>16. /\ InHandler(x, r) /\ r.mem = y7.mem /\ r.free = y7.free
       /\ r.window = [y8.window EXCEPT ![i] = Nil]
  BY <1>1, <1>4, <1>15, UnmapKernel
<1> HIDE DEF y9
<1>17. r.window = x.window
  <2>1. r.window = [[[[x.window EXCEPT ![i] = c] EXCEPT ![j] = t] EXCEPT ![j] = Nil] EXCEPT ![i] = Nil]
    BY <1>4, <1>6, <1>14, <1>15, <1>16
  <2>2. x.window[i] = Nil /\ x.window[j] = Nil
    BY <1>4, <1>6, <1>7, <1>8
  <2> QED
    BY <1>4, <1>6, <1>7, <2>1, <2>2
<1>18. Quiet(r) /\ r.tlb = x.tlb
  <2>1. InHandler(x, r) /\ \A n \in 0..(WindowSize - 1) : r.window[n] = Nil
    BY <1>16, <1>17 DEF Quiet
  <2> QED
    BY <2>1, Leaving
<1>19. /\ r.free = x.free \ {c, t} /\ t \in x.free
       /\ Cardinality(r.free) >= k
  BY <1>3, <1>4, <1>5, <1>6, <1>14, <1>16
<1>20. \A g \in Frame : g # c /\ g # t => r.mem[g] = x.mem[g]
  BY <1>3, <1>5, <1>7, <1>11, <1>12, <1>13, <1>14, <1>16 DEF InHandler, Memory
<1>21. /\ y4.mem \in [Frame -> [Word -> Value]] /\ y5.mem \in [Frame -> [Word -> Value]]
       /\ y6.mem \in [Frame -> [Word -> Value]] /\ y7.mem \in [Frame -> [Word -> Value]]
  BY <1>11, <1>12, <1>13, <1>14 DEF InHandler, Memory
<1>22. \A w \in Word :
         r.mem[c][w] = IF w \in {VIEW, SELF} THEN w7[w]
                       ELSE IF w \in 0..(N - 1) THEN w5[w] ELSE x.mem[c][w]
  <2> TAKE w \in Word
  <2>1. r.mem[c][w] = IF w \in DOMAIN w7 THEN w7[w] ELSE y6.mem[c][w]
    <3>1. r.mem[c] = Overwrite(y6.mem[c], w7) /\ y6.mem[c] \in [Word -> Value]
      BY <1>3, <1>14, <1>16, <1>21
    <3> QED
      BY <3>1, OverwriteWord
  <2>2. y6.mem[c] = y5.mem[c]
    BY <1>3, <1>5, <1>8, <1>13, <1>21
  <2>3. y5.mem[c][w] = IF w \in DOMAIN w5 THEN w5[w] ELSE y4.mem[c][w]
    <3>1. y5.mem[c] = Overwrite(y4.mem[c], w5) /\ y4.mem[c] \in [Word -> Value]
      BY <1>3, <1>12, <1>21
    <3> QED
      BY <3>1, OverwriteWord
  <2>4. y4.mem[c] = x.mem[c]
    BY <1>3, <1>5, <1>7, <1>8, <1>11
  <2> QED
    BY <1>10, <2>1, <2>2, <2>3, <2>4
<1>23. r.mem[t][SELF] = c
  <2>1. r.mem[t] = y6.mem[t]
    BY <1>3, <1>5, <1>8, <1>14, <1>16, <1>21
  <2>2. y6.mem[t][SELF] = IF SELF \in DOMAIN w6 THEN w6[SELF] ELSE y5.mem[t][SELF]
    <3>1. y6.mem[t] = Overwrite(y5.mem[t], w6) /\ y5.mem[t] \in [Word -> Value]
      BY <1>5, <1>13, <1>21
    <3> QED
      BY <3>1, OverwriteWord, Words
  <2> QED
    BY <1>10, <2>1, <2>2
<1>24. /\ r.mem[c][VIEW] = t /\ r.mem[c][SELF] = c
       /\ \A w \in 0..(N - 1) : r.mem[c][w] = Nil
  BY <1>10, <1>22, Words
<1>25. r.cr3 = x.cr3 /\ r.current_context = x.current_context
  BY <1>16 DEF InHandler
<1> QED
  BY <1>3, <1>8, <1>17, <1>18, <1>19, <1>20, <1>23, <1>24, <1>25

-----------------------------------------------------------------------------
(* paging_map *)

\* What mapping frame f at page v of the address space with directory d does:
\* only the directory and the page table t change.  The table is new if the
\* directory had none.
MapEffect(x, r, d, v, f, t) ==
  /\ Quiet(r) /\ r.cr3 = x.cr3 /\ r.current_context = x.current_context
  /\ r.window = x.window
  /\ r.tlb = {e \in x.tlb : e[1] # v}
  /\ t \in Frame /\ t # d /\ r.free = x.free \ {t}
  /\ t = x.mem[d][v \div N] \/ (x.mem[d][v \div N] = Nil /\ t \in x.free)
  /\ \A g \in Frame : g # d /\ g # t => r.mem[g] = x.mem[g]
  /\ \A w \in Word : r.mem[d][w] = IF w = v \div N THEN t ELSE x.mem[d][w]
  /\ \A w \in Word : r.mem[t][w] = IF w = v % N THEN f
                                   ELSE IF x.mem[d][v \div N] = Nil THEN Nil ELSE x.mem[t][w]

\* Dropping the translations of page v.
LEMMA DropPage ==
  ASSUME NEW y, Quiet(y), NEW v, NEW r, r = invlpg(y, v)
  PROVE  /\ Quiet(r) /\ r.cr3 = y.cr3 /\ r.current_context = y.current_context
         /\ r.window = y.window /\ r.free = y.free /\ r.mem = y.mem
         /\ r.tlb = {e \in y.tlb : e[1] # v}
<1>1. y \in Memory
  BY DEF Quiet
<1>2. r = [y EXCEPT !.tlb = {e \in y.tlb : e[1] # v}]
  BY <1>1 DEF invlpg, Cached, Memory
<1>3. /\ r \in Memory /\ r.cr3 = y.cr3 /\ r.current_context = y.current_context
      /\ r.window = y.window /\ r.free = y.free /\ r.mem = y.mem
      /\ r.tlb = {e \in y.tlb : e[1] # v}
  BY <1>1, <1>2 DEF Memory
<1> QED
  BY <1>3 DEF Quiet

\* The table is found at page_tables.
LEMMA MapInView ==
  ASSUME NEW x, Quiet(x), NEW d, d = x.cr3, NEW kind, NEW of, NEW at,
         Space(x, d, kind, of, at), \A g \in x.free : kind[g] = "free",
         NEW v \in UserPages, NEW f \in Frame, TableInView(x, d, v),
         NEW r, r = paging_map(x, d, v, f)
  PROVE  \E t \in Frame : MapEffect(x, r, d, v, f, t)
<1> DEFINE a == v \div N
           b == v % N
           t == x.mem[d][a]
<1>1. x \in Memory /\ x.mem \in [Frame -> [Word -> Value]]
  BY DEF Quiet, Memory
<1>2. a \in 0..(N - 1) /\ b \in 0..(N - 1) /\ a \in Word /\ b \in Word
  BY PageNumbers, Words
<1>3. /\ d \in Frame /\ x.mem[d][SELF] = d /\ kind[d] = "dir"
      /\ x.mem[d][VIEW] \in Frame /\ x.mem[x.mem[d][VIEW]][SELF] = d
      /\ t # Nil => t \in Frame /\ kind[t] = "table"
  BY <1>2 DEF Space
<1>4. Entry(x, x.cr3, VIEW) = x.mem[d][VIEW] /\ Entry(x, x.cr3, SELF) = d
  BY <1>3 DEF Entry
<1>5. Entry(x, Entry(x, x.cr3, VIEW), SELF) = d /\ Entry(x, d, a) = t
  BY <1>3, <1>4 DEF Entry
<1>6. t # Nil
  BY <1>5 DEF TableInView
<1>7. t \in Frame /\ t # d /\ t \notin x.free
  BY <1>3, <1>6
<1> DEFINE words == [x.mem[t] EXCEPT ![b] = f]
           mem == [x.mem EXCEPT ![t] = words]
           y == [x EXCEPT !.mem = mem]
<1>8. r = invlpg(y, v)
  <2> DEFINE g == Entry(x, Entry(x, x.cr3, SELF), v \div N)
  <2>1. r = invlpg([x EXCEPT !.mem = [x.mem EXCEPT ![g] = [x.mem[g] EXCEPT ![v % N] = f]]], v)
    BY Zenon DEF paging_map
  <2> HIDE DEF g
  <2>2. g = t
    BY <1>4, <1>5 DEF g
  <2> QED
    BY <2>1, <2>2
<1>9. words \in [Word -> Value] /\ \A w \in Word : words[w] = IF w = b THEN f ELSE x.mem[t][w]
  BY <1>1, <1>2, <1>7 DEF Value
<1> HIDE DEF words
<1>10. mem \in [Frame -> [Word -> Value]] /\ mem[t] = words /\ \A g \in Frame : g # t => mem[g] = x.mem[g]
  BY <1>1, <1>7, <1>9
<1> HIDE DEF mem
<1>11. /\ y \in Memory /\ y.mem = mem /\ y.free = x.free /\ y.window = x.window /\ y.tlb = x.tlb
       /\ y.cr3 = x.cr3 /\ y.current_context = x.current_context
  BY <1>1, <1>10 DEF Memory
<1>12. Quiet(y)
  BY <1>11 DEF Quiet
<1> HIDE DEF y
<1>13. /\ Quiet(r) /\ r.cr3 = y.cr3 /\ r.current_context = y.current_context
       /\ r.window = y.window /\ r.free = y.free /\ r.mem = y.mem
       /\ r.tlb = {e \in y.tlb : e[1] # v}
  BY <1>8, <1>12, DropPage
<1>14. /\ r.free = x.free \ {t}
       /\ \A g \in Frame : g # d /\ g # t => r.mem[g] = x.mem[g]
       /\ \A w \in Word : r.mem[d][w] = IF w = a THEN t ELSE x.mem[d][w]
       /\ \A w \in Word : r.mem[t][w] = IF w = b THEN f
                                        ELSE IF x.mem[d][a] = Nil THEN Nil ELSE x.mem[t][w]
  <2>1. r.mem[t] = words /\ r.mem[d] = x.mem[d] /\ r.free = x.free
    BY <1>3, <1>7, <1>10, <1>11, <1>13
  <2>2. \A g \in Frame : g # d /\ g # t => r.mem[g] = x.mem[g]
    BY <1>10, <1>11, <1>13
  <2>3. r.free = x.free \ {t}
    BY <1>7, <2>1
  <2>4. \A w \in Word : r.mem[d][w] = IF w = a THEN t ELSE x.mem[d][w]
    BY <1>6, <2>1
  <2>5. \A w \in Word : r.mem[t][w] = IF w = b THEN f
                                   ELSE IF x.mem[d][a] = Nil THEN Nil ELSE x.mem[t][w]
    BY <1>6, <1>9, <2>1
  <2> QED
    BY <2>2, <2>3, <2>4, <2>5
<1>15. /\ Quiet(r) /\ r.cr3 = x.cr3 /\ r.current_context = x.current_context
       /\ r.window = x.window /\ r.tlb = {e \in x.tlb : e[1] # v}
  BY <1>11, <1>13
<1>16. t \in Frame /\ t # d /\ t = x.mem[d][v \div N]
  BY <1>6, <1>7
<1> HIDE DEF a, b, t
<1>17. a = v \div N /\ b = v % N
  BY DEF a, b
<1>18. MapEffect(x, r, d, v, f, t)
  BY <1>14, <1>15, <1>16, <1>17 DEF MapEffect
<1> QED
  BY <1>16, <1>18

\* A new table is linked into the directory through the window.
LEMMA MapNew ==
  ASSUME NEW x, Quiet(x), NEW d \in Frame, d \notin x.free,
         Cardinality(x.free) >= 1, Cardinality(EmptySlots(x)) >= 2,
         NEW v \in UserPages, NEW f \in Frame, x.mem[d][v \div N] = Nil,
         ~TableInView(x, d, v), NEW r, r = paging_map(x, d, v, f)
  PROVE  \E t \in Frame : MapEffect(x, r, d, v, f, t)
<1> DEFINE a  == v \div N
           b  == v % N
           i  == NextSlot(x)
           y1 == paging_map_kernel(x, d)
           j  == NextSlot(y1)
           t  == NextFrame(y1)
           y2 == Take(y1)
           y3 == paging_map_kernel(y2, t)
           w4 == Zeroed
           y4 == Write(y3, WindowPage(j), w4)
           w5 == Single(a, t)
           y5 == Write(y4, WindowPage(i), w5)
           w6 == Single(b, f)
           y6 == Write(y5, WindowPage(j), w6)
           y7 == paging_unmap_kernel(y6, j)
           y8 == paging_unmap_kernel(y7, i)
<1>1. r = IF Entry(y1, Translate(y1, WindowPage(i)), a) = Nil THEN invlpg(y8, v) ELSE r
  BY Zenon DEF paging_map
<1>2. 1 \in Nat /\ 2 = 1 + 1 /\ 0 \in Nat /\ 1 = 0 + 1
  OBVIOUS
<1>3. InHandler(x, x) /\ x.window \in [0..(WindowSize - 1) -> Frame \cup {Nil}]
      /\ x.mem \in [Frame -> [Word -> Value]]
  BY Entering DEF Quiet, Memory
<1>4. /\ InHandler(x, y1)
      /\ i \in 0..(WindowSize - 1) /\ x.window[i] = Nil
      /\ y1.window = [x.window EXCEPT ![i] = d]
      /\ Cardinality(EmptySlots(y1)) >= 1
      /\ y1.mem = x.mem /\ y1.free = x.free
  <2>1. Cardinality(EmptySlots(x)) >= 1 + 1
    BY <1>2
  <2> QED
    BY <1>2, <1>3, <2>1, MapKernel
<1> HIDE DEF i, y1
<1>5. /\ InHandler(x, y2) /\ t \in y1.free /\ t \in Frame
      /\ y2.free = y1.free \ {t} /\ y2.mem = y1.mem /\ y2.window = y1.window
  <2>1. Cardinality(y1.free) >= 0 + 1
    BY <1>2, <1>4
  <2> QED
    BY <1>2, <1>4, <2>1, TakeFrame
<1>6. /\ InHandler(x, y3)
      /\ j \in 0..(WindowSize - 1) /\ y1.window[j] = Nil
      /\ y3.window = [y1.window EXCEPT ![j] = t]
      /\ y3.mem = x.mem /\ y3.free = y2.free
  <2>1. EmptySlots(y2) = EmptySlots(y1) /\ NextSlot(y2) = j
    BY <1>5, SameWindow
  <2> PICK z \in Nat : z = 0
    OBVIOUS
  <2>2. Cardinality(EmptySlots(y2)) >= z + 1
    <3>1. Cardinality(EmptySlots(y2)) >= 1 /\ z + 1 = 1
      BY <1>4, <2>1
    <3> QED
      BY <3>1
  <2>3. /\ InHandler(x, y2) /\ t \in Frame /\ j = NextSlot(y2)
        /\ y3 = paging_map_kernel(y2, t)
    BY <1>5, <2>1
  <2> HIDE DEF y2, t, j, y3
  <2>4. /\ InHandler(x, y3)
        /\ j \in 0..(WindowSize - 1) /\ y2.window[j] = Nil
        /\ y3.window = [y2.window EXCEPT ![j] = t]
        /\ y3.mem = y2.mem /\ y3.free = y2.free
    <3>1. PICK k \in Nat : k = 0
      OBVIOUS
    <3>2. Cardinality(EmptySlots(y2)) >= k + 1
      BY <2>2, <3>1
    <3>3. /\ InHandler(x, y2) /\ t \in Frame /\ k \in Nat
          /\ Cardinality(EmptySlots(y2)) >= k + 1
          /\ j = NextSlot(y2) /\ y3 = paging_map_kernel(y2, t)
      BY <2>3, <3>2
    <3> QED
      BY <3>3, MapKernel
  <2> QED
    BY <1>4, <1>5, <2>4
<1> HIDE DEF y2, t, j, y3
<1>7. r = invlpg(y8, v)
  <2>1. Translate(y1, WindowPage(i)) = d
    <3>1. y1 \in Memory /\ WindowCurrent(y1) /\ y1.window[i] = d
      BY <1>3, <1>4 DEF InHandler
    <3> QED
      BY <1>4, <3>1, TranslateWindow
  <2>2. Entry(y1, d, a) = Nil
    BY <1>4 DEF Entry
  <2> QED
    BY <1>1, <2>1, <2>2
<1>8. i # j /\ y3.window[i] = d /\ y3.window[j] = t /\ t # d /\ t \in x.free
  <2>1. y1.window[i] = d /\ d # Nil
    BY <1>3, <1>4, FrameFacts
  <2>2. i # j
    BY <1>6, <2>1
  <2>3. y1.window \in [0..(WindowSize - 1) -> Frame \cup {Nil}]
    BY <1>4 DEF InHandler, Memory
  <2> QED
    BY <1>4, <1>5, <1>6, <2>1, <2>2, <2>3
<1>9. a \in 0..(N - 1) /\ b \in 0..(N - 1) /\ a \in Word /\ b \in Word
  BY PageNumbers, Words
<1>10. /\ DOMAIN w4 = Word /\ \A w \in Word : w4[w] = Nil
       /\ DOMAIN w5 = {a} /\ w5[a] = t
       /\ DOMAIN w6 = {b} /\ w6[b] = f
       /\ \A w \in DOMAIN w4 : w4[w] \in Value
       /\ \A w \in DOMAIN w5 : w5[w] \in Value
       /\ \A w \in DOMAIN w6 : w6[w] \in Value
  BY <1>5 DEF Zeroed, Single, Value
<1> HIDE DEF a, b, w4, w5, w6
<1>11. /\ InHandler(x, y4) /\ y4.mem = [y3.mem EXCEPT ![t] = Overwrite(y3.mem[t], w4)]
       /\ y4.window = y3.window /\ y4.free = y3.free
  <2>1. /\ InHandler(x, y3) /\ j \in 0..(WindowSize - 1) /\ t \in Frame /\ y3.window[j] = t
        /\ \A w \in DOMAIN w4 : w4[w] \in Value
        /\ y4 = Write(y3, WindowPage(j), w4)
    BY <1>5, <1>6, <1>8, <1>10
  <2> HIDE DEF y4
  <2> QED
    BY <2>1, WriteWindow
<1> HIDE DEF y4
<1>12. /\ InHandler(x, y5) /\ y5.mem = [y4.mem EXCEPT ![d] = Overwrite(y4.mem[d], w5)]
       /\ y5.window = y4.window /\ y5.free = y4.free
  <2>1. /\ InHandler(x, y4) /\ i \in 0..(WindowSize - 1) /\ d \in Frame /\ y4.window[i] = d
        /\ \A w \in DOMAIN w5 : w5[w] \in Value
        /\ y5 = Write(y4, WindowPage(i), w5)
    BY <1>4, <1>8, <1>10, <1>11
  <2> HIDE DEF y5
  <2> QED
    BY <2>1, WriteWindow
<1> HIDE DEF y5
<1>13. /\ InHandler(x, y6) /\ y6.mem = [y5.mem EXCEPT ![t] = Overwrite(y5.mem[t], w6)]
       /\ y6.window = y5.window /\ y6.free = y5.free
  <2>1. /\ InHandler(x, y5) /\ j \in 0..(WindowSize - 1) /\ t \in Frame /\ y5.window[j] = t
        /\ \A w \in DOMAIN w6 : w6[w] \in Value
        /\ y6 = Write(y5, WindowPage(j), w6)
    BY <1>5, <1>6, <1>8, <1>10, <1>11, <1>12
  <2> HIDE DEF y6
  <2> QED
    BY <2>1, WriteWindow
<1> HIDE DEF y6
<1>14. /\ InHandler(x, y7) /\ y7.mem = y6.mem /\ y7.free = y6.free
       /\ y7.window = [y6.window EXCEPT ![j] = Nil]
  BY <1>6, <1>13, UnmapKernel
<1> HIDE DEF y7
<1>15. /\ InHandler(x, y8) /\ y8.mem = y6.mem /\ y8.free = y6.free
       /\ y8.window = [y7.window EXCEPT ![i] = Nil]
  BY <1>4, <1>14, UnmapKernel
<1> HIDE DEF y8
<1>16. y8.window = x.window
  <2>1. y8.window = [[[[x.window EXCEPT ![i] = d] EXCEPT ![j] = t] EXCEPT ![j] = Nil] EXCEPT ![i] = Nil]
    BY <1>4, <1>6, <1>11, <1>12, <1>13, <1>14, <1>15
  <2>2. x.window[i] = Nil /\ x.window[j] = Nil
    BY <1>3, <1>4, <1>6, <1>8
  <2> QED
    BY <1>3, <1>4, <1>6, <2>1, <2>2
<1>17. Quiet(y8) /\ y8.tlb = x.tlb /\ y8.cr3 = x.cr3 /\ y8.current_context = x.current_context
  <2>1. InHandler(x, y8) /\ \A n \in 0..(WindowSize - 1) : y8.window[n] = Nil
    BY <1>15, <1>16 DEF Quiet
  <2>2. Quiet(y8) /\ y8.tlb = x.tlb
    BY <2>1, Leaving
  <2> QED
    BY <2>1, <2>2 DEF InHandler
<1>18. /\ Quiet(r) /\ r.cr3 = x.cr3 /\ r.current_context = x.current_context
       /\ r.window = x.window /\ r.free = y8.free /\ r.mem = y8.mem
       /\ r.tlb = {e \in x.tlb : e[1] # v}
  BY <1>7, <1>16, <1>17, DropPage
<1>19. r.free = x.free \ {t} /\ r.mem = y6.mem
  BY <1>4, <1>5, <1>6, <1>11, <1>12, <1>13, <1>15, <1>18
<1>20. /\ y4.mem \in [Frame -> [Word -> Value]] /\ y5.mem \in [Frame -> [Word -> Value]]
       /\ y6.mem \in [Frame -> [Word -> Value]]
  BY <1>11, <1>12, <1>13 DEF InHandler, Memory
<1>21. \A g \in Frame : g # d /\ g # t => r.mem[g] = x.mem[g]
  BY <1>3, <1>5, <1>6, <1>11, <1>12, <1>13, <1>19, <1>20
<1>22. \A w \in Word : r.mem[d][w] = IF w = a THEN t ELSE x.mem[d][w]
  <2> TAKE w \in Word
  <2>1. r.mem[d] = y5.mem[d]
    BY <1>5, <1>8, <1>13, <1>19, <1>20
  <2>2. y5.mem[d] = Overwrite(y4.mem[d], w5) /\ y4.mem[d] \in [Word -> Value]
    BY <1>12, <1>20
  <2>3. y5.mem[d][w] = IF w \in DOMAIN w5 THEN w5[w] ELSE y4.mem[d][w]
    BY <2>2, OverwriteWord
  <2>4. y4.mem[d] = x.mem[d]
    BY <1>3, <1>5, <1>6, <1>8, <1>11
  <2> QED
    BY <1>10, <2>1, <2>3, <2>4
<1>23. \A w \in Word : r.mem[t][w] = IF w = b THEN f ELSE Nil
  <2> TAKE w \in Word
  <2>1. r.mem[t] = Overwrite(y5.mem[t], w6) /\ y5.mem[t] \in [Word -> Value]
    BY <1>5, <1>13, <1>19, <1>20
  <2>2. r.mem[t][w] = IF w \in DOMAIN w6 THEN w6[w] ELSE y5.mem[t][w]
    BY <2>1, OverwriteWord
  <2>3. y5.mem[t] = y4.mem[t]
    BY <1>5, <1>8, <1>12, <1>20
  <2>4. y4.mem[t] = Overwrite(x.mem[t], w4) /\ x.mem[t] \in [Word -> Value]
    BY <1>3, <1>5, <1>6, <1>11
  <2>5. y4.mem[t][w] = IF w \in DOMAIN w4 THEN w4[w] ELSE x.mem[t][w]
    BY <2>4, OverwriteWord
  <2> QED
    BY <1>10, <2>2, <2>3, <2>5
<1>24. x.mem[d][v \div N] = Nil
  OBVIOUS
<1> QED
  BY <1>5, <1>8, <1>18, <1>19, <1>21, <1>22, <1>23, <1>24 DEF MapEffect, a, b

-----------------------------------------------------------------------------
(* What the steps on memory do to the address spaces *)

LEMMA WalkEntry ==
  ASSUME NEW x, NEW d \in Frame, NEW v \in UserPages, NEW t, t = x.mem[d][v \div N],
         t \in Frame \cup {Nil}
  PROVE  Walk(x, d, v) = IF t = Nil THEN Nil ELSE x.mem[t][v % N]
  BY FrameFacts DEF Walk, Entry

\* An address space stays as it is when its directory and its tables do and its
\* frames keep their use.
LEMMA SpaceKept ==
  ASSUME NEW x, NEW d, NEW kind, NEW of, NEW at, Space(x, d, kind, of, at),
         NEW r, NEW kind2, NEW of2, NEW at2,
         r.mem[d] = x.mem[d],
         \A g \in Frame : kind[g] \in {"view", "table"} /\ of[g] = d => r.mem[g] = x.mem[g],
         \A g \in Frame : kind[g] \in {"dir", "view", "table", "page"} =>
           kind2[g] = kind[g] /\ of2[g] = of[g] /\ at2[g] = at[g]
  PROVE  Space(r, d, kind2, of2, at2) /\ \A v \in UserPages : Walk(r, d, v) = Walk(x, d, v)
<1>1. d \in Frame /\ kind[d] = "dir"
  BY DEF Space
<1>2. ASSUME NEW v \in UserPages PROVE Walk(r, d, v) = Walk(x, d, v)
  <2> DEFINE t == x.mem[d][v \div N]
  <2>1. v \div N \in 0..(N - 1)
    BY PageNumbers
  <2>2. t # Nil => t \in Frame /\ kind[t] = "table" /\ of[t] = d
    BY <2>1 DEF Space
  <2>3. t \in Frame \cup {Nil} /\ t = r.mem[d][v \div N]
    BY <2>2
  <2>4. t # Nil => r.mem[t] = x.mem[t]
    BY <2>2
  <2>5. Walk(x, d, v) = IF t = Nil THEN Nil ELSE x.mem[t][v % N]
    BY <1>1, <2>3, WalkEntry
  <2> HIDE DEF t
  <2>6. Walk(r, d, v) = IF t = Nil THEN Nil ELSE r.mem[t][v % N]
    BY <1>1, <2>3, WalkEntry
  <2> QED
    BY <2>4, <2>5, <2>6
<1>3. /\ kind2[d] = "dir" /\ r.mem[d][SELF] = d
      /\ LET f == r.mem[d][VIEW] IN
           f \in Frame /\ kind2[f] = "view" /\ of2[f] = d /\ r.mem[f][SELF] = d
  BY <1>1 DEF Space
<1>4. \A i \in 0..(N - 1) :
        LET f == r.mem[d][i] IN
        f # Nil => f \in Frame /\ kind2[f] = "table" /\ of2[f] = d /\ at2[f] = i
  BY <1>1 DEF Space
<1>5. \A v \in UserPages :
        LET f == Walk(r, d, v) IN
        f # Nil => f \in Frame /\ kind2[f] = "page" /\ of2[f] = d /\ at2[f] = v
  BY <1>2 DEF Space
<1> QED
  BY <1>1, <1>2, <1>3, <1>4, <1>5 DEF Space

\* Words are written to a page, or to a frame that is in no address space.
LEMMA SpacesWrite ==
  ASSUME NEW x, NEW D, NEW kind, NEW of, NEW at, Spaces(x, D, kind, of, at),
         NEW f, kind[f] \in {"page", "stack"}, NEW r, r.free = x.free,
         \A g \in Frame : g # f => r.mem[g] = x.mem[g]
  PROVE  /\ Spaces(r, D, kind, of, at)
         /\ \A d \in D : \A v \in UserPages : Walk(r, d, v) = Walk(x, d, v)
<1>1. ASSUME NEW d \in D
      PROVE  Space(r, d, kind, of, at) /\ \A v \in UserPages : Walk(r, d, v) = Walk(x, d, v)
  <2>1. Space(x, d, kind, of, at)
    BY DEF Spaces
  <2>2. r.mem[d] = x.mem[d]
    BY <2>1 DEF Space
  <2>3. \A g \in Frame : kind[g] \in {"view", "table"} /\ of[g] = d => r.mem[g] = x.mem[g]
    OBVIOUS
  <2> QED
    BY <2>1, <2>2, <2>3, SpaceKept
<1>2. \A g \in r.free : kind[g] = "free"
  BY DEF Spaces
<1>3. \A g \in Frame : kind[g] \in {"free", "loose"} => \A w \in Word : r.mem[g][w] = Garbage
  BY DEF Spaces
<1> QED
  BY <1>1, <1>2, <1>3 DEF Spaces

\* Frame f is taken from the free ones, to be mapped later.
Taken(x, r, f, kind, of, kind2, of2) ==
  /\ x.free \subseteq Frame /\ f \in x.free /\ r.free = x.free \ {f}
  /\ \A g \in Frame : g # f => r.mem[g] = x.mem[g]
  /\ \A g \in Frame : g # f => kind2[g] = kind[g] /\ of2[g] = of[g]
  /\ kind2[f] = "stack" \/ (kind2[f] = "loose" /\ r.mem[f] = x.mem[f])

LEMMA SpacesTake ==
  ASSUME NEW x, NEW D, NEW kind, NEW of, NEW at, Spaces(x, D, kind, of, at),
         NEW r, NEW f, NEW kind2, NEW of2, Taken(x, r, f, kind, of, kind2, of2)
  PROVE  /\ Spaces(r, D, kind2, of2, at)
         /\ \A d \in D : \A v \in UserPages : Walk(r, d, v) = Walk(x, d, v)
<1> USE DEF Taken
<1>1. kind[f] = "free" /\ f \in Frame
  BY DEF Spaces
<1>2. ASSUME NEW d \in D
      PROVE  Space(r, d, kind2, of2, at) /\ \A v \in UserPages : Walk(r, d, v) = Walk(x, d, v)
  <2>1. Space(x, d, kind, of, at)
    BY DEF Spaces
  <2>2. r.mem[d] = x.mem[d]
    BY <1>1, <2>1 DEF Space
  <2>3. \A g \in Frame : kind[g] \in {"view", "table"} /\ of[g] = d => r.mem[g] = x.mem[g]
    BY <1>1
  <2>4. \A g \in Frame : kind[g] \in {"dir", "view", "table", "page"} =>
          kind2[g] = kind[g] /\ of2[g] = of[g] /\ at[g] = at[g]
    BY <1>1
  <2> QED
    BY <2>1, <2>2, <2>3, <2>4, SpaceKept
<1>3. \A g \in r.free : kind2[g] = "free"
  BY DEF Spaces
<1>4. \A g \in Frame : kind2[g] \in {"free", "loose"} => \A w \in Word : r.mem[g][w] = Garbage
  BY <1>1 DEF Spaces
<1> QED
  BY <1>2, <1>3, <1>4 DEF Spaces

\* A new address space without pages has directory c, and t for its table at VIEW.
Created(x, r, c, t, kind, of, kind2, of2) ==
  /\ x.free \subseteq Frame /\ c \in x.free /\ t \in x.free /\ c # t
  /\ r.free = x.free \ {c, t}
  /\ \A g \in Frame : g # c /\ g # t => r.mem[g] = x.mem[g]
  /\ r.mem[c][VIEW] = t /\ r.mem[c][SELF] = c /\ \A i \in 0..(N - 1) : r.mem[c][i] = Nil
  /\ r.mem[t][SELF] = c
  /\ \A g \in Frame : g # c /\ g # t => kind2[g] = kind[g] /\ of2[g] = of[g]
  /\ kind2[c] = "dir" /\ kind2[t] = "view" /\ of2[t] = c

LEMMA SpacesCreate ==
  ASSUME NEW x, NEW D, NEW kind, NEW of, NEW at, Spaces(x, D, kind, of, at),
         NEW r, NEW c, NEW t, NEW kind2, NEW of2, Created(x, r, c, t, kind, of, kind2, of2)
  PROVE  /\ Spaces(r, D \cup {c}, kind2, of2, at) /\ c \notin D
         /\ \A d \in D : \A v \in UserPages : Walk(r, d, v) = Walk(x, d, v)
         /\ \A v \in UserPages : Walk(r, c, v) = Nil
<1> USE DEF Created
<1>1. kind[c] = "free" /\ c \in Frame /\ kind[t] = "free" /\ t \in Frame
  BY DEF Spaces
<1>2. ASSUME NEW d \in D
      PROVE  /\ Space(r, d, kind2, of2, at) /\ d # c
             /\ \A v \in UserPages : Walk(r, d, v) = Walk(x, d, v)
  <2>1. Space(x, d, kind, of, at)
    BY DEF Spaces
  <2>2. r.mem[d] = x.mem[d] /\ d # c
    BY <1>1, <2>1 DEF Space
  <2>3. \A g \in Frame : kind[g] \in {"view", "table"} /\ of[g] = d => r.mem[g] = x.mem[g]
    BY <1>1
  <2>4. \A g \in Frame : kind[g] \in {"dir", "view", "table", "page"} =>
          kind2[g] = kind[g] /\ of2[g] = of[g] /\ at[g] = at[g]
    BY <1>1
  <2> QED
    BY <2>1, <2>2, <2>3, <2>4, SpaceKept
<1>3. \A g \in r.free : kind2[g] = "free"
  BY DEF Spaces
<1>4. \A g \in Frame : kind2[g] \in {"free", "loose"} => \A w \in Word : r.mem[g][w] = Garbage
  BY <1>1 DEF Spaces
<1>5. ASSUME NEW v \in UserPages PROVE Walk(r, c, v) = Nil
  <2>1. r.mem[c][v \div N] = Nil
    BY PageNumbers
  <2> QED
    BY <1>1, <2>1, WalkEntry
<1>6. Space(r, c, kind2, of2, at)
  BY <1>1, <1>5 DEF Space
<1> QED
  BY <1>2, <1>3, <1>4, <1>5, <1>6 DEF Spaces

\* Frame f, in no address space so far, becomes page v of the one with directory d.
LEMMA SpacesMap ==
  ASSUME NEW x, NEW D, NEW kind, NEW of, NEW at, Spaces(x, D, kind, of, at),
         NEW d \in D, NEW v \in UserPages, NEW f \in Frame, kind[f] \in {"stack", "loose"},
         NEW r, NEW t, MapEffect(x, r, d, v, f, t),
         NEW kind2, \A g \in Frame : kind2[g] = (IF g = f THEN "page" ELSE IF g = t THEN "table" ELSE kind[g]),
         NEW of2, \A g \in Frame : of2[g] = (IF g = f \/ g = t THEN d ELSE of[g]),
         NEW at2, \A g \in Frame : at2[g] = (IF g = f THEN v ELSE IF g = t THEN v \div N ELSE at[g])
  PROVE  /\ Spaces(r, D, kind2, of2, at2)
         /\ \A e \in D : \A u \in UserPages :
              Walk(r, e, u) = IF e = d /\ u = v THEN f ELSE Walk(x, e, u)
         /\ \A g \in Frame : kind[g] \in {"page", "stack", "loose"} => r.mem[g] = x.mem[g]
         /\ t # f /\ kind[t] \in {"table", "free"}
<1> DEFINE a == v \div N
           b == v % N
<1>1. a \in 0..(N - 1) /\ b \in 0..(N - 1) /\ a \in Word /\ b \in Word
  BY PageNumbers, Words
<1>2. /\ Space(x, d, kind, of, at) /\ d \in Frame /\ kind[d] = "dir"
  BY DEF Spaces, Space
<1>3. /\ t \in Frame /\ t # d /\ t # Nil /\ r.free = x.free \ {t}
      /\ t = x.mem[d][a] \/ (x.mem[d][a] = Nil /\ t \in x.free)
      /\ \A g \in Frame : g # d /\ g # t => r.mem[g] = x.mem[g]
      /\ \A w \in Word : r.mem[d][w] = IF w = a THEN t ELSE x.mem[d][w]
      /\ \A w \in Word : r.mem[t][w] = IF w = b THEN f
                                       ELSE IF x.mem[d][a] = Nil THEN Nil ELSE x.mem[t][w]
  BY FrameFacts DEF MapEffect
<1>4. \/ x.mem[d][a] = t /\ kind[t] = "table" /\ of[t] = d /\ at[t] = a
      \/ x.mem[d][a] = Nil /\ kind[t] = "free"
  BY <1>1, <1>2, <1>3 DEF Spaces, Space
<1> HIDE DEF a, b
<1>5. t # f /\ kind[t] \in {"table", "free"}
  BY <1>4
<1>6. ASSUME NEW e \in D, e # d
      PROVE  Space(r, e, kind2, of2, at2) /\ \A u \in UserPages : Walk(r, e, u) = Walk(x, e, u)
  <2>1. Space(x, e, kind, of, at)
    BY DEF Spaces
  <2>2. r.mem[e] = x.mem[e]
    BY <1>3, <1>4, <1>6, <2>1 DEF Space
  <2>3. \A g \in Frame : kind[g] \in {"view", "table"} /\ of[g] = e => r.mem[g] = x.mem[g]
    BY <1>2, <1>3, <1>4, <1>6
  <2>4. \A g \in Frame : kind[g] \in {"dir", "view", "table", "page"} =>
          kind2[g] = kind[g] /\ of2[g] = of[g] /\ at2[g] = at[g]
    BY <1>4 DEF a
  <2> QED
    BY <2>1, <2>2, <2>3, <2>4, SpaceKept
<1>7. ASSUME NEW u \in UserPages
      PROVE  Walk(r, d, u) = IF u = v THEN f ELSE Walk(x, d, u)
  <2> DEFINE c == u \div N
             s == x.mem[d][c]
             s2 == r.mem[d][c]
  <2>1. /\ c \in 0..(N - 1) /\ u % N \in 0..(N - 1) /\ c \in Word /\ u % N \in Word
        /\ c = a /\ u % N = b => u = v
    BY PageNumbers, Words DEF a, b
  <2>2. s # Nil => s \in Frame /\ kind[s] = "table" /\ of[s] = d /\ at[s] = c
    BY <1>2, <2>1 DEF Space
  <2>3. s2 = IF c = a THEN t ELSE s
    BY <1>3, <2>1
  <2>4. s \in Frame \cup {Nil} /\ s2 \in Frame \cup {Nil}
    BY <1>3, <2>2, <2>3
  <2>5. Walk(x, d, u) = IF s = Nil THEN Nil ELSE x.mem[s][u % N]
    BY <1>2, <2>4, WalkEntry
  <2>6. Walk(r, d, u) = IF s2 = Nil THEN Nil ELSE r.mem[s2][u % N]
    BY <1>2, <2>4, WalkEntry
  <2>7. CASE c = a
    <3>1. s = x.mem[d][a]
      BY <2>7
    <3>2. u = v => u % N = b
      BY DEF b
    <3> HIDE DEF s, s2, c
    <3> QED
      BY <1>3, <1>4, <2>1, <2>3, <2>5, <2>6, <2>7, <3>1, <3>2
  <2>8. CASE c # a
    <3>1. u # v
      BY <2>8 DEF a
    <3>2. s # Nil => s # t /\ s # d
      BY <1>2, <1>4, <2>2, <2>8
    <3> HIDE DEF s, s2, c
    <3> QED
      BY <1>3, <2>2, <2>3, <2>5, <2>6, <2>8, <3>1, <3>2
  <2> QED
    BY <2>7, <2>8
<1>8. Space(r, d, kind2, of2, at2)
  <2>1. kind2[d] = "dir" /\ r.mem[d][SELF] = d
    BY <1>1, <1>2, <1>3, Words DEF Space
  <2>2. LET g == r.mem[d][VIEW] IN
          g \in Frame /\ kind2[g] = "view" /\ of2[g] = d /\ r.mem[g][SELF] = d
    <3> DEFINE g == x.mem[d][VIEW]
    <3>1. g \in Frame /\ kind[g] = "view" /\ of[g] = d /\ x.mem[g][SELF] = d
      BY <1>2 DEF Space
    <3>2. r.mem[d][VIEW] = g
      BY <1>1, <1>3, Words
    <3> HIDE DEF g
    <3>3. g # t /\ g # d /\ g # f
      BY <1>2, <1>4, <3>1
    <3> QED
      BY <1>3, <3>1, <3>2, <3>3
  <2>3. ASSUME NEW i \in 0..(N - 1), r.mem[d][i] # Nil
        PROVE  LET g == r.mem[d][i] IN
               g \in Frame /\ kind2[g] = "table" /\ of2[g] = d /\ at2[g] = i
    <3>1. r.mem[d][i] = IF i = a THEN t ELSE x.mem[d][i]
      BY <1>3, Words
    <3>2. CASE i = a
      BY <1>3, <1>5, <3>1, <3>2 DEF a
    <3>3. CASE i # a
      <4> DEFINE g == x.mem[d][i]
      <4>1. r.mem[d][i] = g
        BY <3>1, <3>3
      <4>2. g \in Frame /\ kind[g] = "table" /\ of[g] = d /\ at[g] = i
        BY <1>2, <2>3, <4>1 DEF Space
      <4> HIDE DEF g
      <4>3. g # t /\ g # f
        BY <1>4, <3>3, <4>2
      <4> QED
        BY <4>1, <4>2, <4>3
    <3> QED
      BY <3>2, <3>3
  <2>4. ASSUME NEW u \in UserPages, Walk(r, d, u) # Nil
        PROVE  LET g == Walk(r, d, u) IN
               g \in Frame /\ kind2[g] = "page" /\ of2[g] = d /\ at2[g] = u
    <3>1. CASE u = v
      BY <1>7, <3>1
    <3>2. CASE u # v
      <4> DEFINE g == Walk(x, d, u)
      <4>1. Walk(r, d, u) = g
        BY <1>7, <3>2
      <4>2. g \in Frame /\ kind[g] = "page" /\ of[g] = d /\ at[g] = u
        BY <1>2, <2>4, <4>1 DEF Space
      <4> HIDE DEF g
      <4>3. g # t /\ g # f
        BY <1>4, <4>2
      <4> QED
        BY <4>1, <4>2, <4>3
    <3> QED
      BY <3>1, <3>2
  <2> QED
    BY <1>2, <2>1, <2>2, <2>3, <2>4 DEF Space
<1>9. \A g \in r.free : kind2[g] = "free"
  <2>1. \A g \in r.free : g \in x.free /\ g # t /\ kind[g] = "free"
    BY <1>3 DEF Spaces
  <2>2. \A g \in r.free : g \in Frame
    BY DEF MapEffect, Quiet, Memory
  <2> QED
    BY <2>1, <2>2
<1>10. \A g \in Frame : kind[g] \in {"page", "stack", "loose"} => r.mem[g] = x.mem[g]
  BY <1>2, <1>3, <1>4
<1>11. \A g \in Frame : kind2[g] \in {"free", "loose"} => \A w \in Word : r.mem[g][w] = Garbage
  <2> SUFFICES ASSUME NEW g \in Frame, kind2[g] \in {"free", "loose"}
               PROVE  \A w \in Word : r.mem[g][w] = Garbage
    OBVIOUS
  <2>1. g # f /\ g # t /\ kind[g] \in {"free", "loose"}
    OBVIOUS
  <2>2. r.mem[g] = x.mem[g]
    BY <1>2, <1>3, <2>1
  <2> QED
    BY <2>1, <2>2 DEF Spaces
<1>12. \A e \in D : \A u \in UserPages :
         Walk(r, e, u) = IF e = d /\ u = v THEN f ELSE Walk(x, e, u)
  BY <1>6, <1>7
<1>13. \A e \in D : Space(r, e, kind2, of2, at2)
  BY <1>6, <1>8
<1> QED
  BY <1>5, <1>9, <1>10, <1>11, <1>12, <1>13 DEF Spaces

-----------------------------------------------------------------------------
(* Vectors *)

\* Vectors of pointers to members of S.
Vector(S) == [count : Int, content : UNION {[0..(n - 1) -> S \cup {NULL}] : n \in Nat}]

\* The indices in use.
Entries(v) == {i \in DOMAIN v.content : v.content[i] # NULL}

\* The bounds of a vector are the size of its content.
LEMMA VectorBounds ==
  ASSUME NEW S, NEW v \in Vector(S)
  PROVE  /\ Bounds(v) \in Nat
         /\ v.content \in [0..(Bounds(v) - 1) -> S \cup {NULL}]
         /\ v.count \in Int
<1>1. PICK n \in Nat : v.content \in [0..(n - 1) -> S \cup {NULL}]
  BY DEF Vector
<1>2. DOMAIN v.content = 0..(n - 1) /\ 0 \in Int /\ n - 1 \in Int
  BY <1>1
<1>3. Cardinality(0..(n - 1)) = n
  BY <1>2, FS_Interval
<1>4. Bounds(v) = n
  BY <1>2, <1>3 DEF Bounds
<1> QED
  BY <1>1, <1>4 DEF Vector

\* vector_init leaves no entries.
LEMMA VectorInit ==
  ASSUME NEW S, NEW n \in Nat
  PROVE  vector_init(n) \in Vector(S) /\ Entries(vector_init(n)) = {}
<1>1. [i \in 0..(n - 1) |-> NULL] \in [0..(n - 1) -> S \cup {NULL}]
  OBVIOUS
<1> QED
  BY <1>1 DEF vector_init, Vector, Entries

\* vector_resize adds free places behind those there are.
LEMMA VectorResize ==
  ASSUME NEW S, NEW v \in Vector(S), NEW r, r = vector_resize(v)
  PROVE  /\ r \in Vector(S) /\ Bounds(v) \in DOMAIN r.content
         /\ \A j \in Entries(v) : j \in Entries(r) /\ r.content[j] = v.content[j]
<1>1. PICK n : n = Bounds(v)
  OBVIOUS
<1>2. n \in Nat /\ v.content \in [0..(n - 1) -> S \cup {NULL}] /\ v.count \in Int
  BY <1>1, VectorBounds
<1>3. /\ r = [count |-> r.count, content |-> r.content] /\ r.count \in Int
      /\ \E k \in Nat : /\ n < k /\ r.content \in [0..(k - 1) -> S \cup {NULL}]
                        /\ \A j \in 0..(n - 1) : r.content[j] = v.content[j]
  <2>1. CASE n > 0
    <3>1. /\ r.content = [j \in 0..(2 * n - 1) |-> IF j < n THEN v.content[j] ELSE NULL]
          /\ r.count = v.count /\ r = [count |-> r.count, content |-> r.content]
      BY <1>1, <2>1 DEF vector_resize, Vector
    <3>2. r.content \in [0..(2 * n - 1) -> S \cup {NULL}]
      BY <1>2, <3>1
    <3>3. 2 * n \in Nat /\ n < 2 * n
      BY <1>2, <2>1
    <3>4. \A j \in 0..(n - 1) : r.content[j] = v.content[j]
      BY <1>2, <3>1
    <3> QED
      BY <1>2, <3>1, <3>2, <3>3, <3>4
  <2>2. CASE n = 0
    <3>1. r = [count |-> 0, content |-> [j \in 0..(4 - 1) |-> NULL]]
      BY <1>1, <2>2 DEF vector_resize, vector_init
    <3> PICK k \in Nat : k = 4
      OBVIOUS
    <3>2. /\ r.content \in [0..(k - 1) -> S \cup {NULL}] /\ r.count \in Int
          /\ r = [count |-> r.count, content |-> r.content]
      BY <3>1
    <3>3. n < k /\ \A j \in 0..(n - 1) : r.content[j] = v.content[j]
      BY <2>2
    <3> QED
      BY <3>2, <3>3
  <2> QED
    BY <1>2, <2>1, <2>2
<1>4. PICK k \in Nat : /\ n < k /\ r.content \in [0..(k - 1) -> S \cup {NULL}]
                       /\ \A j \in 0..(n - 1) : r.content[j] = v.content[j]
  BY <1>3
<1>5. r \in Vector(S)
  BY <1>3, <1>4 DEF Vector
<1>6. DOMAIN v.content = 0..(n - 1) /\ DOMAIN r.content = 0..(k - 1) /\ 0..(n - 1) \subseteq 0..(k - 1)
      /\ n \in 0..(k - 1)
  BY <1>2, <1>4
<1> QED
  BY <1>1, <1>4, <1>5, <1>6 DEF Entries

\* The search of vector_add ends at a free place, or behind the last one.
LEMMA VectorSearch ==
  ASSUME NEW S, NEW v \in Vector(S), NEW i, i = AddIndex(v)
  PROVE  /\ i \in Nat /\ i \notin Entries(v)
         /\ FreeSlots(v) = {} => i = Bounds(v)
         /\ FreeSlots(v) # {} => i \in 0..(Bounds(v) - 1)
<1> PICK n : n = Bounds(v)
  OBVIOUS
<1>1. n \in Nat /\ v.content \in [0..(n - 1) -> S \cup {NULL}]
  BY VectorBounds
<1>2. CASE FreeSlots(v) = {}
  <2>1. i = n
    BY <1>2 DEF AddIndex
  <2> QED
    BY <1>1, <1>2, <2>1 DEF Entries
<1>3. CASE FreeSlots(v) # {}
  <2>1. FreeSlots(v) \in SUBSET Nat /\ FreeSlots(v) \subseteq 0..(n - 1)
    BY <1>1 DEF FreeSlots
  <2>2. \E l \in FreeSlots(v) : \A j \in FreeSlots(v) : l <= j
    BY <1>3, <2>1, SmallestExists
  <2>3. i \in FreeSlots(v)
    BY <1>3, <2>2 DEF AddIndex
  <2>4. i \in 0..(n - 1) /\ i \notin Entries(v)
    BY <2>1, <2>3 DEF FreeSlots, Entries
  <2> QED
    BY <1>3, <2>4
<1> QED
  BY <1>2, <1>3

\* An element is written at place i of a table.
LEMMA VectorStore ==
  ASSUME NEW S, NEW v \in Vector(S), NEW x \in S, x # NULL, NEW i \in Nat,
         NEW r, r = [count |-> v.count + 1, content |-> [v.content EXCEPT ![i] = x]]
  PROVE  /\ r \in Vector(S)
         /\ i \in DOMAIN v.content => i \in Entries(r) /\ r.content[i] = x
         /\ \A j \in Entries(v) : j # i => j \in Entries(r) /\ r.content[j] = v.content[j]
<1>1. PICK n \in Nat : v.content \in [0..(n - 1) -> S \cup {NULL}] /\ v.count \in Int
  BY DEF Vector
<1> DEFINE w == [v.content EXCEPT ![i] = x]
<1>2. r.content = w /\ r.count = v.count + 1 /\ r = [count |-> r.count, content |-> r.content]
  OBVIOUS
<1>3. /\ w \in [0..(n - 1) -> S \cup {NULL}]
      /\ i \in DOMAIN v.content => w[i] = x
      /\ \A j \in 0..(n - 1) : j # i => w[j] = v.content[j]
  BY <1>1
<1> HIDE DEF w
<1>4. /\ r.content \in [0..(n - 1) -> S \cup {NULL}]
      /\ i \in DOMAIN v.content => r.content[i] = x
      /\ \A j \in 0..(n - 1) : j # i => r.content[j] = v.content[j]
  BY ONLY <1>2, <1>3
<1>5. r.count \in Int
  BY ONLY <1>1, <1>2
<1>6. r \in Vector(S)
  BY ONLY <1>2, <1>4, <1>5, n \in Nat DEF Vector
<1> QED
  BY <1>1, <1>4, <1>6 DEF Entries

\* vector_add uses a free index and keeps every entry where it is.
LEMMA VectorAdd ==
  ASSUME NEW S, NEW v \in Vector(S), NEW x \in S, x # NULL,
         NEW i, i = AddIndex(v), NEW v2, v2 = vector_add(v, x)
  PROVE  /\ i \in Nat /\ i \notin Entries(v)
         /\ v2 \in Vector(S)
         /\ i \in Entries(v2) /\ v2.content[i] = x
         /\ \A j \in Entries(v) : j \in Entries(v2) /\ v2.content[j] = v.content[j]
<1> DEFINE room == IF FreeSlots(v) = {} THEN vector_resize(v) ELSE v
<1>1. PICK n : n = Bounds(v)
  OBVIOUS
<1>2. n \in Nat /\ v.content \in [0..(n - 1) -> S \cup {NULL}] /\ v.count \in Int
  BY <1>1, VectorBounds
<1>3. /\ i \in Nat /\ i \notin Entries(v)
      /\ FreeSlots(v) = {} => i = n
      /\ FreeSlots(v) # {} => i \in 0..(n - 1)
  BY <1>1, VectorSearch
<1>4. /\ room \in Vector(S) /\ i \in DOMAIN room.content
      /\ \A j \in Entries(v) : j \in Entries(room) /\ room.content[j] = v.content[j]
  <2>1. CASE FreeSlots(v) = {}
    <3>1. PICK r : r = vector_resize(v)
      OBVIOUS
    <3>2. room = r
      BY <2>1, <3>1
    <3> HIDE DEF room
    <3>3. /\ r \in Vector(S) /\ Bounds(v) \in DOMAIN r.content
          /\ \A j \in Entries(v) : j \in Entries(r) /\ r.content[j] = v.content[j]
      BY <3>1, VectorResize
    <3> QED
      BY <1>1, <1>3, <2>1, <3>2, <3>3
  <2>2. CASE FreeSlots(v) # {}
    BY <1>2, <1>3, <2>2
  <2> QED
    BY <2>1, <2>2
<1>5. v2 = [count |-> room.count + 1, content |-> [room.content EXCEPT ![i] = x]]
  BY DEF vector_add
<1> HIDE DEF room
<1>6. /\ v2 \in Vector(S) /\ i \in Entries(v2) /\ v2.content[i] = x
      /\ \A j \in Entries(room) : j # i => j \in Entries(v2) /\ v2.content[j] = room.content[j]
  BY <1>3, <1>4, <1>5, VectorStore
<1> QED
  BY <1>3, <1>4, <1>6

\* vector_get finds an entry.
LEMMA VectorGet ==
  ASSUME NEW S, NEW v \in Vector(S), NEW i \in Entries(v)
  PROVE  vector_get(v, i) = v.content[i] /\ v.content[i] \in S
<1>1. Bounds(v) \in Nat /\ v.content \in [0..(Bounds(v) - 1) -> S \cup {NULL}]
  BY VectorBounds
<1>2. i \in 0..(Bounds(v) - 1) /\ i \in DOMAIN v.content /\ v.content[i] # NULL
  BY <1>1 DEF Entries
<1>3. ~(i > Bounds(v))
  BY <1>1, <1>2
<1> QED
  BY <1>1, <1>2, <1>3 DEF vector_get, IndexPasses

\* The type invariant's view of a vector.
LEMMA VectorType ==
  ASSUME NEW S, NEW v \in Vector(S)
  PROVE  IsVector(v, S)
<1>1. /\ Bounds(v) \in Nat /\ v.content \in [0..(Bounds(v) - 1) -> S \cup {NULL}]
      /\ v.count \in Int
  BY VectorBounds
<1> QED
  BY <1>1 DEF IsVector

-----------------------------------------------------------------------------
(* The memory of process_create *)

\* The frame of the stack is cleared through the window.
LEMMA ClearFrame ==
  ASSUME NEW x, Quiet(x), NEW k \in Nat, Cardinality(x.free) >= k + 1,
         Cardinality(EmptySlots(x)) >= 1,
         NEW f, f = NextFrame(x),
         NEW r, r = paging_unmap_kernel(
                      Write(paging_map_kernel(Take(x), f), WindowPage(NextSlot(x)), Single(0, Nil)),
                      NextSlot(x))
  PROVE  /\ Quiet(r) /\ r.cr3 = x.cr3 /\ r.current_context = x.current_context
         /\ r.tlb = x.tlb /\ r.window = x.window
         /\ f \in x.free /\ r.free = x.free \ {f} /\ Cardinality(r.free) >= k
         /\ \A g \in Frame : g # f => r.mem[g] = x.mem[g]
         /\ \A w \in Word : r.mem[f][w] = IF w = 0 THEN Nil ELSE x.mem[f][w]
<1> DEFINE i  == NextSlot(x)
           y1 == Take(x)
           y2 == paging_map_kernel(y1, f)
           w3 == Single(0, Nil)
           y3 == Write(y2, WindowPage(i), w3)
           y4 == paging_unmap_kernel(y3, i)
<1>1. r = y4
  OBVIOUS
<1>2. /\ InHandler(x, y1) /\ f \in x.free /\ f \in Frame
      /\ y1.free = x.free \ {f} /\ Cardinality(y1.free) >= k
      /\ y1.mem = x.mem /\ y1.window = x.window
  <2>1. InHandler(x, x)
    BY Entering
  <2> QED
    BY <2>1, TakeFrame
<1>3. /\ InHandler(x, y2)
      /\ i \in 0..(WindowSize - 1) /\ x.window[i] = Nil
      /\ y2.window = [x.window EXCEPT ![i] = f]
      /\ y2.mem = x.mem /\ y2.free = y1.free
  <2>1. EmptySlots(y1) = EmptySlots(x) /\ NextSlot(y1) = i
    BY <1>2, SameWindow
  <2>2. PICK n \in Nat : n = 0
    OBVIOUS
  <2>3. /\ InHandler(x, y1) /\ f \in Frame /\ Cardinality(EmptySlots(y1)) >= n + 1
        /\ i = NextSlot(y1) /\ y2 = paging_map_kernel(y1, f)
    BY <1>2, <2>1, <2>2
  <2> HIDE DEF y1, i, y2
  <2>4. /\ InHandler(x, y2)
        /\ i \in 0..(WindowSize - 1) /\ y1.window[i] = Nil
        /\ y2.window = [y1.window EXCEPT ![i] = f]
        /\ y2.mem = y1.mem /\ y2.free = y1.free
    BY <2>3, MapKernel
  <2> QED
    BY <1>2, <2>4
<1> HIDE DEF y1, i, y2
<1>4. /\ x.window \in [0..(WindowSize - 1) -> Frame \cup {Nil}]
      /\ x.mem \in [Frame -> [Word -> Value]]
  BY DEF Quiet, Memory
<1>5. DOMAIN w3 = {0} /\ w3[0] = Nil /\ \A w \in DOMAIN w3 : w3[w] \in Value
  BY DEF Single, Value
<1> HIDE DEF w3
<1>6. /\ InHandler(x, y3) /\ y3.mem = [y2.mem EXCEPT ![f] = Overwrite(y2.mem[f], w3)]
      /\ y3.window = y2.window /\ y3.free = y2.free
  <2>1. y2.window[i] = f
    BY <1>3, <1>4
  <2>2. /\ InHandler(x, y2) /\ i \in 0..(WindowSize - 1) /\ f \in Frame /\ y2.window[i] = f
        /\ \A w \in DOMAIN w3 : w3[w] \in Value
        /\ y3 = Write(y2, WindowPage(i), w3)
    BY <1>2, <1>3, <1>5, <2>1
  <2> HIDE DEF y3
  <2> QED
    BY <2>2, WriteWindow
<1> HIDE DEF y3
<1>7. /\ InHandler(x, r) /\ r.mem = y3.mem /\ r.free = y3.free
      /\ r.window = [y3.window EXCEPT ![i] = Nil]
  BY <1>1, <1>3, <1>6, UnmapKernel
<1>8. r.window = x.window
  <2>1. r.window = [[x.window EXCEPT ![i] = f] EXCEPT ![i] = Nil] /\ x.window[i] = Nil
    BY <1>3, <1>6, <1>7
  <2> QED
    BY <1>3, <1>4, <2>1
<1>9. Quiet(r) /\ r.tlb = x.tlb /\ r.cr3 = x.cr3 /\ r.current_context = x.current_context
  <2>1. InHandler(x, r) /\ \A n \in 0..(WindowSize - 1) : r.window[n] = Nil
    BY <1>7, <1>8 DEF Quiet
  <2>2. Quiet(r) /\ r.tlb = x.tlb
    BY <2>1, Leaving
  <2> QED
    BY <2>1, <2>2 DEF InHandler
<1>10. r.free = x.free \ {f} /\ Cardinality(r.free) >= k
  BY <1>2, <1>3, <1>6, <1>7
<1>11. r.mem = [x.mem EXCEPT ![f] = Overwrite(x.mem[f], w3)]
  BY <1>3, <1>6, <1>7
<1>12. \A w \in Word : r.mem[f][w] = IF w = 0 THEN Nil ELSE x.mem[f][w]
  <2> TAKE w \in Word
  <2>1. r.mem[f] = Overwrite(x.mem[f], w3) /\ x.mem[f] \in [Word -> Value]
    BY <1>2, <1>4, <1>11
  <2>2. r.mem[f][w] = IF w \in DOMAIN w3 THEN w3[w] ELSE x.mem[f][w]
    BY <2>1, OverwriteWord
  <2> QED
    BY <1>5, <2>2
<1>13. \A g \in Frame : g # f => r.mem[g] = x.mem[g]
  BY <1>4, <1>11
<1> QED
  BY <1>2, <1>8, <1>9, <1>10, <1>12, <1>13

\* The new address space shows a cleared stack and nothing else; those that
\* exist show what they showed.
LEMMA CreateMemory ==
  ASSUME NEW x, Quiet(x), NEW D, NEW kind, NEW of, NEW at, Spaces(x, D, kind, of, at),
         x.cr3 \in D, x.cr3 = x.current_context,
         Cardinality(x.free) >= 4, Cardinality(EmptySlots(x)) >= 2,
         NEW c, c = NextFrame(x), NEW x1, x1 = paging_create_context(x),
         NEW f, f = NextFrame(x1),
         NEW x2, x2 = paging_unmap_kernel(
                        Write(paging_map_kernel(Take(x1), f), WindowPage(NextSlot(x1)),
                              Single(0, Nil)),
                        NextSlot(x1)),
         NEW r, r = paging_map(x2, c, StackPage, f)
  PROVE  /\ Quiet(r) /\ r.cr3 = x.cr3 /\ r.current_context = x.current_context
         /\ r.tlb \subseteq x.tlb
         /\ c \in Frame /\ c \notin D /\ f \in Frame
         /\ \A w \in Word : r.mem[f][w] \in {Nil, Garbage}
         /\ \A e \in D : \A u \in UserPages : Walk(r, e, u) = Walk(x, e, u)
         /\ \A u \in UserPages : Walk(r, c, u) = IF u = StackPage THEN f ELSE Nil
         /\ \A g \in Frame : kind[g] = "page" => r.mem[g] = x.mem[g]
         /\ \E kind2, of2, at2 :
              /\ Spaces(r, D \cup {c}, kind2, of2, at2)
              /\ \A g \in Frame : kind[g] = "loose" => kind2[g] = "loose" /\ of2[g] = of[g]
<1>1. x.free \subseteq Frame /\ StackPage \in UserPages
  BY PageNumbers DEF Quiet, Memory
<1>2. PICK t \in x.free :
        /\ c \in x.free /\ t # c /\ x1.free = x.free \ {c, t}
        /\ Cardinality(x1.free) >= 2
        /\ Quiet(x1) /\ x1.cr3 = x.cr3 /\ x1.current_context = x.current_context
        /\ x1.tlb = x.tlb /\ x1.window = x.window
        /\ \A g \in Frame : g # c /\ g # t => x1.mem[g] = x.mem[g]
        /\ x1.mem[c][VIEW] = t /\ x1.mem[c][SELF] = c
        /\ \A i \in 0..(N - 1) : x1.mem[c][i] = Nil
        /\ x1.mem[t][SELF] = c
  <2>1. PICK k \in Nat : k = 2
    OBVIOUS
  <2>2. Cardinality(x.free) >= k + 1 + 1
    BY <2>1
  <2>3. \E t \in x.free :
          /\ c \in x.free /\ t # c /\ x1.free = x.free \ {c, t}
          /\ Cardinality(x1.free) >= k
          /\ Quiet(x1) /\ x1.cr3 = x.cr3 /\ x1.current_context = x.current_context
          /\ x1.tlb = x.tlb /\ x1.window = x.window
          /\ \A g \in Frame : g # c /\ g # t => x1.mem[g] = x.mem[g]
          /\ x1.mem[c][VIEW] = t /\ x1.mem[c][SELF] = c
          /\ \A i \in 0..(N - 1) : x1.mem[c][i] = Nil
          /\ x1.mem[t][SELF] = c
    BY <2>2, CreateContext
  <2> QED
    BY <2>1, <2>3
<1>3. /\ Quiet(x2) /\ x2.cr3 = x.cr3 /\ x2.current_context = x.current_context
      /\ x2.tlb = x.tlb /\ x2.window = x.window
      /\ f \in x1.free /\ x2.free = x1.free \ {f} /\ Cardinality(x2.free) >= 1
      /\ \A g \in Frame : g # f => x2.mem[g] = x1.mem[g]
      /\ \A w \in Word : x2.mem[f][w] = IF w = 0 THEN Nil ELSE x1.mem[f][w]
  <2>1. PICK k \in Nat : k = 1
    OBVIOUS
  <2>2. EmptySlots(x1) = EmptySlots(x)
    BY <1>2, SameWindow
  <2>3. Quiet(x1) /\ Cardinality(x1.free) >= k + 1 /\ Cardinality(EmptySlots(x1)) >= 1
    <3>1. Cardinality(EmptySlots(x1)) >= 2
      BY <2>2
    <3>2. Cardinality(EmptySlots(x1)) \in Nat
      <4>1. EmptySlots(x1) \subseteq 0..(WindowSize - 1)
        BY <1>2 DEF EmptySlots, Quiet, Memory
      <4>2. IsFiniteSet(EmptySlots(x1))
        BY <4>1, FrameFacts, FS_Subset
      <4> QED
        BY <4>2, FS_CardinalityType
    <3>3. Cardinality(EmptySlots(x1)) >= 1
      BY <3>1, <3>2
    <3> QED
      BY <1>2, <2>1, <3>3
  <2>4. /\ Quiet(x2) /\ x2.cr3 = x1.cr3 /\ x2.current_context = x1.current_context
        /\ x2.tlb = x1.tlb /\ x2.window = x1.window
        /\ f \in x1.free /\ x2.free = x1.free \ {f} /\ Cardinality(x2.free) >= k
        /\ \A g \in Frame : g # f => x2.mem[g] = x1.mem[g]
        /\ \A w \in Word : x2.mem[f][w] = IF w = 0 THEN Nil ELSE x1.mem[f][w]
    BY <2>3, ClearFrame
  <2> QED
    BY <1>2, <2>1, <2>4
<1>4. c \in Frame /\ t \in Frame /\ f \in Frame /\ f # c /\ f # t /\ c \notin x2.free
  BY <1>1, <1>2, <1>3
<1>5. kind[c] = "free" /\ kind[t] = "free" /\ kind[f] = "free"
  BY <1>2, <1>3 DEF Spaces
<1> DEFINE kind1 == [g \in Frame |-> IF g = c THEN "dir" ELSE IF g = t THEN "view" ELSE kind[g]]
           of1 == [g \in Frame |-> IF g = t THEN c ELSE of[g]]
           D1 == D \cup {c}
<1>6. /\ Spaces(x1, D1, kind1, of1, at) /\ c \notin D
      /\ \A d \in D : \A v \in UserPages : Walk(x1, d, v) = Walk(x, d, v)
      /\ \A v \in UserPages : Walk(x1, c, v) = Nil
  <2>1. Created(x, x1, c, t, kind, of, kind1, of1)
    BY <1>1, <1>2 DEF Created
  <2> HIDE DEF kind1, of1
  <2> HIDE DEF D1
  <2>2. Spaces(x1, D \cup {c}, kind1, of1, at)
    BY <2>1, SpacesCreate
  <2>3. c \notin D
    BY <2>1, SpacesCreate
  <2>4. \A d \in D : \A v \in UserPages : Walk(x1, d, v) = Walk(x, d, v)
    BY <2>1, <2>2, <2>3, SpacesCreate
  <2>5. \A v \in UserPages : Walk(x1, c, v) = Nil
    BY <2>1, <2>2, <2>3, SpacesCreate
  <2> QED
    BY <2>2, <2>3, <2>4, <2>5 DEF D1
<1>7. kind1[f] = "free" /\ \A g \in Frame : kind[g] \in {"page", "loose"} => kind1[g] = kind[g] /\ of1[g] = of[g]
  BY <1>4, <1>5
<1> HIDE DEF kind1, of1
<1> DEFINE kind2 == [g \in Frame |-> IF g = f THEN "stack" ELSE kind1[g]]
           of2 == [g \in Frame |-> IF g = f THEN c ELSE of1[g]]
<1>8. /\ Spaces(x2, D1, kind2, of2, at)
      /\ \A d \in D1 : \A v \in UserPages : Walk(x2, d, v) = Walk(x1, d, v)
  <2>1. Taken(x1, x2, f, kind1, of1, kind2, of2)
    <3>1. x1.free \subseteq Frame
      BY <1>1, <1>2
    <3> QED
      BY <1>3, <1>4, <3>1 DEF Taken
  <2> HIDE DEF D1, kind2, of2
  <2> QED
    BY <1>6, <2>1, SpacesTake
<1>9. kind2[f] = "stack" /\ \A g \in Frame : kind[g] \in {"page", "loose"} => kind2[g] = kind[g] /\ of2[g] = of[g]
  BY <1>4, <1>5, <1>7
<1> HIDE DEF kind2, of2
<1>10. PICK t2 \in Frame : MapEffect(x2, r, c, StackPage, f, t2)
  <2>1. x2.mem[c][StackPage \div N] = Nil
    <3>1. x2.mem[c] = x1.mem[c]
      BY <1>3, <1>4
    <3> QED
      BY <1>1, <1>2, <3>1, PageNumbers
  <2>2. ~TableInView(x2, c, StackPage)
    BY <1>3, <1>6 DEF TableInView
  <2>3. /\ Quiet(x2) /\ c \in Frame /\ c \notin x2.free /\ Cardinality(x2.free) >= 1
        /\ Cardinality(EmptySlots(x2)) >= 2 /\ StackPage \in UserPages /\ f \in Frame
    BY <1>1, <1>3, <1>4, SameWindow
  <2> QED
    BY <2>1, <2>2, <2>3, MapNew
<1> DEFINE kind3 == [g \in Frame |-> IF g = f THEN "page" ELSE IF g = t2 THEN "table" ELSE kind2[g]]
           of3 == [g \in Frame |-> IF g = f \/ g = t2 THEN c ELSE of2[g]]
           at3 == [g \in Frame |-> IF g = f THEN StackPage ELSE IF g = t2 THEN StackPage \div N ELSE at[g]]
<1>11. /\ Spaces(r, D1, kind3, of3, at3)
       /\ \A e \in D1 : \A u \in UserPages :
            Walk(r, e, u) = IF e = c /\ u = StackPage THEN f ELSE Walk(x2, e, u)
       /\ \A g \in Frame : kind2[g] \in {"page", "stack", "loose"} => r.mem[g] = x2.mem[g]
       /\ t2 # f /\ kind2[t2] \in {"table", "free"}
  <2>1. /\ Spaces(x2, D1, kind2, of2, at) /\ c \in D1 /\ StackPage \in UserPages /\ f \in Frame
        /\ kind2[f] \in {"stack", "loose"} /\ MapEffect(x2, r, c, StackPage, f, t2)
    BY <1>1, <1>4, <1>8, <1>9, <1>10
  <2>2. \A g \in Frame :
          /\ kind3[g] = IF g = f THEN "page" ELSE IF g = t2 THEN "table" ELSE kind2[g]
          /\ of3[g] = IF g = f \/ g = t2 THEN c ELSE of2[g]
          /\ at3[g] = IF g = f THEN StackPage ELSE IF g = t2 THEN StackPage \div N ELSE at[g]
    OBVIOUS
  <2> HIDE DEF D1, kind3, of3, at3
  <2> QED
    BY <2>1, <2>2, SpacesMap
<1>12. \A g \in Frame : kind[g] = "loose" => kind3[g] = "loose" /\ of3[g] = of[g]
  BY <1>5, <1>9, <1>11
<1> HIDE DEF kind3, of3, at3
<1>13. \A e \in D : \A u \in UserPages : Walk(r, e, u) = Walk(x, e, u)
  BY <1>6, <1>8, <1>11
<1>14. \A u \in UserPages : Walk(r, c, u) = IF u = StackPage THEN f ELSE Nil
  BY <1>6, <1>8, <1>11
<1>15. \A g \in Frame : kind[g] = "page" => r.mem[g] = x.mem[g]
  <2> SUFFICES ASSUME NEW g \in Frame, kind[g] = "page" PROVE r.mem[g] = x.mem[g]
    OBVIOUS
  <2>1. r.mem[g] = x2.mem[g]
    BY <1>9, <1>11
  <2>2. g # f /\ g # c /\ g # t
    BY <1>5
  <2> QED
    BY <1>2, <1>3, <2>1, <2>2
<1>16. \A w \in Word : r.mem[f][w] \in {Nil, Garbage}
  <2> TAKE w \in Word
  <2>1. r.mem[f] = x2.mem[f]
    BY <1>4, <1>9, <1>11
  <2>2. x1.mem[f] = x.mem[f] /\ x.mem[f][w] = Garbage
    BY <1>2, <1>4, <1>5 DEF Spaces
  <2> QED
    BY <1>3, <2>1, <2>2
<1>17. /\ Quiet(r) /\ r.cr3 = x.cr3 /\ r.current_context = x.current_context
       /\ r.tlb \subseteq x.tlb
  BY <1>3, <1>10 DEF MapEffect
<1>18. \E kind9, of9, at9 :
         /\ Spaces(r, D \cup {c}, kind9, of9, at9)
         /\ \A g \in Frame : kind[g] = "loose" => kind9[g] = "loose" /\ of9[g] = of[g]
  BY <1>11, <1>12
<1> QED
  BY <1>4, <1>6, <1>13, <1>14, <1>15, <1>16, <1>17, <1>18

-----------------------------------------------------------------------------
(* The inductive invariant.  Its parts up to Current hold however the threads *)
(* of a process interleave; HeapOK is about processes of which one thread at  *)
(* a time is inside sbrk.                                                     *)

ProcessRecord == [pid : Nat, context : Frame \cup {Nil}, size : Nat, used : Int,
                  threads : Vector(Threads)]

ThreadRecord == [process : Procs \cup {Nil}, tid : Nat, tls : Descriptor]

Local == [incr : Int, virt : Nat, phys : Nat, slot : Nat]

Types ==
  /\ Quiet(m)
  /\ sch \in Sched
  /\ processes \in Vector(Procs)
  /\ proc \in [Procs -> ProcessRecord]
  /\ thread \in [Threads -> ThreadRecord]
  /\ gdt_tls \in Descriptor
  /\ pc \in [Threads -> Step]
  /\ loc \in [Threads -> Local]
  /\ halted \in {"no", "panic", "overrun", "raced"}

\* The run queue holds the threads that are ready and not running; threads
\* that were created belong to a process, and no others are inside a call.
Queued == \E q \in Seq(Threads) :
  /\ IsRunQueue(sch, q)
  /\ \A t \in Threads : InQueue(t, q) => sch.state[t] = "READY" /\ t # sch.current

Callers ==
  /\ Queued
  /\ sch.current # NULL => sch.state[sch.current] = "READY"
  /\ \A t \in Threads : /\ sch.state[t] # "FREE" => thread[t].process \in Live
                        /\ pc[t] # "user" => sch.state[t] # "FREE"

Identifiers ==
  /\ \A p \in Live : proc[p].pid \in Entries(processes) /\ processes.content[proc[p].pid] = p
  /\ \A t \in Threads :
       thread[t].process # Nil =>
         /\ thread[t].process \in Live
         /\ thread[t].tid \in Entries(proc[thread[t].process].threads)
         /\ proc[thread[t].process].threads.content[thread[t].tid] = t

\* Identifiers are as they should be until two threads take the same.
Named == halted # "raced" => Identifiers

\* The boot directory and those of the processes.
Directories == {0} \cup {proc[p].context : p \in Live}

\* The uses of frames; a thread that is about to map a frame has it for itself.
Uses == \E kind, of, at :
  /\ Spaces(m, Directories, kind, of, at)
  /\ \A t \in Threads : pc[t] = "map" =>
       /\ loc[t].phys \in Frame
       /\ kind[loc[t].phys] = "loose" /\ of[loc[t].phys] = t

Contents ==
  \A p \in Live : \A v \in UserPages :
    Shows(p, v) # Nil => \A w \in Word : m.mem[Shows(p, v)][w] \in {p, Nil, Garbage}

AddressSpaces ==
  /\ \A p, q \in Live : proc[p].context = proc[q].context => p = q
  /\ Uses
  /\ Contents
  /\ \A t \in Threads : pc[t] \in {"zero", "size"} => loc[t].virt \in UserPages

Current ==
  /\ m.cr3 \in Directories
  /\ TranslationCurrent

SpacesInv == Types /\ Callers /\ Named /\ AddressSpaces /\ Current

\* Page v of process p is mapped and was cleared.
Backed(p, v) == Shows(p, v) \in Frame /\ \A w \in Word : m.mem[Shows(p, v)][w] # Garbage

\* How far the process has got with the request of thread t; Slack is what its
\* heap has to spare.
Slack(p) == proc[p].size - proc[p].used

Request(t) == loc[t].incr % Modulus

InLoop(t) ==
  LET p == thread[t].process
      v == loc[t].virt
  IN  /\ loc[t].incr \in Incrs
      /\ Slack(p) < PAGE_SIZE + Request(t)
      /\ pc[t] \in {"take", "map", "zero", "size"} =>
           /\ v = HeapStart + proc[p].size \div PAGE_SIZE
           /\ Request(t) > Slack(p)
      /\ pc[t] \in {"zero", "size"} => v < StackPage /\ Shows(p, v) # Nil
      /\ pc[t] = "size" => Backed(p, v)

\* The heap of process p is made of whole pages below the stack.
HeapShape(p) ==
  /\ proc[p].used \in Nat /\ proc[p].used <= proc[p].size
  /\ proc[p].size = PAGE_SIZE * (proc[p].size \div PAGE_SIZE)
  /\ HeapStart + proc[p].size \div PAGE_SIZE <= StackPage
  /\ \A v \in HeapPages(p) : Backed(p, v)
  /\ (\A t \in Threads : thread[t].process = p => pc[t] \notin Looping) => Slack(p) < PAGE_SIZE

HeapOK ==
  /\ \A p \in Live : HeapShape(p)
  /\ \A t \in Threads : pc[t] \in Looping => InLoop(t)
  /\ \A t, u \in Threads :
       pc[t] \in Looping /\ pc[u] \in Looping /\ thread[t].process = thread[u].process => t = u
  /\ OverrunExplained

-----------------------------------------------------------------------------
(* Writing to user pages *)

\* A program's write goes to the frame its address space shows.
LEMMA WriteUser ==
  ASSUME NEW x, Quiet(x), \A e \in x.tlb : e[2] = Walk(x, x.cr3, e[1]),
         NEW v \in UserPages, NEW f, f = Walk(x, x.cr3, v), f \in Frame \cup {Nil},
         NEW words, \A w \in DOMAIN words : words[w] \in Value,
         NEW r, r = Write(x, v, words)
  PROVE  /\ Quiet(r) /\ r.cr3 = x.cr3 /\ r.current_context = x.current_context
         /\ r.free = x.free
         /\ f = Nil => r = x
         /\ f # Nil => /\ r.mem = [x.mem EXCEPT ![f] = Overwrite(x.mem[f], words)]
                       /\ r.tlb = x.tlb \cup {<<v, f>>}
<1>1. x \in Memory /\ v \in Nat
  BY PageNumbers DEF Quiet
<1>2. Translate(x, v) = f
  BY TranslateCurrent
<1>3. CASE f = Nil
  <2>1. f \notin Frame
    BY <1>3, FrameFacts
  <2> DEFINE g == Translate(x, v)
             y == [x EXCEPT !.mem = [x.mem EXCEPT ![g] = Overwrite(x.mem[g], words)],
                            !.tlb = x.tlb \cup {<<v, g>>}]
  <2>2. Write(x, v, words) = IF g \in Frame THEN y ELSE x
    BY Zenon DEF Write
  <2> HIDE DEF g, y
  <2>3. g = f
    BY <1>2 DEF g
  <2>4. r = x
    BY <2>1, <2>2, <2>3
  <2> QED
    BY <1>3, <2>4
<1>4. CASE f # Nil
  <2> DEFINE mem == [x.mem EXCEPT ![f] = Overwrite(x.mem[f], words)]
             tlb == x.tlb \cup {<<v, f>>}
             g == Translate(x, v)
  <2>1. f \in Frame
    BY <1>4
  <2>2. Write(x, v, words) =
          IF g \in Frame
          THEN [x EXCEPT !.mem = [x.mem EXCEPT ![g] = Overwrite(x.mem[g], words)],
                         !.tlb = x.tlb \cup {<<v, g>>}]
          ELSE x
    BY Zenon DEF Write
  <2> HIDE DEF g
  <2>3. g = f
    BY <1>2 DEF g
  <2>4. r = [x EXCEPT !.mem = mem, !.tlb = tlb]
    BY <2>1, <2>2, <2>3
  <2>5. Overwrite(x.mem[f], words) \in [Word -> Value]
    <3>1. x.mem[f] \in [Word -> Value]
      BY <1>1, <2>1 DEF Memory
    <3> QED
      BY <3>1 DEF Overwrite
  <2>6. mem \in [Frame -> [Word -> Value]] /\ tlb \in SUBSET (Nat \X Frame)
    BY <1>1, <2>1, <2>5 DEF Memory
  <2>7. \A e \in tlb : e[1] \in UserPages
    BY DEF Quiet
  <2> HIDE DEF mem, tlb
  <2>8. /\ r.mem = mem /\ r.tlb = tlb /\ r.window = x.window /\ r.free = x.free
        /\ r.cr3 = x.cr3 /\ r.current_context = x.current_context /\ r \in Memory
    BY <1>1, <2>4, <2>6 DEF Memory
  <2>9. Quiet(r)
    BY <2>7, <2>8 DEF Quiet
  <2> QED
    BY <1>4, <2>8, <2>9 DEF mem, tlb
<1> QED
  BY <1>3, <1>4

\* paging_activate_context keeps memory; cached translations are those of the
\* context it activates.
LEMMA Activate ==
  ASSUME NEW x, Quiet(x), x.cr3 = x.current_context, NEW c \in Frame,
         NEW r, r = paging_activate_context(x, c)
  PROVE  /\ Quiet(r) /\ r.cr3 = c /\ r.current_context = c
         /\ r.mem = x.mem /\ r.free = x.free /\ r.window = x.window
         /\ r.tlb = IF c = x.cr3 THEN x.tlb ELSE {}
<1>1. CASE c = x.current_context
  BY <1>1 DEF paging_activate_context
<1>2. CASE c # x.current_context
  <2>1. {e \in x.tlb : e[1] \notin UserPages} = {}
    BY DEF Quiet
  <2>2. r = [x EXCEPT !.cr3 = c, !.current_context = c,
                !.tlb = {e \in x.tlb : e[1] \notin UserPages}]
    BY <1>2 DEF paging_activate_context
  <2>3. r = [x EXCEPT !.cr3 = c, !.current_context = c, !.tlb = {}]
    BY <2>1, <2>2
  <2>4. /\ r \in Memory /\ r.cr3 = c /\ r.current_context = c
        /\ r.mem = x.mem /\ r.free = x.free /\ r.window = x.window /\ r.tlb = {}
    BY <2>3 DEF Quiet, Memory
  <2> QED
    BY <1>2, <2>4 DEF Quiet
<1> QED
  BY <1>1, <1>2

-----------------------------------------------------------------------------
(* What steps leave alone *)

\* Walks depend on the words of frames only.
LEMMA SpacesSame ==
  ASSUME NEW x, NEW D, NEW kind, NEW of, NEW at, Spaces(x, D, kind, of, at),
         NEW r, r.mem = x.mem, r.free = x.free
  PROVE  /\ Spaces(r, D, kind, of, at)
         /\ \A d \in D : \A v \in UserPages : Walk(r, d, v) = Walk(x, d, v)
<1>1. ASSUME NEW d \in D
      PROVE  Space(r, d, kind, of, at) /\ \A v \in UserPages : Walk(r, d, v) = Walk(x, d, v)
  <2>1. Space(x, d, kind, of, at)
    BY DEF Spaces
  <2> QED
    BY <2>1, SpaceKept
<1> QED
  BY <1>1 DEF Spaces

\* The contexts of processes decide which address spaces there are.
LEMMA ContextsKept ==
  ASSUME \A p \in Procs : proc'[p].context = proc[p].context
  PROVE  Live' = Live /\ Directories' = Directories
<1>1. Live' = Live
  BY DEF Live
<1>2. \A p \in Live : proc'[p].context = proc[p].context
  BY DEF Live
<1>3. {proc'[p].context : p \in Live} = {proc[p].context : p \in Live}
  BY <1>2
<1> QED
  BY <1>1, <1>3 DEF Directories

\* Every page of a process shows a frame of its own.
LEMMA ShownFrame ==
  ASSUME NEW D, NEW kind, NEW of, NEW at, Spaces(m, D, kind, of, at),
         NEW p, proc[p].context \in D, NEW v \in UserPages, Shows(p, v) # Nil
  PROVE  /\ Shows(p, v) \in Frame /\ kind[Shows(p, v)] = "page"
         /\ of[Shows(p, v)] = proc[p].context /\ at[Shows(p, v)] = v
<1>1. Space(m, proc[p].context, kind, of, at)
  BY DEF Spaces
<1>2. LET f == Walk(m, proc[p].context, v) IN
        f # Nil => f \in Frame /\ kind[f] = "page" /\ of[f] = proc[p].context /\ at[f] = v
  BY <1>1 DEF Space
<1> QED
  BY <1>2 DEF Shows

\* Threads in the loop of process_sbrk keep what they hold.
LocalsKept ==
  \A t \in Threads :
    /\ pc'[t] = "map" => pc[t] = "map" /\ loc'[t] = loc[t]
    /\ pc'[t] \in {"zero", "size"} => pc[t] \in {"zero", "size"} /\ loc'[t] = loc[t]

\* Threads in the loop of process_sbrk neither move nor join or leave it.
LoopsKept ==
  \A t \in Threads :
    pc[t] \in Looping \/ pc'[t] \in Looping => pc'[t] = pc[t] /\ loc'[t] = loc[t]

\* No step that leaves page v of process p to itself makes it less than it was.
PageKept(p, v) ==
  /\ Shows(p, v) # Nil => Shows(p, v)' # Nil
  /\ Backed(p, v) => Backed(p, v)'

LEMMA SpacesStay ==
  ASSUME AddressSpaces, m'.mem = m.mem, m'.free = m.free,
         \A p \in Procs : proc'[p].context = proc[p].context,
         LocalsKept
  PROVE  /\ AddressSpaces'
         /\ \A d \in Directories : \A v \in UserPages : Walk(m', d, v) = Walk(m, d, v)
         /\ \A p \in Live : \A v \in UserPages : PageKept(p, v)
<1>1. Live' = Live /\ Directories' = Directories
  BY ContextsKept
<1>2. PICK kind, of, at :
        /\ Spaces(m, Directories, kind, of, at)
        /\ \A t \in Threads : pc[t] = "map" =>
             /\ loc[t].phys \in Frame
             /\ kind[loc[t].phys] = "loose" /\ of[loc[t].phys] = t
  BY DEF AddressSpaces, Uses
<1>3. /\ Spaces(m', Directories, kind, of, at)
      /\ \A d \in Directories : \A v \in UserPages : Walk(m', d, v) = Walk(m, d, v)
  BY <1>2, SpacesSame
<1>4. \A p \in Live : \A v \in UserPages : Shows(p, v)' = Shows(p, v)
  <2> SUFFICES ASSUME NEW p \in Live, NEW v \in UserPages PROVE Shows(p, v)' = Shows(p, v)
    OBVIOUS
  <2>1. proc[p].context \in Directories /\ proc'[p].context = proc[p].context
    BY DEF Directories, Live
  <2> QED
    BY <1>3, <2>1 DEF Shows
<1>5. Uses'
  <2>1. \A t \in Threads : pc'[t] = "map" =>
          /\ loc'[t].phys \in Frame
          /\ kind[loc'[t].phys] = "loose" /\ of[loc'[t].phys] = t
    BY <1>2 DEF LocalsKept
  <2> QED
    BY <1>1, <1>3, <2>1 DEF Uses
<1>6. Contents'
  BY <1>1, <1>4 DEF Contents, AddressSpaces
<1>7. \A p, q \in Live' : proc'[p].context = proc'[q].context => p = q
  BY <1>1 DEF AddressSpaces, Live
<1>8. \A t \in Threads : pc'[t] \in {"zero", "size"} => loc'[t].virt \in UserPages
  BY DEF AddressSpaces, LocalsKept
<1>9. AddressSpaces'
  BY <1>5, <1>6, <1>7, <1>8 DEF AddressSpaces
<1>10. \A p \in Live : \A v \in UserPages : PageKept(p, v)
  BY <1>4 DEF PageKept, Backed
<1> QED
  BY <1>3, <1>9, <1>10

\* The running thread writes to page v of its process.
LEMMA SpacesWritten ==
  ASSUME Types, AddressSpaces, Current, sch.current # NULL, NEW c, c = CurrentProc, c \in Live,
         NEW v \in UserPages, NEW words, \A w \in DOMAIN words : words[w] \in {c, Nil},
         m' = Write(m, v, words),
         \A p \in Procs : proc'[p].context = proc[p].context,
         LocalsKept
  PROVE  /\ AddressSpaces' /\ Quiet(m')
         /\ m'.cr3 = m.cr3 /\ m'.cr3 = m'.current_context
         /\ \A e \in m'.tlb : e[2] = Walk(m', m'.cr3, e[1])
         /\ \A p \in Live : \A u \in UserPages : PageKept(p, u)
         /\ Shows(c, v) # Nil /\ DOMAIN words = Word => Backed(c, v)'
<1> DEFINE f == Shows(c, v)
<1>1. Live' = Live /\ Directories' = Directories
  BY ContextsKept
<1>2. PICK kind, of, at :
        /\ Spaces(m, Directories, kind, of, at)
        /\ \A t \in Threads : pc[t] = "map" =>
             /\ loc[t].phys \in Frame
             /\ kind[loc[t].phys] = "loose" /\ of[loc[t].phys] = t
  BY DEF AddressSpaces, Uses
<1>3. \A p \in Live : p \in Procs /\ proc[p].context \in Directories
                      /\ proc'[p].context = proc[p].context
  BY DEF Directories, Live
<1>4. f # Nil => f \in Frame /\ kind[f] = "page" /\ of[f] = proc[c].context /\ at[f] = v
  BY <1>2, <1>3, ShownFrame
<1>5. m.cr3 = m.current_context /\ m.cr3 = proc[c].context /\ m.cr3 \in Directories
      /\ \A e \in m.tlb : e[2] = Walk(m, m.cr3, e[1])
  BY DEF Current, TranslationCurrent
<1>6. c \in Procs /\ c # Garbage /\ Nil # Garbage
      /\ \A w \in DOMAIN words : words[w] \in Value /\ words[w] # Garbage
  BY <1>3, PagingAssumption, ProcessAssumption DEF Value
<1>7. f = Walk(m, m.cr3, v)
  BY <1>5 DEF Shows
<1> HIDE DEF f
<1>8. /\ Quiet(m') /\ m'.cr3 = m.cr3 /\ m'.current_context = m.current_context
      /\ m'.free = m.free
      /\ f = Nil => m' = m
      /\ f # Nil => /\ m'.mem = [m.mem EXCEPT ![f] = Overwrite(m.mem[f], words)]
                    /\ m'.tlb = m.tlb \cup {<<v, f>>}
  <2>1. /\ Quiet(m) /\ \A e \in m.tlb : e[2] = Walk(m, m.cr3, e[1])
        /\ v \in UserPages /\ f = Walk(m, m.cr3, v) /\ f \in Frame \cup {Nil}
        /\ \A w \in DOMAIN words : words[w] \in Value
        /\ m' = Write(m, v, words)
    BY <1>4, <1>5, <1>6, <1>7 DEF Types
  <2> QED
    BY <2>1, WriteUser
<1>9. m.mem \in [Frame -> [Word -> Value]]
  BY DEF Types, Quiet, Memory
<1>10. \A g \in Frame : g # f => m'.mem[g] = m.mem[g]
  BY <1>8, <1>9
<1>11. f # Nil => \A w \in Word : m'.mem[f][w] = IF w \in DOMAIN words THEN words[w] ELSE m.mem[f][w]
  <2> SUFFICES ASSUME f # Nil, NEW w \in Word
               PROVE  m'.mem[f][w] = IF w \in DOMAIN words THEN words[w] ELSE m.mem[f][w]
    OBVIOUS
  <2>1. m'.mem[f] = Overwrite(m.mem[f], words) /\ m.mem[f] \in [Word -> Value]
    BY <1>4, <1>8, <1>9
  <2> QED
    BY <2>1, OverwriteWord
<1>12. /\ Spaces(m', Directories, kind, of, at)
       /\ \A d \in Directories : \A u \in UserPages : Walk(m', d, u) = Walk(m, d, u)
  <2>1. CASE f = Nil
    BY <1>2, <1>8, <2>1
  <2>2. CASE f # Nil
    <3>1. Spaces(m, Directories, kind, of, at) /\ kind[f] \in {"page", "stack"}
          /\ m'.free = m.free /\ \A g \in Frame : g # f => m'.mem[g] = m.mem[g]
      BY <1>2, <1>4, <1>8, <1>10, <2>2
    <3> QED
      BY <3>1, SpacesWrite
  <2> QED
    BY <2>1, <2>2
<1>13. \A p \in Live : \A u \in UserPages : Shows(p, u)' = Shows(p, u)
  BY <1>3, <1>12 DEF Shows
<1>14. ASSUME NEW p \in Live, NEW u \in UserPages, Shows(p, u) # Nil, Shows(p, u) = f
       PROVE  p = c /\ u = v
  <2>1. of[f] = proc[p].context /\ at[f] = u
    BY <1>2, <1>3, <1>14, ShownFrame
  <2> QED
    BY <1>4, <1>14, <2>1 DEF AddressSpaces
<1>15. Uses'
  <2>1. \A t \in Threads : pc'[t] = "map" =>
          /\ loc'[t].phys \in Frame
          /\ kind[loc'[t].phys] = "loose" /\ of[loc'[t].phys] = t
    BY <1>2 DEF LocalsKept
  <2> QED
    BY <1>1, <1>12, <2>1 DEF Uses
<1>16. Contents'
  <2> SUFFICES ASSUME NEW p \in Live, NEW u \in UserPages, Shows(p, u) # Nil, NEW w \in Word
               PROVE  m'.mem[Shows(p, u)][w] \in {p, Nil, Garbage}
    BY <1>1, <1>13 DEF Contents
  <2>1. Shows(p, u) \in Frame /\ m.mem[Shows(p, u)][w] \in {p, Nil, Garbage}
    BY <1>2, <1>3, ShownFrame DEF AddressSpaces, Contents
  <2>2. CASE Shows(p, u) = f
    BY <1>11, <1>14, <2>1, <2>2
  <2>3. CASE Shows(p, u) # f
    BY <1>10, <2>1, <2>3
  <2> QED
    BY <2>2, <2>3
<1>17. AddressSpaces'
  <2>1. \A p, q \in Live' : proc'[p].context = proc'[q].context => p = q
    BY <1>1, <1>3 DEF AddressSpaces
  <2>2. \A t \in Threads : pc'[t] \in {"zero", "size"} => loc'[t].virt \in UserPages
    BY DEF AddressSpaces, LocalsKept
  <2> QED
    BY <1>15, <1>16, <2>1, <2>2 DEF AddressSpaces
<1>18. \A e \in m'.tlb : e[2] = Walk(m', m'.cr3, e[1])
  <2> SUFFICES ASSUME NEW e \in m'.tlb PROVE e[2] = Walk(m', m'.cr3, e[1])
    OBVIOUS
  <2>1. e \in m.tlb \/ (f # Nil /\ e = <<v, f>>)
    BY <1>8
  <2>2. e[2] = Walk(m, m.cr3, e[1]) /\ e[1] \in UserPages
    BY <1>5, <1>7, <2>1 DEF Types, Quiet
  <2> QED
    BY <1>5, <1>8, <1>12, <2>2
<1>19. \A p \in Live : \A u \in UserPages : PageKept(p, u)
  <2> SUFFICES ASSUME NEW p \in Live, NEW u \in UserPages PROVE PageKept(p, u)
    OBVIOUS
  <2>1. ASSUME Backed(p, u) PROVE Backed(p, u)'
    <3> SUFFICES ASSUME NEW w \in Word PROVE m'.mem[Shows(p, u)][w] # Garbage
      BY <1>13, <2>1 DEF Backed
    <3>1. Shows(p, u) \in Frame /\ m.mem[Shows(p, u)][w] # Garbage
      BY <2>1 DEF Backed
    <3> QED
      BY <1>6, <1>10, <1>11, <3>1, FrameFacts
  <2> QED
    BY <1>13, <2>1 DEF PageKept
<1>20. ASSUME f # Nil, DOMAIN words = Word PROVE Backed(c, v)'
  <2>1. Shows(c, v)' = f
    BY <1>13 DEF f
  <2>2. \A w \in Word : m'.mem[f][w] # Garbage
    BY <1>6, <1>11, <1>20
  <2> QED
    BY <1>4, <1>20, <2>1, <2>2 DEF Backed
<1> QED
  BY <1>5, <1>8, <1>17, <1>18, <1>19, <1>20 DEF f

\* The running thread gets a free frame for the next page of the heap.
LEMMA SpacesTaken ==
  ASSUME Types, AddressSpaces, Current, NEW f \in m.free, m' = [m EXCEPT !.free = @ \ {f}],
         \A p \in Procs : proc'[p].context = proc[p].context,
         NEW t \in Threads, pc'[t] = "map", loc'[t].phys = f,
         \A u \in Threads : u # t => pc'[u] = pc[u] /\ loc'[u] = loc[u]
  PROVE  /\ AddressSpaces' /\ Quiet(m')
         /\ m'.cr3 = m.cr3 /\ m'.cr3 = m'.current_context
         /\ \A e \in m'.tlb : e[2] = Walk(m', m'.cr3, e[1])
         /\ \A p \in Live : \A u \in UserPages : PageKept(p, u)
<1>1. Live' = Live /\ Directories' = Directories
  BY ContextsKept
<1>2. PICK kind, of, at :
        /\ Spaces(m, Directories, kind, of, at)
        /\ \A u \in Threads : pc[u] = "map" =>
             /\ loc[u].phys \in Frame
             /\ kind[loc[u].phys] = "loose" /\ of[loc[u].phys] = u
  BY DEF AddressSpaces, Uses
<1>3. \A p \in Live : p \in Procs /\ proc[p].context \in Directories
                      /\ proc'[p].context = proc[p].context
  BY DEF Directories, Live
<1>4. m.cr3 = m.current_context /\ m.cr3 \in Directories
      /\ \A e \in m.tlb : e[2] = Walk(m, m.cr3, e[1]) /\ e[1] \in UserPages
  BY DEF Current, TranslationCurrent, Types, Quiet
<1>5. /\ f \in m.free /\ f \in Frame /\ m'.free = m.free \ {f} /\ m.free \subseteq Frame
      /\ m'.mem = m.mem /\ m'.window = m.window
      /\ Quiet(m') /\ m'.tlb = m.tlb
      /\ m'.cr3 = m.cr3 /\ m'.current_context = m.current_context
  <2>1. Quiet(m) /\ InHandler(m, m)
    BY Entering DEF Types
  <2>2. m \in Memory /\ m.free \subseteq Frame
    BY <2>1 DEF Quiet, Memory
  <2>3. /\ m' \in Memory /\ m'.free = m.free \ {f} /\ m'.mem = m.mem /\ m'.window = m.window
        /\ m'.cr3 = m.cr3 /\ m'.current_context = m.current_context /\ m'.tlb = m.tlb
    BY <2>2 DEF Memory
  <2>4. Quiet(m')
    BY <2>1, <2>3 DEF Quiet
  <2> QED
    BY <2>2, <2>3, <2>4
<1> DEFINE kind2 == [g \in Frame |-> IF g = f THEN "loose" ELSE kind[g]]
           of2 == [g \in Frame |-> IF g = f THEN t ELSE of[g]]
<1>6. kind[f] = "free"
  BY <1>2, <1>5 DEF Spaces
<1>7. /\ \A g \in Frame : g # f => kind2[g] = kind[g] /\ of2[g] = of[g]
      /\ kind2[f] = "loose" /\ of2[f] = t
  BY <1>5
<1> HIDE DEF kind2, of2
<1>8. /\ Spaces(m', Directories, kind2, of2, at)
      /\ \A d \in Directories : \A v \in UserPages : Walk(m', d, v) = Walk(m, d, v)
  <2>1. Taken(m, m', f, kind, of, kind2, of2)
    BY <1>5, <1>7 DEF Taken
  <2>2. Spaces(m, Directories, kind, of, at)
    BY <1>2
  <2> QED
    BY ONLY <2>1, <2>2, SpacesTake
<1>9. Uses'
  <2> SUFFICES ASSUME NEW u \in Threads, pc'[u] = "map"
               PROVE  /\ loc'[u].phys \in Frame
                      /\ kind2[loc'[u].phys] = "loose" /\ of2[loc'[u].phys] = u
    BY <1>1, <1>8 DEF Uses
  <2>1. CASE u = t
    BY <1>5, <1>7, <2>1
  <2>2. CASE u # t
    BY <1>2, <1>6, <1>7, <2>2
  <2> QED
    BY <2>1, <2>2
<1>10. \A p \in Live : \A u \in UserPages : Shows(p, u)' = Shows(p, u)
  BY <1>3, <1>8 DEF Shows
<1>11. Contents'
  BY <1>1, <1>5, <1>10 DEF Contents, AddressSpaces
<1>12. AddressSpaces'
  <2>1. \A p, q \in Live' : proc'[p].context = proc'[q].context => p = q
    BY <1>1, <1>3 DEF AddressSpaces
  <2>2. \A u \in Threads : pc'[u] \in {"zero", "size"} => loc'[u].virt \in UserPages
    BY DEF AddressSpaces
  <2> QED
    BY <1>9, <1>11, <2>1, <2>2 DEF AddressSpaces
<1>13. \A e \in m'.tlb : e[2] = Walk(m', m'.cr3, e[1])
  BY <1>4, <1>5, <1>8
<1>14. \A p \in Live : \A u \in UserPages : PageKept(p, u)
  BY <1>5, <1>10 DEF PageKept, Backed
<1> QED
  BY <1>4, <1>5, <1>12, <1>13, <1>14

\* The running thread maps the frame it got.
LEMMA SpacesMapped ==
  ASSUME Types, AddressSpaces, Current, NEW t \in Threads, t = sch.current, t # NULL,
         NEW c, c = CurrentProc, c \in Live,
         pc[t] = "map", NEW v \in UserPages, NEW f, f = loc[t].phys,
         TableInView(m, proc[c].context, v)
           \/ (Cardinality(m.free) >= 1 /\ Cardinality(EmptySlots(m)) >= 2),
         m' = paging_map(m, proc[c].context, v, f),
         \A p \in Procs : proc'[p].context = proc[p].context,
         pc'[t] = "zero", loc'[t].virt = v,
         \A u \in Threads : u # t => pc'[u] = pc[u] /\ loc'[u] = loc[u]
  PROVE  /\ AddressSpaces' /\ Quiet(m')
         /\ m'.cr3 = m.cr3 /\ m'.cr3 = m'.current_context
         /\ \A e \in m'.tlb : e[2] = Walk(m', m'.cr3, e[1])
         /\ \A p \in Live : \A u \in UserPages : p # c \/ u # v => PageKept(p, u)
         /\ Shows(c, v)' # Nil
<1> DEFINE d == proc[c].context
<1>1. Live' = Live /\ Directories' = Directories
  BY ContextsKept
<1>2. PICK kind, of, at :
        /\ Spaces(m, Directories, kind, of, at)
        /\ \A u \in Threads : pc[u] = "map" =>
             /\ loc[u].phys \in Frame
             /\ kind[loc[u].phys] = "loose" /\ of[loc[u].phys] = u
  BY DEF AddressSpaces, Uses
<1>3. \A p \in Live : p \in Procs /\ proc[p].context \in Directories
                      /\ proc'[p].context = proc[p].context
  BY DEF Directories, Live
<1>4. /\ m.cr3 = m.current_context /\ m.cr3 = d /\ d \in Directories
      /\ \A e \in m.tlb : e[2] = Walk(m, m.cr3, e[1]) /\ e[1] \in UserPages
  BY <1>3 DEF Current, TranslationCurrent, Types, Quiet
<1>5. f \in Frame /\ kind[f] = "loose" /\ of[f] = t /\ \A w \in Word : m.mem[f][w] = Garbage
  BY <1>2 DEF Spaces
<1>6. Space(m, d, kind, of, at) /\ d \in Frame /\ d \notin m.free
  <2>1. Space(m, d, kind, of, at)
    BY <1>2, <1>4 DEF Spaces
  <2>2. d \in Frame /\ kind[d] = "dir"
    BY <2>1 DEF Space
  <2> QED
    BY <1>2, <2>1, <2>2 DEF Spaces
<1> HIDE DEF d
<1>7. PICK t2 \in Frame : MapEffect(m, m', d, v, f, t2)
  <2>1. Quiet(m) /\ m' = paging_map(m, d, v, f)
    BY DEF d, Types
  <2>2. CASE TableInView(m, d, v)
    <3>1. /\ Quiet(m) /\ d = m.cr3 /\ Space(m, d, kind, of, at)
          /\ \A g \in m.free : kind[g] = "free"
          /\ v \in UserPages /\ f \in Frame
      BY <1>2, <1>4, <1>5, <1>6, <2>1 DEF Spaces
    <3> QED
      BY <2>1, <2>2, <3>1, MapInView, ZenonT(60)
  <2>3. CASE ~TableInView(m, d, v)
    <3>1. m.mem[d][v \div N] = Nil
      <4>1. /\ m.mem[d][VIEW] \in Frame /\ m.mem[m.mem[d][VIEW]][SELF] = d
        BY <1>6 DEF Space
      <4>2. Entry(m, Entry(m, Entry(m, d, VIEW), SELF), v \div N) = m.mem[d][v \div N]
        BY <1>6, <4>1 DEF Entry
      <4> QED
        BY <1>4, <2>3, <4>2 DEF TableInView
    <3>2. /\ Quiet(m) /\ d \in Frame /\ d \notin m.free
          /\ Cardinality(m.free) >= 1 /\ Cardinality(EmptySlots(m)) >= 2
          /\ v \in UserPages /\ f \in Frame
      BY <1>5, <1>6, <2>1, <2>3 DEF d
    <3> QED
      BY <2>1, <2>3, <3>1, <3>2, MapNew
  <2> QED
    BY <2>2, <2>3
<1> DEFINE kind2 == [g \in Frame |-> IF g = f THEN "page" ELSE IF g = t2 THEN "table" ELSE kind[g]]
           of2 == [g \in Frame |-> IF g = f \/ g = t2 THEN d ELSE of[g]]
           at2 == [g \in Frame |-> IF g = f THEN v ELSE IF g = t2 THEN v \div N ELSE at[g]]
<1>8. \A g \in Frame : g # f /\ g # t2 => kind2[g] = kind[g] /\ of2[g] = of[g]
  OBVIOUS
<1>9. /\ Spaces(m', Directories, kind2, of2, at2)
      /\ \A e \in Directories : \A u \in UserPages :
           Walk(m', e, u) = IF e = d /\ u = v THEN f ELSE Walk(m, e, u)
      /\ \A g \in Frame : kind[g] \in {"page", "stack", "loose"} => m'.mem[g] = m.mem[g]
      /\ t2 # f /\ kind[t2] \in {"table", "free"}
  <2>1. /\ Spaces(m, Directories, kind, of, at) /\ d \in Directories /\ v \in UserPages
        /\ f \in Frame /\ kind[f] \in {"stack", "loose"} /\ MapEffect(m, m', d, v, f, t2)
    BY <1>2, <1>4, <1>5, <1>7
  <2>2. \A g \in Frame :
          /\ kind2[g] = IF g = f THEN "page" ELSE IF g = t2 THEN "table" ELSE kind[g]
          /\ of2[g] = IF g = f \/ g = t2 THEN d ELSE of[g]
          /\ at2[g] = IF g = f THEN v ELSE IF g = t2 THEN v \div N ELSE at[g]
    OBVIOUS
  <2> HIDE DEF kind2, of2, at2
  <2> QED
    BY <2>1, <2>2, SpacesMap
<1> HIDE DEF kind2, of2, at2
<1>10. Uses'
  <2> SUFFICES ASSUME NEW u \in Threads, pc'[u] = "map"
               PROVE  /\ loc'[u].phys \in Frame
                      /\ kind2[loc'[u].phys] = "loose" /\ of2[loc'[u].phys] = u
    BY <1>1, <1>9 DEF Uses
  <2>1. u # t /\ pc[u] = "map" /\ loc'[u] = loc[u]
    OBVIOUS
  <2>2. loc[u].phys \in Frame /\ kind[loc[u].phys] = "loose" /\ of[loc[u].phys] = u
    BY <1>2, <2>1
  <2>3. loc[u].phys # f /\ loc[u].phys # t2
    BY <1>5, <1>9, <2>1, <2>2
  <2> QED
    BY <1>8, <2>1, <2>2, <2>3
<1>11. \A p \in Live : \A u \in UserPages :
         Shows(p, u)' = IF p = c /\ u = v THEN f ELSE Shows(p, u)
  <2> SUFFICES ASSUME NEW p \in Live, NEW u \in UserPages
               PROVE  Shows(p, u)' = IF p = c /\ u = v THEN f ELSE Shows(p, u)
    OBVIOUS
  <2>1. proc[p].context = d <=> p = c
    BY DEF d, AddressSpaces
  <2>2. Walk(m', proc[p].context, u)
          = IF proc[p].context = d /\ u = v THEN f ELSE Walk(m, proc[p].context, u)
    BY <1>3, <1>9
  <2> QED
    BY <1>3, <2>1, <2>2 DEF Shows
<1>12. ASSUME NEW p \in Live, NEW u \in UserPages, Shows(p, u) # Nil
       PROVE  Shows(p, u) \in Frame /\ m'.mem[Shows(p, u)] = m.mem[Shows(p, u)]
  <2>1. Shows(p, u) \in Frame /\ kind[Shows(p, u)] = "page"
    BY <1>2, <1>3, <1>12, ShownFrame
  <2> QED
    BY <1>9, <2>1
<1>13. m'.mem[f] = m.mem[f]
  BY <1>5, <1>9
<1>14. Contents'
  <2> SUFFICES ASSUME NEW p \in Live, NEW u \in UserPages, Shows(p, u)' # Nil, NEW w \in Word
               PROVE  m'.mem[Shows(p, u)'][w] \in {p, Nil, Garbage}
    BY <1>1 DEF Contents
  <2>1. CASE p = c /\ u = v
    BY <1>5, <1>11, <1>13, <2>1
  <2>2. CASE ~(p = c /\ u = v)
    <3>1. Shows(p, u)' = Shows(p, u) /\ Shows(p, u) # Nil
      BY <1>11, <2>2
    <3>2. m.mem[Shows(p, u)][w] \in {p, Nil, Garbage}
      BY <3>1 DEF AddressSpaces, Contents
    <3> QED
      BY <1>12, <3>1, <3>2
  <2> QED
    BY <2>1, <2>2
<1>15. AddressSpaces'
  <2>1. \A p, q \in Live' : proc'[p].context = proc'[q].context => p = q
    BY <1>1, <1>3 DEF AddressSpaces
  <2>2. \A u \in Threads : pc'[u] \in {"zero", "size"} => loc'[u].virt \in UserPages
    BY DEF AddressSpaces
  <2> QED
    BY <1>10, <1>14, <2>1, <2>2 DEF AddressSpaces
<1>16. /\ Quiet(m') /\ m'.cr3 = m.cr3 /\ m'.cr3 = m'.current_context
       /\ m'.tlb = {e \in m.tlb : e[1] # v}
  BY <1>4, <1>7 DEF MapEffect
<1>17. \A e \in m'.tlb : e[2] = Walk(m', m'.cr3, e[1])
  BY <1>4, <1>9, <1>16
<1>18. \A p \in Live : \A u \in UserPages : p # c \/ u # v => PageKept(p, u)
  <2> SUFFICES ASSUME NEW p \in Live, NEW u \in UserPages, p # c \/ u # v PROVE PageKept(p, u)
    OBVIOUS
  <2>1. Shows(p, u)' = Shows(p, u)
    BY <1>11
  <2>2. ASSUME Backed(p, u) PROVE Backed(p, u)'
    <3>1. Shows(p, u) # Nil
      BY <2>2, FrameFacts DEF Backed
    <3> QED
      BY <1>12, <2>1, <2>2, <3>1 DEF Backed
  <2> QED
    BY <2>1, <2>2 DEF PageKept
<1>19. Shows(c, v)' # Nil
  BY <1>5, <1>11, FrameFacts
<1> QED
  BY <1>15, <1>16, <1>17, <1>18, <1>19

\* A process gets an address space of its own.
LEMMA SpacesCreated ==
  ASSUME Types, AddressSpaces, Current, NEW p \in Procs, p \notin Live,
         Cardinality(m.free) >= 4, Cardinality(EmptySlots(m)) >= 2,
         NEW c, c = NextFrame(m), NEW x1, x1 = paging_create_context(m),
         NEW f, f = NextFrame(x1),
         NEW x2, x2 = paging_unmap_kernel(
                        Write(paging_map_kernel(Take(x1), f), WindowPage(NextSlot(x1)),
                              Single(0, Nil)),
                        NextSlot(x1)),
         m' = paging_map(x2, c, StackPage, f),
         proc'[p].context = c, \A q \in Procs : q # p => proc'[q].context = proc[q].context,
         pc' = pc, loc' = loc
  PROVE  /\ c \in Frame /\ Live' = Live \cup {p} /\ Directories' = Directories \cup {c}
         /\ AddressSpaces' /\ Quiet(m')
         /\ m'.cr3 = m.cr3 /\ m'.cr3 = m'.current_context
         /\ \A e \in m'.tlb : e[2] = Walk(m', m'.cr3, e[1])
         /\ \A q \in Live : \A u \in UserPages : PageKept(q, u)
<1>1. PICK kind, of, at :
        /\ Spaces(m, Directories, kind, of, at)
        /\ \A u \in Threads : pc[u] = "map" =>
             /\ loc[u].phys \in Frame
             /\ kind[loc[u].phys] = "loose" /\ of[loc[u].phys] = u
  BY DEF AddressSpaces, Uses
<1>2. \A q \in Live : q \in Procs /\ proc[q].context \in Directories
                      /\ proc'[q].context = proc[q].context
  BY DEF Directories, Live
<1>3. m.cr3 = m.current_context /\ m.cr3 \in Directories
      /\ \A e \in m.tlb : e[2] = Walk(m, m.cr3, e[1]) /\ e[1] \in UserPages
  BY DEF Current, TranslationCurrent, Types, Quiet
<1>4. /\ Quiet(m') /\ m'.cr3 = m.cr3 /\ m'.current_context = m.current_context
      /\ m'.tlb \subseteq m.tlb
      /\ c \in Frame /\ c \notin Directories /\ f \in Frame
      /\ \A w \in Word : m'.mem[f][w] \in {Nil, Garbage}
      /\ \A e \in Directories : \A u \in UserPages : Walk(m', e, u) = Walk(m, e, u)
      /\ \A u \in UserPages : Walk(m', c, u) = IF u = StackPage THEN f ELSE Nil
      /\ \A g \in Frame : kind[g] = "page" => m'.mem[g] = m.mem[g]
      /\ \E kind2, of2, at2 :
           /\ Spaces(m', Directories \cup {c}, kind2, of2, at2)
           /\ \A g \in Frame : kind[g] = "loose" => kind2[g] = "loose" /\ of2[g] = of[g]
  <2> DEFINE D == Directories
  <2>1. /\ Quiet(m) /\ Spaces(m, D, kind, of, at) /\ m.cr3 \in D /\ m.cr3 = m.current_context
        /\ Cardinality(m.free) >= 4 /\ Cardinality(EmptySlots(m)) >= 2
        /\ m' = paging_map(x2, c, StackPage, f)
    BY <1>1, <1>3 DEF Types
  <2> HIDE DEF D
  <2>2. /\ Quiet(m') /\ m'.cr3 = m.cr3 /\ m'.current_context = m.current_context
        /\ m'.tlb \subseteq m.tlb
        /\ c \in Frame /\ c \notin D /\ f \in Frame
        /\ \A w \in Word : m'.mem[f][w] \in {Nil, Garbage}
        /\ \A e \in D : \A u \in UserPages : Walk(m', e, u) = Walk(m, e, u)
        /\ \A u \in UserPages : Walk(m', c, u) = IF u = StackPage THEN f ELSE Nil
        /\ \A g \in Frame : kind[g] = "page" => m'.mem[g] = m.mem[g]
        /\ \E kind2, of2, at2 :
             /\ Spaces(m', D \cup {c}, kind2, of2, at2)
             /\ \A g \in Frame : kind[g] = "loose" => kind2[g] = "loose" /\ of2[g] = of[g]
    BY <2>1, CreateMemory
  <2> QED
    BY <2>2 DEF D
<1>5. Live' = Live \cup {p}
  BY <1>2, <1>4, FrameFacts DEF Live
<1>6. Directories' = Directories \cup {c}
  <2>1. {proc'[q].context : q \in Live'} = {proc[q].context : q \in Live} \cup {c}
    BY <1>2, <1>5
  <2> QED
    BY <2>1 DEF Directories
<1>7. \A q \in Live : q # p /\ proc[q].context # c
  BY <1>2, <1>4
<1>8. \A q \in Live : \A u \in UserPages : Shows(q, u)' = Shows(q, u)
  BY <1>2, <1>4 DEF Shows
<1>9. \A u \in UserPages : Shows(p, u)' = IF u = StackPage THEN f ELSE Nil
  BY <1>4 DEF Shows
<1>10. ASSUME NEW q \in Live, NEW u \in UserPages, Shows(q, u) # Nil
       PROVE  Shows(q, u) \in Frame /\ m'.mem[Shows(q, u)] = m.mem[Shows(q, u)]
  <2>1. Shows(q, u) \in Frame /\ kind[Shows(q, u)] = "page"
    BY <1>1, <1>2, <1>10, ShownFrame
  <2> QED
    BY <1>4, <2>1
<1>11. Uses'
  <2>1. PICK kind2, of2, at2 :
          /\ Spaces(m', Directories', kind2, of2, at2)
          /\ \A g \in Frame : kind[g] = "loose" => kind2[g] = "loose" /\ of2[g] = of[g]
    BY <1>4, <1>6
  <2>2. \A u \in Threads : pc'[u] = "map" =>
          /\ loc'[u].phys \in Frame
          /\ kind2[loc'[u].phys] = "loose" /\ of2[loc'[u].phys] = u
    BY <1>1, <2>1
  <2> QED
    BY <2>1, <2>2 DEF Uses
<1>12. Contents'
  <2> SUFFICES ASSUME NEW q \in Live', NEW u \in UserPages, Shows(q, u)' # Nil, NEW w \in Word
               PROVE  m'.mem[Shows(q, u)'][w] \in {q, Nil, Garbage}
    BY DEF Contents
  <2>1. CASE q = p
    BY <1>4, <1>9, <2>1
  <2>2. CASE q # p
    <3>1. q \in Live
      BY <1>5, <2>2
    <3>2. Shows(q, u)' = Shows(q, u) /\ Shows(q, u) # Nil
      BY <1>8, <3>1
    <3>3. m.mem[Shows(q, u)][w] \in {q, Nil, Garbage}
      BY <3>1, <3>2 DEF AddressSpaces, Contents
    <3> QED
      BY <1>10, <3>1, <3>2, <3>3
  <2> QED
    BY <2>1, <2>2
<1>13. AddressSpaces'
  <2>1. \A q, r \in Live' : proc'[q].context = proc'[r].context => q = r
    BY <1>2, <1>5, <1>7 DEF AddressSpaces
  <2>2. \A u \in Threads : pc'[u] \in {"zero", "size"} => loc'[u].virt \in UserPages
    BY DEF AddressSpaces
  <2> QED
    BY <1>11, <1>12, <2>1, <2>2 DEF AddressSpaces
<1>14. \A e \in m'.tlb : e[2] = Walk(m', m'.cr3, e[1])
  BY <1>3, <1>4
<1>15. \A q \in Live : \A u \in UserPages : PageKept(q, u)
  <2> SUFFICES ASSUME NEW q \in Live, NEW u \in UserPages PROVE PageKept(q, u)
    OBVIOUS
  <2>1. ASSUME Backed(q, u) PROVE Backed(q, u)'
    <3>1. Shows(q, u) # Nil
      BY <2>1, FrameFacts DEF Backed
    <3> QED
      BY <1>8, <1>10, <2>1, <3>1 DEF Backed
  <2> QED
    BY <1>8, <2>1 DEF PageKept
<1> QED
  BY <1>3, <1>4, <1>5, <1>6, <1>13, <1>14, <1>15

-----------------------------------------------------------------------------
(* Threads *)

\* A new thread is queued behind the others.
LEMMA QueueThread ==
  ASSUME Types, Callers, NEW t \in Threads, sch.state[t] = "FREE",
         sch' = scheduler_enqueue_thread(thread_new(sch, t), t)
  PROVE  /\ sch' \in Sched /\ sch'.current = sch.current
         /\ sch'.state = [sch.state EXCEPT ![t] = "READY"]
         /\ Queued'
         /\ sch'.current # NULL => sch'.state[sch'.current] = "READY"
<1> DEFINE s == thread_new(sch, t)
<1>1. PICK q \in Seq(Threads) :
        /\ IsRunQueue(sch, q)
        /\ \A u \in Threads : InQueue(u, q) => sch.state[u] = "READY" /\ u # sch.current
  BY DEF Callers, Queued
<1>2. sch \in Sched
  BY DEF Types
<1>3. /\ s \in Sched /\ s.head = sch.head /\ s.tail = sch.tail /\ s.next = sch.next
      /\ s.current = sch.current /\ s.state = [sch.state EXCEPT ![t] = "READY"]
  <2>1. sch.state \in [Threads -> ThreadState] /\ "READY" \in ThreadState
    BY <1>2 DEF Sched, ThreadState
  <2> DEFINE st == [sch.state EXCEPT ![t] = "READY"]
  <2>2. s = [sch EXCEPT !.state = st]
    BY DEF thread_new
  <2>3. st \in [Threads -> ThreadState]
    BY <2>1
  <2> HIDE DEF st, s
  <2>4. s \in Sched /\ s.state = st /\ s.head = sch.head /\ s.tail = sch.tail
        /\ s.next = sch.next /\ s.current = sch.current
    BY <1>2, <2>2, <2>3 DEF Sched
  <2> QED
    BY <2>4 DEF st
<1>4. ~InQueue(t, q) /\ sch.current # t
  BY <1>1, NullAssumption DEF Callers
<1> HIDE DEF s
<1>5. IsRunQueue(s, q)
  BY <1>1, <1>3, RunQueueFrame
<1>6. /\ sch' \in Sched /\ Append(q, t) \in Seq(Threads) /\ IsRunQueue(sch', Append(q, t))
      /\ sch'.state = s.state /\ sch'.current = s.current
  <2>1. sch' = scheduler_enqueue_thread(s, t)
    BY DEF s
  <2> QED
    BY <1>3, <1>4, <1>5, <2>1, EnqueueLemma
<1>7. sch.state \in [Threads -> ThreadState] /\ sch.current \in Threads \cup {NULL}
  BY <1>2 DEF Sched, Pointer
<1>8. \A u \in Threads : InQueue(u, Append(q, t)) => sch'.state[u] = "READY" /\ u # sch'.current
  <2> SUFFICES ASSUME NEW u \in Threads, InQueue(u, Append(q, t))
               PROVE  sch'.state[u] = "READY" /\ u # sch'.current
    OBVIOUS
  <2>1. InQueue(u, q) \/ u = t
    BY AppendMembers
  <2> QED
    BY <1>1, <1>3, <1>4, <1>6, <1>7, <2>1
<1>9. Queued'
  BY <1>6, <1>8 DEF Queued
<1>10. sch'.current # NULL => sch'.state[sch'.current] = "READY"
  BY <1>3, <1>4, <1>6, <1>7 DEF Callers
<1> QED
  BY <1>3, <1>6, <1>9, <1>10

\* The thread that scheduler_schedule chooses was ready and in the queue, or
\* is the one that gave up the CPU.
LEMMA SwitchThread ==
  ASSUME NEW s \in Sched, NEW q \in Seq(Threads), IsRunQueue(s, q),
         \A u \in Threads : InQueue(u, q) => s.state[u] = "READY" /\ u # s.current,
         sch' = scheduler_schedule(s)
  PROVE  /\ sch' \in Sched /\ sch'.state = s.state /\ Queued'
         /\ sch'.current # NULL => sch'.state[sch'.current] = "READY"
<1> DEFINE p == Offered(s, q)
<1>1. s.current \in Threads \cup {NULL}
  BY DEF Sched, Pointer
<1>2. s.current # NULL /\ s.state[s.current] = "READY" => ~InQueue(s.current, q)
  BY <1>1
<1>3. /\ sch' \in Sched
      /\ p \in Seq(Threads)
      /\ \A i, j \in 1..Len(p) : p[i] = p[j] => i = j
      /\ Rest(p) \in Seq(Threads)
      /\ IsRunQueue(sch', Rest(p))
      /\ sch'.state = s.state
      /\ sch'.current = IF p = <<>> THEN NULL ELSE Head(p)
  BY <1>2, SwitchLemma
<1>4. \A u \in Threads : InQueue(u, p) => s.state[u] = "READY"
  <2> SUFFICES ASSUME NEW u \in Threads, InQueue(u, p) PROVE s.state[u] = "READY"
    OBVIOUS
  <2>1. CASE s.current # NULL /\ s.state[s.current] = "READY"
    <3>1. p = Append(q, s.current) /\ s.current \in Threads
      BY <1>1, <2>1 DEF Offered
    <3>2. InQueue(u, q) \/ u = s.current
      BY <3>1, AppendMembers
    <3> QED
      BY <2>1, <3>2
  <2>2. CASE ~(s.current # NULL /\ s.state[s.current] = "READY")
    BY <2>2 DEF Offered
  <2> QED
    BY <2>1, <2>2
<1> HIDE DEF p
<1>5. CASE p = <<>>
  <2>1. Rest(p) = <<>> /\ sch'.current = NULL
    BY <1>3, <1>5 DEF Rest
  <2>2. \A u \in Threads : ~InQueue(u, Rest(p))
    BY <2>1 DEF InQueue
  <2>3. Queued'
    BY <1>3, <2>2 DEF Queued
  <2> QED
    BY <1>3, <2>1, <2>3
<1>6. CASE p # <<>>
  <2>1. /\ Head(p) \in Threads /\ InQueue(Head(p), p)
        /\ \A u : InQueue(u, Rest(p)) <=> InQueue(u, p) /\ u # Head(p)
    BY <1>3, <1>6, RestMembers
  <2>2. \A u \in Threads : InQueue(u, Rest(p)) => sch'.state[u] = "READY" /\ u # sch'.current
    BY <1>3, <1>4, <1>6, <2>1
  <2>3. Queued'
    BY <1>3, <2>2 DEF Queued
  <2> QED
    BY <1>3, <1>4, <1>6, <2>1, <2>3
<1> QED
  BY <1>5, <1>6

\* A thread enters process p, whose table becomes v, with identifier i.
Enters(p, self, t, v, i) ==
  /\ proc' = [proc EXCEPT ![p] = [self EXCEPT !.threads = v]]
  /\ thread' = [thread EXCEPT ![t].process = p, ![t].tid = i]

LEMMA EnterThread ==
  ASSUME Types, NEW p \in Procs, NEW self \in ProcessRecord, NEW t \in Threads,
         self.context # Nil, NEW v \in Vector(Threads), NEW i \in Nat,
         Enters(p, self, t, v, i)
  PROVE  /\ proc' \in [Procs -> ProcessRecord] /\ thread' \in [Threads -> ThreadRecord]
         /\ \A q \in Procs : q # p => proc'[q] = proc[q]
         /\ proc'[p].context = self.context /\ proc'[p].pid = self.pid
         /\ proc'[p].size = self.size /\ proc'[p].used = self.used
         /\ \A u \in Threads : u # t => thread'[u] = thread[u]
         /\ thread'[t].process = p /\ thread'[t].tls = thread[t].tls
         /\ p \in Live' /\ proc'[p].threads = v /\ thread'[t].tid = i
<1>1. /\ proc \in [Procs -> ProcessRecord] /\ thread \in [Threads -> ThreadRecord]
  BY DEF Types
<1>2. /\ [self EXCEPT !.threads = v] \in ProcessRecord
      /\ proc' \in [Procs -> ProcessRecord]
      /\ \A q \in Procs : q # p => proc'[q] = proc[q]
      /\ proc'[p].context = self.context /\ proc'[p].pid = self.pid
      /\ proc'[p].size = self.size /\ proc'[p].used = self.used
      /\ proc'[p].threads = v
  BY <1>1 DEF ProcessRecord, Enters
<1>3. /\ thread' \in [Threads -> ThreadRecord]
      /\ \A u \in Threads : u # t => thread'[u] = thread[u]
      /\ thread'[t].process = p /\ thread'[t].tid = i /\ thread'[t].tls = thread[t].tls
  <2>1. \A u \in Threads : u # t => thread'[u] = thread[u]
    BY <1>1 DEF Enters
  <2>2. thread[t] \in ThreadRecord
    BY <1>1
  <2>3. thread'[t] = [thread[t] EXCEPT !.process = p, !.tid = i]
    BY <1>1 DEF Enters
  <2>4. thread'[t] \in ThreadRecord /\ thread'[t].process = p /\ thread'[t].tid = i
        /\ thread'[t].tls = thread[t].tls
    BY <2>2, <2>3 DEF ThreadRecord
  <2>5. thread' \in [Threads -> ThreadRecord]
    <3> DEFINE y == [thread[t] EXCEPT !.process = p, !.tid = i]
    <3>1. thread' = [thread EXCEPT ![t] = y]
      BY <1>1 DEF Enters
    <3>2. y \in ThreadRecord
      BY <2>3, <2>4
    <3> HIDE DEF y
    <3> QED
      BY <1>1, <3>1, <3>2
  <2> QED
    BY <2>1, <2>4, <2>5
<1>4. p \in Live'
  BY <1>2 DEF Live
<1> QED
  BY <1>2, <1>3, <1>4

\* If place i is its own, the identifiers of the others lead to them as before.
LEMMA EnteredFound ==
  ASSUME Identifiers, NEW p \in Live', NEW v, v = proc'[p].threads,
         NEW t \in Threads, NEW i, thread'[t].process = p, thread'[t].tid = i,
         i \in Entries(v), v.content[i] = t,
         \A q \in Procs : q # p => proc'[q] = proc[q],
         \A u \in Threads : u # t => thread'[u] = thread[u],
         \A u \in Threads : u # t /\ thread[u].process = p =>
           thread[u].tid \in Entries(v) /\ v.content[thread[u].tid] = u,
         NEW u \in Threads, NEW q, q = thread'[u].process, q # Nil
  PROVE  /\ q \in Live' /\ thread'[u].tid \in Entries(proc'[q].threads)
         /\ proc'[q].threads.content[thread'[u].tid] = u
<1>1. CASE u = t
  BY <1>1
<1>2. CASE u # t /\ thread[u].process = p
  BY <1>2
<1>3. CASE u # t /\ thread[u].process # p
  <2>1. thread'[u] = thread[u] /\ q = thread[u].process /\ q # p
    BY <1>3
  <2>2. /\ q \in Live /\ thread[u].tid \in Entries(proc[q].threads)
        /\ proc[q].threads.content[thread[u].tid] = u
    BY <2>1 DEF Identifiers
  <2>3. proc'[q] = proc[q] /\ q \in Live'
    BY <2>1, <2>2 DEF Live
  <2> QED
    BY <2>1, <2>2, <2>3
<1> QED
  BY <1>1, <1>2, <1>3

-----------------------------------------------------------------------------
(* Every step preserves SpacesInv.  Each lemma also says which pages the step *)
(* leaves as they were, for the proof about heaps.                            *)

LEMMA Running ==
  ASSUME SpacesInv, sch.current # NULL
  PROVE  /\ sch.current \in Threads /\ sch.state[sch.current] = "READY"
         /\ CurrentProc \in Live /\ CurrentProc \in Procs /\ CurrentProc # Nil
         /\ proc[CurrentProc] \in ProcessRecord
<1>1. sch.current \in Threads /\ sch.state[sch.current] = "READY"
  BY DEF SpacesInv, Types, Sched, Pointer, Callers
<1>2. CurrentProc \in Live
  BY <1>1 DEF SpacesInv, Callers, CurrentProc
<1> QED
  BY <1>1, <1>2, ProcessAssumption DEF SpacesInv, Types, Live

\* panic, a heap that reaches the stack, and two threads that take the same.
LEMMA StopStep ==
  ASSUME SpacesInv, halted = "no",
         UNCHANGED <<m, sch, processes, proc, thread, gdt_tls, pc, loc>>,
         halted' \in {"panic", "overrun", "raced"}
  PROVE  SpacesInv' /\ \A p \in Live : \A u \in UserPages : PageKept(p, u)
<1>1. Types' /\ Callers' /\ Named'
  BY DEF SpacesInv, Types, Callers, Queued, Named, Identifiers, Live
<1>2. LocalsKept
  BY DEF LocalsKept
<1>3. /\ AddressSpaces'
      /\ \A d \in Directories : \A v \in UserPages : Walk(m', d, v) = Walk(m, d, v)
      /\ \A p \in Live : \A v \in UserPages : PageKept(p, v)
  BY <1>2, SpacesStay DEF SpacesInv
<1>4. Current'
  BY DEF SpacesInv, Current, TranslationCurrent, Directories, Live, CurrentProc
<1> QED
  BY <1>1, <1>3, <1>4 DEF SpacesInv

\* process_create, and the heap of the new process.
LEMMA CreateStep ==
  ASSUME SpacesInv, NEW p \in Procs, NEW t \in Threads, process_create(p, t)
  PROVE  /\ SpacesInv' /\ \A q \in Live : \A u \in UserPages : PageKept(q, u)
         /\ pc' = pc /\ loc' = loc /\ halted' \in {"no", "panic"}
         /\ \A q \in Live : q \in Live' /\ proc'[q] = proc[q]
         /\ \A q \in Live' \ Live : proc'[q].size = 0 /\ proc'[q].used = 0
         /\ \A u \in Threads : sch.state[u] # "FREE" => thread'[u] = thread[u]
<1>1. sch.current = NULL /\ proc[p].context = Nil /\ sch.state[t] = "FREE" /\ halted = "no"
  BY Zenon DEF process_create
<1>2. CASE ~Suffices(4, 2)
  <2>1. panic
    BY <1>2, Zenon DEF process_create
  <2> QED
    BY <1>1, <2>1, StopStep DEF panic, Live
<1>3. CASE Suffices(4, 2)
  <2> DEFINE c == NextFrame(m)
             x1 == paging_create_context(m)
             f == NextFrame(x1)
             x2 == paging_unmap_kernel(
                     Write(paging_map_kernel(Take(x1), f), WindowPage(NextSlot(x1)),
                           Single(0, Nil)),
                     NextSlot(x1))
             self == process_new(c)
  <2>1. /\ m' = paging_map(x2, c, StackPage, f)
        /\ processes' = vector_add(processes, p)
        /\ process_add_thread(p, self, t)
        /\ sch' = scheduler_enqueue_thread(thread_new(sch, t), t)
        /\ UNCHANGED <<gdt_tls, pc, loc, halted>>
    BY <1>3, Zenon DEF process_create
  <2>2. /\ self.context = c /\ self.pid = AddIndex(processes) /\ self.size = 0 /\ self.used = 0
        /\ self.threads = vector_init(ThreadSlots)
        /\ self = [pid |-> AddIndex(processes), context |-> c, size |-> 0, used |-> 0,
                   threads |-> vector_init(ThreadSlots)]
    BY DEF process_new
  <2> HIDE DEF self
  <2>3. p \notin Live
    BY <1>1 DEF Live
  <2>4. Types /\ Callers /\ Identifiers /\ AddressSpaces /\ Current
    BY <1>1 DEF SpacesInv, Named
  <2>5. /\ Cardinality(m.free) >= 4 /\ Cardinality(EmptySlots(m)) >= 2
    BY <1>3 DEF Suffices
  <2>6. /\ processes \in Vector(Procs) /\ p # NULL
    BY <2>4, ProcessAssumption DEF Types
  <2>7. /\ AddIndex(processes) \in Nat /\ AddIndex(processes) \notin Entries(processes)
        /\ processes' \in Vector(Procs)
        /\ AddIndex(processes) \in Entries(processes')
        /\ processes'.content[AddIndex(processes)] = p
        /\ \A j \in Entries(processes) :
             j \in Entries(processes') /\ processes'.content[j] = processes.content[j]
    <3> DEFINE i == AddIndex(processes)
    <3>1. processes' = vector_add(processes, p)
      BY <2>1
    <3> HIDE DEF i
    <3>2. i = AddIndex(processes)
      BY DEF i
    <3>3. /\ i \in Nat /\ i \notin Entries(processes)
          /\ processes' \in Vector(Procs)
          /\ i \in Entries(processes')
          /\ processes'.content[i] = p
          /\ \A j \in Entries(processes) :
               j \in Entries(processes') /\ processes'.content[j] = processes.content[j]
      BY <2>6, <3>1, <3>2, VectorAdd
    <3> QED
      BY <3>2, <3>3
  <2>8. vector_init(ThreadSlots) \in Vector(Threads)
    BY VectorInit, ProcessAssumption
  <2>9. c \in Frame
    <3>1. PICK k \in Nat : k = 3
      OBVIOUS
    <3>2. Quiet(m) /\ InHandler(m, m)
      BY <2>4, Entering DEF Types
    <3>3. Cardinality(m.free) >= k + 1
      BY <2>5, <3>1
    <3> QED
      BY <3>2, <3>3, TakeFrame
  <2>10. self \in ProcessRecord /\ self.context # Nil
    BY <2>2, <2>7, <2>8, <2>9, FrameFacts DEF ProcessRecord
  <2>11. \A u \in Threads : thread[u].process # p
    BY <2>3, <2>4, ProcessAssumption DEF Identifiers
  <2>12. /\ proc' \in [Procs -> ProcessRecord] /\ thread' \in [Threads -> ThreadRecord]
         /\ \A q \in Procs : q # p => proc'[q] = proc[q]
         /\ proc'[p].context = c /\ proc'[p].pid = AddIndex(processes)
         /\ proc'[p].size = 0 /\ proc'[p].used = 0
         /\ \A u \in Threads : u # t => thread'[u] = thread[u]
         /\ thread'[t].process = p /\ thread'[t].tls = thread[t].tls
         /\ \A u \in Threads :
              thread'[u].process # Nil =>
                /\ thread'[u].process \in Live'
                /\ thread'[u].tid \in Entries(proc'[thread'[u].process].threads)
                /\ proc'[thread'[u].process].threads.content[thread'[u].tid] = u
    <3> HIDE DEF c
    <3>1. PICK v : v = vector_add(self.threads, t)
      OBVIOUS
    <3>2. PICK i : i = AddIndex(self.threads)
      OBVIOUS
    <3>3. Enters(p, self, t, v, i)
      BY <2>1, <3>1, <3>2 DEF process_add_thread, Enters
    <3>4. i \in Nat /\ v \in Vector(Threads) /\ i \in Entries(v) /\ v.content[i] = t
      <4>1. self.threads \in Vector(Threads) /\ t # NULL
        BY <2>2, <2>8, NullAssumption
      <4> QED
        BY <3>1, <3>2, <4>1, VectorAdd
    <3>5. \A u \in Threads : u # t /\ thread[u].process = p =>
            thread[u].tid \in Entries(v) /\ v.content[thread[u].tid] = u
      BY <2>11
    <3>6. /\ proc' \in [Procs -> ProcessRecord] /\ thread' \in [Threads -> ThreadRecord]
          /\ \A q \in Procs : q # p => proc'[q] = proc[q]
          /\ proc'[p].context = self.context /\ proc'[p].pid = self.pid
          /\ proc'[p].size = self.size /\ proc'[p].used = self.used
          /\ \A u \in Threads : u # t => thread'[u] = thread[u]
          /\ thread'[t].process = p /\ thread'[t].tls = thread[t].tls
          /\ p \in Live' /\ proc'[p].threads = v /\ thread'[t].tid = i
      BY <2>4, <2>10, <3>3, <3>4, EnterThread
    <3>7. ASSUME NEW u \in Threads, thread'[u].process # Nil
          PROVE  /\ thread'[u].process \in Live'
                 /\ thread'[u].tid \in Entries(proc'[thread'[u].process].threads)
                 /\ proc'[thread'[u].process].threads.content[thread'[u].tid] = u
      BY <2>4, <3>4, <3>5, <3>6, <3>7, EnteredFound
    <3> QED
      BY <2>2, <3>6, <3>7
  <2>13. /\ Live' = Live \cup {p} /\ Directories' = Directories \cup {c}
         /\ AddressSpaces' /\ Quiet(m')
         /\ m'.cr3 = m.cr3 /\ m'.cr3 = m'.current_context
         /\ \A e \in m'.tlb : e[2] = Walk(m', m'.cr3, e[1])
         /\ \A q \in Live : \A u \in UserPages : PageKept(q, u)
    <3>1. /\ proc'[p].context = c
          /\ \A q \in Procs : q # p => proc'[q].context = proc[q].context
          /\ pc' = pc /\ loc' = loc
          /\ m' = paging_map(x2, c, StackPage, f)
      BY <2>1, <2>12
    <3>2. c = NextFrame(m) /\ x1 = paging_create_context(m) /\ f = NextFrame(x1)
          /\ x2 = paging_unmap_kernel(
                     Write(paging_map_kernel(Take(x1), f), WindowPage(NextSlot(x1)),
                           Single(0, Nil)),
                     NextSlot(x1))
      OBVIOUS
    <3> HIDE DEF c, x1, f, x2
    <3> QED
      BY <2>3, <2>4, <2>5, <3>1, <3>2, SpacesCreated
  <2> HIDE DEF c, x1, f, x2
  <2>14. /\ sch' \in Sched /\ sch'.current = sch.current
         /\ sch'.state = [sch.state EXCEPT ![t] = "READY"]
         /\ Queued'
         /\ sch'.current # NULL => sch'.state[sch'.current] = "READY"
    BY <1>1, <2>1, <2>4, QueueThread
  <2>15. Types'
    BY <2>1, <2>4, <2>7, <2>12, <2>13, <2>14 DEF Types
  <2>16. \A u \in Threads : /\ sch'.state[u] # "FREE" => thread'[u].process \in Live'
                            /\ pc'[u] # "user" => sch'.state[u] # "FREE"
    <3> TAKE u \in Threads
    <3>1. sch.state \in [Threads -> ThreadState]
      BY <2>4 DEF Types, Sched
    <3> QED
      BY <2>1, <2>4, <2>12, <2>13, <2>14, <3>1 DEF Callers
  <2>17. Identifiers'
    <3>1. \A q \in Live' : proc'[q].pid \in Entries(processes')
                           /\ processes'.content[proc'[q].pid] = q
      <4> SUFFICES ASSUME NEW q \in Live'
                   PROVE  proc'[q].pid \in Entries(processes')
                          /\ processes'.content[proc'[q].pid] = q
        OBVIOUS
      <4>1. CASE q = p
        BY <2>7, <2>12, <4>1
      <4>2. CASE q # p
        <5>1. q \in Live /\ proc'[q] = proc[q]
          BY <2>12, <2>13, <4>2 DEF Live
        <5> QED
          BY <2>4, <2>7, <5>1 DEF Identifiers
      <4> QED
        BY <4>1, <4>2
    <3> QED
      BY <2>12, <3>1 DEF Identifiers
  <2>18. Current'
    BY <1>1, <2>4, <2>13, <2>14 DEF Current, TranslationCurrent
  <2>19. SpacesInv'
    BY <2>13, <2>14, <2>15, <2>16, <2>17, <2>18 DEF SpacesInv, Callers, Named
  <2>20. \A u \in Threads : sch.state[u] # "FREE" => thread'[u] = thread[u]
    BY <1>1, <2>12
  <2>21. \A q \in Live : q \in Live' /\ proc'[q] = proc[q]
    BY <2>3, <2>12, <2>13 DEF Live
  <2>22. \A q \in Live' \ Live : proc'[q].size = 0 /\ proc'[q].used = 0
    BY <2>12, <2>13
  <2> QED
    BY <1>1, <2>1, <2>13, <2>19, <2>20, <2>21, <2>22
<1> QED
  BY <1>2, <1>3

\* The scheduler chooses a thread and the CPU is given its context.
LEMMA ScheduleStep ==
  ASSUME SpacesInv, NEW s \in Sched, s.head = sch.head, s.tail = sch.tail, s.next = sch.next,
         s.current = sch.current,
         \A t \in Threads : s.state[t] = sch.state[t]
                            \/ (t = sch.current /\ s.state[t] = "DEAD" /\ pc[t] = "user"),
         Schedule(s), UNCHANGED <<processes, proc, thread, pc, loc, halted>>
  PROVE  SpacesInv' /\ \A p \in Live : \A u \in UserPages : PageKept(p, u)
<1>1. Types /\ Callers /\ Named /\ AddressSpaces /\ Current
  BY DEF SpacesInv
<1>2. PICK q \in Seq(Threads) :
        /\ IsRunQueue(sch, q)
        /\ \A t \in Threads : InQueue(t, q) => sch.state[t] = "READY" /\ t # sch.current
  BY <1>1 DEF Callers, Queued
<1>3. IsRunQueue(s, q) /\ \A t \in Threads : InQueue(t, q) => s.state[t] = "READY" /\ t # s.current
  BY <1>2, RunQueueFrame
<1>4. sch' = scheduler_schedule(s)
  BY Zenon DEF Schedule
<1>5. /\ sch' \in Sched /\ sch'.state = s.state /\ Queued'
      /\ sch'.current # NULL => sch'.state[sch'.current] = "READY"
  BY <1>3, <1>4, SwitchThread
<1>6. Callers'
  <2>1. Live' = Live
    BY DEF Live
  <2>2. \A t \in Threads : /\ sch'.state[t] # "FREE" => thread[t].process \in Live
                           /\ pc[t] # "user" => sch'.state[t] # "FREE"
    <3> TAKE t \in Threads
    <3>1. CASE s.state[t] = sch.state[t]
      BY <1>1, <1>5, <3>1 DEF Callers
    <3>2. CASE s.state[t] # sch.state[t]
      <4>1. t = sch.current /\ t # NULL /\ sch.state[t] = "READY"
        BY <1>1, <3>2, NullAssumption DEF Callers
      <4> QED
        BY <1>1, <1>5, <3>2, <4>1 DEF Callers
    <3> QED
      BY <3>1, <3>2
  <2> QED
    BY <1>5, <2>1, <2>2 DEF Callers
<1>7. m.cr3 = m.current_context /\ m.cr3 \in Directories
      /\ (\A e \in m.tlb : e[2] = Walk(m, m.cr3, e[1]) /\ e[1] \in UserPages) /\ Quiet(m)
  BY <1>1 DEF Current, TranslationCurrent, Types, Quiet
<1> DEFINE c == proc[thread[sch'.current].process].context
<1>8. sch'.current # NULL => /\ sch'.current \in Threads /\ thread[sch'.current].process \in Live
                             /\ c \in Frame /\ c \in Directories
  <2> SUFFICES ASSUME sch'.current # NULL
               PROVE  /\ sch'.current \in Threads /\ thread[sch'.current].process \in Live
                      /\ c \in Frame /\ c \in Directories
    OBVIOUS
  <2>1. sch'.current \in Threads
    BY <1>5 DEF Sched, Pointer
  <2>2. thread[sch'.current].process \in Live
    BY <1>5, <1>6, <2>1 DEF Callers, Live
  <2>3. \A p \in Live : proc[p].context \in Frame /\ proc[p].context \in Directories
    BY <1>1 DEF Types, ProcessRecord, Live, Directories
  <2> QED
    BY <2>1, <2>2, <2>3
<1>9. /\ sch'.current = NULL => m' = m /\ gdt_tls' = gdt_tls
      /\ sch'.current # NULL => /\ m' = paging_activate_context(m, c)
                                /\ gdt_tls' = thread[sch'.current].tls
  BY <1>4 DEF Schedule
<1> HIDE DEF c
<1>10. /\ Quiet(m') /\ m'.mem = m.mem /\ m'.free = m.free
       /\ m'.cr3 = m'.current_context /\ m'.cr3 \in Directories
       /\ sch'.current # NULL => m'.cr3 = c
       /\ \A e \in m'.tlb : e \in m.tlb /\ m'.cr3 = m.cr3
  <2>1. CASE sch'.current = NULL
    BY <1>7, <1>9, <2>1
  <2>2. CASE sch'.current # NULL
    <3>1. /\ Quiet(m') /\ m'.cr3 = c /\ m'.current_context = c
          /\ m'.mem = m.mem /\ m'.free = m.free /\ m'.window = m.window
          /\ m'.tlb = IF c = m.cr3 THEN m.tlb ELSE {}
      BY <1>7, <1>8, <1>9, <2>2, Activate
    <3> QED
      BY <1>8, <2>2, <3>1
  <2> QED
    BY <2>1, <2>2
<1>11. /\ AddressSpaces'
       /\ \A d \in Directories : \A v \in UserPages : Walk(m', d, v) = Walk(m, d, v)
       /\ \A p \in Live : \A v \in UserPages : PageKept(p, v)
  <2>1. LocalsKept
    BY DEF LocalsKept
  <2> QED
    BY <1>1, <1>10, <2>1, SpacesStay
<1>12. \A e \in m'.tlb : e[2] = Walk(m', m'.cr3, e[1])
  BY <1>7, <1>10, <1>11
<1>13. Current'
  <2>1. Directories' = Directories
    BY DEF Directories, Live
  <2> QED
    BY <1>9, <1>10, <1>12, <2>1 DEF Current, TranslationCurrent, CurrentProc, c
<1>14. gdt_tls' \in Descriptor
  <2>1. CASE sch'.current = NULL
    BY <1>1, <1>9, <2>1 DEF Types
  <2>2. CASE sch'.current # NULL
    BY <1>1, <1>8, <1>9, <2>2 DEF Types, ThreadRecord
  <2> QED
    BY <2>1, <2>2
<1>15. Types'
  BY <1>1, <1>5, <1>10, <1>14 DEF Types
<1>16. Named'
  BY <1>1 DEF Named, Identifiers, Live
<1> QED
  BY <1>6, <1>11, <1>13, <1>15, <1>16 DEF SpacesInv

\* timer_tick and sys_yield.
LEMMA SwitchStep ==
  ASSUME SpacesInv, Switch
  PROVE  SpacesInv' /\ \A p \in Live : \A u \in UserPages : PageKept(p, u)
<1>1. sch \in Sched /\ Schedule(sch) /\ UNCHANGED <<processes, proc, thread, pc, loc, halted>>
  BY DEF SpacesInv, Types, Switch
<1> QED
  BY <1>1, ScheduleStep

\* sys_exit, and a fault.
LEMMA ExitStep ==
  ASSUME SpacesInv, process_exit
  PROVE  SpacesInv' /\ \A p \in Live : \A u \in UserPages : PageKept(p, u)
<1> DEFINE s == thread_block(sch, sch.current, "DEAD")
<1>1. /\ sch.current # NULL /\ pc[sch.current] = "user"
      /\ Schedule(s) /\ UNCHANGED <<processes, proc, thread, pc, loc, halted>>
  BY DEF process_exit
<1>2. sch.current \in Threads /\ sch \in Sched
  BY <1>1, Running DEF SpacesInv, Types
<1>3. /\ s \in Sched /\ s.head = sch.head /\ s.tail = sch.tail /\ s.next = sch.next
      /\ s.current = sch.current /\ s.state = [sch.state EXCEPT ![sch.current] = "DEAD"]
  <2> DEFINE st == [sch.state EXCEPT ![sch.current] = "DEAD"]
  <2>1. s = [sch EXCEPT !.state = st]
    BY DEF thread_block
  <2>2. st \in [Threads -> ThreadState]
    BY <1>2 DEF Sched, ThreadState
  <2> HIDE DEF st, s
  <2>3. s \in Sched /\ s.state = st /\ s.head = sch.head /\ s.tail = sch.tail
        /\ s.next = sch.next /\ s.current = sch.current
    BY <1>2, <2>1, <2>2 DEF Sched
  <2> QED
    BY <2>3 DEF st
<1> HIDE DEF s
<1>4. \A t \in Threads : s.state[t] = sch.state[t]
                         \/ (t = sch.current /\ s.state[t] = "DEAD" /\ pc[t] = "user")
  BY <1>1, <1>2, <1>3 DEF Sched
<1> QED
  BY <1>1, <1>3, <1>4, ScheduleStep

\* tls_set.
LEMMA TlsStep ==
  ASSUME SpacesInv, tls_set
  PROVE  /\ SpacesInv' /\ \A p \in Live : \A u \in UserPages : PageKept(p, u)
         /\ \A t \in Threads : thread'[t].process = thread[t].process
<1> DEFINE c == sch.current
<1>1. /\ c # NULL /\ thread' = [thread EXCEPT ![c].tls = c] /\ gdt_tls' = c
      /\ UNCHANGED <<m, sch, processes, proc, pc, loc, halted>>
  BY DEF tls_set
<1>2. Types /\ Callers /\ Named /\ AddressSpaces /\ Current
  BY DEF SpacesInv
<1>3. c \in Threads
  BY <1>1, Running
<1> HIDE DEF c
<1>4. /\ thread' \in [Threads -> ThreadRecord]
      /\ \A t \in Threads : thread'[t].process = thread[t].process /\ thread'[t].tid = thread[t].tid
      /\ thread'[c].tls = c
  <2>1. thread \in [Threads -> ThreadRecord] /\ c \in Descriptor
    BY <1>2, <1>3 DEF Types, Descriptor
  <2> QED
    BY <1>1, <1>3, <2>1 DEF ThreadRecord
<1>5. Types'
  BY <1>1, <1>2, <1>3, <1>4 DEF Types, Descriptor
<1>6. Live' = Live /\ Directories' = Directories
  BY <1>1, ContextsKept
<1>7. Callers'
  BY <1>1, <1>2, <1>4, <1>6 DEF Callers, Queued
<1>8. Named'
  BY <1>1, <1>2, <1>4, <1>6 DEF Named, Identifiers
<1>9. LocalsKept
  BY <1>1 DEF LocalsKept
<1>10. AddressSpaces' /\ \A p \in Live : \A v \in UserPages : PageKept(p, v)
  BY <1>1, <1>2, <1>9, SpacesStay
<1>11. Current'
  BY <1>1, <1>2, <1>3, <1>4, <1>6 DEF Current, TranslationCurrent, CurrentProc, c
<1> QED
  BY <1>4, <1>5, <1>7, <1>8, <1>10, <1>11 DEF SpacesInv

\* A program writes to a page of its own.
LEMMA WriteStep ==
  ASSUME SpacesInv, NEW v \in UserPages, UserWrite(v)
  PROVE  SpacesInv' /\ \A p \in Live : \A u \in UserPages : PageKept(p, u)
<1>1. /\ sch.current # NULL /\ m' = Write(m, v, Single(0, CurrentProc))
      /\ UNCHANGED <<sch, processes, proc, thread, gdt_tls, pc, loc, halted>>
  BY DEF UserWrite
<1>2. Types /\ Callers /\ Named /\ AddressSpaces /\ Current
  BY DEF SpacesInv
<1>3. PICK c : c = CurrentProc
  OBVIOUS
<1>4. c \in Live
  BY <1>1, <1>3, Running
<1>5. /\ AddressSpaces' /\ Quiet(m')
      /\ m'.cr3 = m.cr3 /\ m'.cr3 = m'.current_context
      /\ \A e \in m'.tlb : e[2] = Walk(m', m'.cr3, e[1])
      /\ \A p \in Live : \A u \in UserPages : PageKept(p, u)
  <2> DEFINE words == Single(0, CurrentProc)
  <2>1. \A w \in DOMAIN words : words[w] \in {c, Nil}
    BY <1>3 DEF Single
  <2>2. m' = Write(m, v, words)
    BY <1>1
  <2>3. LocalsKept
    BY <1>1 DEF LocalsKept
  <2> HIDE DEF words
  <2>4. \A p \in Procs : proc'[p].context = proc[p].context
    BY <1>1
  <2> QED
    BY <1>1, <1>2, <1>3, <1>4, <2>1, <2>2, <2>3, <2>4, SpacesWritten
<1>6. Live' = Live /\ Directories' = Directories
  BY <1>1, ContextsKept
<1>7. Types' /\ Callers' /\ Named'
  BY <1>1, <1>2, <1>5, <1>6 DEF Types, Callers, Queued, Named, Identifiers
<1>8. Current'
  BY <1>1, <1>2, <1>5, <1>6 DEF Current, TranslationCurrent, CurrentProc
<1> QED
  BY <1>5, <1>7, <1>8 DEF SpacesInv

\* What the steps of sys_clone and process_sbrk leave alone outside of memory.
LEMMA CallFrame ==
  ASSUME SpacesInv, sch.current # NULL,
         UNCHANGED <<sch, processes, thread, gdt_tls, halted>>,
         \A p \in Procs : proc'[p].context = proc[p].context,
         proc' \in [Procs -> ProcessRecord], loc' \in [Threads -> Local],
         NEW step \in Step, pc' = [pc EXCEPT ![sch.current] = step],
         Named', AddressSpaces', Quiet(m'), m'.cr3 = m.cr3, m'.cr3 = m'.current_context,
         \A e \in m'.tlb : e[2] = Walk(m', m'.cr3, e[1])
  PROVE  SpacesInv' /\ Live' = Live
<1>1. Types /\ Callers /\ AddressSpaces /\ Current
  BY DEF SpacesInv
<1>2. sch.current \in Threads /\ sch.state[sch.current] = "READY" /\ CurrentProc \in Procs
  BY Running
<1>3. Live' = Live /\ Directories' = Directories
  BY ContextsKept
<1>4. Types'
  BY <1>1 DEF Types
<1>5. \A t \in Threads : pc'[t] # "user" => sch'.state[t] # "FREE"
  BY <1>1, <1>2 DEF Types, Callers
<1>6. Callers'
  BY <1>1, <1>3, <1>5 DEF Callers, Queued
<1>7. Current'
  <2>1. CurrentProc' = CurrentProc /\ proc'[CurrentProc].context = proc[CurrentProc].context
    BY <1>2 DEF CurrentProc
  <2> QED
    BY <1>1, <1>3, <2>1 DEF Current, TranslationCurrent
<1> QED
  BY <1>3, <1>4, <1>6, <1>7 DEF SpacesInv

\* The steps of process_sbrk leave identifiers alone, too.
LEMMA SbrkFrame ==
  ASSUME SpacesInv, sch.current # NULL,
         UNCHANGED <<sch, processes, thread, gdt_tls, halted>>,
         \A p \in Procs : proc'[p].context = proc[p].context /\ proc'[p].pid = proc[p].pid
                          /\ proc'[p].threads = proc[p].threads,
         proc' \in [Procs -> ProcessRecord], loc' \in [Threads -> Local],
         NEW step \in Step, pc' = [pc EXCEPT ![sch.current] = step],
         AddressSpaces', Quiet(m'), m'.cr3 = m.cr3, m'.cr3 = m'.current_context,
         \A e \in m'.tlb : e[2] = Walk(m', m'.cr3, e[1])
  PROVE  SpacesInv' /\ Live' = Live
<1>1. Live' = Live
  BY ContextsKept
<1>2. Named'
  BY <1>1, ProcessAssumption DEF SpacesInv, Named, Identifiers, Live
<1> QED
  BY <1>2, CallFrame

\* sys_clone looks for a free place.
LEMMA FindStep ==
  ASSUME SpacesInv, sys_clone
  PROVE  /\ SpacesInv' /\ Live' = Live /\ LoopsKept
         /\ \A p \in Live : \A u \in UserPages : PageKept(p, u)
<1> DEFINE t == sch.current
<1>1. PICK step \in {"grow", "store"} : pc' = [pc EXCEPT ![t] = step]
  BY DEF sys_clone, Go
<1>2. PICK i : i = AddIndex(Heap.threads)
  OBVIOUS
<1>3. /\ t # NULL /\ pc[t] \in {"user", "find"} /\ halted = "no"
      /\ loc' = [loc EXCEPT ![t].slot = i]
      /\ UNCHANGED <<m, sch, processes, proc, thread, gdt_tls, halted>>
  BY <1>2 DEF sys_clone, InCall
<1>4. Types /\ AddressSpaces /\ Current
  BY DEF SpacesInv
<1>5. t \in Threads /\ proc[CurrentProc] \in ProcessRecord
  BY <1>3, Running
<1>6. i \in Nat
  <2>1. PICK v \in Vector(Threads) : v = Heap.threads
    BY <1>5 DEF Heap, ProcessRecord
  <2> QED
    BY <1>2, <2>1, VectorSearch
<1> HIDE DEF t
<1>7. loc' \in [Threads -> Local] /\ \A u \in Threads : u # t => loc'[u] = loc[u]
  BY <1>3, <1>4, <1>5, <1>6 DEF Types, Local
<1>8. LoopsKept /\ LocalsKept
  BY <1>1, <1>3, <1>4, <1>5, <1>7 DEF LoopsKept, LocalsKept, Looping, Types
<1>9. AddressSpaces' /\ \A p \in Live : \A u \in UserPages : PageKept(p, u)
  BY <1>3, <1>4, <1>8, SpacesStay
<1>10. step \in Step
  BY DEF Step, Cloning
<1>11. SpacesInv' /\ Live' = Live
  <2>1. /\ sch.current # NULL /\ UNCHANGED <<sch, processes, thread, gdt_tls, halted>>
        /\ \A p \in Procs : proc'[p].context = proc[p].context /\ proc'[p].pid = proc[p].pid
                            /\ proc'[p].threads = proc[p].threads
        /\ proc' \in [Procs -> ProcessRecord]
        /\ pc' = [pc EXCEPT ![sch.current] = step]
    BY <1>1, <1>3, <1>4 DEF Types, t
  <2>2. /\ Quiet(m') /\ m'.cr3 = m.cr3 /\ m'.cr3 = m'.current_context
        /\ \A e \in m'.tlb : e[2] = Walk(m', m'.cr3, e[1])
    BY <1>3, <1>4 DEF Types, Current, TranslationCurrent
  <2> QED
    BY <1>7, <1>9, <1>10, <2>1, <2>2, SbrkFrame
<1> QED
  BY <1>8, <1>9, <1>11

\* vector_resize of the table of threads.
LEMMA GrowStep ==
  ASSUME SpacesInv, c_grow
  PROVE  /\ SpacesInv' /\ Live' = Live /\ LoopsKept
         /\ \A p \in Live : \A u \in UserPages : PageKept(p, u)
         /\ \A p \in Live : proc'[p].size = proc[p].size /\ proc'[p].used = proc[p].used
<1> DEFINE t == sch.current
           p == CurrentProc
<1>1. /\ t # NULL /\ pc[t] = "grow" /\ halted = "no"
      /\ UNCHANGED <<m, sch, processes, thread, gdt_tls, loc>>
  BY DEF c_grow, InCall
<1>2. Types /\ Callers /\ Identifiers /\ AddressSpaces /\ Current
  BY <1>1 DEF SpacesInv, Named
<1>3. t \in Threads /\ p \in Live /\ p \in Procs /\ proc[p] \in ProcessRecord
  BY <1>1, Running
<1>4. CASE halted' = "raced" /\ UNCHANGED <<proc, pc>>
  <2>1. LoopsKept /\ Live' = Live
    BY <1>1, <1>4 DEF LoopsKept, Live
  <2> QED
    BY <1>1, <1>4, <2>1, StopStep
<1>5. CASE /\ proc' = [proc EXCEPT ![p].threads = vector_resize(@)]
           /\ pc' = [pc EXCEPT ![t] = "find"]
           /\ UNCHANGED halted
  <2>1. PICK v \in Vector(Threads) : v = proc[p].threads
    BY <1>3 DEF ProcessRecord
  <2>2. PICK r : r = vector_resize(v)
    OBVIOUS
  <2>3. r \in Vector(Threads)
        /\ \A j \in Entries(v) : j \in Entries(r) /\ r.content[j] = v.content[j]
    BY <2>2, VectorResize
  <2> HIDE DEF t, p
  <2>4. proc' = [proc EXCEPT ![p] = [proc[p] EXCEPT !.threads = r]]
    BY <1>2, <1>3, <1>5, <2>1, <2>2 DEF Types
  <2>5. /\ proc' \in [Procs -> ProcessRecord]
        /\ \A q \in Procs : q # p => proc'[q] = proc[q]
        /\ proc'[p].context = proc[p].context /\ proc'[p].pid = proc[p].pid
        /\ proc'[p].size = proc[p].size /\ proc'[p].used = proc[p].used
        /\ proc'[p].threads = r
    <3>1. PICK self \in ProcessRecord : self = proc[p]
      BY <1>3
    <3>2. PICK next : next = [self EXCEPT !.threads = r]
      OBVIOUS
    <3>3. /\ next \in ProcessRecord /\ next.context = self.context /\ next.pid = self.pid
          /\ next.size = self.size /\ next.used = self.used /\ next.threads = r
      BY <2>3, <3>2 DEF ProcessRecord
    <3>4. proc \in [Procs -> ProcessRecord] /\ proc' = [proc EXCEPT ![p] = next]
      BY <1>2, <2>4, <3>1, <3>2 DEF Types
    <3> QED
      BY <1>3, <3>1, <3>3, <3>4
  <2>6. \A q \in Procs : /\ proc'[q].context = proc[q].context /\ proc'[q].pid = proc[q].pid
                         /\ proc'[q].size = proc[q].size /\ proc'[q].used = proc[q].used
    BY <2>5
  <2>7. Live' = Live
    BY <2>6, ContextsKept
  <2>8. Named'
    <3>1. \A q \in Live' : proc'[q].pid \in Entries(processes')
                           /\ processes'.content[proc'[q].pid] = q
      BY <1>1, <1>2, <2>6, <2>7 DEF Identifiers, Live
    <3>2. ASSUME NEW u \in Threads, thread'[u].process # Nil
          PROVE  /\ thread'[u].process \in Live'
                 /\ thread'[u].tid \in Entries(proc'[thread'[u].process].threads)
                 /\ proc'[thread'[u].process].threads.content[thread'[u].tid] = u
      <4>1. /\ thread' = thread /\ thread[u].process \in Live /\ thread[u].process \in Procs
            /\ thread[u].tid \in Entries(proc[thread[u].process].threads)
            /\ proc[thread[u].process].threads.content[thread[u].tid] = u
        BY <1>1, <1>2, <3>2 DEF Identifiers, Live
      <4>2. CASE thread[u].process = p
        BY <2>1, <2>3, <2>5, <2>7, <4>1, <4>2
      <4>3. CASE thread[u].process # p
        BY <2>5, <2>7, <4>1, <4>3
      <4> QED
        BY <4>2, <4>3
    <3> QED
      BY <3>1, <3>2 DEF Named, Identifiers
  <2>9. LoopsKept /\ LocalsKept
    BY <1>1, <1>2, <1>3, <1>5 DEF LoopsKept, LocalsKept, Looping, Types
  <2>10. AddressSpaces' /\ \A q \in Live : \A u \in UserPages : PageKept(q, u)
    BY <1>1, <1>2, <2>6, <2>9, SpacesStay
  <2>11. PICK step \in Step : step = "find"
    BY DEF Step, Cloning
  <2>12. SpacesInv'
    <3>1. /\ sch.current # NULL /\ UNCHANGED <<sch, processes, thread, gdt_tls, halted>>
          /\ \A q \in Procs : proc'[q].context = proc[q].context
          /\ loc' \in [Threads -> Local]
          /\ pc' = [pc EXCEPT ![sch.current] = step]
      BY <1>1, <1>2, <1>5, <2>6, <2>11 DEF Types, t
    <3>2. /\ Quiet(m') /\ m'.cr3 = m.cr3 /\ m'.cr3 = m'.current_context
          /\ \A e \in m'.tlb : e[2] = Walk(m', m'.cr3, e[1])
      BY <1>1, <1>2 DEF Types, Current, TranslationCurrent
    <3> QED
      BY <2>5, <2>8, <2>10, <3>1, <3>2, CallFrame
  <2>13. \A q \in Live : proc'[q].size = proc[q].size /\ proc'[q].used = proc[q].used
    BY <2>6 DEF Live
  <2> QED
    BY <2>7, <2>9, <2>10, <2>12, <2>13
<1> QED
  BY <1>4, <1>5 DEF c_grow, Go

\* The new thread gets the place that was found; if it is still free, identifiers
\* lead back to their threads as before.
LEMMA StoreStep ==
  ASSUME SpacesInv, NEW t \in Threads, c_store(t)
  PROVE  /\ SpacesInv' /\ \A q \in Live : \A u \in UserPages : PageKept(q, u)
         /\ LoopsKept /\ halted' \in {"no", "raced"} /\ Live' = Live
         /\ \A q \in Live : proc'[q].size = proc[q].size /\ proc'[q].used = proc[q].used
         /\ \A u \in Threads : sch.state[u] # "FREE" => thread'[u] = thread[u]
<1> DEFINE p == CurrentProc
           c == sch.current
<1>1. PICK i : i = loc[c].slot
  OBVIOUS
<1>2. PICK v : v = [count |-> proc[p].threads.count + 1,
                    content |-> [proc[p].threads.content EXCEPT ![i] = t]]
  OBVIOUS
<1>3. /\ c # NULL /\ pc[c] = "store" /\ sch.state[t] = "FREE" /\ halted = "no"
      /\ proc' = [proc EXCEPT ![p].threads = v]
      /\ thread' = [thread EXCEPT ![t].process = p, ![t].tid = i]
      /\ sch' = scheduler_enqueue_thread(thread_new(sch, t), t)
      /\ pc' = [pc EXCEPT ![c] = "user"]
      /\ loc' = [loc EXCEPT ![c] = NoLocals]
      /\ halted' = IF i \in FreeSlots(proc[p].threads) THEN "no" ELSE "raced"
      /\ UNCHANGED <<m, processes, gdt_tls>>
  BY <1>1, <1>2 DEF c_store, InCall, Go, Heap
<1>4. Types /\ Callers /\ Identifiers /\ AddressSpaces /\ Current
  BY <1>3 DEF SpacesInv, Named
<1>5. /\ c \in Threads /\ sch.state[c] = "READY"
      /\ p \in Live /\ p \in Procs /\ p # Nil /\ proc[p] \in ProcessRecord
  BY <1>3, Running
<1> HIDE DEF p, c
<1>6. PICK self \in ProcessRecord : self = proc[p]
  BY <1>5
<1>7. i \in Nat
  BY <1>1, <1>4, <1>5 DEF Types, Local
<1>8. /\ v \in Vector(Threads)
      /\ i \in DOMAIN self.threads.content => i \in Entries(v) /\ v.content[i] = t
      /\ \A j \in Entries(self.threads) :
           j # i => j \in Entries(v) /\ v.content[j] = self.threads.content[j]
  <2>1. self.threads \in Vector(Threads) /\ t # NULL
    BY NullAssumption DEF ProcessRecord
  <2> QED
    BY <1>2, <1>6, <1>7, <2>1, VectorStore
<1>9. self.context # Nil
  BY <1>5, <1>6 DEF Live
<1>10. Enters(p, self, t, v, i)
  BY <1>3, <1>4, <1>5, <1>6 DEF Types, Enters
<1>11. /\ proc' \in [Procs -> ProcessRecord] /\ thread' \in [Threads -> ThreadRecord]
       /\ \A q \in Procs : q # p => proc'[q] = proc[q]
       /\ proc'[p].context = self.context /\ proc'[p].pid = self.pid
       /\ proc'[p].size = self.size /\ proc'[p].used = self.used
       /\ \A u \in Threads : u # t => thread'[u] = thread[u]
       /\ thread'[t].process = p /\ thread'[t].tls = thread[t].tls
       /\ p \in Live' /\ proc'[p].threads = v /\ thread'[t].tid = i
  BY <1>4, <1>5, <1>7, <1>8, <1>9, <1>10, EnterThread
<1>12. \A q \in Procs : /\ proc'[q].context = proc[q].context /\ proc'[q].pid = proc[q].pid
                        /\ proc'[q].size = proc[q].size /\ proc'[q].used = proc[q].used
  BY <1>6, <1>11
<1>13. Live' = Live /\ Directories' = Directories
  BY <1>12, ContextsKept
<1>14. /\ loc' \in [Threads -> Local] /\ pc' \in [Threads -> Step]
       /\ pc'[c] = "user" /\ \A u \in Threads : u # c => pc'[u] = pc[u] /\ loc'[u] = loc[u]
  BY <1>3, <1>4, <1>5 DEF Types, Step, NoLocals, Local
<1>15. LoopsKept /\ LocalsKept
  BY <1>3, <1>5, <1>14 DEF LoopsKept, LocalsKept, Looping
<1>16. /\ AddressSpaces'
       /\ \A q \in Live : \A u \in UserPages : PageKept(q, u)
  BY <1>3, <1>4, <1>12, <1>15, SpacesStay
<1>17. /\ sch' \in Sched /\ sch'.current = sch.current
       /\ sch'.state = [sch.state EXCEPT ![t] = "READY"]
       /\ Queued'
       /\ sch'.current # NULL => sch'.state[sch'.current] = "READY"
  BY <1>3, <1>4, QueueThread
<1>18. Types'
  BY <1>3, <1>4, <1>11, <1>14, <1>17 DEF Types
<1>19. \A u \in Threads : /\ sch'.state[u] # "FREE" => thread'[u].process \in Live'
                          /\ pc'[u] # "user" => sch'.state[u] # "FREE"
  <2> TAKE u \in Threads
  <2>1. sch.state \in [Threads -> ThreadState]
    BY <1>4 DEF Types, Sched
  <2> QED
    BY <1>4, <1>5, <1>11, <1>13, <1>14, <1>17, <2>1 DEF Callers
<1>20. Named'
  <2> SUFFICES ASSUME i \in FreeSlots(self.threads) PROVE Identifiers'
    BY <1>3, <1>6 DEF Named
  <2>1. /\ i \in DOMAIN self.threads.content /\ i \notin Entries(self.threads)
    BY DEF FreeSlots, Entries
  <2>2. \A u \in Threads : u # t /\ thread[u].process = p =>
          thread[u].tid \in Entries(v) /\ v.content[thread[u].tid] = u
    BY <1>4, <1>5, <1>6, <1>8, <2>1 DEF Identifiers
  <2>3. \A q \in Live' : proc'[q].pid \in Entries(processes')
                         /\ processes'.content[proc'[q].pid] = q
    BY <1>3, <1>4, <1>12, <1>13 DEF Identifiers, Live
  <2>4. i \in Entries(v) /\ v.content[i] = t
    BY <1>8, <2>1
  <2>5. ASSUME NEW u \in Threads, thread'[u].process # Nil
        PROVE  /\ thread'[u].process \in Live'
               /\ thread'[u].tid \in Entries(proc'[thread'[u].process].threads)
               /\ proc'[thread'[u].process].threads.content[thread'[u].tid] = u
    BY <1>4, <1>11, <2>2, <2>4, <2>5, EnteredFound
  <2> QED
    BY <2>3, <2>5 DEF Identifiers
<1>21. Current'
  <2>1. thread'[sch.current] = thread[sch.current] /\ CurrentProc' = CurrentProc
    BY <1>3, <1>5, <1>11, <1>17 DEF CurrentProc, c
  <2>2. proc'[CurrentProc].context = proc[CurrentProc].context
    BY <1>5, <1>12 DEF p
  <2>3. m' = m /\ gdt_tls' = gdt_tls
    BY <1>3
  <2> QED
    BY <1>4, <1>13, <1>17, <2>1, <2>2, <2>3 DEF Current, TranslationCurrent
<1>22. SpacesInv'
  BY <1>16, <1>17, <1>18, <1>19, <1>20, <1>21 DEF SpacesInv, Callers
<1>23. \A q \in Live : proc'[q].size = proc[q].size /\ proc'[q].used = proc[q].used
  BY <1>12 DEF Live
<1>24. \A u \in Threads : sch.state[u] # "FREE" => thread'[u] = thread[u]
  BY <1>3, <1>11
<1>25. halted' \in {"no", "raced"}
  BY <1>3
<1> QED
  BY <1>13, <1>15, <1>16, <1>22, <1>23, <1>24, <1>25

LEMMA SbrkStep ==
  ASSUME SpacesInv, NEW incr \in Incrs, sys_sbrk(incr)
  PROVE  SpacesInv' /\ Live' = Live /\ \A p \in Live : \A u \in UserPages : PageKept(p, u)
<1> DEFINE t == sch.current
<1>1. /\ t # NULL /\ pc' = [pc EXCEPT ![t] = "test"]
      /\ loc' = [loc EXCEPT ![t] = [NoLocals EXCEPT !.incr = incr]]
      /\ UNCHANGED <<m, sch, processes, proc, thread, gdt_tls, halted>>
  BY DEF sys_sbrk, InCall, Go
<1>2. Types /\ AddressSpaces /\ Current
  BY DEF SpacesInv
<1>3. t \in Threads
  BY <1>1, Running
<1>4. loc' \in [Threads -> Local]
  <2>1. [NoLocals EXCEPT !.incr = incr] \in Local
    BY ProcessAssumption DEF NoLocals, Local
  <2> QED
    BY <1>1, <1>2, <2>1 DEF Types
<1> HIDE DEF t
<1>5. LocalsKept
  BY <1>1, <1>2, <1>3 DEF LocalsKept, Types
<1>6. AddressSpaces' /\ \A p \in Live : \A u \in UserPages : PageKept(p, u)
  BY <1>1, <1>2, <1>5, SpacesStay
<1>7. PICK step \in Step : step = "test"
  BY DEF Step, Looping
<1>8. SpacesInv' /\ Live' = Live
  <2>1. /\ sch.current # NULL /\ UNCHANGED <<sch, processes, thread, gdt_tls, halted>>
        /\ \A p \in Procs : proc'[p].context = proc[p].context /\ proc'[p].pid = proc[p].pid
                            /\ proc'[p].threads = proc[p].threads
        /\ proc' \in [Procs -> ProcessRecord] /\ loc' \in [Threads -> Local]
        /\ pc' = [pc EXCEPT ![sch.current] = step]
    BY <1>1, <1>2, <1>4, <1>7 DEF Types, t
  <2>2. /\ AddressSpaces' /\ Quiet(m') /\ m'.cr3 = m.cr3 /\ m'.cr3 = m'.current_context
        /\ \A e \in m'.tlb : e[2] = Walk(m', m'.cr3, e[1])
    BY <1>1, <1>2, <1>6 DEF Types, Current, TranslationCurrent
  <2> QED
    BY <2>1, <2>2, SbrkFrame
<1> QED
  BY <1>6, <1>8

\* The head of the loop.
LEMMA TestStep ==
  ASSUME SpacesInv, s_test
  PROVE  SpacesInv' /\ Live' = Live /\ \A p \in Live : \A u \in UserPages : PageKept(p, u)
<1> DEFINE t == sch.current
           virt == HeapStart + Heap.size \div PAGE_SIZE
<1>1. t # NULL /\ pc[t] = "test" /\ halted = "no"
  BY DEF s_test, InCall
<1>2. Types /\ AddressSpaces /\ Current
  BY DEF SpacesInv
<1>3. /\ t \in Threads /\ CurrentProc \in Procs /\ proc[CurrentProc] \in ProcessRecord
  BY <1>1, Running
<1>4. Quiet(m) /\ m.cr3 = m.current_context /\ \A e \in m.tlb : e[2] = Walk(m, m.cr3, e[1])
  BY <1>2 DEF Types, Current, TranslationCurrent
<1>5. CASE ~NeedsPage(loc[t].incr)
  <2>1. /\ proc' = [proc EXCEPT ![CurrentProc].used = @ + loc[t].incr]
        /\ pc' = [pc EXCEPT ![t] = "user"]
        /\ loc' = [loc EXCEPT ![t] = NoLocals]
        /\ UNCHANGED <<m, sch, processes, thread, gdt_tls, halted>>
    BY <1>5 DEF s_test, Go
  <2> HIDE DEF t
  <2>2. loc' \in [Threads -> Local]
    BY <1>2, <1>3, <2>1 DEF Types, NoLocals, Local
  <2>3. /\ proc' \in [Procs -> ProcessRecord]
        /\ \A p \in Procs : proc'[p].context = proc[p].context /\ proc'[p].pid = proc[p].pid
                            /\ proc'[p].threads = proc[p].threads
    <3>1. proc \in [Procs -> ProcessRecord] /\ loc[t].incr \in Int
      BY <1>2, <1>3 DEF Types, Local
    <3> QED
      BY <1>3, <2>1, <3>1 DEF ProcessRecord
  <2>4. LocalsKept
    BY <1>2, <1>3, <2>1 DEF LocalsKept, Types
  <2>5. AddressSpaces' /\ \A p \in Live : \A u \in UserPages : PageKept(p, u)
    BY <1>2, <2>1, <2>3, <2>4, SpacesStay
  <2>6. PICK step \in Step : step = "user"
    BY DEF Step, Looping
  <2>7. SpacesInv' /\ Live' = Live
    <3>1. /\ sch.current # NULL /\ UNCHANGED <<sch, processes, thread, gdt_tls, halted>>
          /\ pc' = [pc EXCEPT ![sch.current] = step]
      BY <1>1, <2>1, <2>6 DEF t
    <3>2. /\ Quiet(m') /\ m'.cr3 = m.cr3 /\ m'.cr3 = m'.current_context
          /\ \A e \in m'.tlb : e[2] = Walk(m', m'.cr3, e[1])
      BY <1>4, <2>1
    <3> QED
      BY <2>2, <2>3, <2>5, <3>1, <3>2, SbrkFrame
  <2> QED
    BY <2>5, <2>7
<1>6. CASE NeedsPage(loc[t].incr) /\ ~Suffices(1, 0)
  <2>1. panic
    BY <1>6 DEF s_test
  <2> QED
    BY <1>1, <2>1, StopStep DEF panic, Live
<1>7. CASE NeedsPage(loc[t].incr) /\ Suffices(1, 0)
  <2>1. /\ pc' = [pc EXCEPT ![t] = "take"]
        /\ loc' = [loc EXCEPT ![t].virt = virt, ![t].phys = NextFrame(m)]
        /\ UNCHANGED <<m, sch, processes, proc, thread, gdt_tls, halted>>
    BY <1>7 DEF s_test, Go
  <2>2. virt \in Nat
    <3>1. Heap.size \in Nat /\ PAGE_SIZE \in Nat \ {0} /\ HeapStart \in Nat
      BY <1>3, ProcessAssumption, PageNumbers DEF Heap, ProcessRecord
    <3> QED
      BY <3>1
  <2>3. NextFrame(m) \in Nat
    <3>1. PICK k \in Nat : k = 0
      OBVIOUS
    <3>2. InHandler(m, m)
      BY <1>4, Entering
    <3>3. Cardinality(m.free) >= k + 1
      BY <1>7, <3>1 DEF Suffices
    <3>4. NextFrame(m) \in Frame
      BY <3>2, <3>3, TakeFrame
    <3> QED
      BY <3>4, FrameFacts
  <2> HIDE DEF t, virt
  <2>4. loc' \in [Threads -> Local] /\ \A u \in Threads : u # t => loc'[u] = loc[u]
    BY <1>2, <1>3, <2>1, <2>2, <2>3 DEF Types, Local
  <2>5. LocalsKept
    BY <1>2, <1>3, <2>1, <2>4 DEF LocalsKept, Types
  <2>6. AddressSpaces' /\ \A p \in Live : \A u \in UserPages : PageKept(p, u)
    BY <1>2, <2>1, <2>5, SpacesStay
  <2>7. PICK step \in Step : step = "take"
    BY DEF Step, Looping
  <2>8. SpacesInv' /\ Live' = Live
    <3>1. /\ sch.current # NULL /\ UNCHANGED <<sch, processes, thread, gdt_tls, halted>>
          /\ \A p \in Procs : proc'[p].context = proc[p].context /\ proc'[p].pid = proc[p].pid
                              /\ proc'[p].threads = proc[p].threads
          /\ proc' \in [Procs -> ProcessRecord]
          /\ pc' = [pc EXCEPT ![sch.current] = step]
      BY <1>1, <1>2, <2>1, <2>7 DEF t, Types
    <3>2. /\ Quiet(m') /\ m'.cr3 = m.cr3 /\ m'.cr3 = m'.current_context
          /\ \A e \in m'.tlb : e[2] = Walk(m', m'.cr3, e[1])
      BY <1>4, <2>1
    <3> QED
      BY <2>4, <2>6, <3>1, <3>2, SbrkFrame
  <2> QED
    BY <2>6, <2>8
<1> QED
  BY <1>5, <1>6, <1>7

\* memory_alloc clears the bit of the frame that it found.
LEMMA TakeStep ==
  ASSUME SpacesInv, s_take
  PROVE  SpacesInv' /\ Live' = Live /\ \A p \in Live : \A u \in UserPages : PageKept(p, u)
<1> DEFINE t == sch.current
<1>1. /\ t # NULL /\ pc[t] = "take" /\ halted = "no"
      /\ UNCHANGED <<sch, processes, proc, thread, gdt_tls, loc>>
  BY DEF s_take, InCall
<1>2. Types /\ AddressSpaces /\ Current
  BY DEF SpacesInv
<1>3. t \in Threads
  BY <1>1, Running
<1>4. PICK f : f = loc[t].phys
  OBVIOUS
<1>5. CASE f \notin m.free
  <2>1. halted' = "raced" /\ UNCHANGED <<m, pc>>
    BY <1>4, <1>5 DEF s_take
  <2> QED
    BY <1>1, <2>1, StopStep DEF Live
<1>6. CASE f \in m.free
  <2>1. /\ m' = [m EXCEPT !.free = @ \ {f}] /\ pc' = [pc EXCEPT ![t] = "map"]
        /\ UNCHANGED halted
    BY <1>4, <1>6 DEF s_take, Go
  <2> HIDE DEF t
  <2>2. /\ pc'[t] = "map" /\ loc'[t].phys = f
        /\ \A u \in Threads : u # t => pc'[u] = pc[u] /\ loc'[u] = loc[u]
    BY <1>1, <1>2, <1>3, <1>4, <2>1 DEF Types
  <2>3. /\ AddressSpaces' /\ Quiet(m')
        /\ m'.cr3 = m.cr3 /\ m'.cr3 = m'.current_context
        /\ \A e \in m'.tlb : e[2] = Walk(m', m'.cr3, e[1])
        /\ \A p \in Live : \A u \in UserPages : PageKept(p, u)
    <3>1. \A p \in Procs : proc'[p].context = proc[p].context
      BY <1>1
    <3> QED
      BY <1>2, <1>3, <1>6, <2>1, <2>2, <3>1, SpacesTaken
  <2>4. PICK step \in Step : step = "map"
    BY DEF Step, Looping
  <2>5. SpacesInv' /\ Live' = Live
    <3>1. /\ sch.current # NULL /\ UNCHANGED <<sch, processes, thread, gdt_tls, halted>>
          /\ \A p \in Procs : proc'[p].context = proc[p].context /\ proc'[p].pid = proc[p].pid
                              /\ proc'[p].threads = proc[p].threads
          /\ proc' \in [Procs -> ProcessRecord] /\ loc' \in [Threads -> Local]
          /\ pc' = [pc EXCEPT ![sch.current] = step]
      BY <1>1, <1>2, <2>1, <2>4 DEF t, Types
    <3> QED
      BY <2>3, <3>1, SbrkFrame
  <2> QED
    BY <2>3, <2>5
<1> QED
  BY <1>5, <1>6

\* paging_map of the page that the heap needs.
LEMMA MapStep ==
  ASSUME SpacesInv, s_map
  PROVE  /\ SpacesInv' /\ Live' = Live
         /\ \A p \in Live : \A u \in UserPages :
              p # CurrentProc \/ u # loc[sch.current].virt => PageKept(p, u)
         /\ pc'[sch.current] = "zero" =>
              \A c : c = CurrentProc => Shows(c, loc[sch.current].virt)' # Nil
<1> DEFINE t == sch.current
           v == loc[t].virt
<1>1. /\ t # NULL /\ pc[t] = "map" /\ halted = "no"
      /\ UNCHANGED <<sch, processes, proc, thread, gdt_tls, loc>>
  BY DEF s_map, InCall
<1>2. Types /\ AddressSpaces /\ Current
  BY DEF SpacesInv
<1>3. /\ t \in Threads /\ CurrentProc \in Live /\ CurrentProc \in Procs
      /\ v \in Nat
  BY <1>1, <1>2, Running DEF Types, Local
<1>4. CASE v >= StackPage \/ (~TableInView(m, Heap.context, v) /\ ~Suffices(1, 2))
  <2>1. halted' \in {"panic", "overrun"} /\ UNCHANGED <<m, pc>>
    BY <1>4 DEF s_map
  <2>2. SpacesInv' /\ \A p \in Live : \A u \in UserPages : PageKept(p, u)
    BY <1>1, <2>1, StopStep
  <2>3. Live' = Live /\ pc'[t] = "map"
    BY <1>1, <2>1 DEF Live
  <2> QED
    BY <2>2, <2>3
<1>5. CASE ~(v >= StackPage) /\ (TableInView(m, Heap.context, v) \/ Suffices(1, 2))
  <2>1. /\ m' = paging_map(m, Heap.context, v, loc[t].phys)
        /\ pc' = [pc EXCEPT ![t] = "zero"] /\ UNCHANGED halted
    BY <1>5 DEF s_map, Go
  <2>2. v \in UserPages
    <3>1. StackPage \in Nat
      BY PageNumbers
    <3>2. v <= StackPage
      BY <1>3, <1>5, <3>1
    <3> QED
      BY <1>3, <3>2, PageNumbers
  <2>3. PICK c : c = CurrentProc
    OBVIOUS
  <2>4. PICK f : f = loc[t].phys
    OBVIOUS
  <2>5. PICK t0 \in Threads : t0 = t
    BY <1>3
  <2>6. PICK v0 \in UserPages : v0 = v
    BY <2>2
  <2> HIDE DEF t, v
  <2>7. /\ AddressSpaces' /\ Quiet(m')
        /\ m'.cr3 = m.cr3 /\ m'.cr3 = m'.current_context
        /\ \A e \in m'.tlb : e[2] = Walk(m', m'.cr3, e[1])
        /\ \A p \in Live : \A u \in UserPages : p # c \/ u # v0 => PageKept(p, u)
        /\ Shows(c, v0)' # Nil
    <3>1. /\ t0 = sch.current /\ t0 # NULL /\ c \in Live /\ pc[t0] = "map" /\ f = loc[t0].phys
      BY <1>1, <1>3, <2>3, <2>4, <2>5 DEF t
    <3>2. TableInView(m, proc[c].context, v0)
            \/ (Cardinality(m.free) >= 1 /\ Cardinality(EmptySlots(m)) >= 2)
      BY <1>5, <2>3, <2>6 DEF Heap, Suffices
    <3>3. m' = paging_map(m, proc[c].context, v0, f)
      BY <2>1, <2>3, <2>4, <2>6 DEF Heap
    <3>4. /\ \A p \in Procs : proc'[p].context = proc[p].context
          /\ pc'[t0] = "zero" /\ loc'[t0].virt = v0
          /\ \A u \in Threads : u # t0 => pc'[u] = pc[u] /\ loc'[u] = loc[u]
      BY <1>1, <1>2, <2>1, <2>5, <2>6 DEF Types, v
    <3> QED
      BY <1>2, <2>3, <3>1, <3>2, <3>3, <3>4, SpacesMapped
  <2>8. PICK step \in Step : step = "zero"
    BY DEF Step, Looping
  <2>9. SpacesInv' /\ Live' = Live
    <3>1. /\ sch.current # NULL /\ UNCHANGED <<sch, processes, thread, gdt_tls, halted>>
          /\ \A p \in Procs : proc'[p].context = proc[p].context /\ proc'[p].pid = proc[p].pid
                              /\ proc'[p].threads = proc[p].threads
          /\ proc' \in [Procs -> ProcessRecord]
          /\ loc' \in [Threads -> Local]
          /\ pc' = [pc EXCEPT ![sch.current] = step]
      BY <1>1, <1>2, <2>1, <2>8 DEF t, Types
    <3> QED
      BY <2>7, <3>1, SbrkFrame
  <2> QED
    BY <1>1, <2>3, <2>6, <2>7, <2>9 DEF t, v
<1> QED
  BY <1>4, <1>5

\* memset of the new page.
LEMMA ZeroStep ==
  ASSUME SpacesInv, s_zero
  PROVE  /\ SpacesInv' /\ Live' = Live /\ \A p \in Live : \A u \in UserPages : PageKept(p, u)
         /\ \A c : c = CurrentProc /\ Shows(c, loc[sch.current].virt) # Nil
                     => Backed(c, loc[sch.current].virt)'
<1> DEFINE t == sch.current
<1>1. /\ t # NULL /\ pc[t] = "zero" /\ halted = "no"
      /\ m' = Write(m, loc[t].virt, Zeroed) /\ pc' = [pc EXCEPT ![t] = "size"]
      /\ UNCHANGED <<sch, processes, proc, thread, gdt_tls, loc, halted>>
  BY DEF s_zero, InCall, Go
<1>2. Types /\ AddressSpaces /\ Current
  BY DEF SpacesInv
<1>3. t \in Threads /\ CurrentProc \in Live
  BY <1>1, Running
<1>4. PICK c : c = CurrentProc
  OBVIOUS
<1>5. PICK v \in UserPages : v = loc[t].virt
  BY <1>1, <1>2, <1>3 DEF AddressSpaces
<1> HIDE DEF t
<1>6. /\ AddressSpaces' /\ Quiet(m')
      /\ m'.cr3 = m.cr3 /\ m'.cr3 = m'.current_context
      /\ \A e \in m'.tlb : e[2] = Walk(m', m'.cr3, e[1])
      /\ \A p \in Live : \A u \in UserPages : PageKept(p, u)
      /\ Shows(c, v) # Nil => Backed(c, v)'
  <2>1. PICK words : words = Zeroed
    OBVIOUS
  <2>2. DOMAIN words = Word /\ \A w \in DOMAIN words : words[w] \in {c, Nil}
    BY <2>1 DEF Zeroed
  <2>3. m' = Write(m, v, words)
    BY <1>1, <1>5, <2>1
  <2>4. LocalsKept
    BY <1>1, <1>2, <1>3 DEF LocalsKept, Types
  <2>5. sch.current # NULL /\ c \in Live /\ \A p \in Procs : proc'[p].context = proc[p].context
    BY <1>1, <1>3, <1>4 DEF t
  <2> QED
    BY <1>2, <1>4, <2>2, <2>3, <2>4, <2>5, SpacesWritten
<1>7. PICK step \in Step : step = "size"
  BY DEF Step, Looping
<1>8. SpacesInv' /\ Live' = Live
  <2>1. /\ sch.current # NULL /\ UNCHANGED <<sch, processes, thread, gdt_tls, halted>>
        /\ \A p \in Procs : proc'[p].context = proc[p].context /\ proc'[p].pid = proc[p].pid
                            /\ proc'[p].threads = proc[p].threads
        /\ proc' \in [Procs -> ProcessRecord]
        /\ loc' \in [Threads -> Local]
        /\ pc' = [pc EXCEPT ![sch.current] = step]
    BY <1>1, <1>2, <1>7 DEF t, Types
  <2> QED
    BY <1>6, <2>1, SbrkFrame
<1> QED
  BY <1>1, <1>4, <1>5, <1>6, <1>8 DEF t

\* The heap has grown by a page.
LEMMA SizeStep ==
  ASSUME SpacesInv, s_size
  PROVE  SpacesInv' /\ Live' = Live /\ \A p \in Live : \A u \in UserPages : PageKept(p, u)
<1> DEFINE t == sch.current
<1>1. /\ t # NULL /\ pc' = [pc EXCEPT ![t] = "test"]
      /\ proc' = [proc EXCEPT ![CurrentProc].size = @ + PAGE_SIZE]
      /\ UNCHANGED <<m, sch, processes, thread, gdt_tls, loc, halted>>
  BY DEF s_size, InCall, Go
<1>2. Types /\ AddressSpaces /\ Current
  BY DEF SpacesInv
<1>3. t \in Threads /\ CurrentProc \in Procs /\ proc[CurrentProc] \in ProcessRecord
  BY <1>1, Running
<1> HIDE DEF t
<1>4. /\ proc' \in [Procs -> ProcessRecord]
      /\ \A p \in Procs : proc'[p].context = proc[p].context /\ proc'[p].pid = proc[p].pid
                          /\ proc'[p].threads = proc[p].threads
  BY <1>1, <1>2, <1>3, ProcessAssumption DEF Types, ProcessRecord
<1>5. LocalsKept
  BY <1>1, <1>2, <1>3 DEF LocalsKept, Types
<1>6. AddressSpaces' /\ \A p \in Live : \A u \in UserPages : PageKept(p, u)
  BY <1>1, <1>2, <1>4, <1>5, SpacesStay
<1>7. PICK step \in Step : step = "test"
  BY DEF Step, Looping
<1>8. SpacesInv' /\ Live' = Live
  <2>1. /\ sch.current # NULL /\ UNCHANGED <<sch, processes, thread, gdt_tls, halted>>
        /\ loc' \in [Threads -> Local]
        /\ pc' = [pc EXCEPT ![sch.current] = step]
    BY <1>1, <1>2, <1>7 DEF t, Types
  <2>2. /\ Quiet(m') /\ m'.cr3 = m.cr3 /\ m'.cr3 = m'.current_context
        /\ \A e \in m'.tlb : e[2] = Walk(m', m'.cr3, e[1])
    BY <1>1, <1>2 DEF Types, Current, TranslationCurrent
  <2> QED
    BY <1>4, <1>6, <2>1, <2>2, SbrkFrame
<1> QED
  BY <1>6, <1>8

\* The boot directory shows no page of a user.
LEMMA BootMemory ==
  ASSUME NEW x, x = paging_init
  PROVE  /\ Quiet(x) /\ x.cr3 = 0 /\ x.current_context = 0 /\ x.tlb = {}
         /\ \E kind, of, at : Spaces(x, {0}, kind, of, at)
<1>1. /\ x.free = Frame \ {0, 1} /\ x.window = [i \in 0..(WindowSize - 1) |-> Nil]
      /\ x.cr3 = 0 /\ x.current_context = 0 /\ x.tlb = {}
      /\ DOMAIN x = {"mem", "free", "window", "cr3", "current_context", "tlb"}
  BY DEF paging_init
<1> DEFINE dir == [Zeroed EXCEPT ![SELF] = 0, ![VIEW] = 1]
           view == [Zeroed EXCEPT ![SELF] = 0]
<1>2. /\ dir \in [Word -> Value] /\ view \in [Word -> Value]
      /\ dir[SELF] = 0 /\ dir[VIEW] = 1 /\ view[SELF] = 0
      /\ \A i \in 0..(N - 1) : dir[i] = Nil
  BY Words, FrameFacts DEF Zeroed, Value
<1>3. x.mem = [g \in Frame |-> CASE g = 0 -> dir [] g = 1 -> view
                                 [] OTHER -> [w \in Word |-> Garbage]]
  BY DEF paging_init
<1> HIDE DEF dir, view
<1>4. /\ x.mem[0] = dir /\ x.mem[1] = view
      /\ \A g \in Frame : g # 0 /\ g # 1 => x.mem[g] = [w \in Word |-> Garbage]
  BY <1>3, FrameFacts
<1>5. x.mem \in [Frame -> [Word -> Value]]
  <2>1. \A g \in Frame : (CASE g = 0 -> dir [] g = 1 -> view
                            [] OTHER -> [w \in Word |-> Garbage]) \in [Word -> Value]
    BY <1>2 DEF Value
  <2> QED
    BY <1>3, <2>1
<1>6. x = [mem |-> x.mem, free |-> Frame \ {0, 1},
           window |-> [i \in 0..(WindowSize - 1) |-> Nil],
           cr3 |-> 0, current_context |-> 0, tlb |-> {}]
  BY DEF paging_init
<1>7. Quiet(x)
  <2>1. x \in Memory
    BY <1>5, <1>6, FrameFacts DEF Memory
  <2> QED
    BY <1>1, <2>1 DEF Quiet
<1> DEFINE kind == [g \in Frame |-> IF g = 0 THEN "dir" ELSE IF g = 1 THEN "view" ELSE "free"]
           zero == [g \in Frame |-> 0]
<1>8. Space(x, 0, kind, zero, zero)
  <2>1. \A i \in 0..(N - 1) : x.mem[0][i] = Nil
    BY <1>2, <1>4
  <2>2. \A v \in UserPages : Walk(x, 0, v) = Nil
    <3> TAKE v \in UserPages
    <3>1. x.mem[0][v \div N] = Nil
      BY <2>1, PageNumbers
    <3> QED
      BY <3>1, FrameFacts, WalkEntry
  <2>3. /\ 0 \in Frame /\ kind[0] = "dir" /\ x.mem[0][SELF] = 0
        /\ x.mem[0][VIEW] = 1 /\ 1 \in Frame /\ kind[1] = "view" /\ zero[1] = 0
        /\ x.mem[1][SELF] = 0
    BY <1>2, <1>4, FrameFacts
  <2> QED
    BY <2>1, <2>2, <2>3 DEF Space
<1>9. Spaces(x, {0}, kind, zero, zero)
  <2>1. \A g \in x.free : kind[g] = "free"
    BY <1>1
  <2>2. \A g \in Frame : kind[g] \in {"free", "loose"} => \A w \in Word : x.mem[g][w] = Garbage
    BY <1>4
  <2> QED
    BY <1>8, <2>1, <2>2 DEF Spaces
<1> HIDE DEF kind, zero
<1> QED
  BY <1>1, <1>7, <1>9

LEMMA SpacesInit == Init => SpacesInv
<1> SUFFICES ASSUME Init PROVE SpacesInv
  OBVIOUS
<1>1. Live = {} /\ Directories = {0}
  BY DEF Init, Live, Directories, NoProcess
<1>2. /\ Quiet(m) /\ m.cr3 = 0 /\ m.current_context = 0 /\ m.tlb = {}
      /\ \E kind, of, at : Spaces(m, {0}, kind, of, at)
  BY BootMemory DEF Init
<1>3. processes \in Vector(Procs) /\ NoProcess \in ProcessRecord
  <2>1. vector_init(ProcessSlots) \in Vector(Procs) /\ vector_init(0) \in Vector(Threads)
    BY VectorInit, ProcessAssumption
  <2> QED
    BY <2>1 DEF Init, NoProcess, ProcessRecord
<1>4. sch \in Sched
  BY DEF Init, BootSched, Sched, Pointer, ThreadState
<1>5. thread \in [Threads -> ThreadRecord] /\ loc \in [Threads -> Local]
  BY DEF Init, ThreadRecord, Descriptor, Local, NoLocals
<1>6. Types
  BY <1>2, <1>3, <1>4, <1>5 DEF Init, Types, Descriptor, Step
<1>7. Queued
  <2>1. <<>> \in Seq(Threads) /\ Len(<<>>) = 0
    OBVIOUS
  <2>2. IsRunQueue(sch, <<>>) /\ \A t \in Threads : ~InQueue(t, <<>>)
    BY <2>1 DEF Init, BootSched, IsRunQueue, InQueue
  <2> QED
    BY <2>1, <2>2 DEF Queued
<1>8. Callers
  BY <1>7 DEF Init, BootSched, Callers
<1>9. Identifiers
  BY <1>1 DEF Init, Identifiers
<1>10. AddressSpaces
  BY <1>1, <1>2 DEF Init, AddressSpaces, Uses, Contents
<1>11. Current
  BY <1>1, <1>2 DEF Init, BootSched, Current, TranslationCurrent
<1> QED
  BY <1>6, <1>8, <1>9, <1>10, <1>11 DEF SpacesInv, Named

LEMMA SpacesNext == SpacesInv /\ [Next]_vars => SpacesInv'
<1> SUFFICES ASSUME SpacesInv, [Next]_vars PROVE SpacesInv'
  OBVIOUS
<1>1. CASE \E p \in Procs, t \in Threads : process_create(p, t)
  BY <1>1, CreateStep
<1>2. CASE sys_clone \/ c_grow \/ \E t \in Threads : c_store(t)
  BY <1>2, FindStep, GrowStep, StoreStep
<1>3. CASE Switch
  BY <1>3, SwitchStep
<1>4. CASE process_exit
  BY <1>4, ExitStep
<1>5. CASE tls_set
  BY <1>5, TlsStep
<1>6. CASE \E v \in Touched : UserWrite(v)
  BY <1>6, WriteStep, ProcessAssumption
<1>7. CASE \E incr \in Incrs : sys_sbrk(incr)
  BY <1>7, SbrkStep
<1>8. CASE s_test \/ s_take
  BY <1>8, TestStep, TakeStep
<1>9. CASE s_map
  BY <1>9, MapStep
<1>10. CASE s_zero
  BY <1>10, ZeroStep
<1>11. CASE s_size
  BY <1>11, SizeStep
<1>12. CASE UNCHANGED vars
  <2>1. UNCHANGED <<m, sch, processes, proc, thread, gdt_tls, pc, loc, halted>>
    BY <1>12 DEF vars
  <2>2. Live' = Live /\ Directories' = Directories
    BY <2>1 DEF Live, Directories
  <2>3. Types' /\ Callers' /\ Named'
    BY <2>1, <2>2 DEF SpacesInv, Types, Callers, Queued, Named, Identifiers
  <2>4. AddressSpaces'
    <3>1. Uses' /\ Contents'
      BY <2>1, <2>2 DEF SpacesInv, AddressSpaces, Uses, Contents, Shows
    <3> QED
      BY <2>1, <2>2, <3>1 DEF SpacesInv, AddressSpaces
  <2>5. Current'
    BY <2>1, <2>2 DEF SpacesInv, Current, TranslationCurrent, CurrentProc
  <2> QED
    BY <2>3, <2>4, <2>5 DEF SpacesInv
<1> QED
  BY <1>1, <1>2, <1>3, <1>4, <1>5, <1>6, <1>7, <1>8, <1>9, <1>10, <1>11, <1>12 DEF Next

LEMMA SpacesAlways == Spec => []SpacesInv
  BY SpacesInit, SpacesNext, PTL DEF Spec

-----------------------------------------------------------------------------

\* Whatever steps the threads of a process interleave inside clone and sbrk, the
\* thread that runs has the context of its process and its own thread local storage,
\* and no stale translation is cached (arch_switch_context,
\* paging_activate_context, invlpg).
THEOREM TranslationCurrentHolds == Spec => []TranslationCurrent
<1>1. SpacesInv => TranslationCurrent
  BY DEF SpacesInv, Current
<1> QED
  BY <1>1, SpacesAlways, PTL

\* Every handler gives back the pages of the kernel mapping area that it used
\* (paging_unmap_kernel).
THEOREM WindowReleasedHolds == Spec => []WindowReleased
<1>1. SpacesInv => WindowReleased
  <2> SUFFICES ASSUME SpacesInv, NEW i \in DOMAIN m.window PROVE m.window[i] = Nil
    BY DEF WindowReleased
  <2>1. Quiet(m) /\ i \in 0..(WindowSize - 1)
    BY DEF SpacesInv, Types, Quiet, Memory
  <2> QED
    BY <2>1 DEF Quiet
<1> QED
  BY <1>1, SpacesAlways, PTL

-----------------------------------------------------------------------------
(* Every step preserves HeapOK.                                               *)

\* Whole pages: a heap of k pages grows by one.
LEMMA Quotient ==
  ASSUME NEW P \in Nat \ {0}, NEW k \in Nat, NEW a, a = P * k
  PROVE  a \in Nat /\ a \div P = k /\ a + P = P * (k + 1)
<1>1. a \in Nat /\ a + P = P * (k + 1)
  OBVIOUS
<1> DEFINE q == a \div P
           r == a % P
<1>2. q \in Nat /\ r \in 0..(P - 1) /\ a = P * q + r
  BY <1>1
<1> HIDE DEF q, r
<1>3. CASE q > k
  <2>1. P * q >= P * (k + 1)
    BY <1>2, <1>3
  <2> QED
    BY <1>1, <1>2, <2>1
<1>4. CASE q < k
  <2>1. P * k >= P * (q + 1)
    BY <1>2, <1>4
  <2> QED
    BY <1>1, <1>2, <2>1
<1>5. CASE q = k
  BY <1>1, <1>5 DEF q
<1> QED
  BY <1>2, <1>3, <1>4, <1>5

\* The numbers of a heap.
LEMMA HeapNumbers ==
  ASSUME SpacesInv, NEW p \in Procs
  PROVE  /\ proc[p].size \in Nat /\ proc[p].used \in Int
         /\ PAGE_SIZE \in Nat \ {0} /\ HeapStart \in Nat /\ StackPage \in Nat
         /\ proc[p].size \div PAGE_SIZE \in Nat
         /\ HeapPages(p) \subseteq Nat
<1>1. proc[p].size \in Nat /\ proc[p].used \in Int
  BY DEF SpacesInv, Types, ProcessRecord
<1>2. PAGE_SIZE \in Nat \ {0} /\ HeapStart \in Nat /\ StackPage \in Nat
  BY ProcessAssumption, PageNumbers
<1>3. proc[p].size \div PAGE_SIZE \in Nat
  BY <1>1, <1>2
<1> QED
  BY <1>1, <1>2, <1>3 DEF HeapPages

\* The pages of a heap are pages of the user.
LEMMA HeapPagesUser ==
  ASSUME SpacesInv, NEW p \in Procs, HeapStart + proc[p].size \div PAGE_SIZE <= StackPage,
         NEW v \in HeapPages(p)
  PROVE  v \in UserPages
<1>1. /\ proc[p].size \div PAGE_SIZE \in Nat /\ HeapStart \in Nat /\ StackPage \in Nat
  BY HeapNumbers
<1>2. v \in Nat /\ v <= StackPage
  BY <1>1 DEF HeapPages
<1> QED
  BY <1>2, PageNumbers

\* A heap whose size stays, while its pages stay as they are.
LEMMA HeapShapeKept ==
  ASSUME SpacesInv, NEW p \in Live, HeapShape(p),
         proc'[p].size = proc[p].size, proc'[p].used = proc[p].used,
         \A v \in HeapPages(p) : PageKept(p, v),
         \A t \in Threads : thread[t].process = p /\ pc[t] \in Looping
                              => thread'[t].process = p /\ pc'[t] \in Looping
  PROVE  HeapShape(p)'
<1>1. HeapPages(p)' = HeapPages(p) /\ Slack(p)' = Slack(p)
  BY DEF HeapPages, Slack
<1>2. \A v \in HeapPages(p) : Backed(p, v)'
  BY DEF HeapShape, PageKept
<1>3. (\A t \in Threads : thread'[t].process = p => pc'[t] \notin Looping) => Slack(p)' < PAGE_SIZE
  BY <1>1 DEF HeapShape
<1> QED
  BY <1>1, <1>2, <1>3 DEF HeapShape

LEMMA NoPages ==
  ASSUME NEW P \in Nat \ {0}
  PROVE  0 \div P = 0 /\ 0 = P * 0
<1>1. PICK k \in Nat : k = 0
  OBVIOUS
<1>2. PICK a : a = P * k
  OBVIOUS
<1>3. a \div P = k
  BY <1>2, Quotient
<1>4. a = 0
  BY <1>1, <1>2
<1> QED
  BY <1>1, <1>2, <1>3, <1>4

\* A thread inside sbrk that does not run, while its process stays as it is.
LEMMA InLoopKept ==
  ASSUME SpacesInv, NEW t \in Threads, InLoop(t), pc[t] \in Looping,
         pc'[t] = pc[t], loc'[t] = loc[t], thread'[t].process = thread[t].process,
         proc'[thread[t].process].size = proc[thread[t].process].size,
         proc'[thread[t].process].used = proc[thread[t].process].used,
         loc[t].virt \in UserPages => PageKept(thread[t].process, loc[t].virt)
  PROVE  InLoop(t)'
<1> DEFINE p == thread[t].process
           v == loc[t].virt
<1>1. p' = p /\ v' = v /\ Request(t)' = Request(t)
  BY DEF Request
<1> PICK c : c = p
  OBVIOUS
<1> PICK w : w = v
  OBVIOUS
<1>2. Slack(c)' = Slack(c)
  BY DEF Slack
<1>3. pc[t] \in {"zero", "size"} => w \in UserPages
  BY DEF SpacesInv, AddressSpaces
<1>4. w \in UserPages => PageKept(c, w)
  OBVIOUS
<1>5. pc[t] \in {"zero", "size"} => w < StackPage /\ Shows(c, w)' # Nil
  BY <1>3, <1>4 DEF InLoop, PageKept
<1>6. pc[t] = "size" => Backed(c, w)'
  BY <1>3, <1>4 DEF InLoop, PageKept
<1>7. /\ loc[t].incr \in Incrs
      /\ Slack(c)' < PAGE_SIZE + Request(t)'
      /\ pc[t] \in {"take", "map", "zero", "size"} =>
           /\ w = HeapStart + proc'[c].size \div PAGE_SIZE
           /\ Request(t)' > Slack(c)'
  BY <1>1, <1>2 DEF InLoop
<1> QED
  BY <1>1, <1>5, <1>6, <1>7 DEF InLoop

\* Steps outside of process_sbrk.
LEMMA HeapStay ==
  ASSUME SpacesInv, HeapOK, SpacesInv', LoopsKept, halted' # "overrun",
         \A p \in Live : \A u \in UserPages : PageKept(p, u),
         \A p \in Live : /\ p \in Live' /\ proc'[p].size = proc[p].size
                         /\ proc'[p].used = proc[p].used,
         \A p \in Live' \ Live : proc'[p].size = 0 /\ proc'[p].used = 0,
         \A t \in Threads : sch.state[t] # "FREE" => thread'[t].process = thread[t].process
  PROVE  HeapOK'
<1>1. \A t \in Threads : pc[t] \in Looping \/ pc'[t] \in Looping =>
        /\ pc'[t] = pc[t] /\ loc'[t] = loc[t]
        /\ thread'[t].process = thread[t].process /\ thread[t].process \in Live
  BY DEF SpacesInv, Callers, LoopsKept, Looping
<1>2. ASSUME NEW p \in Live' PROVE HeapShape(p)'
  <2>1. CASE p \in Live
    <3>1. p \in Procs /\ HeapShape(p)
      BY <2>1 DEF Live, HeapOK
    <3>2. \A v \in HeapPages(p) : PageKept(p, v)
      BY <2>1, <3>1, HeapPagesUser DEF HeapShape
    <3>3. \A t \in Threads : thread[t].process = p /\ pc[t] \in Looping
                               => thread'[t].process = p /\ pc'[t] \in Looping
      BY <1>1
    <3> QED
      BY <2>1, <3>1, <3>2, <3>3, HeapShapeKept
  <2>2. CASE p \notin Live
    <3>1. proc'[p].size = 0 /\ proc'[p].used = 0
      BY <2>2
    <3>2. /\ PAGE_SIZE \in Nat \ {0} /\ HeapStart \in Nat /\ StackPage \in Nat
          /\ HeapStart <= StackPage
      BY ProcessAssumption, PageNumbers
    <3>3. 0 \div PAGE_SIZE = 0 /\ 0 = PAGE_SIZE * 0
      BY <3>2, NoPages
    <3>4. HeapPages(p)' = {}
      BY <3>1, <3>2, <3>3 DEF HeapPages
    <3> QED
      BY <3>1, <3>2, <3>3, <3>4 DEF HeapShape, Slack
  <2> QED
    BY <2>1, <2>2
<1>3. ASSUME NEW t \in Threads, pc'[t] \in Looping PROVE InLoop(t)'
  <2>1. InLoop(t) /\ pc[t] \in Looping /\ thread[t].process \in Live
    BY <1>1, <1>3 DEF HeapOK
  <2>2. /\ pc'[t] = pc[t] /\ loc'[t] = loc[t] /\ thread'[t].process = thread[t].process
        /\ proc'[thread[t].process].size = proc[thread[t].process].size
        /\ proc'[thread[t].process].used = proc[thread[t].process].used
        /\ (loc[t].virt \in UserPages => PageKept(thread[t].process, loc[t].virt))
    BY <1>1, <2>1
  <2> QED
    BY <2>1, <2>2, InLoopKept
<1>4. \A t, u \in Threads :
        pc'[t] \in Looping /\ pc'[u] \in Looping /\ thread'[t].process = thread'[u].process => t = u
  BY <1>1 DEF HeapOK
<1>5. OverrunExplained'
  BY DEF OverrunExplained
<1> QED
  BY <1>2, <1>3, <1>4, <1>5 DEF HeapOK

\* Steps of process_sbrk, taken by thread t for process c.
LEMMA HeapSbrk ==
  ASSUME SpacesInv, HeapOK, NEW t \in Threads, t = sch.current,
         NEW c \in Live, c = thread[t].process,
         Live' = Live, thread' = thread,
         \A u \in Threads : u # t => pc'[u] = pc[u] /\ loc'[u] = loc[u],
         \A u \in Threads : u # t /\ thread[u].process = c => pc[u] \notin Looping,
         \A p \in Live : p # c => /\ proc'[p].size = proc[p].size
                                  /\ proc'[p].used = proc[p].used
                                  /\ \A u \in UserPages : PageKept(p, u),
         HeapShape(c)', pc'[t] \in Looping => InLoop(t)', OverrunExplained'
  PROVE  HeapOK'
<1>1. ASSUME NEW p \in Live' PROVE HeapShape(p)'
  <2>1. CASE p = c
    BY <2>1
  <2>2. CASE p # c
    <3>1. p \in Live /\ p \in Procs /\ HeapShape(p)
      BY DEF Live, HeapOK
    <3>2. \A v \in HeapPages(p) : PageKept(p, v)
      BY <2>2, <3>1, HeapPagesUser DEF HeapShape
    <3>3. \A u \in Threads : thread[u].process = p /\ pc[u] \in Looping
                               => thread'[u].process = p /\ pc'[u] \in Looping
      BY <2>2
    <3> QED
      BY <2>2, <3>1, <3>2, <3>3, HeapShapeKept
  <2> QED
    BY <2>1, <2>2
<1>2. ASSUME NEW u \in Threads, pc'[u] \in Looping PROVE InLoop(u)'
  <2>1. CASE u = t
    BY <1>2, <2>1
  <2>2. CASE u # t
    <3>1. /\ pc'[u] = pc[u] /\ loc'[u] = loc[u] /\ thread'[u].process = thread[u].process
          /\ InLoop(u) /\ thread[u].process # c /\ thread[u].process \in Live
      BY <1>2, <2>2 DEF HeapOK, SpacesInv, Callers, Looping
    <3>2. /\ proc'[thread[u].process].size = proc[thread[u].process].size
          /\ proc'[thread[u].process].used = proc[thread[u].process].used
          /\ (loc[u].virt \in UserPages => PageKept(thread[u].process, loc[u].virt))
      BY <3>1
    <3> QED
      BY <1>2, <3>1, <3>2, InLoopKept
  <2> QED
    BY <2>1, <2>2
<1>3. \A u, w \in Threads :
        pc'[u] \in Looping /\ pc'[w] \in Looping /\ thread'[u].process = thread'[w].process => u = w
  BY DEF HeapOK
<1> QED
  BY <1>1, <1>2, <1>3 DEF HeapOK

\* The unsigned number that process_sbrk compares: a negative argument is a
\* large one.
LEMMA Unsigned ==
  ASSUME NEW M \in Nat \ {0}, NEW a \in Int, a >= -(M \div 2), a < M \div 2
  PROVE  a % M = IF a >= 0 THEN a ELSE a + M
<1> DEFINE q == a \div M
           r == a % M
<1>1. q \in Int /\ r \in 0..(M - 1) /\ a = M * q + r
  OBVIOUS
<1>2. M \div 2 \in Nat /\ 2 * (M \div 2) <= M
  OBVIOUS
<1> HIDE DEF q, r
<1>3. -M < a /\ a < M
  BY <1>2
<1>4. CASE q >= 1
  <2>1. PICK j \in Nat : q = j + 1
    <3>1. q - 1 \in Nat /\ q = (q - 1) + 1
      BY <1>1, <1>4
    <3> QED
      BY <3>1
  <2>2. M * q = M * j + M /\ M * j \in Nat
    BY <2>1
  <2> QED
    BY <1>1, <1>3, <2>2
<1>5. CASE q <= -2
  <2>1. PICK j \in Nat : q = -(j + 2)
    <3>1. -q - 2 \in Nat /\ q = -((-q - 2) + 2)
      BY <1>1, <1>5
    <3> QED
      BY <3>1
  <2>2. M * q = -(M * j) - 2 * M /\ M * j \in Nat
    BY <2>1
  <2> QED
    BY <1>1, <1>3, <2>2
<1>6. CASE q = 0
  <2>1. M * q = 0
    BY <1>6
  <2> QED
    BY <1>1, <2>1 DEF r
<1>7. CASE q = -1
  <2>1. M * q = -M
    BY <1>7
  <2> QED
    BY <1>1, <2>1 DEF r
<1> QED
  BY <1>1, <1>4, <1>5, <1>6, <1>7

\* Arguments of sbrk.
LEMMA Requests ==
  ASSUME NEW incr \in Incrs
  PROVE  /\ incr \in Int /\ incr % Modulus \in Nat
         /\ incr >= 0 => incr % Modulus = incr
         /\ incr < 0 => incr % Modulus >= Modulus \div 2
<1>1. /\ Modulus \in Nat \ {0} /\ incr \in Int /\ incr >= -(Modulus \div 2)
      /\ incr < Modulus \div 2
  <2>1. Modulus \in Nat \ {0} /\ Modulus \div 2 \in Nat
    BY ProcessAssumption
  <2>2. incr \in (-(Modulus \div 2))..(Modulus \div 2 - 1)
    BY ProcessAssumption
  <2> QED
    BY <2>1, <2>2
<1>2. incr % Modulus = IF incr >= 0 THEN incr ELSE incr + Modulus
  BY <1>1, Unsigned
<1>3. Modulus \div 2 \in Nat /\ 2 * (Modulus \div 2) <= Modulus
  BY <1>1
<1> QED
  BY <1>1, <1>2, <1>3

\* A request that the heap has room for is not negative.
LEMMA RequestFits ==
  ASSUME SpacesInv, NEW p \in Procs, HeapShape(p), NEW incr \in Incrs,
         incr % Modulus <= Slack(p)
  PROVE  incr >= 0 /\ incr <= Slack(p)
<1> DEFINE k == proc[p].size \div PAGE_SIZE
           d == StackPage - HeapStart
           half == Modulus \div 2
<1>1. /\ proc[p].size \in Nat /\ proc[p].used \in Nat /\ PAGE_SIZE \in Nat \ {0}
      /\ HeapStart \in Nat /\ StackPage \in Nat /\ k \in Nat
  BY HeapNumbers DEF HeapShape
<1>2. proc[p].size = PAGE_SIZE * k /\ HeapStart + k <= StackPage
  BY DEF HeapShape
<1>3. half \in Int /\ d * PAGE_SIZE < half
  BY ProcessAssumption
<1>4. /\ incr \in Int /\ incr % Modulus \in Nat
      /\ incr >= 0 => incr % Modulus = incr
      /\ incr < 0 => incr % Modulus >= half
  BY Requests
<1> HIDE DEF k, half
<1>5. d \in Nat /\ k <= d
  BY <1>1, <1>2
<1> HIDE DEF d
<1>6. PAGE_SIZE * k <= d * PAGE_SIZE
  BY <1>1, <1>5
<1>7. Slack(p) < half /\ Slack(p) \in Int
  <2>1. Slack(p) = proc[p].size - proc[p].used
    BY DEF Slack
  <2>2. d * PAGE_SIZE \in Int /\ PAGE_SIZE * k \in Int
    BY <1>1, <1>5
  <2> QED
    BY <1>1, <1>2, <1>3, <1>6, <2>1, <2>2
<1>8. ~(incr < 0)
  BY <1>3, <1>4, <1>7
<1> QED
  BY <1>4, <1>8

\* What is known of the thread that takes a step of process_sbrk.
LEMMA InHeap ==
  ASSUME SpacesInv, HeapOK, ~SharedHeap, sch.current # NULL,
         NEW t, t = sch.current, NEW c, c = CurrentProc
  PROVE  /\ t \in Threads /\ c \in Live /\ c \in Procs /\ c = thread[t].process
         /\ HeapShape(c)
         /\ pc[t] \in Looping => InLoop(t)
         /\ pc[t] \in Looping => \A u \in Threads : u # t /\ thread[u].process = c => pc[u] \notin Looping
<1>1. t \in Threads /\ c \in Live /\ c \in Procs /\ c = thread[t].process
  BY Running DEF CurrentProc
<1> QED
  BY <1>1 DEF HeapOK

LEMMA HeapSbrkStep ==
  ASSUME SpacesInv, HeapOK, ~SharedHeap, NEW incr \in Incrs, sys_sbrk(incr)
  PROVE  HeapOK'
<1>1. PICK t : t = sch.current
  OBVIOUS
<1>2. PICK c : c = CurrentProc
  OBVIOUS
<1>3. /\ sch.current # NULL /\ pc[t] = "user" /\ pc' = [pc EXCEPT ![t] = "test"] /\ halted = "no"
      /\ loc' = [loc EXCEPT ![t] = [NoLocals EXCEPT !.incr = incr]]
      /\ \A u \in Threads : thread[u].process = c => pc[u] \notin Looping
      /\ UNCHANGED <<m, sch, processes, proc, thread, gdt_tls, halted>>
  BY <1>1, <1>2 DEF sys_sbrk, InCall, Go
<1>4. /\ t \in Threads /\ c \in Live /\ c \in Procs /\ c = thread[t].process /\ HeapShape(c)
  BY <1>1, <1>2, <1>3, InHeap DEF Looping
<1>5. Live' = Live /\ \A p \in Live : \A u \in UserPages : PageKept(p, u)
  BY SbrkStep
<1>6. pc \in [Threads -> Step] /\ loc \in [Threads -> Local]
  BY DEF SpacesInv, Types
<1>7. pc'[t] = "test" /\ loc'[t].incr = incr /\ Request(t)' = incr % Modulus
      /\ \A u \in Threads : u # t => pc'[u] = pc[u] /\ loc'[u] = loc[u]
  BY <1>3, <1>4, <1>6 DEF NoLocals, Request
<1>8. HeapShape(c)'
  <2>1. \A v \in HeapPages(c) : PageKept(c, v)
    BY <1>4, <1>5, HeapPagesUser DEF HeapShape
  <2>2. \A u \in Threads : thread[u].process = c /\ pc[u] \in Looping
                             => thread'[u].process = c /\ pc'[u] \in Looping
    BY <1>3, <1>4
  <2> QED
    BY <1>3, <1>4, <2>1, <2>2, HeapShapeKept
<1>9. InLoop(t)'
  <2>1. Slack(c)' = Slack(c) /\ thread'[t].process = c
    BY <1>3, <1>4 DEF Slack
  <2>2. Slack(c) < PAGE_SIZE /\ Slack(c) \in Int /\ PAGE_SIZE \in Nat
    BY <1>3, <1>4, HeapNumbers DEF HeapShape, Slack
  <2>3. Slack(c)' < PAGE_SIZE + Request(t)'
    BY <1>7, <2>1, <2>2, Requests
  <2> QED
    BY <1>7, <2>1, <2>3 DEF InLoop
<1>10. OverrunExplained'
  BY <1>3 DEF OverrunExplained
<1> QED
  BY <1>1, <1>3, <1>4, <1>5, <1>7, <1>8, <1>9, <1>10, HeapSbrk

LEMMA HeapTestStep ==
  ASSUME SpacesInv, HeapOK, ~SharedHeap, s_test
  PROVE  HeapOK'
<1>1. PICK t : t = sch.current
  OBVIOUS
<1>2. PICK c : c = CurrentProc
  OBVIOUS
<1>3. t # NULL /\ pc[t] = "test" /\ halted = "no"
  BY <1>1 DEF s_test, InCall
<1>4. /\ t \in Threads /\ c \in Live /\ c \in Procs /\ c = thread[t].process
      /\ HeapShape(c) /\ InLoop(t)
      /\ \A u \in Threads : u # t /\ thread[u].process = c => pc[u] \notin Looping
  BY <1>1, <1>2, <1>3, InHeap DEF Looping
<1>5. SpacesInv' /\ Live' = Live /\ \A p \in Live : \A u \in UserPages : PageKept(p, u)
  BY TestStep
<1>6. /\ pc \in [Threads -> Step] /\ loc \in [Threads -> Local]
      /\ proc \in [Procs -> ProcessRecord]
  BY DEF SpacesInv, Types
<1>7. NeedsPage(loc[t].incr) <=> Request(t) > Slack(c)
  BY <1>2 DEF NeedsPage, Request, Slack, Heap
<1>8. \A v \in HeapPages(c) : PageKept(c, v)
  BY <1>4, <1>5, HeapPagesUser DEF HeapShape
<1>9. CASE ~NeedsPage(loc[t].incr)
  <2>1. /\ proc' = [proc EXCEPT ![c].used = @ + loc[t].incr]
        /\ pc' = [pc EXCEPT ![t] = "user"]
        /\ loc' = [loc EXCEPT ![t] = NoLocals]
        /\ UNCHANGED <<m, sch, processes, thread, gdt_tls, halted>>
    BY <1>1, <1>2, <1>9 DEF s_test, Go
  <2>2. /\ \A u \in Threads : u # t => pc'[u] = pc[u] /\ loc'[u] = loc[u]
        /\ pc'[t] \notin Looping
    BY <1>4, <1>6, <2>1 DEF Looping
  <2>3. /\ \A p \in Procs : p # c => proc'[p] = proc[p]
        /\ proc'[c].used = proc[c].used + loc[t].incr /\ proc'[c].size = proc[c].size
    BY <1>4, <1>6, <2>1 DEF ProcessRecord
  <2>4. /\ proc[c].size \in Nat /\ proc[c].used \in Int /\ PAGE_SIZE \in Nat \ {0}
    BY <1>4, HeapNumbers
  <2>5. /\ loc[t].incr \in Incrs /\ loc[t].incr \in Int
        /\ Slack(c) < PAGE_SIZE + Request(t) /\ Request(t) = loc[t].incr % Modulus
    BY <1>4, Requests DEF InLoop, Request
  <2>6. loc[t].incr >= 0 /\ loc[t].incr <= Slack(c) /\ loc[t].incr % Modulus = loc[t].incr
    <3>1. loc[t].incr % Modulus \in Nat /\ Slack(c) \in Int
      BY <2>4, <2>5, Requests DEF Slack
    <3>2. loc[t].incr % Modulus <= Slack(c)
      BY <1>7, <1>9, <2>5, <3>1
    <3>3. loc[t].incr >= 0 /\ loc[t].incr <= Slack(c)
      BY <1>4, <2>5, <3>2, RequestFits
    <3> QED
      BY <2>5, <3>3, Requests
  <2>7. HeapShape(c)'
    <3>1. HeapPages(c)' = HeapPages(c) /\ \A v \in HeapPages(c) : Backed(c, v)'
      BY <1>4, <1>8, <2>3 DEF HeapPages, HeapShape, PageKept
    <3>2. /\ proc'[c].used \in Nat /\ proc'[c].used <= proc'[c].size
          /\ Slack(c)' < PAGE_SIZE
      BY <1>4, <2>3, <2>4, <2>5, <2>6 DEF HeapShape, Slack
    <3>3. proc'[c].size = PAGE_SIZE * (proc'[c].size \div PAGE_SIZE)
          /\ HeapStart + proc'[c].size \div PAGE_SIZE <= StackPage
      BY <1>4, <2>3 DEF HeapShape
    <3> QED
      BY <3>1, <3>2, <3>3 DEF HeapShape
  <2>8. OverrunExplained'
    BY <1>3, <2>1 DEF OverrunExplained
  <2>9. \A p \in Live : p # c => /\ proc'[p].size = proc[p].size
                                 /\ proc'[p].used = proc[p].used
                                 /\ \A u \in UserPages : PageKept(p, u)
    BY <1>5, <2>3 DEF Live
  <2> QED
    BY <1>1, <1>4, <1>5, <2>1, <2>2, <2>7, <2>8, <2>9, HeapSbrk
<1>10. CASE NeedsPage(loc[t].incr) /\ ~Suffices(1, 0)
  <2>1. panic
    BY <1>1, <1>10 DEF s_test
  <2>2. LoopsKept /\ halted' # "overrun" /\ proc' = proc /\ thread' = thread
    BY <2>1 DEF panic, LoopsKept
  <2> QED
    BY <1>5, <2>2, HeapStay
<1>11. CASE NeedsPage(loc[t].incr) /\ Suffices(1, 0)
  <2> DEFINE virt == HeapStart + proc[c].size \div PAGE_SIZE
  <2>1. /\ pc' = [pc EXCEPT ![t] = "take"]
        /\ loc' = [loc EXCEPT ![t].virt = virt, ![t].phys = NextFrame(m)]
        /\ UNCHANGED <<m, sch, processes, proc, thread, gdt_tls, halted>>
    BY <1>1, <1>2, <1>11 DEF s_test, Go, Heap
  <2> HIDE DEF virt
  <2>2. /\ \A u \in Threads : u # t => pc'[u] = pc[u] /\ loc'[u] = loc[u]
        /\ pc'[t] = "take" /\ loc'[t].virt = virt /\ loc'[t].incr = loc[t].incr
    BY <1>4, <1>6, <2>1 DEF Local
  <2>3. HeapShape(c)'
    <3>1. \A u \in Threads : thread[u].process = c /\ pc[u] \in Looping
                               => thread'[u].process = c /\ pc'[u] \in Looping
      BY <2>1, <2>2 DEF Looping
    <3> QED
      BY <1>4, <1>8, <2>1, <3>1, HeapShapeKept
  <2>4. InLoop(t)'
    <3>1. Slack(c)' = Slack(c) /\ Request(t)' = Request(t) /\ thread'[t].process = c
      BY <1>4, <2>1, <2>2 DEF Slack, Request
    <3>2. loc'[t].virt = HeapStart + proc'[c].size \div PAGE_SIZE
      BY <2>1, <2>2 DEF virt
    <3> QED
      BY <1>4, <1>7, <1>11, <2>2, <3>1, <3>2 DEF InLoop
  <2>5. OverrunExplained'
    BY <1>3, <2>1 DEF OverrunExplained
  <2>6. \A p \in Live : p # c => /\ proc'[p].size = proc[p].size
                                 /\ proc'[p].used = proc[p].used
                                 /\ \A u \in UserPages : PageKept(p, u)
    BY <1>5, <2>1
  <2>7. thread' = thread /\ Live' = Live
    BY <1>5, <2>1
  <2> QED
    BY <1>1, <1>4, <2>2, <2>3, <2>4, <2>5, <2>6, <2>7, HeapSbrk
<1> QED
  BY <1>9, <1>10, <1>11

LEMMA HeapTakeStep ==
  ASSUME SpacesInv, HeapOK, ~SharedHeap, s_take
  PROVE  HeapOK'
<1>1. PICK t : t = sch.current
  OBVIOUS
<1>2. PICK c : c = CurrentProc
  OBVIOUS
<1>3. /\ t # NULL /\ pc[t] = "take" /\ halted = "no" /\ halted' \in {"no", "raced"}
      /\ UNCHANGED <<sch, processes, proc, thread, gdt_tls, loc>>
      /\ pc' = [pc EXCEPT ![t] = "map"] \/ UNCHANGED pc
  BY <1>1 DEF s_take, InCall, Go
<1>4. /\ t \in Threads /\ c \in Live /\ c \in Procs /\ c = thread[t].process
      /\ HeapShape(c) /\ InLoop(t)
      /\ \A u \in Threads : u # t /\ thread[u].process = c => pc[u] \notin Looping
  BY <1>1, <1>2, <1>3, InHeap DEF Looping
<1>5. Live' = Live /\ \A p \in Live : \A u \in UserPages : PageKept(p, u)
  BY TakeStep
<1>6. pc'[t] \in {"take", "map"} /\ \A u \in Threads : u # t => pc'[u] = pc[u] /\ loc'[u] = loc[u]
  <2>1. pc \in [Threads -> Step]
    BY DEF SpacesInv, Types
  <2> QED
    BY <1>3, <1>4, <2>1
<1>7. HeapShape(c)'
  <2>1. \A u \in HeapPages(c) : PageKept(c, u)
    BY <1>4, <1>5, HeapPagesUser DEF HeapShape
  <2>2. \A u \in Threads : thread[u].process = c /\ pc[u] \in Looping
                             => thread'[u].process = c /\ pc'[u] \in Looping
    BY <1>3, <1>6 DEF Looping
  <2>3. proc'[c].size = proc[c].size /\ proc'[c].used = proc[c].used
    BY <1>3
  <2> QED
    BY <1>4, <2>1, <2>2, <2>3, HeapShapeKept
<1>8. InLoop(t)'
  <2>1. /\ Slack(c)' = Slack(c) /\ Request(t)' = Request(t) /\ thread'[t].process = c
        /\ loc'[t] = loc[t] /\ proc'[c].size = proc[c].size
    BY <1>3, <1>4 DEF Slack, Request
  <2> QED
    BY <1>3, <1>4, <1>6, <2>1 DEF InLoop
<1>9. OverrunExplained'
  BY <1>3 DEF OverrunExplained
<1>10. \A p \in Live : p # c => /\ proc'[p].size = proc[p].size
                                /\ proc'[p].used = proc[p].used
                                /\ \A u \in UserPages : PageKept(p, u)
  BY <1>3, <1>5
<1>11. thread' = thread
  BY <1>3
<1> QED
  BY <1>1, <1>4, <1>5, <1>6, <1>7, <1>8, <1>9, <1>10, <1>11, HeapSbrk

LEMMA HeapMapStep ==
  ASSUME SpacesInv, HeapOK, ~SharedHeap, s_map
  PROVE  HeapOK'
<1>1. PICK t : t = sch.current
  OBVIOUS
<1>2. PICK c : c = CurrentProc
  OBVIOUS
<1>3. /\ t # NULL /\ pc[t] = "map" /\ halted = "no"
      /\ UNCHANGED <<sch, processes, proc, thread, gdt_tls, loc>>
  BY <1>1 DEF s_map, InCall
<1>4. /\ t \in Threads /\ c \in Live /\ c \in Procs /\ c = thread[t].process
      /\ HeapShape(c) /\ InLoop(t)
      /\ \A u \in Threads : u # t /\ thread[u].process = c => pc[u] \notin Looping
  BY <1>1, <1>2, <1>3, InHeap DEF Looping
<1>5. PICK v : v = loc[t].virt
  OBVIOUS
<1>6. /\ Live' = Live
      /\ \A p \in Live : \A u \in UserPages : p # c \/ u # v => PageKept(p, u)
      /\ pc'[t] = "zero" => Shows(c, v)' # Nil
  BY <1>1, <1>2, <1>3, <1>5, MapStep
<1>7. /\ pc \in [Threads -> Step] /\ v \in Nat
  BY <1>4, <1>5 DEF SpacesInv, Types, Local
<1>8. /\ v = HeapStart + proc[c].size \div PAGE_SIZE /\ Request(t) > Slack(c)
      /\ loc[t].incr \in Incrs /\ Slack(c) < PAGE_SIZE + Request(t)
  BY <1>3, <1>4, <1>5 DEF InLoop
<1>9. /\ proc[c].size \in Nat /\ proc[c].used \in Int /\ PAGE_SIZE \in Nat \ {0}
      /\ HeapStart \in Nat /\ StackPage \in Nat /\ proc[c].size \div PAGE_SIZE \in Nat
  BY <1>4, HeapNumbers
<1>10. \A u \in HeapPages(c) : PageKept(c, u)
  <2> TAKE u \in HeapPages(c)
  <2>1. u \in UserPages
    BY <1>4, HeapPagesUser DEF HeapShape
  <2>2. u # v
    BY <1>8, <1>9 DEF HeapPages
  <2> QED
    BY <1>4, <1>6, <2>1, <2>2
<1>11. \A u \in Threads : u # t => pc'[u] = pc[u]
  <2>1. pc' = pc \/ pc' = [pc EXCEPT ![t] = "zero"]
    BY <1>1 DEF s_map, Go
  <2> QED
    BY <1>7, <2>1
<1>12. pc'[t] \in Looping
  <2>1. pc' = pc \/ pc' = [pc EXCEPT ![t] = "zero"]
    BY <1>1 DEF s_map, Go
  <2> QED
    BY <1>3, <1>4, <1>7, <2>1 DEF Looping
<1>13. HeapShape(c)'
  <2>1. \A u \in Threads : thread[u].process = c /\ pc[u] \in Looping
                             => thread'[u].process = c /\ pc'[u] \in Looping
    BY <1>3, <1>11, <1>12
  <2>2. proc'[c].size = proc[c].size /\ proc'[c].used = proc[c].used
    BY <1>3
  <2> QED
    BY <1>4, <1>10, <2>1, <2>2, HeapShapeKept
<1>14. InLoop(t)'
  <2>1. pc'[t] = "map" \/ (pc'[t] = "zero" /\ v < StackPage)
    <3>1. CASE v >= StackPage
      BY <1>1, <1>3, <1>5, <3>1 DEF s_map
    <3>2. CASE ~(v >= StackPage)
      <4>1. pc' = pc \/ pc' = [pc EXCEPT ![t] = "zero"]
        BY <1>1 DEF s_map, Go
      <4> QED
        BY <1>3, <1>4, <1>7, <1>9, <3>2, <4>1
    <3> QED
      BY <3>1, <3>2
  <2>2. /\ Slack(c)' = Slack(c) /\ Request(t)' = Request(t) /\ thread'[t].process = c
        /\ loc'[t].virt = v /\ loc'[t].incr = loc[t].incr /\ proc'[c].size = proc[c].size
    BY <1>3, <1>4, <1>5 DEF Slack, Request
  <2> QED
    BY <1>6, <1>8, <2>1, <2>2 DEF InLoop
<1>15. OverrunExplained'
  <2> SUFFICES ASSUME halted' = "overrun", loc[t].incr >= 0
               PROVE  proc[c].used + loc[t].incr > (StackPage - HeapStart) * PAGE_SIZE
    <3>1. loc[t].incr \in Int
      BY <1>8, Requests
    <3>2. loc[t].incr >= 0 \/ loc[t].incr < 0
      BY <3>1
    <3>3. loc'[sch'.current] = loc[t] /\ Heap' = proc[c]
      BY <1>1, <1>2, <1>3 DEF Heap, CurrentProc
    <3> QED
      BY <3>2, <3>3 DEF OverrunExplained
  <2>1. v >= StackPage
    BY <1>1, <1>3, <1>5 DEF s_map
  <2> DEFINE k == proc[c].size \div PAGE_SIZE
             d == StackPage - HeapStart
  <2>2. proc[c].size = PAGE_SIZE * k /\ HeapStart + k <= StackPage
    BY <1>4 DEF HeapShape
  <2>3. k = d
    BY <1>8, <1>9, <2>1, <2>2
  <2>4. Request(t) = loc[t].incr /\ loc[t].incr \in Int
    BY <1>8, Requests DEF Request
  <2>5. loc[t].incr > proc[c].size - proc[c].used
    BY <1>8, <2>4 DEF Slack
  <2> HIDE DEF k, d
  <2>6. PAGE_SIZE * k = d * PAGE_SIZE /\ d * PAGE_SIZE \in Int
    BY <1>9, <2>3 DEF k
  <2>7. proc[c].used + loc[t].incr > d * PAGE_SIZE
    BY <1>9, <2>2, <2>4, <2>5, <2>6
  <2> QED
    BY <2>7 DEF d
<1>16. \A p \in Live : p # c => /\ proc'[p].size = proc[p].size
                                /\ proc'[p].used = proc[p].used
                                /\ \A u \in UserPages : PageKept(p, u)
  BY <1>3, <1>6
<1>17. thread' = thread /\ \A u \in Threads : u # t => pc'[u] = pc[u] /\ loc'[u] = loc[u]
  BY <1>3, <1>11
<1> QED
  BY <1>1, <1>4, <1>6, <1>13, <1>14, <1>15, <1>16, <1>17, HeapSbrk

LEMMA HeapZeroStep ==
  ASSUME SpacesInv, HeapOK, ~SharedHeap, s_zero
  PROVE  HeapOK'
<1>1. PICK t : t = sch.current
  OBVIOUS
<1>2. PICK c : c = CurrentProc
  OBVIOUS
<1>3. /\ t # NULL /\ pc[t] = "zero" /\ halted = "no" /\ pc' = [pc EXCEPT ![t] = "size"]
      /\ UNCHANGED <<sch, processes, proc, thread, gdt_tls, loc, halted>>
  BY <1>1 DEF s_zero, InCall, Go
<1>4. /\ t \in Threads /\ c \in Live /\ c \in Procs /\ c = thread[t].process
      /\ HeapShape(c) /\ InLoop(t)
      /\ \A u \in Threads : u # t /\ thread[u].process = c => pc[u] \notin Looping
  BY <1>1, <1>2, <1>3, InHeap DEF Looping
<1>5. PICK v : v = loc[t].virt
  OBVIOUS
<1>6. /\ Live' = Live /\ \A p \in Live : \A u \in UserPages : PageKept(p, u)
      /\ Shows(c, v) # Nil => Backed(c, v)'
  BY <1>1, <1>2, <1>3, <1>5, ZeroStep
<1>7. pc \in [Threads -> Step]
  BY DEF SpacesInv, Types
<1>8. pc'[t] = "size" /\ \A u \in Threads : u # t => pc'[u] = pc[u] /\ loc'[u] = loc[u]
  BY <1>3, <1>4, <1>7
<1>9. HeapShape(c)'
  <2>1. \A u \in HeapPages(c) : PageKept(c, u)
    BY <1>4, <1>6, HeapPagesUser DEF HeapShape
  <2>2. \A u \in Threads : thread[u].process = c /\ pc[u] \in Looping
                             => thread'[u].process = c /\ pc'[u] \in Looping
    BY <1>3, <1>8 DEF Looping
  <2>3. proc'[c].size = proc[c].size /\ proc'[c].used = proc[c].used
    BY <1>3
  <2> QED
    BY <1>4, <2>1, <2>2, <2>3, HeapShapeKept
<1>10. InLoop(t)'
  <2>1. /\ Slack(c)' = Slack(c) /\ Request(t)' = Request(t) /\ thread'[t].process = c
        /\ loc'[t].virt = v /\ loc'[t].incr = loc[t].incr /\ proc'[c].size = proc[c].size
    BY <1>3, <1>4, <1>5 DEF Slack, Request
  <2>2. /\ v = HeapStart + proc[c].size \div PAGE_SIZE /\ Request(t) > Slack(c)
        /\ loc[t].incr \in Incrs /\ Slack(c) < PAGE_SIZE + Request(t)
        /\ v < StackPage /\ Shows(c, v) # Nil
    BY <1>3, <1>4, <1>5 DEF InLoop
  <2>3. Shows(c, v)' # Nil /\ Backed(c, v)'
    BY <1>6, <2>2, FrameFacts DEF Backed
  <2> QED
    BY <1>8, <2>1, <2>2, <2>3 DEF InLoop
<1>11. OverrunExplained'
  BY <1>3 DEF OverrunExplained
<1>12. \A p \in Live : p # c => /\ proc'[p].size = proc[p].size
                                /\ proc'[p].used = proc[p].used
                                /\ \A u \in UserPages : PageKept(p, u)
  BY <1>3, <1>6
<1>13. thread' = thread
  BY <1>3
<1> QED
  BY <1>1, <1>4, <1>6, <1>8, <1>9, <1>10, <1>11, <1>12, <1>13, HeapSbrk

LEMMA HeapSizeStep ==
  ASSUME SpacesInv, HeapOK, ~SharedHeap, s_size
  PROVE  HeapOK'
<1>1. PICK t : t = sch.current
  OBVIOUS
<1>2. PICK c : c = CurrentProc
  OBVIOUS
<1>3. /\ t # NULL /\ pc[t] = "size" /\ halted = "no" /\ pc' = [pc EXCEPT ![t] = "test"]
      /\ proc' = [proc EXCEPT ![c].size = @ + PAGE_SIZE]
      /\ UNCHANGED <<m, sch, processes, thread, gdt_tls, loc, halted>>
  BY <1>1, <1>2 DEF s_size, InCall, Go
<1>4. /\ t \in Threads /\ c \in Live /\ c \in Procs /\ c = thread[t].process
      /\ HeapShape(c) /\ InLoop(t)
      /\ \A u \in Threads : u # t /\ thread[u].process = c => pc[u] \notin Looping
  BY <1>1, <1>2, <1>3, InHeap DEF Looping
<1>5. PICK v : v = loc[t].virt
  OBVIOUS
<1>6. Live' = Live /\ \A p \in Live : \A u \in UserPages : PageKept(p, u)
  BY SizeStep
<1>7. /\ pc \in [Threads -> Step]
      /\ proc \in [Procs -> ProcessRecord]
  BY DEF SpacesInv, Types
<1>8. pc'[t] = "test" /\ \A u \in Threads : u # t => pc'[u] = pc[u] /\ loc'[u] = loc[u]
  BY <1>3, <1>4, <1>7
<1>9. /\ v = HeapStart + proc[c].size \div PAGE_SIZE /\ Request(t) > Slack(c)
      /\ loc[t].incr \in Incrs /\ Slack(c) < PAGE_SIZE + Request(t)
      /\ v < StackPage /\ Backed(c, v)
  BY <1>3, <1>4, <1>5 DEF InLoop
<1>10. /\ \A p \in Procs : p # c => proc'[p] = proc[p]
       /\ proc'[c].used = proc[c].used /\ proc'[c].size = proc[c].size + PAGE_SIZE
  BY <1>3, <1>4, <1>7 DEF ProcessRecord
<1>11. /\ proc[c].size \in Nat /\ proc[c].used \in Nat /\ PAGE_SIZE \in Nat \ {0}
       /\ HeapStart \in Nat /\ StackPage \in Nat /\ proc[c].size \div PAGE_SIZE \in Nat
       /\ proc[c].used <= proc[c].size
  BY <1>4, HeapNumbers DEF HeapShape
<1>12. PICK k \in Nat : k = proc[c].size \div PAGE_SIZE
  BY <1>11
<1>13. /\ proc'[c].size = PAGE_SIZE * (k + 1) /\ proc'[c].size \div PAGE_SIZE = k + 1
  <2>1. PICK a : a = proc[c].size
    OBVIOUS
  <2>2. a = PAGE_SIZE * k
    BY <1>4, <1>12, <2>1 DEF HeapShape
  <2>3. a + PAGE_SIZE = PAGE_SIZE * (k + 1)
    BY <1>11, <2>2, Quotient
  <2>4. PICK j \in Nat : j = k + 1
    OBVIOUS
  <2>5. PICK b : b = proc'[c].size
    OBVIOUS
  <2>6. b = PAGE_SIZE * j
    BY <1>10, <2>1, <2>3, <2>4, <2>5
  <2>7. b \div PAGE_SIZE = j
    BY <1>11, <2>6, Quotient
  <2> QED
    BY <2>4, <2>5, <2>6, <2>7
<1>14. HeapShape(c)'
  <2>1. \A u \in HeapPages(c)' : Backed(c, u)'
    <3> SUFFICES ASSUME NEW u \in HeapPages(c)' PROVE Backed(c, u)'
      OBVIOUS
    <3>1. u \in UserPages /\ (u \in HeapPages(c) \/ u = v)
      <4>1. u \in HeapStart..(HeapStart + k) /\ v = HeapStart + k
        BY <1>9, <1>11, <1>12, <1>13 DEF HeapPages
      <4>2. u \in HeapPages(c) \/ u = v
        BY <1>11, <1>12, <4>1 DEF HeapPages
      <4>3. u \in Nat /\ u <= StackPage
        BY <1>9, <1>11, <4>1
      <4> QED
        BY <4>2, <4>3, PageNumbers
    <3>2. Backed(c, u)
      BY <1>4, <1>9, <3>1 DEF HeapShape
    <3> QED
      BY <1>4, <1>6, <3>1, <3>2 DEF PageKept
  <2>2. /\ proc'[c].used \in Nat /\ proc'[c].used <= proc'[c].size
    BY <1>10, <1>11
  <2>3. /\ proc'[c].size = PAGE_SIZE * (proc'[c].size \div PAGE_SIZE)
        /\ HeapStart + proc'[c].size \div PAGE_SIZE <= StackPage
    BY <1>9, <1>11, <1>12, <1>13
  <2>4. ~ \A u \in Threads : thread'[u].process = c => pc'[u] \notin Looping
    BY <1>3, <1>4, <1>8 DEF Looping
  <2> QED
    BY <2>1, <2>2, <2>3, <2>4 DEF HeapShape
<1>15. InLoop(t)'
  <2>1. /\ Request(t)' = Request(t) /\ thread'[t].process = c /\ loc'[t].incr = loc[t].incr
    BY <1>3, <1>4 DEF Request
  <2>2. Request(t) \in Nat
    BY <1>9, Requests DEF Request
  <2>3. Slack(c)' < PAGE_SIZE + Request(t)
    BY <1>9, <1>10, <1>11, <2>2 DEF Slack
  <2> QED
    BY <1>8, <1>9, <2>1, <2>3 DEF InLoop
<1>16. OverrunExplained'
  BY <1>3 DEF OverrunExplained
<1>17. \A p \in Live : p # c => /\ proc'[p].size = proc[p].size
                                /\ proc'[p].used = proc[p].used
                                /\ \A u \in UserPages : PageKept(p, u)
  BY <1>6, <1>10 DEF Live
<1>18. thread' = thread
  BY <1>3
<1> QED
  BY <1>1, <1>4, <1>6, <1>8, <1>14, <1>15, <1>16, <1>17, <1>18, HeapSbrk

LEMMA HeapInit == Init => HeapOK
<1> SUFFICES ASSUME Init PROVE HeapOK
  OBVIOUS
<1>1. Live = {} /\ \A t \in Threads : pc[t] \notin Looping
  BY DEF Init, Live, NoProcess, Looping
<1> QED
  BY <1>1 DEF Init, HeapOK, OverrunExplained

LEMMA HeapNext == ~SharedHeap /\ SpacesInv /\ HeapOK /\ [Next]_vars => HeapOK'
<1> SUFFICES ASSUME ~SharedHeap, SpacesInv, HeapOK, [Next]_vars PROVE HeapOK'
  OBVIOUS
<1>1. SpacesInv'
  BY SpacesNext
<1>2. ASSUME NEW p \in Procs, NEW t \in Threads, process_create(p, t) PROVE HeapOK'
  <2>1. /\ \A q \in Live : \A u \in UserPages : PageKept(q, u)
        /\ LoopsKept /\ halted' # "overrun"
        /\ \A q \in Live : q \in Live' /\ proc'[q] = proc[q]
        /\ \A q \in Live' \ Live : proc'[q].size = 0 /\ proc'[q].used = 0
        /\ \A u \in Threads : sch.state[u] # "FREE" => thread'[u] = thread[u]
    BY <1>2, CreateStep DEF LoopsKept
  <2> QED
    BY <1>1, <2>1, HeapStay
<1>3. CASE sys_clone \/ c_grow \/ \E t \in Threads : c_store(t)
  <2>1. CASE sys_clone
    <3>1. /\ LoopsKept /\ Live' = Live
          /\ \A q \in Live : \A u \in UserPages : PageKept(q, u)
      BY <2>1, FindStep
    <3>2. proc' = proc /\ thread' = thread /\ halted' # "overrun"
      BY <2>1 DEF sys_clone, InCall
    <3> QED
      BY <1>1, <3>1, <3>2, HeapStay
  <2>2. CASE c_grow
    <3>1. /\ LoopsKept /\ Live' = Live
          /\ \A q \in Live : \A u \in UserPages : PageKept(q, u)
          /\ \A q \in Live : proc'[q].size = proc[q].size /\ proc'[q].used = proc[q].used
      BY <2>2, GrowStep
    <3>2. thread' = thread /\ halted' # "overrun"
      BY <2>2 DEF c_grow, InCall
    <3> QED
      BY <1>1, <3>1, <3>2, HeapStay
  <2>3. ASSUME NEW t \in Threads, c_store(t) PROVE HeapOK'
    <3>1. /\ \A q \in Live : \A u \in UserPages : PageKept(q, u)
          /\ LoopsKept /\ halted' # "overrun" /\ Live' = Live
          /\ \A q \in Live : proc'[q].size = proc[q].size /\ proc'[q].used = proc[q].used
          /\ \A u \in Threads : sch.state[u] # "FREE" => thread'[u] = thread[u]
      BY <2>3, StoreStep
    <3> QED
      BY <1>1, <3>1, HeapStay
  <2> QED
    BY <1>3, <2>1, <2>2, <2>3
<1>4. ASSUME proc' = proc, thread' = thread, pc' = pc, loc' = loc, halted' = "no",
             \A q \in Live : \A u \in UserPages : PageKept(q, u)
      PROVE  HeapOK'
  <2>1. Live' = Live /\ LoopsKept
    BY <1>4 DEF Live, LoopsKept
  <2> QED
    BY <1>1, <1>4, <2>1, HeapStay
<1>5. CASE Switch
  <2>1. proc' = proc /\ thread' = thread /\ pc' = pc /\ loc' = loc /\ halted' = "no"
    BY <1>5 DEF Switch
  <2> QED
    BY <1>4, <1>5, <2>1, SwitchStep
<1>6. CASE process_exit
  <2>1. proc' = proc /\ thread' = thread /\ pc' = pc /\ loc' = loc /\ halted' = "no"
    BY <1>6 DEF process_exit
  <2> QED
    BY <1>4, <1>6, <2>1, ExitStep
<1>7. ASSUME NEW v \in Touched, UserWrite(v) PROVE HeapOK'
  <2>1. proc' = proc /\ thread' = thread /\ pc' = pc /\ loc' = loc /\ halted' = "no"
    BY <1>7 DEF UserWrite
  <2>2. \A q \in Live : \A u \in UserPages : PageKept(q, u)
    BY <1>7, WriteStep, ProcessAssumption
  <2> QED
    BY <1>4, <2>1, <2>2
<1>8. CASE tls_set
  <2>1. proc' = proc /\ pc' = pc /\ loc' = loc /\ halted' = "no"
    BY <1>8 DEF tls_set
  <2>2. Live' = Live /\ LoopsKept
    BY <2>1 DEF Live, LoopsKept
  <2>3. /\ \A q \in Live : \A u \in UserPages : PageKept(q, u)
        /\ \A t \in Threads : thread'[t].process = thread[t].process
    BY <1>8, TlsStep
  <2> QED
    BY <1>1, <2>1, <2>2, <2>3, HeapStay
<1>9. CASE \E incr \in Incrs : sys_sbrk(incr)
  BY <1>9, HeapSbrkStep
<1>10. CASE s_test \/ s_take
  BY <1>10, HeapTestStep, HeapTakeStep
<1>11. CASE s_map
  BY <1>11, HeapMapStep
<1>12. CASE s_zero
  BY <1>12, HeapZeroStep
<1>13. CASE s_size
  BY <1>13, HeapSizeStep
<1>14. CASE UNCHANGED vars
  <2>1. UNCHANGED <<m, sch, processes, proc, thread, gdt_tls, pc, loc, halted>>
    BY <1>14 DEF vars
  <2>2. Live' = Live /\ \A p \in Live : HeapShape(p)' = HeapShape(p)
    BY <2>1 DEF Live, HeapShape, HeapPages, Slack, Backed, Shows
  <2>3. \A t \in Threads : InLoop(t)' = InLoop(t)
    BY <2>1 DEF InLoop, Request, Slack, Backed, Shows
  <2>4. OverrunExplained' = OverrunExplained
    BY <2>1 DEF OverrunExplained, Heap, CurrentProc
  <2> QED
    BY <2>1, <2>2, <2>3, <2>4 DEF HeapOK
<1> QED
  BY <1>2, <1>3, <1>5, <1>6, <1>7, <1>8, <1>9, <1>10, <1>11, <1>12, <1>13, <1>14 DEF Next

LEMMA HeapAlways ==
  ASSUME ~SharedHeap
  PROVE  Spec => [](SpacesInv /\ HeapOK)
<1> DEFINE Inv == SpacesInv /\ HeapOK
<1>1. Init => Inv
  BY SpacesInit, HeapInit
<1>2. Inv /\ [Next]_vars => Inv'
  BY SpacesNext, HeapNext
<1> QED
  BY <1>1, <1>2, PTL DEF Spec

-----------------------------------------------------------------------------

\* When one thread of a process at a time is inside sbrk, every byte of its heap
\* is backed by a page that was zeroed first, no page is taken without need, and
\* only a bad request makes the heap reach the stack (process_sbrk).
THEOREM HeapBackedHolds ==
  ASSUME ~SharedHeap
  PROVE  Spec => []HeapBacked
<1>1. SpacesInv /\ HeapOK => HeapBacked
  <2> SUFFICES ASSUME SpacesInv, HeapOK PROVE HeapBacked
    OBVIOUS
  <2>1. ASSUME NEW p \in Live
        PROVE  /\ proc[p].used <= proc[p].size
               /\ \A v \in HeapPages(p) :
                    Shows(p, v) \in Frame /\ \A w \in Word : m.mem[Shows(p, v)][w] # Garbage
               /\ (\A t \in Threads : thread[t].process = p => pc[t] \notin Looping)
                    => proc[p].size - proc[p].used < PAGE_SIZE
    BY DEF HeapOK, HeapShape, Backed, Slack
  <2>2. OverrunExplained
    BY DEF HeapOK
  <2> QED
    BY <2>1, <2>2 DEF HeapBacked
<1> QED
  BY <1>1, HeapAlways, PTL

-----------------------------------------------------------------------------

\* Identifiers of processes and threads lead back to their owner, however the
\* tables grow and whatever is interrupted between the test and the storing of an
\* entry, until two threads have taken the same place (process_get, process_new,
\* vector_add): no other interleaving that is modelled mixes up identifiers.
THEOREM IdentifiersLeadBackHolds == Spec => [](halted # "raced" => IdentifiersLeadBack)
<1>1. SpacesInv /\ halted # "raced" => IdentifiersLeadBack
  <2> SUFFICES ASSUME SpacesInv, halted # "raced" PROVE IdentifiersLeadBack
    OBVIOUS
  <2>1. Types /\ Identifiers
    BY DEF SpacesInv, Named
  <2>2. ASSUME NEW p \in Live PROVE process_get(proc[p].pid) = p
    <3>1. proc[p].pid \in Entries(processes) /\ processes.content[proc[p].pid] = p
      BY <2>1 DEF Identifiers
    <3>2. processes \in Vector(Procs)
      BY <2>1 DEF Types
    <3> QED
      BY <3>1, <3>2, VectorGet DEF process_get
  <2>3. ASSUME NEW t \in Threads, thread[t].process # Nil
        PROVE  vector_get(proc[thread[t].process].threads, thread[t].tid) = t
    <3> DEFINE v == proc[thread[t].process].threads
    <3>1. /\ thread[t].process \in Live
          /\ thread[t].tid \in Entries(v) /\ v.content[thread[t].tid] = t
      BY <2>1, <2>3 DEF Identifiers
    <3>2. v \in Vector(Threads)
      BY <2>1, <3>1 DEF Types, ProcessRecord, Live
    <3> QED
      BY <3>1, <3>2, VectorGet
  <2> QED
    BY <2>2, <2>3 DEF IdentifiersLeadBack
<1> QED
  BY <1>1, SpacesAlways, PTL

\* Frames in the translation of a process are none of its pages.
LEMMA TablesKinds ==
  ASSUME NEW D, NEW kind, NEW of, NEW at, Spaces(m, D, kind, of, at),
         NEW p, proc[p].context \in D, NEW f \in TablesOf(p)
  PROVE  kind[f] # "page"
<1> DEFINE c == proc[p].context
<1>1. Space(m, c, kind, of, at)
  BY DEF Spaces
<1>2. /\ kind[c] = "dir" /\ kind[m.mem[c][VIEW]] = "view"
      /\ \A i \in 0..(N - 1) : m.mem[c][i] # Nil => kind[m.mem[c][i]] = "table"
  BY <1>1 DEF Space
<1>3. \/ f = c \/ f = m.mem[c][VIEW]
      \/ \E i \in 0..(N - 1) : m.mem[c][i] # Nil /\ f = m.mem[c][i]
  BY DEF TablesOf
<1> QED
  BY <1>2, <1>3

LEMMA SpacesDisjoint == SpacesInv => PagesDisjoint
<1> SUFFICES ASSUME SpacesInv, NEW p \in Live, NEW v \in UserPages, Shows(p, v) # Nil
             PROVE  /\ Shows(p, v) \in Frame \ m.free
                    /\ \A w \in Word : m.mem[Shows(p, v)][w] \in {p, Nil, Garbage}
                    /\ \A q \in Live :
                         /\ Shows(p, v) \notin TablesOf(q)
                         /\ \A u \in UserPages : Shows(q, u) = Shows(p, v) => q = p /\ u = v
  BY DEF PagesDisjoint
<1>1. /\ \A q, r \in Live : proc[q].context = proc[r].context => q = r
      /\ Uses /\ Contents
  BY DEF SpacesInv, AddressSpaces
<1>2. PICK kind, of, at : Spaces(m, Directories, kind, of, at)
  BY <1>1 DEF Uses
<1>3. \A q \in Live : proc[q].context \in Directories
  BY DEF Directories
<1> PICK f : f = Shows(p, v)
  OBVIOUS
<1>4. f \in Frame /\ kind[f] = "page" /\ of[f] = proc[p].context /\ at[f] = v
  BY <1>2, <1>3, ShownFrame
<1>5. f \notin m.free
  BY <1>2, <1>4 DEF Spaces
<1>6. \A w \in Word : m.mem[f][w] \in {p, Nil, Garbage}
  BY <1>1 DEF Contents
<1>7. ASSUME NEW q \in Live PROVE f \notin TablesOf(q)
  BY <1>2, <1>3, <1>4, TablesKinds
<1>8. ASSUME NEW q \in Live, NEW u \in UserPages, Shows(q, u) = f PROVE q = p /\ u = v
  <2>1. Shows(q, u) # Nil
    BY <1>8
  <2>2. of[f] = proc[q].context /\ at[f] = u
    BY <1>2, <1>3, <1>8, <2>1, ShownFrame
  <2> QED
    BY <1>1, <1>4, <2>2
<1> QED
  BY <1>4, <1>5, <1>6, <1>7, <1>8

\* Whatever steps threads interleave inside sbrk, no frame that a process can reach
\* is free, part of page tables, or shown at any other page, and none holds what
\* another process wrote, until memory_alloc has handed one frame out twice.
THEOREM PagesDisjointHolds == Spec => [](halted # "raced" => PagesDisjoint)
  BY SpacesDisjoint, SpacesAlways, PTL

\* When one thread of a process at a time is inside sbrk, all records keep their
\* types as well.  Threads of one process may be inside sys_clone together, and any
\* two inside memory_alloc: if they take the same, address spaces and identifiers
\* were separate up to that step.
THEOREM AddressSpacesDisjointHolds ==
  ASSUME ~SharedHeap
  PROVE  Spec => []AddressSpacesDisjoint
<1>1. SpacesInv /\ HeapOK => TypeOK
  <2> SUFFICES ASSUME SpacesInv, HeapOK PROVE TypeOK
    OBVIOUS
  <2>1. Types
    BY DEF SpacesInv
  <2>2. /\ m.mem \in [Frame -> [Word -> Frame \cup Procs \cup {Nil, Garbage}]]
        /\ m.free \subseteq Frame /\ m.cr3 \in Frame
    BY <2>1 DEF Types, Quiet, Memory, Value
  <2>3. IsVector(processes, Procs)
    BY <2>1, VectorType DEF Types
  <2>4. ASSUME NEW p \in Procs, proc[p].context # Nil PROVE IsProcess(proc[p])
    <3>1. p \in Live
      BY <2>4 DEF Live
    <3>2. proc[p] \in ProcessRecord
      BY <2>1 DEF Types
    <3>3. proc[p].used \in Nat
      BY <3>1 DEF HeapOK, HeapShape
    <3>4. IsVector(proc[p].threads, Threads)
      BY <3>2, VectorType DEF ProcessRecord
    <3> QED
      BY <2>4, <3>2, <3>3, <3>4 DEF ProcessRecord, IsProcess
  <2> QED
    BY <2>1, <2>2, <2>3, <2>4 DEF Types, TypeOK, ThreadRecord
<1> QED
  BY <1>1, SpacesDisjoint, HeapAlways, IdentifiersLeadBackHolds, PTL DEF AddressSpacesDisjoint
=============================================================================
