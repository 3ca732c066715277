------------------------------ MODULE Process -------------------------------
(***************************************************************************)
(* Processes of the i386 kernel (kernel/process.c) with their address      *)
(* spaces: the process table, the threads of a process, its heap, and the  *)
(* context that is active while one of its threads runs.  System calls are *)
(* preemptible on i386: process_sbrk before each of the calls it makes and *)
(* between the test and the clearing of a bit in memory_alloc, sys_clone   *)
(* between the test and the storing of an entry in vector_add.  If two     *)
(* threads take the same frame or the same place, or one copies a table    *)
(* that the other enlarges, the behaviour ends there ("raced").            *)
(* Interrupts inside paging_map, vector_resize, kmalloc and                *)
(* scheduler_enqueue_thread are left out (module Semaphore has the last).  *)
(***************************************************************************)
EXTENDS SchedOps, Paging

CONSTANTS
  Procs,        \* addresses for process objects
  ProcessSlots, \* initial size of the process table (16)
  ThreadSlots,  \* initial size of a table of threads (4)
  HeapStart,    \* first page of the heap (0x1000000)
  PAGE_SIZE,
  Modulus,      \* range of an unsigned long (2^32)
  Incrs,        \* arguments of sbrk
  Touched,      \* pages that programs write to
  MaxTls,       \* bound on the threads that use thread local storage
  SharedHeap    \* threads of one process may be inside sbrk at the same time

\* The page below 0x80000000.
StackPage == N * N - 1

\* Addresses of user pages are in the lower half, and sbrk takes a signed number.
ASSUME ProcessAssumption ==
  /\ ProcessSlots \in Nat /\ ThreadSlots \in Nat
  /\ HeapStart \in UserPages /\ PAGE_SIZE \in Nat \ {0} /\ Modulus \in Nat \ {0}
  /\ Incrs \subseteq (-(Modulus \div 2))..(Modulus \div 2 - 1) \ {0} /\ SharedHeap \in BOOLEAN
  /\ (StackPage - HeapStart) * PAGE_SIZE < Modulus \div 2
  /\ Touched \subseteq UserPages /\ MaxTls \in Nat
  /\ Nil \notin Procs /\ Garbage \notin Procs /\ NULL \notin Procs

INSTANCE VectorOps WITH Wild <- Garbage

VARIABLES
  m,          \* memory and address translation, see Paging
  sch,        \* the scheduler and the thread control blocks, see SchedOps
  processes,  \* the process table
  proc,       \* process objects, without a context before process_new
  thread,     \* process, tid and tls of every thread
  gdt_tls,    \* the descriptor that the CPU uses for thread local storage
  pc,         \* where each thread is in sys_clone or process_sbrk
  loc,        \* the local variables of these
  halted      \* panic, the heap grew over the stack, or two threads took the same

vars == <<m, sch, processes, proc, thread, gdt_tls, pc, loc, halted>>

NoLocals == [incr |-> 0, virt |-> 0, phys |-> 0, slot |-> 0]

\* The places in vector_add, called for sys_clone, and in process_sbrk.
Cloning == {"find", "grow", "store"}
Looping == {"test", "take", "map", "zero", "size"}
Step == {"user"} \cup Cloning \cup Looping

\* A process object that is not in use.
NoProcess == [pid |-> 0, context |-> Nil, size |-> 0, used |-> 0, threads |-> vector_init(0)]

\* struct process; channels and connections are in module Ipc.
IsProcess(self) ==
  /\ self.pid \in Nat /\ self.context \in Frame
  /\ self.size \in Nat /\ self.used \in Nat
  /\ IsVector(self.threads, Threads)

\* A descriptor is named by the thread that asked for it.
Descriptor == Threads \cup {Garbage}

TypeOK ==
  /\ m.mem \in [Frame -> [Word -> Frame \cup Procs \cup {Nil, Garbage}]]
  /\ m.free \subseteq Frame
  /\ m.cr3 \in Frame
  /\ sch \in Sched
  /\ IsVector(processes, Procs)
  /\ \A p \in Procs : proc[p].context # Nil => IsProcess(proc[p])
  /\ thread \in [Threads -> [process : Procs \cup {Nil}, tid : Nat, tls : Descriptor]]
  /\ gdt_tls \in Descriptor
  /\ pc \in [Threads -> Step]
  /\ halted \in {"no", "panic", "overrun", "raced"}

\* paging_init, process_init and scheduler_init.
Init ==
  /\ m = paging_init
  /\ sch = BootSched
  /\ processes = vector_init(ProcessSlots)
  /\ proc = [p \in Procs |-> NoProcess]
  /\ thread = [t \in Threads |-> [process |-> Nil, tid |-> 0, tls |-> Garbage]]
  /\ gdt_tls = Garbage
  /\ pc = [t \in Threads |-> "user"]
  /\ loc = [t \in Threads |-> NoLocals]
  /\ halted = "no"

-----------------------------------------------------------------------------

CurrentProc == thread[sch.current].process

\* memory_alloc and paging_map_kernel can serve the calls of a handler.
Suffices(frames, slots) ==
  Cardinality(m.free) >= frames /\ Cardinality(EmptySlots(m)) >= slots

panic == halted' = "panic" /\ UNCHANGED <<m, sch, processes, proc, thread, gdt_tls, pc, loc>>

process_get(pid) == vector_get(processes, pid)

process_new(context) ==
  [pid |-> AddIndex(processes), context |-> context, size |-> 0, used |-> 0,
   threads |-> vector_init(ThreadSlots)]

process_add_thread(p, self, t) ==
  /\ proc' = [proc EXCEPT ![p] = [self EXCEPT !.threads = vector_add(@, t)]]
  /\ thread' = [thread EXCEPT ![t].process = p,
                               ![t].tid = AddIndex(self.threads)]

\* Boot code, or the idle thread's side of the kernel, starts a program in a
\* new context.  memset clears words in the lower half of the stack's page.
process_create(p, t) ==
  LET context == NextFrame(m)
      m1 == paging_create_context(m)
      stack == NextFrame(m1)
      i  == NextSlot(m1)
      m2 == paging_map_kernel(Take(m1), stack)
      m3 == Write(m2, WindowPage(i), Single(0, Nil))
      m4 == paging_unmap_kernel(m3, i)
  IN
  /\ halted = "no"
  /\ sch.current = NULL
  /\ proc[p].context = Nil
  /\ sch.state[t] = "FREE"
  /\ IF ~Suffices(4, 2) THEN panic
     ELSE /\ m' = paging_map(m4, context, StackPage, stack)
          /\ processes' = vector_add(processes, p)
          /\ process_add_thread(p, process_new(context), t)
          /\ sch' = scheduler_enqueue_thread(thread_new(sch, t), t)
          /\ UNCHANGED <<gdt_tls, pc, loc, halted>>

\* scheduler_schedule with arch_switch_context; the idle thread runs in the
\* context that happens to be active.
Schedule(s) ==
  LET next == scheduler_schedule(s) IN
  /\ sch' = next
  /\ IF next.current = NULL THEN UNCHANGED <<m, gdt_tls>>
     ELSE /\ m' = paging_activate_context(m, proc[thread[next.current].process].context)
          /\ gdt_tls' = thread[next.current].tls

\* timer_tick, at any time, and sys_yield.
Switch ==
  /\ halted = "no"
  /\ Schedule(sch)
  /\ UNCHANGED <<processes, proc, thread, pc, loc, halted>>

\* sys_exit, and paging_fault for an access to a page that is not mapped.
process_exit ==
  /\ halted = "no"
  /\ sch.current # NULL /\ pc[sch.current] = "user"
  /\ Schedule(thread_block(sch, sch.current, "DEAD"))
  /\ UNCHANGED <<processes, proc, thread, pc, loc, halted>>

\* The handler of SYS_TLS_SET, on i386 only; what a descriptor holds is left out.
tls_set ==
  /\ halted = "no"
  /\ sch.current # NULL /\ pc[sch.current] = "user"
  /\ Cardinality({t \in Threads : thread[t].tls # Garbage}) < MaxTls
  /\ thread' = [thread EXCEPT ![sch.current].tls = sch.current]
  /\ gdt_tls' = sch.current
  /\ UNCHANGED <<m, sch, processes, proc, pc, loc, halted>>

\* The running program writes to a page of its own.
UserWrite(v) ==
  /\ halted = "no"
  /\ sch.current # NULL /\ pc[sch.current] = "user"
  /\ Translate(m, v) # Nil
  /\ m' = Write(m, v, Single(0, CurrentProc))
  /\ UNCHANGED <<sch, processes, proc, thread, gdt_tls, pc, loc, halted>>

-----------------------------------------------------------------------------
(* System calls that are interrupted on their way *)

InCall(step) ==
  /\ halted = "no"
  /\ sch.current # NULL
  /\ pc[sch.current] = step

Go(step) == pc' = [pc EXCEPT ![sch.current] = step]

Heap == proc[CurrentProc]

\* sys_clone up to the last test that vector_add makes: a free place is found, or
\* there is none.  After the table was enlarged the search is repeated.
sys_clone ==
  LET table == Heap.threads IN
  /\ InCall("user") \/ InCall("find")
  /\ \E t \in Threads : sch.state[t] = "FREE"
  /\ Go(IF FreeSlots(table) = {} THEN "grow" ELSE "store")
  /\ loc' = [loc EXCEPT ![sch.current].slot = AddIndex(table)]
  /\ UNCHANGED <<m, sch, processes, proc, thread, gdt_tls, halted>>

\* vector_resize.  If another thread has enlarged the table since the search, this
\* one may have begun before and copied an array that is freed by now.
c_grow ==
  /\ InCall("grow")
  /\ \/ /\ proc' = [proc EXCEPT ![CurrentProc].threads = vector_resize(@)]
        /\ Go("find")
        /\ UNCHANGED halted
     \/ /\ Bounds(Heap.threads) # loc[sch.current].slot
        /\ halted' = "raced"
        /\ UNCHANGED <<proc, pc>>
  /\ UNCHANGED <<m, sch, processes, thread, gdt_tls, loc>>

\* The rest of vector_add, process_add_thread and sys_clone.  The entry is written
\* whatever it holds by now.
c_store(t) ==
  LET slot == loc[sch.current].slot
      table == Heap.threads IN
  /\ InCall("store")
  /\ sch.state[t] = "FREE"
  /\ proc' = [proc EXCEPT ![CurrentProc].threads =
                [count |-> table.count + 1, content |-> [table.content EXCEPT ![slot] = t]]]
  /\ thread' = [thread EXCEPT ![t].process = CurrentProc, ![t].tid = slot]
  /\ sch' = scheduler_enqueue_thread(thread_new(sch, t), t)
  /\ Go("user")
  /\ loc' = [loc EXCEPT ![sch.current] = NoLocals]
  /\ halted' = IF slot \in FreeSlots(table) THEN halted ELSE "raced"
  /\ UNCHANGED <<m, processes, gdt_tls>>

sys_sbrk(incr) ==
  /\ InCall("user")
  /\ SharedHeap \/ \A t \in Threads :
       thread[t].process = CurrentProc => pc[t] \notin Looping
  /\ Go("test")
  /\ loc' = [loc EXCEPT ![sch.current] = [NoLocals EXCEPT !.incr = incr]]
  /\ UNCHANGED <<m, sch, processes, proc, thread, gdt_tls, halted>>

\* The comparison is unsigned.
NeedsPage(incr) == incr % Modulus > Heap.size - Heap.used

\* The head of the loop: the heap is large enough, or memory_alloc finds a free
\* frame.  The result of the call, always the start of the heap, is left out.
s_test ==
  LET t == sch.current
      virt == HeapStart + Heap.size \div PAGE_SIZE IN
  /\ InCall("test")
  /\ IF ~NeedsPage(loc[t].incr)
     THEN /\ proc' = [proc EXCEPT ![CurrentProc].used = @ + loc[t].incr]
          /\ Go("user")
          /\ loc' = [loc EXCEPT ![t] = NoLocals]
          /\ UNCHANGED <<m, sch, processes, thread, gdt_tls, halted>>
     ELSE IF ~Suffices(1, 0) THEN panic
     ELSE /\ Go("take")
          /\ loc' = [loc EXCEPT ![t].virt = virt, ![t].phys = NextFrame(m)]
          /\ UNCHANGED <<m, sch, processes, proc, thread, gdt_tls, halted>>

\* The rest of memory_alloc: the bit is cleared, whoever has cleared it before.
s_take ==
  LET f == loc[sch.current].phys IN
  /\ InCall("take")
  /\ IF f \in m.free
     THEN /\ m' = [m EXCEPT !.free = @ \ {f}]
          /\ Go("map")
          /\ UNCHANGED halted
     ELSE halted' = "raced" /\ UNCHANGED <<m, pc>>
  /\ UNCHANGED <<sch, processes, proc, thread, gdt_tls, loc>>

\* Nothing stops a heap that reaches the stack; the model does.
s_map ==
  LET t == sch.current IN
  /\ InCall("map")
  /\ IF loc[t].virt >= StackPage
     THEN halted' = "overrun" /\ UNCHANGED <<m, pc>>
     ELSE IF ~TableInView(m, Heap.context, loc[t].virt) /\ ~Suffices(1, 2)
     THEN halted' = "panic" /\ UNCHANGED <<m, pc>>
     ELSE /\ m' = paging_map(m, Heap.context, loc[t].virt, loc[t].phys)
          /\ Go("zero")
          /\ UNCHANGED halted
  /\ UNCHANGED <<sch, processes, proc, thread, gdt_tls, loc>>

\* Faulty variant: the page keeps what memory held before.
zero_dropped ==
  /\ InCall("zero")
  /\ Go("size")
  /\ UNCHANGED <<m, sch, processes, proc, thread, gdt_tls, loc, halted>>

s_zero ==
  /\ InCall("zero")
  /\ m' = Write(m, loc[sch.current].virt, Zeroed)
  /\ Go("size")
  /\ UNCHANGED <<sch, processes, proc, thread, gdt_tls, loc, halted>>

s_size ==
  /\ InCall("size")
  /\ proc' = [proc EXCEPT ![CurrentProc].size = @ + PAGE_SIZE]
  /\ Go("test")
  /\ UNCHANGED <<m, sch, processes, thread, gdt_tls, loc, halted>>

Next ==
  \/ \E p \in Procs, t \in Threads : process_create(p, t)
  \/ sys_clone
  \/ c_grow
  \/ \E t \in Threads : c_store(t)
  \/ Switch
  \/ process_exit
  \/ tls_set
  \/ \E v \in Touched : UserWrite(v)
  \/ \E incr \in Incrs : sys_sbrk(incr)
  \/ s_test \/ s_take \/ s_map \/ s_zero \/ s_size

Spec == Init /\ [][Next]_vars

-----------------------------------------------------------------------------

Live == {p \in Procs : proc[p].context # Nil}

\* The frame that page v of process p shows, whoever runs.
Shows(p, v) == Walk(m, proc[p].context, v)

\* The frames that hold the translation of process p.
TablesOf(p) ==
  LET c == proc[p].context
  IN  {c, m.mem[c][VIEW]} \cup {m.mem[c][w] : w \in {x \in 0..(N - 1) : m.mem[c][x] # Nil}}

\* process_get: "Get a process by its pid.", and vector_add: "@return The index of
\* the added element."  Process and thread identifiers lead back to their owner,
\* however the tables grow.
IdentifiersLeadBack ==
  /\ \A p \in Live : process_get(proc[p].pid) = p
  /\ \A t \in Threads : thread[t].process # Nil =>
       vector_get(proc[thread[t].process].threads, thread[t].tid) = t

\* A frame that some process can reach is shown at one page of that process
\* only, is neither free nor part of anybody's page tables, and holds no word
\* that another process wrote.
PagesDisjoint ==
  \A p \in Live : \A v \in UserPages :
    LET f == Shows(p, v) IN
    f # Nil =>
      /\ f \in Frame \ m.free
      /\ \A w \in Word : m.mem[f][w] \in {p, Nil, Garbage}
      /\ \A q \in Live : /\ f \notin TablesOf(q)
                         /\ \A u \in UserPages : Shows(q, u) = f => q = p /\ u = v

\* Until two threads take the same frame or the same place: address spaces are
\* separate, no page of a new table shows whatever memory held before, and whose
\* address space it is can be told from the identifiers of processes and threads.
AddressSpacesDisjoint ==
  /\ TypeOK
  /\ halted # "raced" => IdentifiersLeadBack /\ PagesDisjoint

\* The pages that heap.size counts.
HeapPages(p) == HeapStart..(HeapStart + proc[p].size \div PAGE_SIZE - 1)

\* The heap reached the stack, and only a request that is negative or larger than
\* the space below the stack made it.
OverrunExplained ==
  halted = "overrun" =>
    LET incr == loc[sch.current].incr IN
    \/ incr < 0
    \/ Heap.used + incr > (StackPage - HeapStart) * PAGE_SIZE

\* process_sbrk: every byte of the heap is backed by a page of the process that
\* was zeroed before its program saw it, no page is taken without need, and only
\* a bad request makes the heap reach the stack.
HeapBacked ==
  /\ OverrunExplained
  /\ \A p \in Live :
    /\ proc[p].used <= proc[p].size
    /\ \A v \in HeapPages(p) :
         Shows(p, v) \in Frame /\ \A w \in Word : m.mem[Shows(p, v)][w] # Garbage
    /\ (\A t \in Threads : thread[t].process = p => pc[t] \notin Looping)
         => proc[p].size - proc[p].used < PAGE_SIZE

\* The running thread runs in the context of its process and with its own
\* thread local storage, the kernel knows which context is active, and every
\* translation that the CPU has cached is the one the page tables give now
\* (arch_switch_context, paging_activate_context, invlpg).
TranslationCurrent ==
  /\ m.cr3 = m.current_context
  /\ sch.current # NULL => /\ m.cr3 = proc[CurrentProc].context
                            /\ gdt_tls = thread[sch.current].tls
  /\ \A e \in m.tlb : e[2] = Walk(m, m.cr3, e[1])

\* Every page of the kernel mapping area that a handler used is given back.
WindowReleased == \A i \in DOMAIN m.window : m.window[i] = Nil
=============================================================================
