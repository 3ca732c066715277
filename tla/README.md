# Pirix kernel: a TLA+ verification project

Pirix is a small microkernel for i386 and ARM (QEMU Integrator/CP, Raspberry
Pi). The kernel offers threads and processes, a round-robin scheduler driven by
a timer interrupt, semaphores, synchronous message passing, paging and a kernel
heap; everything else is meant to live in user processes. This directory holds
TLA+ modules that model the kernel's core, TLC configurations that check them on
small instances, and TLAPS proofs.

## 1. The system and its parts

| Part | Source | State | Operations | What makes it correct |
|---|---|---|---|---|
| Scheduler, threads | `kernel/scheduler.c`, `kernel/thread.c` | `queue_head`, `queue_tail`, `current_thread`, per thread `state` and `next` | enqueue, dequeue, schedule, switch; create, block, unblock | the run queue holds every runnable thread once, in order; nobody starves; blocked and dead threads never run |
| Timer | `kernel/timer.c` | `ticks`, `subticks` | `timer_tick`, `timer_uptime` | the uptime advances with the interrupts |
| Semaphores | `kernel/semaphore.c`, `spinlock.h` | count, lock, queue of threads (linked through the same `next`) | init, wait, signal | no token lost or made, no wakeup lost, waiters served in order |
| Message passing | `kernel/ipc.c` | channels (one message slot, two semaphores, a reply table), connections | listen, close, connect, disconnect, send, receive, reply | no message lost or overwritten, replies reach their senders, every send returns if the server serves |
| Vectors | `kernel/vector.c` | count, bounds, content | init, add, set, get, clear, free, growth | indices stay valid, count exact, bounds respected |
| Physical memory | `kernel/memory.c` | bitmap of frames | alloc, alloc_aligned, free | no frame given out twice or lost, runs aligned |
| Kernel heap | `kernel/kheap.c` | 16 free lists | kmalloc, kcalloc, kfree | blocks never overlap, nothing leaks |
| Interrupts | `kernel/irq.c`, `drivers/irq/*.c` | handler table, mask registers | register, unregister, allow, disallow, handle | mask and table agree, registered lines are served |
| ARM division | `kernel/arch/arm/div.c` | none | `__udivsi3`, `__divsi3`, `__umodsi3`, `__modsi3` | agrees with integer division |
| Processes | `kernel/process.c` | process table, per process threads, fds, chans, heap | new, create, add/remove thread, sbrk, exit | ids lead back to their objects, the heap is mapped |
| System calls | `kernel/syscall.c` | table | dispatch and small calls | only valid numbers dispatch |
| Paging | `kernel/arch/*/paging.c` | translation tables, kernel window | map, map_kernel, create/activate context | a mapping translates as asked, others are untouched |
| Entry code | `kernel/arch/i386/irq.S`, `kernel/arch/arm/init.S` | register frames, stacks, interrupt masks | interrupt and system call entry, `arch_switch_task` | a thread resumes where it stopped, programs and handlers alike |
| Console | `kernel/kprint.c`, `drivers/serial/*.c` | cursor, video memory | kprintf, kputs, kputn; putc, scroll, clear | the text asked for appears on the screen, nothing else is written |

How they interact. System calls and interrupts are the only ways into the
kernel. The timer interrupt calls `scheduler_schedule`; `ipc_send`,
`ipc_receive` and `ipc_reply` use the semaphores, `thread_block`,
`thread_unblock` and `scheduler_switch`; processes, channels and connections are
found through vectors; vectors, threads and messages live on the kernel heap,
which takes frames from the physical allocator.

What is hard:

- *Preemption.* On ARM an exception entry masks interrupts, so a system call
  runs undisturbed from its entry (or from the return of `scheduler_switch`) to
  its next `scheduler_switch` or its end. On i386 the system call gate is a trap
  gate (flags `0xef`, `irq.S:166`), which leaves interrupts enabled, so that every system call can be
  preempted between any two statements, while the code has locks in two places
  only.
- *One link field.* A thread's `next` links it into the run queue or into one of
  many semaphore queues.
- *Blocking halfway through a call.* `ipc_send` and `ipc_receive` hold pointers
  to channels and connections across `scheduler_switch`.
- *Frames of different shapes.* An interrupt, a system call and a voluntary switch
  leave different things on a kernel stack, and a thread may leave the kernel on
  another path than it came in.
- *Objects freed while in use,* identifiers checked with an off-by-one,
  uninitialised fields.

`PROJECT.json` lists these hazards line by line with the properties that would
catch them.

## 2. Modules

| Module | Models | Notes |
|---|---|---|
| `SchedOps` | the C functions of the scheduler and of `thread.c` as operators on one record (`head`, `tail`, `next`, `state`, `current`) | reused by all modules that schedule |
| `Scheduler` | the scheduler under all its callers, and the timer counters | one action per handler |
| `FifoScheduler` | abstract: a queue, a running thread, a status per thread | |
| `SchedulerFifo` | `Scheduler` with a history variable `fifo`, the order in which threads joined; the properties and the refinement | |
| `ThreadListProofs` | lemmas about chains, run queues and the functions of `SchedOps` | used by the next three modules |
| `SchedulerProofs`, `SemaphoreProofs`, `IpcProofs` | proofs about `SchedulerFifo`, `Semaphore` and `Ipc` | see section 5 |
| `ThreadList` | what a chain of `next` pointers means, and a run queue as a sequence | |
| `Semaphore` | `semaphore.c` statement by statement with a timer interrupt, constant `Preemptible` | `thread_unblock` and `scheduler_enqueue_thread` are in line in the signal |
| `CountingSemaphore` | abstract: a count and a line of waiters | |
| `SemOps` | `semaphore_wait` and `semaphore_signal` as atomic operators (ARM) | used by `Ipc` |
| `VectorOps`, `SlotTable` | `vector.c` as operators, and the abstract table: an addition takes the lowest free place, which only a removal or `vector_clear` empties | `vector_set` is modelled with zero, as all its callers use it |
| `Kheap` | `kheap.c` as operators on the free lists | |
| `Message` | `iovec_*`, `read_message`, `write_message` over `Kheap` | bytes of a message are numbered |
| `Heap` | one vector, one conversation and other callers that share the heap | composes `Kheap`, `Message`, `VectorOps` |
| `Ipc` | `ipc.c` over `SemOps`, `SchedOps` and `VectorOps` | a system call is split where it switches threads |
| `Frames` | `memory.c` | test and clearing of a bit are two steps |
| `ArmPaging` | `arm/paging.c` and `arm/arch.c` over `Frames`, whose other callers go on | translation tables are aligned runs of two frames |
| `MemoryProofs`, `IrqProofs` | proofs about `Frames` and `ArmPaging`, and about `Irq` | see section 5 |
| `ProcessProofs` | proofs about `Process` and the operators of `Paging` | see section 5 |
| `Irq` | `irq.c` over each of the three controller drivers | the controllers are external |
| `Paging` | `i386/paging.c` as operators on physical memory, the kernel mapping area, `cr3` and the TLB | CPU accesses go through the TLB; the window's entries are global and survive a change of `cr3` |
| `Process` | `process.c`, `sys_sbrk`, `sys_clone`, `tls_set`, page faults and context switches over `Paging`, `SchedOps` and `VectorOps` | `process_sbrk` in five steps, `sys_clone` in three |
| `ArmDiv` | `div.c`, register width `W` | one step per pass of the loop |
| `Video` | the text screen of `drivers/serial/i386.c` as operators | |
| `Kprint` | `kprint.c` over `ArmDiv` and `Video` | every division of `kputn` runs through `ArmDiv` |
| `KprintProofs` | proofs about `ArmDiv` and `kputn` | see section 5 |
| `Entry` | what the entry code of both kernels shares: registers, kernel stacks, `thread->regs`, the dispatch of system calls | |
| `EntryI386`, `EntryArm` | `irq.S` and the exception part of `arm/init.S`, word by word | |
| `ContextSwitch` | both entries under one specification, with the properties | |
| `MC*` | instances for TLC | |

Definitions carry the names of the C functions they translate. Definitions that
are commented "Faulty variant" are wrong on purpose: each stands for a plausible
mistake in the function that follows it, and replacing the function by it makes
the property listed with it in `PROJECT.json` ("mutants") fail.

Abstractions:

- *Threads.* Everywhere but in `Entry*`, register frames and stacks are left out;
  the idle thread is `current = NULL`, as in the code, where it is never queued.
  `thread_delete` is never called. The kernel at this commit starts no process by
  itself (`process_create` has no caller); the modules let the boot code call it.
- *Registers and stacks.* A register holds the name of the thread and of the
  register while a program runs, "C of thread t" while the kernel works for t, and
  a constant otherwise, so that a property can tell whose value it is. A stack is a
  sequence of such words; `StackWords` (48) stands for the 256 words a thread really
  has. Interrupts come between the steps of a system call; on i386 also between the
  two adjustments of `%esp` at its end, on ARM also between the two halves of a
  restoration that unmasks interrupts. C code is taken to follow the calling
  convention. r0-r3 and r4-r11 are one register each. Words that nobody reads again
  are dropped to keep the state space small. The mode 0 in the status word of a new
  ARM frame is taken to be ignored, as QEMU does.
- *Messages.* In `Ipc` a message is named by its sender, the status of a reply names
  the sender it is meant for and says whether data comes with it, and
  `read_message` and `write_message` store and clear that name. In `Message` and
  `Heap` a message is the sequence of its numbered bytes, cut into pieces by sender
  and receiver, in a block of the heap; there one client and one server take turns.
- *Rules of user programs.* The kernel checks little of what user programs pass
  to it. `Ipc` has a constant `Rules`: each rule restricts what programs do, and
  a run says under which rules its properties hold.
  `own_connect`: no two threads send through one connection at a time;
  `one_channel`: a process listens once; `valid_ids`: identifiers name
  existing objects; `quiet_free`: nothing is closed or disconnected while in
  use; `data_first`: a connection whose memory happened to be non-zero gets a
  reply with data first (`ipc_connect` does not initialise `conn->size`);
  `reply_first`: a server answers before it receives again; `server_stays`:
  a server does not exit. A call that breaks a rule may set `fault`, which stands
  for following a null, dangling or wild pointer.
- *Address spaces.* A table has `N` entries instead of 1024 and a directory `N`
  user entries; the kernel half is the same in all contexts and never changes, so
  only the mapping area and the two entries that lead back to the directory are
  kept. Access bits are left out, as `paging_map` is only called for user pages.
  `SharedHeap` says whether threads of one process may be inside `sbrk` together.
  A heap that reaches the page of the stack ends the behaviour ("overrun"); nothing
  in the code stops it, also not on ARM, where `process_sbrk` of `ArmPaging` is bounded
  in the same way. The result of `sbrk`, always the start of the heap, and the case of
  a null context in `paging_map`, which no caller uses, are left out. `Touched` and
  `MaxTls` bound what programs do. On ARM the kernel sees
  all of memory at a fixed distance, so only the user pages are kept; a page table
  in a frame that held something before is `soiled`, and an entry of it that was
  never written leads to `Stale`. The address that the translation table base gets
  is the kernel's alias of the table, which is taken to be the table.
- *Preemption in `Process`.* System calls of i386 are preempted between the calls that
  `process_sbrk` makes, between the test and the clearing of a bit in `memory_alloc`,
  and between the test and the storing of an entry in `vector_add` under `sys_clone`,
  and before and during the growth of its table.
  Two threads can take the same frame or the same place there, or one copies a table
  that another has just replaced: the behaviour ends at that step ("raced"), and
  `AddressSpacesDisjoint` claims nothing about it (section 4). Preemption inside
  `paging_map`, `kmalloc` and `scheduler_enqueue_thread` is left out; `Semaphore` has
  the last of them. `process_create` is one step: at this commit it could only be called
  by the boot code, where no thread has run yet, or by new code in the kernel. The idle
  thread of i386 cannot run (section 4); `Process` and `Semaphore` let the CPU idle
  all the same, so that they also hold for a kernel in which it can.
- *Interrupt controllers* are modelled as far as the drivers use them: mask bits,
  8259 priorities and end of interrupt, the cascade line. Reading a disable
  register of the BCM2835 is taken to yield zero.
- *Heap blocks* above the size of a frame are cut from a single frame
  (`kheap_slab_create`), so that they overlap foreign memory, and a request beyond
  the largest block uses a list head behind the array (`kheap.c:39`). The behaviour
  ends there ("overlap", "foreign"), as it does when the null pointer is freed,
  which happens after a message of neither type ("null").
- *Output.* A character is a name. `%p` is `%x`. The serial registers are left out.

## 3. Runs

| Run | Shows | Bounds |
|---|---|---|
| `scheduler` | run queue intact, refinement of the FIFO queue, no starvation, dead and waiting threads stay off the CPU | 3 threads (queue empty, one, two and more; head, middle and tail differ), subticks 0..1, ticks modulo 2 (reload and wrap-around happen) |
| `semaphore_arm` | tokens conserved, lists disjoint, no spinning handler, no lost wakeup, refinement of the counting semaphore | 3 threads, one initial token, 3 signals: two waiters queue, tokens are stored and handed over |
| `semaphore_i386_wake` (violation) | the lost wakeup of `semaphore_wait` on i386 | 2 threads suffice |
| `ipc` | the slot is handed around, the reply table is exact, messages lead back, no fault, own replies | two client processes, a server with two threads, one channel, two connections |
| `ipc_live` | every send returns | the same with one server thread, and the rules `reply_first` and `server_stays` |
| `ipc_shared_connect` (violation) | threads that share a connection wake each other | three client threads of one process |
| `heap` | blocks disjoint, nothing but empty replies leaks, messages delivered whole, count exact, refinement of the slot table | 3 frames of 16 bytes, block sizes 4 to 32 (the last one larger than a frame), a vector of 2 growing to 4 and 8 with places emptied in any order, messages that are empty, short, split, wrapping at `SizeMod` = 64, too large or untyped, receivers with less and more room, one other block |
| `arm_memory` | translations current, frames disjoint and conserved, runs aligned | 2 processes (symmetric), 16 frames in 4 elements of 4 bits, 4 of them reserved, tables of 2 entries, one frame of another caller or a run of 3: page tables are taken from clean and from used frames, memory runs out |
| `irq` | masks follow the table, timer and lone lines are served | all three drivers, 4 or 5 lines each, of several banks and beyond the table |
| `kprint` | division, printed text and screen, `kputn` within its buffer | numbers and division arguments of 5 bits (zero, sign bit, all ones), 7 formats, a screen of 2 rows of 3 cells, so that it wraps and scrolls |
| `process` | until two threads take the same frame or place: address spaces separate; always: heaps backed and zeroed, translations current, kernel mapping area released | 2 processes, 3 threads (symmetric), tables of 2 entries, 14 frames: both processes get a heap, one grows into a second page table, memory runs out and the heap reaches the stack; two threads meet inside `memory_alloc` and inside `vector_add` |
| `context_switch` | programs and handlers find their registers and stacks, the kernel dies in known ways only | 2 threads (symmetric), the idle thread and the boot stack, stacks of 48 words (a user frame, a system call, a switch and an interrupt within it), system call numbers of every kind, both kernels |

`TypeOK` is a conjunct of one of the invariants of each run that does not list it.

Deadlock is checked except where the system really stops: a panic, a fault or a
corrupted heap (`heap`, `arm_memory`, `process`, `context_switch`), output that is
complete (`kprint`), and the i386 semaphore instance, where the kernel can hang.

Fairness. The timer device keeps interrupting and the CPU takes the interrupt
when it is enabled (weak fairness of `timer_tick`; `TimerServed` in `Irq` shows
that the controllers and drivers do deliver it). A thread that is dispatched in
the kernel executes (weak fairness in `Ipc`, strong fairness per thread in
`Semaphore`, since a preempted thread's statements are enabled only while it is on
the CPU). In `ipc_live` a server thread that gets the CPU again and again
eventually serves (strong fairness of `Serve`), an assumption on the server
program, not on the kernel.

## 4. Findings

1. `semaphore_wait` on i386 can lose a wakeup for good (`semaphore_i386_wake`): it
   unlocks before it marks itself blocked. The same window lets the thread mark
   itself blocked while it is in the run queue.
2. `conn->owner` is overwritten when threads share a connection
   (`ipc_shared_connect`).

Not shown by a run of its own, as TLC shows each with a small change of a
configuration:

- `memory_alloc` (`memory.c:21-24`) and `vector_add` (`vector.c:29-30`) test and take in
  two steps without a lock, and on i386 a system call can be preempted in between. A
  frame is then given out twice (set `Preemptible = TRUE` in `MCArmPaging.cfg` to see
  `FramesDisjoint` fail). Two threads of a process that call `sys_clone` at the same time
  give their new threads one tid, and one of the two is lost from the table, although
  `vector.h:20` says "@return The index of the added element." (check `IdentifiersLeadBack`
  with four threads, one process and `FrameCount = 8` in `MCProcess.cfg`: 15 states).
- On i386 the idle thread cannot be dispatched. `registers_set_kernel_mode` sets `cs` to
  `0x08 | 0x3` and `ds`, `gs` and `ss` to `0x10 | 0x3` (`cpu.h:24-27`), which ask for level 3
  in segments of level 0 (`gdt.S:34-39`): `pop %gs` (`irq.S:23`) raises an exception in the
  kernel, which nobody handles, and `iret` would. `scheduler.c:18` says "create idle
  thread in system mode". (Drop the last disjunct of the fault in `FaultsExplained` to
  see it fail.)

Others: `vector_set` and `vector_get` accept an index equal
to the size, although `vector.h:27` says "Does nothing if the index is out of
bounds." (set `AnyIndex = TRUE` in `MCHeap.cfg` to see `CountExact` fail);
`process_create` means to "clear argv and envp" (`process.c:39`) and clears twelve
bytes in the lower half of the page; two threads of one process inside
`process_sbrk` can lose a page (set `SharedHeap = TRUE` in `MCProcess.cfg` to see
`HeapBacked` fail).

Stated as exceptions in the properties, which show that nothing else of the kind
happens:

- `handle_syscall` on i386 moves `%esp` above the frame that `iret` needs and back
  with interrupts enabled (`irq.S:55-57`); an interrupt there overwrites it
  (`FaultsExplained`, `torn`).
- On i386 the stack pointer for the next entry is 4 bytes too low after interrupts
  and system calls, and 40 bytes after a switch (`irq.S:20`, `:55`, `:85`), so that a
  kernel stack is used up in time; `thread.c:16` places its top 1024 bytes into a
  block of 4096 (`FaultsExplained`, "overflow").
- `swi_handler` on ARM does not save SPSR across a switch (`init.S:145`): a program
  may go on with the condition flags of another one (`UserStateKept`).
- The frame of the idle thread on ARM unmasks interrupts before it is used up, and
  `idle_thread->regs` always points to it (`FaultsExplained`, `torn`).
- System call numbers equal to the size of the table or negative pass the test of
  `syscall` (`FaultsExplained`).
- The idle thread of i386, as above (`FaultsExplained`).
- Two threads that take the same frame or place on i386, as above
  (`AddressSpacesDisjoint`).
- The sizes of a message's pieces may wrap (`MessageDelivered`), and an empty reply
  loses its block (`NothingLeaks`).
- `paging_map` on ARM does not clear a new page table (`ArmTranslationCurrent`).
- `%b` falls through to `%s`, and a format that ends in `%` is read beyond its end
  (`PrintedAsAsked`); a backspace in the first cell writes before the screen
  (`ScreenShowsText`).

Seen while modelling and stated as restrictions of the properties in `Irq`
(`Served`, `UnregisteredMasked`): lines of the second PIC can never be unmasked
(the 8-bit mask loses the bit, and the cascade line stays masked); `irq_disallow`
of the icp driver is empty; the BCM2835 driver ignores two of its three banks; on
the Integrator/CP an active line below the timer's number that was ever registered is
served first and can keep the timer waiting (`TimerServed` excepts it; a line that the
controller masks never does).

## 5. Proofs

Every theorem holds for every value of the constants that satisfies the named
assumptions of the modules, which TLC also evaluates on the instances. The inductive
invariants were checked by TLC on the instances of section 3 before they were proved
(that of `Process` but for the parts that quantify over the roles of all frames, which
TLC cannot enumerate). The proofs are built alike: what the C functions do is stated as lemmas about the operators; each action
has a lemma that it preserves the invariant; the theorem combines them.

| Theorem | States | About |
|---|---|---|
| `TypeCorrect`, `RunQueueCorrect`, `NoThreadForgotten` | `[]TypeOK`, `[]RunQueueIntact`, `[]ReadyThreadsQueued` | `SchedulerFifo` |
| `Refinement`, `OffCpu` | `RefinesFifo`, `DeadAndWaitingStayOffCpu` | `SchedulerFifo` |
| `TokensAlwaysConserved`, `ListsNeverMix`, `HandlerFindsLockFree` | `[]TokensConserved`, `[]ListsDisjoint`, `[]HandlerNeverSpins` | `Semaphore`, not preemptible |
| `ImplementsCounting` | `RefinesCounting` | `Semaphore`, not preemptible |
| `SlotAlwaysHandedAround`, `ReplyTableStaysExact`, `MessagesLeadBack`, `WaitersStayBlocked`, `PoliteProgramsNeverFault` | `[]SlotHandedAround`, `[]ReplyTableExact`, `[]MessageLeadsBack`, `[]NoWaitWithoutToken`, `[]NoFault` | `Ipc`, under rules |
| `SendersGetTheirReply` | `SenderGetsOwnReply` | `Ipc`, under rules |
| `FramesStayDisjoint`, `FramesStayConserved`, `RunsStayAligned` | `[]FramesDisjoint`, `[]FramesConserved`, `RunsAligned` | `Frames`, not preemptible |
| `ArmTranslationsStayCurrent`, `ArmFramesStayPartitioned` | `[]ArmTranslationCurrent`, `[](FramesDisjoint /\ FramesConserved)` | `ArmPaging`, not preemptible |
| `UnregisteredStaysMasked` | `[]UnregisteredMasked` | `Irq` |
| `TranslationCurrentHolds`, `WindowReleasedHolds` | `[]TranslationCurrent`, `[]WindowReleased` | `Process` |
| `PagesDisjointHolds`, `IdentifiersLeadBackHolds` | `PagesDisjoint` and `IdentifiersLeadBack`, the parts of `AddressSpacesDisjoint`, hold until two threads have taken the same frame or place (`halted = "raced"`) | `Process` |
| `AddressSpacesDisjointHolds`, `HeapBackedHolds` | `[]AddressSpacesDisjoint`, `[]HeapBacked` | `Process`, not `SharedHeap` |
| `ArmDivides`, `KputnDivides` | `[]ResultCorrect` | `ArmDiv` on its own, and under `Kprint` |
| `KputnStaysInBuffer` | `[]WithinBuffer`, a part of `PrintedAsAsked` | `Kprint` |

*Scheduler.* `IInv`, the conjunction of `TypeOK`, `RunQueueIntact` and
`ReadyThreadsQueued` (with the type of the history variable), is inductive, none of
the parts is: that enqueueing keeps the pointers a list needs the new thread not to
be in it, which follows from `ReadyThreadsQueued`; that the thread taken from the
head is runnable needs the pointers to be the list `fifo`. For the refinement
`fifo`, `current` and `state` are the mapping; every step of `HNext` is a `Rotate`,
`Stop` or `Admit`.

*Chains.* `Hop` walks along `next` by a recursive function. `ThreadListProofs` shows
that it exists (by the well-foundedness of the natural numbers, since induction
with an operator parameter is out of reach), and from it `ChainLemma`: if the
pointers link the sequence `q` (`Linked`), then `Ends`, `Chain`, `ChainSeq` and
`LastOf` are what `q` says. Chains end within as many steps as there are threads, so
`ThreadsAssumption` (there are finitely many thread control blocks) is needed.

*Semaphore*, with `~Preemptible` (ARM), for any number of threads, tokens and
signals. The invariant `GInv` speaks about two sequences: `w`, the threads in the
semaphore's queue, and `r`, those in the run queue. It says where a thread in
either list may be (`InRunQueue`, `InSemQueue`), that only the thread on the CPU is
inside the kernel (`OneInKernel`), that a thread `semaphore_signal` took off the
queue is in neither list until it joins the run queue (`Handing`), that nothing read
from shared memory changes before it is used (`Undisturbed`), and that the tokens
add up (`Balance`). `StepLemma` gives for each step the new `w` and `r`, from which the
step of the counting semaphore can be read off.

*Message passing* (ARM), for any number of processes, threads, channels and
connections, under the rules in `Polite`: `own_connect`, `one_channel`, `valid_ids`,
`quiet_free` and `data_first`. Neither of the two rules that only liveness needs is
assumed. The invariant `IInv`:

- `Lists`: the run queue holds the threads that may run and do not, and the queue of
  each semaphore those that are blocked on it; `ListsHold` keeps any number of lists
  over one link field apart. `ScheduleLists`, `BlockLists`, `UnblockLists`, `SignalLists`
  and `WaitLists` are what scheduler and semaphores do to them.
- `Callers`, `OwnChannels`, `OwnConnects`: a thread halfway through a call uses objects
  that exist and are its own; an identifier leads to one object and no other does.
- `Slots`: the right to the message slot is in one of four places.
- `Replies`, `Messages`: the reply table of a channel and the senders that wait for a
  reply correspond one to one; an entry's message is in the slot or pending at the
  server, not both.
- `Answers`: a connection holds data only while its owner is about to return with it.

None of the properties is inductive: that a reply wakes a blocked sender needs
`Messages`, which needs `Replies` and `Slots` (a second message in the slot would
overwrite `recvid`), which needs `Lists` (the thread that a signal takes off the queue
is the one that waits at that semaphore). `DepositStep`, `CollectStep` and `WaitStep`
are shared by the two ways into each: at once, or after a switch. The initial run
queue is given by `BootedSched` in closed form; that it is what creating the threads
in `BootOrder` leaves is an assumption of `MCIpc` that TLC evaluates.

*Physical memory,* `~Preemptible`, for any size of the bitmap and any requests. The
invariant adds that at most one caller is between finding and taking; `LowestExists`
shows that the scan finds a free frame if there is one. `RunsStayAligned` needs that
an alignment divides the number of bits in an element of the bitmap
(`AlignmentAssumption`), which holds for all that the kernel asks for.

*Paging on ARM,* over that allocator and its other callers. `AInv` adds that every
frame of a context, table or page is held in the name of its process (`OwnFrames`),
that no page of a process lies in one of its tables (`PagesApart`), that a process with
a stack and the one that runs have a context (`HaveContext`) and that what the CPU has cached is what the
tables give (`CacheCurrent`). `Fits(2, 2^2)` is how `ArmPaging` asks for aligned pairs.

*Processes and paging on i386,* for any size of memory, tables, kernel mapping area
and heap, any number of processes and threads, and any preemption at the points that
`Process` models, up to the step in which two threads take the same frame or place.
`SpacesInv` is the conjunction of:

- `Types`, with `Quiet`: between two handlers no page is left in the kernel mapping
  area, and none of it in the TLB;
- `Callers`: the run queue holds the threads that are ready and do not run, and only
  threads of a live process are inside `sbrk` or `clone`;
- `Named`: what process and thread identifiers lead to leads back (`Identifiers`),
  unless "raced";
- `AddressSpaces`: every frame has at most one use (`Uses`). It is the directory of an
  address space, the second directory by which its tables are seen, the table or the
  page at one place of it, taken by one thread inside `sbrk` that has not mapped it yet,
  or free. What was never used is as it was at boot, and a page holds nothing of
  another process (`Contents`);
- `Current`: `TranslationCurrent`, and the directory in use is that of a live process
  or of the boot code.

`PagesDisjoint` is not inductive because an entry written through the recursive
mapping lands in the right table only if the TLB is current, and the TLB stays current
only if no table is written as if it were a page. The lemmas about `Paging` say what
`paging_create_context`, `paging_map` and its kernel mapping do to memory, TLB and
roles.

`HeapOK` is proved on top of it, where `~SharedHeap`: `HeapShape` says which pages of a
heap are backed, `InLoop` what a thread inside `sbrk` has reached. With two threads of
a process inside `sbrk` at once `HeapBacked` does not hold; separation, current
translations and the release of the mapping area do not need the restriction, and
their theorems are stated without it. `ProcessAssumption` demands what the address map
of the kernel gives: user pages are below the kernel, a heap is smaller than half of
the numbers of a word (so that the signed increments of `sbrk` are what they look
like), and `sbrk` is asked for something.

*Division and `kputn`,* for registers of any width. `Pow2` is a recursive function, which
exists by the well-foundedness of the natural numbers. `DivInv` says that dividend,
remainder, quotient bits and the bits still to come add up (`Running`, as in
`LoopInvariant`), and that a divisor with its highest bit set leaves a single pass with a
dividend that has it too: without that, the difference `d - r - 1`, whose sign decides
whether the divisor fits, would not fit an `int`. `StartLoop`, `PassLoop` and
`FinishLoop` are the arithmetic of the steps, `ReturnLemma` the signs. For `kputn`,
`NumberInv` adds that the number that is left times two to the power of the digits
counted does not exceed the number printed. `KprintAssumption` asks for five bits, so
that the radix 16 is a word, and for a buffer that is longer than a word (65 and 32 in
the code). The theorem shows that the test `digits > 65` (`kprint.c:71`), which lets one
digit too many pass, is never needed.

*Interrupts,* for each driver and any number of lines: every enable bit belongs to a
registered line (`BitsOwned`).

Only model-checked:

- all liveness (`NoStarvation`, `SignalWakes`, `SendCompletes`, `TimerServed`,
  `LoneIrqServed`, ...): fairness and ENABLED are out of reach;
- `Preemptible = TRUE`, where the properties do not hold;
- `MessageDelivered` (`Heap`), the printed text and the screen (`PrintedAsAsked`,
  `ScreenShowsText`): what a fold computes for every sequence would need induction
  over data;
- `BlocksDisjoint`, `NothingLeaks`, `CountExact` and the refinement of the slot table
  (`Heap`), and `ContextSwitch`: not proved yet.

## 6. Not modelled

- Descriptor layout and the static descriptor tables; the boot sequence, which runs
  once before anything else; device registers of timers and serial ports.
- The exception entry of ARM and `exception`, which print and stop.
- `sys_log`, `sys_print`, `sys_uname`, `sys_sysinfo`, `sys_getpid` and the like, which
  change no kernel state; `sys_reboot`, `sys_wait`, `sys_fork` and `process_kill`, which
  do nothing.
- `string.c`: `memcpy` and `memset` appear as their effects; the others have no caller
  in the kernel.
- Functions nobody calls: `paging_getphys`, `thread_delete`, `process_remove_thread`.

## 7. Plan

Done: scheduler, semaphores, message passing with its data, vectors and heap,
physical memory, processes and paging on both kernels, interrupts, entry code and
context switch, console output, division; proofs about scheduler, semaphores,
message passing, physical memory, processes, paging on both kernels, interrupts,
division and `kputn`. Next:

1. Proofs: vector count and disjoint blocks (`Heap`), registers and stacks across a
   context switch (`ContextSwitch`).
2. A heap, a message system and a `paging_map` that can be preempted (i386).
