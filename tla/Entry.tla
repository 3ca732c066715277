------------------------------- MODULE Entry --------------------------------
(***************************************************************************)
(* What the exception entries of both kernels have in common: the CPU's    *)
(* registers, one kernel stack per thread, the pointer thread->regs to the *)
(* frame from which a thread resumes, the dispatch of system calls, and    *)
(* what the C code behind the entries does to threads.                     *)
(*                                                                         *)
(* A kernel stack is the sequence of the words pushed on it, the highest   *)
(* address first; a stack pointer is a stack and the number of words above *)
(* it.  A register holds Own(t, r) while the program of thread t runs,     *)
(* InC(t) while the kernel's C code works for t, and K(x) for the kernel's *)
(* constants and places.                                                   *)
(***************************************************************************)
EXTENDS SchedOps, Integers, Sequences

CONSTANTS
  Idle,        \* the idle thread
  Boot,        \* the stack main runs on
  StackWords,  \* words of a kernel stack
  TableSize,   \* entries of syscall_table
  Handlers,    \* system call numbers with a handler
  Numbers      \* system call numbers that programs use

ASSUME EntryAssumption ==
  /\ StackWords \in Nat /\ TableSize \in Nat
  /\ Handlers \subseteq 0..(TableSize - 1) /\ Numbers \subseteq Int
  /\ {Idle, Boot} \cap (Threads \cup {NULL}) = {} /\ Idle # Boot

VARIABLES
  arch,    \* "arm" or "i386"
  sch,     \* the scheduler, see SchedOps
  cpu,     \* the registers
  stack,   \* the kernel stacks
  sp,      \* the kernel's stack pointer
  saved,   \* thread->regs, as a number of words above it
  number,  \* the system call number that led outside the table
  halted,  \* "no", or how the kernel died
  esp0,    \* i386: the field of the tss that names the stack for the next entry
  torn,    \* an interrupt overwrote a frame that was still to be used
  spsr     \* ARM: SPSR of the supervisor mode

vars == <<arch, sch, cpu, stack, sp, saved, number, halted, esp0, torn, spsr>>

Owner == Threads \cup {Idle, Boot}
At(owner, depth) == [owner |-> owner, depth |-> depth]

Own(t, r) == <<t, r>>
InC(t) == <<t, "C">>
K(x) == <<"kernel", x>>

Running == halted = "no"

\* The words of the given registers, in the order in which they are pushed.
Words(regs, names) == [i \in DOMAIN names |-> regs[names[i]]]

\* A stack on which words have been pushed at depth d, over whatever was there.
Pushed(words, d, more) == SubSeq(words, 1, d) \o more

\* A stack with d words in use that nobody reads again.
Dead(d) == [i \in 1..d |-> K("none")]

\* The word that is k words above the stack pointer f.
WordAt(stk, f, k) == stk[f.owner][f.depth - k]

-----------------------------------------------------------------------------

\* scheduler_schedule(regs): the new scheduler state, the frame pointers, and
\* the frame to resume; idle_thread->regs never changes.
Schedule(s, depth, idleDepth) ==
  LET s1 == scheduler_schedule(s)
      ptrs == IF s.current = NULL THEN saved ELSE [saved EXCEPT ![s.current] = depth]
  IN  [sch |-> s1, saved |-> ptrs,
       frame |-> IF s1.current = NULL THEN At(Idle, idleDepth)
                 ELSE At(s1.current, ptrs[s1.current])]

\* Faulty variant: every number above the last handler is looked up.
dispatch_unchecked(n) ==
  IF n \in Handlers THEN {"call"} ELSE IF n \in 0..(TableSize - 1) THEN {"fail"}
  ELSE {"fail", "wild"}

\* syscall(): where the kernel goes for number n: into a handler, back with -1,
\* or, if the number passes the test and is outside the table, wherever the
\* word there leads.
Dispatch(n) ==
  IF n > TableSize THEN {"fail"}
  ELSE IF n \notin 0..(TableSize - 1) THEN {"fail", "wild"}
  ELSE IF n \in Handlers THEN {"call"} ELSE {"fail"}

\* A handler leaves the CPU: sys_yield, a wait for a semaphore or a reply, or
\* process_exit.
Stopped(why) == IF why = "READY" THEN sch ELSE thread_block(sch, sch.current, why)

\* A new thread has a frame of its own on an otherwise empty stack.
NewThread(t, frame) ==
  /\ sch.state[t] = "FREE"
  /\ sch' = scheduler_enqueue_thread(thread_new(sch, t), t)
  /\ stack' = [stack EXCEPT ![t] = frame]
  /\ saved' = [saved EXCEPT ![t] = Len(frame)]
  /\ UNCHANGED <<arch, cpu, sp, number, halted, esp0, torn, spsr>>

\* A handler signals a semaphore or replies.
Wake(t) ==
  /\ sch.state[t] \in Blocked
  /\ sch' = thread_unblock(sch, t)
  /\ UNCHANGED <<arch, cpu, stack, sp, saved, number, halted, esp0, torn, spsr>>

\* The kernel dies.
Halt(why) ==
  /\ halted' = why
  /\ UNCHANGED <<arch, sch, cpu, stack, sp, saved, esp0>>
=============================================================================
