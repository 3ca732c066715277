---------------------------- MODULE ContextSwitch ---------------------------
(***************************************************************************)
(* Threads that are interrupted, make system calls, block and resume on    *)
(* either kernel: what the entry code saves and loads, seen from the       *)
(* programs and from the kernel's own C code.                              *)
(***************************************************************************)
EXTENDS EntryI386, EntryArm

Init ==
  /\ I386Init \/ ArmInit
  /\ sch = BootSched
  /\ sp = At(Boot, 0)
  /\ saved = [t \in Threads |-> 0]
  /\ number = 0
  /\ halted = "no"
  /\ esp0 = At(Boot, 0)
  /\ torn = FALSE
  /\ spsr = K("none")

Next == I386Next \/ ArmNext

Spec == Init /\ [][Next]_vars

-----------------------------------------------------------------------------

Pointers == [owner : Owner, depth : 0..StackWords]

TypeOK ==
  /\ sch \in Sched
  /\ sp \in Pointers /\ esp0.owner \in Owner
  /\ saved \in [Threads -> 0..StackWords]
  /\ \A o \in Owner : Len(stack[o]) <= StackWords
  /\ halted \in {"no", "fault", "overflow"} /\ torn \in BOOLEAN

User == IF arch = "arm" THEN ArmInUser ELSE InUser
Handler == IF arch = "arm" THEN ArmAt({"call", "fail"}) ELSE InKernelAt({"call", "fail"})

\* A program never notices that it was interrupted or that other threads ran
\* while it was in a system call: whenever it runs, every register is the one it
\* had (registers, handle_irq, irq_handler, arch_switch_task).  On ARM the
\* condition flags may be those of another program.
UserStateKept ==
  Running /\ User =>
    LET t == sch.current IN
    /\ t \in Threads
    /\ arch = "i386" => cpu = I386User(t)
    /\ arch = "arm" =>
         /\ \A r \in ArmReg \ {"svc_r14", "cpsr"} : cpu[r] = Own(t, r)
         /\ \E u \in Threads : cpu["cpsr"] = Own(u, "cpsr")

\* A handler that was preempted or switched away resumes on the stack of its own
\* thread, with its own registers, and finds above it what it will give back to
\* the program; on ARM its stack starts at the top again and again.
HandlerStateKept ==
  /\ TypeOK
  /\ Running /\ Handler =>
       LET t == sch.current IN
       /\ sp.owner = t
       /\ arch = "i386" =>
            /\ \A r \in General : cpu[r] = InC(t)
            /\ \A i \in DOMAIN CalleeSaved :
                 WordAt(stack, sp, Len(CalleeSaved) - i) = Own(t, CalleeSaved[i])
       /\ arch = "arm" =>
            /\ \A r \in {"r0", "r4", "r12"} : cpu[r] = InC(t)
            /\ \A r \in {"usr_r13", "usr_r14"} : cpu[r] = Own(t, r)
            /\ stack[t] = <<Own(t, "r15"), Own(t, "r4"), Own(t, "r12")>>

\* What brings the kernel down, and nothing else does: a system call number that
\* passes the test of syscall() and lies outside the table; an interrupt between
\* two given instructions (the end of handle_syscall on i386, the first dispatch
\* of the idle thread on ARM); on i386, and there only, any dispatch of the idle
\* thread (registers_set_kernel_mode) and a stack that is used up.
FaultsExplained ==
  /\ halted = "fault" =>
       torn \/ number = TableSize \/ number < 0 \/ (arch = "i386" /\ sch.current = NULL)
  /\ halted = "overflow" => arch = "i386"
=============================================================================
