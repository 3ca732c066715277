----------------------------- MODULE EntryI386 ------------------------------
(***************************************************************************)
(* kernel/arch/i386/irq.S, word by word.  An interrupt gate clears IF, the *)
(* gate of the system calls does not, so that a system call can be         *)
(* interrupted at every instruction until it switches for the first time   *)
(* (arch_switch_task saves the flags after cli).                           *)
(*                                                                         *)
(* In the kernel eip names the place: "boot" (main's loop), "idle", "call" *)
(* (in a handler), "fail" (syscall is about to return -1), "exit" (between *)
(* the two adjustments of %esp at the end of handle_syscall).              *)
(***************************************************************************)
EXTENDS Entry

Pusha == <<"eax", "ecx", "edx", "ebx", "esp", "ebp", "esi", "edi">>
Segments == <<"ds", "gs">>
HardwareFrame(user) == IF user THEN <<"ss", "usr_esp", "eflags", "cs", "eip">>
                       ELSE <<"eflags", "cs", "eip">>

\* struct registers, from its last field to its first.
Frame(user) == HardwareFrame(user) \o <<"err", "irq">> \o Pusha \o Segments

General == {"eax", "ecx", "edx", "ebx", "ebp", "esi", "edi"}
I386Reg == {Frame(TRUE)[i] : i \in DOMAIN Frame(TRUE)}

\* The registers of a program; err, irq and the copy of esp are ignored.
Ignored == {"err", "irq", "esp"}
I386User(t) == [r \in I386Reg |-> IF r \in Ignored THEN K("none") ELSE Own(t, r)]

\* The registers in the kernel, at the given place.
I386Kernel(t, place, flags) ==
  [r \in I386Reg |->
     CASE r \in General -> InC(t)
       [] r \in {"ds", "gs", "ss"} -> K("data")
       [] r = "cs" -> K("code")
       [] r = "eip" -> K(place)
       [] r = "eflags" -> K(flags)
       [] OTHER -> K("none")]

InUser == cpu["cs"] # K("code")
InKernelAt(places) == cpu["cs"] = K("code") /\ \E p \in places : cpu["eip"] = K(p)

I386NewFrame(t) == Words(I386User(t), Frame(TRUE))

\* registers_set_kernel_mode for the idle thread: its selectors name the kernel's
\* segments and ask for the privilege level of programs ("user's code").
I386IdleFrame ==
  Words([I386Kernel(Idle, "idle", "on") EXCEPT !["cs"] = K("user's code"),
           !["ss"] = K("user's data"), !["ds"] = K("user's data"), !["gs"] = K("user's data")],
        Frame(TRUE))

\* A value that a segment register accepts: one of a program, or the kernel's.
\* The level that a selector asks for must be that of the segment (gdt.S), or the
\* CPU raises an exception.
IsSelector(x) == x = K("data") \/ \E t \in Threads, r \in {"ds", "gs"} : x = Own(t, r)
IsCode(x) == x = K("code") \/ \E t \in Threads : x = Own(t, "cs")

-----------------------------------------------------------------------------

\* The registers that the frame at f restores: pops of gs and ds, popa, iret.
\* A return to the kernel leaves the stack of the kernel in place.
Popped(stk, f) ==
  LET user == WordAt(stk, f, 13) # K("code")
      names == Frame(TRUE)
      place(r) == Len(names) - (CHOOSE i \in DOMAIN names : names[i] = r)
  IN  [r \in I386Reg |->
         CASE r \in Ignored -> K("none")
           [] r = "ss" /\ ~user -> K("data")
           [] r = "usr_esp" /\ ~user -> K("none")
           [] OTHER -> WordAt(stk, f, place(r))]

\* Faulty variant: one of the two words below the hardware's frame stays.
leave_one_word_low(stk, f, up) ==
  LET regs == Popped(stk, f)
      user == regs["cs"] # K("code")
      top == At(f.owner, f.depth - up)
  IN
  /\ cpu' = IF regs["eip"] = K("task_switch_ret") THEN [regs EXCEPT !["eip"] = K("call")]
            ELSE regs
  /\ esp0' = top
  /\ sp' = IF user THEN top ELSE At(f.owner, f.depth - 14)
  /\ stack' = [stk EXCEPT ![f.owner] = IF user THEN Dead(top.depth) ELSE SubSeq(@, 1, sp'.depth)]
  /\ UNCHANGED halted

\* Leave the kernel through the frame at f.  esp0 points up words above it.
\* Words that nobody reads again are dropped: those below the stack pointer, but
\* not at "exit", and those above esp0.  task_switch_ret returns to the caller.
\* Selectors that the CPU rejects bring the kernel down: the exception comes in
\* the kernel, nobody handles it, and the same instruction runs again.
Leave(stk, f, up) ==
  LET regs == Popped(stk, f)
      user == regs["cs"] # K("code")
      ret == regs["eip"] = K("task_switch_ret")
      depth == f.depth - 15 - (IF ret THEN 1 ELSE 0)
      top == At(f.owner, f.depth - up)
  IN
  IF ~IsSelector(regs["gs"]) \/ ~IsSelector(regs["ds"]) \/ ~IsCode(regs["cs"])
  THEN halted' = "fault" /\ UNCHANGED <<cpu, esp0, sp, stack>>
  ELSE
  /\ cpu' = IF ret THEN [regs EXCEPT !["eip"] = WordAt(stk, f, 15)] ELSE regs
  /\ esp0' = top
  /\ sp' = IF user THEN top ELSE At(f.owner, depth)
  /\ stack' = [stk EXCEPT ![f.owner] = CASE user -> Dead(top.depth)
                                          [] regs["eip"] = K("exit") -> @
                                          [] OTHER -> SubSeq(@, 1, sp'.depth)]
  /\ UNCHANGED halted

\* handle_irq around irq_handle: the timer schedules, the handlers of other
\* lines return the frame they got.
handle_irq(timer) ==
  LET base == IF InUser THEN esp0 ELSE sp
      words == Words(cpu, Frame(InUser))
      depth == base.depth + Len(words)
      stk == [stack EXCEPT ![base.owner] = Pushed(@, base.depth, words)]
      next == Schedule(sch, depth, Len(I386IdleFrame))
  IN
  /\ Running /\ arch = "i386"
  /\ InUser \/ cpu["eflags"] = K("on")
  /\ IF depth > StackWords
     THEN Halt("overflow") /\ UNCHANGED torn
     ELSE /\ IF timer
             THEN Leave(stk, next.frame, 16) /\ sch' = next.sch /\ saved' = next.saved
             ELSE Leave(stk, At(base.owner, depth), 16) /\ UNCHANGED <<sch, saved>>
          /\ torn' = (torn \/ InKernelAt({"exit"}))
          /\ UNCHANGED arch
  /\ UNCHANGED <<number, spsr>>

\* handle_syscall up to the call of the handler.  The compiled code keeps the
\* registers that its caller expects back.
CalleeSaved == <<"ebp", "esi", "edi">>
Arguments == <<"edi", "edx", "ecx", "ebx", "eax">>

handle_syscall(n) ==
  LET t == sch.current
      words == Words(cpu, HardwareFrame(TRUE) \o Segments \o Arguments \o CalleeSaved)
      depth == esp0.depth + Len(words)
  IN
  /\ Running /\ arch = "i386" /\ InUser
  /\ IF depth > StackWords THEN Halt("overflow") /\ UNCHANGED number
     ELSE \E place \in Dispatch(n) :
            IF place = "wild" THEN Halt("fault") /\ number' = n
            ELSE /\ stack' = [stack EXCEPT ![esp0.owner] = Pushed(@, esp0.depth, words)]
                 /\ sp' = At(esp0.owner, depth)
                 /\ cpu' = I386Kernel(t, place, "on")
                 /\ UNCHANGED <<arch, sch, saved, number, halted, esp0>>
  /\ UNCHANGED <<torn, spsr>>

\* syscall returns; "remove args from stack and save %esp to tss".
SyscallDone ==
  LET n == Len(CalleeSaved)
      depth == sp.depth - n
  IN
  /\ Running /\ arch = "i386" /\ InKernelAt({"call", "fail"})
  /\ cpu' = [r \in I386Reg |->
               IF r = "eip" THEN K("exit")
               ELSE IF \E i \in DOMAIN CalleeSaved : CalleeSaved[i] = r
               THEN WordAt(stack, sp, n - (CHOOSE i \in DOMAIN CalleeSaved : CalleeSaved[i] = r))
               ELSE cpu[r]]
  /\ stack' = [stack EXCEPT ![sp.owner] = SubSeq(@, 1, depth)]
  /\ sp' = At(sp.owner, depth - 11)
  /\ esp0' = sp'
  /\ UNCHANGED <<arch, sch, saved, number, halted, torn, spsr>>

\* The rest of handle_syscall: back by six words, gs, ds (through ebx), iret.
\* eax holds the result, ebx what was popped for ds, ecx and edx what C code left:
\* programs are taken to expect that, and these are their values from now on.
SyscallReturn ==
  LET t == sch.current
      f == At(sp.owner, sp.depth + 6)
      gs == WordAt(stack, f, 0)
      ds == WordAt(stack, f, 1)
      cs == WordAt(stack, f, 3)
  IN
  /\ Running /\ arch = "i386" /\ InKernelAt({"exit"})
  /\ IF ~IsSelector(gs) \/ ~IsSelector(ds)
     THEN Halt("fault")
     ELSE /\ cpu' = [r \in I386Reg |->
                       CASE r = "gs" -> gs [] r = "ds" -> ds [] r = "cs" -> cs
                         [] r = "eip" -> WordAt(stack, f, 2)
                         [] r = "eflags" -> WordAt(stack, f, 4)
                         [] r = "usr_esp" -> WordAt(stack, f, 5)
                         [] r = "ss" -> WordAt(stack, f, 6)
                         [] r \in {"eax", "ebx", "ecx", "edx"} -> Own(t, r)
                         [] OTHER -> cpu[r]]
          /\ stack' = [stack EXCEPT ![sp.owner] = Dead(esp0.depth)]
          /\ sp' = esp0
          /\ UNCHANGED <<arch, sch, saved, halted, esp0>>
  /\ UNCHANGED <<number, torn, spsr>>

\* arch_switch_task, called by a handler that leaves the CPU: cli, and a frame
\* that looks like that of an interrupt and resumes behind the call.
I386Switch(why) ==
  LET regs == [cpu EXCEPT !["eflags"] = K("off"), !["eip"] = K("task_switch_ret")]
      words == <<cpu["eip"]>> \o Words(regs, Frame(FALSE))
      depth == sp.depth + Len(words)
      stk == [stack EXCEPT ![sp.owner] = Pushed(@, sp.depth, words)]
      next == Schedule(Stopped(why), depth, Len(I386IdleFrame))
  IN
  /\ Running /\ arch = "i386" /\ InKernelAt({"call"})
  /\ IF depth > StackWords
     THEN Halt("overflow")
     ELSE /\ Leave(stk, next.frame, 7)
          /\ sch' = next.sch /\ saved' = next.saved
          /\ UNCHANGED arch
  /\ UNCHANGED <<number, torn, spsr>>

\* The handlers that change other threads: sys_clone, and a signal or reply.
\* The boot code creates the first processes before it enables interrupts.
I386Create(t) ==
  /\ Running /\ arch = "i386"
  /\ InKernelAt({"call"}) \/ (InKernelAt({"boot"}) /\ cpu["eflags"] = K("off"))
  /\ NewThread(t, I386NewFrame(t))

I386Wake(t) ==
  /\ Running /\ arch = "i386" /\ InKernelAt({"call"})
  /\ Wake(t)

I386Init ==
  /\ arch = "i386"
  /\ cpu = I386Kernel(Boot, "boot", "off")
  /\ stack = [o \in Owner |-> IF o = Idle THEN I386IdleFrame ELSE <<>>]

\* main calls irq_enable at the end.
I386IrqEnable ==
  /\ Running /\ arch = "i386" /\ InKernelAt({"boot"}) /\ cpu["eflags"] = K("off")
  /\ cpu' = [cpu EXCEPT !["eflags"] = K("on")]
  /\ UNCHANGED <<arch, sch, stack, sp, saved, number, halted, esp0, torn, spsr>>

I386Next ==
  \/ \E timer \in BOOLEAN : handle_irq(timer)
  \/ \E n \in Numbers : handle_syscall(n)
  \/ SyscallDone
  \/ SyscallReturn
  \/ \E why \in {"READY", "SEMA", "DEAD"} : I386Switch(why)
  \/ \E t \in Threads : I386Create(t)
  \/ \E t \in Threads : I386Wake(t)
  \/ I386IrqEnable
=============================================================================
