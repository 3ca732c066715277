------------------------------ MODULE EntryArm ------------------------------
(***************************************************************************)
(* The exception entries of kernel/arch/arm/init.S.  The entries mask      *)
(* interrupts; handlers run to their end or to arch_switch_task.  "r0"     *)
(* stands for r0-r3 and "r4" for r4-r11, which are always saved together.  *)
(*                                                                         *)
(* In the kernel r15 names the place: "boot", "idle", "call" (in a         *)
(* handler), "fail" (syscall is about to return -1), and "leave": at the   *)
(* end of a frame's restoration, behind "msr cpsr, r0".                    *)
(***************************************************************************)
EXTENDS Entry

\* struct registers, from its last field to its first.
ArmFrame == <<"spsr", "r15", "r12", "r4", "r0", "svc_r14", "cpsr", "usr_r14", "usr_r13">>
ArmReg == {"cpsr", "r15", "r12", "r4", "r0", "svc_r14", "usr_r14", "usr_r13"}

\* User mode, and the modes of the kernel with interrupts masked or not.
ArmMode == {"masked", "open"}
ArmInUser == \A mode \in ArmMode : cpu["cpsr"] # K(mode)
ArmAt(places) == ~ArmInUser /\ \E p \in places : cpu["r15"] = K(p)

\* The registers of a program; the supervisor's r14 is not among them.
ArmUser(t) == [r \in ArmReg |-> IF r = "svc_r14" THEN K("none") ELSE Own(t, r)]

\* The frame that saves regs, taken with the CPU in mode, to resume at place.
ArmSaved(regs, spsr_, r15_, mode) ==
  [i \in DOMAIN ArmFrame |->
     CASE ArmFrame[i] = "spsr" -> spsr_
       [] ArmFrame[i] = "r15" -> r15_
       [] ArmFrame[i] = "cpsr" -> mode
       [] OTHER -> regs[ArmFrame[i]]]

\* registers_init leaves zero in cpsr: a mode that does not exist, which is taken
\* to be ignored as the emulator does, and interrupts not masked.
ArmNewFrame(t) == ArmSaved(ArmUser(t), Own(t, "cpsr"), Own(t, "r15"), K("open"))
ArmIdleFrame ==
  ArmSaved([r \in ArmReg |-> InC(Idle)], K("open"), K("idle"), K("open"))

-----------------------------------------------------------------------------

FrameWord(stk, f, r) ==
  WordAt(stk, f, Len(ArmFrame) - (CHOOSE i \in DOMAIN ArmFrame : ArmFrame[i] = r))

\* Faulty variant: the registers of the user mode are not loaded.
restore_without_user_bank(regs, stk, f) ==
  [regs EXCEPT !["svc_r14"] = FrameWord(stk, f, "svc_r14"),
               !["cpsr"] = FrameWord(stk, f, "cpsr"), !["r15"] = K("leave")]

\* The first half of a restoration: the user's r13 and r14, then r14 and the
\* status of the supervisor mode.  Four words are gone then.
FirstHalf(regs, stk, f) ==
  [regs EXCEPT !["usr_r13"] = FrameWord(stk, f, "usr_r13"),
               !["usr_r14"] = FrameWord(stk, f, "usr_r14"),
               !["svc_r14"] = FrameWord(stk, f, "svc_r14"),
               !["cpsr"] = FrameWord(stk, f, "cpsr"), !["r15"] = K("leave")]

\* The second half, r0-r12 and rfe; arch_switch_task's frame resumes at a jump
\* to r14.
SecondHalf(regs, stk, f) ==
  LET r15_ == WordAt(stk, f, 3)
  IN  [regs EXCEPT !["r0"] = WordAt(stk, f, 0), !["r4"] = WordAt(stk, f, 1),
                   !["r12"] = WordAt(stk, f, 2), !["cpsr"] = WordAt(stk, f, 4),
                   !["r15"] = IF r15_ = K("ret") THEN regs["svc_r14"] ELSE r15_]

\* Resume from frame f.  Where the frame unmasks interrupts one may come between
\* the halves.  A frame whose status word is none kills the kernel.
ArmResume(regs, stk, f) ==
  LET half == FirstHalf(regs, stk, f)
      g == At(f.owner, f.depth - 4)
      open == half["cpsr"] = K("open")
  IN
  /\ halted' = IF \E mode \in ArmMode : half["cpsr"] = K(mode) THEN "no" ELSE "fault"
  /\ cpu' = IF open THEN half ELSE SecondHalf(half, stk, g)
  /\ sp' = IF open THEN g ELSE At(f.owner, f.depth - Len(ArmFrame))
  /\ stack' = [stk EXCEPT ![f.owner] = SubSeq(@, 1, sp'.depth)]

rfe ==
  /\ Running /\ arch = "arm" /\ ArmAt({"leave"})
  /\ cpu' = SecondHalf(cpu, stack, sp)
  /\ sp' = At(sp.owner, sp.depth - 5)
  /\ stack' = [stack EXCEPT ![sp.owner] = SubSeq(@, 1, sp'.depth)]
  /\ UNCHANGED <<arch, sch, saved, number, halted, esp0, torn, spsr>>

\* irq_handler around irq_handle.  While C code runs, the registers it may use
\* are those of nobody.
irq_handler(timer) ==
  LET words == ArmSaved(cpu, cpu["cpsr"], cpu["r15"], K("masked"))
      depth == sp.depth + Len(words)
      stk == [stack EXCEPT ![sp.owner] = Pushed(@, sp.depth, words)]
      inC == [cpu EXCEPT !["r0"] = K("none"), !["r12"] = K("none"),
                         !["svc_r14"] = K("none")]
      next == Schedule(sch, depth, Len(ArmFrame))
  IN
  /\ Running /\ arch = "arm"
  /\ ArmInUser \/ cpu["cpsr"] = K("open")
  /\ IF depth > StackWords
     THEN Halt("overflow") /\ UNCHANGED torn
     ELSE /\ IF timer
             THEN ArmResume(inC, stk, next.frame) /\ sch' = next.sch /\ saved' = next.saved
             ELSE ArmResume(inC, stk, At(sp.owner, depth)) /\ UNCHANGED <<sch, saved>>
          /\ torn' = (torn \/ (ArmAt({"leave"}) /\ sp.owner = Idle))
          /\ UNCHANGED <<arch, esp0>>
  /\ UNCHANGED <<number, spsr>>

\* swi_handler up to the call of the handler.  lr and the status of the program
\* are in r14 and SPSR of the supervisor mode; only lr is pushed.
swi_handler(n) ==
  LET t == sch.current
      words == <<cpu["r15"], cpu["r4"], cpu["r12"]>>
      depth == sp.depth + Len(words)
  IN
  /\ Running /\ arch = "arm" /\ ArmInUser
  /\ IF depth > StackWords THEN Halt("overflow") /\ UNCHANGED <<number, spsr>>
     ELSE \E place \in Dispatch(n) :
            IF place = "wild" THEN Halt("fault") /\ number' = n /\ UNCHANGED spsr
            ELSE /\ spsr' = cpu["cpsr"]
                 /\ stack' = [stack EXCEPT ![sp.owner] = Pushed(@, sp.depth, words)]
                 /\ sp' = At(sp.owner, depth)
                 /\ cpu' = [cpu EXCEPT !["r0"] = InC(t), !["r4"] = InC(t), !["r12"] = InC(t),
                                       !["svc_r14"] = K(place), !["r15"] = K(place),
                                       !["cpsr"] = K("masked")]
                 /\ UNCHANGED <<arch, sch, saved, number, halted, esp0>>
  /\ UNCHANGED torn

\* The rest of swi_handler.  The status comes from SPSR, which the system calls of
\* other threads share; r0-r3 and r14 of the program are not preserved by calls.
ArmSyscallReturn ==
  LET t == sch.current IN
  /\ Running /\ arch = "arm" /\ ArmAt({"call", "fail"})
  /\ cpu' = [cpu EXCEPT !["r12"] = WordAt(stack, sp, 0), !["r4"] = WordAt(stack, sp, 1),
                        !["r15"] = WordAt(stack, sp, 2), !["cpsr"] = spsr,
                        !["r0"] = Own(t, "r0"), !["svc_r14"] = K("none")]
  /\ sp' = At(sp.owner, sp.depth - 3)
  /\ stack' = [stack EXCEPT ![sp.owner] = SubSeq(@, 1, sp'.depth)]
  /\ UNCHANGED <<arch, sch, saved, number, halted, esp0, torn, spsr>>

\* arch_switch_task, called by a handler that leaves the CPU.
ArmSwitch(why) ==
  LET words == ArmSaved(cpu, cpu["cpsr"], K("ret"), K("masked"))
      depth == sp.depth + Len(words)
      stk == [stack EXCEPT ![sp.owner] = Pushed(@, sp.depth, words)]
      next == Schedule(Stopped(why), depth, Len(ArmFrame))
  IN
  /\ Running /\ arch = "arm" /\ ArmAt({"call"})
  /\ IF depth > StackWords
     THEN Halt("overflow")
     ELSE /\ ArmResume(cpu, stk, next.frame)
          /\ sch' = next.sch /\ saved' = next.saved
          /\ UNCHANGED <<arch, esp0>>
  /\ UNCHANGED <<number, torn, spsr>>

ArmCreate(t) ==
  /\ Running /\ arch = "arm"
  /\ ArmAt({"call"}) \/ (ArmAt({"boot"}) /\ cpu["cpsr"] = K("masked"))
  /\ NewThread(t, ArmNewFrame(t))

ArmWake(t) ==
  /\ Running /\ arch = "arm" /\ ArmAt({"call"})
  /\ Wake(t)

ArmInit ==
  /\ arch = "arm"
  /\ cpu = [r \in ArmReg |-> CASE r = "cpsr" -> K("masked") [] r = "r15" -> K("boot")
                               [] OTHER -> InC(Boot)]
  /\ stack = [o \in Owner |-> IF o = Idle THEN ArmIdleFrame ELSE <<>>]

ArmIrqEnable ==
  /\ Running /\ arch = "arm" /\ ArmAt({"boot"}) /\ cpu["cpsr"] = K("masked")
  /\ cpu' = [cpu EXCEPT !["cpsr"] = K("open")]
  /\ UNCHANGED <<arch, sch, stack, sp, saved, number, halted, esp0, torn, spsr>>

ArmNext ==
  \/ \E timer \in BOOLEAN : irq_handler(timer)
  \/ rfe
  \/ \E n \in Numbers : swi_handler(n)
  \/ ArmSyscallReturn
  \/ \E why \in {"READY", "SEMA", "DEAD"} : ArmSwitch(why)
  \/ \E t \in Threads : ArmCreate(t)
  \/ \E t \in Threads : ArmWake(t)
  \/ ArmIrqEnable
=============================================================================
