-------------------------------- MODULE Irq ---------------------------------
(***************************************************************************)
(* Interrupt handling: the handler table of kernel/irq.c over one of the   *)
(* three interrupt controller drivers in drivers/irq: "i386" (two 8259     *)
(* PICs), "icp" (QEMU Integrator/CP) or "bcm2835" (Raspberry Pi).  A       *)
(* controller is a set of registers ("banks") with one enable bit per      *)
(* line; the lines, the devices that raise them and the CPU's interrupt    *)
(* entry are external.                                                     *)
(***************************************************************************)
EXTENDS Integers

CONSTANT Lines   \* for every driver, the interrupt numbers in use

Drivers == {"i386", "icp", "bcm2835"}

ASSUME IrqAssumption == Lines \in [Drivers -> SUBSET Nat]

VARIABLES
  driver,    \* the one the kernel was built with
  handlers,  \* the interrupt numbers with an entry in irq_handlers
  enabled,   \* for every bank of the controller, the bits that let a line pass
  raised,    \* lines that devices hold active
  service    \* i386: bits of the in-service registers of the two PICs

vars == <<driver, handlers, enabled, raised, service>>

-----------------------------------------------------------------------------
(* The controllers *)

Irqs == Lines[driver]

\* As configured for each platform.
TIMER_IRQ == CASE driver = "i386" -> 32 [] driver = "icp" -> 6 [] driver = "bcm2835" -> 64

IRQ_COUNT == CASE driver = "i386" -> 256 [] driver = "icp" -> 32 [] driver = "bcm2835" -> 72

IRQ_BASE == 32

irq_in_pic_range(irq) == irq >= IRQ_BASE /\ irq <= IRQ_BASE + 15

\* The register an interrupt number belongs to, and the bits it has.
Bank(irq) ==
  CASE driver = "i386" -> IF irq < IRQ_BASE + 8 THEN "PIC1" ELSE "PIC2"
    [] driver = "icp" -> "ENABLE"
    [] driver = "bcm2835" -> IF irq < 32 THEN "IRQ1" ELSE IF irq < 64 THEN "IRQ2" ELSE "IRQB"

Banks == {"PIC1", "PIC2", "ENABLE", "IRQ1", "IRQ2", "IRQB"}

Bits(bank) == IF bank \in {"PIC1", "PIC2", "IRQB"} THEN 0..7 ELSE 0..31

\* The bit that the drivers shift into place; a bit that the register does not
\* have is lost.
ShiftedBit(irq) ==
  CASE driver = "i386" -> irq - IRQ_BASE
    [] driver = "icp" -> irq
    [] driver = "bcm2835" -> IF irq < 32 THEN irq ELSE IF irq < 64 THEN irq - 32 ELSE irq - 64

\* The bit that the hardware looks at.
LineBit(irq) == IF Bank(irq) = "PIC2" THEN irq - (IRQ_BASE + 8) ELSE ShiftedBit(irq)

OnController(irq) == driver = "i386" => irq_in_pic_range(irq)

irq_allow(en, irq) ==
  IF ~OnController(irq) THEN en
  ELSE [en EXCEPT ![Bank(irq)] = @ \cup ({ShiftedBit(irq)} \cap Bits(Bank(irq)))]

\* Not implemented by the icp driver.
irq_disallow(en, irq) ==
  IF ~OnController(irq) \/ driver = "icp" THEN en
  ELSE [en EXCEPT ![Bank(irq)] = @ \ {ShiftedBit(irq)}]

\* irq_init: everything masked; the PIC driver then allows IRQ 0x2c.
irq_init ==
  LET masked == [b \in Banks |-> {}]
  IN  IF driver = "i386" THEN irq_allow(masked, 44) ELSE masked

\* A line passes its register; those of the second PIC also pass line 2 of the
\* first.
Unmasked(irq) ==
  /\ OnController(irq)
  /\ LineBit(irq) \in enabled[Bank(irq)]
  /\ Bank(irq) = "PIC2" => 2 \in enabled["PIC1"]

\* A PIC holds back lines of the same or a lower priority than one in service.
Deliverable(irq) ==
  /\ irq \in raised /\ Unmasked(irq)
  /\ Bank(irq) = "PIC1" => \A n \in service["PIC1"] : LineBit(irq) < n
  /\ Bank(irq) = "PIC2" => /\ \A n \in service["PIC2"] : LineBit(irq) < n
                           /\ \A n \in service["PIC1"] : 2 < n

\* An end-of-interrupt command ends the service of the first line in service.
EndOfInterrupt(isr) == {n \in isr : \E m \in isr : m < n}

TypeOK ==
  /\ driver \in Drivers
  /\ handlers \subseteq Irqs
  /\ \A b \in Banks : enabled[b] \subseteq Bits(b)
  /\ raised \subseteq Irqs
  /\ service["PIC1"] \subseteq 0..7 /\ service["PIC2"] \subseteq 0..7

Init ==
  /\ driver \in Drivers
  /\ handlers = {}
  /\ enabled = irq_init
  /\ raised = {}
  /\ service = [b \in {"PIC1", "PIC2"} |-> {}]

-----------------------------------------------------------------------------

\* Faulty variant: the controller is not told.
unregister_table_only(irq) ==
  /\ irq < IRQ_COUNT
  /\ handlers' = handlers \ {irq}
  /\ UNCHANGED <<driver, enabled, raised, service>>

irq_register(irq) ==
  /\ irq < IRQ_COUNT
  /\ irq \notin handlers
  /\ handlers' = handlers \cup {irq}
  /\ enabled' = irq_allow(enabled, irq)
  /\ UNCHANGED <<driver, raised, service>>

irq_unregister(irq) ==
  /\ irq < IRQ_COUNT
  /\ handlers' = handlers \ {irq}
  /\ enabled' = irq_disallow(enabled, irq)
  /\ UNCHANGED <<driver, raised, service>>

\* A device activates its line.
Raise(irq) ==
  /\ irq \in Irqs \ raised
  /\ raised' = raised \cup {irq}
  /\ UNCHANGED <<driver, handlers, enabled, service>>

\* irq_run_handler; the handler serves the device, which releases its line.
RunHandler(irq) == raised' = IF irq \in handlers THEN raised \ {irq} ELSE raised

\* Faulty variant: no end-of-interrupt command.
interrupt_without_eoi(irq) ==
  /\ driver = "i386"
  /\ Deliverable(irq)
  /\ \A other \in Irqs : Deliverable(other) => irq <= other
  /\ service' = [service EXCEPT ![Bank(irq)] = @ \cup {LineBit(irq)}]
  /\ RunHandler(irq)
  /\ UNCHANGED <<driver, handlers, enabled>>

\* i386: the PIC passes on its first line and takes it into service.  irq_handle
\* ends the service before it runs the handler.
PicInterrupt(irq) ==
  LET taken == [service EXCEPT ![Bank(irq)] = @ \cup {LineBit(irq)}]
      both  == IF Bank(irq) = "PIC2" THEN [taken EXCEPT !["PIC1"] = @ \cup {2}] ELSE taken
      slave == IF irq >= IRQ_BASE + 8
               THEN [both EXCEPT !["PIC2"] = EndOfInterrupt(@)] ELSE both
  IN
  /\ driver = "i386"
  /\ Deliverable(irq)
  /\ \A other \in Irqs : Deliverable(other) => irq <= other
  /\ service' = [slave EXCEPT !["PIC1"] = EndOfInterrupt(@)]
  /\ RunHandler(irq)
  /\ UNCHANGED <<driver, handlers, enabled>>

\* The lines in which irq_handle looks for the one that interrupted.
Searched ==
  CASE driver = "icp" -> {irq \in Irqs : irq < 32}
    [] driver = "bcm2835" -> {irq \in Irqs : Bank(irq) = "IRQB"}
    [] OTHER -> {}

\* Faulty variant: the search starts at the last line.
search_downwards ==
  LET active == {irq \in Searched : Deliverable(irq)} IN
  /\ driver # "i386"
  /\ active # {}
  /\ RunHandler(CHOOSE irq \in active : \A other \in active : irq >= other)
  /\ UNCHANGED <<driver, handlers, enabled, service>>

\* ARM: some line interrupts; irq_handle runs the handler of the first active
\* line it finds in the pending register.
ArmInterrupt ==
  LET active == {irq \in Searched : Deliverable(irq)} IN
  /\ driver # "i386"
  /\ \E irq \in Irqs : Deliverable(irq)
  /\ IF active = {} THEN UNCHANGED raised
     ELSE RunHandler(CHOOSE irq \in active : \A other \in active : irq <= other)
  /\ UNCHANGED <<driver, handlers, enabled, service>>

Interrupt == (\E irq \in Irqs : PicInterrupt(irq)) \/ ArmInterrupt

Next ==
  \/ \E irq \in Irqs : irq_register(irq)
  \/ \E irq \in Irqs : irq_unregister(irq)
  \/ \E irq \in Irqs : Raise(irq)
  \/ Interrupt

\* The CPU takes an interrupt that stays pending.
Spec == Init /\ [][Next]_vars /\ WF_vars(Interrupt)

-----------------------------------------------------------------------------

\* The lines that a driver both unmasks and looks at: the driver of the PICs
\* unmasks no line of the second one, because the 8-bit mask loses the bit, and
\* that of the BCM2835 looks at neither of the two large banks.
Served(irq) == OnController(irq) /\ Bank(irq) \notin {"PIC2", "IRQ1", "IRQ2"}

\* irq_disallow, which irq_unregister calls: "Mask the specified IRQ."  No line
\* without a handler reaches the CPU, where nothing could calm it.  The icp
\* driver does not implement it.
UnregisteredMasked ==
  /\ TypeOK
  /\ driver # "icp" => \A irq \in Irqs \ handlers : ~Unmasked(irq)

\* irq_handle "finds the number of the IRQ which occured and calls the handler":
\* a registered timer is served whenever it fires, whatever other lines are
\* active, with or without a handler, unless irq_handle finds an active line of
\* a lower number first that the controller lets pass (on the Integrator/CP only,
\* where a line once registered is never masked again).  A masked line never
\* stands in its way.  This is the fairness that the scheduler builds on.
TimerServed ==
  (TIMER_IRQ \in raised /\ TIMER_IRQ \in handlers)
    ~> \/ TIMER_IRQ \notin raised \/ TIMER_IRQ \notin handlers
       \/ \E irq \in Searched : Deliverable(irq) /\ irq < TIMER_IRQ

\* The same for any one line, as long as no other line is active.
LoneIrqServed ==
  \A irq \in UNION {Lines[d] : d \in Drivers} :
    (irq \in raised /\ irq \in handlers /\ Served(irq))
      ~> (irq \notin raised \/ irq \notin handlers \/ raised # {irq})
=============================================================================
