----------------------------- MODULE IrqProofs ------------------------------
(***************************************************************************)
(* Proofs about the interrupt controllers, for any set of interrupt        *)
(* numbers in use.                                                         *)
(***************************************************************************)
EXTENDS Irq, TLAPS

\* The registers and what they hold.
Registers ==
  /\ driver \in Drivers
  /\ handlers \subseteq Irqs
  /\ enabled \in [Banks -> SUBSET (0..31)]
  /\ \A b \in Banks : enabled[b] \subseteq Bits(b)
  /\ raised \subseteq Irqs
  /\ service \in [{"PIC1", "PIC2"} -> SUBSET (0..7)]

\* Every enable bit belongs to a registered interrupt, and the bits of the
\* second PIC are never set.
BitsOwned ==
  /\ driver = "i386" =>
       /\ enabled["PIC2"] = {}
       /\ \A n \in enabled["PIC1"] : n + IRQ_BASE \in handlers
  /\ driver = "bcm2835" =>
       /\ \A n \in enabled["IRQ1"] : n \in handlers
       /\ \A n \in enabled["IRQ2"] : n + 32 \in handlers
       /\ \A n \in enabled["IRQB"] : n + 64 \in handlers

IInv == Registers /\ BitsOwned

\* Every interrupt number is a natural number, whichever driver is built in.
LEMMA IrqNat == driver \in Drivers => Irqs \subseteq Nat
  BY IrqAssumption DEF Irqs

\* What the operators of each driver come to.
LEMMA PicOperators ==
  ASSUME driver = "i386"
  PROVE  /\ \A irq : Bank(irq) = IF irq < IRQ_BASE + 8 THEN "PIC1" ELSE "PIC2"
         /\ \A irq : ShiftedBit(irq) = irq - IRQ_BASE
  BY Zenon DEF Bank, ShiftedBit

LEMMA IcpOperators ==
  ASSUME driver = "icp"
  PROVE  \A irq : Bank(irq) = "ENABLE" /\ ShiftedBit(irq) = irq
<1>1. driver # "i386"
  OBVIOUS
<1> QED
  BY <1>1, Zenon DEF Bank, ShiftedBit

LEMMA BcmOperators ==
  ASSUME driver = "bcm2835"
  PROVE  /\ \A irq : Bank(irq) = IF irq < 32 THEN "IRQ1" ELSE IF irq < 64 THEN "IRQ2" ELSE "IRQB"
         /\ \A irq : ShiftedBit(irq) = IF irq < 32 THEN irq
                                       ELSE IF irq < 64 THEN irq - 32 ELSE irq - 64
         /\ IRQ_COUNT = 72
<1>1. driver # "i386" /\ driver # "icp"
  OBVIOUS
<1> QED
  BY <1>1, Zenon DEF Bank, ShiftedBit, IRQ_COUNT

\* Every interrupt number belongs to a register.
LEMMA BankIsBank == \A irq \in Nat : driver \in Drivers => Bank(irq) \in Banks
  BY PicOperators, IcpOperators, BcmOperators DEF Banks, Drivers

\* irq_init leaves every line masked: the bit of IRQ 0x2c, the twelfth, is not
\* one the second PIC has.
LEMMA InitIInv == Init => IInv
<1> SUFFICES ASSUME Init PROVE IInv
  OBVIOUS
<1>1. enabled = [b \in Banks |-> {}]
  <2>1. CASE driver = "i386"
    <3>1. Bank(44) = "PIC2" /\ ShiftedBit(44) = 12
      BY <2>1 DEF Bank, ShiftedBit, IRQ_BASE
    <3>2. {12} \cap Bits("PIC2") = {}
      BY DEF Bits
    <3> QED
      BY <2>1, <3>1, <3>2 DEF Init, irq_init, irq_allow, Banks
  <2> QED
    BY <2>1 DEF Init, irq_init
<1> QED
  BY <1>1 DEF Init, IInv, Registers, BitsOwned, Banks

\* irq_allow only sets bits that the register has.
LEMMA AllowTyped ==
  ASSUME Registers, NEW irq \in Irqs, enabled' = irq_allow(enabled, irq)
  PROVE  enabled' \in [Banks -> SUBSET (0..31)] /\ \A b \in Banks : enabled'[b] \subseteq Bits(b)
<1>1. \A b \in Banks : Bits(b) \subseteq 0..31
  BY DEF Bits
<1>2. Bank(irq) \in Banks
  BY BankIsBank, IrqNat DEF Registers
<1> QED
  BY <1>1, <1>2 DEF Registers, irq_allow

LEMMA RegisterStep ==
  ASSUME IInv, NEW irq \in Irqs, irq_register(irq)
  PROVE  IInv'
<1>0. irq \in Nat /\ irq < IRQ_COUNT
  BY IrqNat DEF IInv, Registers, irq_register
<1>1. Registers'
  <2>1. enabled' \in [Banks -> SUBSET (0..31)] /\ \A b \in Banks : enabled'[b] \subseteq Bits(b)
    BY AllowTyped DEF IInv, irq_register
  <2> QED
    BY <2>1 DEF IInv, Registers, irq_register, Irqs
<1> DEFINE Set == [enabled EXCEPT ![Bank(irq)] = @ \cup ({ShiftedBit(irq)} \cap Bits(Bank(irq)))]
<1>2. handlers' = handlers \cup {irq} /\ driver' = driver
      /\ enabled' = IF OnController(irq) THEN Set ELSE enabled
  BY DEF irq_register, irq_allow
<1>3. enabled \in [Banks -> SUBSET (0..31)]
  BY DEF IInv, Registers
<1>4. ASSUME driver = "i386" PROVE BitsOwned'
  <2>1. CASE OnController(irq) /\ irq < IRQ_BASE + 8
    <3>1. Bank(irq) = "PIC1" /\ ShiftedBit(irq) = irq - IRQ_BASE
      BY <1>4, <2>1, PicOperators
    <3> QED
      BY <1>0, <1>2, <1>3, <1>4, <2>1, <3>1 DEF IInv, BitsOwned, IRQ_BASE, Banks
  <2>2. CASE OnController(irq) /\ ~(irq < IRQ_BASE + 8)
    <3>1. Bank(irq) = "PIC2" /\ {ShiftedBit(irq)} \cap Bits("PIC2") = {}
      BY <1>0, <1>4, <2>2, PicOperators DEF Bits, IRQ_BASE
    <3> QED
      BY <1>2, <1>3, <1>4, <2>2, <3>1 DEF IInv, BitsOwned, Banks
  <2>3. CASE ~OnController(irq)
    BY <1>2, <1>4, <2>3 DEF IInv, BitsOwned
  <2> QED
    BY <2>1, <2>2, <2>3
<1>5. ASSUME driver = "bcm2835" PROVE BitsOwned'
  BY <1>0, <1>2, <1>3, <1>5, BcmOperators DEF IInv, BitsOwned, OnController, Banks
<1> QED
  BY <1>1, <1>2, <1>4, <1>5 DEF IInv, BitsOwned

LEMMA UnregisterStep ==
  ASSUME IInv, NEW irq \in Irqs, irq_unregister(irq)
  PROVE  IInv'
<1>0. irq \in Nat /\ Bank(irq) \in Banks
  BY IrqNat, BankIsBank DEF IInv, Registers
<1>1. Registers'
  BY <1>0 DEF IInv, Registers, irq_unregister, irq_disallow, Irqs
<1> DEFINE Clear == [enabled EXCEPT ![Bank(irq)] = @ \ {ShiftedBit(irq)}]
<1>2. handlers' = handlers \ {irq} /\ driver' = driver
      /\ (driver # "icp" => enabled' = IF OnController(irq) THEN Clear ELSE enabled)
  BY DEF irq_unregister, irq_disallow
<1>3. enabled \in [Banks -> SUBSET (0..31)] /\ enabled["PIC1"] \subseteq 0..7
  BY DEF IInv, Registers, Banks, Bits
<1>4. ASSUME driver = "i386" PROVE BitsOwned'
  <2>1. CASE OnController(irq)
    BY <1>0, <1>2, <1>3, <1>4, <2>1, PicOperators DEF IInv, BitsOwned, IRQ_BASE, Banks
  <2>2. CASE ~OnController(irq)
    BY <1>0, <1>2, <1>3, <1>4, <2>2
    DEF IInv, BitsOwned, IRQ_BASE, OnController, irq_in_pic_range
  <2> QED
    BY <2>1, <2>2
<1>5. ASSUME driver = "bcm2835" PROVE BitsOwned'
  BY <1>0, <1>2, <1>3, <1>5, BcmOperators DEF IInv, BitsOwned, OnController, Banks
<1> QED
  BY <1>1, <1>2, <1>4, <1>5 DEF IInv, BitsOwned

\* The bit of a line that the PICs deliver is one of the eight of its PIC.
LEMMA DeliveredBit ==
  ASSUME IInv, driver = "i386", NEW irq \in Irqs, Deliverable(irq)
  PROVE  Bank(irq) = "PIC1" /\ LineBit(irq) \in 0..7
<1>1. irq \in Nat
  BY IrqNat DEF IInv, Registers
<1>2. Bank(irq) \in {"PIC1", "PIC2"} /\ LineBit(irq) \in enabled[Bank(irq)]
  BY <1>1, PicOperators DEF Deliverable, Unmasked
<1> QED
  BY <1>2 DEF IInv, Registers, BitsOwned, Banks, Bits

LEMMA PicStep ==
  ASSUME IInv, NEW irq \in Irqs, PicInterrupt(irq)
  PROVE  IInv'
<1>1. driver = "i386" /\ Bank(irq) = "PIC1" /\ LineBit(irq) \in 0..7
  BY DeliveredBit DEF PicInterrupt
<1>2. service' \in [{"PIC1", "PIC2"} -> SUBSET (0..7)]
  BY <1>1 DEF PicInterrupt, EndOfInterrupt, IInv, Registers
<1>3. raised' \subseteq Irqs /\ UNCHANGED <<driver, handlers, enabled>>
  BY DEF PicInterrupt, RunHandler, IInv, Registers
<1> QED
  BY <1>2, <1>3 DEF IInv, Registers, BitsOwned, Irqs

LEMMA StepIInv == IInv /\ [Next]_vars => IInv'
<1> SUFFICES ASSUME IInv, [Next]_vars PROVE IInv'
  OBVIOUS
<1>1. ASSUME NEW irq \in Irqs, irq_register(irq) PROVE IInv'
  BY <1>1, RegisterStep
<1>2. ASSUME NEW irq \in Irqs, irq_unregister(irq) PROVE IInv'
  BY <1>2, UnregisterStep
<1>3. ASSUME NEW irq \in Irqs, Raise(irq) PROVE IInv'
  BY <1>3 DEF Raise, IInv, Registers, BitsOwned, Irqs
<1>4. ASSUME NEW irq \in Irqs, PicInterrupt(irq) PROVE IInv'
  BY <1>4, PicStep
<1>5. CASE ArmInterrupt
  <2>1. raised' \subseteq raised /\ UNCHANGED <<driver, handlers, enabled, service>>
    BY <1>5 DEF ArmInterrupt, RunHandler
  <2> QED
    BY <2>1 DEF IInv, Registers, BitsOwned, Irqs
<1>6. CASE UNCHANGED vars
  BY <1>6 DEF vars, IInv, Registers, BitsOwned, Irqs
<1> QED
  BY <1>1, <1>2, <1>3, <1>4, <1>5, <1>6 DEF Next, Interrupt

\* On the PICs and on the BCM2835 an interrupt number without an entry in
\* irq_handlers never reaches the CPU, whatever numbers are in use and in
\* whatever order they are registered, unregistered and raised.
THEOREM UnregisteredStaysMasked == Spec => []UnregisteredMasked
<1>1. Init => IInv
  BY InitIInv
<1>2. IInv /\ [Next]_vars => IInv'
  BY StepIInv
<1>3. IInv => UnregisteredMasked
  <2> SUFFICES ASSUME IInv PROVE UnregisteredMasked
    OBVIOUS
  <2>1. TypeOK
    BY DEF IInv, Registers, TypeOK
  <2>2. ASSUME driver # "icp", NEW irq \in Irqs \ handlers, Unmasked(irq) PROVE FALSE
    <3>0. irq \in Nat
      BY IrqNat DEF IInv, Registers
    <3>1. CASE driver = "i386"
      BY <2>2, <3>0, <3>1, PicOperators
      DEF Unmasked, OnController, irq_in_pic_range, LineBit, IRQ_BASE, IInv, BitsOwned
    <3>2. CASE driver = "bcm2835"
      BY <2>2, <3>0, <3>2, BcmOperators DEF Unmasked, LineBit, IInv, BitsOwned
    <3> QED
      BY <2>2, <3>1, <3>2 DEF IInv, Registers, Drivers
  <2> QED
    BY <2>1, <2>2 DEF UnregisteredMasked
<1> QED
  BY <1>1, <1>2, <1>3, PTL DEF Spec
=============================================================================
