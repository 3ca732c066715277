------------------------------- MODULE MCIrq --------------------------------
(* Instance of Irq for TLC: for every driver the timer, two or three more     *)
(* lines, one of them of another bank, and a number beyond IRQ_COUNT.         *)
EXTENDS Irq

SomeLines ==
  [d \in Drivers |-> CASE d = "i386" -> {32, 33, 36, 44, 300}
                       [] d = "icp" -> {1, 6, 7, 32}
                       [] d = "bcm2835" -> {3, 40, 64, 65, 72}]
=============================================================================
