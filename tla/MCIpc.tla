------------------------------- MODULE MCIpc --------------------------------
(* Instances of Ipc for TLC: client threads a, b and e, server threads s and r. *)
EXTENDS Ipc

CONSTANTS a, b, e, s, r, A, B, S

TwoClients == [t \in {a, b, s} |-> CASE t = a -> A [] t = b -> B [] OTHER -> S]
TwoClientsOrder == <<s, a, b>>

TwoReceivers == [t \in {a, b, s, r} |-> CASE t = a -> A [] t = b -> B [] OTHER -> S]
TwoReceiversOrder == <<s, r, a, b>>

OneClient == [t \in {a, b, e, s} |-> IF t = s THEN S ELSE A]
OneClientOrder == <<s, a, b, e>>

\* The state at boot is what creating the threads one after the other leaves.
ASSUME BootAssumption ==
  BootedSched = FoldLeft(LAMBDA x, t : scheduler_enqueue_thread(thread_new(x, t), t),
                         BootSched, BootOrder)
=============================================================================
