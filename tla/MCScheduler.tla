---------------------------- MODULE MCScheduler -----------------------------
(* Instance of SchedulerFifo for TLC. *)
EXTENDS SchedulerFifo
=============================================================================
