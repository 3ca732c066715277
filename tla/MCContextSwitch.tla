-------------------------- MODULE MCContextSwitch ---------------------------
(* Instance of ContextSwitch for TLC. *)
EXTENDS ContextSwitch, TLC

Symmetry == Permutations(Threads)

\* A handler, a hole in the table, its size, one above and one below.
SomeNumbers == {0, 1, 2, 3, -1}
=============================================================================
