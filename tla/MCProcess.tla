----------------------------- MODULE MCProcess ------------------------------
(* Instance of Process for TLC: tables with two entries, so that the user has *)
(* four pages and the heap starts in another page table than the stack.    *)
EXTENDS Process, TLC

Requests == {-1, 2}

Alike == Permutations(Threads) \cup Permutations(Procs)
=============================================================================
