---------------------------- MODULE MCArmPaging -----------------------------
(* Instance of ArmPaging for TLC: translation tables are runs of two frames   *)
(* aligned to four; other callers also take three frames aligned to two.      *)
EXTENDS ArmPaging, TLC

Runs == {<<2, 2>>, <<3, 1>>}
Symmetry == Permutations(Threads)
=============================================================================
