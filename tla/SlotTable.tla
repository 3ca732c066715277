----------------------------- MODULE SlotTable ------------------------------
(***************************************************************************)
(* What a vector promises to those who use its indices as identifiers: a   *)
(* table without a size limit, in which a new element gets the lowest free *)
(* place and keeps it until it is removed or the table is emptied.         *)
(***************************************************************************)
EXTENDS Integers

CONSTANTS Values, NULL, Places

VARIABLE table

Free == {i \in Places : table[i] = NULL}

Init == table = [i \in Places |-> NULL]

Add(x) ==
  \E i \in Free :
    /\ \A j \in Free : i <= j
    /\ table' = [table EXCEPT ![i] = x]

Remove(i) == table' = [table EXCEPT ![i] = NULL]

Clear == table' = [i \in Places |-> NULL]

Next ==
  \/ \E x \in Values : Add(x)
  \/ \E i \in Places : Remove(i)
  \/ Clear

Spec == Init /\ [][Next]_table
=============================================================================
