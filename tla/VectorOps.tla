----------------------------- MODULE VectorOps ------------------------------
(***************************************************************************)
(* kernel/vector.c: a growing table of pointers, here [count, content] with   *)
(* content a function on 0..bounds-1.  A lookup the code performs outside  *)
(* the allocated words yields Wild, an unpredictable pointer.              *)
(***************************************************************************)
EXTENDS Integers, FiniteSets

CONSTANTS NULL, Wild

Bounds(v) == Cardinality(DOMAIN v.content)

\* A vector of pointers to members of S.
IsVector(v, S) ==
  /\ v.count \in Int
  /\ DOMAIN v.content = 0..(Bounds(v) - 1)
  /\ \A i \in DOMAIN v.content : v.content[i] \in S \cup {NULL}

vector_init(size) == [count |-> 0, content |-> [i \in 0..(size - 1) |-> NULL]]

vector_resize(v) ==
  IF Bounds(v) > 0
  THEN [v EXCEPT !.content = [i \in 0..(2 * Bounds(v) - 1) |->
                                IF i < Bounds(v) THEN v.content[i] ELSE NULL]]
  ELSE vector_init(4)

FreeSlots(v) == {i \in DOMAIN v.content : v.content[i] = NULL}

\* Faulty variant: as many places as there are elements are taken to be in use.
index_is_count(v) == v.count

\* The index that vector_add returns.
AddIndex(v) ==
  IF FreeSlots(v) = {} THEN Bounds(v)
  ELSE CHOOSE i \in FreeSlots(v) : \A j \in FreeSlots(v) : i <= j

\* The first free slot takes x; a full vector is resized before the search is
\* repeated.
vector_add(v, x) ==
  LET room == IF FreeSlots(v) = {} THEN vector_resize(v) ELSE v
  IN  [count |-> room.count + 1,
       content |-> [room.content EXCEPT ![AddIndex(v)] = x]]

\* Whether the test that guards vector_set and vector_get lets the index pass.
IndexPasses(v, i) == ~(i > Bounds(v))

\* An index that passes the test without being in the vector reaches foreign
\* memory and leaves the vector alone, but counts what it finds there (old).
vector_set(v, i, x, old) ==
  LET was == IF i \in DOMAIN v.content THEN v.content[i] ELSE old
  IN  IF ~IndexPasses(v, i) THEN v
      ELSE [count |-> IF was # NULL /\ x = NULL THEN v.count - 1
                      ELSE IF was = NULL /\ x # NULL THEN v.count + 1
                      ELSE v.count,
            content |-> IF i \in DOMAIN v.content
                        THEN [v.content EXCEPT ![i] = x] ELSE v.content]

vector_get(v, i) ==
  IF ~IndexPasses(v, i) THEN NULL
  ELSE IF i \in DOMAIN v.content THEN v.content[i] ELSE Wild

\* Faulty variant: the count is not reset.
clear_keeps_count(v) == [v EXCEPT !.content = [i \in DOMAIN v.content |-> NULL]]

\* A vector without allocated words is left as it is.
vector_clear(v) ==
  IF Bounds(v) = 0 THEN v
  ELSE [count |-> 0, content |-> [i \in DOMAIN v.content |-> NULL]]

vector_free(v) == IF Bounds(v) = 0 THEN v ELSE vector_init(0)
=============================================================================
