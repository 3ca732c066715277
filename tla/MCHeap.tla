------------------------------- MODULE MCHeap -------------------------------
(* Instance of Heap for TLC: a frame has four words, and the smallest of the *)
(* four lists hold one, two and four of them.                                *)
EXTENDS Heap

Lin(n) == [type |-> "lin", lens |-> <<n>>]
Vec(lens) == [type |-> "vec", lens |-> lens]

\* Empty, short, split with an empty piece, wrapping, too large, and untyped.
SomeSent == {Lin(0), Lin(6), Vec(<<3, 0, 4>>), Vec(<<10, 54>>), Lin(20), Lin(40), NoBuffer}
\* Shorter and longer than the messages, split in other places, and untyped.
SomeRoom == {Lin(5), Vec(<<1, 5, 3>>), NoBuffer}
=============================================================================
