------------------------------ MODULE Message -------------------------------
(***************************************************************************)
(* Copying of messages (kernel/ipc.c): read_message gathers what a user     *)
(* program sends into one block of the heap, write_message spreads it over  *)
(* the buffers of the receiver and frees the block.                         *)
(*                                                                          *)
(* A buffer descriptor is [type, lens]: "lin" for one piece of memory,      *)
(* "vec" for a list of pieces, "none" for flags of neither type.  The bytes *)
(* of a message are numbered in the order of its pieces.  A slot            *)
(* [size, addr, data] holds a message inside the kernel; size and addr are  *)
(* zero if it is empty.                                                     *)
(***************************************************************************)
EXTENDS Kheap, SequencesExt

CONSTANT SizeMod  \* number of values of an unsigned (2^32)

ASSUME SizeAssumption == SizeMod \in Nat \ {0}

NoMessage == [size |-> 0, addr |-> 0, data |-> <<>>]

Length(buf) == FoldLeft(LAMBDA a, b : a + b, 0, buf.lens)

\* Faulty variant: the last piece is not counted.
sum_one_short(lens) ==
  FoldLeft(LAMBDA a, b : (a + b) % SizeMod, 0, IF lens = <<>> THEN <<>> ELSE Front(lens))

iovec_sum(lens) == FoldLeft(LAMBDA a, b : (a + b) % SizeMod, 0, lens)

\* The pieces one after the other, whatever size was allocated for them.
iovec_read(lens) ==
  FoldLeft(LAMBDA copied, len : copied \o [k \in 1..len |-> Len(copied) + k], <<>>, lens)

\* Each piece gets at most what is left of size.  The result lists what each
\* piece was given; once nothing is left the loop ends, and the rest gets nothing.
iovec_write(lens, data, size) ==
  FoldLeft(LAMBDA w, iov_len :
             LET len == Min({iov_len, w.size})
             IN  [pos |-> w.pos + len, size |-> w.size - len,
                  pieces |-> Append(w.pieces, SubSeq(data, w.pos + 1, w.pos + len))],
           [pos |-> 0, size |-> size, pieces |-> <<>>], lens).pieces

\* The heap and the slot after the message of buf was copied into slot.
read_message(h, slot, buf) ==
  LET size == IF buf.type = "lin" THEN buf.lens[1] ELSE iovec_sum(buf.lens)
      mem == kmalloc(h, size)
  IN  IF buf.type = "none" THEN [heap |-> h, slot |-> slot]
      ELSE [heap |-> mem.heap,
            slot |-> [size |-> size, addr |-> mem.block, data |-> iovec_read(buf.lens)]]

\* What the receiver with the descriptor buf gets.
Received(slot, buf) ==
  CASE buf.type = "lin" -> <<SubSeq(slot.data, 1, Min({slot.size, buf.lens[1]}))>>
    [] buf.type = "vec" -> iovec_write(buf.lens, slot.data, slot.size)
    [] OTHER            -> <<>>

\* The block is freed for every type of buf, and the slot becomes empty.
write_message(h, slot) == kfree(h, slot.addr, slot.size)

\* More bytes were copied than the block can take.
Overflows(slot) ==
  LET bucket == kheap_bucket_find(slot.size)
  IN  bucket \in Buckets /\ Len(slot.data) > BlockBytes(bucket)
=============================================================================
