------------------------------- MODULE Kheap --------------------------------
(***************************************************************************)
(* The kernel heap (kernel/kheap.c) as operators on a record                *)
(*   [bucket, frames, largest, stop]                                        *)
(* bucket: the free lists, each the sequence of its blocks, head first;     *)
(* frames: what memory_alloc can still give out; largest: the largest       *)
(* request so far; stop: why the heap cannot be followed any further.       *)
(* Blocks have sizes that are powers of two and are cut from one frame at a *)
(* time.  Addresses and sizes are in bytes.  Calls are not interrupted      *)
(* (ARM).                                                                   *)
(***************************************************************************)
EXTENDS Integers, Sequences, FiniteSetsExt

CONSTANTS
  BUCKET_COUNT,  \* number of lists (16)
  FrameBytes,    \* size of a frame (4096)
  Frames         \* frames that memory_alloc can give out

ASSUME KheapAssumption ==
  /\ BUCKET_COUNT \in Nat \ {0} /\ FrameBytes \in Nat \ {0}
  /\ Frames \subseteq Nat \ {0}

Buckets == 0..(BUCKET_COUNT - 1)

BlockBytes(bucket) == 4 * 2^bucket

Address == {f * FrameBytes + i : f \in Frames, i \in 0..(FrameBytes - 1)}

\* memory_alloc panicked; a list head behind the array was used; a block is
\* longer than the frame it was cut from; the null pointer was freed.
Stops == {"none", "panic", "foreign", "overlap", "null"}

IsHeap(h) ==
  /\ DOMAIN h.bucket = Buckets
  /\ \A i \in Buckets : \A k \in DOMAIN h.bucket[i] : h.bucket[i][k] \in Address
  /\ h.frames \subseteq Frames
  /\ h.largest \in Nat
  /\ h.stop \in Stops

BootHeap == [bucket |-> [i \in Buckets |-> <<>>], frames |-> Frames,
             largest |-> 0, stop |-> "none"]

\* Faulty variant: a block of exactly the size asked for is not enough.
find_strictly(size) ==
  Min({i \in Buckets : size < BlockBytes(i)} \cup {BUCKET_COUNT})

\* The first bucket whose blocks are large enough, BUCKET_COUNT if there is none.
kheap_bucket_find(size) ==
  Min({i \in Buckets : size <= BlockBytes(i)} \cup {BUCKET_COUNT})

\* The list of the blocks of one frame.  They are pushed in order, so that the
\* last one becomes the head; a block larger than the frame is pushed once.
kheap_slab_create(frame, bucket) ==
  LET blocks == (FrameBytes + BlockBytes(bucket) - 1) \div BlockBytes(bucket)
  IN  [k \in 1..blocks |-> frame * FrameBytes + (blocks - k) * BlockBytes(bucket)]

\* The heap after kmalloc and the block it returned.  memory_alloc gives the
\* lowest free frame.  The test "bucket > BUCKET_COUNT" never holds, so the
\* index BUCKET_COUNT is used.
kmalloc(h, size) ==
  LET bucket == kheap_bucket_find(size)
      asked == [h EXCEPT !.largest = Max({h.largest, size})]
      refill == h.bucket[bucket] = <<>>
      frame == Min(h.frames)
      list == IF refill THEN kheap_slab_create(frame, bucket) ELSE h.bucket[bucket]
  IN  IF bucket = BUCKET_COUNT
      THEN [heap |-> [asked EXCEPT !.stop = "foreign"], block |-> 0]
      ELSE IF refill /\ h.frames = {}
      THEN [heap |-> [asked EXCEPT !.stop = "panic"], block |-> 0]
      ELSE [heap |-> [asked EXCEPT
                        !.bucket[bucket] = Tail(list),
                        !.frames = IF refill THEN @ \ {frame} ELSE @,
                        !.stop = IF BlockBytes(bucket) > FrameBytes THEN "overlap" ELSE @],
            block |-> Head(list)]

\* The caller passes the size it asked for; the link is written into the block.
kfree(h, addr, size) ==
  LET bucket == kheap_bucket_find(size)
  IN  IF addr = 0 THEN [h EXCEPT !.stop = "null"]
      ELSE IF bucket = BUCKET_COUNT THEN [h EXCEPT !.stop = "foreign"]
      ELSE [h EXCEPT !.bucket[bucket] = <<addr>> \o @]
=============================================================================
