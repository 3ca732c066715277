-------------------------------- MODULE Heap --------------------------------
(***************************************************************************)
(* The kernel heap and those who live on it: a vector, the messages of a   *)
(* conversation between a client and a server, and other callers of        *)
(* kmalloc and kfree.  System calls are not interrupted (ARM).             *)
(***************************************************************************)
EXTENDS Message

CONSTANTS
  NULL, Wild,
  Values,      \* pointers that are stored in the vector
  InitSize,    \* the size given to vector_init
  AnyIndex,    \* whether callers may pass an index equal to the vector's bounds
  Sizes,       \* sizes that other callers ask for
  MaxOthers,   \* bound on the blocks of other callers
  Sent,        \* descriptors that user programs send and reply with
  Room         \* descriptors that user programs receive with

INSTANCE VectorOps

ASSUME HeapAssumption ==
  /\ NULL \notin Values
  /\ Wild \notin Values \cup {NULL}
  /\ InitSize \in Nat /\ AnyIndex \in BOOLEAN
  /\ Sizes \subseteq Nat /\ MaxOthers \in Nat

VARIABLES
  heap,    \* the heap, see Kheap
  vec,     \* the vector: [count, content]
  array,   \* the address of its content, 0 if it has none
  others,  \* blocks of other callers, with the size they asked for
  phase,   \* where the conversation is
  chan,    \* the slot of the channel
  conn,    \* the slot of the connection, for the reply
  sent,    \* the descriptor of the message under way
  got,     \* what the last receiver got, and with which descriptor
  lost     \* blocks that no pointer leads to any more

vars == <<heap, vec, array, others, phase, chan, conn, sent, got, lost>>

PointerBytes == 4
NoBuffer == [type |-> "none", lens |-> <<>>]
Nothing == [sent |-> NoBuffer, room |-> NoBuffer, pieces |-> <<>>]
Block == [addr : Address, size : Nat]

IsSlot(s) == s.size \in 0..(SizeMod - 1) /\ s.addr \in Address \cup {0} /\ s.data \in Seq(Nat)

TypeOK ==
  /\ IsHeap(heap)
  /\ IsVector(vec, Values)
  /\ array \in Address \cup {0}
  /\ others \subseteq Block
  /\ phase \in {"idle", "sent", "received", "replied"}
  /\ IsSlot(chan) /\ IsSlot(conn)
  /\ lost \subseteq Block

\* One vector is set up with its initial size, the rest of the heap is unused.  The
\* slots, which kmalloc leaves as memory was, are taken to be empty.  It matters only
\* to who reads one that nothing was stored in: a sender whose first reply comes
\* without data (see data_first in Ipc), or a receiver of an untyped first message.
Init ==
  LET mem == kmalloc(BootHeap, InitSize * PointerBytes) IN
  /\ heap = mem.heap
  /\ vec = vector_init(InitSize)
  /\ array = mem.block
  /\ others = {}
  /\ phase = "idle"
  /\ chan = NoMessage
  /\ conn = NoMessage
  /\ sent = NoBuffer
  /\ got = Nothing
  /\ lost = {}

Running == heap.stop = "none" /\ ~Overflows(chan) /\ ~Overflows(conn)

-----------------------------------------------------------------------------
(* Other callers *)

Take(size) ==
  LET mem == kmalloc(heap, size) IN
  /\ Running
  /\ Cardinality(others) < MaxOthers
  /\ heap' = mem.heap
  /\ others' = IF mem.block = 0 THEN others ELSE others \cup {[addr |-> mem.block, size |-> size]}
  /\ got' = Nothing
  /\ UNCHANGED <<vec, array, phase, chan, conn, sent, lost>>

Return(b) ==
  /\ Running
  /\ heap' = kfree(heap, b.addr, b.size)
  /\ others' = others \ {b}
  /\ got' = Nothing
  /\ UNCHANGED <<vec, array, phase, chan, conn, sent, lost>>

-----------------------------------------------------------------------------
(* The vector *)

ContentBytes(v) == Bounds(v) * PointerBytes

\* Faulty variant: the old array is not freed.
resize_keeps_array == kmalloc(heap, ContentBytes(vector_resize(vec)))

\* vector_resize on the heap: the new array is allocated before the old one is
\* freed.
ResizeHeap ==
  LET mem == kmalloc(heap, ContentBytes(vector_resize(vec)))
  IN  IF mem.block = 0 \/ Bounds(vec) = 0 THEN mem
      ELSE [mem EXCEPT !.heap = kfree(mem.heap, array, ContentBytes(vec))]

Add(x) ==
  LET full == FreeSlots(vec) = {}
      mem == IF full THEN ResizeHeap ELSE [heap |-> heap, block |-> array]
  IN
  /\ Running
  /\ heap' = mem.heap
  /\ IF mem.block = 0 THEN UNCHANGED <<vec, array>>
     ELSE vec' = vector_add(vec, x) /\ array' = mem.block
  /\ got' = Nothing
  /\ UNCHANGED <<others, phase, chan, conn, sent, lost>>

\* Indices as system calls pass them on.
Indices == {i \in 0..(Bounds(vec) + 1) : AnyIndex \/ i # Bounds(vec)}

\* vector_set as it is called: every caller stores zero (ipc.c, process.c).  The
\* word behind the array belongs to somebody else and may hold anything.
SetZero(i, old) ==
  /\ Running
  /\ vec' = vector_set(vec, i, NULL, old)
  /\ got' = Nothing
  /\ UNCHANGED <<heap, array, others, phase, chan, conn, sent, lost>>

Clear ==
  /\ Running
  /\ vec' = vector_clear(vec)
  /\ got' = Nothing
  /\ UNCHANGED <<heap, array, others, phase, chan, conn, sent, lost>>

Free ==
  /\ Running
  /\ heap' = IF Bounds(vec) = 0 THEN heap ELSE kfree(heap, array, ContentBytes(vec))
  /\ vec' = vector_free(vec)
  /\ array' = 0
  /\ got' = Nothing
  /\ UNCHANGED <<others, phase, chan, conn, sent, lost>>

-----------------------------------------------------------------------------
(* The conversation *)

\* ipc_send up to its switch: the message goes into the slot of the channel.
Send(buf) ==
  LET read == read_message(heap, chan, buf) IN
  /\ Running
  /\ phase = "idle"
  /\ phase' = "sent"
  /\ heap' = read.heap
  /\ chan' = read.slot
  /\ sent' = buf
  /\ got' = Nothing
  /\ UNCHANGED <<vec, array, others, conn, lost>>

\* ipc_receive: the slot of the channel is written out whatever its size.
Receive(room) ==
  /\ Running
  /\ phase = "sent"
  /\ phase' = "received"
  /\ heap' = write_message(heap, chan)
  /\ chan' = NoMessage
  /\ sent' = NoBuffer
  /\ got' = [sent |-> sent, room |-> room, pieces |-> Received(chan, room)]
  /\ UNCHANGED <<vec, array, others, conn, lost>>

\* ipc_reply with data: a block that an earlier reply left behind is forgotten.
Reply(buf) ==
  LET read == read_message(heap, conn, buf) IN
  /\ Running
  /\ phase = "received"
  /\ phase' = "replied"
  /\ heap' = read.heap
  /\ conn' = read.slot
  /\ sent' = buf
  /\ lost' = IF conn.addr # 0 /\ buf.type # "none"
             THEN lost \cup {[addr |-> conn.addr, size |-> conn.size]} ELSE lost
  /\ got' = Nothing
  /\ UNCHANGED <<vec, array, others, chan>>

\* ipc_reply without data.
ReplyStatus ==
  /\ Running
  /\ phase = "received"
  /\ phase' = "replied"
  /\ got' = Nothing
  /\ UNCHANGED <<heap, vec, array, others, chan, conn, sent, lost>>

\* ipc_send continues: only a reply with a size is written out and freed.
SendReturn(room) ==
  /\ Running
  /\ phase = "replied"
  /\ phase' = "idle"
  /\ sent' = NoBuffer
  /\ IF conn.size # 0
     THEN /\ heap' = write_message(heap, conn)
          /\ conn' = NoMessage
          /\ got' = [sent |-> sent, room |-> room, pieces |-> Received(conn, room)]
     ELSE got' = Nothing /\ UNCHANGED <<heap, conn>>
  /\ UNCHANGED <<vec, array, others, chan, lost>>

-----------------------------------------------------------------------------

Next ==
  \/ \E size \in Sizes : Take(size)
  \/ \E b \in others : Return(b)
  \/ \E x \in Values : Add(x)
  \/ \E i \in Indices :
       \E old \in (IF i = Bounds(vec) THEN Values \cup {NULL} ELSE {NULL}) : SetZero(i, old)
  \/ Clear
  \/ Free
  \/ \E buf \in Sent : Send(buf) \/ Reply(buf)
  \/ \E room \in Room : Receive(room) \/ SendReturn(room)
  \/ ReplyStatus

Spec == Init /\ [][Next]_vars

-----------------------------------------------------------------------------

\* The blocks that somebody may still use, with the sizes asked for.
InUse ==
  others \cup {[addr |-> s.addr, size |-> s.size] : s \in {x \in {chan, conn} : x.addr # 0}}
         \cup (IF array = 0 THEN {} ELSE {[addr |-> array, size |-> ContentBytes(vec)]})

\* The bytes of a block, whether it is in use or on a list.
Extent(addr, bucket) == addr..(addr + BlockBytes(bucket) - 1)
FrameExtent(f) == (f * FrameBytes)..(f * FrameBytes + FrameBytes - 1)

UsedExtents == {Extent(b.addr, kheap_bucket_find(b.size)) : b \in InUse}
FreeExtents == UNION {{Extent(heap.bucket[i][k], i) : k \in DOMAIN heap.bucket[i]} :
                      i \in Buckets}

\* As long as nobody asks for more than a frame: no byte belongs to two blocks,
\* in use or free, no block reaches into a frame that somebody else may get, and
\* no list but the heap's own is used.  What a caller of kmalloc writes into its
\* block stays its own, through every mix of vectors that grow, messages of any
\* split and other callers.
BlocksDisjoint ==
  heap.largest <= FrameBytes =>
    /\ TypeOK
    /\ heap.stop # "foreign"
    /\ \A b, c \in InUse : b # c =>
         Extent(b.addr, kheap_bucket_find(b.size))
           \cap Extent(c.addr, kheap_bucket_find(c.size)) = {}
    /\ \A i, j \in Buckets : \A k \in DOMAIN heap.bucket[i], l \in DOMAIN heap.bucket[j] :
         <<i, k>> # <<j, l>> =>
           Extent(heap.bucket[i][k], i) \cap Extent(heap.bucket[j][l], j) = {}
    /\ \A e \in UsedExtents, g \in FreeExtents : e \cap g = {}
    /\ \A e \in UsedExtents \cup FreeExtents, f \in heap.frames : e \cap FrameExtent(f) = {}

\* Every byte of the frames taken so far is in use, free, or part of the smallest
\* block, left behind by a reply of length zero (read_message allocates for it,
\* ipc_send frees nothing): growth, release and messages lose nothing else.
NothingLeaks ==
  heap.largest <= FrameBytes =>
    /\ \A b \in lost : b.size = 0
    /\ UNION (UsedExtents \cup FreeExtents) \cup UNION {Extent(b.addr, 0) : b \in lost}
         = UNION {FrameExtent(f) : f \in Frames \ heap.frames}

\* A receiver gets the message from its start, in order and without holes, as far
\* as its own buffers reach, however the two sides cut their buffers into pieces;
\* no piece gets more than its length.  The copy into the kernel stays within its
\* block unless the lengths add up to more than an unsigned holds.
MessageDelivered ==
  /\ got.sent.type # "none" /\ got.room.type # "none" =>
       LET given == FlattenSeq(got.pieces) IN
       /\ given = [k \in 1..Min({Length(got.sent), Length(got.room)}) |-> k]
       /\ \A i \in DOMAIN got.room.lens :
            /\ Len(got.pieces[i]) <= got.room.lens[i]
            /\ \A j \in (i + 1)..Len(got.room.lens) :
                 got.pieces[j] # <<>> => Len(got.pieces[i]) = got.room.lens[i]
  /\ Overflows(chan) \/ Overflows(conn) => Length(sent) >= SizeMod

\* vector_count: "The amount of elements the vector holds", through every mix
\* of additions, removals, growth and release.
CountExact == vec.count = Cardinality({i \in DOMAIN vec.content : vec.content[i] # NULL})

\* Whoever holds an index finds the same element there until it is removed or the
\* vector emptied: growth moves the array and keeps every element in its place, and
\* an addition takes the lowest place that is free, also after removals.
Table == INSTANCE SlotTable
           WITH Places <- 0..8,
                table <- [i \in 0..8 |->
                            IF i \in DOMAIN vec.content THEN vec.content[i] ELSE NULL]
RefinesTable == Table!Spec

=============================================================================
