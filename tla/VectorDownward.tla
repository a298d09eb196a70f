--------------------------- MODULE VectorDownward ---------------------------
(***************************************************************************)
(* vector_downward, the storage of a FlatBufferBuilder, and the allocators *)
(* it gets its blocks from (vector_downward.h, allocator.h,                *)
(* default_allocator.h, detached_buffer.h, grpc.h).                        *)
(*                                                                         *)
(* A block is a function from its addresses to bytes.  The data grows down *)
(* from the end of the block, the scratch pad up from its start; when the  *)
(* two would meet, the block is replaced by a larger one.                  *)
(*                                                                         *)
(* The memory of a program is a record m:                                  *)
(*   heap     the blocks that are allocated, by address                    *)
(*   vec      the vector of each builder that exists                       *)
(*   finished which builders have a finished buffer                        *)
(*   held     the DetachedBuffer, Message or raw pointer of each holder    *)
(*   slice    the grpc::Slice in each builder of messages                  *)
(*   arena    the state of an allocator made with new                      *)
(*   failed   an assertion fired, or memory was misused                    *)
(* A block inside grpc slices (counted) is freed with the last of them.    *)
(***************************************************************************)
EXTENDS Integers, FiniteSets, Sequences

CONSTANTS Null, Default, Arena

Max2(a, b) == IF a >= b THEN a ELSE b

(***************************************************************************)
(* Growth of a block.                                                      *)
(***************************************************************************)
RoundUp(n, align) == ((n + align - 1) \div align) * align

\* The capacity after growth for len more bytes.
Grown(reserved, len, initial, align) ==
  RoundUp(reserved + Max2(len, IF reserved # 0 THEN reserved \div 2 ELSE initial), align)

\* What is in use at the two ends of a block.
Back(block, size, n) == [i \in 1 .. n |-> block[size - n + i]]
Front(block, n) == [i \in 1 .. n |-> block[i]]

\* Mutant: the end of the old block is copied to where it was.
CopyInPlace(old, oldSize, newSize, back, front) ==
  [i \in 1 .. newSize |-> IF i \in DOMAIN old THEN old[i] ELSE Null]

MemcpyDownward(old, oldSize, newSize, back, front) ==
  [i \in 1 .. newSize |->
     IF i <= front THEN old[i]
     ELSE IF i > newSize - back THEN old[i - (newSize - oldSize)]
     ELSE Null]

(***************************************************************************)
(* Allocators: Default (new and delete), Arena (an Allocator made by the   *)
(* program) and the slice allocator that is a part of a message builder.   *)
(***************************************************************************)
Fail(m) == [m EXCEPT !.failed = TRUE]

Fresh(m) == CHOOSE p \in 1 .. Cardinality(DOMAIN m.heap) + 1 : p \notin DOMAIN m.heap

With(m, p, allocator, bytes) ==
  [m EXCEPT !.heap = [q \in DOMAIN @ \cup {p} |->
     IF q = p THEN [by |-> allocator, counted |-> allocator \in DOMAIN m.slice, bytes |-> bytes] ELSE @[q]]]

Without(m, p) == [m EXCEPT !.heap = [q \in DOMAIN @ \ {p} |-> @[q]]]

Sliced(m) == {m.slice[s] : s \in DOMAIN m.slice} \cup {m.held[h].buf : h \in DOMAIN m.held}

\* The blocks whose last slice is gone are freed.
Collect(m) == [m EXCEPT !.heap = [q \in {p \in DOMAIN @ : @[p].counted => p \in Sliced(m)} |-> @[q]]]

SliceAllocate(m, s, bytes) ==
  IF m.slice[s] # Null THEN Fail(m) ELSE [With(m, Fresh(m), s, bytes) EXCEPT !.slice[s] = Fresh(m)]

SliceDeallocate(m, s, p, size) ==
  IF m.slice[s] # p \/ DOMAIN m.heap[p].bytes # 1 .. size THEN Fail(m)
  ELSE Collect([m EXCEPT !.slice[s] = Null])

SliceReallocate(m, s, p, size, bytes) ==
  IF m.slice[s] # p \/ DOMAIN m.heap[p].bytes # 1 .. size \/ DOMAIN bytes \subseteq 1 .. size THEN Fail(m)
  ELSE Collect([With(m, Fresh(m), s, bytes) EXCEPT !.slice[s] = Fresh(m)])

Gone(m, allocator) == allocator = Arena /\ m.arena = "deleted"

AllocateBytes(m, allocator, bytes) ==
  IF allocator \in DOMAIN m.slice THEN SliceAllocate(m, allocator, bytes)
  ELSE IF Gone(m, allocator) THEN Fail(m) ELSE With(m, Fresh(m), allocator, bytes)

Deallocate(m, allocator, p, size) ==
  IF p \notin DOMAIN m.heap THEN Fail(m)
  ELSE IF allocator \in DOMAIN m.slice THEN SliceDeallocate(m, allocator, p, size)
  ELSE IF m.heap[p].by # allocator \/ m.heap[p].counted \/ Gone(m, allocator) THEN Fail(m)
  ELSE Without(m, p)

\* Allocate, copy, free: the copy is made while both blocks are there.
AllocatorReallocate(m, allocator, p, size, bytes) ==
  IF DOMAIN bytes \subseteq 1 .. size THEN Fail(m)
  ELSE Deallocate(AllocateBytes(m, allocator, bytes), allocator, p, size)

ReallocateDownward(m, allocator, p, size, newSize, back, front) ==
  IF p \notin DOMAIN m.heap THEN Fail(m)
  ELSE LET bytes == MemcpyDownward(m.heap[p].bytes, size, newSize, back, front)
       IN IF allocator \in DOMAIN m.slice THEN SliceReallocate(m, allocator, p, size, bytes)
          ELSE AllocatorReallocate(m, allocator, p, size, bytes)

DeleteAllocator(m, allocator) == IF m.arena = "deleted" THEN Fail(m) ELSE [m EXCEPT !.arena = "deleted"]

(***************************************************************************)
(* One vector: buf, cur and scratch are pointers, the last two relative to *)
(* buf.                                                                    *)
(***************************************************************************)
NewVector(allocator, own, initial) ==
  [allocator |-> allocator, own |-> own, initial |-> initial,
   reserved |-> 0, size |-> 0, buf |-> Null, cur |-> 0, scratch |-> 0]

SetVector(m, o, v) == [m EXCEPT !.vec[o] = v]

Data(m, o) ==
  LET v == m.vec[o] IN [i \in 1 .. v.size |-> m.heap[v.buf].bytes[v.cur + i]]
ScratchData(m, o) ==
  LET v == m.vec[o] IN [i \in 1 .. v.scratch |-> m.heap[v.buf].bytes[i]]

ClearVector(v) ==
  LET reserved == IF v.buf # Null THEN v.reserved ELSE 0
  IN [v EXCEPT !.reserved = reserved, !.cur = reserved, !.size = 0, !.scratch = 0]

ClearBuffer(m, o) ==
  LET v == m.vec[o]
  IN SetVector(IF v.buf # Null THEN Deallocate(m, v.allocator, v.buf, v.reserved) ELSE m, o, [v EXCEPT !.buf = Null])

ClearAllocator(m, o) ==
  LET v == m.vec[o]
  IN SetVector(IF v.own /\ v.allocator # Default THEN DeleteAllocator(m, v.allocator) ELSE m,
               o, [v EXCEPT !.allocator = Default, !.own = FALSE])

ResetVector(m, o) == LET c == ClearBuffer(m, o) IN SetVector(c, o, ClearVector(c.vec[o]))
DestroyVector(m, o) == ClearAllocator(ClearBuffer(m, o), o)

Reallocate(m, o, len, align) ==
  LET v == m.vec[o]
      reserved == Grown(v.reserved, len, v.initial, align)
      moved == IF v.buf # Null
               THEN ReallocateDownward(m, v.allocator, v.buf, v.reserved, reserved, v.size, v.scratch)
               ELSE AllocateBytes(m, v.allocator, [i \in 1 .. reserved |-> Null])
  IN SetVector(moved, o, [v EXCEPT !.reserved = reserved, !.buf = Fresh(m), !.cur = reserved - v.size])

\* Mutant: the scratch pad is left out of what is in use.
EnsureSpaceForData(m, o, len, align) ==
  IF len > m.vec[o].cur THEN Reallocate(m, o, len, align) ELSE m

EnsureSpace(m, o, len, align) ==
  IF len > m.vec[o].cur - m.vec[o].scratch THEN Reallocate(m, o, len, align) ELSE m

Stored(m, o, at, bytes) ==
  [m EXCEPT !.heap[m.vec[o].buf].bytes =
     [i \in DOMAIN @ |-> IF i - at \in DOMAIN bytes THEN bytes[i - at] ELSE @[i]]]

\* A vector whose block is gone is not written to: that would be a misuse.
Push(m, o, bytes, align) ==
  LET n == Len(bytes)
      e == EnsureSpace(m, o, n, align)
      v == [e.vec[o] EXCEPT !.cur = @ - n, !.size = @ + n]
  IN IF n = 0 \/ e.failed THEN e ELSE Stored(SetVector(e, o, v), o, v.cur, bytes)

ScratchPush(m, o, byte, align) ==
  LET e == EnsureSpace(m, o, 1, align)
      v == e.vec[o]
  IN IF e.failed THEN e ELSE Stored(SetVector(e, o, [v EXCEPT !.scratch = @ + 1]), o, v.scratch, <<byte>>)

Pop(m, o, n) == SetVector(m, o, [m.vec[o] EXCEPT !.cur = @ + n, !.size = @ - n])

SwapVectors(m, o, p) == [m EXCEPT !.vec[o] = m.vec[p], !.vec[p] = m.vec[o]]

SwapAllocators(m, o, p) ==
  LET v == m.vec[o]
      w == m.vec[p]
  IN [m EXCEPT !.vec[o].allocator = w.allocator, !.vec[o].own = w.own,
               !.vec[p].allocator = v.allocator, !.vec[p].own = v.own]

\* What a DetachedBuffer, a Message or the program holds; raw says which.
NoBuffer == [kind |-> "none", allocator |-> Default, own |-> FALSE, buf |-> Null, reserved |-> 0, cur |-> 0, size |-> 0]

Grip(v, kind) ==
  [kind |-> kind, allocator |-> v.allocator, own |-> v.own, buf |-> v.buf, reserved |-> v.reserved,
   cur |-> v.cur, size |-> v.size]

\* The vector after release: an owned allocator goes with the block.
Release(v) ==
  ClearVector([v EXCEPT !.buf = Null, !.allocator = IF v.own THEN Default ELSE @, !.own = FALSE])

ReleaseRaw(v) == ClearVector([v EXCEPT !.buf = Null])

\* Destroying what a holder has (DetachedBuffer, or the slice of a Message).
DestroyHeld(m, h) ==
  LET d == m.held[h]
      empty(w) == [w EXCEPT !.held[h] = NoBuffer]
      freed == IF d.buf # Null THEN Deallocate(m, d.allocator, d.buf, d.reserved) ELSE m
  IN IF d.kind = "slice" THEN Collect(empty(m))
     ELSE empty(IF d.own /\ d.allocator # Default THEN DeleteAllocator(freed, d.allocator) ELSE freed)
=============================================================================
