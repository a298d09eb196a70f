--------------------------- MODULE BufferOwnership --------------------------
(***************************************************************************)
(* Builders, message builders and what they hand out: who owns which block *)
(* of memory while buffers are written, finished, swapped, moved, released *)
(* and destroyed (flatbuffer_builder.h, detached_buffer.h, grpc.h).        *)
(*                                                                         *)
(* A byte that is written is its own position, counted from the end, and a *)
(* note in the scratch pad is negative: one that is lost or misplaced does *)
(* not go unnoticed.                                                       *)
(*                                                                         *)
(* The program keeps to the rules of the interface: it reads and releases  *)
(* finished buffers only, moves only builders with the default allocator   *)
(* into message builders, frees raw memory while its allocator is there,   *)
(* and clears no builder of which it holds a message.                      *)
(***************************************************************************)
EXTENDS VectorDownward

CONSTANTS
  Builder,         \* the variables of type FlatBufferBuilder
  MessageBuilder,  \* those of type MessageBuilder
  TempMessage,     \* the unnamed MessageBuilder of an assignment
  Temp,            \* the unnamed FlatBufferBuilder or DetachedBuffer
  Holder,          \* the variables that hold a released buffer or a message
  InitialSize,     \* the initial size of every builder
  MinAlign,        \* buffer_minalign
  MaxSize,         \* bound: bytes in a buffer
  MaxNotes,        \* bound: notes in a scratch pad
  MaxBlocks,       \* bound: blocks that are allocated at the same time
  Casts            \* bound: which of these variables a program has

\* The constants of a program: its variables are different things, and so are
\* the allocators; a block has an address; a new block has room for a byte.
Parameters ==
  /\ Null \notin Nat \ {0} /\ Default # Arena
  /\ Builder \cap MessageBuilder = {} /\ Holder \cap (Builder \cup MessageBuilder) = {}
  /\ {Temp, TempMessage, Default, Arena} \cap (Builder \cup MessageBuilder \cup Holder) = {}
  /\ Temp # TempMessage /\ {Temp, TempMessage} \cap {Default, Arena} = {}
  /\ InitialSize \in Nat /\ MinAlign \in Nat \ {0} /\ MaxSize \in Nat /\ MaxNotes \in Nat

ASSUME ParametersAssumption == Parameters

VARIABLES mem, cast

ovars == <<mem, cast>>

Object == Builder \cup MessageBuilder
Allocators == {Default, Arena} \cup MessageBuilder \cup {TempMessage}

(***************************************************************************)
(* Operations of the builders.                                             *)
(***************************************************************************)
Construct(m, o, allocator, own) ==
  [m EXCEPT !.vec = [q \in DOMAIN @ \cup {o} |-> IF q = o THEN NewVector(allocator, own, InitialSize) ELSE @[q]]]

ConstructMessage(m, o) == Construct(m, o, o, FALSE)

Forget(m, o) ==
  [m EXCEPT !.vec = [q \in DOMAIN @ \ {o} |-> @[q]], !.finished = @ \ {o}]

\* The slice of a message builder is destroyed after its vector.
Destruct(m, o) ==
  LET d == Forget(DestroyVector(m, o), o)
  IN IF o \in DOMAIN m.slice THEN Collect([d EXCEPT !.slice[o] = Null]) ELSE d

ClearBuilder(m, o) == SetVector([m EXCEPT !.finished = @ \ {o}], o, ClearVector(m.vec[o]))
ResetBuilder(m, o) == ResetVector(ClearBuilder(m, o), o)

SwapBuilders(m, o, p) ==
  [SwapVectors(m, o, p) EXCEPT
     !.finished = {q \in Object \cup {Temp, TempMessage} :
                     (CASE q = o -> p [] q = p -> o [] OTHER -> q) \in m.finished}]

MoveConstruct(m, o, from) == SwapBuilders(Construct(m, o, Default, FALSE), o, from)

MoveAssign(m, o, from) == Destruct(SwapBuilders(MoveConstruct(m, Temp, from), o, Temp), Temp)

ReleaseBuilder(m, o) == ClearBuilder(SetVector(m, o, Release(m.vec[o])), o)
ReleaseBuilderRaw(m, o) == ClearBuilder(SetVector(m, o, ReleaseRaw(m.vec[o])), o)

(***************************************************************************)
(* Operations of the message builders.                                     *)
(***************************************************************************)
SwapSlices(m, o, p) == [m EXCEPT !.slice[o] = m.slice[p], !.slice[p] = m.slice[o]]

\* Mutant: the allocators stay with the vectors.
SwapMessagesOnly(m, o, p) == SwapBuilders(SwapSlices(m, o, p), o, p)

\* Every vector keeps the allocator that is a part of its own builder.
SwapMessages(m, o, p) == SwapAllocators(SwapBuilders(SwapSlices(m, o, p), o, p), o, p)

MoveConstructMessage(m, o, from) == SwapMessages(ConstructMessage(m, o), o, from)

MoveAssignMessage(m, o, from) ==
  Destruct(SwapMessages(MoveConstructMessage(m, TempMessage, from), o, TempMessage), TempMessage)

\* A block from new becomes the block of a slice.
Adopt(m, o) ==
  LET v == m.vec[o]
  IN IF v.reserved # 0 THEN [m EXCEPT !.slice[o] = v.buf, !.heap[v.buf].counted = TRUE] ELSE m

MessageFromBuilder(m, o, from) ==
  Adopt(SwapAllocators(SwapBuilders(ConstructMessage(m, o), from, o), from, o), o)

AssignFromBuilder(m, o, from) ==
  Destruct(SwapMessages(MessageFromBuilder(m, TempMessage, from), o, TempMessage), TempMessage)

\* The slice of a message is part of the slice of its builder.
GetMessage(m, o, h) ==
  LET d == DestroyHeld(m, h)
  IN IF m.slice[o] # m.vec[o].buf THEN Fail(m) ELSE [d EXCEPT !.held[h] = Grip(m.vec[o], "slice")]

ReleaseMessage(m, o, h) == ResetBuilder(GetMessage(m, o, h), o)

ReleaseMessageRaw(m, o, h) ==
  LET d == ReleaseBuilderRaw(DestroyHeld(m, h), o)
  IN [d EXCEPT !.held[h] = Grip(m.vec[o], "slice"), !.slice[o] = Null]

(***************************************************************************)
(* A DetachedBuffer is assigned the one that release returns, or another.  *)
(***************************************************************************)

AssignDetached(m, h, d) == [DestroyHeld(m, h) EXCEPT !.held[h] = d]

MoveHeld(m, h, from) == [AssignDetached(m, h, m.held[from]) EXCEPT !.held[from] = NoBuffer]

(***************************************************************************)
(* The program.                                                            *)
(***************************************************************************)
Init ==
  /\ cast \in Casts
  /\ mem = [heap |-> <<>>, vec |-> <<>>, finished |-> {}, arena |-> "none", failed |-> FALSE,
            held |-> [h \in Holder |-> NoBuffer],
            slice |-> [o \in MessageBuilder \cup {TempMessage} |-> Null]]

Live(o) == o \in DOMAIN mem.vec
InUse(o) == Live(o) /\ o \notin mem.finished
Finished(o) == o \in mem.finished

\* Raw memory is freed before its allocator goes.
RawFirst(m) == \A h \in Holder : m.held[h].kind = "raw" /\ m.held[h].allocator = Arena => m.arena # "deleted"

\* A builder whose message is held is not written from its start again.
Lent(o) == o \in MessageBuilder /\ mem.slice[o] # Null /\ \E h \in Holder : mem.held[h].buf = mem.slice[o]

\* Bytes outside the stacks and the buffers held are never read: the model
\* forgets them.
Used(m, p) ==
  (UNION {1 .. v.scratch \cup v.cur + 1 .. v.cur + v.size : v \in {m.vec[o] : o \in {q \in DOMAIN m.vec : m.vec[q].buf = p}}})
    \cup (UNION {d.cur + 1 .. d.cur + d.size : d \in {m.held[h] : h \in {g \in Holder : m.held[g].buf = p}}})

Remembered(m, p) == [m.heap[p] EXCEPT !.bytes = [i \in DOMAIN @ |-> IF i \in Used(m, p) THEN @[i] ELSE Null]]

Forgetful(m) == [m EXCEPT !.heap = [p \in DOMAIN @ |-> Remembered(m, p)]]

Become(m) ==
  /\ ~mem.failed /\ RawFirst(m) /\ Cardinality(DOMAIN m.heap) <= MaxBlocks
  /\ mem' = Forgetful(m) /\ UNCHANGED cast

Create(o) ==
  /\ ~Live(o)
  /\ IF o \in MessageBuilder THEN Become(ConstructMessage(mem, o))
     ELSE \/ Become(Construct(mem, o, Default, FALSE))
          \/ \E own \in BOOLEAN :
               mem.arena = "none" /\ Become(Construct([mem EXCEPT !.arena = "made"], o, Arena, own))

Write(o) ==
  /\ InUse(o) /\ mem.vec[o].size < MaxSize
  /\ Become(Push(mem, o, <<mem.vec[o].size + 1>>, MinAlign))

Remove(o) == InUse(o) /\ mem.vec[o].size > 0 /\ ~Lent(o) /\ Become(Pop(mem, o, 1))

Note(o) ==
  /\ InUse(o) /\ mem.vec[o].scratch < MaxNotes
  /\ Become(ScratchPush(mem, o, - 1 - mem.vec[o].scratch, MinAlign))

\* Finish drops the scratch pad and writes the root.
Finish(o) ==
  /\ InUse(o) /\ mem.vec[o].size < MaxSize
  /\ LET c == SetVector([mem EXCEPT !.finished = @ \cup {o}], o, [mem.vec[o] EXCEPT !.scratch = 0])
     IN Become(Push(c, o, <<mem.vec[o].size + 1>>, MinAlign))

Clear(o) == Live(o) /\ ~Lent(o) /\ Become(ClearBuilder(mem, o))
Reset(o) == Live(o) /\ Become(ResetBuilder(mem, o))
Destroy(o) == Live(o) /\ Become(Destruct(mem, o))

Swap(o, p) ==
  /\ Live(o) /\ Live(p) /\ o # p
  /\ \/ o \in Builder /\ p \in Builder /\ Become(SwapBuilders(mem, o, p))
     \/ o \in MessageBuilder /\ p \in MessageBuilder /\ Become(SwapMessages(mem, o, p))

Move(o, p) ==
  /\ Live(p) /\ o # p
  /\ \/ o \in Builder /\ p \in Builder /\ Become((IF Live(o) THEN MoveAssign(mem, o, p) ELSE MoveConstruct(mem, o, p)))
     \/ /\ o \in MessageBuilder /\ p \in MessageBuilder
        /\ Become((IF Live(o) THEN MoveAssignMessage(mem, o, p) ELSE MoveConstructMessage(mem, o, p)))
     \/ /\ o \in MessageBuilder /\ p \in Builder /\ mem.vec[p].allocator = Default
        /\ Become((IF Live(o) THEN AssignFromBuilder(mem, o, p) ELSE MessageFromBuilder(mem, o, p)))

\* DetachedBuffer from Release, or the raw block and what frees it.
Detach(o, h) ==
  /\ o \in Builder /\ Finished(o)
  /\ \/ mem.held[h].kind \in {"none", "detached"}
        /\ Become(AssignDetached(ReleaseBuilder(mem, o), h, Grip(mem.vec[o], "detached")))
     \/ mem.held[h].kind = "none"
        /\ Become([ReleaseBuilderRaw(mem, o) EXCEPT !.held[h] = [Grip(mem.vec[o], "raw") EXCEPT !.own = FALSE]])

Send(o, h) ==
  /\ o \in MessageBuilder /\ Finished(o) /\ mem.held[h].kind \in {"none", "slice"}
  /\ \/ Become(GetMessage(mem, o, h))
     \/ Become(ReleaseMessage(mem, o, h))
     \/ Become(ReleaseMessageRaw(mem, o, h))

Pass(h, g) ==
  /\ h # g /\ mem.held[g].kind \in {"detached", "slice"} /\ mem.held[h].kind \in {"none", mem.held[g].kind}
  /\ Become(MoveHeld(mem, h, g))

Drop(h) == mem.held[h].kind # "none" /\ Become(DestroyHeld(mem, h))

Next ==
  \/ \E o \in Object \cap cast : Create(o)
  \/ \E o \in Object \cap cast : Write(o)
  \/ \E o \in Object \cap cast : Remove(o)
  \/ \E o \in Object \cap cast : Note(o)
  \/ \E o \in Object \cap cast : Finish(o)
  \/ \E o \in Object \cap cast : Clear(o)
  \/ \E o \in Object \cap cast : Reset(o)
  \/ \E o \in Object \cap cast : Destroy(o)
  \/ \E o, p \in Object \cap cast : Swap(o, p)
  \/ \E o, p \in Object \cap cast : Move(o, p)
  \/ \E o \in Object \cap cast, h \in Holder \cap cast : Detach(o, h)
  \/ \E o \in Object \cap cast, h \in Holder \cap cast : Send(o, h)
  \/ \E h, g \in Holder \cap cast : Pass(h, g)
  \/ \E h \in Holder \cap cast : Drop(h)

(***************************************************************************)
(* Properties.                                                             *)
(***************************************************************************)
\* The pointers of a vector: its data ends with its block, the scratch pad
\* and the data do not meet, and without a block nothing is left of either.
Vectors ==
  \A o \in DOMAIN mem.vec :
    LET v == mem.vec[o]
    IN /\ v.cur + v.size = v.reserved /\ v.scratch <= v.cur
       /\ IF v.buf = Null THEN v.reserved = 0
          ELSE v.buf \in DOMAIN mem.heap /\ DOMAIN mem.heap[v.buf].bytes = 1 .. v.reserved

\* Who has a pointer to block p, other than as a slice; who has a slice of it.
Owners(p) == {o \in DOMAIN mem.vec : mem.vec[o].buf = p} \cup {h \in Holder : mem.held[h].kind # "slice" /\ mem.held[h].buf = p}
Slices(p) ==
  {o \in DOMAIN mem.slice : mem.slice[o] = p} \cup {h \in Holder : mem.held[h].kind = "slice" /\ mem.held[h].buf = p}

\* Who owns the allocator that was given away.
ArenaOwners ==
  {o \in DOMAIN mem.vec : mem.vec[o].own} \cup {h \in Holder : mem.held[h].own}

\* Every block has exactly one owner, or is counted by slices; a message
\* builder writes only where its own slice is; an allocator that was given away
\* has one owner until it is deleted.  Nothing is leaked, and nothing misused: no
\* block is freed twice, by another allocator than it came from or with another
\* size, no allocator is used after it was deleted, no assertion of one fires.
OneOwner ==
  /\ ~mem.failed
  /\ \A p \in DOMAIN mem.heap :
       IF mem.heap[p].counted THEN Slices(p) # {} /\ Owners(p) \subseteq Slices(p)
       ELSE Cardinality(Owners(p)) = 1 /\ Slices(p) = {}
  /\ \A o \in DOMAIN mem.vec : o \in MessageBuilder => mem.vec[o].buf = mem.slice[o]
  /\ \A h \in Holder : mem.held[h].buf # Null => mem.held[h].buf \in DOMAIN mem.heap
  /\ mem.arena = "deleted" => ArenaOwners = {} /\ \A o \in DOMAIN mem.vec : mem.vec[o].allocator # Arena
  /\ Cardinality(ArenaOwners) <= 1

\* Whatever happens to the storage, the program sees two stacks per builder
\* and data at rest in what it holds.
Contents(o) == IF Live(o) THEN Data(mem, o) ELSE <<>>
Notes(o) == IF Live(o) THEN ScratchData(mem, o) ELSE <<>>
Kept(h) == LET d == mem.held[h] IN [i \in 1 .. d.size |-> mem.heap[d.buf].bytes[d.cur + i]]

Stacks == INSTANCE TwoStacks WITH
  data <- [o \in Object |-> Contents(o)],
  scratch <- [o \in Object |-> Notes(o)],
  kept <- [h \in Holder |-> Kept(h)],
  Byte <- - MaxNotes .. MaxSize

Spec == Init /\ [][Next]_ovars
BehavesAsStacks == Stacks!Spec
=============================================================================
