----------------------------- MODULE FlatBuffers ----------------------------
(***************************************************************************)
(* The builder, the readers and the verifier together: what a program has  *)
(* given the builder is what it and a verifier read in the buffer.         *)
(***************************************************************************)
EXTENDS FlatBufferBuilder, FlatBufferVerifier

\* Holds(buf, size, o, made): reading the object made at offset o of a buffer
\* of size bytes gives what the program made.
HoldsElements(buf, v, size, x) ==
  /\ SizeOf(buf, v) = Len(x.elems)
  /\ CASE x.type = "strings" -> \A i \in DOMAIN x.elems : Characters(buf, GetOffset(buf, v, i - 1)) = x.elems[i]
       [] x.type = "scalars" -> \A i \in DOMAIN x.elems : Get(buf, v, i - 1, x.n) = x.elems[i]
       [] x.type = "structs" -> \A i \in DOMAIN x.elems : \A j \in 1 .. x.n :
                                  Byte(buf, GetStruct(v, i - 1, x.n) + j - 1) = x.elems[i][j]
       [] x.type = "tables"  ->
            LET read == [i \in DOMAIN x.elems |-> size - GetOffset(buf, v, i - 1)]
                count(s, o) == Cardinality({i \in DOMAIN s : s[i] = o})
            IN IF x.sorted THEN \A o \in Range(x.elems) : count(read, o) = count(x.elems, o)
               ELSE read = x.elems

HoldsField(buf, t, size, f, fields) ==
  LET given == f.slot \in DOMAIN fields
  IN CASE f.kind = "scalar" ->
            GetField(buf, t, f.slot, f.n, f.default) = IF given THEN fields[f.slot] ELSE f.default
       [] f.kind = "optional" ->
            IF given THEN GetAddressOf(buf, t, f.slot) # Nullptr /\ GetField(buf, t, f.slot, f.n, 0) = fields[f.slot]
            ELSE GetAddressOf(buf, t, f.slot) = Nullptr
       [] f.kind = "struct" ->
            IF given THEN \A j \in 1 .. f.n : Byte(buf, GetAddressOf(buf, t, f.slot) + j - 1) = fields[f.slot][j]
            ELSE GetAddressOf(buf, t, f.slot) = Nullptr
       [] OTHER -> GetPointer(buf, t, f.slot) = IF given THEN size - fields[f.slot] ELSE Nullptr

Holds(buf, size, o, x) ==
  CASE x.type = "string" -> Characters(buf, size - o) = x.chars
    [] x.type = "table"  -> \A f \in Fields(x.of) : HoldsField(buf, size - o, size, f, x.fields)
    [] OTHER             -> HoldsElements(buf, size - o, size, x)

(***************************************************************************)
(* Properties.                                                             *)
(***************************************************************************)
TypeOK ==
  /\ fbb.buf \in Seq(0 .. 255) /\ fbb.scratch \in Seq(Nat)
  /\ 2 * fbb.numFields <= Len(fbb.scratch)
  /\ DOMAIN objects \subseteq 1 .. Size(fbb)
  /\ fbb.pool \subseteq Made("string")
  /\ goal \in Goal

\* Whatever has been written, removed again or shared since, every string,
\* vector and table the builder returned reads back as it was given: vtables
\* that are shared are equal, strings that are taken back were nobody else's.
\* The root of a finished buffer is the one that was meant.
ReadBack ==
  ~fbb.failed => /\ \A o \in DOMAIN objects : Holds(fbb.buf, Size(fbb), o, objects[o])
                 /\ fbb.finished => GetRoot(fbb.buf, fbb.prefix) = Size(fbb) - fbb.root

Id == IF fbb.id THEN FileId ELSE <<>>
RootType == objects[fbb.root].of

\* The verifier accepts every buffer the builder finishes, with or without a
\* size prefix and a file identifier: its offsets lead to objects inside, its
\* scalars are aligned, its strings end with 0.  The size that a verification
\* computes is enough to verify the buffer again.
FinishedVerifies ==
  fbb.finished /\ ~fbb.failed =>
    LET v == VerifyBuffer(fbb.buf, RootType, Id, fbb.prefix)
        n == GetComputedSize(v)
    IN /\ v.ok
       /\ fbb.prefix = 0 => n # 0 /\ VerifyBuffer(SubSeq(fbb.buf, 1, n), RootType, Id, 0).ok

\* Objects reachable from an object.
Refers(o) ==
  LET x == objects[o]
  IN CASE x.type = "table"  -> {x.fields[f.slot] : f \in {g \in Fields(x.of) : g.slot \in DOMAIN x.fields
                                                                     /\ g.kind \in OffsetKind}} \ {0}
       [] x.type = "tables" -> Range(x.elems)
       [] OTHER             -> {}

Reachable ==
  LET more(S) == S \cup UNION {Refers(o) : o \in S}
  IN more(more(more(more(more({fbb.root})))))

\* A buffer that has lost its end is either refused or still holds all that
\* can be reached from its root: the verifier checks all that a reader reads.
AcceptedIsReadable ==
  fbb.finished /\ ~fbb.failed =>
    \A n \in fbb.prefix + 1 .. Size(fbb) - 1 :
      VerifyBuffer(SubSeq(fbb.buf, 1, n), RootType, Id, fbb.prefix).ok
        => \A o \in Reachable : Holds(SubSeq(fbb.buf, 1, n), Size(fbb), o, objects[o])

\* Equal vtables are stored once, and what waits in the scratch pad between
\* two tables is the vtables, nothing that was left behind.
VTableBytes(off) == SubSeq(fbb.buf, Size(fbb) - off + 1, Size(fbb) - off + ReadScalar(fbb.buf, Size(fbb) - off, 2))
VTablesShared ==
  ~fbb.failed /\ ~fbb.finished /\ fbb.numFields = 0 =>
    /\ {GetVTable(fbb.buf, Size(fbb) - o) : o \in Made("table")} = {Size(fbb) - off : off \in Range(fbb.scratch)}
    /\ fbb.dedupVtables => \A i, j \in DOMAIN fbb.scratch :
                             VTableBytes(fbb.scratch[i]) = VTableBytes(fbb.scratch[j]) => i = j

\* In a vector of sorted tables the search finds a table by every key that is
\* there, and none by a key that is not, as long as keys hold no 0: there the
\* order of the search ends a string, the order of the sort does not.
LookupFinds ==
  ~fbb.failed => \A o \in Made("tables") : objects[o].sorted =>
    LET type == objects[o].of
        v == Size(fbb) - o
        keys == {KeyAt(fbb.buf, Size(fbb) - e, type) : e \in Range(objects[o].elems)}
        found(key) == LookupByKey(fbb.buf, v, [p \in Nat |-> KeyCompareWithValue(fbb.buf, p, type, key)])
    IN /\ \A k \in keys : found(k) # Nullptr /\ KeyAt(fbb.buf, found(k), type) = k
       /\ \A k \in {objects[s].chars : s \in Made("string")} \ keys : found(k) = Nullptr
=============================================================================
