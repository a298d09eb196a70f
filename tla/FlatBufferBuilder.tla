------------------------- MODULE FlatBufferBuilder --------------------------
(***************************************************************************)
(* FlatBufferBuilder of the vendored FlatBuffers library                   *)
(* (flatbuffer_builder.h): it serialises strings, vectors, structs and     *)
(* tables into a buffer that grows towards lower addresses, shares equal   *)
(* vtables and, on demand, equal strings, and writes the root last.        *)
(*                                                                         *)
(* The builder is the record fbb.  Its buffer and its scratch pad are the  *)
(* two stacks that vector_downward keeps in one block (VectorDownward      *)
(* shows it); an object is named by its offset, the size of the buffer     *)
(* when it was complete.  The program calls the operations in any order;   *)
(* where the code asserts, a wrong call ends the program (failed).         *)
(*                                                                         *)
(* objects is what the program meant: the contents given for every offset  *)
(* the builder has returned; open is the table it is building.             *)
(***************************************************************************)
EXTENDS WireFormat, FiniteSets, SequencesExt

CONSTANTS
  Goal,         \* the types of roots a program builds
  Needs(_, _),  \* what a program with that goal may create after n objects
  Given(_, _),  \* with that goal, the values given to the slots of a type of table
  Value(_),     \* the values a scalar or struct field is given
  Mutable(_),   \* the fields of a type that a program overwrites
  Endings(_),   \* how its buffer ends: with an identifier or not, with which prefix
  FileId,       \* a file identifier of four bytes
  MaxFields     \* bound: how many fields an open table is given

VARIABLES fbb, objects, open, goal

vars == <<fbb, objects, open, goal>>

Size(b) == Len(b.buf)

New(force, dedup) ==
  [ buf |-> <<>>, scratch |-> <<>>, numFields |-> 0, maxVOffset |-> 0, nested |-> FALSE,
    finished |-> FALSE, minalign |-> 1, forceDefaults |-> force, dedupVtables |-> dedup,
    pool |-> {}, failed |-> FALSE, prefix |-> 0, id |-> FALSE, root |-> 0 ]

Push(b, bytes) == [b EXCEPT !.buf = bytes \o @]
Pop(b, n) == [b EXCEPT !.buf = SubSeq(@, n + 1, Len(@))]
Zeros(n) == [i \in 1 .. n |-> 0]

TrackMinAlign(b, n) == IF n > b.minalign THEN [b EXCEPT !.minalign = n] ELSE b

Align(b, n) == Push(TrackMinAlign(b, n), Zeros(PaddingBytes(Size(b), n)))

\* Pads so that after len more bytes the buffer is aligned.
PreAlign(b, len, n) ==
  IF len = 0 THEN b ELSE Push(TrackMinAlign(b, n), Zeros(PaddingBytes(Size(b) + len, n)))

PushElement(b, v, n) == Push(Align(b, n), Scalar(v, n))

\* An offset is stored relative to its own place.
ReferTo(b, off) == Size(b) - off + 4
PushOffset(b, off) == LET a == Align(b, 4) IN PushElement(a, ReferTo(a, off), 4)

NotNested(b) == ~b.nested /\ b.numFields = 0

(***************************************************************************)
(* Tables.                                                                 *)
(***************************************************************************)
TrackField(b, slot) ==
  [b EXCEPT !.scratch = @ \o <<Size(b), slot>>, !.numFields = @ + 1,
            !.maxVOffset = IF slot > @ THEN slot ELSE @]

AddElement(b, f, v) ==
  IF v = f.default /\ ~b.forceDefaults THEN b ELSE TrackField(PushElement(b, v, f.n), f.slot)

AddOptional(b, f, v) == TrackField(PushElement(b, v, f.n), f.slot)

AddOffset(b, f, off) == IF off = 0 THEN b ELSE TrackField(PushOffset(b, off), f.slot)

AddStruct(b, f, bytes) == TrackField(Push(Align(b, StructAlign), bytes), f.slot)

Add(b, f, v) ==
  CASE f.kind = "scalar"   -> AddElement(b, f, v)
    [] f.kind = "optional" -> AddOptional(b, f, v)
    [] f.kind = "struct"   -> AddStruct(b, f, v)
    [] OTHER               -> AddOffset(b, f, v)

ClearOffsets(b) ==
  [b EXCEPT !.scratch = SubSeq(@, 1, Len(@) - 2 * b.numFields), !.numFields = 0, !.maxVOffset = 0]

\* The places of the fields, noted on top of the scratch pad: <<offset, slot>>.
FieldLocs(b) ==
  LET base == Len(b.scratch) - 2 * b.numFields
  IN [i \in 1 .. b.numFields |-> <<b.scratch[base + 2 * i - 1], b.scratch[base + 2 * i]>>]

SetOnce(b) == \A i, j \in 1 .. b.numFields : FieldLocs(b)[i][2] = FieldLocs(b)[j][2] => i = j

\* The vtable of a table that began at start and whose vtable offset is at loc.
VTable(b, start, loc) ==
  LET size == IF b.maxVOffset + 2 > 4 THEN b.maxVOffset + 2 ELSE 4
      place(slot) == IF \E i \in 1 .. b.numFields : FieldLocs(b)[i][2] = slot
                     THEN loc - FieldLocs(b)[CHOOSE i \in 1 .. b.numFields : FieldLocs(b)[i][2] = slot][1]
                     ELSE 0
      word(i) == CASE i = 0 -> size [] i = 1 -> loc - start [] OTHER -> place(2 * i)
  IN FlattenSeq([i \in 1 .. size \div 2 |-> Scalar(word(i - 1), 2)])

\* Mutant: layouts of the same size are taken for the same.
SameVTableBySize(b, i) == ReadScalar(b.buf, Size(b) - b.scratch[i], 2) = ReadScalar(b.buf, 0, 2)

\* Whether the vtable noted in the scratch pad at i equals the one just written.
SameVTable(b, i) ==
  LET size == ReadScalar(b.buf, 0, 2)
      at   == Size(b) - b.scratch[i]
  IN ReadScalar(b.buf, at, 2) = size /\ SubSeq(b.buf, at + 1, at + size) = SubSeq(b.buf, 1, size)

EndTable(b, start) ==
  LET b1  == PushElement(b, 0, 4)
      loc == Size(b1)
      b2  == ClearOffsets(Push(b1, VTable(b1, start, loc)))
      same == {i \in 1 .. Len(b2.scratch) : b2.dedupVtables /\ SameVTable(b2, i)}
      first == CHOOSE i \in same : \A j \in same : i <= j
      use == IF same = {} THEN Size(b2) ELSE b2.scratch[first]
      b3  == IF same = {} THEN [b2 EXCEPT !.scratch = Append(@, use)] ELSE Pop(b2, Size(b2) - loc)
  IN [ b   |-> [b3 EXCEPT !.buf = WriteScalar(@, Size(b3) - loc, use - loc, 4), !.nested = FALSE],
       off |-> loc ]

Required(b, off, type) ==
  \A i \in DOMAIN FieldsOf(type) :
    FieldsOf(type)[i].required => GetOptionalFieldOffset(b.buf, Size(b) - off, FieldsOf(type)[i].slot) # 0

(***************************************************************************)
(* Strings and vectors.                                                    *)
(***************************************************************************)
CreateStringImpl(b, s) ==
  PushElement(Push(PreAlign(b, Len(s) + 1, 4), Append(s, 0)), Len(s), 4)

StringAt(b, off) == Characters(b.buf, Size(b) - off)

\* The string is written first and taken back when the pool has an equal one.
CreateSharedStringImpl(b, s) ==
  LET b1   == CreateStringImpl(b, s)
      same == {o \in b.pool : ~StringLessThan(StringAt(b1, o), s) /\ ~StringLessThan(s, StringAt(b1, o))}
  IN IF same # {} THEN [b |-> Pop(b1, Size(b1) - Size(b)), off |-> CHOOSE o \in same : TRUE]
     ELSE [b |-> [b1 EXCEPT !.pool = @ \cup {Size(b1)}], off |-> Size(b1)]

StartVector(b, len, n, align) ==
  [PreAlign(PreAlign(b, len * n, 4), len * n, align) EXCEPT !.nested = TRUE]

EndVector(b, len) == PushElement([b EXCEPT !.nested = FALSE], len, 4)

\* The elements are pushed from the last to the first.
CreateVectorOfScalars(b, v, n) ==
  EndVector(FoldRight(LAMBDA x, a : PushElement(a, x, n), v, StartVector(b, Len(v), n, n)), Len(v))

CreateVectorOfOffsets(b, v) ==
  EndVector(FoldRight(LAMBDA x, a : PushOffset(a, x), v, StartVector(b, Len(v), 4, 4)), Len(v))

CreateVectorOfStructs(b, v, n) ==
  EndVector(Push(StartVector(b, Len(v), n, StructAlign), FlattenSeq(v)), Len(v))

\* Mutant: the offsets of the strings stay in the scratch pad.
CreateVectorOfStringsKeepingScratch(b, v) ==
  LET push(a, s) == LET c == CreateStringImpl(a, s) IN [c EXCEPT !.scratch = Append(@, Size(c))]
      b1   == FoldLeft(push, b, v)
      offs == [i \in 1 .. Len(v) |-> b1.scratch[Len(b1.scratch) - Len(v) + i]]
  IN EndVector(FoldRight(LAMBDA x, a : PushOffset(a, x), offs, StartVector(b1, Len(v), 4, 4)), Len(v))

\* The offsets of the strings wait in the scratch pad while the strings are written.
CreateVectorOfStringsImpl(b, v) ==
  LET push(a, s) == LET c == CreateStringImpl(a, s) IN [c EXCEPT !.scratch = Append(@, Size(c))]
      b1   == FoldLeft(push, b, v)
      offs == [i \in 1 .. Len(v) |-> b1.scratch[Len(b1.scratch) - Len(v) + i]]
      b2   == FoldRight(LAMBDA x, a : PushOffset(a, x), offs, StartVector(b1, Len(v), 4, 4))
  IN EndVector([b2 EXCEPT !.scratch = SubSeq(@, 1, Len(@) - Len(v))], Len(v))

\* The key of a table: a string or a scalar.
KeyField(type) == CHOOSE i \in DOMAIN FieldsOf(type) : FieldsOf(type)[i].key
KeyAt(buf, t, type) ==
  LET f == FieldsOf(type)[KeyField(type)]
  IN IF f.kind = "string" THEN Characters(buf, GetPointer(buf, t, f.slot))
     ELSE <<GetField(buf, t, f.slot, f.n, f.default)>>
KeyCompareLessThan(buf, t, u, type) == StringLessThan(KeyAt(buf, t, type), KeyAt(buf, u, type))

\* Against a key that a reader looks for: strings end at their first 0 here.
CString(s) == IF 0 \in Range(s) THEN SubSeq(s, 1, SelectInSeq(s, LAMBDA c : c = 0) - 1) ELSE s
KeyCompareWithValue(buf, t, type, key) ==
  LET text == FieldsOf(type)[KeyField(type)].kind = "string"
      mine == IF text THEN CString(KeyAt(buf, t, type)) ELSE KeyAt(buf, t, type)
      wanted == IF text THEN CString(key) ELSE key
  IN IF StringLessThan(mine, wanted) THEN -1 ELSE IF StringLessThan(wanted, mine) THEN 1 ELSE 0

\* Mutant: the tables stay in the order given.
Unsorted(b, v, type) == v

StableSort(b, v, type) ==
  LET less(i, j) == KeyCompareLessThan(b.buf, Size(b) - v[i], Size(b) - v[j], type)
      before(i, j) == less(i, j) \/ (~less(j, i) /\ i < j)
  IN [k \in DOMAIN v |-> v[CHOOSE i \in DOMAIN v : Cardinality({j \in DOMAIN v : j # i /\ before(j, i)}) = k - 1]]

CreateVectorOfSortedTables(b, v, type) == CreateVectorOfOffsets(b, StableSort(b, v, type))

(***************************************************************************)
(* The end of a buffer.                                                    *)
(***************************************************************************)
\* Mutant: the size prefix and the root offset are not counted when the buffer
\* is aligned.
FinishUnaligned(b, root, withId, prefix) ==
  LET b1 == [b EXCEPT !.scratch = <<>>]
      b2 == PushOffset(IF withId THEN Push(b1, FileId) ELSE b1, root)
      b3 == IF prefix > 0 THEN PushElement(b2, Size(b2), prefix) ELSE b2
  IN [b3 EXCEPT !.finished = TRUE, !.prefix = prefix, !.id = withId, !.root = root]

FinishImpl(b, root, withId, prefix) ==
  LET b1 == PreAlign(TrackMinAlign([b EXCEPT !.scratch = <<>>], prefix),
                     prefix + 4 + (IF withId THEN 4 ELSE 0),
                     IF prefix > b.minalign THEN prefix ELSE b.minalign)
      b2 == PushOffset(IF withId THEN Push(b1, FileId) ELSE b1, root)
      b3 == IF prefix > 0 THEN PushElement(b2, Size(b2), prefix) ELSE b2
  IN [b3 EXCEPT !.finished = TRUE, !.prefix = prefix, !.id = withId, !.root = root]

Cleared(b) ==
  [ClearOffsets(b) EXCEPT !.buf = <<>>, !.scratch = <<>>, !.nested = FALSE, !.finished = FALSE,
                          !.minalign = 1, !.pool = {}, !.prefix = 0, !.id = FALSE, !.root = 0]

(***************************************************************************)
(* The program.  It names objects by their offsets; none is the open table.*)
(***************************************************************************)
none == [type |-> "none"]

Running == ~fbb.failed
Wanted == IF fbb.finished THEN {} ELSE Needs(goal, Cardinality(DOMAIN objects))
WantedOf(kinds) == {n \in Wanted : n[1] \in kinds}

\* A call: what the builder becomes and the object it returns, or an assertion.
Call(asserted, after, made) ==
  IF asserted THEN fbb' = after /\ objects' = made @@ objects
  ELSE fbb' = [fbb EXCEPT !.failed = TRUE] /\ UNCHANGED objects

Made(kind) == {o \in DOMAIN objects : objects[o].type = kind}
TableOf(type) == {o \in Made("table") : objects[o].of = type}
VectorOf(type) == {o \in Made("tables") : objects[o].of = type}

Candidates(f) ==
  CASE f.kind \in InlineKind -> Value(f)
    [] f.kind = "table"      -> TableOf(f.of)
    [] f.kind = "tables"     -> VectorOf(f.of)
    [] OTHER                 -> Made(f.kind)

Init ==
  /\ goal \in Goal
  /\ \E force, dedup \in BOOLEAN :
       /\ fbb = New(force, dedup)
       /\ force => dedup
  /\ objects = << >>
  /\ open = none

CreateString(s) ==
  /\ Running /\ <<"string", s>> \in Wanted
  /\ LET b == CreateStringImpl(fbb, s)
     IN Call(NotNested(fbb), b, Size(b) :> [type |-> "string", chars |-> s])
  /\ UNCHANGED <<open, goal>>

CreateSharedString(s) ==
  /\ Running /\ <<"shared", s>> \in Wanted
  /\ LET c == CreateSharedStringImpl(fbb, s)
     IN Call(NotNested(fbb), c.b, c.off :> [type |-> "string", chars |-> s])
  /\ UNCHANGED <<open, goal>>

CreateVectorOfStrings(v) ==
  /\ Running /\ <<"strings", v>> \in Wanted
  /\ LET b == CreateVectorOfStringsImpl(fbb, v)
     IN Call(NotNested(fbb), b, Size(b) :> [type |-> "strings", elems |-> v])
  /\ UNCHANGED <<open, goal>>

CreateVector(v, n) ==
  /\ Running /\ <<"scalars", v, n>> \in Wanted
  /\ LET b == CreateVectorOfScalars(fbb, v, n)
     IN Call(NotNested(fbb), b, Size(b) :> [type |-> "scalars", elems |-> v, n |-> n])
  /\ UNCHANGED <<open, goal>>

CreateVectorStructs(v, n) ==
  /\ Running /\ <<"structs", v, n>> \in Wanted
  /\ LET b == CreateVectorOfStructs(fbb, v, n)
     IN Call(NotNested(fbb), b, Size(b) :> [type |-> "structs", elems |-> v, n |-> n])
  /\ UNCHANGED <<open, goal>>

CreateVectorOfTables(type, v, sorted) ==
  /\ Running /\ <<"tables", type, sorted>> \in Wanted
  /\ LET b == IF sorted THEN CreateVectorOfSortedTables(fbb, v, type) ELSE CreateVectorOfOffsets(fbb, v)
     IN Call(NotNested(fbb), b,
             Size(b) :> [type |-> "tables", of |-> type, elems |-> v, sorted |-> sorted])
  /\ UNCHANGED <<open, goal>>

(***************************************************************************)
(* A table, step by step as its generated builder does it ...              *)
(***************************************************************************)
StartTable(type) ==
  /\ Running /\ <<"table", type>> \in Wanted
  /\ Call(NotNested(fbb), [fbb EXCEPT !.nested = TRUE], << >>)
  /\ open' = IF NotNested(fbb) THEN [type |-> type, start |-> Size(fbb), fields |-> << >>] ELSE open
  /\ UNCHANGED goal

\* A field may be set again: the end of the table asserts that it was not,
\* but a default that is left out goes unnoticed and what was set stays.
AddField(f, v) ==
  /\ Running /\ open # none /\ fbb.numFields < MaxFields
  /\ fbb' = Add(fbb, f, v)
  /\ open' = [open EXCEPT !.fields = IF fbb'.numFields > fbb.numFields THEN (f.slot :> v) @@ @
                                     ELSE @ @@ (f.slot :> v)]
  /\ UNCHANGED <<objects, goal>>

EndOpenTable ==
  /\ Running /\ open # none
  /\ LET t == EndTable(fbb, open.start)
     IN Call(SetOnce(fbb) /\ Required(t.b, t.off, open.type), t.b,
             t.off :> [type |-> "table", of |-> open.type, fields |-> open.fields])
  /\ open' = none
  /\ UNCHANGED goal

\* A generated builder that is used after its Finish: a field of no table,
\* or the end of a table that was not begun.
StrayField(f, v) ==
  /\ Running /\ open = none /\ fbb.numFields = 0
  /\ <<"table", goal>> \in Wanted
  /\ fbb' = Add(fbb, f, v)
  /\ UNCHANGED <<objects, open, goal>>

StrayEnd ==
  /\ Running /\ ~fbb.finished /\ open = none
  /\ Call(fbb.nested, fbb, << >>)
  /\ UNCHANGED <<open, goal>>

(***************************************************************************)
(* ... or at once: the larger fields first, of equal ones the later first. *)
(***************************************************************************)
FieldSize(f) == IF f.kind \in InlineKind THEN f.n ELSE 4

CreateOrder(type, given) ==
  SortSeq(SelectSeq(FieldsOf(type), LAMBDA f : f.slot \in given),
          LAMBDA f, g : \/ FieldSize(f) > FieldSize(g)
                        \/ FieldSize(f) = FieldSize(g) /\ f.slot > g.slot)

Built(b, type, values) ==
  EndTable(FoldLeft(LAMBDA a, f : Add(a, f, values[f.slot]), [b EXCEPT !.nested = TRUE],
                    CreateOrder(type, DOMAIN values)), Size(b))

CreateTable(type, values) ==
  /\ Running /\ <<"create", type>> \in Wanted
  /\ LET t == Built(fbb, type, values)
     IN Call(NotNested(fbb) /\ Required(t.b, t.off, type), t.b,
             t.off :> [type |-> "table", of |-> type, fields |-> values])
  /\ UNCHANGED <<open, goal>>

\* Strings and vectors may be given themselves (CreateXDirect): each is made before
\* the table, in the order of its fields, and vectors of tables are sorted.
PartKind == {"string", "strings", "tables"}

MakePart(b, f, x) ==
  CASE f.kind = "string"  -> CreateStringImpl(b, x)
    [] f.kind = "strings" -> CreateVectorOfOffsets(b, x)
    [] f.kind = "tables"  -> CreateVectorOfSortedTables(b, x, f.of)

Part(f, x) ==
  CASE f.kind = "string"  -> [type |-> "string", chars |-> x]
    [] f.kind = "strings" -> [type |-> "strings", elems |-> [i \in DOMAIN x |-> objects[x[i]].chars]]
    [] f.kind = "tables"  -> [type |-> "tables", of |-> f.of, elems |-> x, sorted |-> TRUE]

WithParts(type, given) ==
  LET make(done, f) ==
        LET b == MakePart(done.b, f, given[f.slot])
        IN [ b |-> b, made |-> (Size(b) :> Part(f, given[f.slot])) @@ done.made,
             values |-> (f.slot :> Size(b)) @@ done.values ]
  IN FoldLeft(make, [b |-> fbb, made |-> << >>, values |-> given],
              SelectSeq(FieldsOf(type), LAMBDA f : f.slot \in DOMAIN given /\ f.kind \in PartKind))

\* With what WithParts has made.
CreateTableDirect(type, p) ==
  /\ Running
  /\ LET t == Built(p.b, type, p.values)
     IN Call(NotNested(fbb) /\ Required(t.b, t.off, type), t.b,
             (t.off :> [type |-> "table", of |-> type, fields |-> p.values]) @@ p.made)
  /\ UNCHANGED <<open, goal>>

(***************************************************************************)
(* The buffer is finished, changed in place, and the builder used again.   *)
(***************************************************************************)
Finish(root, withId, prefix) ==
  /\ Running
  /\ Call(~fbb.finished /\ NotNested(fbb), FinishImpl(fbb, root, withId, prefix), << >>)
  /\ UNCHANGED <<open, goal>>

Mutate(t, f, v) ==
  /\ Running /\ fbb.finished
  /\ LET r == SetField(fbb.buf, Size(fbb) - t, f.slot, v, f.n, f.default)
     IN /\ fbb' = [fbb EXCEPT !.buf = r.buf]
        /\ objects' = IF r.ok THEN [objects EXCEPT ![t].fields = (f.slot :> v) @@ @] ELSE objects
  /\ UNCHANGED <<open, goal>>

Clear ==
  /\ Running
  /\ fbb' = Cleared(fbb)
  /\ objects' = << >>
  /\ open' = none
  /\ UNCHANGED goal

Fields(type) == {FieldsOf(type)[i] : i \in DOMAIN FieldsOf(type)}

\* What CreateXDirect is given for a part: a text, or up to one string or table.
DirectCandidates(f, text) ==
  CASE f.kind = "string"  -> {text}
    [] f.kind = "strings" -> UNION {[1 .. k -> Made("string")] : k \in 0 .. 1}
    [] f.kind = "tables"  -> UNION {[1 .. k -> TableOf(f.of)] : k \in 0 .. 1}
    [] OTHER              -> Candidates(f)

\* All ways to give values to slots; choice[s] are the values meant for a
\* field stored in line, others are of what the caller may give (among).
Values(type, choice, among(_)) ==
  LET field(s) == CHOOSE f \in Fields(type) : f.slot = s
      of(s) == IF field(s).kind \in InlineKind THEN choice[s] ELSE among(field(s))
  IN FoldSet(LAMBDA s, done : {(s :> v) @@ d : v \in of(s), d \in done}, {<< >>}, DOMAIN choice)

Next ==
  \/ \E s \in {n[2] : n \in WantedOf({"string", "shared"})} :
       CreateString(s) \/ CreateSharedString(s)
  \/ \E n \in WantedOf({"strings"}) : CreateVectorOfStrings(n[2])
  \/ \E n \in WantedOf({"scalars"}) : CreateVector(n[2], n[3])
  \/ \E n \in WantedOf({"structs"}) : CreateVectorStructs(n[2], n[3])
  \/ \E n \in WantedOf({"tables"}) :
       \E k \in 0 .. 2 : \E v \in [1 .. k -> TableOf(n[2])] : CreateVectorOfTables(n[2], v, n[3])
  \/ \E type \in TableType : StartTable(type)
  \/ open # none /\ \E f \in Fields(open.type) : \E v \in Candidates(f) : AddField(f, v)
  \/ \E f \in Fields(goal) : \E v \in Candidates(f) : StrayField(f, v)
  \/ EndOpenTable
  \/ StrayEnd
  \/ \E n \in WantedOf({"create"}) :
       \E choice \in Given(goal, n[2]) : \E values \in Values(n[2], choice, Candidates) : CreateTable(n[2], values)
  \/ \E n \in WantedOf({"direct"}) :
       \E choice \in Given(goal, n[2]) :
         \E p \in {WithParts(n[2], given) :
                   given \in Values(n[2], choice, LAMBDA f : DirectCandidates(f, n[3]))} :
           CreateTableDirect(n[2], p)
  \/ \E root \in TableOf(goal), end \in Endings(goal) : Finish(root, end[1], end[2])
  \/ \E t \in TableOf(goal) : \E f \in Mutable(goal) : \E v \in Candidates(f) : Mutate(t, f, v)
  \/ Clear

Spec == Init /\ [][Next]_vars
=============================================================================
