------------------------- MODULE FlatBufferVerifier -------------------------
(***************************************************************************)
(* Verifier of the vendored FlatBuffers library (verifier.h) and the       *)
(* generated Verify of tables (table.h, reflection_generated.h).  A        *)
(* verification is a record that passes through the checks in the order    *)
(* of the code: after the first check that fails nothing more is read.     *)
(***************************************************************************)
EXTENDS WireFormat, SequencesExt

CONSTANTS MaxDepth, MaxTables, MaxBufferSize   \* the verifier's options

\* upper is the end of what has been verified (SizeVerifier).
NewVerifier(buf) == [buf |-> buf, ok |-> TRUE, depth |-> 0, tables |-> 0, upper |-> 0]

Check(v, c) == IF v.ok /\ ~c THEN [v EXCEPT !.ok = FALSE, !.upper = 0] ELSE v

Verify(v, p, len) ==
  IF ~v.ok THEN v
  ELSE Check([v EXCEPT !.upper = IF @ < p + len THEN p + len ELSE @],
             len < Len(v.buf) /\ p \in 0 .. Len(v.buf) - len)

VerifyAlignment(v, p, align) == Check(v, p % align = 0)

VerifyScalar(v, p, n) == Verify(VerifyAlignment(v, p, n), p, n)

VerifyOffset(v, p) ==
  LET o == ReadScalar(v.buf, p, 4)
  IN Verify(Check(VerifyScalar(v, p, 4), o > 0), p + o, 1)

\* Mutant: the length in front is forgotten.
VerifyElementsOnly(v, p, stride) ==
  LET size == SizeOf(v.buf, p)
  IN Verify(Check(VerifyScalar(v, p, 4), size >= 0 /\ size < MaxBufferSize \div stride), p, stride * size)

VerifyVectorOrString(v, p, stride) ==
  LET size == SizeOf(v.buf, p)
  IN Verify(Check(VerifyScalar(v, p, 4), size >= 0 /\ size < MaxBufferSize \div stride), p, 4 + stride * size)

VerifyString(v, p) ==
  LET end == Data(p) + SizeOf(v.buf, p)
  IN IF p = Nullptr THEN v
     ELSE Check(Verify(VerifyVectorOrString(v, p, 1), end, 1), Byte(v.buf, end) = 0)

VerifyVector(v, p, stride) == IF p = Nullptr THEN v ELSE VerifyVectorOrString(v, p, stride)

\* The elements of a vector that has been verified.
ElementsOf(v, p) ==
  IF p = Nullptr \/ ~v.ok THEN <<>> ELSE [i \in 1 .. SizeOf(v.buf, p) |-> GetOffset(v.buf, p, i - 1)]

VerifyVectorOfStrings(v, p) == FoldLeft(VerifyString, v, ElementsOf(v, p))

VerifyComplexity(v) ==
  Check([v EXCEPT !.depth = @ + 1, !.tables = @ + 1], v.depth < MaxDepth /\ v.tables < MaxTables)

VerifyTableStart(v, t) ==
  LET vtable == GetVTable(v.buf, t)
      size == ReadScalar(v.buf, vtable, 2)
  IN Verify(Check(VerifyScalar(VerifyComplexity(VerifyScalar(v, t, 4)), vtable, 2), size % 2 = 0), vtable, size)

EndTableCheck(v) == IF v.ok THEN [v EXCEPT !.depth = @ - 1] ELSE v

RECURSIVE VerifyTable(_, _, _)

VerifyVectorOfTables(v, p, type) ==
  FoldLeft(LAMBDA a, t : IF a.ok THEN VerifyTable(a, t, type) ELSE a, v, ElementsOf(v, p))

\* What a field refers to: nothing, or the object at p.
VerifyReferred(v, p, f) ==
  IF p = Nullptr \/ ~v.ok THEN v
  ELSE CASE f.kind = "string"  -> VerifyString(v, p)
         [] f.kind = "table"   -> VerifyTable(v, p, f.of)
         [] f.kind = "strings" -> VerifyVectorOfStrings(VerifyVector(v, p, 4), p)
         [] f.kind = "tables"  -> VerifyVectorOfTables(VerifyVector(v, p, 4), p, f.of)
         [] OTHER              -> VerifyVector(v, p, f.n)

\* One field, as the generated Verify checks it.
VerifyField(v, t, f) ==
  LET o == GetOptionalFieldOffset(v.buf, t, f.slot)
  IN CASE o = 0 -> Check(v, ~f.required)
       [] o # 0 /\ f.kind \in {"scalar", "optional"} -> VerifyScalar(v, t + o, f.n)
       [] o # 0 /\ f.kind = "struct" -> Verify(VerifyAlignment(v, t + o, StructAlign), t + o, f.n)
       [] OTHER -> VerifyReferred(VerifyOffset(v, t + o), Indirect(v.buf, t + o), f)

VerifyTable(v, t, type) ==
  EndTableCheck(FoldLeft(LAMBDA a, f : IF a.ok THEN VerifyField(a, t, f) ELSE a,
                         VerifyTableStart(v, t), FieldsOf(type)))

\* The smallest buffer: root offset, vtable offset and two vtable entries.
MinBufferSize == 12

VerifyRoot(v, type, start) == IF v.ok THEN VerifyTable(v, Indirect(v.buf, start), type) ELSE v

VerifyBufferFromStart(v, type, id, start) ==
  VerifyRoot(VerifyOffset(Check(v, /\ Len(v.buf) >= MinBufferSize
                                   /\ id # <<>> => Len(v.buf) >= 8 /\ BufferHasIdentifier(v.buf, id, start)),
                          start), type, start)

\* The size that precedes a size-prefixed buffer must fit what is there.
VerifySizePrefix(v) == Check(VerifyScalar(v, 0, 4), ReadScalar(v.buf, 0, 4) + 4 <= Len(v.buf))

VerifyBuffer(buf, type, id, prefix) ==
  LET v == NewVerifier(buf)
  IN VerifyBufferFromStart(IF prefix = 0 THEN v ELSE VerifySizePrefix(v), type, id, prefix)

\* The size found by a verification that succeeded, aligned to an offset; 0
\* when the buffer is shorter.
GetComputedSize(v) ==
  LET size == 4 * ((v.upper + 3) \div 4) IN IF size > Len(v.buf) THEN 0 ELSE size
=============================================================================
