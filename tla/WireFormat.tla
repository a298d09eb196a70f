----------------------------- MODULE WireFormat -----------------------------
(***************************************************************************)
(* How the vendored FlatBuffers library lays out scalars in a buffer and   *)
(* reads tables, strings and vectors back (base.h, buffer.h, table.h,      *)
(* vector.h).  A buffer is a sequence of bytes, a position counts from its *)
(* start.  The values of the model stay below 2^23, so that three bytes    *)
(* and a sign byte tell them all; bytes outside the buffer read as Outside.*)
(***************************************************************************)
EXTENDS Integers, Sequences

CONSTANTS
  TableType,   \* types of tables
  FieldsOf(_)  \* the fields of a table type, in the order its Verify checks them

(***************************************************************************)
(* A field has a slot in the vtable, a kind, the size n of a scalar, of a  *)
(* struct or of the elements of its vector, the default of a scalar, and   *)
(* the type of the tables it refers to (of); it may be required, and the   *)
(* key its tables are sorted by.                                           *)
(***************************************************************************)
InlineKind == {"scalar", "optional", "struct"}
OffsetKind == {"string", "table", "strings", "tables", "structs", "scalars"}

StructAlign == 4   \* the alignment of the programs' structs

Nullptr    == -1   \* the null pointer
Outside == 999  \* what a read beyond the buffer yields: no byte

\* A scalar of n bytes in little endian, negative ones in two's complement.
Scalar(v, n) ==
  [i \in 1 .. n |-> IF i <= 3 THEN (v \div 256^(i - 1)) % 256 ELSE IF v < 0 THEN 255 ELSE 0]

Byte(buf, p) == IF p \in 0 .. Len(buf) - 1 THEN buf[p + 1] ELSE Outside

ReadScalar(buf, p, n) ==
  LET low == Byte(buf, p) + (IF n > 1 THEN 256 * Byte(buf, p + 1) ELSE 0)
                          + (IF n > 2 THEN 65536 * Byte(buf, p + 2) ELSE 0)
  IN IF n > 2 /\ Byte(buf, p + n - 1) = 255 THEN low - 256^3 ELSE low

WriteScalar(buf, p, v, n) ==
  [i \in DOMAIN buf |-> IF i - 1 \in p .. p + n - 1 THEN Scalar(v, n)[i - p] ELSE buf[i]]

\* The padding that lets a scalar of n bytes follow size bytes.
PaddingBytes(size, n) == (-size) % n

(***************************************************************************)
(* Strings and vectors: a length of four bytes, then the elements.         *)
(***************************************************************************)
SizeOf(buf, v) == ReadScalar(buf, v, 4)
Data(v) == v + 4

Characters(buf, s) == [i \in 1 .. SizeOf(buf, s) |-> Byte(buf, Data(s) + i - 1)]

\* memcmp of the common length, then the shorter one first.
StringLessThan(a, b) ==
  \/ \E i \in 1 .. Len(a) : /\ i <= Len(b) /\ a[i] < b[i]
                            /\ \A j \in 1 .. i - 1 : a[j] = b[j]
  \/ Len(a) < Len(b) /\ \A j \in 1 .. Len(a) : a[j] = b[j]

\* An element that is an offset is relative to its own place.
Indirect(buf, p) == p + ReadScalar(buf, p, 4)

\* Elements are numbered from 0, as in the code.
Get(buf, v, i, stride) == ReadScalar(buf, Data(v) + stride * i, stride)
GetOffset(buf, v, i) == Indirect(buf, Data(v) + 4 * i)
GetStruct(v, i, stride) == Data(v) + stride * i

\* Binary search as std::bsearch does it; compare[p] orders the element at p
\* against the key: negative, 0 or positive.
LookupByKey(buf, v, compare) ==
  LET search[r \in Nat \X Nat] ==
        LET mid == (r[1] + r[2]) \div 2
            c   == compare[GetOffset(buf, v, mid)]
        IN IF r[1] >= r[2] THEN Nullptr
           ELSE IF c = 0 THEN GetOffset(buf, v, mid)
           ELSE IF c > 0 THEN search[<<r[1], mid>>] ELSE search[<<mid + 1, r[2]>>]
  IN search[<<0, SizeOf(buf, v)>>]

(***************************************************************************)
(* Tables: a signed distance to the vtable, then the fields.  A vtable     *)
(* holds its size, the table's size and the places of the fields.          *)
(***************************************************************************)
GetVTable(buf, t) == t - ReadScalar(buf, t, 4)

GetOptionalFieldOffset(buf, t, field) ==
  LET vtable == GetVTable(buf, t)
  IN IF field < ReadScalar(buf, vtable, 2) THEN ReadScalar(buf, vtable + field, 2) ELSE 0

GetField(buf, t, field, n, default) ==
  LET o == GetOptionalFieldOffset(buf, t, field)
  IN IF o = 0 THEN default ELSE ReadScalar(buf, t + o, n)

GetPointer(buf, t, field) ==
  LET o == GetOptionalFieldOffset(buf, t, field)
  IN IF o = 0 THEN Nullptr ELSE Indirect(buf, t + o)

\* The address of a field stored in line (a struct).
GetAddressOf(buf, t, field) ==
  LET o == GetOptionalFieldOffset(buf, t, field)
  IN IF o = 0 THEN Nullptr ELSE t + o

\* Overwrites a field in place: the buffer afterwards and the value returned.
SetField(buf, t, field, v, n, default) ==
  LET o == GetOptionalFieldOffset(buf, t, field)
  IN IF o = 0 THEN [buf |-> buf, ok |-> v = default]
     ELSE [buf |-> WriteScalar(buf, t + o, v, n), ok |-> TRUE]

\* The root table of a buffer, behind the size when there is one.
GetRoot(buf, prefix) == Indirect(buf, prefix)

BufferHasIdentifier(buf, id, start) == [i \in 1 .. 4 |-> Byte(buf, start + 3 + i)] = id
=============================================================================
