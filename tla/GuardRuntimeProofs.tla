------------------------- MODULE GuardRuntimeProofs -------------------------
(***************************************************************************)
(* Proofs about GuardRuntime, for every program, any number of functions   *)
(* and threads, and package inits called in any order and as often as one  *)
(* likes: the two package inits share one flag, the stores of the guard    *)
(* variables' initialiser exchange all changed functions at once.          *)
(***************************************************************************)
EXTENDS GuardRuntime, SequenceTheorems, FiniteSetTheorems, TLAPS

-----------------------------------------------------------------------------
(* The package inits that the tools make                                    *)

\* In the block with the initialisers: where "applied" is stored, after how many
\* operations the initialisers run, where the guard variables' initialiser is applied
\* (if the block begins with the literal that the plugin looks for), and its length.
StoreAt(p) == IF p.literal THEN 2 ELSE 1
HeaderLength(p) == StoreAt(p) + (IF p.preinitialize THEN 2 ELSE 1)
RunsAfter(p) == HeaderLength(p) + (IF Marked(p) THEN 1 ELSE 0)
ApplyAt(p) == IF p.preinitialize THEN 5 ELSE 4 + Len(p.callee)
InitLength(p) == RunsAfter(p) + Len(p.callee) + (IF p.literal /\ ~p.preinitialize THEN 1 ELSE 0)

StoreOp(m) == IF m = "base" THEN "store applied" ELSE "set base's applied"
TestOp(m) == IF m = "base" THEN "load applied" ELSE "get base's applied"
StoreOps == {"store applied", "set base's applied"}
Apply == "apply guard vars initializer"

\* The guard leads on to the old entry; the base's may hold the apply.
GuardShape(p, blk) ==
  /\ Len(blk.to) = 2 /\ blk.to[1] = "old entry" /\ blk.to[2] = "routed"
  /\ 2 \in DOMAIN blk.code /\ blk.code[2] = Op("not")
  /\ \A j \in DOMAIN blk.code :
       blk.code[j].op \in {"load init flag", "not"} \/ (~p.literal /\ blk.code[j].op = Apply)

TestShape(m, blk) ==
  /\ Len(blk.to) = 2 /\ blk.to[1] = "exit" /\ blk.to[2] = "init"
  /\ DOMAIN blk.code = {1} /\ blk.code[1] = Op(TestOp(m))

InitShape(p, m, blk) ==
  /\ Len(blk.to) = 1 /\ blk.to[1] = "exit"
  /\ DOMAIN blk.code = 1..InitLength(p) /\ Len(blk.code) = InitLength(p)
  /\ \A j \in 1..InitLength(p) :
       /\ blk.code[j].op \in StoreOps <=> j = StoreAt(p)
       /\ blk.code[j].op \in StoreOps => blk.code[j].op = StoreOp(m)
       /\ blk.code[j].op = Apply <=> p.literal /\ j = ApplyAt(p)
       /\ blk.code[j].op = "run initializer" <=>
            RunsAfter(p) < j /\ j <= RunsAfter(p) + Len(p.callee)
       /\ blk.code[j].op = "run initializer" => blk.code[j].arg = j - RunsAfter(p)

Shape(p, m, b) ==
  /\ b.entry = IF m = "base" THEN "test" ELSE "old entry"
  /\ DOMAIN b.block = {"old entry", "init", "exit"} \cup (IF m = "base" THEN {"test", "routed"} ELSE {})
  /\ m = "base" => GuardShape(p, b.block["test"])
  /\ TestShape(m, b.block["old entry"])
  /\ InitShape(p, m, b.block["init"])
  /\ b.block["exit"] = Block(<<>>, <<>>)

-----------------------------------------------------------------------------
(* The strengthening                                                        *)

CodeKnown == program \in Program /\ code = [m \in Image |-> InitOf(program, m)]

\* How far the initialisers' block has been executed, by whichever image.
Position == IF pc = "init" THEN i ELSE IF applied["base"] THEN InitLength(program) + 1 ELSE 1

StartTypes ==
  /\ image \in Image /\ pc \in {"none", "test", "old entry", "init", "exit"}
  /\ pc = "test" => image = "base"
  /\ schedule \in Seq(Image) /\ i \in Nat \ {0} /\ applied \in [Image -> BOOLEAN]

\* The base's flag says that the block has begun.
BegunIsFlagged ==
  /\ pc = "init" => i <= InitLength(program) + 1 /\ (applied["base"] <=> i > StoreAt(program))
  /\ pc = "exit" => applied["base"]

\* The image that is called first executes it.
FirstExecutes ==
  /\ pc # "none" \/ applied["base"] => program.schedule # <<>>
  /\ ~applied["base"] /\ pc = "none" => schedule = program.schedule
  /\ (~applied["base"] /\ pc # "none") \/ pc = "init" => image = program.schedule[1]

FirstRuns == StartTypes /\ BegunIsFlagged /\ FirstExecutes

RunsCounted ==
  runs = [k \in DOMAIN program.callee |-> IF RunsAfter(program) + k < Position THEN 1 ELSE 0]

\* What the guard variables' initialiser has stored so far is a prefix of its stores.
FirstStores == GuardVarsInitializer(program, program.schedule[1])
Applied == program.literal /\ Position > ApplyAt(program)

StoresInOrder ==
  /\ flag \in [Func -> BOOLEAN]
  /\ Applied => /\ Len(stores) \in 0..Len(FirstStores)
                /\ stores = SubSeq(FirstStores, Len(FirstStores) - Len(stores) + 1, Len(FirstStores))
  /\ ~Applied => stores = <<>> \/ (~program.literal /\ stores = <<None>>)
  /\ stores # <<>> => IF Applied THEN pc = "init" /\ i = ApplyAt(program) + 1 ELSE pc = "test"
  /\ \A f \in Func : flag[f] <=>
       Applied /\ \E k \in 1..Len(FirstStores) - Len(stores) : FirstStores[k] = Flag(f)
  /\ guardVar = IF Applied /\ stores = <<>> /\ Len(FirstStores) > 1 THEN "instance" ELSE "None"

Activity ==
  {Idle} \cup [is : {"called", "routed"}, func : Func]
         \cup [is : {"ran"}, func : Func, code : {"old", "new", "should not reach here"}]

\* Calls come after the stores if the begin of the initialisers is marked.
CallsComeLater ==
  /\ at \in [Thread -> Activity] /\ spawned \subseteq Thread
  /\ \A t \in Thread \ (spawned \cup {Main}) : at[t] = Idle
  /\ program.spawns = {} => spawned = {}
  /\ stores # <<>> => at[Main].is \notin {"called", "routed"}
  /\ Marked(program) /\ (spawned # {} \/ \E t \in Thread : at[t] # Idle) =>
       stores = <<>> /\ (program.schedule # <<>> => Applied)
  /\ \A t \in Thread : at[t].is = "routed" => flag[at[t].func]

RuntimeInv ==
  CodeKnown /\ FirstRuns /\ RunsCounted /\ StoresInOrder /\ CallsComeLater /\ InitialisersArePatched

-----------------------------------------------------------------------------
(* What the tools' edits make of a package init                             *)

OpName == {"constant true", "store applied", "init dependencies", "preinitialize",
           "run initializer", "load applied", "get base's applied", "set base's applied",
           "load init flag", "not", "apply guard vars initializer", "invoke init guard method"}
OpSet == [op : OpName, arg : Nat]

LEMMA OpType == \A name \in OpName : Op(name) \in OpSet
BY DEF Op, OpSet

LEMMA ProgramTypes ==
  ASSUME NEW p \in Program
  PROVE  /\ p.callee \in Seq(Func) /\ p.spawns \subseteq DOMAIN p.callee
         /\ p.changed \subseteq Func /\ IsFiniteSet(p.changed)
         /\ p.literal \in BOOLEAN /\ p.preinitialize \in BOOLEAN
         /\ p.schedule \in Seq(Image)
         /\ Len(p.callee) \in Nat /\ DOMAIN p.callee = 1..Len(p.callee)
BY ProgramAssumption, LenProperties

LEMMA PositionTypes ==
  ASSUME NEW p \in Program
  PROVE  /\ Len(p.callee) \in Nat
         /\ StoreAt(p) \in 1..2 /\ HeaderLength(p) \in 2..4 /\ RunsAfter(p) \in 2..5
         /\ HeaderLength(p) > StoreAt(p) /\ RunsAfter(p) > StoreAt(p)
         /\ ApplyAt(p) \in Nat /\ InitLength(p) \in Nat
         /\ InitLength(p) >= RunsAfter(p) + Len(p.callee)
         /\ p.literal => ApplyAt(p) \in StoreAt(p) + 1 .. InitLength(p)
         /\ Marked(p) => ApplyAt(p) = RunsAfter(p)
         /\ p.literal /\ ~p.preinitialize => ApplyAt(p) = RunsAfter(p) + Len(p.callee) + 1
<1> DEFINE n == Len(p.callee)
           lit == p.literal
           pre == p.preinitialize
<1>1. n \in Nat /\ lit \in BOOLEAN /\ pre \in BOOLEAN
  BY ProgramTypes
<1>2. /\ StoreAt(p) = IF lit THEN 2 ELSE 1
      /\ HeaderLength(p) = StoreAt(p) + (IF pre THEN 2 ELSE 1)
      /\ RunsAfter(p) = HeaderLength(p) + (IF lit /\ pre THEN 1 ELSE 0)
      /\ ApplyAt(p) = IF pre THEN 5 ELSE 4 + n
      /\ InitLength(p) = RunsAfter(p) + n + (IF lit /\ ~pre THEN 1 ELSE 0)
      /\ Marked(p) <=> lit /\ pre
  BY DEF StoreAt, HeaderLength, RunsAfter, ApplyAt, InitLength, Marked
<1> HIDE DEF n, lit, pre
<1>3. CASE lit /\ pre
  BY <1>1, <1>2, <1>3 DEF n, lit, pre
<1>4. CASE ~lit /\ pre
  BY <1>1, <1>2, <1>4 DEF n, lit, pre
<1>5. CASE lit /\ ~pre
  BY <1>1, <1>2, <1>5 DEF n, lit, pre
<1>6. CASE ~lit /\ ~pre
  BY <1>1, <1>2, <1>6 DEF n, lit, pre
<1> QED BY <1>1, <1>3, <1>4, <1>5, <1>6

\* An element inserted into a sequence moves the later ones by one.
LEMMA Insertion ==
  ASSUME NEW S, NEW s \in Seq(S), NEW e \in S, NEW k \in 1..Len(s) + 1
  PROVE  /\ InsertAt(s, k, e) \in Seq(S) /\ Len(InsertAt(s, k, e)) = Len(s) + 1
         /\ \A j \in 1..Len(s) + 1 :
              InsertAt(s, k, e)[j] = IF j < k THEN s[j] ELSE IF j = k THEN e ELSE s[j - 1]
<1> DEFINE a == SubSeq(s, 1, k - 1)
           b == SubSeq(s, k, Len(s))
<1>1. Len(s) \in Nat
  BY LenProperties
<1>2. a \in Seq(S) /\ Len(a) = k - 1 /\ \A j \in 1..k - 1 : a[j] = s[j]
  <2>1. \A j \in 1..k - 1 : s[j] \in S
    BY <1>1, ElementOfSeq
  <2>2. 1 \in Int /\ k - 1 \in Int
    OBVIOUS
  <2>3. /\ a \in Seq(S) /\ Len(a) = IF 1 <= k - 1 THEN (k - 1) - 1 + 1 ELSE 0
        /\ \A j \in 1..(k - 1) - 1 + 1 : a[j] = s[1 + j - 1]
    BY <2>1, <2>2, SubSeqProperties
  <2>4. Len(a) = k - 1
    BY <2>3, <1>1
  <2>5. \A j \in 1..k - 1 : a[j] = s[j]
    <3> TAKE j \in 1..k - 1
    <3>1. j \in 1..(k - 1) - 1 + 1 /\ 1 + j - 1 = j
      OBVIOUS
    <3> QED BY <3>1, <2>3
  <2> QED BY <2>3, <2>4, <2>5
<1>3. b \in Seq(S) /\ Len(b) = Len(s) - k + 1 /\ \A j \in 1..Len(s) - k + 1 : b[j] = s[k + j - 1]
  <2>1. \A j \in k..Len(s) : s[j] \in S
    BY <1>1, ElementOfSeq
  <2>2. k \in Int /\ Len(s) \in Int
    BY <1>1
  <2>3. /\ b \in Seq(S) /\ Len(b) = IF k <= Len(s) THEN Len(s) - k + 1 ELSE 0
        /\ \A j \in 1..Len(s) - k + 1 : b[j] = s[k + j - 1]
    BY <2>1, <2>2, SubSeqProperties
  <2> QED BY <2>3, <1>1
<1>4. <<e>> \in Seq(S) /\ Len(<<e>>) = 1 /\ <<e>>[1] = e
  OBVIOUS
<1> DEFINE c == a \o <<e>>
<1> HIDE DEF a, b
<1>5. c \in Seq(S) /\ Len(c) = k /\ \A j \in 1..k : c[j] = IF j < k THEN s[j] ELSE e
  <2>1. /\ c \in Seq(S) /\ Len(c) = Len(a) + Len(<<e>>)
        /\ \A j \in 1..Len(a) + Len(<<e>>) : c[j] = IF j <= Len(a) THEN a[j] ELSE <<e>>[j - Len(a)]
    BY <1>2, <1>4, ConcatProperties
  <2>2. Len(c) = k
    BY <2>1, <1>2, <1>4
  <2>3. \A j \in 1..k : c[j] = IF j <= k - 1 THEN a[j] ELSE <<e>>[j - (k - 1)]
    BY <2>1, <1>2, <1>4
  <2>4. \A j \in 1..k : c[j] = IF j < k THEN s[j] ELSE e
    BY <2>3, <1>2, <1>4
  <2> QED BY <2>1, <2>2, <2>4
<1> HIDE DEF c
<1>6. /\ c \o b \in Seq(S) /\ Len(c \o b) = Len(c) + Len(b)
      /\ \A j \in 1..Len(c) + Len(b) : (c \o b)[j] = IF j <= Len(c) THEN c[j] ELSE b[j - Len(c)]
  BY <1>5, <1>3, ConcatProperties
<1>7. InsertAt(s, k, e) = c \o b
  BY DEF InsertAt, a, b, c
<1>8. Len(c) + Len(b) = Len(s) + 1
  BY <1>1, <1>3, <1>5
<1>9. \A j \in 1..Len(s) + 1 : (c \o b)[j] = IF j < k THEN s[j] ELSE IF j = k THEN e ELSE s[j - 1]
  <2> TAKE j \in 1..Len(s) + 1
  <2>1. CASE j <= k
    <3>1. (c \o b)[j] = c[j]
      BY <1>5, <1>6, <1>8, <2>1
    <3> QED BY <3>1, <1>5, <2>1
  <2>2. CASE j > k
    <3>1. (c \o b)[j] = b[j - k] /\ j - k \in 1..Len(s) - k + 1 /\ k + (j - k) - 1 = j - 1
      BY <1>1, <1>5, <1>6, <1>8, <2>2
    <3> HIDE DEF b, c
    <3>2. b[j - k] = s[k + (j - k) - 1]
      BY <1>3, <3>1
    <3>3. (c \o b)[j] = s[j - 1] /\ ~(j < k) /\ j # k
      BY <1>1, <2>2, <3>1, <3>2
    <3> QED BY <3>3
  <2>3. j <= k \/ j > k
    BY <1>1
  <2> QED BY <2>1, <2>2, <2>3
<1> QED BY <1>6, <1>7, <1>8, <1>9

LEMMA Insertions ==
  \A S : \A s \in Seq(S), e \in S : \A k \in 1..Len(s) + 1 :
    /\ InsertAt(s, k, e) \in Seq(S) /\ Len(InsertAt(s, k, e)) = Len(s) + 1
    /\ \A j \in 1..Len(s) + 1 :
         InsertAt(s, k, e)[j] = IF j < k THEN s[j] ELSE IF j = k THEN e ELSE s[j - 1]
BY Insertion

\* The compiler's block of initialisers: its head, in the four shapes, and the runs.
Header(p) ==
  (IF p.literal THEN <<Op("constant true")>> ELSE <<>>)
    \o <<Op("store applied"), Op("init dependencies")>>
    \o (IF p.preinitialize THEN <<Op("preinitialize")>> ELSE <<>>)
Plain(p) == PackageInit(p).block["init"].code

LEMMA HeaderShape ==
  ASSUME NEW p \in Program
  PROVE  /\ Header(p) \in Seq(OpSet) /\ Len(Header(p)) = HeaderLength(p)
         /\ \A j \in 1..HeaderLength(p) :
              Header(p)[j] = IF j < StoreAt(p) THEN Op("constant true")
                             ELSE IF j = StoreAt(p) THEN Op("store applied")
                             ELSE IF j = StoreAt(p) + 1 THEN Op("init dependencies")
                             ELSE Op("preinitialize")
<1> DEFINE c == Op("constant true")
           s == Op("store applied")
           d == Op("init dependencies")
           r == Op("preinitialize")
           n == StoreAt(p)
           A == IF p.literal THEN <<c>> ELSE <<>>
           C == IF p.preinitialize THEN <<r>> ELSE <<>>
           AB == A \o <<s, d>>
<1>1. c \in OpSet /\ s \in OpSet /\ d \in OpSet /\ r \in OpSet
  BY OpType DEF OpName
<1>2. p.literal \in BOOLEAN /\ p.preinitialize \in BOOLEAN
  BY ProgramTypes
<1>3. n \in 1..2 /\ HeaderLength(p) = n + (IF p.preinitialize THEN 2 ELSE 1)
  BY PositionTypes DEF HeaderLength
<1>4. Header(p) = AB \o C
  BY DEF Header
<1> HIDE DEF c, s, d, r
<1>5. A \in Seq(OpSet) /\ Len(A) = n - 1 /\ \A j \in 1..n - 1 : A[j] = c
  <2>1. CASE p.literal
    <3>1. A = <<c>> /\ n = 2
      BY <2>1 DEF StoreAt
    <3>2. A \in Seq(OpSet) /\ Len(A) = 1 /\ A[1] = c
      BY <3>1, <1>1
    <3> QED BY <3>1, <3>2
  <2>2. CASE ~p.literal
    <3>1. A = <<>> /\ n = 1
      BY <2>2 DEF StoreAt
    <3> QED BY <3>1
  <2> QED BY <1>2, <2>1, <2>2
<1>6. C \in Seq(OpSet) /\ Len(C) = HeaderLength(p) - n - 1 /\ \A j \in 1..Len(C) : C[j] = r
  <2>1. CASE p.preinitialize
    <3>1. C = <<r>>
      BY <2>1
    <3>2. C \in Seq(OpSet) /\ Len(C) = 1 /\ C[1] = r
      BY <3>1, <1>1
    <3> QED BY <2>1, <1>3, <3>2
  <2>2. CASE ~p.preinitialize
    <3>1. C = <<>> /\ Len(C) = 0
      BY <2>2
    <3> QED BY <2>2, <1>3, <3>1
  <2> QED BY <1>2, <2>1, <2>2
<1>7. <<s, d>> \in Seq(OpSet) /\ Len(<<s, d>>) = 2 /\ <<s, d>>[1] = s /\ <<s, d>>[2] = d
  BY <1>1
<1> DEFINE B == <<s, d>>
<1>8. B \in Seq(OpSet) /\ Len(B) = 2 /\ B[1] = s /\ B[2] = d /\ AB = A \o B
  BY <1>7
<1> HIDE DEF A, B, C, AB, n
<1>9. /\ AB \in Seq(OpSet) /\ Len(AB) = Len(A) + Len(B)
      /\ \A j \in 1..Len(A) + Len(B) : AB[j] = IF j <= Len(A) THEN A[j] ELSE B[j - Len(A)]
  BY <1>5, <1>8, ConcatProperties
<1>10. /\ Len(AB) = n + 1
       /\ \A j \in 1..n + 1 : AB[j] = IF j < n THEN c ELSE IF j = n THEN s ELSE d
  BY <1>3, <1>5, <1>8, <1>9
<1>11. /\ AB \o C \in Seq(OpSet) /\ Len(AB \o C) = Len(AB) + Len(C)
       /\ \A j \in 1..Len(AB) + Len(C) :
            (AB \o C)[j] = IF j <= Len(AB) THEN AB[j] ELSE C[j - Len(AB)]
  BY <1>6, <1>9, ConcatProperties
<1>12. Len(AB) + Len(C) = HeaderLength(p) /\ HeaderLength(p) \in Nat
  BY <1>3, <1>6, <1>10
<1>13. \A j \in 1..HeaderLength(p) :
         (AB \o C)[j] = IF j < n THEN c ELSE IF j = n THEN s ELSE IF j = n + 1 THEN d ELSE r
  <2> TAKE j \in 1..HeaderLength(p)
  <2>1. CASE j <= n + 1
    BY <2>1, <1>3, <1>10, <1>11, <1>12
  <2>2. CASE j > n + 1
    <3>1. (AB \o C)[j] = C[j - Len(AB)] /\ j - Len(AB) \in 1..Len(C)
      BY <2>2, <1>3, <1>6, <1>10, <1>11, <1>12
    <3> QED BY <3>1, <2>2, <1>3, <1>6
  <2>3. j <= n + 1 \/ j > n + 1
    BY <1>3
  <2> QED BY <2>1, <2>2, <2>3
<1>14. HeaderLength(p) = Len(AB \o C) /\ AB \o C \in Seq(OpSet)
  BY <1>11, <1>12
<1> QED BY <1>4, <1>13, <1>14 DEF c, s, d, r, n

LEMMA PlainShape ==
  ASSUME NEW p \in Program
  PROVE  /\ Plain(p) \in Seq(OpSet) /\ Len(Plain(p)) = HeaderLength(p) + Len(p.callee)
         /\ \A j \in 1..HeaderLength(p) + Len(p.callee) :
              Plain(p)[j] = IF j <= HeaderLength(p) THEN Header(p)[j]
                            ELSE RunInitializer(j - HeaderLength(p))
<1> DEFINE n == Len(p.callee)
           R == [k \in DOMAIN p.callee |-> RunInitializer(k)]
           H == Header(p)
<1>1. Plain(p) = H \o R
  BY DEF Plain, PackageInit, Header, Block
<1>2. n \in Nat /\ DOMAIN p.callee = 1..n
  BY ProgramTypes
<1>3. R \in Seq(OpSet) /\ Len(R) = n /\ \A k \in 1..n : R[k] = RunInitializer(k)
  <2>1. \A k \in 1..n : RunInitializer(k) \in OpSet
    BY DEF RunInitializer, OpSet, OpName
  <2>2. R = [k \in 1..n |-> RunInitializer(k)]
    BY <1>2
  <2> HIDE DEF R
  <2>3. R \in [1..n -> OpSet]
    BY <2>1, <2>2
  <2>4. R \in Seq(OpSet)
    BY <2>3, <1>2
  <2>5. Len(R) = n
    BY <2>3, <2>4, <1>2, LenProperties
  <2> QED BY <2>2, <2>4, <2>5
<1>4. H \in Seq(OpSet) /\ Len(H) = HeaderLength(p)
  BY HeaderShape
<1> HIDE DEF H, R
<1>5. /\ H \o R \in Seq(OpSet) /\ Len(H \o R) = Len(H) + Len(R)
      /\ \A j \in 1..Len(H) + Len(R) : (H \o R)[j] = IF j <= Len(H) THEN H[j] ELSE R[j - Len(H)]
  BY <1>3, <1>4, ConcatProperties
<1>6. HeaderLength(p) \in Nat
  BY PositionTypes
<1>7. \A j \in 1..HeaderLength(p) + n :
        (H \o R)[j] = IF j <= HeaderLength(p) THEN H[j] ELSE RunInitializer(j - HeaderLength(p))
  BY <1>2, <1>3, <1>4, <1>5, <1>6
<1> QED BY <1>1, <1>3, <1>4, <1>5, <1>7 DEF H

PlainOp(p, j) ==
  IF j < StoreAt(p) THEN Op("constant true")
  ELSE IF j = StoreAt(p) THEN Op("store applied")
  ELSE IF j = StoreAt(p) + 1 THEN Op("init dependencies")
  ELSE IF j <= HeaderLength(p) THEN Op("preinitialize")
  ELSE RunInitializer(j - HeaderLength(p))

LEMMA PlainOps ==
  ASSUME NEW p \in Program
  PROVE  /\ Plain(p) \in Seq(OpSet) /\ Len(Plain(p)) = HeaderLength(p) + Len(p.callee)
         /\ \A j \in 1..HeaderLength(p) + Len(p.callee) : Plain(p)[j] = PlainOp(p, j)
<1> DEFINE n == Len(p.callee)
           h == HeaderLength(p)
           c == Op("constant true")
           s == Op("store applied")
           d == Op("init dependencies")
           r == Op("preinitialize")
           Q == Plain(p)
<1>1. n \in Nat /\ StoreAt(p) \in 1..2 /\ h \in 2..4 /\ h > StoreAt(p)
  BY PositionTypes
<1>2. Q \in Seq(OpSet) /\ Len(Q) = h + n
  BY PlainShape
<1>3. \A j \in 1..h + n : Q[j] = PlainOp(p, j)
  <2> TAKE j \in 1..h + n
  <2>0. PlainOp(p, j) = IF j < StoreAt(p) THEN c ELSE IF j = StoreAt(p) THEN s
                    ELSE IF j = StoreAt(p) + 1 THEN d ELSE IF j <= h THEN r
                    ELSE RunInitializer(j - h)
    BY DEF PlainOp
  <2>1. CASE j <= h
    <3>1. Q[j] = Header(p)[j]
      BY <2>1, PlainShape
    <3>2. j \in 1..h
      BY <1>1, <2>1
    <3>3. Header(p)[j] = IF j < StoreAt(p) THEN c ELSE IF j = StoreAt(p) THEN s
                         ELSE IF j = StoreAt(p) + 1 THEN d ELSE r
      BY <3>2, HeaderShape
    <3> HIDE DEF c, s, d, r, h, Q
    <3> QED BY <3>1, <3>3, <2>0, <2>1
  <2>2. CASE j > h
    <3>1. Q[j] = RunInitializer(j - h)
      BY <1>1, <2>2, PlainShape
    <3> HIDE DEF c, s, d, r, Q
    <3> QED BY <3>1, <2>0, <2>2, <1>1
  <2>3. j <= h \/ j > h
    BY <1>1
  <2> QED BY <2>1, <2>2, <2>3
<1> QED BY <1>2, <1>3

\* The operation at a position, once the guard variables' initialiser is applied there.
OpAt(p, j) ==
  IF j < StoreAt(p) THEN Op("constant true")
  ELSE IF j = StoreAt(p) THEN Op("store applied")
  ELSE IF j = StoreAt(p) + 1 THEN Op("init dependencies")
  ELSE IF p.literal /\ j = ApplyAt(p) THEN Op(Apply)
  ELSE IF j <= RunsAfter(p) THEN Op("preinitialize")
  ELSE RunInitializer(j - RunsAfter(p))

InitCode(p) == IF p.literal THEN InsertAt(Plain(p), ApplyAt(p), Op(Apply)) ELSE Plain(p)

LEMMA InitCodeShape ==
  ASSUME NEW p \in Program
  PROVE  /\ InitCode(p) \in Seq(OpSet) /\ Len(InitCode(p)) = InitLength(p)
         /\ \A j \in 1..InitLength(p) : InitCode(p)[j] = OpAt(p, j)
<1> DEFINE n == Len(p.callee)
           h == HeaderLength(p)
           c == Op("constant true")
           s == Op("store applied")
           d == Op("init dependencies")
           r == Op("preinitialize")
           a == Op(Apply)
           Q == Plain(p)
<1>1. n \in Nat /\ StoreAt(p) \in 1..2 /\ h \in 2..4 /\ h > StoreAt(p) /\ p.literal \in BOOLEAN
  BY PositionTypes, ProgramTypes
<1> DEFINE At(j) == PlainOp(p, j)
<1>2. Q \in Seq(OpSet) /\ Len(Q) = h + n /\ \A j \in 1..h + n : Q[j] = At(j)
  BY PlainOps
<1>3. \A j : At(j) = IF j < StoreAt(p) THEN c ELSE IF j = StoreAt(p) THEN s
                    ELSE IF j = StoreAt(p) + 1 THEN d ELSE IF j <= h THEN r
                    ELSE RunInitializer(j - h)
  BY DEF PlainOp
<1> HIDE DEF At
<1>4. CASE ~p.literal
  <2>1. RunsAfter(p) = h /\ InitLength(p) = h + n /\ InitCode(p) = Q
    BY <1>4, <1>1 DEF RunsAfter, InitLength, InitCode, Marked
  <2>2. \A j \in 1..h + n : At(j) = OpAt(p, j)
    BY <1>3, <1>4, <2>1 DEF OpAt
  <2> HIDE DEF Q
  <2> QED BY <1>2, <1>3, <2>1, <2>2
<1>5. CASE p.literal
  <2> DEFINE k == ApplyAt(p)
             I == InsertAt(Q, k, a)
  <2>1. a \in OpSet
    BY OpType DEF OpName, Apply
  <2>2. /\ k \in 1..h + n + 1 /\ InitLength(p) = h + n + 1 /\ k > StoreAt(p) + 1
        /\ \A j \in 1..h + n + 1 : j > k => j - RunsAfter(p) = j - 1 - h /\ j > RunsAfter(p) /\ j - 1 > h
        /\ \A j \in 1..h + n + 1 : j < k => (j <= h <=> j <= RunsAfter(p)) /\ (j > h => RunsAfter(p) = h)
    <3>1. CASE p.preinitialize
      <4>1. StoreAt(p) = 2 /\ h = 4 /\ RunsAfter(p) = 5 /\ k = 5 /\ InitLength(p) = 5 + n
        BY <1>5, <3>1, <1>1 DEF StoreAt, HeaderLength, RunsAfter, ApplyAt, InitLength, Marked
      <4> HIDE DEF h, k, n
      <4> QED BY <4>1, <1>1
    <3>2. CASE ~p.preinitialize
      <4>1. StoreAt(p) = 2 /\ h = 3 /\ RunsAfter(p) = 3 /\ k = 4 + n /\ InitLength(p) = 3 + n + 1
        BY <1>5, <3>2, <1>1 DEF StoreAt, HeaderLength, RunsAfter, ApplyAt, InitLength, Marked
      <4> HIDE DEF h, k, n
      <4> QED BY <4>1, <1>1
    <3> QED BY <3>1, <3>2
  <2>3. /\ I \in Seq(OpSet) /\ Len(I) = h + n + 1
        /\ \A j \in 1..h + n + 1 : I[j] = IF j < k THEN Q[j] ELSE IF j = k THEN a ELSE Q[j - 1]
    <3> HIDE DEF Q, a, k, h, n, I
    <3>1. k \in 1..Len(Q) + 1
      BY <1>2, <2>2
    <3>2. /\ I \in Seq(OpSet) /\ Len(I) = Len(Q) + 1
          /\ \A j \in 1..Len(Q) + 1 : I[j] = IF j < k THEN Q[j] ELSE IF j = k THEN a ELSE Q[j - 1]
      <4>1. Q \in Seq(OpSet)
        BY <1>2
      <4> QED BY <4>1, <2>1, <3>1, Insertions DEF I
    <3> QED BY <1>2, <3>2
  <2>4. InitCode(p) = I
    BY <1>5 DEF InitCode
  <2>5. \A j \in 1..h + n + 1 : I[j] = OpAt(p, j)
    <3> TAKE j \in 1..h + n + 1
    <3>0. j \in Nat /\ j >= 1 /\ k \in Nat /\ h \in Nat
      BY <1>1, <2>2
    <3>1. OpAt(p, j) = IF j < StoreAt(p) THEN c ELSE IF j = StoreAt(p) THEN s
                       ELSE IF j = StoreAt(p) + 1 THEN d ELSE IF j = k THEN a
                       ELSE IF j <= RunsAfter(p) THEN r ELSE RunInitializer(j - RunsAfter(p))
      BY <1>5 DEF OpAt
    <3>2. CASE j < k
      <4>1. I[j] = At(j)
        <5>1. j \in 1..h + n /\ I[j] = Q[j]
          BY <3>0, <3>2, <2>2, <2>3, <1>1
        <5> HIDE DEF I, Q
        <5> QED BY <5>1, <1>2
      <4> HIDE DEF I, Q, c, s, d, r, a, h, k
      <4>2. j <= h <=> j <= RunsAfter(p)
        BY <3>2, <2>2
      <4>3. j > h => RunsAfter(p) = h
        BY <3>2, <2>2
      <4> QED BY <1>3, <3>0, <3>1, <3>2, <4>1, <4>2, <4>3
    <3>3. CASE j = k
      <4>1. I[j] = a
        BY <2>3, <3>3, <3>0
      <4> HIDE DEF I, Q, c, s, d, r, a, h, k
      <4> QED BY <3>0, <3>1, <3>3, <4>1, <2>2, <1>1
    <3>4. CASE j > k
      <4>1. I[j] = At(j - 1)
        <5> HIDE DEF I, Q, k, h, n
        <5>a. j - 1 \in 1..h + n
          BY <3>0, <3>4, <2>2, <1>1
        <5>b. ~(j < k) /\ j # k
          BY <3>0, <3>4
        <5>1. j - 1 \in 1..h + n /\ I[j] = Q[j - 1]
          BY <5>a, <5>b, <2>3
        <5> QED BY <5>1, <1>2
      <4>2. j - RunsAfter(p) = j - 1 - h /\ j > RunsAfter(p) /\ j - 1 > h
        BY <3>4, <2>2
      <4> HIDE DEF I, Q, c, s, d, r, a, h, k
      <4>3. I[j] = RunInitializer(j - 1 - h)
        BY <1>3, <3>0, <4>1, <4>2, <1>1
      <4>4. RunsAfter(p) \in Nat
        BY PositionTypes
      <4>5. OpAt(p, j) = RunInitializer(j - RunsAfter(p))
        BY <3>0, <3>1, <3>4, <4>2, <4>4, <2>2, <1>1
      <4> QED BY <4>2, <4>3, <4>5
    <3>5. j < k \/ j = k \/ j > k
      BY <3>0
    <3> QED BY <3>2, <3>3, <3>4, <3>5
  <2> HIDE DEF I, k, h, n
  <2> QED BY <2>2, <2>3, <2>4, <2>5
<1> QED BY <1>1, <1>4, <1>5

-----------------------------------------------------------------------------
(* The package inits of the base and of the patch                           *)

LEMMA BlockParts ==
  \A c, t : Block(c, t).code = c /\ Block(c, t).to = t
BY DEF Block

LEMMA BlockUpdate ==
  \A c, t, d : [Block(c, t) EXCEPT !.code = d] = Block(d, t)
BY DEF Block

\* A guarded package init, but for the guard and the initialisers' block.
Labels == {"test", "init", "exit", "old entry", "routed"}
OldEntry == Block(<<Op("load applied")>>, <<"exit", "init">>)
RoutedBlock == Block(<<Op("invoke init guard method")>>, <<>>)
Exit == Block(<<>>, <<>>)
Blocks(t, n) ==
  [ l \in Labels |-> IF l = "test" THEN t ELSE IF l = "init" THEN n
                     ELSE IF l = "old entry" THEN OldEntry
                     ELSE IF l = "routed" THEN RoutedBlock ELSE Exit ]

LEMMA BlocksAt ==
  \A t, n : /\ DOMAIN Blocks(t, n) = Labels
            /\ Blocks(t, n)["test"] = t /\ Blocks(t, n)["init"] = n
            /\ Blocks(t, n)["old entry"] = OldEntry
            /\ Blocks(t, n)["routed"] = RoutedBlock /\ Blocks(t, n)["exit"] = Exit
BY DEF Blocks, Labels

LEMMA BlocksUpdate ==
  \A t, n, x : /\ [Blocks(t, n) EXCEPT !["test"] = x] = Blocks(x, n)
               /\ [Blocks(t, n) EXCEPT !["init"] = x] = Blocks(t, x)
<1> SUFFICES ASSUME NEW t, NEW n, NEW x
             PROVE  /\ [Blocks(t, n) EXCEPT !["test"] = x] = Blocks(x, n)
                    /\ [Blocks(t, n) EXCEPT !["init"] = x] = Blocks(t, x)
  OBVIOUS
<1>1. [Blocks(t, n) EXCEPT !["test"] = x] = Blocks(x, n)
  BY ZenonT(60) DEF Blocks, Labels
<1>2. [Blocks(t, n) EXCEPT !["init"] = x] = Blocks(t, x)
  BY ZenonT(60) DEF Blocks, Labels
<1> QED BY <1>1, <1>2

GuardCode == <<Op("load init flag"), Op("not")>>
GuardBlock == Block(GuardCode, <<"old entry", "routed">>)
PlainBlock(p) == Block(Plain(p), <<"exit">>)

LEMMA GuardedShape ==
  ASSUME NEW p \in Program
  PROVE  GuardedInit(PackageInit(p)) = [entry |-> "test", block |-> Blocks(GuardBlock, PlainBlock(p))]
<1> DEFINE b == PackageInit(p)
<1>1. b.entry = "test" /\ DOMAIN b.block = {"test", "init", "exit"}
  BY DEF PackageInit
<1>2. b.block["test"] = OldEntry
  BY DEF PackageInit, OldEntry
<1>3. b.block["init"] = PlainBlock(p)
  BY DEF PackageInit, PlainBlock, Plain, Block
<1>4. b.block["exit"] = Exit
  BY DEF PackageInit, Exit
<1> HIDE DEF b
<1>5. {"test", "init", "exit"} \cup {"old entry", "routed"} = Labels
  BY DEF Labels
<1>6. GuardedInit(b) =
        [entry |-> "test",
         block |-> [l \in Labels |-> IF l = "test" THEN GuardBlock
                                     ELSE IF l = "old entry" THEN OldEntry
                                     ELSE IF l = "routed" THEN RoutedBlock ELSE b.block[l]]]
  BY <1>1, <1>2, <1>5 DEF GuardedInit, GuardBlock, GuardCode, RoutedBlock
<1>7. [l \in Labels |-> IF l = "test" THEN GuardBlock
                        ELSE IF l = "old entry" THEN OldEntry
                        ELSE IF l = "routed" THEN RoutedBlock ELSE b.block[l]]
        = Blocks(GuardBlock, PlainBlock(p))
  BY <1>3, <1>4 DEF Blocks, Labels
<1> QED BY <1>6, <1>7 DEF b

LEMMA SingleCode == \A x, blk : blk.code = <<x>> => Len(blk.code) = 1
OBVIOUS

LEMMA NotInitializers ==
  \A blk : Len(blk.code) < 2 => ~IsInitializerBlock(blk)
<1> SUFFICES ASSUME NEW blk, Len(blk.code) < 2, IsInitializerBlock(blk) PROVE FALSE
  OBVIOUS
<1>1. Len(blk.code) >= 2
  BY DEF IsInitializerBlock
<1> QED BY <1>1

\* The plugin finds the initialisers' block if it begins with the literal.
LEMMA InitializersFound ==
  ASSUME NEW p \in Program
  PROVE  LET g == GuardedInit(PackageInit(p))
         IN  Initializers(g) = IF p.literal THEN {"init"} ELSE {}
<1> DEFINE g == GuardedInit(PackageInit(p))
           B == Blocks(GuardBlock, PlainBlock(p))
<1>1. g.block = B
  BY GuardedShape
<1> HIDE DEF g
<1>2. ~IsInitializerBlock(GuardBlock)
  <2>1. GuardCode[1] = Op("load init flag")
    BY DEF GuardCode
  <2>2. Op("load init flag") # Op("constant true")
    BY DEF Op
  <2>3. GuardBlock.code = GuardCode
    BY BlockParts DEF GuardBlock
  <2> QED BY <2>1, <2>2, <2>3 DEF IsInitializerBlock
<1>3. ~IsInitializerBlock(OldEntry)
  <2>1. OldEntry.code = <<Op("load applied")>>
    BY BlockParts DEF OldEntry
  <2>2. Len(OldEntry.code) = 1
    BY <2>1, SingleCode
  <2>3. Len(OldEntry.code) < 2
    BY <2>2
  <2> QED BY <2>3, NotInitializers
<1>4. ~IsInitializerBlock(RoutedBlock)
  <2>1. RoutedBlock.code = <<Op("invoke init guard method")>>
    BY BlockParts DEF RoutedBlock
  <2>2. Len(RoutedBlock.code) = 1
    BY <2>1, SingleCode
  <2>3. Len(RoutedBlock.code) < 2
    BY <2>2
  <2> QED BY <2>3, NotInitializers
<1>5. ~IsInitializerBlock(Exit)
  <2>1. Exit.code = <<>>
    BY BlockParts DEF Exit
  <2>2. Len(Exit.code) = 0
    BY <2>1
  <2> QED BY <2>2, NotInitializers
<1>6. IsInitializerBlock(PlainBlock(p)) <=> p.literal
  <2> DEFINE c == Op("constant true")
             s == Op("store applied")
             Q == Plain(p)
  <2>0. PlainBlock(p).code = Q
    BY BlockParts DEF PlainBlock
  <2>1. Len(Q) >= 2 /\ 1 \in 1..HeaderLength(p) + Len(p.callee) /\ 2 \in 1..HeaderLength(p) + Len(p.callee)
    <3>1. HeaderLength(p) \in 2..4 /\ Len(p.callee) \in Nat
      BY PositionTypes
    <3>2. Len(Q) = HeaderLength(p) + Len(p.callee)
      BY PlainOps
    <3> QED BY <3>1, <3>2
  <2>2. Q[1] = PlainOp(p, 1) /\ Q[2] = PlainOp(p, 2)
    BY <2>1, PlainOps
  <2>3. c # s
    BY DEF Op
  <2>4. IsInitializerBlock(PlainBlock(p)) <=> Q[1] = c /\ Q[2] = s
    <3> HIDE DEF c, s, Q
    <3> QED BY <2>0, <2>1 DEF IsInitializerBlock, c, s
  <2>5. CASE p.literal
    <3>1. StoreAt(p) = 2
      BY <2>5 DEF StoreAt
    <3>2. PlainOp(p, 1) = c /\ PlainOp(p, 2) = s
      BY <3>1 DEF PlainOp
    <3> QED BY <2>2, <2>4, <2>5, <3>2
  <2>6. CASE ~p.literal
    <3>1. StoreAt(p) = 1
      BY <2>6 DEF StoreAt
    <3>2. PlainOp(p, 1) = s
      BY <3>1 DEF PlainOp
    <3> HIDE DEF c, s, Q
    <3> QED BY <2>2, <2>3, <2>4, <2>6, <3>2
  <2> QED BY <2>5, <2>6
<1>7. Initializers(g) = {l \in Labels : IsInitializerBlock(B[l])}
  BY <1>1, BlocksAt DEF Initializers
<1> HIDE DEF B
<1>8. /\ B["test"] = GuardBlock /\ B["init"] = PlainBlock(p) /\ B["old entry"] = OldEntry
      /\ B["routed"] = RoutedBlock /\ B["exit"] = Exit
  BY BlocksAt DEF B
<1>9. \A l \in Labels : IsInitializerBlock(B[l]) <=> l = "init" /\ p.literal
  BY <1>2, <1>3, <1>4, <1>5, <1>6, <1>8 DEF Labels
<1>10. Initializers(g) = IF p.literal THEN {"init"} ELSE {}
  BY <1>7, <1>9 DEF Labels
<1> QED BY <1>10 DEF g

\* In it the apply follows Preinitialize, or comes last.
LEMMA PositionFound ==
  ASSUME NEW p \in Program, p.literal
  PROVE  InitializerPosition(PlainBlock(p)) + 1 = ApplyAt(p)
<1> DEFINE Q == Plain(p)
           h == HeaderLength(p)
           n == Len(p.callee)
           r == Op("preinitialize")
           at0 == {k \in DOMAIN Q : Q[k] = r}
<1>1. StoreAt(p) = 2 /\ n \in Nat /\ h = (IF p.preinitialize THEN 4 ELSE 3)
  BY ProgramTypes DEF StoreAt, HeaderLength
<1>2. DOMAIN Q = 1..h + n /\ Len(Q) = h + n
  BY PlainOps, LenProperties
<1>3. \A j \in 1..h + n : Q[j] = r <=> j = 4 /\ p.preinitialize
  <2> DEFINE c == Op("constant true")
             s == Op("store applied")
             d == Op("init dependencies")
  <2>1. r # c /\ r # s /\ r # d /\ \A k : r # RunInitializer(k)
    BY DEF Op, RunInitializer
  <2>2. \A j \in 1..h + n :
          PlainOp(p, j) = IF j < 2 THEN c ELSE IF j = 2 THEN s ELSE IF j = 3 THEN d
                          ELSE IF j <= h THEN r ELSE RunInitializer(j - h)
    BY <1>1 DEF PlainOp
  <2>3. \A j \in 1..h + n : Q[j] = PlainOp(p, j)
    BY PlainOps
  <2> HIDE DEF c, s, d, r, Q, h, n
  <2> QED BY <1>1, <2>1, <2>2, <2>3
<1>4. at0 = IF p.preinitialize THEN {4} ELSE {}
  <2> HIDE DEF r, Q, h, n
  <2> QED BY <1>1, <1>2, <1>3
<1>5. PlainBlock(p).code = Q
  BY BlockParts DEF PlainBlock
<1> DEFINE b == PlainBlock(p)
           least(s) == CHOOSE k \in s : \A l \in s : k <= l
<1> HIDE DEF b, Q
<1>6. InitializerPosition(b) = IF at0 = {} THEN Len(Q) ELSE least(at0)
  BY <1>5 DEF InitializerPosition, b
<1> HIDE DEF at0, h, n
<1>7. CASE p.preinitialize
  <2>1. at0 = {4}
    BY <1>4, <1>7
  <2>2. least({4}) = 4
    OBVIOUS
  <2>3. InitializerPosition(b) = 4
    BY <1>6, <2>1, <2>2
  <2>4. ApplyAt(p) = 5
    BY <1>7 DEF ApplyAt
  <2> QED BY <2>3, <2>4 DEF b
<1>8. CASE ~p.preinitialize
  <2>1. InitializerPosition(b) = Len(Q)
    BY <1>4, <1>6, <1>8
  <2>2. ApplyAt(p) = 4 + n
    BY <1>8 DEF ApplyAt, n
  <2> QED BY <1>1, <1>2, <1>8, <2>1, <2>2 DEF b
<1> QED BY <1>7, <1>8

BaseEntry(p) == Block(IF p.literal THEN GuardCode ELSE InsertAt(GuardCode, 3, Op(Apply)),
                      <<"old entry", "routed">>)
BaseBlocks(p) == Blocks(BaseEntry(p), Block(InitCode(p), <<"exit">>))

LEMMA CodeUpdate ==
  \A e, B, l, c : l \in DOMAIN B =>
    [[entry |-> e, block |-> B] EXCEPT !.block[l].code = c] =
      [entry |-> e, block |-> [B EXCEPT ![l] = [B[l] EXCEPT !.code = c]]]
OBVIOUS

LEMMA BaseShape ==
  ASSUME NEW p \in Program
  PROVE  BaseInit(p) = [entry |-> "test", block |-> BaseBlocks(p)]
<1> DEFINE g == GuardedInit(PackageInit(p))
           B == Blocks(GuardBlock, PlainBlock(p))
           l0 == IF Initializers(g) = {} THEN g.entry ELSE CHOOSE l \in Initializers(g) : TRUE
           at0 == InitializerPosition(g.block[l0]) + 1
           new == InsertAt(g.block[l0].code, at0, Op(Apply))
<1>1. g = [entry |-> "test", block |-> B]
  BY GuardedShape
<1>2. Initializers(g) = IF p.literal THEN {"init"} ELSE {}
  BY InitializersFound
<1>3. BaseInit(p) = [g EXCEPT !.block[l0].code = InsertAt(@, at0, Op("apply guard vars initializer"))]
  BY DEF BaseInit, WithInitializer
<1>4. BaseInit(p) = [g EXCEPT !.block[l0].code = new]
  BY <1>3 DEF Apply
<1>5. l0 = IF p.literal THEN "init" ELSE "test"
  BY <1>1, <1>2
<1> HIDE DEF g, B, l0, at0, new
<1>6. l0 \in DOMAIN B
  BY <1>5, BlocksAt DEF B, Labels
<1>7. BaseInit(p) = [entry |-> "test", block |-> [B EXCEPT ![l0] = [B[l0] EXCEPT !.code = new]]]
  BY <1>1, <1>4, <1>6, CodeUpdate
<1>8. g.block[l0] = B[l0]
  BY <1>1
<1>9. CASE p.literal
  <2>1. l0 = "init" /\ B[l0] = PlainBlock(p)
    BY <1>5, <1>9, BlocksAt DEF B
  <2>2. at0 = ApplyAt(p)
    BY <1>8, <1>9, <2>1, PositionFound DEF at0
  <2>3. B[l0].code = Plain(p)
    BY <2>1, BlockParts DEF PlainBlock
  <2>4. new = InitCode(p)
    BY <1>8, <1>9, <2>2, <2>3 DEF new, InitCode
  <2>5. [B[l0] EXCEPT !.code = new] = Block(InitCode(p), <<"exit">>)
    BY <2>1, <2>4, BlockUpdate DEF PlainBlock
  <2>6. [B EXCEPT !["init"] = Block(InitCode(p), <<"exit">>)] =
          Blocks(GuardBlock, Block(InitCode(p), <<"exit">>))
    BY BlocksUpdate DEF B
  <2>7. BaseEntry(p) = GuardBlock
    BY <1>9 DEF BaseEntry, GuardBlock
  <2> QED BY <1>7, <2>1, <2>5, <2>6, <2>7 DEF BaseBlocks
<1>10. CASE ~p.literal
  <2>1. l0 = "test" /\ B[l0] = GuardBlock
    BY <1>5, <1>10, BlocksAt DEF B
  <2>2. GuardBlock.code = GuardCode
    BY BlockParts DEF GuardBlock
  <2>3. InitializerPosition(GuardBlock) = 2
    <3>1. Len(GuardCode) = 2 /\ DOMAIN GuardCode = 1..2
      BY DEF GuardCode
    <3>2. GuardCode[1] # Op("preinitialize") /\ GuardCode[2] # Op("preinitialize")
      BY DEF GuardCode, Op
    <3>3. \A k \in 1..2 : k = 1 \/ k = 2
      OBVIOUS
    <3>4. {k \in DOMAIN GuardCode : GuardCode[k] = Op("preinitialize")} = {}
      BY <3>1, <3>2, <3>3
    <3> QED BY <2>2, <3>1, <3>4 DEF InitializerPosition
  <2>4. at0 = 3
    BY <1>8, <2>1, <2>3 DEF at0
  <2>5. new = InsertAt(GuardCode, 3, Op(Apply))
    BY <1>8, <2>1, <2>2, <2>4 DEF new
  <2>6. [B[l0] EXCEPT !.code = new] = BaseEntry(p)
    <3> DEFINE t == <<"old entry", "routed">>
               c == InsertAt(GuardCode, 3, Op(Apply))
    <3>1. GuardBlock = Block(GuardCode, t) /\ BaseEntry(p) = Block(c, t)
      BY <1>10 DEF GuardBlock, BaseEntry
    <3> HIDE DEF t, c
    <3>2. [Block(GuardCode, t) EXCEPT !.code = c] = Block(c, t)
      BY BlockUpdate
    <3> QED BY <2>1, <2>5, <3>1, <3>2 DEF c
  <2>7. [B EXCEPT !["test"] = BaseEntry(p)] = Blocks(BaseEntry(p), PlainBlock(p))
    BY BlocksUpdate DEF B
  <2>8. PlainBlock(p) = Block(InitCode(p), <<"exit">>)
    BY <1>10 DEF PlainBlock, InitCode
  <2> QED BY <1>7, <2>1, <2>6, <2>7, <2>8 DEF BaseBlocks
<1> QED BY <1>9, <1>10, ProgramTypes

LEMMA OpAtCases ==
  ASSUME NEW p \in Program, NEW j \in 1..InitLength(p)
  PROVE  /\ j < StoreAt(p) => OpAt(p, j) = Op("constant true")
         /\ j = StoreAt(p) => OpAt(p, j) = Op("store applied")
         /\ j = StoreAt(p) + 1 => OpAt(p, j) = Op("init dependencies")
         /\ p.literal /\ j = ApplyAt(p) => OpAt(p, j) = Op(Apply)
         /\ j > StoreAt(p) + 1 /\ ~(p.literal /\ j = ApplyAt(p)) =>
              OpAt(p, j) = IF j <= RunsAfter(p) THEN Op("preinitialize")
                           ELSE RunInitializer(j - RunsAfter(p))
<1> DEFINE c == Op("constant true")
           s == Op("store applied")
           d == Op("init dependencies")
           a == Op(Apply)
           r == Op("preinitialize")
           k == ApplyAt(p)
           n == StoreAt(p)
           z == RunInitializer(j - RunsAfter(p))
<1>1. OpAt(p, j) = IF j < n THEN c ELSE IF j = n THEN s ELSE IF j = n + 1 THEN d
                   ELSE IF p.literal /\ j = k THEN a ELSE IF j <= RunsAfter(p) THEN r ELSE z
  BY DEF OpAt
<1>2. n \in 1..2 /\ RunsAfter(p) \in Nat /\ j \in Nat /\ k \in Nat
  BY PositionTypes
<1>3. p.literal => k > n + 1
  BY ProgramTypes DEF ApplyAt, StoreAt
<1> HIDE DEF c, s, d, a, r, k, n, z
<1>4. /\ j < n => OpAt(p, j) = c
      /\ j = n => OpAt(p, j) = s
      /\ j = n + 1 => OpAt(p, j) = d
      /\ p.literal /\ j = k => OpAt(p, j) = a
      /\ j > n + 1 /\ ~(p.literal /\ j = k) => OpAt(p, j) = IF j <= RunsAfter(p) THEN r ELSE z
  BY <1>1, <1>2, <1>3
<1> QED BY <1>4 DEF c, s, d, a, r, k, n, z

\* Where the package init stores, applies and runs.
LEMMA InitShapeByOps ==
  ASSUME NEW p \in Program, NEW m \in Image, NEW c,
         DOMAIN c = 1..InitLength(p), Len(c) = InitLength(p),
         \A j \in 1..InitLength(p) :
           c[j] = IF j = StoreAt(p) THEN Op(StoreOp(m)) ELSE OpAt(p, j)
  PROVE  InitShape(p, m, Block(c, <<"exit">>))
<1> DEFINE b == Block(c, <<"exit">>)
           n == Len(p.callee)
<1>1. b.code = c /\ b.to = <<"exit">>
  BY BlockParts
<1>2. Len(<<"exit">>) = 1 /\ <<"exit">>[1] = "exit"
  OBVIOUS
<1>3. ASSUME NEW j \in 1..InitLength(p)
      PROVE  /\ c[j].op \in StoreOps <=> j = StoreAt(p)
             /\ c[j].op \in StoreOps => c[j].op = StoreOp(m)
             /\ c[j].op = Apply <=> p.literal /\ j = ApplyAt(p)
             /\ c[j].op = "run initializer" <=> RunsAfter(p) < j /\ j <= RunsAfter(p) + n
             /\ c[j].op = "run initializer" => c[j].arg = j - RunsAfter(p)
  <2>1. /\ j \in Nat /\ j >= 1 /\ StoreAt(p) \in 1..2 /\ n \in Nat /\ RunsAfter(p) \in 2..5
        /\ RunsAfter(p) > StoreAt(p) /\ ApplyAt(p) \in Nat
        /\ InitLength(p) = RunsAfter(p) + n + (IF p.literal /\ ~p.preinitialize THEN 1 ELSE 0)
        /\ p.literal => ApplyAt(p) \in StoreAt(p) + 1 .. InitLength(p)
        /\ p.literal /\ p.preinitialize => ApplyAt(p) = RunsAfter(p)
        /\ p.literal /\ ~p.preinitialize => ApplyAt(p) = RunsAfter(p) + n + 1
        /\ p.literal \in BOOLEAN /\ p.preinitialize \in BOOLEAN
    BY PositionTypes, ProgramTypes DEF InitLength, Marked
  <2>2. /\ \A name : Op(name).op = name
        /\ \A k : RunInitializer(k).op = "run initializer" /\ RunInitializer(k).arg = k
    BY DEF Op, RunInitializer
  <2>3. CASE j = StoreAt(p)
    <3>1. c[j].op = StoreOp(m)
      BY <2>2, <2>3
    <3>2. StoreOp(m) \in StoreOps /\ StoreOp(m) # Apply /\ StoreOp(m) # "run initializer"
      BY DEF StoreOp, StoreOps, Apply
    <3>3. ~(p.literal /\ j = ApplyAt(p)) /\ ~(RunsAfter(p) < j)
      BY <2>1, <2>3
    <3> QED BY <2>3, <3>1, <3>2, <3>3
  <2>4. CASE j # StoreAt(p)
    <3>1. c[j] = OpAt(p, j)
      BY <2>4
    <3>2. CASE j < StoreAt(p)
      <4>1. c[j].op = "constant true"
        BY <2>2, <3>1, <3>2, OpAtCases
      <4>2. "constant true" \notin StoreOps /\ "constant true" # Apply
        BY DEF StoreOps, Apply
      <4>3. ~(p.literal /\ j = ApplyAt(p)) /\ ~(RunsAfter(p) < j)
        BY <2>1, <3>2
      <4> QED BY <2>4, <4>1, <4>2, <4>3
    <3>3. CASE j = StoreAt(p) + 1 /\ ~(p.literal /\ j = ApplyAt(p))
      <4>1. c[j].op = "init dependencies"
        BY <2>2, <3>1, <3>3, OpAtCases
      <4>2. "init dependencies" \notin StoreOps /\ "init dependencies" # Apply
        BY DEF StoreOps, Apply
      <4>3. ~(RunsAfter(p) < j)
        BY <2>1, <3>3
      <4> QED BY <2>4, <3>3, <4>1, <4>2, <4>3
    <3>4. CASE p.literal /\ j = ApplyAt(p)
      <4>1. c[j].op = Apply
        BY <2>2, <3>1, <3>4, OpAtCases
      <4>2. Apply \notin StoreOps /\ Apply # "run initializer"
        BY DEF StoreOps, Apply
      <4>3. ~(RunsAfter(p) < j /\ j <= RunsAfter(p) + n)
        BY <2>1, <3>4
      <4> QED BY <2>4, <3>4, <4>1, <4>2, <4>3
    <3>5. CASE j > StoreAt(p) + 1 /\ ~(p.literal /\ j = ApplyAt(p)) /\ j <= RunsAfter(p)
      <4>1. c[j].op = "preinitialize"
        BY <2>2, <3>1, <3>5, OpAtCases
      <4>2. "preinitialize" \notin StoreOps /\ "preinitialize" # Apply
        BY DEF StoreOps, Apply
      <4>3. ~(RunsAfter(p) < j)
        BY <2>1, <3>5
      <4> QED BY <2>4, <3>5, <4>1, <4>2, <4>3
    <3>6. CASE j > StoreAt(p) + 1 /\ ~(p.literal /\ j = ApplyAt(p)) /\ j > RunsAfter(p)
      <4>1. c[j] = RunInitializer(j - RunsAfter(p))
        <5>1. ~(j <= RunsAfter(p))
          BY <2>1, <3>6
        <5> QED BY <3>1, <3>6, <5>1, OpAtCases
      <4>2. "run initializer" \notin StoreOps /\ "run initializer" # Apply
        BY DEF StoreOps, Apply
      <4>3. j <= RunsAfter(p) + n
        BY <2>1, <3>6
      <4> QED BY <2>2, <2>4, <3>6, <4>1, <4>2, <4>3
    <3>7. j < StoreAt(p) \/ j = StoreAt(p) + 1 \/ (j > StoreAt(p) + 1 /\ (j > RunsAfter(p) \/ j <= RunsAfter(p)))
      BY <2>1, <2>4
    <3> QED BY <3>2, <3>3, <3>4, <3>5, <3>6, <3>7
  <2> QED BY <2>3, <2>4
<1> HIDE DEF b
<1> QED BY <1>1, <1>2, <1>3 DEF InitShape, b

LEMMA BaseInitShape ==
  ASSUME NEW p \in Program
  PROVE  InitShape(p, "base", Block(InitCode(p), <<"exit">>))
<1>1. DOMAIN InitCode(p) = 1..InitLength(p) /\ Len(InitCode(p)) = InitLength(p)
  BY InitCodeShape, LenProperties
<1>2. \A j \in 1..InitLength(p) :
        InitCode(p)[j] = IF j = StoreAt(p) THEN Op(StoreOp("base")) ELSE OpAt(p, j)
  <2>1. OpAt(p, StoreAt(p)) = Op(StoreOp("base"))
    <3>0. /\ StoreAt(p) \in 1..2 /\ RunsAfter(p) \in 2..5 /\ RunsAfter(p) > StoreAt(p)
          /\ Len(p.callee) \in Nat /\ InitLength(p) \in Nat
          /\ InitLength(p) >= RunsAfter(p) + Len(p.callee)
      BY PositionTypes
    <3>1. StoreAt(p) \in 1..InitLength(p)
      BY <3>0
    <3> QED BY <3>1, OpAtCases DEF StoreOp
  <2> QED BY <2>1, InitCodeShape
<1>3. "base" \in Image
  BY DEF Image
<1> QED BY <1>1, <1>2, <1>3, InitShapeByOps

LEMMA GuardEntryShape ==
  ASSUME NEW p \in Program
  PROVE  GuardShape(p, BaseEntry(p))
<1> DEFINE a == Op("load init flag")
           b == Op("not")
           c == Op(Apply)
           t == <<"old entry", "routed">>
           I == InsertAt(GuardCode, 3, c)
<1>1. BaseEntry(p).code = (IF p.literal THEN GuardCode ELSE I) /\ BaseEntry(p).to = t
  BY BlockParts DEF BaseEntry
<1>2. Len(t) = 2 /\ t[1] = "old entry" /\ t[2] = "routed"
  OBVIOUS
<1>3. a \in OpSet /\ b \in OpSet /\ c \in OpSet
  BY OpType DEF OpName, Apply
<1>4. GuardCode \in Seq(OpSet) /\ Len(GuardCode) = 2 /\ GuardCode[1] = a /\ GuardCode[2] = b
  <2>1. GuardCode = <<a, b>>
    BY DEF GuardCode
  <2> HIDE DEF a, b, GuardCode
  <2> QED BY <1>3, <2>1
<1>5. a.op = "load init flag" /\ b.op = "not" /\ c.op = Apply
  BY DEF Op
<1> HIDE DEF a, b, c, t, I
<1>6. I \in Seq(OpSet) /\ Len(I) = 3 /\ I[1] = a /\ I[2] = b /\ I[3] = c
  <2>1. 3 \in 1..Len(GuardCode) + 1
    BY <1>4
  <2> DEFINE G == GuardCode
  <2>2. /\ I \in Seq(OpSet) /\ Len(I) = Len(G) + 1
        /\ \A j \in 1..Len(G) + 1 :
             I[j] = IF j < 3 THEN G[j] ELSE IF j = 3 THEN c ELSE G[j - 1]
    <3>1. G \in Seq(OpSet) /\ I = InsertAt(G, 3, c) /\ 3 \in 1..Len(G) + 1
      BY <1>4, <2>1 DEF I
    <3> DEFINE k == 3
    <3>2. k \in 1..Len(G) + 1
      BY <3>1
    <3> HIDE DEF G, k
    <3>3. /\ InsertAt(G, k, c) \in Seq(OpSet) /\ Len(InsertAt(G, k, c)) = Len(G) + 1
          /\ \A j \in 1..Len(G) + 1 :
               InsertAt(G, k, c)[j] = IF j < k THEN G[j] ELSE IF j = k THEN c ELSE G[j - 1]
      BY <1>3, <3>1, <3>2, Insertions
    <3> QED BY <3>1, <3>3 DEF k
  <2> QED BY <1>4, <2>2
<1>7. CASE p.literal
  <2>1. DOMAIN GuardCode = 1..2
    BY <1>4, LenProperties
  <2>2. \A j \in 1..2 : j = 1 \/ j = 2
    OBVIOUS
  <2>3. BaseEntry(p).code = GuardCode /\ b = Op("not")
    BY <1>1, <1>7 DEF b
  <2>4. GuardCode[2] = Op("not") /\ 2 \in 1..2
    BY <1>4, <2>3
  <2>5. \A j \in 1..2 : GuardCode[j].op \in {"load init flag", "not"}
    BY <1>4, <1>5, <2>2
  <2> HIDE DEF GuardCode
  <2> QED BY <1>1, <1>2, <2>1, <2>3, <2>4, <2>5 DEF GuardShape
<1>8. CASE ~p.literal
  <2>1. DOMAIN I = 1..3
    BY <1>6, LenProperties
  <2>2. \A j \in 1..3 : j = 1 \/ j = 2 \/ j = 3
    OBVIOUS
  <2>3. BaseEntry(p).code = I /\ b = Op("not")
    BY <1>1, <1>8 DEF b
  <2>4. I[2] = Op("not") /\ 2 \in 1..3
    BY <1>6, <2>3
  <2>5. \A j \in 1..3 : I[j].op \in {"load init flag", "not"} \/ I[j].op = Apply
    BY <1>5, <1>6, <2>2
  <2> QED BY <1>1, <1>2, <1>8, <2>1, <2>3, <2>4, <2>5 DEF GuardShape
<1> QED BY <1>7, <1>8

LEMMA BaseHasShape ==
  ASSUME NEW p \in Program
  PROVE  Shape(p, "base", BaseInit(p))
<1> DEFINE B == BaseBlocks(p)
<1>1. BaseInit(p).entry = "test" /\ BaseInit(p).block = B
  BY BaseShape
<1>2. /\ DOMAIN B = Labels /\ B["test"] = BaseEntry(p) /\ B["old entry"] = OldEntry
      /\ B["init"] = Block(InitCode(p), <<"exit">>) /\ B["exit"] = Exit
  BY BlocksAt DEF BaseBlocks
<1> HIDE DEF B
<1>3. DOMAIN B = {"old entry", "init", "exit"} \cup {"test", "routed"}
  BY <1>2 DEF Labels
<1>4. TestShape("base", OldEntry)
  <2> DEFINE x == Op("load applied")
             t == <<"exit", "init">>
  <2>1. OldEntry.code = <<x>> /\ OldEntry.to = t
    BY BlockParts DEF OldEntry
  <2>2. Len(t) = 2 /\ t[1] = "exit" /\ t[2] = "init"
    OBVIOUS
  <2> HIDE DEF x, t
  <2>3. DOMAIN <<x>> = {1} /\ <<x>>[1] = x
    OBVIOUS
  <2> QED BY <2>1, <2>2, <2>3 DEF TestShape, TestOp, x
<1>5. GuardShape(p, B["test"]) /\ InitShape(p, "base", B["init"])
  BY <1>2, GuardEntryShape, BaseInitShape
<1> QED BY <1>1, <1>2, <1>3, <1>4, <1>5 DEF Shape, Exit

\* patch-gen takes the guard's blocks away and lets the patch use the base's flag.
LEMMA PatchHasShape ==
  ASSUME NEW p \in Program
  PROVE  Shape(p, "patch", PatchInit(p))
<1> DEFINE B == BaseBlocks(p)
           U == Unguarded(BaseInit(p))
           A(blk) == Block([j \in DOMAIN blk.code |-> Accessor(blk.code[j])], blk.to)
           P == PatchInit(p)
           L == {"old entry", "init", "exit"}
<1>1. BaseInit(p).entry = "test" /\ BaseInit(p).block = B
  BY BaseShape
<1>2. /\ DOMAIN B = Labels /\ B["test"] = BaseEntry(p) /\ B["old entry"] = OldEntry
      /\ B["init"] = Block(InitCode(p), <<"exit">>) /\ B["exit"] = Exit
  BY BlocksAt DEF BaseBlocks
<1> HIDE DEF B
<1>3. BaseEntry(p).to[1] = "old entry" /\ BaseEntry(p).to[2] = "routed"
  BY GuardEntryShape DEF GuardShape
<1>4. Labels \ {"test", "routed"} = L
  BY DEF Labels
<1>5. U = [entry |-> "old entry", block |-> [l \in L |-> B[l]]]
  BY <1>1, <1>2, <1>3, <1>4 DEF Unguarded
<1>6. P = [U EXCEPT !.block = [l \in DOMAIN @ |-> A(@[l])]]
  BY DEF PatchInit, WithAccessors
<1> HIDE DEF U, P, A
<1>7. P = [entry |-> "old entry", block |-> [l \in L |-> A(B[l])]]
  BY <1>5, <1>6
<1>8. /\ P.entry = "old entry" /\ DOMAIN P.block = L
      /\ P.block["old entry"] = A(OldEntry) /\ P.block["exit"] = A(Exit)
      /\ P.block["init"] = A(Block(InitCode(p), <<"exit">>))
  BY <1>2, <1>7
<1>9. A(Exit) = Block(<<>>, <<>>)
  <2>1. Exit.code = <<>> /\ Exit.to = <<>>
    BY BlockParts DEF Exit
  <2>2. [j \in DOMAIN <<>> |-> Accessor(<<>>[j])] = <<>>
    OBVIOUS
  <2> QED BY <2>1, <2>2 DEF A
<1>10. TestShape("patch", A(OldEntry))
  <2> DEFINE x == Op("load applied")
             t == <<"exit", "init">>
             y == Op("get base's applied")
  <2>1. OldEntry.code = <<x>> /\ OldEntry.to = t
    BY BlockParts DEF OldEntry
  <2>2. Len(t) = 2 /\ t[1] = "exit" /\ t[2] = "init"
    OBVIOUS
  <2>3. Accessor(x) = y
    BY DEF Accessor
  <2> HIDE DEF x, t, y
  <2>4. DOMAIN <<x>> = {1} /\ <<x>>[1] = x
    OBVIOUS
  <2>5. A(OldEntry).code = [j \in {1} |-> Accessor(<<x>>[j])] /\ A(OldEntry).to = t
    BY <2>1, <2>4, BlockParts DEF A
  <2>6. DOMAIN A(OldEntry).code = {1} /\ A(OldEntry).code[1] = y
    BY <2>3, <2>4, <2>5
  <2> QED BY <2>2, <2>5, <2>6 DEF TestShape, TestOp, y
<1>11. InitShape(p, "patch", A(Block(InitCode(p), <<"exit">>)))
  <2> DEFINE c == [j \in 1..InitLength(p) |-> Accessor(InitCode(p)[j])]
  <2>1. DOMAIN InitCode(p) = 1..InitLength(p) /\ InitLength(p) \in Nat
    BY InitCodeShape, LenProperties, PositionTypes
  <2>2. A(Block(InitCode(p), <<"exit">>)) = Block(c, <<"exit">>)
    BY <2>1, BlockParts DEF A
  <2>3. \A j \in 1..InitLength(p) : c[j] = Accessor(OpAt(p, j))
    BY InitCodeShape
  <2>4. \A o \in OpSet : Accessor(o) \in OpSet
    BY OpType DEF Accessor, OpName
  <2>5. \A j \in 1..InitLength(p) : OpAt(p, j) \in OpSet
    BY <2>1, InitCodeShape, ElementOfSeq
  <2>6. c \in [1..InitLength(p) -> OpSet]
    BY <2>3, <2>4, <2>5
  <2>7. DOMAIN c = 1..InitLength(p)
    OBVIOUS
  <2> HIDE DEF c
  <2>8. c \in Seq(OpSet)
    BY <2>1, <2>6
  <2>9. Len(c) = InitLength(p)
    BY <2>1, <2>7, <2>8, LenProperties
  <2>10. \A j \in 1..InitLength(p) :
           Accessor(OpAt(p, j)) = IF j = StoreAt(p) THEN Op(StoreOp("patch")) ELSE OpAt(p, j)
    <3> TAKE j \in 1..InitLength(p)
    <3>1. CASE j = StoreAt(p)
      <4>1. OpAt(p, j) = Op("store applied")
        BY <3>1, OpAtCases
      <4>2. Op("store applied") # Op("load applied")
        BY DEF Op
      <4>3. StoreOp("patch") = "set base's applied"
        BY DEF StoreOp
      <4> QED BY <3>1, <4>1, <4>2, <4>3 DEF Accessor
    <3>2. CASE j # StoreAt(p)
      <4> DEFINE o == OpAt(p, j)
      <4>1. o \in {Op("constant true"), Op("init dependencies"), Op(Apply), Op("preinitialize"),
                   RunInitializer(j - RunsAfter(p))}
        BY <3>2 DEF OpAt
      <4> HIDE DEF o
      <4>2. o.op # "store applied" /\ o.op # "load applied"
        <5>1. \A name \in {"constant true", "init dependencies", Apply, "preinitialize"} :
                /\ Op(name).op # "store applied" /\ Op(name).op # "load applied"
          BY DEF Op, Apply
        <5>2. \A k : RunInitializer(k).op # "store applied" /\ RunInitializer(k).op # "load applied"
          BY DEF RunInitializer
        <5> QED BY <4>1, <5>1, <5>2
      <4>3. Op("store applied").op = "store applied" /\ Op("load applied").op = "load applied"
        BY DEF Op
      <4>4. Accessor(o) = o
        BY <4>2, <4>3 DEF Accessor
      <4> QED BY <3>2, <4>4 DEF o
    <3> QED BY <3>1, <3>2
  <2>11. "patch" \in Image
    BY DEF Image
  <2>12. InitShape(p, "patch", Block(c, <<"exit">>))
    BY <2>3, <2>7, <2>9, <2>10, <2>11, InitShapeByOps
  <2> QED BY <2>2, <2>12
<1>12. "patch" # "base" /\ L \cup {} = L
  OBVIOUS
<1> HIDE DEF L
<1>13. Shape(p, "patch", P)
  BY <1>8, <1>9, <1>10, <1>11, <1>12 DEF Shape, L
<1> QED BY <1>13 DEF P

LEMMA InitsHaveShape ==
  ASSUME NEW p \in Program, NEW m \in Image
  PROVE  Shape(p, m, InitOf(p, m))
BY BaseHasShape, PatchHasShape DEF Image, InitOf

-----------------------------------------------------------------------------
(* The stores of the guard variables' initialiser                           *)

StoreSet == {None, Instance} \cup {Flag(f) : f \in Func}

LEMMA StoreKinds ==
  /\ None.store = "None" /\ Instance.store = "instance"
  /\ \A f : Flag(f).store = "flag" /\ Flag(f).func = f
  /\ \A f : Flag(f) # None /\ Flag(f) # Instance
  /\ \A f, g : Flag(f) = Flag(g) => f = g
BY DEF None, Instance, Flag

\* The flags are those of the changed functions, in some order.
LEMMA FlagsListed ==
  ASSUME NEW C, C \subseteq Func, IsFiniteSet(C)
  PROVE  LET T == {Flag(f) : f \in C}
             S == SetToSeq(T)
         IN  /\ S \in Seq(T) /\ \A k \in 1..Len(S) : \E f \in C : S[k] = Flag(f)
             /\ \A f \in C : \E k \in 1..Len(S) : S[k] = Flag(f)
<1> DEFINE T == {Flag(f) : f \in C}
           S == SetToSeq(T)
           n == Cardinality(T)
<1>1. IsFiniteSet(T)
  <2> DEFINE F == [f \in C |-> Flag(f)]
  <2>1. F \in Surjection(C, T)
    BY DEF Surjection
  <2> QED BY <2>1, FS_Surjection
<1>2. n \in Nat /\ ExistsBijection(1..n, T)
  BY <1>1, FS_CardinalityType
<1>3. \E f \in [1..n -> T] : IsInjective(f)
  BY <1>2 DEF ExistsBijection, Bijection, Injection
<1>4. S \in [1..n -> T] /\ IsInjective(S)
  BY <1>3 DEF SetToSeq
<1> HIDE DEF S, T, n
<1>5. S \in Injection(1..n, T)
  BY <1>4 DEF Injection
<1>6. Cardinality(1..n) = n
  <2>1. Cardinality(1..n) = IF 1 > n THEN 0 ELSE n - 1 + 1
    BY <1>2, FS_Interval
  <2> QED BY <1>2, <2>1
<1>7. S \in Surjection(1..n, T)
  BY <1>1, <1>5, <1>6, FS_Injection DEF n
<1>8. S \in Seq(T) /\ Len(S) = n
  <2>1. S \in Seq(T)
    BY <1>2, <1>4
  <2> QED BY <1>2, <1>4, <2>1, LenProperties
<1>9. \A k \in 1..n : \E f \in C : S[k] = Flag(f)
  BY <1>4 DEF T
<1>10. \A f \in C : \E k \in 1..n : S[k] = Flag(f)
  BY <1>7 DEF Surjection, T
<1> QED BY <1>8, <1>9, <1>10 DEF S, T

LEMMA StoresShape ==
  ASSUME NEW p \in Program, NEW m \in Image
  PROVE  LET G == GuardVarsInitializer(p, m)
         IN  /\ G \in Seq(StoreSet) /\ Len(G) >= 1 /\ G[1] = None
             /\ m = "base" \/ p.changed = {} => Len(G) = 1
             /\ m = "patch" /\ p.changed # {} => Len(G) > 2
             /\ Len(G) > 1 => G[Len(G)] = Instance
             /\ \A k \in 2..Len(G) - 1 : \E f \in p.changed : G[k] = Flag(f)
             /\ Len(G) > 1 => \A f \in p.changed : \E k \in 2..Len(G) - 1 : G[k] = Flag(f)
<1> DEFINE G == GuardVarsInitializer(p, m)
           C == p.changed
           T == {Flag(f) : f \in C}
           S == SetToSeq(T)
           z == Instance
           y == None
<1>1. C \subseteq Func /\ IsFiniteSet(C)
  BY ProgramTypes
<1>2. y \in StoreSet /\ z \in StoreSet /\ T \subseteq StoreSet
  BY <1>1 DEF StoreSet
<1>3. /\ S \in Seq(T) /\ \A k \in 1..Len(S) : \E f \in C : S[k] = Flag(f)
      /\ \A f \in C : \E k \in 1..Len(S) : S[k] = Flag(f)
  BY <1>1, FlagsListed
<1>4. S \in Seq(StoreSet) /\ Len(S) \in Nat
  BY <1>2, <1>3, SeqMonotonic, LenProperties
<1>5. <<y>> \in Seq(StoreSet) /\ Len(<<y>>) = 1 /\ <<y>>[1] = y
  <2> HIDE DEF y
  <2> QED BY <1>2
<1>6. <<z>> \in Seq(StoreSet) /\ Len(<<z>>) = 1 /\ <<z>>[1] = z
  <2> HIDE DEF z
  <2> QED BY <1>2
<1>7. CASE m = "base" \/ C = {}
  <2>1. G = <<y>>
    BY <1>7 DEF GuardVarsInitializer
  <2>2. m = "patch" => C = {}
    BY <1>7
  <2> HIDE DEF G, y, z
  <2>3. Len(G) = 1 /\ G[1] = y /\ G \in Seq(StoreSet)
    BY <1>5, <2>1
  <2>4. 2..Len(G) - 1 = {}
    BY <2>3
  <2> QED BY <2>2, <2>3, <2>4 DEF G, y
<1>8. CASE ~(m = "base" \/ C = {})
  <2> DEFINE Y == <<y>>
             Z == <<z>>
             YS == Y \o S
  <2>1. G = YS \o Z
    BY <1>8 DEF GuardVarsInitializer
  <2>2. /\ Y \in Seq(StoreSet) /\ Len(Y) = 1 /\ Y[1] = y
        /\ Z \in Seq(StoreSet) /\ Len(Z) = 1 /\ Z[1] = z
    BY <1>5, <1>6
  <2> HIDE DEF Y, Z, S, YS, G, y, z, C
  <2>3. /\ YS \in Seq(StoreSet) /\ Len(YS) = Len(Y) + Len(S)
        /\ \A k \in 1..Len(Y) + Len(S) : YS[k] = IF k <= Len(Y) THEN Y[k] ELSE S[k - Len(Y)]
    BY <1>4, <2>2, ConcatProperties DEF YS
  <2>4. /\ G \in Seq(StoreSet) /\ Len(G) = Len(YS) + Len(Z)
        /\ \A k \in 1..Len(YS) + Len(Z) : G[k] = IF k <= Len(YS) THEN YS[k] ELSE Z[k - Len(YS)]
    <3>1. YS \in Seq(StoreSet) /\ Z \in Seq(StoreSet)
      BY <2>2, <2>3
    <3> QED BY <2>1, <3>1, ConcatProperties
  <2>5. Len(G) = Len(S) + 2
    BY <1>4, <2>2, <2>3, <2>4
  <2>6. G[1] = y
    BY <1>4, <2>2, <2>3, <2>4
  <2>7. G[Len(G)] = z
    BY <1>4, <2>2, <2>3, <2>4, <2>5
  <2>8. \A k \in 2..Len(S) + 1 : k - 1 \in 1..Len(S) /\ G[k] = S[k - 1]
    BY <1>4, <2>2, <2>3, <2>4
  <2>9. \A k \in 2..Len(G) - 1 : \E f \in C : G[k] = Flag(f)
    <3> SUFFICES ASSUME NEW k \in 2..Len(G) - 1 PROVE \E f \in C : G[k] = Flag(f)
      OBVIOUS
    <3>1. k \in 2..Len(S) + 1
      BY <1>4, <2>5
    <3>2. k - 1 \in 1..Len(S) /\ G[k] = S[k - 1]
      BY <2>8, <3>1
    <3>3. \E f \in C : S[k - 1] = Flag(f)
      BY <1>3, <3>2
    <3> QED BY <3>2, <3>3
  <2>10. \A f \in C : \E k \in 2..Len(G) - 1 : G[k] = Flag(f)
    <3> SUFFICES ASSUME NEW f \in C PROVE \E k \in 2..Len(G) - 1 : G[k] = Flag(f)
      OBVIOUS
    <3>1. PICK k \in 1..Len(S) : S[k] = Flag(f)
      BY <1>3
    <3>2. k + 1 \in 2..Len(S) + 1 /\ (k + 1) - 1 = k /\ k + 1 \in 2..Len(G) - 1
      BY <1>4, <2>5
    <3>3. G[k + 1] = Flag(f)
      BY <2>8, <3>1, <3>2
    <3> QED BY <3>2, <3>3
  <2>11. Len(G) > 2
    <3>1. PICK f \in C : TRUE
      BY <1>8
    <3>2. \E k \in 1..Len(S) : S[k] = Flag(f)
      BY <1>3
    <3> QED BY <1>4, <2>5, <3>2
  <2>12. m # "base" /\ C # {}
    BY <1>8
  <2> QED BY <2>4, <2>6, <2>7, <2>9, <2>10, <2>11, <2>12 DEF G, y, z, C
<1> QED BY <1>7, <1>8

LEMMA ActivityKinds ==
  /\ Idle.is = "idle"
  /\ \A f : Called(f).is = "called" /\ Called(f).func = f
  /\ \A f : Routed(f).is = "routed" /\ Routed(f).func = f
  /\ \A f, c : Ran(f, c).is = "ran" /\ Ran(f, c).func = f /\ Ran(f, c).code = c
BY DEF Idle, Called, Routed, Ran

LEMMA KindsDiffer == \A f, c : Ran(f, c) # Idle /\ Ran(f, c).is # "routed"
BY ActivityKinds

LEMMA ActivityFacts ==
  \A a \in Activity :
    /\ a.is \in {"idle", "called", "routed", "ran"}
    /\ a.is = "idle" => a = Idle
    /\ a.is = "called" => a.func \in Func /\ a = Called(a.func)
    /\ a.is = "routed" => a.func \in Func /\ a = Routed(a.func)
    /\ a.is = "ran" => /\ a.func \in Func /\ a.code \in {"old", "new", "should not reach here"}
                       /\ a = Ran(a.func, a.code)
<1> SUFFICES ASSUME NEW a \in Activity
             PROVE  /\ a.is \in {"idle", "called", "routed", "ran"}
                    /\ a.is = "idle" => a = Idle
                    /\ a.is = "called" => a.func \in Func /\ a = Called(a.func)
                    /\ a.is = "routed" => a.func \in Func /\ a = Routed(a.func)
                    /\ a.is = "ran" => /\ a.func \in Func
                                       /\ a.code \in {"old", "new", "should not reach here"}
                                       /\ a = Ran(a.func, a.code)
  OBVIOUS
<1>1. CASE a = Idle
  BY <1>1, ActivityKinds
<1>2. CASE a \in [is : {"called", "routed"}, func : Func]
  BY <1>2 DEF Called, Routed
<1>3. CASE a \in [is : {"ran"}, func : Func, code : {"old", "new", "should not reach here"}]
  BY <1>3 DEF Ran
<1> QED BY <1>1, <1>2, <1>3 DEF Activity

-----------------------------------------------------------------------------
(* What an operation of a package init does to the invariant                *)

LEMMA BodyHasShape ==
  CodeKnown /\ image \in Image => Shape(program, image, Body) /\ program \in Program
BY InitsHaveShape DEF CodeKnown, Body

\* Which operation the starting thread is at, and where.
LEMMA AtOpFacts ==
  ASSUME CodeKnown, FirstRuns, NEW name, AtOp(name)
  PROVE  /\ stores = <<>> /\ at[Main].is \notin {"called", "routed"}
         /\ pc \in {"test", "old entry", "init"} /\ i \in Nat
         /\ pc = "init" =>
              /\ 1 <= i /\ i <= InitLength(program)
              /\ name \in StoreOps <=> i = StoreAt(program)
              /\ name \in StoreOps => name = StoreOp(image)
              /\ name = Apply <=> program.literal /\ i = ApplyAt(program)
              /\ name = "run initializer" <=>
                   RunsAfter(program) < i /\ i <= RunsAfter(program) + Len(program.callee)
              /\ name = "run initializer" => Body.block[pc].code[i].arg = i - RunsAfter(program)
         /\ pc = "test" => image = "base" /\ (name \in {"load init flag", "not"} \/ (~program.literal /\ name = Apply))
         /\ pc = "old entry" => name = TestOp(image)
<1> DEFINE blk == Body.block[pc]
<1>1. Shape(program, image, Body) /\ program \in Program
  BY BodyHasShape DEF FirstRuns, StartTypes, BegunIsFlagged, FirstExecutes
<1>2. /\ stores = <<>> /\ at[Main].is \notin {"called", "routed"} /\ pc \in DOMAIN Body.block
      /\ i \in DOMAIN blk.code /\ blk.code[i].op = name
  BY DEF AtOp, InInit
<1>3. /\ pc \in {"none", "test", "old entry", "init", "exit"} /\ (pc = "test" => image = "base") /\ i \in Nat
  BY DEF FirstRuns, StartTypes, BegunIsFlagged, FirstExecutes
<1> HIDE DEF blk
<1>4. CASE pc = "init"
  <2>1. InitShape(program, image, blk)
    BY <1>1, <1>4 DEF Shape, blk
  <2>2. i \in 1..InitLength(program)
    BY <1>2, <2>1 DEF InitShape
  <2>3. 1 <= i /\ i <= InitLength(program)
    <3>1. InitLength(program) \in Nat
      BY <1>1, PositionTypes
    <3> QED BY <2>2, <3>1
  <2>4. /\ name \in StoreOps <=> i = StoreAt(program)
        /\ name \in StoreOps => name = StoreOp(image)
        /\ name = Apply <=> program.literal /\ i = ApplyAt(program)
        /\ name = "run initializer" <=>
             RunsAfter(program) < i /\ i <= RunsAfter(program) + Len(program.callee)
        /\ name = "run initializer" => blk.code[i].arg = i - RunsAfter(program)
    BY <1>2, <2>1, <2>2 DEF InitShape
  <2> QED BY <1>2, <1>3, <1>4, <2>3, <2>4 DEF blk
<1>5. CASE pc = "test"
  <2>1. GuardShape(program, blk)
    BY <1>1, <1>3, <1>5 DEF Shape, blk
  <2> QED BY <1>2, <1>3, <1>5, <2>1 DEF GuardShape
<1>6. CASE pc = "old entry"
  <2>1. TestShape(image, blk)
    BY <1>1, <1>6 DEF Shape, blk
  <2>2. i = 1 /\ blk.code[1].op = TestOp(image)
    BY <1>2, <2>1 DEF TestShape, Op
  <2> QED BY <1>2, <1>3, <1>6, <2>2
<1>7. CASE pc = "exit"
  <2>1. blk = Block(<<>>, <<>>)
    BY <1>1, <1>7 DEF Shape, blk
  <2>2. DOMAIN blk.code = {}
    BY <2>1 DEF Block
  <2> QED BY <1>2, <2>2
<1>8. CASE pc = "none"
  BY <1>1, <1>2, <1>8 DEF Shape
<1> QED BY <1>3, <1>4, <1>5, <1>6, <1>7, <1>8

\* Where a block of a package init ends.
LEMMA EndOfBlockFacts ==
  ASSUME CodeKnown, FirstRuns, EndOfBlock
  PROVE  /\ stores = <<>> /\ pc \in {"test", "old entry", "init", "exit"} /\ i' = 1
         /\ pc = "test" => pc' = "old entry"
         /\ pc = "old entry" => pc' = IF applied["base"] THEN "exit" ELSE "init"
         /\ pc = "init" => i = InitLength(program) + 1 /\ pc' = "exit"
         /\ pc = "exit" => pc' = "none"
<1> DEFINE blk == Body.block[pc]
           own == IF \E k \in DOMAIN blk.code : blk.code[k] = Op("get base's applied") THEN "base" ELSE image
           negated == \E k \in DOMAIN blk.code : blk.code[k] = Op("not")
           tested == IF negated THEN TRUE ELSE applied[own]
<1>1. Shape(program, image, Body) /\ program \in Program
  BY BodyHasShape DEF FirstRuns, StartTypes, BegunIsFlagged, FirstExecutes
<1>2. stores = <<>> /\ pc \in DOMAIN Body.block /\ i > Len(blk.code) /\ i' = 1
  BY DEF EndOfBlock, InInit
<1>3. pc' = IF blk.to = <<>> THEN "none" ELSE blk.to[IF Len(blk.to) = 2 /\ ~tested THEN 2 ELSE 1]
  BY DEF EndOfBlock
<1>4. /\ pc \in {"none", "test", "old entry", "init", "exit"} /\ (pc = "test" => image = "base")
      /\ i \in Nat /\ image \in Image /\ (pc = "init" => i <= InitLength(program) + 1)
  BY DEF FirstRuns, StartTypes, BegunIsFlagged, FirstExecutes
<1>5. \A t : Len(t) \in {1, 2} => t # <<>>
  OBVIOUS
<1> HIDE DEF blk, tested, own, negated
<1>6. CASE pc = "test"
  <2>1. GuardShape(program, blk)
    BY <1>1, <1>4, <1>6 DEF Shape, blk
  <2>2. tested
    BY <2>1 DEF GuardShape, tested, negated
  <2>3. Len(blk.to) = 2 /\ blk.to[1] = "old entry"
    BY <2>1 DEF GuardShape
  <2>4. blk.to # <<>>
    <3>1. Len(blk.to) = 2
      BY <2>3
    <3> QED BY <1>5, <3>1
  <2>5. pc' = "old entry"
    BY <1>3, <2>2, <2>3, <2>4
  <2> QED BY <1>2, <1>6, <2>5
<1>7. CASE pc = "old entry"
  <2>1. TestShape(image, blk)
    BY <1>1, <1>7 DEF Shape, blk
  <2>2. DOMAIN blk.code = {1} /\ blk.code[1] = Op(TestOp(image))
    BY <2>1 DEF TestShape
  <2>3. Op(TestOp(image)) # Op("not")
    BY DEF Op, TestOp
  <2>4. Op(TestOp(image)) = Op("get base's applied") <=> image # "base"
    BY <1>4 DEF Op, TestOp, Image
  <2>5. ~negated /\ own = "base"
    BY <1>4, <2>2, <2>3, <2>4 DEF Image, negated, own
  <2>6. tested = applied["base"]
    BY <2>5 DEF tested
  <2>7. Len(blk.to) = 2 /\ blk.to[1] = "exit" /\ blk.to[2] = "init"
    BY <2>1 DEF TestShape
  <2>8. blk.to # <<>>
    <3>1. Len(blk.to) = 2
      BY <2>7
    <3> QED BY <1>5, <3>1
  <2>9. pc' = IF applied["base"] THEN "exit" ELSE "init"
    BY <1>3, <2>6, <2>7, <2>8
  <2> QED BY <1>2, <1>7, <2>9
<1>8. CASE pc = "init"
  <2>1. InitShape(program, image, blk)
    BY <1>1, <1>8 DEF Shape, blk
  <2>2. Len(blk.to) = 1 /\ blk.to[1] = "exit" /\ Len(blk.code) = InitLength(program)
    BY <2>1 DEF InitShape
  <2>3. i = InitLength(program) + 1
    BY <1>1, <1>2, <1>4, <1>8, <2>2, PositionTypes
  <2> QED BY <1>2, <1>3, <1>5, <1>8, <2>2, <2>3
<1>9. CASE pc = "exit"
  <2>1. blk = Block(<<>>, <<>>)
    BY <1>1, <1>9 DEF Shape, blk
  <2>2. blk.to = <<>>
    BY <2>1 DEF Block
  <2>3. pc' = "none"
    BY <1>3, <2>2
  <2> QED BY <1>2, <1>9, <2>3
<1>10. CASE pc = "none"
  BY <1>1, <1>2, <1>10 DEF Shape
<1> QED BY <1>4, <1>6, <1>7, <1>8, <1>9, <1>10

\* A step of the starting thread that neither stores, applies nor runs an initialiser.
Quiet == UNCHANGED <<program, code, flag, guardVar, stores, runs, spawned, at>>
Passes ==
  /\ ~(program.literal /\ Position = ApplyAt(program))
  /\ ~(RunsAfter(program) < Position /\ Position <= RunsAfter(program) + Len(program.callee))

LEMMA PositionInteger ==
  ASSUME CodeKnown, FirstRuns
  PROVE  /\ program \in Program /\ Position \in Nat /\ Position >= 1
         /\ Position <= InitLength(program) + 1
         /\ applied["base"] <=> Position > StoreAt(program)
<1>1. /\ program \in Program /\ i \in Nat \ {0} /\ applied \in [Image -> BOOLEAN]
      /\ pc = "init" => i <= InitLength(program) + 1 /\ (applied["base"] <=> i > StoreAt(program))
  BY DEF CodeKnown, FirstRuns, StartTypes, BegunIsFlagged
<1>2. /\ InitLength(program) \in Nat /\ StoreAt(program) \in 1..2 /\ RunsAfter(program) \in Nat
      /\ RunsAfter(program) > StoreAt(program) /\ Len(program.callee) \in Nat
      /\ InitLength(program) >= RunsAfter(program) + Len(program.callee)
  BY <1>1, PositionTypes
<1>3. applied["base"] \in BOOLEAN
  BY <1>1 DEF Image
<1> QED BY <1>1, <1>2, <1>3 DEF Position

LEMMA RunsWhileQuiet ==
  ASSUME CodeKnown, FirstRuns, RunsCounted, program' = program, runs' = runs,
         \/ Position' = Position
         \/ /\ Position' = Position + 1
            /\ ~(RunsAfter(program) < Position /\ Position <= RunsAfter(program) + Len(program.callee))
  PROVE  RunsCounted'
<1> DEFINE p == program
           n == Len(p.callee)
           R == RunsAfter(p)
           P == Position
           PP == Position'
<1>1. p \in Program /\ P \in Nat
  BY PositionInteger
<1>2. n \in Nat /\ R \in Nat /\ DOMAIN p.callee = 1..n
  BY <1>1, PositionTypes, ProgramTypes
<1>3. PP = P \/ (PP = P + 1 /\ ~(R < P /\ P <= R + n))
  OBVIOUS
<1>4. runs = [k \in DOMAIN p.callee |-> IF R + k < P THEN 1 ELSE 0]
  BY DEF RunsCounted
<1>5. RunsCounted' <=> runs' = [k \in DOMAIN p.callee |-> IF R + k < PP THEN 1 ELSE 0]
  BY DEF RunsCounted
<1> HIDE DEF p, n, R, P, PP
<1>6. \A k \in 1..n : R + k < P <=> R + k < PP
  BY <1>1, <1>2, <1>3
<1>7. [k \in 1..n |-> IF R + k < P THEN 1 ELSE 0] = [k \in 1..n |-> IF R + k < PP THEN 1 ELSE 0]
  BY <1>6
<1> QED BY <1>2, <1>4, <1>5, <1>7

LEMMA AppliedWhileQuiet ==
  ASSUME CodeKnown, FirstRuns, program' = program,
         Position' = Position \/ (Position' = Position + 1 /\ ~(program.literal /\ Position = ApplyAt(program)))
  PROVE  Applied' <=> Applied
<1>1. program \in Program /\ Position \in Nat
  BY PositionInteger
<1>2. ApplyAt(program) \in Nat
  BY <1>1, PositionTypes
<1>3. Applied <=> program.literal /\ Position > ApplyAt(program)
  BY DEF Applied
<1>4. Applied' <=> program.literal /\ Position' > ApplyAt(program)
  BY DEF Applied
<1> QED BY <1>1, <1>2, <1>3, <1>4

LEMMA CallsWhileQuiet ==
  ASSUME CallsComeLater, InitialisersArePatched, Quiet, Applied' <=> Applied
  PROVE  CallsComeLater' /\ InitialisersArePatched'
BY DEF CallsComeLater, InitialisersArePatched, Quiet

LEMMA StoresWhileQuiet ==
  ASSUME StoresInOrder, stores = <<>>, Applied' <=> Applied,
         UNCHANGED <<program, flag, guardVar, stores>>
  PROVE  StoresInOrder'
<1>1. FirstStores' = FirstStores
  BY DEF FirstStores
<1> QED BY <1>1 DEF StoresInOrder

LEMMA QuietStep ==
  ASSUME RuntimeInv, Quiet, stores = <<>>,
         Position' = Position \/ (Position' = Position + 1 /\ Passes)
  PROVE  CodeKnown' /\ RunsCounted' /\ StoresInOrder' /\ CallsComeLater' /\ InitialisersArePatched'
<1>1. CodeKnown /\ FirstRuns /\ RunsCounted /\ StoresInOrder /\ CallsComeLater /\ InitialisersArePatched
  BY DEF RuntimeInv
<1>2. program' = program /\ code' = code /\ runs' = runs
  BY DEF Quiet
<1>3. CodeKnown'
  BY <1>1, <1>2 DEF CodeKnown
<1>4. RunsCounted'
  BY <1>1, <1>2, RunsWhileQuiet DEF Passes
<1>5. Applied' <=> Applied
  BY <1>1, <1>2, AppliedWhileQuiet DEF Passes
<1>6. StoresInOrder' /\ CallsComeLater' /\ InitialisersArePatched'
  BY <1>1, <1>5, StoresWhileQuiet, CallsWhileQuiet DEF Quiet
<1> QED BY <1>3, <1>4, <1>6

LEMMA CallInitStep ==
  ASSUME RuntimeInv, CallInit
  PROVE  RuntimeInv'
<1>1. CodeKnown /\ FirstRuns
  BY DEF RuntimeInv
<1>2. /\ pc = "none" /\ schedule # <<>> /\ stores = <<>> /\ i' = 1
      /\ image' = Head(schedule) /\ schedule' = Tail(schedule)
      /\ pc' = code[Head(schedule)].entry /\ Quiet /\ applied' = applied
  BY DEF CallInit, Quiet
<1>3. schedule \in Seq(Image)
  BY <1>1 DEF FirstRuns, StartTypes, BegunIsFlagged, FirstExecutes
<1>4. image' \in Image /\ schedule' \in Seq(Image)
  BY <1>2, <1>3, HeadTailProperties
<1>5. pc' = IF image' = "base" THEN "test" ELSE "old entry"
  <2>1. code[image'] = InitOf(program, image') /\ program \in Program
    BY <1>1, <1>4 DEF CodeKnown
  <2>2. Shape(program, image', code[image'])
    BY <1>4, <2>1, InitsHaveShape
  <2> QED BY <1>2, <2>2 DEF Shape
<1>6. Position' = Position
  BY <1>2, <1>5 DEF Position, Quiet
<1>7. FirstRuns'
  <2>1. applied["base"] => program.schedule # <<>>
    BY <1>1 DEF FirstRuns, StartTypes, BegunIsFlagged, FirstExecutes
  <2>2. ~applied["base"] => schedule = program.schedule
    BY <1>1, <1>2 DEF FirstRuns, StartTypes, BegunIsFlagged, FirstExecutes
  <2>3. Head(schedule) = schedule[1]
    BY <1>2, <1>3
  <2>4. program' = program
    BY <1>2 DEF Quiet
  <2>5. StartTypes'
    <3>1. pc' \in {"none", "test", "old entry", "init", "exit"} /\ (pc' = "test" => image' = "base")
      BY <1>5
    <3>2. i' \in Nat \ {0}
      BY <1>2
    <3>3. applied' \in [Image -> BOOLEAN]
      BY <1>1, <1>2 DEF FirstRuns, StartTypes
    <3> QED BY <1>4, <3>1, <3>2, <3>3 DEF StartTypes
  <2>6. BegunIsFlagged'
    BY <1>5 DEF BegunIsFlagged
  <2>7. FirstExecutes'
    BY <1>2, <1>5, <2>1, <2>2, <2>3, <2>4 DEF FirstExecutes
  <2> QED BY <2>5, <2>6, <2>7 DEF FirstRuns
<1> QED BY <1>2, <1>6, <1>7, QuietStep DEF RuntimeInv

LEMMA EndOfBlockStep ==
  ASSUME RuntimeInv, EndOfBlock
  PROVE  RuntimeInv'
<1>1. CodeKnown /\ FirstRuns
  BY DEF RuntimeInv
<1>2. /\ stores = <<>> /\ pc \in {"test", "old entry", "init", "exit"} /\ i' = 1
      /\ pc = "test" => pc' = "old entry"
      /\ pc = "old entry" => pc' = IF applied["base"] THEN "exit" ELSE "init"
      /\ pc = "init" => i = InitLength(program) + 1 /\ pc' = "exit"
      /\ pc = "exit" => pc' = "none"
  BY <1>1, EndOfBlockFacts
<1>3. Quiet /\ schedule' = schedule /\ image' = image /\ applied' = applied
  BY DEF EndOfBlock, Quiet
<1>4. program' = program
  BY <1>3 DEF Quiet
<1>5. applied["base"] \in BOOLEAN /\ (pc = "exit" => applied["base"])
  BY <1>1 DEF FirstRuns, StartTypes, BegunIsFlagged, Image
<1>6. pc = "init" => applied["base"]
  <2> SUFFICES ASSUME pc = "init" PROVE applied["base"]
    OBVIOUS
  <2>1. Position = InitLength(program) + 1
    BY <1>2 DEF Position
  <2>2. program \in Program /\ (applied["base"] <=> Position > StoreAt(program))
    BY <1>1, PositionInteger
  <2>3. /\ InitLength(program) \in Nat /\ StoreAt(program) \in 1..2 /\ RunsAfter(program) \in Nat
        /\ RunsAfter(program) > StoreAt(program) /\ Len(program.callee) \in Nat
        /\ InitLength(program) >= RunsAfter(program) + Len(program.callee)
    BY <2>2, PositionTypes
  <2>4. InitLength(program) + 1 > StoreAt(program)
    BY <2>3
  <2> QED BY <2>1, <2>2, <2>4
<1>7. Position' = Position
  BY <1>2, <1>3, <1>4, <1>5, <1>6 DEF Position
<1>8. FirstRuns'
  <2>1. program \in Program /\ StoreAt(program) \in 1..2 /\ InitLength(program) \in Nat
    BY <1>1, PositionTypes DEF CodeKnown
  <2>2. 1 <= InitLength(program) + 1 /\ ~(1 > StoreAt(program))
    BY <2>1
  <2>3. StartTypes'
    <3>1. pc' \in {"none", "old entry", "init", "exit"}
      BY <1>2
    <3>2. i' \in Nat \ {0}
      <4>1. i' = 1
        BY <1>2
      <4> QED BY <4>1
    <3>3. schedule' \in Seq(Image) /\ image' \in Image /\ applied' \in [Image -> BOOLEAN]
      BY <1>1, <1>3 DEF FirstRuns, StartTypes
    <3> QED BY <3>1, <3>2, <3>3 DEF StartTypes
  <2>4. BegunIsFlagged'
    BY <1>2, <1>3, <1>4, <1>5, <1>6, <2>2 DEF BegunIsFlagged
  <2>5. FirstExecutes'
    BY <1>1, <1>2, <1>3, <1>4, <1>5, <1>6 DEF FirstRuns, FirstExecutes
  <2> QED BY <2>3, <2>4, <2>5 DEF FirstRuns
<1> QED BY <1>2, <1>3, <1>7, <1>8, QuietStep DEF RuntimeInv

\* The operations that advance: in the initialisers' block, the position does too.
LEMMA NextPosition == \A x, n \in Nat : x + 1 \in Nat \ {0} /\ (x <= n => x + 1 <= n + 1)
OBVIOUS

LEMMA AfterNext == \A x \in Nat, n \in 1..2 : x # n => (x + 1 > n <=> x > n)
OBVIOUS

LEMMA AdvanceTypes ==
  ASSUME RuntimeInv, Advance, pc \in {"test", "old entry", "init"},
         pc = "init" => i <= InitLength(program)
  PROVE  /\ i' = i + 1 /\ i' \in Nat \ {0} /\ schedule' = schedule /\ image' = image /\ pc' = pc
         /\ pc' = "init" => i' <= InitLength(program) + 1
<1>1. i \in Nat /\ program \in Program
  BY DEF RuntimeInv, FirstRuns, StartTypes, CodeKnown
<1>2. InitLength(program) \in Nat
  BY <1>1, PositionTypes
<1>3. i' = i + 1 /\ schedule' = schedule /\ image' = image /\ pc' = pc
  BY DEF Advance
<1>4. i' \in Nat \ {0}
  BY <1>1, <1>3, NextPosition
<1>5. i <= InitLength(program) => i' <= InitLength(program) + 1
  BY <1>1, <1>2, <1>3, NextPosition
<1> QED BY <1>3, <1>4, <1>5

\* All but the store of "applied" leave the flag alone.
LEMMA FirstRunsAdvance ==
  ASSUME RuntimeInv, Advance, applied' = applied, program' = program, pc \in {"test", "old entry", "init"},
         pc = "init" => i <= InitLength(program) /\ i # StoreAt(program)
  PROVE  /\ FirstRuns' /\ i \in Nat /\ i' = i + 1 /\ pc' = pc
         /\ pc = "init" => Position = i /\ Position' = i + 1
         /\ pc # "init" => Position' = Position
<1>1. CodeKnown /\ FirstRuns /\ program \in Program
  BY DEF RuntimeInv, CodeKnown
<1>2. /\ i' = i + 1 /\ i' \in Nat \ {0} /\ schedule' = schedule /\ image' = image /\ pc' = pc
      /\ pc' = "init" => i' <= InitLength(program) + 1
  BY AdvanceTypes
<1>3. i \in Nat
  BY <1>1 DEF FirstRuns, StartTypes
<1>4. StartTypes'
  BY <1>1, <1>2 DEF FirstRuns, StartTypes
<1>5. i # StoreAt(program) => (i' > StoreAt(program) <=> i > StoreAt(program))
  BY <1>1, <1>2, <1>3, PositionTypes, AfterNext
<1>6. BegunIsFlagged'
  <2>1. pc = "init" => (applied["base"] <=> i > StoreAt(program))
    BY <1>1 DEF FirstRuns, BegunIsFlagged
  <2>2. pc' # "exit"
    BY <1>2
  <2> QED BY <1>2, <1>5, <2>1, <2>2 DEF BegunIsFlagged
<1>7. FirstExecutes'
  BY <1>1, <1>2 DEF FirstRuns, FirstExecutes
<1> QED BY <1>2, <1>3, <1>4, <1>6, <1>7 DEF FirstRuns, Position

LEMMA StoreAppliedStep ==
  ASSUME RuntimeInv, StoreApplied
  PROVE  RuntimeInv'
<1>1. CodeKnown /\ FirstRuns
  BY DEF RuntimeInv
<1>2. PICK name \in StoreOps :
        /\ AtOp(name)
        /\ applied' = [applied EXCEPT ![IF name = "store applied" THEN image ELSE "base"] = TRUE]
  BY DEF StoreApplied, StoreOps
<1>3. Advance /\ Quiet
  BY DEF StoreApplied, Quiet
<1>4. pc = "init"
  BY <1>1, <1>2, AtOpFacts DEF StoreOps, TestOp, Apply
<1>5. /\ stores = <<>> /\ i \in Nat /\ i <= InitLength(program) /\ i = StoreAt(program)
      /\ name = StoreOp(image)
  BY <1>1, <1>2, <1>4, AtOpFacts
<1>6. applied' = [applied EXCEPT !["base"] = TRUE]
  BY <1>2, <1>5 DEF StoreOp
<1>7. /\ i' = i + 1 /\ i' \in Nat \ {0} /\ schedule' = schedule /\ image' = image /\ pc' = pc
      /\ i' <= InitLength(program) + 1
  BY <1>3, <1>4, <1>5, AdvanceTypes
<1>8. program \in Program /\ program' = program
  BY <1>1, <1>3 DEF CodeKnown, Quiet
<1>9. /\ StoreAt(program) \in 1..2 /\ RunsAfter(program) \in 2..5 /\ RunsAfter(program) > StoreAt(program)
      /\ ApplyAt(program) \in Nat /\ InitLength(program) \in Nat
      /\ program.literal => ApplyAt(program) \in StoreAt(program) + 1 .. InitLength(program)
  BY <1>8, PositionTypes
<1>10. Position = i /\ Position' = Position + 1
  BY <1>4, <1>7, <1>8 DEF Position
<1>11. Passes
  <2>1. program.literal => i # ApplyAt(program)
    BY <1>5, <1>9
  <2>2. ~(RunsAfter(program) < i)
    BY <1>5, <1>9
  <2> QED BY <1>10, <2>1, <2>2 DEF Passes
<1>12. FirstRuns'
  <2>1. StartTypes'
    BY <1>1, <1>4, <1>6, <1>7 DEF FirstRuns, StartTypes, Image
  <2>2. applied'["base"] = TRUE
    BY <1>1, <1>6 DEF FirstRuns, StartTypes, Image
  <2>3. i' > StoreAt(program)
    BY <1>5, <1>7, <1>9
  <2>4. BegunIsFlagged'
    BY <1>4, <1>7, <1>8, <2>2, <2>3 DEF BegunIsFlagged
  <2>5. FirstExecutes'
    BY <1>1, <1>4, <1>7, <1>8, <2>2 DEF FirstRuns, FirstExecutes
  <2> QED BY <2>1, <2>4, <2>5 DEF FirstRuns
<1> QED BY <1>3, <1>5, <1>10, <1>11, <1>12, QuietStep DEF RuntimeInv

OtherOps == {"load applied", "get base's applied", "load init flag", "not", "constant true",
             "init dependencies", "preinitialize"}

LEMMA OtherOpStep ==
  ASSUME RuntimeInv, OtherOp
  PROVE  RuntimeInv'
<1>1. CodeKnown /\ FirstRuns
  BY DEF RuntimeInv
<1>2. PICK name \in OtherOps : AtOp(name)
  BY DEF OtherOp, OtherOps
<1>3. Advance /\ Quiet /\ applied' = applied
  BY DEF OtherOp, Quiet
<1>4. stores = <<>> /\ pc \in {"test", "old entry", "init"} /\ i \in Nat
  BY <1>1, <1>2, AtOpFacts
<1>5. pc = "init" => /\ 1 <= i /\ i <= InitLength(program) /\ i # StoreAt(program)
                     /\ ~(program.literal /\ i = ApplyAt(program))
                     /\ ~(RunsAfter(program) < i /\ i <= RunsAfter(program) + Len(program.callee))
  BY <1>1, <1>2, AtOpFacts DEF OtherOps, StoreOps, Apply
<1>6. program' = program
  BY <1>3 DEF Quiet
<1>7. /\ FirstRuns' /\ (pc = "init" => Position = i /\ Position' = i + 1)
      /\ pc # "init" => Position' = Position
  BY <1>3, <1>4, <1>5, <1>6, FirstRunsAdvance
<1>8. Position' = Position \/ (Position' = Position + 1 /\ Passes)
  BY <1>5, <1>7 DEF Passes
<1> QED BY <1>3, <1>4, <1>7, <1>8, QuietStep DEF RuntimeInv

\* The guard variables' initialiser is applied where nothing has been stored or called
\* yet: by the image that executes the initialisers, or, without the literal, at each
\* start of the base's guard.
LEMMA FlagsOff ==
  StoresInOrder /\ ~Applied => guardVar = "None" /\ \A f \in Func : ~flag[f]
BY DEF StoresInOrder

LEMMA ApplyStep ==
  ASSUME RuntimeInv, ApplyGuardVarsInitializer
  PROVE  RuntimeInv'
<1>1. CodeKnown /\ FirstRuns /\ RunsCounted /\ StoresInOrder /\ CallsComeLater /\ InitialisersArePatched
  BY DEF RuntimeInv
<1>2. AtOp(Apply) /\ Advance
  BY DEF ApplyGuardVarsInitializer, Apply
<1>3. /\ stores' = GuardVarsInitializer(program, image)
      /\ UNCHANGED <<program, code, applied, flag, guardVar, runs, spawned, at>>
  BY DEF ApplyGuardVarsInitializer
<1>4. /\ stores = <<>> /\ at[Main].is \notin {"called", "routed"} /\ i \in Nat
      /\ pc \in {"test", "init"} /\ (pc = "test" => ~program.literal /\ image = "base")
  <2>1. Apply \notin {"load init flag", "not"} /\ Apply # TestOp(image)
    BY DEF Apply, TestOp
  <2> QED BY <1>1, <1>2, <2>1, AtOpFacts
<1>5. pc = "init" => /\ 1 <= i /\ i <= InitLength(program) /\ i # StoreAt(program)
                     /\ program.literal /\ i = ApplyAt(program)
                     /\ ~(RunsAfter(program) < i /\ i <= RunsAfter(program) + Len(program.callee))
  BY <1>1, <1>2, AtOpFacts DEF StoreOps, Apply
<1>6. program \in Program /\ program' = program /\ image \in Image /\ schedule' = schedule /\ image' = image
  BY <1>1, <1>2, <1>3 DEF CodeKnown, FirstRuns, StartTypes, Advance
<1>7. /\ FirstRuns' /\ i' = i + 1 /\ pc' = pc
      /\ pc = "init" => Position = i /\ Position' = i + 1
      /\ pc = "test" => Position' = Position
  BY <1>2, <1>3, <1>4, <1>5, <1>6, FirstRunsAdvance
<1>8. CodeKnown'
  BY <1>1, <1>3 DEF CodeKnown
<1>9. RunsCounted'
  BY <1>1, <1>3, <1>4, <1>5, <1>6, <1>7, RunsWhileQuiet
<1>10. InitialisersArePatched'
  BY <1>1, <1>3 DEF InitialisersArePatched
<1>11. CASE pc = "init"
  <2> DEFINE G == FirstStores
  <2>1. program.schedule # <<>> /\ image = program.schedule[1]
    BY <1>1, <1>11 DEF FirstRuns, FirstExecutes
  <2>2. stores' = G /\ G' = G
    BY <1>3, <1>6, <2>1 DEF FirstStores
  <2>3. G \in Seq(StoreSet) /\ Len(G) \in Nat /\ Len(G) >= 1
    BY <1>6, <2>1, StoresShape, LenProperties DEF FirstStores
  <2> HIDE DEF G
  <2>4. Len(G) - Len(G) = 0 /\ Len(G) - Len(G) + 1 = 1 /\ 1..0 = {} /\ G # <<>>
    BY <2>3
  <2>5. G = SubSeq(G, 1, Len(G))
    BY <2>3, SubSeqFull
  <2>6. ~Applied /\ Applied'
    <3>1. ApplyAt(program) \in Nat
      BY <1>6, PositionTypes
    <3>2. Position = ApplyAt(program) /\ Position' = ApplyAt(program) + 1
      BY <1>5, <1>7, <1>11
    <3>3. Applied <=> program.literal /\ Position > ApplyAt(program)
      BY DEF Applied
    <3>4. Applied' <=> program.literal /\ Position' > ApplyAt(program)
      BY <1>6 DEF Applied
    <3> QED BY <1>5, <1>11, <3>1, <3>2, <3>3, <3>4
  <2>7. guardVar' = "None" /\ flag' = flag /\ \A f \in Func : ~flag[f]
    BY <1>1, <1>3, <2>6, FlagsOff
  <2>8. StoresInOrder'
    <3>1. flag' \in [Func -> BOOLEAN]
      BY <1>1, <1>3 DEF StoresInOrder
    <3>2. pc' = "init" /\ i' = ApplyAt(program) + 1
      BY <1>5, <1>7, <1>11
    <3>3. Len(G) \in 0..Len(G)
      BY <2>3
    <3>4. \A f \in Func : ~\E k \in 1..Len(G) - Len(G) : G[k] = Flag(f)
      BY <2>4
    <3>5. stores' # <<>>
      BY <2>2, <2>4
    <3> QED BY <1>6, <2>2, <2>4, <2>5, <2>6, <2>7, <3>1, <3>2, <3>3, <3>4, <3>5 DEF StoresInOrder, G
  <2>9. CallsComeLater'
    BY <1>1, <1>3, <1>4, <2>1, <2>6 DEF CallsComeLater
  <2> QED BY <1>8, <1>7, <1>9, <1>10, <2>8, <2>9 DEF RuntimeInv
<1>12. CASE pc = "test"
  <2>1. ~Applied /\ ~Applied' /\ ~program.literal
    BY <1>4, <1>6, <1>12 DEF Applied
  <2>2. stores' = <<None>>
    BY <1>3, <1>4, <1>12 DEF GuardVarsInitializer
  <2>3. guardVar' = "None" /\ flag' = flag /\ \A f \in Func : ~flag[f]
    BY <1>1, <1>3, <2>1, FlagsOff
  <2>4. flag' \in [Func -> BOOLEAN]
    BY <1>1, <1>3 DEF StoresInOrder
  <2>5. StoresInOrder'
    BY <1>7, <1>6, <1>12, <2>1, <2>2, <2>3, <2>4 DEF StoresInOrder
  <2>6. CallsComeLater'
    BY <1>1, <1>3, <1>4, <1>6, <2>1 DEF CallsComeLater, Marked
  <2> QED BY <1>8, <1>7, <1>9, <1>10, <2>5, <2>6 DEF RuntimeInv
<1> QED BY <1>4, <1>11, <1>12

\* The stores are executed from the front.
LEMMA SuffixStep ==
  ASSUME NEW S, NEW G \in Seq(S), NEW q, q # <<>>, Len(q) \in 0..Len(G),
         q = SubSeq(G, Len(G) - Len(q) + 1, Len(G))
  PROVE  LET d == Len(G) - Len(q)
         IN  /\ d \in 0..Len(G) - 1 /\ d + 1 \in 1..Len(G)
             /\ Head(q) = G[d + 1] /\ Tail(q) = SubSeq(G, d + 1 + 1, Len(G))
             /\ Len(Tail(q)) = Len(q) - 1 /\ Len(Tail(q)) \in 0..Len(G)
             /\ Len(G) - Len(Tail(q)) = d + 1
             /\ Tail(q) = <<>> <=> d + 1 = Len(G)
<1> DEFINE n == Len(G)
           l == Len(q)
           d == n - l
<1>1. n \in Nat /\ l \in 0..n
  BY LenProperties
<1>2. q = SubSeq(G, d + 1, n)
  OBVIOUS
<1>3. l # 0
  <2> SUFFICES ASSUME l = 0 PROVE FALSE
    OBVIOUS
  <2>1. d + 1 \in Int /\ n \in Int /\ n < d + 1
    BY <1>1
  <2>2. q = <<>>
    BY <1>2, <2>1, SubSeqEmpty
  <2> QED BY <2>2
<1>4. d \in 0..n - 1 /\ d + 1 \in 1..n /\ n \in d + 1 .. n
  BY <1>1, <1>3
<1>5. Head(q) = G[d + 1] /\ Tail(q) = SubSeq(G, d + 1 + 1, n)
  BY <1>2, <1>4, HeadTailOfSubSeq
<1>6. q \in Seq(S)
  <2>1. d + 1 \in Int /\ n \in Int
    BY <1>4
  <2>2. \A j \in d + 1 .. n : G[j] \in S
    <3> HIDE DEF d
    <3>1. \A j \in 1..n : G[j] \in S
      OBVIOUS
    <3> QED BY <1>4, <3>1
  <2>3. SubSeq(G, d + 1, n) \in Seq(S)
    <3> HIDE DEF d, n
    <3> QED BY <2>1, <2>2, SubSeqProperties
  <2> QED BY <1>2, <2>3
<1>7. Len(Tail(q)) = l - 1 /\ Tail(q) \in Seq(S)
  BY <1>6, HeadTailProperties
<1>8. l - 1 \in 0..n /\ n - (l - 1) = d + 1 /\ (l - 1 = 0 <=> d + 1 = n)
  <2>1. d = n - l
    OBVIOUS
  <2> HIDE DEF d, l, n
  <2> QED BY <1>1, <1>3, <2>1
<1>9. Tail(q) = <<>> <=> l - 1 = 0
  BY <1>7, EmptySeq
<1> QED BY <1>4, <1>5, <1>7, <1>8, <1>9

LEMMA PrefixGrows ==
  \A G : \A d \in Nat : \A x :
    (\E k \in 1..d + 1 : G[k] = x) <=> (\E k \in 1..d : G[k] = x) \/ G[d + 1] = x
<1> SUFFICES ASSUME NEW G, NEW d \in Nat, NEW x
             PROVE  (\E k \in 1..d + 1 : G[k] = x) <=> (\E k \in 1..d : G[k] = x) \/ G[d + 1] = x
  OBVIOUS
<1>1. 1..d + 1 = (1..d) \cup {d + 1}
  OBVIOUS
<1> QED BY <1>1

\* A store is the first of those left; the flags are on one by one, the instance last.
LEMMA StoreMovesOn ==
  ASSUME RuntimeInv, Store, Applied, Applied', program' = program
  PROVE  LET G == FirstStores
         IN  /\ Len(stores') \in 0..Len(G)
             /\ stores' = SubSeq(G, Len(G) - Len(stores') + 1, Len(G))
             /\ flag' \in [Func -> BOOLEAN]
             /\ \A f \in Func : flag'[f] <=> \E k \in 1..Len(G) - Len(stores') : G[k] = Flag(f)
             /\ guardVar' = IF stores' = <<>> /\ Len(G) > 1 THEN "instance" ELSE "None"
<1> DEFINE G == FirstStores
           s == Head(stores)
           d == Len(G) - Len(stores)
           k0 == d + 1
<1>1. CodeKnown /\ FirstRuns /\ StoresInOrder
  BY DEF RuntimeInv
<1>2. /\ stores # <<>> /\ stores' = Tail(stores)
      /\ IF s.store = "flag" THEN flag' = [flag EXCEPT ![s.func] = TRUE] /\ guardVar' = guardVar
         ELSE guardVar' = s.store /\ flag' = flag
  BY DEF Store
<1>3. program \in Program /\ program.schedule # <<>> /\ program.schedule[1] \in Image
  <2>1. program \in Program /\ pc = "init"
    BY <1>1, <1>2 DEF CodeKnown, StoresInOrder
  <2>2. program.schedule # <<>> /\ image = program.schedule[1] /\ image \in Image
    BY <1>1, <2>1 DEF FirstRuns, FirstExecutes, StartTypes
  <2> QED BY <2>1, <2>2
<1>4. /\ G \in Seq(StoreSet) /\ Len(G) >= 1 /\ G[1] = None
      /\ Len(G) > 1 => G[Len(G)] = Instance
      /\ \A k \in 2..Len(G) - 1 : \E f \in program.changed : G[k] = Flag(f)
  BY <1>3, StoresShape DEF FirstStores
<1>5. program.changed \subseteq Func
  BY <1>3, ProgramTypes
<1>6. /\ Len(stores) \in 0..Len(G) /\ stores = SubSeq(G, Len(G) - Len(stores) + 1, Len(G))
      /\ flag \in [Func -> BOOLEAN] /\ guardVar = "None"
      /\ \A f \in Func : flag[f] <=> \E k \in 1..d : G[k] = Flag(f)
  BY <1>1, <1>2 DEF StoresInOrder
<1> HIDE DEF G
<1>7. /\ d \in 0..Len(G) - 1 /\ k0 \in 1..Len(G)
      /\ s = G[k0] /\ Len(stores') \in 0..Len(G)
      /\ stores' = SubSeq(G, k0 + 1, Len(G))
      /\ Len(G) - Len(stores') = k0 /\ (stores' = <<>> <=> k0 = Len(G))
  BY <1>2, <1>4, <1>6, SuffixStep
<1>8. Len(G) \in Nat /\ d \in Nat /\ k0 \in Nat
  BY <1>4, <1>7, LenProperties
<1>9. \A x : (\E k \in 1..k0 : G[k] = x) <=> (\E k \in 1..d : G[k] = x) \/ G[k0] = x
  BY <1>8, PrefixGrows
<1>10. /\ flag' \in [Func -> BOOLEAN]
       /\ \A f \in Func : flag'[f] <=> flag[f] \/ G[k0] = Flag(f)
       /\ guardVar' = IF k0 = Len(G) /\ Len(G) > 1 THEN "instance" ELSE "None"
  <2>1. k0 = 1 \/ (k0 = Len(G) /\ Len(G) > 1) \/ (k0 \in 2..Len(G) - 1 /\ k0 # Len(G))
    <3> HIDE DEF k0
    <3> QED BY <1>7, <1>8
  <2> HIDE DEF k0, d, s
  <2>2. CASE k0 = 1
    <3>1. s = None /\ ~(k0 = Len(G) /\ Len(G) > 1)
      BY <1>4, <1>7, <1>8, <2>2
    <3> QED BY <1>2, <1>6, <1>7, <3>1, StoreKinds
  <2>3. CASE k0 = Len(G) /\ Len(G) > 1
    <3>1. s = Instance
      BY <1>4, <1>7, <2>3
    <3> QED BY <1>2, <1>6, <1>7, <2>3, <3>1, StoreKinds
  <2>4. CASE k0 \in 2..Len(G) - 1 /\ k0 # Len(G)
    <3>1. PICK g \in program.changed : G[k0] = Flag(g)
      BY <1>4, <2>4
    <3>2. s.store = "flag" /\ s.func = g /\ g \in Func
      BY <1>5, <1>7, <3>1, StoreKinds
    <3>3. flag' = [flag EXCEPT ![g] = TRUE] /\ guardVar' = "None"
      BY <1>2, <1>6, <3>2
    <3>4. \A f \in Func : G[k0] = Flag(f) <=> f = g
      BY <3>1, StoreKinds
    <3>5. flag' \in [Func -> BOOLEAN] /\ \A f \in Func : flag'[f] <=> flag[f] \/ f = g
      BY <1>6, <3>2, <3>3
    <3> QED BY <2>4, <3>3, <3>4, <3>5
  <2> QED BY <2>1, <2>2, <2>3, <2>4
<1>11. \A f \in Func : flag'[f] <=> \E k \in 1..k0 : G[k] = Flag(f)
  BY <1>6, <1>9, <1>10
<1> HIDE DEF k0, d, s
<1> QED BY <1>7, <1>10, <1>11 DEF G

LEMMA StoreStep ==
  ASSUME RuntimeInv, Store
  PROVE  RuntimeInv'
<1>1. CodeKnown /\ FirstRuns /\ RunsCounted /\ StoresInOrder /\ CallsComeLater /\ InitialisersArePatched
  BY DEF RuntimeInv
<1>2. /\ stores # <<>> /\ stores' = Tail(stores)
      /\ UNCHANGED <<program, code, schedule, image, pc, i, applied, runs, spawned, at>>
  BY DEF Store, init
<1>3. CodeKnown' /\ FirstRuns' /\ RunsCounted' /\ InitialisersArePatched' /\ Position' = Position
  <2>1. Position' = Position
    BY <1>2 DEF Position
  <2>2. CodeKnown' /\ InitialisersArePatched'
    BY <1>1, <1>2 DEF CodeKnown, InitialisersArePatched
  <2>3. StartTypes' /\ BegunIsFlagged' /\ FirstExecutes'
    BY <1>1, <1>2 DEF FirstRuns, StartTypes, BegunIsFlagged, FirstExecutes
  <2>4. RunsCounted'
    BY <1>1, <1>2, <2>1 DEF RunsCounted
  <2> QED BY <2>1, <2>2, <2>3, <2>4 DEF FirstRuns
<1>4. (Applied' <=> Applied) /\ FirstStores' = FirstStores
  BY <1>2, <1>3 DEF Applied, FirstStores
<1>5. StoresInOrder' /\ \A f \in Func : flag[f] => flag'[f]
  <2>1. CASE Applied
    <3>1. /\ Len(stores') \in 0..Len(FirstStores)
          /\ stores' = SubSeq(FirstStores, Len(FirstStores) - Len(stores') + 1, Len(FirstStores))
          /\ flag' \in [Func -> BOOLEAN]
          /\ \A f \in Func : flag'[f] <=>
               \E k \in 1..Len(FirstStores) - Len(stores') : FirstStores[k] = Flag(f)
          /\ guardVar' = IF stores' = <<>> /\ Len(FirstStores) > 1 THEN "instance" ELSE "None"
      BY <1>2, <1>4, <2>1, StoreMovesOn
    <3>2. pc' = "init" /\ i' = ApplyAt(program') + 1
      BY <1>1, <1>2, <2>1 DEF StoresInOrder
    <3>3. StoresInOrder'
      BY <1>2, <1>4, <2>1, <3>1, <3>2 DEF StoresInOrder
    <3>4. \A f \in Func : flag[f] => flag'[f]
      BY <1>1 DEF Store, StoresInOrder
    <3> QED BY <3>3, <3>4
  <2>2. CASE ~Applied
    <3>1. stores = <<None>> /\ guardVar = "None" /\ flag \in [Func -> BOOLEAN] /\ \A f \in Func : ~flag[f]
      BY <1>1, <1>2, <2>2 DEF StoresInOrder
    <3>2. Head(stores) = None /\ stores' = <<>>
      <4> DEFINE x == None
      <4>1. stores = <<x>> /\ stores' = Tail(stores)
        BY <1>2, <3>1
      <4> HIDE DEF x
      <4>2. Head(stores) = x /\ stores' = <<>>
        BY <4>1
      <4> QED BY <4>2 DEF x
    <3>3. guardVar' = "None" /\ flag' = flag
      BY <3>2, StoreKinds DEF Store
    <3> QED BY <1>4, <2>2, <3>1, <3>2, <3>3 DEF StoresInOrder
  <2> QED BY <2>1, <2>2
<1>6. CallsComeLater'
  <2>1. \A t \in Thread : at[t].is = "routed" => at[t].func \in Func
    BY <1>1, ActivityFacts DEF CallsComeLater
  <2> QED BY <1>1, <1>2, <1>4, <1>5, <2>1 DEF CallsComeLater
<1> QED BY <1>3, <1>5, <1>6 DEF RuntimeInv

\* The initialiser that runs next is at the position, and calls a patchable function.
LEMMA InitialiserCalls ==
  ASSUME RuntimeInv, Initialize
  PROVE  program.callee[Body.block[pc].code[i].arg] \in Func
<1> DEFINE R == RunsAfter(program)
           n == Len(program.callee)
           k == i - R
<1>1. CodeKnown /\ FirstRuns /\ AtOp("run initializer") /\ program \in Program
  BY DEF RuntimeInv, Initialize, CodeKnown
<1>2. pc = "init" /\ i \in Nat
  <2>1. "run initializer" \notin {"load init flag", "not"} /\ "run initializer" # Apply
        /\ "run initializer" # TestOp(image)
    BY DEF Apply, TestOp
  <2> QED BY <1>1, <2>1, AtOpFacts
<1>3. R < i /\ i <= R + n /\ Body.block[pc].code[i].arg = k
  BY <1>1, <1>2, AtOpFacts
<1>4. program.callee \in Seq(Func) /\ n \in Nat /\ DOMAIN program.callee = 1..n /\ R \in Nat
  <2>1. program.callee \in Seq(Func) /\ n \in Nat /\ DOMAIN program.callee = 1..n
    BY <1>1, ProgramTypes
  <2>2. R \in 2..5
    BY <1>1, PositionTypes
  <2> HIDE DEF R, n
  <2>3. R \in Nat
    BY <2>2
  <2> QED BY <2>1, <2>3
<1>5. k \in 1..n
  <2> HIDE DEF R, n
  <2> QED BY <1>2, <1>3, <1>4
<1> HIDE DEF k
<1> QED BY <1>3, <1>4, <1>5

\* An initialiser runs: once, since the position is past it from then on.
LEMMA InitializeStep ==
  ASSUME RuntimeInv, Initialize
  PROVE  RuntimeInv'
<1> DEFINE p == program
           n == Len(p.callee)
           R == RunsAfter(p)
           P == Position
           PP == Position'
           k == i - R
           f0 == p.callee[k]
<1>1. CodeKnown /\ FirstRuns /\ RunsCounted /\ StoresInOrder /\ CallsComeLater /\ InitialisersArePatched
  BY DEF RuntimeInv
<1>2. AtOp("run initializer") /\ Advance /\ applied' = applied
  BY DEF Initialize
<1>3. UNCHANGED <<program, code, applied, flag, guardVar, stores>>
  BY DEF Initialize
<1>4. /\ stores = <<>> /\ at[Main].is \notin {"called", "routed"} /\ i \in Nat /\ pc = "init"
  <2>1. "run initializer" \notin {"load init flag", "not"} /\ "run initializer" # Apply
        /\ "run initializer" # TestOp(image)
    BY DEF Apply, TestOp
  <2> QED BY <1>1, <1>2, <2>1, AtOpFacts
<1>5. /\ 1 <= i /\ i <= InitLength(p) /\ i # StoreAt(p)
      /\ ~(p.literal /\ i = ApplyAt(p))
      /\ R < i /\ i <= R + n /\ Body.block[pc].code[i].arg = k
  BY <1>1, <1>2, <1>4, AtOpFacts DEF StoreOps, Apply
<1>6. p \in Program /\ program' = p
  BY <1>1, <1>3 DEF CodeKnown
<1>7. FirstRuns' /\ i' = i + 1 /\ pc' = pc /\ P = i /\ PP = i + 1
  BY <1>2, <1>3, <1>4, <1>5, <1>6, FirstRunsAdvance
<1>8. /\ p.callee \in Seq(Func) /\ n \in Nat /\ DOMAIN p.callee = 1..n /\ R \in Nat
      /\ ApplyAt(p) \in Nat /\ (Marked(p) => ApplyAt(p) = R)
  BY <1>6, ProgramTypes, PositionTypes
<1>9. k \in 1..n /\ i = R + k
  <2> HIDE DEF R, n
  <2> QED BY <1>4, <1>5, <1>8
<1>10. f0 \in Func
  <2> HIDE DEF k
  <2> QED BY <1>8, <1>9
<1>11. /\ runs' = [runs EXCEPT ![k] = @ + 1]
       /\ at' = [at EXCEPT ![Main] = Called(f0)]
       /\ spawned' = IF k \in p.spawns THEN Thread \ {Main} ELSE spawned
  <2> HIDE DEF k
  <2> QED BY <1>5 DEF Initialize
<1>12. CodeKnown'
  BY <1>1, <1>3 DEF CodeKnown
<1>13. RunsCounted'
  <2>1. runs = [j \in 1..n |-> IF R + j < P THEN 1 ELSE 0]
    BY <1>1, <1>8 DEF RunsCounted
  <2>2. RunsCounted' <=> runs' = [j \in 1..n |-> IF R + j < PP THEN 1 ELSE 0]
    BY <1>6, <1>8 DEF RunsCounted
  <2> HIDE DEF k, R, n, P, PP
  <2>3. \A j \in 1..n : R + j < PP <=> R + j < P \/ j = k
    BY <1>7, <1>8, <1>9
  <2>4. ~(R + k < P)
    BY <1>7, <1>8, <1>9
  <2>5. runs[k] = 0
    BY <1>9, <2>1, <2>4
  <2>6. runs[k] + 1 = 1
    BY <2>5
  <2>7. runs' = [j \in 1..n |-> IF j = k THEN 1 ELSE runs[j]]
    BY <1>11, <2>1, <2>6
  <2>8. \A j \in 1..n : (IF j = k THEN 1 ELSE runs[j]) = IF R + j < PP THEN 1 ELSE 0
    BY <2>1, <2>3
  <2> QED BY <2>2, <2>7, <2>8
<1> HIDE DEF f0
<1>14. Applied' <=> Applied
  <2>1. PP = P \/ (PP = P + 1 /\ ~(p.literal /\ P = ApplyAt(p)))
    BY <1>5, <1>7
  <2> QED BY <1>1, <1>6, <2>1, AppliedWhileQuiet
<1>15. StoresInOrder'
  BY <1>1, <1>3, <1>4, <1>14, StoresWhileQuiet
<1>16. Marked(p) => Applied
  <2>1. Marked(p) => p.literal /\ ApplyAt(p) = R
    BY <1>8 DEF Marked
  <2>2. R < P
    BY <1>5, <1>7
  <2> QED BY <1>8, <2>1, <2>2 DEF Applied
<1>17. at \in [Thread -> Activity] /\ Main \in Thread
  BY <1>1, ThreadAssumption DEF CallsComeLater
<1>18. /\ at' \in [Thread -> Activity] /\ at'[Main].is = "called"
       /\ \A t \in Thread \ {Main} : at'[t] = at[t]
  <2>1. Called(f0) \in Activity /\ Called(f0).is = "called"
    BY <1>10 DEF Called, Activity
  <2> QED BY <1>11, <1>17, <2>1
<1>19. /\ spawned' \subseteq Thread /\ spawned \subseteq spawned' \cup {Main}
       /\ program.spawns = {} => spawned' = {}
  BY <1>1, <1>11 DEF CallsComeLater
<1>20. CallsComeLater'
  <2>1. at'[Main].is # "routed"
    BY <1>18
  <2>2. stores' = <<>>
    BY <1>3, <1>4
  <2>3. \A t \in Thread \ (spawned' \cup {Main}) : at'[t] = Idle
    BY <1>1, <1>18, <1>19 DEF CallsComeLater
  <2>4. \A t \in Thread : at'[t].is = "routed" => flag'[at'[t].func]
    BY <1>1, <1>3, <1>18, <2>1 DEF CallsComeLater
  <2> QED BY <1>3, <1>6, <1>14, <1>16, <1>18, <1>19, <2>2, <2>3, <2>4 DEF CallsComeLater
<1>21. InitialisersArePatched'
  <2>1. at'[Main].is # "ran"
    BY <1>18
  <2> QED BY <1>1, <1>6, <1>18, <2>1 DEF InitialisersArePatched
<1> QED BY <1>7, <1>12, <1>13, <1>15, <1>20, <1>21 DEF RuntimeInv

-----------------------------------------------------------------------------
(* Calls: what a thread does leaves the package inits alone                 *)

LEMMA ThreadQuiet ==
  ASSUME RuntimeInv, UNCHANGED <<program, code, schedule, image, pc, i, applied, flag, guardVar, stores, runs, spawned>>
  PROVE  /\ CodeKnown' /\ FirstRuns' /\ RunsCounted' /\ StoresInOrder' /\ (Applied' <=> Applied)
<1>1. CodeKnown /\ FirstRuns /\ RunsCounted /\ StoresInOrder
  BY DEF RuntimeInv
<1>2. Position' = Position
  BY DEF Position
<1>3. (Applied' <=> Applied) /\ FirstStores' = FirstStores
  BY <1>2 DEF Applied, FirstStores
<1>4. StartTypes' /\ BegunIsFlagged' /\ FirstExecutes'
  BY <1>1 DEF FirstRuns, StartTypes, BegunIsFlagged, FirstExecutes
<1>5. CodeKnown' /\ RunsCounted'
  BY <1>1, <1>2 DEF CodeKnown, RunsCounted
<1>6. StoresInOrder'
  BY <1>1, <1>3 DEF StoresInOrder
<1> QED BY <1>3, <1>4, <1>5, <1>6 DEF FirstRuns

\* What the stores say about the guards, once nothing is left of them.
LEMMA StoresDone ==
  ASSUME RuntimeInv
  PROVE  /\ \A f \in Func : flag[f] => Applied /\ PatchFirst(program) /\ f \in program.changed
         /\ Applied /\ stores = <<>> /\ PatchFirst(program) =>
              \A f \in program.changed : flag[f] /\ guardVar = "instance"
         /\ (\E f \in Func : flag[f]) /\ stores = <<>> => guardVar = "instance"
         /\ guardVar = "instance" => Applied /\ stores = <<>> /\ PatchFirst(program)
<1> DEFINE G == FirstStores
           d == Len(G) - Len(stores)
<1>1. CodeKnown /\ FirstRuns /\ StoresInOrder /\ program \in Program
  BY DEF RuntimeInv, CodeKnown
<1>2. /\ \A f \in Func : flag[f] <=> Applied /\ \E k \in 1..d : G[k] = Flag(f)
      /\ Applied => Len(stores) \in 0..Len(G)
      /\ guardVar = IF Applied /\ stores = <<>> /\ Len(G) > 1 THEN "instance" ELSE "None"
  BY <1>1 DEF StoresInOrder
<1>3. program.changed \subseteq Func /\ program.schedule \in Seq(Image)
  BY <1>1, ProgramTypes
<1>4. Applied => program.schedule # <<>> /\ program.schedule[1] \in Image
  <2> SUFFICES ASSUME Applied PROVE program.schedule # <<>> /\ program.schedule[1] \in Image
    OBVIOUS
  <2>1. pc = "init" \/ applied["base"]
    <3>1. ApplyAt(program) \in Nat /\ (program.literal => ApplyAt(program) \in StoreAt(program) + 1 .. InitLength(program))
          /\ StoreAt(program) \in 1..2 /\ InitLength(program) \in Nat
      BY <1>1, PositionTypes
    <3>2. program.literal /\ Position > ApplyAt(program)
      BY DEF Applied
    <3>3. Position # 1
      BY <3>1, <3>2
    <3> QED BY <3>3 DEF Position
  <2>2. program.schedule # <<>>
    BY <1>1, <2>1 DEF FirstRuns, FirstExecutes
  <2>3. 1 \in 1..Len(program.schedule)
    BY <1>3, <2>2, EmptySeq
  <2> QED BY <1>3, <2>2, <2>3
<1>5. Applied => /\ G \in Seq(StoreSet) /\ Len(G) >= 1 /\ G[1] = None
                 /\ program.schedule[1] = "base" \/ program.changed = {} => Len(G) = 1
                 /\ program.schedule[1] = "patch" /\ program.changed # {} => Len(G) > 2
                 /\ Len(G) > 1 => G[Len(G)] = Instance
                 /\ \A k \in 2..Len(G) - 1 : \E f \in program.changed : G[k] = Flag(f)
                 /\ Len(G) > 1 => \A f \in program.changed : \E k \in 2..Len(G) - 1 : G[k] = Flag(f)
  BY <1>1, <1>4, StoresShape DEF FirstStores
<1> HIDE DEF G
<1>6. Applied => Len(G) \in Nat /\ d \in 0..Len(G) /\ (stores = <<>> => d = Len(G))
  <2> SUFFICES ASSUME Applied PROVE Len(G) \in Nat /\ d \in 0..Len(G) /\ (stores = <<>> => d = Len(G))
    OBVIOUS
  <2>1. Len(G) \in Nat /\ Len(stores) \in 0..Len(G)
    BY <1>2, <1>5, LenProperties
  <2>2. stores = <<>> => Len(stores) = 0
    OBVIOUS
  <2> QED BY <2>1, <2>2
<1> HIDE DEF d
<1>7. ASSUME NEW f \in Func, flag[f]
      PROVE  Applied /\ Len(G) > 1 /\ PatchFirst(program) /\ f \in program.changed
  <2>1. Applied
    BY <1>2, <1>7
  <2>2. PICK k \in 1..d : G[k] = Flag(f)
    BY <1>2, <1>7
  <2>3. G[k] # None /\ G[k] # Instance
    BY <2>2, StoreKinds
  <2>4. k # 1 /\ (Len(G) > 1 => k # Len(G)) /\ k \in 1..Len(G)
    BY <1>5, <1>6, <2>1, <2>3
  <2>5. k \in 2..Len(G) - 1 /\ Len(G) > 1
    BY <1>6, <2>1, <2>4
  <2>6. PICK g \in program.changed : G[k] = Flag(g)
    BY <1>5, <2>1, <2>5
  <2>7. f = g
    BY <2>2, <2>6, StoreKinds
  <2>8. Len(G) # 1
    <3>1. Len(G) \in Nat /\ Len(G) > 1
      BY <1>6, <2>1, <2>5
    <3>2. \A x \in Nat : x > 1 => x # 1
      OBVIOUS
    <3> QED BY <3>1, <3>2
  <2>9. program.schedule[1] = "patch" /\ program.schedule # <<>>
    BY <1>4, <1>5, <2>1, <2>8 DEF Image
  <2> QED BY <2>1, <2>5, <2>6, <2>7, <2>9 DEF PatchFirst
<1>8. ASSUME Applied, stores = <<>>, PatchFirst(program), NEW f \in program.changed
      PROVE  flag[f] /\ guardVar = "instance"
  <2>1. Len(G) > 2
    BY <1>5, <1>8 DEF PatchFirst
  <2>2. Len(G) > 1
    BY <1>6, <1>8, <2>1
  <2>3. PICK k \in 2..Len(G) - 1 : G[k] = Flag(f)
    BY <1>5, <1>8, <2>2
  <2>4. k \in 1..d
    BY <1>6, <1>8, <2>3
  <2> QED BY <1>2, <1>3, <1>8, <2>2, <2>3, <2>4
<1>9. ASSUME NEW f \in Func, flag[f], stores = <<>>
      PROVE  guardVar = "instance"
  BY <1>2, <1>7, <1>9
<1>10. ASSUME guardVar = "instance"
       PROVE  Applied /\ stores = <<>> /\ PatchFirst(program)
  <2>1. Applied /\ stores = <<>> /\ Len(G) > 1
    BY <1>2, <1>10
  <2>2. Len(G) # 1
    <3>1. Len(G) \in Nat /\ Len(G) > 1
      BY <1>6, <2>1
    <3>2. \A x \in Nat : x > 1 => x # 1
      OBVIOUS
    <3> QED BY <3>1, <3>2
  <2>3. program.schedule[1] = "patch" /\ program.schedule # <<>>
    BY <1>4, <1>5, <2>1, <2>2 DEF Image
  <2> QED BY <2>1, <2>3 DEF PatchFirst
<1> QED BY <1>7, <1>8, <1>9, <1>10

LEMMA CallStep ==
  ASSUME RuntimeInv, NEW t \in Thread, NEW f \in Func, Call(t, f)
  PROVE  RuntimeInv'
<1>1. CallsComeLater /\ InitialisersArePatched /\ FirstRuns /\ StoresInOrder /\ CodeKnown
  BY DEF RuntimeInv
<1>2. UNCHANGED <<program, code, schedule, image, pc, i, applied, flag, guardVar, stores, runs, spawned>>
  BY DEF Call, init
<1>3. /\ CodeKnown' /\ FirstRuns' /\ RunsCounted' /\ StoresInOrder' /\ (Applied' <=> Applied)
  BY <1>2, ThreadQuiet
<1>4. /\ at' = [at EXCEPT ![t] = Called(f)]
      /\ IF t = Main THEN Initialized ELSE t \in spawned
  BY DEF Call
<1>5. Called(f) \in Activity /\ Called(f).is = "called"
  BY DEF Called, Activity
<1>6. /\ at' \in [Thread -> Activity] /\ at'[t].is = "called"
      /\ \A u \in Thread \ {t} : at'[u] = at[u]
  BY <1>1, <1>4, <1>5 DEF CallsComeLater
<1>7. t = Main => stores = <<>>
  BY <1>4 DEF Initialized
<1>8. Marked(program) => stores = <<>> /\ (program.schedule # <<>> => Applied)
  <2>1. CASE t # Main
    <3>1. spawned # {}
      BY <1>4, <2>1
    <3> QED BY <1>1, <3>1 DEF CallsComeLater
  <2>2. CASE t = Main
    <3> SUFFICES ASSUME Marked(program), program.schedule # <<>> PROVE Applied
      BY <1>7, <2>2
    <3>1. pc = "none" /\ schedule = <<>>
      BY <1>4, <2>2 DEF Initialized
    <3>2. applied["base"]
      BY <1>1, <3>1 DEF FirstRuns, FirstExecutes
    <3>3. Position = InitLength(program) + 1
      BY <3>1, <3>2 DEF Position
    <3>4. program \in Program /\ program.literal
      BY <1>1 DEF CodeKnown, Marked
    <3>5. ApplyAt(program) \in StoreAt(program) + 1 .. InitLength(program) /\ InitLength(program) \in Nat
          /\ StoreAt(program) \in 1..2
      BY <3>4, PositionTypes
    <3>6. InitLength(program) + 1 > ApplyAt(program)
      BY <3>5
    <3> QED BY <3>3, <3>4, <3>6 DEF Applied
  <2> QED BY <2>1, <2>2
<1>9. CallsComeLater'
  <2>1. \A u \in Thread \ (spawned' \cup {Main}) : at'[u] = Idle
    BY <1>1, <1>2, <1>4, <1>6 DEF CallsComeLater
  <2>2. stores' # <<>> => at'[Main].is \notin {"called", "routed"}
    BY <1>1, <1>2, <1>6, <1>7, ThreadAssumption DEF CallsComeLater
  <2>3. \A u \in Thread : at'[u].is = "routed" => flag'[at'[u].func]
    BY <1>1, <1>2, <1>6 DEF CallsComeLater
  <2> QED BY <1>1, <1>2, <1>3, <1>6, <1>8, <2>1, <2>2, <2>3 DEF CallsComeLater
<1>10. InitialisersArePatched'
  BY <1>1, <1>2, <1>6 DEF InitialisersArePatched
<1> QED BY <1>3, <1>9, <1>10 DEF RuntimeInv

\* Another thread than the one that steps, and the other parts of the invariant, when
\* a call tests its guard.
LEMMA TestStep ==
  ASSUME RuntimeInv, NEW t \in Thread, NEW a \in Activity,
         UNCHANGED <<program, code, schedule, image, pc, i, applied, flag, guardVar, stores, runs, spawned>>,
         at[t].is \in {"called", "routed"}, at' = [at EXCEPT ![t] = a],
         a.is \in {"routed", "ran"}, a.is = "routed" => flag[a.func],
         a.is = "ran" =>
           /\ (Marked(program) \/ program.spawns = {}) => a.code # "should not reach here"
           /\ \/ Marked(program) /\ PatchFirst(program) /\ a.func \in program.changed /\ a.code = "new"
              \/ (~Marked(program) \/ ~PatchFirst(program) \/ a.func \notin program.changed)
                   /\ (Marked(program) => a.code = "old")
  PROVE  RuntimeInv'
<1>1. CallsComeLater /\ InitialisersArePatched
  BY DEF RuntimeInv
<1>2. CodeKnown' /\ FirstRuns' /\ RunsCounted' /\ StoresInOrder' /\ (Applied' <=> Applied)
  BY ThreadQuiet
<1>3. /\ at' \in [Thread -> Activity] /\ at'[t] = a
      /\ \A u \in Thread \ {t} : at'[u] = at[u]
  BY <1>1 DEF CallsComeLater
<1>4. at[t] # Idle
  BY ActivityKinds
<1>5. t \in spawned \cup {Main}
  BY <1>1, <1>4 DEF CallsComeLater
<1>6. Marked(program) => stores = <<>> /\ (program.schedule # <<>> => Applied)
  BY <1>1, <1>4 DEF CallsComeLater
<1>7. t = Main => stores = <<>>
  BY <1>1 DEF CallsComeLater
<1>8. CallsComeLater'
  <2>1. \A u \in Thread \ (spawned' \cup {Main}) : at'[u] = Idle
    BY <1>1, <1>3, <1>5 DEF CallsComeLater
  <2>2. stores' # <<>> => at'[Main].is \notin {"called", "routed"}
    BY <1>1, <1>3, <1>7, ThreadAssumption DEF CallsComeLater
  <2>3. \A u \in Thread : at'[u].is = "routed" => flag'[at'[u].func]
    BY <1>1, <1>3 DEF CallsComeLater
  <2> QED BY <1>1, <1>2, <1>3, <1>6, <2>1, <2>2, <2>3 DEF CallsComeLater
<1>9. InitialisersArePatched'
  BY <1>1, <1>3 DEF InitialisersArePatched
<1> QED BY <1>2, <1>8, <1>9 DEF RuntimeInv

LEMMA TestFlagStep ==
  ASSUME RuntimeInv, NEW t \in Thread, TestFlag(t)
  PROVE  RuntimeInv'
<1> DEFINE f == at[t].func
           a == IF flag[f] THEN Routed(f) ELSE Ran(f, "old")
<1>1. CallsComeLater /\ StoresInOrder
  BY DEF RuntimeInv
<1>2. /\ at[t].is = "called" /\ at' = [at EXCEPT ![t] = a]
      /\ UNCHANGED <<program, code, schedule, image, pc, i, applied, flag, guardVar, stores, runs, spawned>>
  BY <1>1 DEF TestFlag, init, CallsComeLater
<1>3. f \in Func
  BY <1>1, <1>2, ActivityFacts DEF CallsComeLater
<1>4. flag[f] \in BOOLEAN
  BY <1>1, <1>3 DEF StoresInOrder
<1> HIDE DEF f
<1>5. /\ a \in Activity /\ a.func = f /\ a.is = (IF flag[f] THEN "routed" ELSE "ran")
      /\ ~flag[f] => a.code = "old"
  BY <1>3, <1>4 DEF Routed, Ran, Activity
<1>6. ~flag[f] => ~Marked(program) \/ ~PatchFirst(program) \/ f \notin program.changed
  <2> SUFFICES ASSUME Marked(program), PatchFirst(program), f \in program.changed PROVE flag[f]
    OBVIOUS
  <2>1. at[t] # Idle
    BY <1>2, ActivityKinds
  <2>2. stores = <<>> /\ Applied
    BY <1>1, <2>1 DEF CallsComeLater, PatchFirst
  <2> QED BY <2>2, StoresDone
<1> HIDE DEF a
<1> QED BY <1>2, <1>5, <1>6, TestStep

LEMMA TestGuardVarStep ==
  ASSUME RuntimeInv, NEW t \in Thread, TestGuardVar(t)
  PROVE  RuntimeInv'
<1> DEFINE f == at[t].func
           c == IF guardVar = "instance" THEN "new" ELSE "should not reach here"
           a == Ran(f, c)
<1>1. CallsComeLater
  BY DEF RuntimeInv
<1>2. /\ at[t].is = "routed" /\ at' = [at EXCEPT ![t] = a]
      /\ UNCHANGED <<program, code, schedule, image, pc, i, applied, flag, guardVar, stores, runs, spawned>>
  BY <1>1 DEF TestGuardVar, init, CallsComeLater
<1>3. f \in Func /\ flag[f] /\ at[t] # Idle
  BY <1>1, <1>2, ActivityFacts, ActivityKinds DEF CallsComeLater
<1>4. Applied /\ PatchFirst(program) /\ f \in program.changed /\ (stores = <<>> => guardVar = "instance")
  BY <1>3, StoresDone
<1>5. Marked(program) \/ program.spawns = {} => stores = <<>>
  <2>1. Marked(program) => stores = <<>>
    BY <1>1, <1>3 DEF CallsComeLater
  <2>2. program.spawns = {} => t = Main
    BY <1>1, <1>3 DEF CallsComeLater
  <2>3. t = Main => stores = <<>>
    BY <1>1, <1>2 DEF CallsComeLater
  <2> QED BY <2>1, <2>2, <2>3
<1>6. Marked(program) \/ program.spawns = {} => c = "new"
  BY <1>4, <1>5
<1>7. c \in {"new", "should not reach here"}
  OBVIOUS
<1> HIDE DEF f, c
<1>8. a \in Activity /\ a.is = "ran" /\ a.func = f /\ a.code = c
  BY <1>3, <1>7 DEF Ran, Activity
<1> HIDE DEF a
<1>9. "new" # "should not reach here"
  OBVIOUS
<1> QED BY <1>2, <1>4, <1>6, <1>8, <1>9, TestStep

-----------------------------------------------------------------------------
(* The theorems                                                             *)

LEMMA InitHolds == Init => RuntimeInv
<1> SUFFICES ASSUME Init PROVE RuntimeInv
  OBVIOUS
<1>1. program \in Program /\ CodeKnown
  BY DEF Init, CodeKnown
<1>2. /\ schedule = program.schedule /\ applied = [m \in Image |-> FALSE]
      /\ flag = [f \in Func |-> FALSE] /\ guardVar = "None"
      /\ image = "base" /\ pc = "none" /\ i = 1 /\ stores = <<>>
      /\ runs = [k \in DOMAIN program.callee |-> 0]
      /\ spawned = {} /\ at = [t \in Thread |-> Idle]
  BY DEF Init
<1>3. applied["base"] = FALSE /\ applied \in [Image -> BOOLEAN]
  BY <1>2 DEF Image
<1>4. Position = 1
  BY <1>2, <1>3 DEF Position
<1>5. program.schedule \in Seq(Image)
  BY <1>1, ProgramTypes
<1>6. i \in Nat \ {0}
  <2>1. i = 1
    BY <1>2
  <2> QED BY <2>1
<1>7. StartTypes /\ BegunIsFlagged /\ FirstExecutes
  BY <1>2, <1>3, <1>5, <1>6 DEF StartTypes, BegunIsFlagged, FirstExecutes, Image
<1>8. RunsCounted
  <2> DEFINE R == RunsAfter(program)
             n == Len(program.callee)
  <2>1. R \in Nat /\ DOMAIN program.callee = 1..n
    BY <1>1, PositionTypes, ProgramTypes
  <2> HIDE DEF R, n
  <2>2. \A k \in 1..n : ~(R + k < 1)
    BY <2>1
  <2>3. [k \in 1..n |-> IF R + k < 1 THEN 1 ELSE 0] = [k \in 1..n |-> 0]
    BY <2>2
  <2> QED BY <1>2, <1>4, <2>1, <2>3 DEF RunsCounted, R
<1>9. ~Applied
  <2>1. program.literal => ApplyAt(program) \in StoreAt(program) + 1 .. InitLength(program)
    BY <1>1, PositionTypes
  <2>2. StoreAt(program) \in 1..2 /\ InitLength(program) \in Nat
    BY <1>1, PositionTypes
  <2>3. program.literal => ~(1 > ApplyAt(program))
    BY <2>1, <2>2
  <2> QED BY <1>4, <2>3 DEF Applied
<1>10. StoresInOrder
  BY <1>2, <1>9 DEF StoresInOrder
<1>11. \A t \in Thread : at[t] = Idle /\ at[t].is = "idle"
  BY <1>2, ActivityKinds
<1>12. CallsComeLater
  BY <1>2, <1>11, ThreadAssumption DEF CallsComeLater, Activity
<1>13. InitialisersArePatched
  BY <1>11 DEF InitialisersArePatched
<1> QED BY <1>1, <1>7, <1>8, <1>10, <1>12, <1>13 DEF RuntimeInv, FirstRuns

LEMMA NextHolds == RuntimeInv /\ [Next]_vars => RuntimeInv'
<1> SUFFICES ASSUME RuntimeInv, [Next]_vars PROVE RuntimeInv'
  OBVIOUS
<1>1. CASE CallInit
  BY <1>1, CallInitStep
<1>2. CASE EndOfBlock
  BY <1>2, EndOfBlockStep
<1>3. CASE StoreApplied
  BY <1>3, StoreAppliedStep
<1>4. CASE OtherOp
  BY <1>4, OtherOpStep
<1>5. CASE ApplyGuardVarsInitializer
  BY <1>5, ApplyStep
<1>6. CASE Store
  BY <1>6, StoreStep
<1>7. CASE Initialize
  BY <1>7, InitializeStep
<1>8. ASSUME NEW t \in Thread, TestFlag(t) PROVE RuntimeInv'
  BY <1>8, TestFlagStep
<1>9. ASSUME NEW t \in Thread, TestGuardVar(t) PROVE RuntimeInv'
  BY <1>9, TestGuardVarStep
<1>10. ASSUME NEW t \in Thread, NEW f \in Func, Call(t, f) PROVE RuntimeInv'
  BY <1>10, CallStep
<1>11. CASE UNCHANGED vars
  <2>1. UNCHANGED <<program, code, schedule, image, pc, i, applied, flag, guardVar, stores, runs, spawned>>
        /\ at' = at
    BY <1>11 DEF vars
  <2>2. CodeKnown' /\ FirstRuns' /\ RunsCounted' /\ StoresInOrder' /\ (Applied' <=> Applied)
    BY <2>1, ThreadQuiet
  <2>3. CallsComeLater' /\ InitialisersArePatched'
    BY <2>1, <2>2 DEF RuntimeInv, CallsComeLater, InitialisersArePatched
  <2> QED BY <2>2, <2>3 DEF RuntimeInv
<1> QED BY <1>1, <1>2, <1>3, <1>4, <1>5, <1>6, <1>7, <1>8, <1>9, <1>10, <1>11 DEF Next, Start, Guard

\* The strengthening is an invariant: the edited package inits share one flag, each
\* operation of the initialisers' block is executed once, and calls come after the stores.
THEOREM RuntimeInvariant == Spec => []RuntimeInv
<1> QED BY InitHolds, NextHolds, PTL DEF Spec

\* Type correctness, for every program, in whatever order the package inits are called.
THEOREM RuntimeTypes == Spec => []TypeOK
<1>1. RuntimeInv => TypeOK
  <2> SUFFICES ASSUME RuntimeInv PROVE TypeOK
    OBVIOUS
  <2>1. CodeKnown /\ FirstRuns /\ RunsCounted /\ StoresInOrder /\ CallsComeLater
    BY DEF RuntimeInv
  <2>2. /\ schedule \in Seq(Image) /\ image \in Image /\ applied \in [Image -> BOOLEAN]
        /\ i \in Nat \ {0} /\ pc \in {"none", "test", "old entry", "init", "exit"}
        /\ pc = "test" => image = "base"
    BY <2>1 DEF FirstRuns, StartTypes
  <2>3. pc \in {"none"} \cup DOMAIN Body.block
    <3>1. Shape(program, image, Body)
      BY <2>1, <2>2, BodyHasShape
    <3> QED BY <2>2, <3>1 DEF Shape
  <2>4. runs \in [DOMAIN program.callee -> Nat]
    BY <2>1 DEF RunsCounted
  <2>5. flag \in [Func -> BOOLEAN] /\ guardVar \in {"None", "instance"}
    BY <2>1 DEF StoresInOrder
  <2>6. spawned \subseteq Thread /\ \A t \in Thread : at[t].is \in {"idle", "called", "routed", "ran"}
    BY <2>1, ActivityFacts DEF CallsComeLater
  <2> QED BY <2>2, <2>3, <2>4, <2>5, <2>6 DEF TypeOK
<1> QED BY <1>1, RuntimeInvariant, PTL

\* Calls from initialisers and the threads that they start run the new code of changed
\* functions if the patch is loaded first and the compiler marks the begin of the
\* initialisers (patcher.cj looks for the mark); no call falls between the flag and the
\* instance unless a thread races unmarked initialisers.
THEOREM InitialisersArePatchedAlways == Spec => []InitialisersArePatched
<1>1. RuntimeInv => InitialisersArePatched
  BY DEF RuntimeInv
<1> QED BY <1>1, RuntimeInvariant, PTL

\* Base and patch never run an initialiser twice, and once all package inits have been
\* called each has run: the safety part of InitialisedOnce.
RunAtMostOnce == \A k \in DOMAIN runs : runs[k] <= 1
RunWhenInitialized ==
  Initialized /\ program.schedule # <<>> => \A k \in DOMAIN runs : runs[k] = 1

THEOREM InitialisersRunOnce == Spec => [](RunAtMostOnce /\ RunWhenInitialized)
<1>1. RuntimeInv => RunAtMostOnce /\ RunWhenInitialized
  <2> SUFFICES ASSUME RuntimeInv PROVE RunAtMostOnce /\ RunWhenInitialized
    OBVIOUS
  <2> DEFINE R == RunsAfter(program)
             n == Len(program.callee)
             P == Position
  <2>1. CodeKnown /\ FirstRuns /\ program \in Program
    BY DEF RuntimeInv, CodeKnown
  <2>2. R \in Nat /\ n \in Nat /\ DOMAIN program.callee = 1..n
    BY <2>1, PositionTypes, ProgramTypes
  <2>3. runs = [k \in 1..n |-> IF R + k < P THEN 1 ELSE 0]
    BY <2>2 DEF RuntimeInv, RunsCounted
  <2>4. \A k \in 1..n : runs[k] \in {0, 1} /\ (R + k < P => runs[k] = 1)
    BY <2>3
  <2>5. RunAtMostOnce
    BY <2>3, <2>4 DEF RunAtMostOnce
  <2>6. RunWhenInitialized
    <3> SUFFICES ASSUME Initialized, program.schedule # <<>> PROVE \A k \in DOMAIN runs : runs[k] = 1
      BY DEF RunWhenInitialized
    <3>1. pc = "none" /\ schedule # program.schedule
      BY DEF Initialized
    <3>2. applied["base"]
      BY <2>1, <3>1 DEF FirstRuns, FirstExecutes
    <3>3. P = InitLength(program) + 1
      BY <3>1, <3>2 DEF Position
    <3>4. InitLength(program) \in Nat /\ InitLength(program) >= R + n
      BY <2>1, PositionTypes
    <3> HIDE DEF R, n, P
    <3>5. \A k \in 1..n : R + k < P
      BY <2>2, <3>3, <3>4
    <3> QED BY <2>3, <2>4, <3>5
  <2> QED BY <2>5, <2>6
<1> QED BY <1>1, RuntimeInvariant, PTL

-----------------------------------------------------------------------------
(* The program's stores and calls amount to one exchange (HotSwap)          *)

InForce == IF guardVar = "instance" THEN {f \in Func : flag[f]} ELSE {}
Started == \E t \in Thread : at[t] # Idle
Calls == [t \in Thread |-> IF at[t].is = "routed" THEN Called(at[t].func) ELSE at[t]]
Swapped == <<program.changed, Marked(program), InForce, Started, Calls>>

\* With the instance in its variable, all changed functions are exchanged and no other.
LEMMA AllInForce ==
  RuntimeInv /\ guardVar = "instance" => {f \in Func : flag[f]} = program.changed
<1> SUFFICES ASSUME RuntimeInv, guardVar = "instance"
             PROVE  {f \in Func : flag[f]} = program.changed
  OBVIOUS
<1>1. program.changed \subseteq Func
  BY ProgramTypes DEF RuntimeInv, CodeKnown
<1>2. \A f \in Func : flag[f] => f \in program.changed
  BY StoresDone
<1>3. \A f \in program.changed : flag[f]
  BY StoresDone
<1> QED BY <1>1, <1>2, <1>3

LEMMA SwapStutter ==
  ASSUME UNCHANGED Swapped
  PROVE  UNCHANGED Swap!vars
BY DEF Swapped, Swap!vars, InForce, Started, Calls

LEMMA SwapStart == Init => Swap!Init
<1> SUFFICES ASSUME Init PROVE Swap!Init
  OBVIOUS
<1>1. program \in Program /\ guardVar = "None" /\ at = [t \in Thread |-> Idle]
  BY DEF Init
<1>2. program.changed \subseteq Func /\ Marked(program) \in BOOLEAN
  BY <1>1, ProgramTypes DEF Marked
<1>3. InForce = {}
  BY <1>1 DEF InForce
<1>4. Started = FALSE
  BY <1>1 DEF Started
<1>5. Calls = [t \in Thread |-> Idle]
  BY <1>1, ActivityKinds DEF Calls
<1> QED BY <1>2, <1>3, <1>4, <1>5 DEF Swap!Init, InForce, Started, Calls, Idle, Swap!Idle

\* A store exchanges everything, if it is that of the instance, or nothing.
LEMMA SwapStore ==
  ASSUME RuntimeInv, RuntimeInv', Store
  PROVE  Swap!Exchange \/ UNCHANGED Swapped
<1>1. StoresInOrder /\ CallsComeLater
  BY DEF RuntimeInv
<1>2. stores # <<>> /\ program' = program /\ at' = at
  BY DEF Store
<1>3. Calls' = Calls /\ (Started' <=> Started)
  BY <1>2 DEF Calls, Started
<1>4. guardVar = "None"
  BY <1>1, <1>2 DEF StoresInOrder
<1>5. CASE guardVar' = "instance"
  <2>1. InForce' = program.changed
    <3>1. (RuntimeInv /\ guardVar = "instance" => {f \in Func : flag[f]} = program.changed)'
      BY AllInForce, PTL
    <3> QED BY <1>2, <1>5, <3>1 DEF InForce
  <2>2. Marked(program) => ~Started
    BY <1>1, <1>2 DEF CallsComeLater, Started
  <2> QED BY <1>2, <1>3, <2>1, <2>2 DEF Swap!Exchange, InForce, Started, Calls
<1>6. CASE guardVar' # "instance"
  BY <1>2, <1>3, <1>4, <1>6 DEF Swapped, InForce
<1> QED BY <1>5, <1>6

LEMMA CallsUpdate ==
  ASSUME NEW t \in Thread, NEW a, a.is # "routed", at \in [Thread -> Activity],
         at' = [at EXCEPT ![t] = a]
  PROVE  Calls' = [Calls EXCEPT ![t] = a]
<1>1. at'[t] = a /\ \A u \in Thread \ {t} : at'[u] = at[u]
  OBVIOUS
<1>2. \A u \in Thread : Calls'[u] = IF u = t THEN a ELSE Calls[u]
  BY <1>1 DEF Calls
<1> QED BY <1>2 DEF Calls

LEMMA SwapCall ==
  ASSUME RuntimeInv, NEW t \in Thread, NEW f \in Func, at[t].is \notin {"called", "routed"},
         at' = [at EXCEPT ![t] = Called(f)], UNCHANGED <<program, flag, guardVar>>
  PROVE  Swap!Call(t, f)
<1>1. at \in [Thread -> Activity]
  BY DEF RuntimeInv, CallsComeLater
<1>2. at'[t] = Called(f) /\ (\A u \in Thread \ {t} : at'[u] = at[u]) /\ at'[t] # Idle
  BY <1>1, ActivityKinds
<1>3. Calls[t].is # "called"
  BY DEF Calls
<1>4. Started' = TRUE
  BY <1>2 DEF Started
<1>5. Calls' = [Calls EXCEPT ![t] = Called(f)]
  <2>1. Called(f).is # "routed"
    BY ActivityKinds
  <2> QED BY <1>1, <2>1, CallsUpdate
<1>6. InForce' = InForce
  BY DEF InForce
<1> QED BY <1>3, <1>4, <1>5, <1>6 DEF Swap!Call, InForce, Started, Calls, Called, Swap!In

LEMMA SwapRun ==
  ASSUME RuntimeInv, NEW t \in Thread, at[t].is \in {"called", "routed"},
         NEW c, at' = [at EXCEPT ![t] = Ran(at[t].func, c)], UNCHANGED <<program, flag, guardVar>>,
         \/ c = IF at[t].func \in InForce THEN "new" ELSE "old"
         \/ c = "should not reach here" /\ ~Marked(program)
  PROVE  Swap!Run(t)
<1> DEFINE f == at[t].func
<1>1. at \in [Thread -> Activity]
  BY DEF RuntimeInv, CallsComeLater
<1>2. at[t] = Called(f) \/ at[t] = Routed(f)
  BY <1>1, ActivityFacts
<1>3. at'[t] = Ran(f, c) /\ (\A u \in Thread \ {t} : at'[u] = at[u]) /\ at'[t] # Idle /\ at[t] # Idle
  <2>1. at'[t] = Ran(f, c) /\ \A u \in Thread \ {t} : at'[u] = at[u]
    BY <1>1
  <2>2. Ran(f, c) # Idle
    BY KindsDiffer
  <2>3. at[t].is # Idle.is
    BY ActivityKinds
  <2> QED BY <2>1, <2>2, <2>3
<1>4. Calls[t].is = "called" /\ Calls[t].func = f
  BY <1>2, ActivityKinds DEF Calls
<1>5. Started' /\ Started
  BY <1>3 DEF Started
<1> HIDE DEF f
<1>6. Calls' = [Calls EXCEPT ![t] = Ran(f, c)]
  <2>1. Ran(f, c).is # "routed"
    BY KindsDiffer
  <2>2. at' = [at EXCEPT ![t] = Ran(f, c)]
    BY DEF f
  <2> QED BY <1>1, <2>1, <2>2, CallsUpdate
<1>7. InForce' = InForce
  BY DEF InForce
<1>8. Calls' = [Calls EXCEPT ![t] = Ran(Calls[t].func, c)]
  BY <1>4, <1>6
<1> QED BY <1>4, <1>5, <1>7, <1>8 DEF Swap!Run, InForce, Started, Calls, Ran, Swap!Ran, f

LEMMA SwapTestFlag ==
  ASSUME RuntimeInv, NEW t \in Thread, TestFlag(t)
  PROVE  Swap!Run(t) \/ UNCHANGED Swapped
<1> DEFINE f == at[t].func
<1>1. at \in [Thread -> Activity] /\ flag \in [Func -> BOOLEAN]
  BY DEF RuntimeInv, CallsComeLater, StoresInOrder
<1>2. /\ at[t].is = "called" /\ UNCHANGED <<program, flag, guardVar>>
      /\ at' = [at EXCEPT ![t] = IF flag[f] THEN Routed(f) ELSE Ran(f, "old")]
  BY <1>1 DEF TestFlag
<1>3. f \in Func /\ at[t] = Called(f) /\ at[t] # Idle
  BY <1>1, <1>2, ActivityFacts, ActivityKinds
<1>4. CASE flag[f]
  <2> HIDE DEF f
  <2>1. at' = [at EXCEPT ![t] = Routed(f)]
    BY <1>2, <1>4
  <2>2. at'[t] = Routed(f) /\ \A u \in Thread \ {t} : at'[u] = at[u]
    BY <1>1, <2>1
  <2>3. Started' /\ Started
    <3>1. Routed(f).is # Idle.is
      BY ActivityKinds
    <3> QED BY <1>3, <2>2, <3>1 DEF Started
  <2>4. \A u \in Thread : Calls'[u] = Calls[u]
    <3>1. Called(f).is # "routed" /\ Routed(f).is = "routed" /\ Routed(f).func = f
      BY ActivityKinds
    <3> QED BY <1>3, <2>2, <3>1 DEF Calls
  <2>5. Calls' = Calls
    BY <2>4 DEF Calls
  <2> QED BY <1>2, <2>3, <2>5 DEF Swapped, InForce
<1>5. CASE ~flag[f]
  <2>1. f \notin InForce
    BY <1>5 DEF InForce
  <2>2. at' = [at EXCEPT ![t] = Ran(at[t].func, "old")]
    BY <1>2, <1>5
  <2> QED BY <1>2, <2>1, <2>2, SwapRun
<1> QED BY <1>4, <1>5

LEMMA SwapTestGuardVar ==
  ASSUME RuntimeInv, NEW t \in Thread, TestGuardVar(t)
  PROVE  Swap!Run(t)
<1> DEFINE f == at[t].func
           c == IF guardVar = "instance" THEN "new" ELSE "should not reach here"
<1>1. CallsComeLater
  BY DEF RuntimeInv
<1>2. /\ at[t].is = "routed" /\ UNCHANGED <<program, flag, guardVar>>
      /\ at' = [at EXCEPT ![t] = Ran(at[t].func, c)]
  BY <1>1 DEF TestGuardVar, CallsComeLater
<1>3. f \in Func /\ flag[f] /\ at[t] # Idle
  BY <1>1, <1>2, ActivityFacts, ActivityKinds DEF CallsComeLater
<1>4. CASE guardVar = "instance"
  <2>1. f \in InForce /\ c = "new"
    BY <1>3, <1>4 DEF InForce
  <2> QED BY <1>2, <2>1, SwapRun
<1>5. CASE guardVar # "instance"
  <2>1. stores # <<>>
    BY <1>3, <1>5, StoresDone
  <2>2. ~Marked(program)
    BY <1>1, <1>3, <2>1 DEF CallsComeLater
  <2>3. c = "should not reach here"
    BY <1>5
  <2> QED BY <1>2, <2>2, <2>3, SwapRun
<1> QED BY <1>4, <1>5

LEMMA SwapStep ==
  ASSUME RuntimeInv, RuntimeInv', [Next]_vars
  PROVE  [Swap!Next]_(Swap!vars)
<1>1. ASSUME UNCHANGED <<program, flag, guardVar, at>> PROVE UNCHANGED Swapped
  BY <1>1 DEF Swapped, InForce, Started, Calls
<1>2. CASE CallInit
  BY <1>1, <1>2, SwapStutter DEF CallInit
<1>3. CASE EndOfBlock
  BY <1>1, <1>3, SwapStutter DEF EndOfBlock
<1>4. CASE StoreApplied
  BY <1>1, <1>4, SwapStutter DEF StoreApplied
<1>5. CASE OtherOp
  BY <1>1, <1>5, SwapStutter DEF OtherOp
<1>6. CASE ApplyGuardVarsInitializer
  BY <1>1, <1>6, SwapStutter DEF ApplyGuardVarsInitializer
<1>7. CASE Store
  BY <1>7, SwapStore, SwapStutter DEF Swap!Next
<1>8. CASE Initialize
  <2>1. /\ AtOp("run initializer") /\ UNCHANGED <<program, flag, guardVar>>
        /\ at' = [at EXCEPT ![Main] = Called(program.callee[Body.block[pc].code[i].arg])]
    BY <1>8 DEF Initialize
  <2>2. at[Main].is \notin {"called", "routed"}
    BY <2>1 DEF AtOp, InInit
  <2>3. PICK f \in Func : at' = [at EXCEPT ![Main] = Called(f)]
    BY <1>8, <2>1, InitialiserCalls
  <2>4. Swap!Call(Main, f)
    BY <2>1, <2>2, <2>3, SwapCall, ThreadAssumption
  <2> QED BY <2>4, ThreadAssumption DEF Swap!Next
<1>9. ASSUME NEW t \in Thread, TestFlag(t) PROVE [Swap!Next]_(Swap!vars)
  BY <1>9, SwapTestFlag, SwapStutter DEF Swap!Next
<1>10. ASSUME NEW t \in Thread, TestGuardVar(t) PROVE [Swap!Next]_(Swap!vars)
  BY <1>10, SwapTestGuardVar DEF Swap!Next
<1>11. ASSUME NEW t \in Thread, NEW f \in Func, Call(t, f) PROVE [Swap!Next]_(Swap!vars)
  <2>1. Swap!Call(t, f)
    BY <1>11, SwapCall DEF Call
  <2> QED BY <2>1 DEF Swap!Next
<1>12. CASE UNCHANGED vars
  BY <1>1, <1>12, SwapStutter DEF vars
<1> QED BY <1>2, <1>3, <1>4, <1>5, <1>6, <1>7, <1>8, <1>9, <1>10, <1>11, <1>12 DEF Next, Start, Guard

\* The package inits, the guard variables' initialisers and the guards together do what
\* a hot fix promises: every step is one exchange of all changed functions, a call, the
\* run of the code in force, or nothing that a caller could see.
THEOREM ExchangesAtOnceSafely == Spec => Swap!Init /\ [][Swap!Next]_(Swap!vars)
<1>1. RuntimeInv /\ RuntimeInv' /\ [Next]_vars => [Swap!Next]_(Swap!vars)
  BY SwapStep
<1> QED BY <1>1, SwapStart, RuntimeInvariant, PTL DEF Spec
=============================================================================
