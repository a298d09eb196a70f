---------------------- MODULE BufferOwnershipProofs -----------------------
(***************************************************************************)
(* Proofs about BufferOwnership, for any number of builders, message       *)
(* builders and holders and buffers of any size: memory has one owner, and *)
(* what the program sees are the stacks of TwoStacks.                      *)
(***************************************************************************)
EXTENDS BufferOwnership, FiniteSetTheorems, SequenceTheorems, TLAPS

Msg == MessageBuilder \cup {TempMessage}
Plain == Builder \cup {Temp}

IsMem(m) ==
  m = [heap |-> m.heap, vec |-> m.vec, finished |-> m.finished, arena |-> m.arena,
       failed |-> m.failed, held |-> m.held, slice |-> m.slice]

\* The records that memory is made of.
Block(b) == b = [by |-> b.by, counted |-> b.counted, bytes |-> b.bytes] /\ b.counted \in BOOLEAN
Vector(v) ==
  /\ v = [allocator |-> v.allocator, own |-> v.own, initial |-> v.initial, reserved |-> v.reserved,
          size |-> v.size, buf |-> v.buf, cur |-> v.cur, scratch |-> v.scratch]
  /\ v.own \in BOOLEAN /\ v.initial \in Nat /\ v.reserved \in Nat
  /\ v.size \in Nat /\ v.cur \in Nat /\ v.scratch \in Nat
Held(d) ==
  /\ d = [kind |-> d.kind, allocator |-> d.allocator, own |-> d.own, buf |-> d.buf,
          reserved |-> d.reserved, cur |-> d.cur, size |-> d.size]
  /\ d.kind \in {"none", "detached", "raw", "slice"} /\ d.own \in BOOLEAN

MemTypes(m) ==
  /\ IsMem(m) /\ m.failed = FALSE
  /\ m.heap = [p \in DOMAIN m.heap |-> m.heap[p]] /\ DOMAIN m.heap \subseteq Nat \ {0} /\ IsFiniteSet(DOMAIN m.heap)
  /\ \A p \in DOMAIN m.heap : Block(m.heap[p])
  /\ m.vec = [o \in DOMAIN m.vec |-> m.vec[o]] /\ DOMAIN m.vec \subseteq Plain \cup Msg
  /\ \A o \in DOMAIN m.vec : Vector(m.vec[o])
  /\ m.finished \subseteq DOMAIN m.vec
  /\ m.held = [h \in Holder |-> m.held[h]] /\ \A h \in Holder : Held(m.held[h])
  /\ m.slice = [s \in Msg |-> m.slice[s]]
  /\ m.arena \in {"none", "made", "deleted"}

Layout(m) ==
  \A o \in DOMAIN m.vec :
    LET v == m.vec[o]
    IN /\ v.cur + v.size = v.reserved /\ v.scratch <= v.cur
       /\ v.buf = Null => v.reserved = 0
       /\ v.buf # Null => v.reserved > 0 /\ v.buf \in DOMAIN m.heap /\ DOMAIN m.heap[v.buf].bytes = 1 .. v.reserved

PlainOwn(m) ==
  \A o \in DOMAIN m.vec \cap Plain :
    LET v == m.vec[o]
    IN /\ v.allocator \in {Default, Arena}
       /\ v.buf # Null => /\ m.heap[v.buf].by = v.allocator /\ ~m.heap[v.buf].counted
                          /\ \A q \in DOMAIN m.vec : m.vec[q].buf = v.buf => q = o
                          /\ \A h \in Holder : m.held[h].kind # "slice" => m.held[h].buf # v.buf

MsgOwn(m) ==
  \A o \in DOMAIN m.vec \cap Msg :
    m.vec[o].allocator = o /\ ~m.vec[o].own /\ m.vec[o].buf = m.slice[o]

SlicesOwn(m) ==
  \A s \in Msg : m.slice[s] # Null => s \in DOMAIN m.vec /\ m.slice[s] \in DOMAIN m.heap /\ m.heap[m.slice[s]].counted

HeldOwn(m) ==
  \A h \in Holder :
    LET d == m.held[h]
    IN /\ d.kind = "none" => d = NoBuffer
       /\ d.kind = "slice" => ~d.own /\ d.allocator \in Msg /\ (d.buf # Null => d.buf \in DOMAIN m.heap /\ m.heap[d.buf].counted)
       /\ d.kind = "raw" => ~d.own
       /\ d.kind \in {"detached", "raw"} =>
            /\ d.allocator \in {Default, Arena}
            /\ d.buf # Null => /\ d.buf \in DOMAIN m.heap /\ ~m.heap[d.buf].counted
                               /\ m.heap[d.buf].by = d.allocator /\ DOMAIN m.heap[d.buf].bytes = 1 .. d.reserved
                               /\ \A g \in Holder : m.held[g].kind # "slice" /\ m.held[g].buf = d.buf => g = h

NoLeak(m) ==
  \A p \in DOMAIN m.heap :
    IF m.heap[p].counted THEN (\E s \in Msg : m.slice[s] = p) \/ \E h \in Holder : m.held[h].kind = "slice" /\ m.held[h].buf = p
    ELSE (\E o \in DOMAIN m.vec \cap Plain : m.vec[o].buf = p) \/ \E h \in Holder : m.held[h].kind # "slice" /\ m.held[h].buf = p

ArenaOwned(m) ==
  /\ \A o \in DOMAIN m.vec : m.vec[o].own => m.vec[o].allocator = Arena
  /\ \A h \in Holder : m.held[h].own => m.held[h].allocator = Arena
  /\ m.arena = "none" => (\A o \in DOMAIN m.vec : m.vec[o].allocator # Arena) /\ \A h \in Holder : m.held[h].allocator # Arena
  /\ m.arena = "deleted" =>
       (\A o \in DOMAIN m.vec : m.vec[o].allocator # Arena) /\ \A h \in Holder : m.held[h].kind # "raw" => m.held[h].allocator # Arena
  /\ \A o \in DOMAIN m.vec : m.vec[o].own =>
       /\ \A q \in DOMAIN m.vec : m.vec[q].allocator = Arena => q = o
       /\ \A h \in Holder : m.held[h].kind # "raw" => m.held[h].allocator # Arena
  /\ \A h \in Holder : m.held[h].own =>
       /\ \A o \in DOMAIN m.vec : m.vec[o].allocator # Arena
       /\ \A g \in Holder : m.held[g].kind # "raw" /\ m.held[g].allocator = Arena => g = h

Owned(m) == Layout(m) /\ PlainOwn(m) /\ MsgOwn(m) /\ SlicesOwn(m) /\ HeldOwn(m) /\ NoLeak(m)
MemInv(m) == MemTypes(m) /\ Owned(m) /\ ArenaOwned(m)
Inv == DOMAIN mem.vec \subseteq Object /\ RawFirst(mem) /\ MemInv(mem)
-----------------------------------------------------------------------------
(* Growth and addresses.                                                    *)

\* A block that grows for one byte more gets larger.
LEMMA GrownIsLarger ==
  ASSUME Parameters, NEW r \in Nat, NEW i \in Nat
  PROVE  Grown(r, 1, i, MinAlign) \in Nat /\ Grown(r, 1, i, MinAlign) > r
<1> DEFINE more == Max2(1, IF r # 0 THEN r \div 2 ELSE i)
           n == r + more
           q == (n + MinAlign - 1) \div MinAlign
<1>1. more \in Nat /\ more >= 1
  BY DEF Max2
<1>2. n \in Nat /\ n > r /\ MinAlign \in Nat /\ MinAlign > 0
  BY <1>1 DEF Parameters
<1> HIDE DEF more, n
<1>3. q \in Nat /\ MinAlign * q <= n + MinAlign - 1 /\ n + MinAlign - 1 < MinAlign * (q + 1)
  BY <1>2
<1> HIDE DEF q
<1>4. MinAlign * (q + 1) = MinAlign * q + MinAlign /\ q * MinAlign = MinAlign * q /\ MinAlign * q \in Nat
  BY <1>2, <1>3
<1>5. q * MinAlign \in Nat /\ q * MinAlign >= n
  BY <1>2, <1>3, <1>4
<1> QED BY <1>2, <1>5 DEF Grown, RoundUp, n, q, more

\* There is an address for a new block.
LEMMA FreshIsNew ==
  ASSUME NEW m, IsFiniteSet(DOMAIN m.heap)
  PROVE  Fresh(m) \in Nat \ {0} /\ Fresh(m) \notin DOMAIN m.heap
<1> DEFINE D == DOMAIN m.heap
           n == Cardinality(D)
<1>1. n \in Nat
  BY FS_CardinalityType
<1>2. IsFiniteSet(1 .. n + 1) /\ Cardinality(1 .. n + 1) = n + 1
  BY <1>1, FS_Interval
<1>3. ~(1 .. n + 1 \subseteq D)
  BY <1>1, <1>2, FS_Subset
<1>4. \E p \in 1 .. n + 1 : p \notin D
  BY <1>3
<1> QED BY <1>1, <1>4 DEF Fresh

-----------------------------------------------------------------------------
(* What changes to the memory leave its owners as they should be.           *)

\* The same pointers to the same blocks: only bytes, and what of them is in use.
SamePointers(m, n) ==
  /\ DOMAIN n.vec = DOMAIN m.vec
  /\ \A o \in DOMAIN m.vec :
       /\ n.vec[o].buf = m.vec[o].buf /\ n.vec[o].allocator = m.vec[o].allocator /\ n.vec[o].own = m.vec[o].own
       /\ n.vec[o].reserved = m.vec[o].reserved
       /\ n.vec[o].cur + n.vec[o].size = n.vec[o].reserved /\ n.vec[o].scratch <= n.vec[o].cur
  /\ DOMAIN n.heap = DOMAIN m.heap
  /\ \A p \in DOMAIN m.heap :
       /\ n.heap[p].by = m.heap[p].by /\ n.heap[p].counted = m.heap[p].counted
       /\ DOMAIN n.heap[p].bytes = DOMAIN m.heap[p].bytes
  /\ n.held = m.held /\ n.slice = m.slice

LEMMA SameOwned ==
  ASSUME NEW m, NEW n, MemTypes(m), Owned(m), MemTypes(n), SamePointers(m, n)
  PROVE  Owned(n)
<1>1. Layout(n)
  BY DEF Owned, Layout, SamePointers
<1>2. PlainOwn(n)
  BY DEF Owned, PlainOwn, Layout, SamePointers
<1>3. MsgOwn(n)
  BY DEF Owned, MsgOwn, SamePointers
<1>4. SlicesOwn(n)
  BY DEF Owned, SlicesOwn, SamePointers
<1>5. HeldOwn(n)
  BY DEF Owned, HeldOwn, SamePointers
<1>6. NoLeak(n)
  BY DEF Owned, NoLeak, SamePointers
<1> QED BY <1>1, <1>2, <1>3, <1>4, <1>5, <1>6 DEF Owned

\* A holder's pointer leads to a block, which is counted if the holder has a slice.
LEMMA PointersOfHeld ==
  ASSUME NEW m, MemTypes(m), Owned(m), NEW h \in Holder, m.held[h].buf # Null
  PROVE  /\ m.held[h].buf \in DOMAIN m.heap
         /\ m.heap[m.held[h].buf].counted <=> m.held[h].kind = "slice"
         /\ m.held[h].kind # "slice" => m.held[h].kind \in {"detached", "raw"}
<1>1. m.held[h].kind \in {"none", "detached", "raw", "slice"}
  BY DEF MemTypes, Held
<1>2. m.held[h].kind # "none"
  BY DEF Owned, HeldOwn, NoBuffer
<1>3. CASE m.held[h].kind = "slice"
  BY <1>3 DEF Owned, HeldOwn
<1>4. CASE m.held[h].kind \in {"detached", "raw"}
  BY <1>4 DEF Owned, HeldOwn
<1> QED BY <1>1, <1>2, <1>3, <1>4

\* The block of vector o is replaced by a larger one.
LEMMA PlainGrows ==
  ASSUME Parameters, NEW m, NEW n, MemTypes(m), Owned(m), MemTypes(n),
         NEW o \in DOMAIN m.vec \cap Plain, NEW p, p \notin DOMAIN m.heap, p # Null,
         DOMAIN n.vec = DOMAIN m.vec, \A q \in DOMAIN m.vec \ {o} : n.vec[q] = m.vec[q],
         n.vec[o].buf = p, n.vec[o].allocator = m.vec[o].allocator, n.vec[o].reserved > 0,
         n.vec[o].cur + n.vec[o].size = n.vec[o].reserved, n.vec[o].scratch <= n.vec[o].cur,
         DOMAIN n.heap = (DOMAIN m.heap \ {m.vec[o].buf}) \cup {p},
         \A q \in DOMAIN n.heap \ {p} : n.heap[q] = m.heap[q],
         n.heap[p].by = m.vec[o].allocator, ~n.heap[p].counted, DOMAIN n.heap[p].bytes = 1 .. n.vec[o].reserved,
         n.held = m.held, n.slice = m.slice
  PROVE  Owned(n)
<1> DEFINE old == m.vec[o].buf
<1>0. Plain \cap Msg = {} /\ o \notin Msg
  BY DEF Plain, Msg, Parameters
<1>1. old # Null => \A q \in DOMAIN m.vec \ {o} : m.vec[q].buf # old
  BY DEF Owned, PlainOwn
<1>2. \A q \in DOMAIN m.vec : m.vec[q].buf # Null => m.vec[q].buf \in DOMAIN m.heap
  BY DEF Owned, Layout
<1>3. Layout(n)
  <2> SUFFICES ASSUME NEW q \in DOMAIN m.vec, q # o
               PROVE  m.vec[q].buf # Null => /\ m.vec[q].buf \in DOMAIN n.heap
                                             /\ n.heap[m.vec[q].buf] = m.heap[m.vec[q].buf]
    BY DEF Owned, Layout
  <2> QED BY <1>1, <1>2
<1>4. \A h \in Holder : m.held[h].kind # "slice" /\ m.held[h].buf # Null => m.held[h].buf \in DOMAIN m.heap /\ m.held[h].buf # old
  BY PointersOfHeld DEF Owned, PlainOwn
<1>5. PlainOwn(n)
  BY <1>1, <1>2, <1>4 DEF Owned, PlainOwn
<1>6. MsgOwn(n)
  BY <1>0 DEF Owned, MsgOwn
<1>7. old # Null => ~m.heap[old].counted
  BY DEF Owned, PlainOwn
<1>8. SlicesOwn(n)
  BY <1>0, <1>7 DEF Owned, SlicesOwn
<1>9. HeldOwn(n)
  BY <1>0, <1>4, <1>7 DEF Owned, HeldOwn
<1>10. NoLeak(n)
  BY <1>0, <1>1, <1>4 DEF Owned, NoLeak
<1> QED BY <1>3, <1>5, <1>6, <1>8, <1>9, <1>10 DEF Owned

\* Is there a slice of block p?
SlicedAt(m, p) == (\E s \in Msg : m.slice[s] = p) \/ \E h \in Holder : m.held[h].buf = p

LEMMA MsgGrows ==
  ASSUME Parameters, NEW m, NEW n, MemTypes(m), Owned(m), MemTypes(n),
         NEW o \in DOMAIN m.vec \cap Msg, NEW p, p \notin DOMAIN m.heap, p # Null,
         DOMAIN n.vec = DOMAIN m.vec, \A q \in DOMAIN m.vec \ {o} : n.vec[q] = m.vec[q],
         n.vec[o].buf = p, n.vec[o].allocator = o, ~n.vec[o].own, n.vec[o].reserved > 0,
         n.vec[o].cur + n.vec[o].size = n.vec[o].reserved, n.vec[o].scratch <= n.vec[o].cur,
         \A q : q \in DOMAIN n.heap <=> q = p \/ (q \in DOMAIN m.heap /\ (m.heap[q].counted => SlicedAt(n, q))),
         \A q \in DOMAIN n.heap \ {p} : n.heap[q] = m.heap[q],
         n.heap[p].counted, DOMAIN n.heap[p].bytes = 1 .. n.vec[o].reserved,
         n.held = m.held, n.slice = [m.slice EXCEPT ![o] = p]
  PROVE  Owned(n)
<1>0. Plain \cap Msg = {} /\ o \notin Plain
  BY DEF Plain, Msg, Parameters
<1>1. DOMAIN m.slice = Msg /\ n.slice[o] = p /\ \A s \in Msg \ {o} : n.slice[s] = m.slice[s]
  BY DEF MemTypes
<1>2. \A q \in DOMAIN m.heap : ~m.heap[q].counted \/ SlicedAt(n, q) => q \in DOMAIN n.heap /\ q # p /\ n.heap[q] = m.heap[q]
  OBVIOUS
<1>3. \A q \in DOMAIN m.vec \ {o} : m.vec[q].buf # Null =>
        m.vec[q].buf \in DOMAIN m.heap /\ (~m.heap[m.vec[q].buf].counted \/ SlicedAt(n, m.vec[q].buf))
  <2> SUFFICES ASSUME NEW q \in DOMAIN m.vec \ {o}, m.vec[q].buf # Null
               PROVE  m.vec[q].buf \in DOMAIN m.heap /\ (~m.heap[m.vec[q].buf].counted \/ SlicedAt(n, m.vec[q].buf))
    OBVIOUS
  <2>1. m.vec[q].buf \in DOMAIN m.heap /\ q \in Plain \cup Msg
    BY DEF Owned, Layout, MemTypes
  <2>2. CASE q \in Plain
    BY <2>1, <2>2 DEF Owned, PlainOwn
  <2>3. CASE q \in Msg
    BY <1>1, <2>1, <2>3 DEF Owned, MsgOwn, SlicedAt
  <2> QED BY <2>1, <2>2, <2>3
<1>4. \A h \in Holder : m.held[h].buf # Null =>
        m.held[h].buf \in DOMAIN m.heap /\ SlicedAt(n, m.held[h].buf)
  BY PointersOfHeld DEF SlicedAt
<1>5. Layout(n)
  BY <1>2, <1>3 DEF Owned, Layout
<1>6. PlainOwn(n)
  BY <1>0, <1>2, <1>3, <1>4 DEF Owned, PlainOwn
<1>7. MsgOwn(n)
  BY <1>1 DEF Owned, MsgOwn
<1>8. SlicesOwn(n)
  BY <1>1, <1>2 DEF Owned, SlicesOwn, SlicedAt
<1>9. HeldOwn(n)
  BY <1>2, <1>4 DEF Owned, HeldOwn
<1>10. NoLeak(n)
  <2> SUFFICES ASSUME NEW q \in DOMAIN n.heap, q # p
               PROVE  IF n.heap[q].counted
                        THEN (\E s \in Msg : n.slice[s] = q) \/ \E h \in Holder : n.held[h].kind = "slice" /\ n.held[h].buf = q
                        ELSE \/ \E v \in DOMAIN n.vec \cap Plain : n.vec[v].buf = q
                             \/ \E h \in Holder : n.held[h].kind # "slice" /\ n.held[h].buf = q
    BY <1>1 DEF NoLeak
  <2>1. q \in DOMAIN m.heap /\ n.heap[q] = m.heap[q] /\ (m.heap[q].counted => SlicedAt(n, q)) /\ q # Null
    BY DEF MemTypes, Parameters
  <2>2. CASE m.heap[q].counted
    BY <2>1, <2>2, PointersOfHeld DEF SlicedAt
  <2>3. CASE ~m.heap[q].counted
    BY <1>0, <2>1, <2>3 DEF Owned, NoLeak
  <2> QED BY <2>1, <2>2, <2>3
<1> QED BY <1>5, <1>6, <1>7, <1>8, <1>9, <1>10 DEF Owned

\* A new vector has no block.
LEMMA VectorAdded ==
  ASSUME Parameters, NEW m, NEW n, MemTypes(m), Owned(m), MemTypes(n),
         NEW o \in Plain \cup Msg, o \notin DOMAIN m.vec,
         DOMAIN n.vec = DOMAIN m.vec \cup {o}, \A q \in DOMAIN m.vec : n.vec[q] = m.vec[q],
         n.vec[o].buf = Null, n.vec[o].reserved = 0, n.vec[o].cur = 0, n.vec[o].size = 0, n.vec[o].scratch = 0,
         o \in Plain => n.vec[o].allocator \in {Default, Arena},
         o \in Msg => n.vec[o].allocator = o /\ ~n.vec[o].own,
         n.heap = m.heap, n.held = m.held, n.slice = m.slice
  PROVE  Owned(n)
<1>1. o \in Msg => m.slice[o] = Null
  BY DEF Owned, SlicesOwn
<1>2. Layout(n)
  BY DEF Owned, Layout
<1>3. PlainOwn(n)
  <2>1. \A q \in DOMAIN m.vec \cap Plain : n.vec[q].buf # Null => q # o
    OBVIOUS
  <2> QED BY <2>1 DEF Owned, PlainOwn
<1>4. MsgOwn(n)
  BY <1>1 DEF Owned, MsgOwn
<1>5. SlicesOwn(n)
  BY DEF Owned, SlicesOwn
<1>6. HeldOwn(n)
  BY DEF Owned, HeldOwn
<1>7. NoLeak(n)
  BY DEF Owned, NoLeak
<1> QED BY <1>2, <1>3, <1>4, <1>5, <1>6, <1>7 DEF Owned

\* A vector that gives up its block, and may itself be gone.
LEMMA PlainEmptied ==
  ASSUME Parameters, NEW m, NEW n, MemTypes(m), Owned(m), MemTypes(n), NEW o \in DOMAIN m.vec \cap Plain,
         DOMAIN n.vec \in {DOMAIN m.vec, DOMAIN m.vec \ {o}}, \A q \in DOMAIN n.vec \ {o} : n.vec[q] = m.vec[q],
         o \in DOMAIN n.vec => /\ n.vec[o].buf = Null /\ n.vec[o].reserved = 0 /\ n.vec[o].allocator = m.vec[o].allocator
                               /\ n.vec[o].cur = 0 /\ n.vec[o].size = 0 /\ n.vec[o].scratch = 0,
         DOMAIN n.heap = DOMAIN m.heap \ {m.vec[o].buf}, \A q \in DOMAIN n.heap : n.heap[q] = m.heap[q],
         n.held = m.held, n.slice = m.slice
  PROVE  Owned(n)
<1> DEFINE old == m.vec[o].buf
<1>0. Plain \cap Msg = {} /\ o \notin Msg
  BY DEF Plain, Msg, Parameters
<1>1. old # Null => \A q \in DOMAIN m.vec \ {o} : m.vec[q].buf # old
  BY DEF Owned, PlainOwn
<1>2. \A q \in DOMAIN m.vec \ {o} : m.vec[q].buf # Null => m.vec[q].buf \in DOMAIN n.heap
  BY <1>1 DEF Owned, Layout
<1>3. Layout(n)
  BY <1>2 DEF Owned, Layout
<1>4. \A h \in Holder : m.held[h].kind # "slice" /\ m.held[h].buf # Null => m.held[h].buf \in DOMAIN m.heap /\ m.held[h].buf # old
  BY PointersOfHeld DEF Owned, PlainOwn
<1>5. PlainOwn(n)
  BY <1>2 DEF Owned, PlainOwn
<1>6. MsgOwn(n)
  BY <1>0 DEF Owned, MsgOwn
<1>7. old # Null => ~m.heap[old].counted
  BY DEF Owned, PlainOwn
<1>8. SlicesOwn(n)
  BY <1>0, <1>7 DEF Owned, SlicesOwn
<1>9. HeldOwn(n)
  BY <1>0, <1>4, <1>7 DEF Owned, HeldOwn
<1>10. NoLeak(n)
  BY <1>0, <1>1, <1>4 DEF Owned, NoLeak
<1> QED BY <1>3, <1>5, <1>6, <1>8, <1>9, <1>10 DEF Owned

LEMMA MsgEmptied ==
  ASSUME Parameters, NEW m, NEW n, MemTypes(m), Owned(m), MemTypes(n), NEW o \in DOMAIN m.vec \cap Msg,
         DOMAIN n.vec \in {DOMAIN m.vec, DOMAIN m.vec \ {o}}, \A q \in DOMAIN n.vec \ {o} : n.vec[q] = m.vec[q],
         o \in DOMAIN n.vec => /\ n.vec[o].buf = Null /\ n.vec[o].reserved = 0 /\ n.vec[o].allocator = o /\ ~n.vec[o].own
                               /\ n.vec[o].cur = 0 /\ n.vec[o].size = 0 /\ n.vec[o].scratch = 0,
         \A q : q \in DOMAIN n.heap <=> q \in DOMAIN m.heap /\ (m.heap[q].counted => SlicedAt(n, q)),
         \A q \in DOMAIN n.heap : n.heap[q] = m.heap[q],
         n.held = m.held, n.slice = [m.slice EXCEPT ![o] = Null]
  PROVE  Owned(n)
<1>0. Plain \cap Msg = {} /\ o \notin Plain
  BY DEF Plain, Msg, Parameters
<1>1. DOMAIN m.slice = Msg /\ n.slice[o] = Null /\ \A s \in Msg \ {o} : n.slice[s] = m.slice[s]
  BY DEF MemTypes
<1>3. \A q \in DOMAIN m.vec \ {o} : m.vec[q].buf # Null =>
        m.vec[q].buf \in DOMAIN m.heap /\ (~m.heap[m.vec[q].buf].counted \/ SlicedAt(n, m.vec[q].buf))
  <2> SUFFICES ASSUME NEW q \in DOMAIN m.vec \ {o}, m.vec[q].buf # Null
               PROVE  m.vec[q].buf \in DOMAIN m.heap /\ (~m.heap[m.vec[q].buf].counted \/ SlicedAt(n, m.vec[q].buf))
    OBVIOUS
  <2>1. m.vec[q].buf \in DOMAIN m.heap /\ q \in Plain \cup Msg
    BY DEF Owned, Layout, MemTypes
  <2>2. CASE q \in Plain
    BY <2>1, <2>2 DEF Owned, PlainOwn
  <2>3. CASE q \in Msg
    BY <1>1, <2>1, <2>3 DEF Owned, MsgOwn, SlicedAt
  <2> QED BY <2>1, <2>2, <2>3
<1>4. \A h \in Holder : m.held[h].buf # Null =>
        m.held[h].buf \in DOMAIN m.heap /\ SlicedAt(n, m.held[h].buf)
  BY PointersOfHeld DEF SlicedAt
<1>5. Layout(n)
  BY <1>3 DEF Owned, Layout
<1>6. PlainOwn(n)
  BY <1>0, <1>3, <1>4 DEF Owned, PlainOwn
<1>7. MsgOwn(n)
  BY <1>1 DEF Owned, MsgOwn
<1>8. SlicesOwn(n)
  BY <1>1 DEF Owned, SlicesOwn, SlicedAt
<1>9. HeldOwn(n)
  BY <1>4 DEF Owned, HeldOwn
<1>10. NoLeak(n)
  <2> SUFFICES ASSUME NEW q \in DOMAIN n.heap
               PROVE  IF n.heap[q].counted
                        THEN (\E s \in Msg : n.slice[s] = q) \/ \E h \in Holder : n.held[h].kind = "slice" /\ n.held[h].buf = q
                        ELSE \/ \E v \in DOMAIN n.vec \cap Plain : n.vec[v].buf = q
                             \/ \E h \in Holder : n.held[h].kind # "slice" /\ n.held[h].buf = q
    BY DEF NoLeak
  <2>1. q \in DOMAIN m.heap /\ n.heap[q] = m.heap[q] /\ (m.heap[q].counted => SlicedAt(n, q)) /\ q # Null
    BY DEF MemTypes, Parameters
  <2>2. CASE m.heap[q].counted
    BY <2>1, <2>2, PointersOfHeld DEF SlicedAt
  <2>3. CASE ~m.heap[q].counted
    BY <1>0, <2>1, <2>3 DEF Owned, NoLeak
  <2> QED BY <2>1, <2>2, <2>3
<1> QED BY <1>5, <1>6, <1>7, <1>8, <1>9, <1>10 DEF Owned

\* Two builders exchange their vectors.
LEMMA PlainSwapped ==
  ASSUME Parameters, NEW m, NEW n, MemTypes(m), Owned(m), MemTypes(n),
         NEW o \in DOMAIN m.vec \cap Plain, NEW p \in DOMAIN m.vec \cap Plain,
         n.vec = [m.vec EXCEPT ![o] = m.vec[p], ![p] = m.vec[o]],
         n.heap = m.heap, n.held = m.held, n.slice = m.slice
  PROVE  Owned(n)
<1>0. Plain \cap Msg = {}
  BY DEF Plain, Msg, Parameters
<1>1. DOMAIN n.vec = DOMAIN m.vec /\ n.vec[o] = m.vec[p] /\ n.vec[p] = m.vec[o]
      /\ \A q \in DOMAIN m.vec \ {o, p} : n.vec[q] = m.vec[q]
  OBVIOUS
<1>2. Layout(n)
  BY <1>1 DEF Owned, Layout
<1>3. PlainOwn(n)
  BY <1>1 DEF Owned, PlainOwn
<1>4. MsgOwn(n)
  BY <1>0, <1>1 DEF Owned, MsgOwn
<1>5. SlicesOwn(n)
  BY <1>1 DEF Owned, SlicesOwn
<1>6. HeldOwn(n)
  BY DEF Owned, HeldOwn
<1>7. NoLeak(n)
  BY <1>1 DEF Owned, NoLeak
<1> QED BY <1>2, <1>3, <1>4, <1>5, <1>6, <1>7 DEF Owned

SameStorage(v, w) ==
  v.buf = w.buf /\ v.reserved = w.reserved /\ v.size = w.size /\ v.cur = w.cur /\ v.scratch = w.scratch

\* Two message builders exchange all but their allocators.
\* The blocks that are still there have the bytes they had.
Frozen(m, n) == \A p \in DOMAIN n.heap : p \in DOMAIN m.heap /\ n.heap[p].bytes = m.heap[p].bytes

\* Two vectors have exchanged what they have, and which of them is finished.
FinishedExchanged(m, n, o, p) ==
  /\ m.finished \ {o, p} \subseteq n.finished
  /\ o \in m.finished => p \in n.finished
  /\ p \in m.finished => o \in n.finished
Exchanged(m, n, o, p) ==
  /\ DOMAIN n.vec = DOMAIN m.vec /\ \A q \in DOMAIN m.vec \ {o, p} : n.vec[q] = m.vec[q]
  /\ SameStorage(n.vec[o], m.vec[p]) /\ SameStorage(n.vec[p], m.vec[o])
  /\ FinishedExchanged(m, n, o, p)

\* What o has is in the hands of h; o has given it up.
InHand(m, n, o, h) ==
  /\ Frozen(m, n) /\ \A g \in Holder \ {h} : n.held[g] = m.held[g]
  /\ n.held[h].buf = m.vec[o].buf /\ n.held[h].size = m.vec[o].size /\ n.held[h].cur = m.vec[o].cur
  /\ n.held[h].reserved = m.vec[o].reserved
GivenUp(m, n, o) ==
  /\ \A q \in DOMAIN m.vec \ {o} : n.vec[q] = m.vec[q]
  /\ n.vec[o].buf = Null /\ n.vec[o].size = 0 /\ n.vec[o].scratch = 0
  /\ m.finished \ {o} \subseteq n.finished

LEMMA MsgSwapped ==
  ASSUME Parameters, NEW m, NEW n, MemTypes(m), Owned(m), MemTypes(n),
         NEW o \in DOMAIN m.vec \cap Msg, NEW p \in DOMAIN m.vec \cap Msg, o # p,
         DOMAIN n.vec = DOMAIN m.vec, \A q \in DOMAIN m.vec \ {o, p} : n.vec[q] = m.vec[q],
         SameStorage(n.vec[o], m.vec[p]), n.vec[o].allocator = o, ~n.vec[o].own,
         SameStorage(n.vec[p], m.vec[o]), n.vec[p].allocator = p, ~n.vec[p].own,
         n.heap = m.heap, n.held = m.held, n.slice = [m.slice EXCEPT ![o] = m.slice[p], ![p] = m.slice[o]]
  PROVE  Owned(n)
<1>0. Plain \cap Msg = {}
  BY DEF Plain, Msg, Parameters
<1>1. n.slice[o] = m.slice[p] /\ n.slice[p] = m.slice[o] /\ \A s \in Msg \ {o, p} : n.slice[s] = m.slice[s]
  BY DEF MemTypes
<1>5. Layout(n)
  BY DEF Owned, Layout, SameStorage
<1>6. PlainOwn(n)
  BY <1>0 DEF Owned, PlainOwn, SameStorage
<1>7. MsgOwn(n)
  BY <1>1 DEF Owned, MsgOwn, SameStorage
<1>8. SlicesOwn(n)
  BY <1>1 DEF Owned, SlicesOwn
<1>9. HeldOwn(n)
  BY DEF Owned, HeldOwn
<1>10. NoLeak(n)
  BY <1>0, <1>1 DEF Owned, NoLeak
<1> QED BY <1>5, <1>6, <1>7, <1>8, <1>9, <1>10 DEF Owned

\* A new message builder takes the block of a builder into its slice.
LEMMA VectorAdopted ==
  ASSUME Parameters, NEW m, NEW n, MemTypes(m), Owned(m), MemTypes(n),
         NEW o \in Msg, o \notin DOMAIN m.vec, NEW from \in DOMAIN m.vec \cap Plain,
         DOMAIN n.vec = DOMAIN m.vec \cup {o}, \A q \in DOMAIN m.vec \ {from} : n.vec[q] = m.vec[q],
         SameStorage(n.vec[o], m.vec[from]), n.vec[o].allocator = o, ~n.vec[o].own,
         n.vec[from].buf = Null, n.vec[from].reserved = 0, n.vec[from].allocator \in {Default, Arena},
         n.vec[from].cur = 0, n.vec[from].size = 0, n.vec[from].scratch = 0,
         n.held = m.held, n.slice = [m.slice EXCEPT ![o] = m.vec[from].buf],
         DOMAIN n.heap = DOMAIN m.heap, \A q \in DOMAIN m.heap \ {m.vec[from].buf} : n.heap[q] = m.heap[q],
         m.vec[from].buf # Null => n.heap[m.vec[from].buf].counted /\ n.heap[m.vec[from].buf].bytes = m.heap[m.vec[from].buf].bytes
  PROVE  Owned(n)
<1> DEFINE b == m.vec[from].buf
<1>0. Plain \cap Msg = {} /\ o \notin Plain /\ from \notin Msg /\ o # from
  BY DEF Plain, Msg, Parameters
<1>1. n.slice[o] = b /\ (\A s \in Msg \ {o} : n.slice[s] = m.slice[s]) /\ m.slice[o] = Null
  BY DEF MemTypes, Owned, SlicesOwn
<1>3. b # Null => /\ b \in DOMAIN m.heap /\ ~m.heap[b].counted
                  /\ \A q \in DOMAIN m.vec : m.vec[q].buf = b => q = from
                  /\ \A h \in Holder : m.held[h].buf # b
  BY PointersOfHeld DEF Owned, Layout, PlainOwn
<1>5. Layout(n)
  <2>1. \A q \in DOMAIN m.vec \ {from} : m.vec[q].buf # Null => m.vec[q].buf # b
    BY <1>3
  <2> QED BY <1>3, <2>1 DEF Owned, Layout, SameStorage
<1>6. PlainOwn(n)
  BY <1>0, <1>3 DEF Owned, PlainOwn, Layout, SameStorage
<1>7. MsgOwn(n)
  BY <1>0, <1>1 DEF Owned, MsgOwn, SameStorage
<1>8. SlicesOwn(n)
  BY <1>1, <1>3 DEF Owned, SlicesOwn
<1>9. HeldOwn(n)
  BY <1>3 DEF Owned, HeldOwn
<1>10. NoLeak(n)
  <2> SUFFICES ASSUME NEW q \in DOMAIN m.heap
               PROVE  IF n.heap[q].counted
                        THEN (\E s \in Msg : n.slice[s] = q) \/ \E h \in Holder : n.held[h].kind = "slice" /\ n.held[h].buf = q
                        ELSE \/ \E v \in DOMAIN n.vec \cap Plain : n.vec[v].buf = q
                             \/ \E h \in Holder : n.held[h].kind # "slice" /\ n.held[h].buf = q
    BY DEF NoLeak
  <2>1. q # Null
    BY DEF MemTypes, Parameters
  <2>2. CASE q = b
    BY <1>1, <2>1, <2>2
  <2>3. CASE q # b /\ m.heap[q].counted
    BY <1>1, <2>1, <2>3 DEF Owned, NoLeak
  <2>4. CASE q # b /\ ~m.heap[q].counted
    BY <1>0, <2>1, <2>4 DEF Owned, NoLeak
  <2> QED BY <2>2, <2>3, <2>4
<1> QED BY <1>5, <1>6, <1>7, <1>8, <1>9, <1>10 DEF Owned

\* A builder hands its block to a holder that has nothing.
LEMMA PlainHanded ==
  ASSUME Parameters, NEW m, NEW n, MemTypes(m), Owned(m), MemTypes(n),
         NEW o \in DOMAIN m.vec \cap Plain, NEW h \in Holder, m.held[h].kind = "none",
         DOMAIN n.vec = DOMAIN m.vec, \A q \in DOMAIN m.vec \ {o} : n.vec[q] = m.vec[q],
         n.vec[o].buf = Null, n.vec[o].reserved = 0, n.vec[o].allocator \in {Default, Arena},
         n.vec[o].cur = 0, n.vec[o].size = 0, n.vec[o].scratch = 0,
         \A g \in Holder \ {h} : n.held[g] = m.held[g],
         n.held[h].kind \in {"detached", "raw"}, n.held[h].kind = "raw" => ~n.held[h].own,
         n.held[h].buf = m.vec[o].buf, n.held[h].allocator = m.vec[o].allocator, n.held[h].reserved = m.vec[o].reserved,
         n.heap = m.heap, n.slice = m.slice
  PROVE  Owned(n)
<1> DEFINE b == m.vec[o].buf
<1>0. Plain \cap Msg = {} /\ o \notin Msg
  BY DEF Plain, Msg, Parameters
<1>1. m.held[h].buf = Null
  BY DEF Owned, HeldOwn, NoBuffer
<1>2. Layout(n)
  BY DEF Owned, Layout
<1>3. b # Null => /\ b \in DOMAIN m.heap /\ ~m.heap[b].counted /\ m.heap[b].by = m.vec[o].allocator
                  /\ DOMAIN m.heap[b].bytes = 1 .. m.vec[o].reserved
                  /\ \A q \in DOMAIN m.vec : m.vec[q].buf = b => q = o
                  /\ \A g \in Holder : m.held[g].buf # b
  BY PointersOfHeld DEF Owned, Layout, PlainOwn
<1>4. PlainOwn(n)
  BY <1>3 DEF Owned, PlainOwn
<1>5. MsgOwn(n)
  BY <1>0 DEF Owned, MsgOwn
<1>6. SlicesOwn(n)
  BY DEF Owned, SlicesOwn
<1>7. HeldOwn(n)
  <2>1. m.vec[o].allocator \in {Default, Arena}
    BY DEF Owned, PlainOwn
  <2>2. \A g \in Holder \ {h} : n.held[g] = m.held[g] /\ m.held[g].kind \in {"none", "detached", "raw", "slice"}
    BY DEF MemTypes, Held
  <2> QED BY <1>3, <2>1, <2>2 DEF Owned, HeldOwn
<1>8. NoLeak(n)
  BY <1>1, <1>3 DEF Owned, NoLeak, MemTypes, Parameters
<1> QED BY <1>2, <1>4, <1>5, <1>6, <1>7, <1>8 DEF Owned

\* A message builder hands its slice to a holder that has nothing.
LEMMA MsgHanded ==
  ASSUME Parameters, NEW m, NEW n, MemTypes(m), Owned(m), MemTypes(n),
         NEW o \in DOMAIN m.vec \cap Msg, NEW h \in Holder, m.held[h].kind = "none",
         DOMAIN n.vec = DOMAIN m.vec, \A q \in DOMAIN m.vec \ {o} : n.vec[q] = m.vec[q],
         n.vec[o].buf = Null, n.vec[o].reserved = 0, n.vec[o].allocator = o, ~n.vec[o].own,
         n.vec[o].cur = 0, n.vec[o].size = 0, n.vec[o].scratch = 0,
         n.held = [m.held EXCEPT ![h] = Grip(m.vec[o], "slice")],
         n.heap = m.heap, n.slice = [m.slice EXCEPT ![o] = Null]
  PROVE  Owned(n)
<1> DEFINE b == m.vec[o].buf
<1>0. Plain \cap Msg = {} /\ o \notin Plain
  BY DEF Plain, Msg, Parameters
<1>1. m.held[h].buf = Null /\ b = m.slice[o] /\ m.vec[o].allocator = o /\ ~m.vec[o].own
  BY DEF Owned, HeldOwn, NoBuffer, MsgOwn
<1>2. /\ n.held[h].kind = "slice" /\ n.held[h].buf = b /\ n.held[h].allocator = o /\ ~n.held[h].own
      /\ \A g \in Holder \ {h} : n.held[g] = m.held[g]
  BY <1>1 DEF Grip, MemTypes
<1>3. n.slice[o] = Null /\ \A s \in Msg \ {o} : n.slice[s] = m.slice[s]
  BY DEF MemTypes
<1>4. b # Null => b \in DOMAIN m.heap /\ m.heap[b].counted
  BY <1>1 DEF Owned, SlicesOwn
<1>5. Layout(n)
  BY DEF Owned, Layout
<1>6. PlainOwn(n)
  BY <1>0, <1>2 DEF Owned, PlainOwn
<1>7. MsgOwn(n)
  BY <1>3 DEF Owned, MsgOwn
<1>8. SlicesOwn(n)
  BY <1>3 DEF Owned, SlicesOwn
<1>9. HeldOwn(n)
  BY <1>2, <1>4 DEF Owned, HeldOwn
<1>10. NoLeak(n)
  <2>1. \A p \in DOMAIN m.heap : p # Null
    BY DEF MemTypes, Parameters
  <2> QED BY <1>0, <1>1, <1>2, <1>3, <2>1 DEF Owned, NoLeak
<1> QED BY <1>5, <1>6, <1>7, <1>8, <1>9, <1>10 DEF Owned

\* A message shares the slice of its builder.
LEMMA SliceShared ==
  ASSUME Parameters, NEW m, NEW n, MemTypes(m), Owned(m), MemTypes(n),
         NEW o \in DOMAIN m.vec \cap Msg, NEW h \in Holder, m.held[h].kind = "none",
         n.held = [m.held EXCEPT ![h] = Grip(m.vec[o], "slice")],
         n.vec = m.vec, n.heap = m.heap, n.slice = m.slice
  PROVE  Owned(n)
<1> DEFINE b == m.vec[o].buf
<1>1. m.held[h].buf = Null /\ b = m.slice[o] /\ m.vec[o].allocator = o /\ ~m.vec[o].own
  BY DEF Owned, HeldOwn, NoBuffer, MsgOwn
<1>2. /\ n.held[h].kind = "slice" /\ n.held[h].buf = b /\ n.held[h].allocator = o /\ ~n.held[h].own
      /\ \A g \in Holder \ {h} : n.held[g] = m.held[g]
  BY <1>1 DEF Grip, MemTypes
<1>4. b # Null => b \in DOMAIN m.heap /\ m.heap[b].counted
  BY <1>1 DEF Owned, SlicesOwn
<1>5. Layout(n)
  BY DEF Owned, Layout
<1>6. PlainOwn(n)
  BY <1>2 DEF Owned, PlainOwn
<1>7. MsgOwn(n)
  BY DEF Owned, MsgOwn
<1>8. SlicesOwn(n)
  BY DEF Owned, SlicesOwn
<1>9. HeldOwn(n)
  BY <1>2, <1>4 DEF Owned, HeldOwn
<1>10. NoLeak(n)
  <2>1. \A p \in DOMAIN m.heap : p # Null
    BY DEF MemTypes, Parameters
  <2> QED BY <1>1, <1>2, <2>1 DEF Owned, NoLeak
<1> QED BY <1>5, <1>6, <1>7, <1>8, <1>9, <1>10 DEF Owned

\* What a holder has is destroyed.
LEMMA BufferDropped ==
  ASSUME Parameters, NEW m, NEW n, MemTypes(m), Owned(m), MemTypes(n),
         NEW h \in Holder, m.held[h].kind # "slice",
         n.held = [m.held EXCEPT ![h] = NoBuffer], n.vec = m.vec, n.slice = m.slice,
         DOMAIN n.heap = DOMAIN m.heap \ {m.held[h].buf}, \A q \in DOMAIN n.heap : n.heap[q] = m.heap[q]
  PROVE  Owned(n)
<1> DEFINE b == m.held[h].buf
<1>1. n.held[h] = NoBuffer /\ \A g \in Holder \ {h} : n.held[g] = m.held[g]
  BY DEF MemTypes
<1>2. b # Null => /\ b \in DOMAIN m.heap /\ ~m.heap[b].counted
                  /\ m.held[h].kind \in {"detached", "raw"}
  BY PointersOfHeld
<1>3. \A g \in Holder \ {h} : b # Null => m.held[g].buf # b
  BY <1>2, PointersOfHeld DEF Owned, HeldOwn
<1>4. \A o \in DOMAIN m.vec : b # Null => m.vec[o].buf # b
  <2> SUFFICES ASSUME NEW o \in DOMAIN m.vec, b # Null PROVE m.vec[o].buf # b
    OBVIOUS
  <2>1. CASE o \in Plain
    BY <2>1 DEF Owned, PlainOwn
  <2>2. CASE o \in Msg
    BY <1>2, <2>2 DEF Owned, MsgOwn, SlicesOwn
  <2> QED BY <2>1, <2>2 DEF MemTypes
<1>5. Layout(n)
  BY <1>4 DEF Owned, Layout
<1>6. PlainOwn(n)
  BY <1>1, <1>4 DEF Owned, PlainOwn, NoBuffer, Layout
<1>7. MsgOwn(n)
  BY DEF Owned, MsgOwn
<1>8. SlicesOwn(n)
  BY <1>2 DEF Owned, SlicesOwn
<1>9. HeldOwn(n)
  <2>1. \A g \in Holder \ {h} : m.held[g].buf # Null => m.held[g].buf \in DOMAIN n.heap
    BY <1>3, PointersOfHeld
  <2>2. NoBuffer.kind = "none" /\ NoBuffer.own = FALSE /\ NoBuffer.buf = Null
    BY DEF NoBuffer
  <2> QED BY <1>1, <2>1, <2>2 DEF Owned, HeldOwn
<1>10. NoLeak(n)
  <2>1. \A p \in DOMAIN m.heap : p # Null
    BY DEF MemTypes, Parameters
  <2> QED BY <1>1, <1>2, <2>1 DEF Owned, NoLeak
<1> QED BY <1>5, <1>6, <1>7, <1>8, <1>9, <1>10 DEF Owned

LEMMA SliceDropped ==
  ASSUME Parameters, NEW m, NEW n, MemTypes(m), Owned(m), MemTypes(n),
         NEW h \in Holder, m.held[h].kind = "slice",
         n.held = [m.held EXCEPT ![h] = NoBuffer], n.vec = m.vec, n.slice = m.slice,
         \A q : q \in DOMAIN n.heap <=> q \in DOMAIN m.heap /\ (m.heap[q].counted => SlicedAt(n, q)),
         \A q \in DOMAIN n.heap : n.heap[q] = m.heap[q]
  PROVE  Owned(n)
<1>1. n.held[h] = NoBuffer /\ \A g \in Holder \ {h} : n.held[g] = m.held[g]
  BY DEF MemTypes
<1>3. \A q \in DOMAIN m.vec : m.vec[q].buf # Null => m.vec[q].buf \in DOMAIN n.heap
  <2> SUFFICES ASSUME NEW q \in DOMAIN m.vec, m.vec[q].buf # Null PROVE m.vec[q].buf \in DOMAIN n.heap
    OBVIOUS
  <2>1. m.vec[q].buf \in DOMAIN m.heap /\ q \in Plain \cup Msg
    BY DEF Owned, Layout, MemTypes
  <2>2. CASE q \in Plain
    BY <2>1, <2>2 DEF Owned, PlainOwn
  <2>3. CASE q \in Msg
    BY <2>1, <2>3 DEF Owned, MsgOwn, SlicedAt
  <2> QED BY <2>1, <2>2, <2>3
<1>4. \A g \in Holder \ {h} : m.held[g].buf # Null => m.held[g].buf \in DOMAIN n.heap
  BY <1>1, PointersOfHeld DEF SlicedAt
<1>5. Layout(n)
  BY <1>3 DEF Owned, Layout
<1>6. PlainOwn(n)
  BY <1>1, <1>3 DEF Owned, PlainOwn, NoBuffer
<1>7. MsgOwn(n)
  BY DEF Owned, MsgOwn
<1>8. SlicesOwn(n)
  BY DEF Owned, SlicesOwn, SlicedAt
<1>9. HeldOwn(n)
  <2>2. NoBuffer.kind = "none" /\ NoBuffer.own = FALSE /\ NoBuffer.buf = Null
    BY DEF NoBuffer
  <2> QED BY <1>1, <1>4, <2>2 DEF Owned, HeldOwn
<1>10. NoLeak(n)
  <2> SUFFICES ASSUME NEW q \in DOMAIN n.heap
               PROVE  IF n.heap[q].counted
                        THEN (\E s \in Msg : n.slice[s] = q) \/ \E g \in Holder : n.held[g].kind = "slice" /\ n.held[g].buf = q
                        ELSE \/ \E v \in DOMAIN n.vec \cap Plain : n.vec[v].buf = q
                             \/ \E g \in Holder : n.held[g].kind # "slice" /\ n.held[g].buf = q
    BY DEF NoLeak
  <2>1. q \in DOMAIN m.heap /\ n.heap[q] = m.heap[q] /\ (m.heap[q].counted => SlicedAt(n, q)) /\ q # Null
    BY DEF MemTypes, Parameters
  <2>2. CASE m.heap[q].counted
    BY <1>1, <2>1, <2>2, PointersOfHeld DEF SlicedAt, NoBuffer
  <2>3. CASE ~m.heap[q].counted
    BY <1>1, <2>1, <2>3 DEF Owned, NoLeak
  <2> QED BY <2>1, <2>2, <2>3
<1> QED BY <1>5, <1>6, <1>7, <1>8, <1>9, <1>10 DEF Owned

\* A holder passes what it has to one that has nothing.
LEMMA HeldMoved ==
  ASSUME Parameters, NEW m, NEW n, MemTypes(m), Owned(m), MemTypes(n),
         NEW h \in Holder, NEW g \in Holder, h # g, m.held[h].kind = "none",
         n.held = [m.held EXCEPT ![h] = m.held[g], ![g] = NoBuffer],
         n.vec = m.vec, n.heap = m.heap, n.slice = m.slice
  PROVE  Owned(n)
<1>1. n.held[h] = m.held[g] /\ n.held[g] = NoBuffer /\ \A f \in Holder \ {h, g} : n.held[f] = m.held[f]
  BY DEF MemTypes
<1>2. m.held[h] = NoBuffer /\ NoBuffer.buf = Null /\ NoBuffer.kind = "none" /\ NoBuffer.own = FALSE
  BY DEF Owned, HeldOwn, NoBuffer
<1>3. \A p \in DOMAIN m.heap : p # Null
  BY DEF MemTypes, Parameters
<1>5. Layout(n)
  BY DEF Owned, Layout
<1>6. PlainOwn(n)
  BY <1>1, <1>2 DEF Owned, PlainOwn
<1>7. MsgOwn(n)
  BY DEF Owned, MsgOwn
<1>8. SlicesOwn(n)
  BY DEF Owned, SlicesOwn
<1>9. HeldOwn(n)
  <2>1. \A f \in Holder : m.held[f].buf # Null /\ n.held[f].buf # Null => f # h /\ f # g
    BY <1>1, <1>2
  <2> QED BY <1>1, <1>2 DEF Owned, HeldOwn
<1>10. NoLeak(n)
  BY <1>1, <1>2, <1>3 DEF Owned, NoLeak
<1> QED BY <1>5, <1>6, <1>7, <1>8, <1>9, <1>10 DEF Owned

-----------------------------------------------------------------------------
(* The operations of the builders.                                          *)

NoArena(m) == (\A o \in DOMAIN m.vec : m.vec[o].allocator # Arena) /\ \A h \in Holder : m.held[h].allocator # Arena

LEMMA ConstructKeeps ==
  ASSUME Parameters, NEW m, MemInv(m), NEW o \in Plain \cup Msg, o \notin DOMAIN m.vec, NEW a, NEW own \in BOOLEAN,
         o \in Plain => a \in {Default, Arena}, o \in Msg => a = o /\ ~own, own => a = Arena,
         a = Arena => m.arena = "made" /\ NoArena(m)
  PROVE  LET n == Construct(m, o, a, own)
         IN  /\ MemInv(n) /\ DOMAIN n.vec = DOMAIN m.vec \cup {o} /\ n.vec[o] = NewVector(a, own, InitialSize)
             /\ \A q \in DOMAIN m.vec : n.vec[q] = m.vec[q]
             /\ n.heap = m.heap /\ n.finished = m.finished /\ n.arena = m.arena /\ n.held = m.held /\ n.slice = m.slice
<1> DEFINE v == NewVector(a, own, InitialSize)
           n == Construct(m, o, a, own)
<1>1. /\ IsMem(n) /\ n.vec = [q \in DOMAIN m.vec \cup {o} |-> IF q = o THEN v ELSE m.vec[q]] /\ n.failed = m.failed
      /\ n.heap = m.heap /\ n.finished = m.finished /\ n.arena = m.arena /\ n.held = m.held /\ n.slice = m.slice
  BY DEF Construct, MemInv, MemTypes, IsMem
<1>2. /\ v.allocator = a /\ v.own = own /\ v.reserved = 0 /\ v.size = 0 /\ v.buf = Null /\ v.cur = 0 /\ v.scratch = 0
      /\ Vector(v)
  BY DEF NewVector, Vector, Parameters
<1> HIDE DEF v, n
<1>3. DOMAIN n.vec = DOMAIN m.vec \cup {o} /\ n.vec[o] = v /\ \A q \in DOMAIN m.vec : n.vec[q] = m.vec[q]
  BY <1>1
<1>4. MemTypes(n)
  <2>1. n.vec = [q \in DOMAIN n.vec |-> n.vec[q]]
    BY <1>1
  <2> QED BY <1>1, <1>2, <1>3, <2>1 DEF MemInv, MemTypes
<1>5. Owned(n)
  BY <1>1, <1>2, <1>3, <1>4, VectorAdded DEF MemInv
<1>6. ArenaOwned(n)
  BY <1>1, <1>2, <1>3 DEF MemInv, ArenaOwned, NoArena
<1> QED BY <1>1, <1>3, <1>4, <1>5, <1>6 DEF MemInv, n, v

\* Vectors that point to the same blocks, whatever of them is in use.
LEMMA SameKeeps ==
  ASSUME NEW m, NEW n, MemInv(m), MemTypes(n), SamePointers(m, n), n.arena = m.arena
  PROVE  MemInv(n)
<1>1. Owned(n)
  BY SameOwned DEF MemInv
<1>2. ArenaOwned(n)
  BY DEF MemInv, ArenaOwned, SamePointers
<1> QED BY <1>1, <1>2 DEF MemInv

\* Vector o is set to one that points to the same block.
LEMMA SetVectorKeeps ==
  ASSUME NEW m, MemInv(m), NEW o \in DOMAIN m.vec, NEW v, Vector(v),
         v.buf = m.vec[o].buf, v.allocator = m.vec[o].allocator, v.own = m.vec[o].own, v.reserved = m.vec[o].reserved,
         v.cur + v.size = v.reserved, v.scratch <= v.cur
  PROVE  LET n == SetVector(m, o, v)
         IN  /\ MemInv(n) /\ DOMAIN n.vec = DOMAIN m.vec /\ n.vec[o] = v
             /\ \A q \in DOMAIN m.vec \ {o} : n.vec[q] = m.vec[q]
             /\ n.heap = m.heap /\ n.finished = m.finished /\ n.arena = m.arena /\ n.held = m.held /\ n.slice = m.slice
<1> DEFINE n == SetVector(m, o, v)
<1>1. /\ IsMem(n) /\ n.vec = [m.vec EXCEPT ![o] = v] /\ n.failed = m.failed
      /\ n.heap = m.heap /\ n.finished = m.finished /\ n.arena = m.arena /\ n.held = m.held /\ n.slice = m.slice
  BY DEF SetVector, MemInv, MemTypes, IsMem
<1> HIDE DEF n
<1>2. DOMAIN n.vec = DOMAIN m.vec /\ n.vec[o] = v /\ \A q \in DOMAIN m.vec \ {o} : n.vec[q] = m.vec[q]
  BY <1>1
<1>3. MemTypes(n)
  <2>1. n.vec = [q \in DOMAIN n.vec |-> n.vec[q]]
    BY <1>1
  <2> QED BY <1>1, <1>2, <2>1 DEF MemInv, MemTypes
<1>4. SamePointers(m, n)
  BY <1>1, <1>2 DEF SamePointers, MemInv, Owned, Layout
<1>5. MemInv(n)
  BY <1>1, <1>3, <1>4, SameKeeps
<1> QED BY <1>1, <1>2, <1>5 DEF n

\* Which buffers are finished has no part in it.
LEMMA FinishedKeeps ==
  ASSUME NEW m, MemInv(m), NEW F, F \subseteq DOMAIN m.vec
  PROVE  LET n == [m EXCEPT !.finished = F]
         IN  /\ MemInv(n) /\ n.finished = F
             /\ n.vec = m.vec /\ n.heap = m.heap /\ n.arena = m.arena /\ n.held = m.held /\ n.slice = m.slice
<1> DEFINE n == [m EXCEPT !.finished = F]
<1>1. /\ IsMem(n) /\ n.vec = m.vec /\ n.failed = m.failed
      /\ n.heap = m.heap /\ n.finished = F /\ n.arena = m.arena /\ n.held = m.held /\ n.slice = m.slice
  BY DEF MemInv, MemTypes, IsMem
<1> HIDE DEF n
<1>3. MemTypes(n)
  BY <1>1 DEF MemInv, MemTypes
<1>4. SamePointers(m, n)
  BY <1>1 DEF SamePointers, MemInv, Owned, Layout
<1>5. MemInv(n)
  BY <1>1, <1>3, <1>4, SameKeeps
<1> QED BY <1>1, <1>5 DEF n

\* Clear drops what is written, and keeps the block.
LEMMA ClearKeeps ==
  ASSUME NEW m, MemInv(m), NEW o \in DOMAIN m.vec
  PROVE  LET n == ClearBuilder(m, o)
         IN  /\ MemInv(n) /\ DOMAIN n.vec = DOMAIN m.vec /\ \A q \in DOMAIN m.vec \ {o} : n.vec[q] = m.vec[q]
             /\ n.vec[o].buf = m.vec[o].buf /\ n.vec[o].allocator = m.vec[o].allocator /\ n.vec[o].own = m.vec[o].own
             /\ n.vec[o].size = 0 /\ n.vec[o].scratch = 0
             /\ n.heap = m.heap /\ n.finished = m.finished \ {o} /\ n.arena = m.arena /\ n.held = m.held /\ n.slice = m.slice
<1> DEFINE c == [m EXCEPT !.finished = m.finished \ {o}]
           v == ClearVector(m.vec[o])
<1>1. /\ MemInv(c) /\ c.vec = m.vec /\ c.finished = m.finished \ {o}
      /\ c.heap = m.heap /\ c.arena = m.arena /\ c.held = m.held /\ c.slice = m.slice
  <2>1. m.finished \ {o} \subseteq DOMAIN m.vec
    BY DEF MemInv, MemTypes
  <2> QED BY <2>1, FinishedKeeps
<1>2. /\ v.buf = m.vec[o].buf /\ v.allocator = m.vec[o].allocator /\ v.own = m.vec[o].own
      /\ v.reserved = (IF m.vec[o].buf # Null THEN m.vec[o].reserved ELSE 0) /\ v.cur = v.reserved /\ v.size = 0 /\ v.scratch = 0
      /\ Vector(v)
  <2>1. Vector(m.vec[o])
    BY DEF MemInv, MemTypes
  <2> DEFINE w == m.vec[o]
  <2>2. v = [w EXCEPT !.reserved = IF w.buf # Null THEN w.reserved ELSE 0,
                      !.cur = IF w.buf # Null THEN w.reserved ELSE 0, !.size = 0, !.scratch = 0]
    BY DEF ClearVector
  <2> HIDE DEF v, w
  <2>3. Vector(w)
    BY <2>1 DEF w
  <2>4. /\ v.buf = w.buf /\ v.allocator = w.allocator /\ v.own = w.own
        /\ v.reserved = (IF w.buf # Null THEN w.reserved ELSE 0) /\ v.cur = v.reserved /\ v.size = 0 /\ v.scratch = 0
        /\ v.initial = w.initial /\ v = [allocator |-> v.allocator, own |-> v.own, initial |-> v.initial,
              reserved |-> v.reserved, size |-> v.size, buf |-> v.buf, cur |-> v.cur, scratch |-> v.scratch]
    BY <2>2, <2>3 DEF Vector
  <2>5. Vector(v)
    BY <2>3, <2>4 DEF Vector
  <2> QED BY <2>4, <2>5 DEF w
<1>3. v.reserved = m.vec[o].reserved /\ v.reserved \in Nat
  BY <1>2 DEF MemInv, Owned, Layout, Vector
<1>4. ClearBuilder(m, o) = SetVector(c, o, v)
  BY DEF ClearBuilder, MemInv, MemTypes, IsMem
<1> HIDE DEF c, v
<1>5. v.cur + v.size = v.reserved /\ v.scratch <= v.cur
  BY <1>2, <1>3
<1> QED BY <1>1, <1>2, <1>3, <1>4, <1>5, SetVectorKeeps

-----------------------------------------------------------------------------
(* The heap and the slices.                                                 *)

OnlyBlocks(m, n) ==
  n.vec = m.vec /\ n.finished = m.finished /\ n.arena = m.arena /\ n.held = m.held

LEMMA WithFields ==
  ASSUME NEW m, MemTypes(m), NEW p \in Nat \ {0}, p \notin DOMAIN m.heap, NEW a, NEW bytes
  PROVE  LET n == With(m, p, a, bytes)
         IN  /\ MemTypes(n) /\ OnlyBlocks(m, n) /\ n.slice = m.slice
             /\ DOMAIN n.heap = DOMAIN m.heap \cup {p} /\ \A q \in DOMAIN m.heap : n.heap[q] = m.heap[q]
             /\ n.heap[p].by = a /\ n.heap[p].counted = (a \in Msg) /\ n.heap[p].bytes = bytes
<1> DEFINE n == With(m, p, a, bytes)
           b == [by |-> a, counted |-> a \in DOMAIN m.slice, bytes |-> bytes]
<1>1. /\ IsMem(n) /\ OnlyBlocks(m, n) /\ n.slice = m.slice /\ n.failed = m.failed
      /\ n.heap = [q \in DOMAIN m.heap \cup {p} |-> IF q = p THEN b ELSE m.heap[q]]
  BY DEF With, MemTypes, IsMem, OnlyBlocks
<1>2. Block(b) /\ b.by = a /\ b.counted = (a \in Msg) /\ b.bytes = bytes
  BY DEF Block, MemTypes
<1> HIDE DEF n, b
<1>3. n.heap[p] = b /\ \A q \in DOMAIN m.heap : n.heap[q] = m.heap[q]
  BY <1>1
<1>4. IsFiniteSet(DOMAIN m.heap \cup {p})
  BY FS_AddElement DEF MemTypes
<1>5. DOMAIN n.heap = DOMAIN m.heap \cup {p} /\ n.heap = [q \in DOMAIN n.heap |-> n.heap[q]]
  BY <1>1
<1>6. MemTypes(n)
  BY <1>1, <1>2, <1>3, <1>4, <1>5 DEF MemTypes, OnlyBlocks
<1> QED BY <1>1, <1>2, <1>3, <1>5, <1>6 DEF n

\* A heap with some of the blocks.
LEMMA LessHeap ==
  ASSUME NEW m, MemTypes(m), NEW S, S \subseteq DOMAIN m.heap
  PROVE  LET n == [m EXCEPT !.heap = [q \in S |-> m.heap[q]]]
         IN  /\ MemTypes(n) /\ OnlyBlocks(m, n) /\ n.slice = m.slice
             /\ DOMAIN n.heap = S /\ \A q \in S : n.heap[q] = m.heap[q]
<1> DEFINE n == [m EXCEPT !.heap = [q \in S |-> m.heap[q]]]
<1>1. /\ IsMem(n) /\ OnlyBlocks(m, n) /\ n.slice = m.slice /\ n.failed = m.failed
      /\ n.heap = [q \in S |-> m.heap[q]]
  BY DEF MemTypes, IsMem, OnlyBlocks
<1> HIDE DEF n
<1>2. IsFiniteSet(S)
  BY FS_Subset DEF MemTypes
<1>3. DOMAIN n.heap = S /\ n.heap = [q \in DOMAIN n.heap |-> n.heap[q]] /\ \A q \in S : n.heap[q] = m.heap[q]
  BY <1>1
<1>4. MemTypes(n)
  BY <1>1, <1>2, <1>3 DEF MemTypes, OnlyBlocks
<1> QED BY <1>1, <1>3, <1>4 DEF n

LEMMA WithoutFields ==
  ASSUME NEW m, MemTypes(m), NEW p
  PROVE  LET n == Without(m, p)
         IN  /\ MemTypes(n) /\ OnlyBlocks(m, n) /\ n.slice = m.slice
             /\ DOMAIN n.heap = DOMAIN m.heap \ {p} /\ \A q \in DOMAIN n.heap : n.heap[q] = m.heap[q]
<1>1. Without(m, p) = [m EXCEPT !.heap = [q \in DOMAIN m.heap \ {p} |-> m.heap[q]]]
  BY DEF Without, MemTypes, IsMem
<1> QED BY <1>1, LessHeap

LEMMA CollectFields ==
  ASSUME NEW m, MemTypes(m)
  PROVE  LET n == Collect(m)
         IN  /\ MemTypes(n) /\ OnlyBlocks(m, n) /\ n.slice = m.slice
             /\ \A q : q \in DOMAIN n.heap <=> q \in DOMAIN m.heap /\ (m.heap[q].counted => SlicedAt(m, q))
             /\ \A q \in DOMAIN n.heap : n.heap[q] = m.heap[q]
<1> DEFINE S == {p \in DOMAIN m.heap : m.heap[p].counted => p \in Sliced(m)}
<1>1. Collect(m) = [m EXCEPT !.heap = [q \in S |-> m.heap[q]]]
  BY DEF Collect, MemTypes, IsMem
<1>2. DOMAIN m.slice = Msg /\ DOMAIN m.held = Holder
  BY DEF MemTypes
<1>3. \A q : q \in Sliced(m) <=> SlicedAt(m, q)
  BY <1>2 DEF Sliced, SlicedAt
<1>4. \A q : q \in S <=> q \in DOMAIN m.heap /\ (m.heap[q].counted => SlicedAt(m, q))
  BY <1>3
<1>5. S \subseteq DOMAIN m.heap
  OBVIOUS
<1> HIDE DEF S
<1> QED BY <1>1, <1>4, <1>5, LessHeap

LEMMA SetSliceFields ==
  ASSUME NEW m, MemTypes(m), NEW s \in Msg, NEW x
  PROVE  LET n == [m EXCEPT !.slice[s] = x]
         IN  /\ MemTypes(n) /\ OnlyBlocks(m, n) /\ n.heap = m.heap /\ n.slice = [m.slice EXCEPT ![s] = x]
<1> DEFINE n == [m EXCEPT !.slice[s] = x]
<1>1. /\ IsMem(n) /\ OnlyBlocks(m, n) /\ n.failed = m.failed
      /\ n.heap = m.heap /\ n.slice = [m.slice EXCEPT ![s] = x]
  BY DEF MemTypes, IsMem, OnlyBlocks
<1> HIDE DEF n
<1>2. n.slice = [r \in Msg |-> n.slice[r]]
  BY <1>1 DEF MemTypes
<1>3. MemTypes(n)
  BY <1>1, <1>2 DEF MemTypes, OnlyBlocks
<1> QED BY <1>1, <1>3 DEF n

LEMMA SetVecFields ==
  ASSUME NEW m, MemTypes(m), NEW o \in DOMAIN m.vec, NEW v, Vector(v)
  PROVE  LET n == SetVector(m, o, v)
         IN  /\ MemTypes(n) /\ DOMAIN n.vec = DOMAIN m.vec /\ n.vec[o] = v
             /\ \A q \in DOMAIN m.vec \ {o} : n.vec[q] = m.vec[q]
             /\ n.heap = m.heap /\ n.finished = m.finished /\ n.arena = m.arena /\ n.held = m.held /\ n.slice = m.slice
<1> DEFINE n == SetVector(m, o, v)
<1>1. /\ IsMem(n) /\ n.vec = [m.vec EXCEPT ![o] = v] /\ n.failed = m.failed
      /\ n.heap = m.heap /\ n.finished = m.finished /\ n.arena = m.arena /\ n.held = m.held /\ n.slice = m.slice
  BY DEF SetVector, MemTypes, IsMem
<1> HIDE DEF n
<1>2. DOMAIN n.vec = DOMAIN m.vec /\ n.vec[o] = v /\ \A q \in DOMAIN m.vec \ {o} : n.vec[q] = m.vec[q]
  BY <1>1
<1>3. MemTypes(n)
  <2>1. n.vec = [q \in DOMAIN n.vec |-> n.vec[q]]
    BY <1>1
  <2> QED BY <1>1, <1>2, <2>1 DEF MemTypes
<1> QED BY <1>1, <1>2, <1>3 DEF n

-----------------------------------------------------------------------------
(* Growth.                                                                  *)

\* What an allocator has done when vector o has been moved to block p with these bytes.
Moved(m, n, o, p, bytes) ==
  /\ MemTypes(n) /\ OnlyBlocks(m, n) /\ p \notin DOMAIN m.heap /\ p # Null
  /\ n.heap[p].by = m.vec[o].allocator /\ n.heap[p].bytes = bytes
  /\ \A q \in DOMAIN n.heap \ {p} : n.heap[q] = m.heap[q]
  /\ o \in Plain => /\ DOMAIN n.heap = (DOMAIN m.heap \ {m.vec[o].buf}) \cup {p}
                    /\ ~n.heap[p].counted /\ n.slice = m.slice
  /\ o \in Msg => /\ \A q : q \in DOMAIN n.heap <=> q = p \/ (q \in DOMAIN m.heap /\ (m.heap[q].counted => SlicedAt(n, q)))
                  /\ n.heap[p].counted /\ n.slice = [m.slice EXCEPT ![o] = p]

\* The allocator of a builder is there.
LEMMA AllocatorIsThere ==
  ASSUME Parameters, NEW m, MemInv(m), NEW o \in DOMAIN m.vec \cap Plain
  PROVE  m.vec[o].allocator \notin Msg /\ ~Gone(m, m.vec[o].allocator) /\ DOMAIN m.slice = Msg
<1>1. m.vec[o].allocator \in {Default, Arena}
  BY DEF MemInv, Owned, PlainOwn
<1>2. m.vec[o].allocator \notin Msg
  BY <1>1 DEF Parameters, Msg
<1> QED BY <1>2 DEF MemInv, MemTypes, ArenaOwned, Gone

LEMMA PlainMoved ==
  ASSUME Parameters, NEW m, MemInv(m), NEW o \in DOMAIN m.vec \cap Plain, NEW R \in Nat, R > m.vec[o].reserved, NEW bytes, DOMAIN bytes = 1 .. R
  PROVE  /\ m.vec[o].buf = Null => Moved(m, AllocateBytes(m, m.vec[o].allocator, bytes), o, Fresh(m), bytes)
         /\ m.vec[o].buf # Null =>
              Moved(m, AllocatorReallocate(m, m.vec[o].allocator, m.vec[o].buf, m.vec[o].reserved, bytes), o, Fresh(m), bytes)
<1> DEFINE v == m.vec[o]
           p == Fresh(m)
           w == With(m, p, v.allocator, bytes)
<1>1. v.allocator \notin Msg /\ ~Gone(m, v.allocator) /\ DOMAIN m.slice = Msg /\ Plain \cap Msg = {}
  BY AllocatorIsThere DEF Parameters, Plain, Msg
<1>2. p \in Nat \ {0} /\ p \notin DOMAIN m.heap /\ p # Null
  BY FreshIsNew DEF MemInv, MemTypes, Parameters
<1>3. AllocateBytes(m, v.allocator, bytes) = w
  BY <1>1 DEF AllocateBytes
<1> HIDE DEF p
<1>4. /\ MemTypes(w) /\ OnlyBlocks(m, w) /\ w.slice = m.slice
      /\ DOMAIN w.heap = DOMAIN m.heap \cup {p} /\ \A q \in DOMAIN m.heap : w.heap[q] = m.heap[q]
      /\ w.heap[p].by = v.allocator /\ w.heap[p].counted = (v.allocator \in Msg) /\ w.heap[p].bytes = bytes
  BY <1>2, WithFields DEF MemInv
<1> HIDE DEF w
<1>5. Null \notin DOMAIN m.heap
  BY DEF MemInv, MemTypes, Parameters
<1>6. CASE v.buf = Null
  <2>1. Moved(m, w, o, p, bytes)
    BY <1>1, <1>2, <1>4, <1>5, <1>6 DEF Moved
  <2> QED BY <1>3, <1>6, <2>1 DEF p
<1>7. CASE v.buf # Null
  <2>1. /\ v.buf \in DOMAIN m.heap /\ m.heap[v.buf].by = v.allocator /\ ~m.heap[v.buf].counted
        /\ v.reserved \in Nat
    BY <1>7 DEF MemInv, Owned, Layout, PlainOwn, MemTypes, Vector
  <2>2. ~(DOMAIN bytes \subseteq 1 .. v.reserved)
    <3>1. R \in 1 .. R /\ R \notin 1 .. v.reserved
      BY <2>1
    <3> QED BY <3>1
  <2>3. v.buf \in DOMAIN w.heap /\ w.heap[v.buf] = m.heap[v.buf] /\ w.arena = m.arena /\ w.slice = m.slice
    BY <1>4, <2>1 DEF OnlyBlocks
  <2>4. AllocatorReallocate(m, v.allocator, v.buf, v.reserved, bytes) = Without(w, v.buf)
    BY <1>1, <1>3, <2>1, <2>2, <2>3 DEF AllocatorReallocate, Deallocate, Gone
  <2> DEFINE n == Without(w, v.buf)
  <2>5. /\ MemTypes(n) /\ OnlyBlocks(w, n) /\ n.slice = w.slice
        /\ DOMAIN n.heap = DOMAIN w.heap \ {v.buf} /\ \A q \in DOMAIN n.heap : n.heap[q] = w.heap[q]
    BY <1>4, WithoutFields
  <2> HIDE DEF n
  <2>6. Moved(m, n, o, p, bytes)
    BY <1>1, <1>2, <1>4, <2>1, <2>5 DEF Moved, OnlyBlocks
  <2> QED BY <1>7, <2>4, <2>6 DEF n, p
<1> QED BY <1>6, <1>7

LEMMA MsgMoved ==
  ASSUME Parameters, NEW m, MemInv(m), NEW o \in DOMAIN m.vec \cap Msg, NEW R \in Nat, R > m.vec[o].reserved, NEW bytes, DOMAIN bytes = 1 .. R
  PROVE  /\ m.vec[o].buf = Null => Moved(m, AllocateBytes(m, m.vec[o].allocator, bytes), o, Fresh(m), bytes)
         /\ m.vec[o].buf # Null =>
              Moved(m, SliceReallocate(m, m.vec[o].allocator, m.vec[o].buf, m.vec[o].reserved, bytes), o, Fresh(m), bytes)
<1> DEFINE v == m.vec[o]
           p == Fresh(m)
           w == With(m, p, o, bytes)
           n == [w EXCEPT !.slice[o] = p]
<1>1. v.allocator = o /\ v.buf = m.slice[o] /\ DOMAIN m.slice = Msg /\ Plain \cap Msg = {}
  <2>1. v.allocator = o /\ v.buf = m.slice[o]
    BY DEF MemInv, Owned, MsgOwn
  <2>2. DOMAIN m.slice = Msg
    BY DEF MemInv, MemTypes
  <2> QED BY <2>1, <2>2 DEF Parameters, Plain, Msg
<1>2. p \in Nat \ {0} /\ p \notin DOMAIN m.heap /\ p # Null
  BY FreshIsNew DEF MemInv, MemTypes, Parameters
<1> HIDE DEF p
<1>4. /\ MemTypes(w) /\ OnlyBlocks(m, w) /\ w.slice = m.slice
      /\ DOMAIN w.heap = DOMAIN m.heap \cup {p} /\ \A q \in DOMAIN m.heap : w.heap[q] = m.heap[q]
      /\ w.heap[p].by = o /\ w.heap[p].counted = (o \in Msg) /\ w.heap[p].bytes = bytes
  BY <1>2, WithFields DEF MemInv
<1> HIDE DEF w
<1>5. MemTypes(n) /\ OnlyBlocks(w, n) /\ n.heap = w.heap /\ n.slice = [w.slice EXCEPT ![o] = p]
  BY <1>4, SetSliceFields
<1> HIDE DEF n
<1>8. /\ n.slice = [m.slice EXCEPT ![o] = p] /\ n.slice[o] = p /\ \A s \in Msg \ {o} : n.slice[s] = m.slice[s]
      /\ OnlyBlocks(m, n)
  BY <1>1, <1>4, <1>5 DEF OnlyBlocks
<1>6. CASE v.buf = Null
  <2>1. AllocateBytes(m, v.allocator, bytes) = n
    BY <1>1, <1>6 DEF AllocateBytes, SliceAllocate, n, w, p
  <2>2. \A q \in DOMAIN m.heap : m.heap[q].counted => SlicedAt(n, q)
    <3> SUFFICES ASSUME NEW q \in DOMAIN m.heap, m.heap[q].counted PROVE SlicedAt(n, q)
      OBVIOUS
    <3>1. q # Null
      BY DEF MemInv, MemTypes, Parameters
    <3>2. (\E s \in Msg : m.slice[s] = q) \/ \E h \in Holder : m.held[h].buf = q
      BY DEF MemInv, Owned, NoLeak
    <3> QED BY <1>1, <1>6, <1>8, <3>1, <3>2 DEF SlicedAt, OnlyBlocks
  <2>3. Moved(m, n, o, p, bytes)
    <3>1. n.heap[p].by = v.allocator /\ n.heap[p].counted /\ n.heap[p].bytes = bytes
      BY <1>1, <1>4, <1>5
    <3>2. \A q : q \in DOMAIN n.heap <=> q = p \/ (q \in DOMAIN m.heap /\ (m.heap[q].counted => SlicedAt(n, q)))
      BY <1>4, <1>5, <2>2
    <3>3. \A q \in DOMAIN n.heap \ {p} : n.heap[q] = m.heap[q]
      BY <1>4, <1>5
    <3> QED BY <1>1, <1>2, <1>5, <1>8, <3>1, <3>2, <3>3 DEF Moved
  <2> QED BY <1>6, <2>1, <2>3 DEF p
<1>7. CASE v.buf # Null
  <2>1. v.buf \in DOMAIN m.heap /\ DOMAIN m.heap[v.buf].bytes = 1 .. v.reserved /\ v.reserved \in Nat
    BY <1>7 DEF MemInv, Owned, Layout, MemTypes, Vector
  <2>2. ~(DOMAIN bytes \subseteq 1 .. v.reserved)
    <3>1. R \in 1 .. R /\ R \notin 1 .. v.reserved
      BY <2>1
    <3> QED BY <3>1
  <2>3. SliceReallocate(m, v.allocator, v.buf, v.reserved, bytes) = Collect(n)
    BY <1>1, <2>1, <2>2 DEF SliceReallocate, n, w, p
  <2> DEFINE c == Collect(n)
  <2>4. /\ MemTypes(c) /\ OnlyBlocks(n, c) /\ c.slice = n.slice
        /\ \A q : q \in DOMAIN c.heap <=> q \in DOMAIN n.heap /\ (n.heap[q].counted => SlicedAt(n, q))
        /\ \A q \in DOMAIN c.heap : c.heap[q] = n.heap[q]
    BY <1>5, CollectFields
  <2> HIDE DEF c
  <2>5. n.slice[o] = p /\ SlicedAt(n, p)
    BY <1>1, <1>4, <1>5 DEF SlicedAt
  <2>6. \A q : SlicedAt(c, q) <=> SlicedAt(n, q)
    BY <2>4 DEF SlicedAt, OnlyBlocks
  <2>7. \A q : q \in DOMAIN c.heap <=> q = p \/ (q \in DOMAIN m.heap /\ (m.heap[q].counted => SlicedAt(c, q)))
    BY <1>2, <1>4, <1>5, <2>4, <2>5, <2>6
  <2>8. Moved(m, c, o, p, bytes)
    <3>1. OnlyBlocks(m, c) /\ c.slice = [m.slice EXCEPT ![o] = p]
      BY <1>8, <2>4 DEF OnlyBlocks
    <3>2. c.heap[p] = w.heap[p] /\ \A q \in DOMAIN c.heap \ {p} : c.heap[q] = m.heap[q]
      BY <1>2, <1>4, <1>5, <2>4, <2>7
    <3> QED BY <1>1, <1>2, <1>4, <2>4, <2>7, <3>1, <3>2 DEF Moved
  <2> QED BY <1>7, <2>3, <2>8 DEF c, p
<1> QED BY <1>6, <1>7

\* A vector that has been moved: the block is larger, what is in use is not.
Grew(m, n, o) ==
  LET v == m.vec[o]
      w == n.vec[o]
  IN /\ w.buf # Null /\ w.buf \notin DOMAIN m.heap /\ w.size = v.size /\ w.scratch = v.scratch /\ w.reserved > v.reserved
     /\ \A q \in DOMAIN n.heap \ {w.buf} : n.heap[q] = m.heap[q]
     /\ v.buf # Null => n.heap[w.buf].bytes = MemcpyDownward(m.heap[v.buf].bytes, v.reserved, w.reserved, v.size, v.scratch)

LEMMA ReallocateKeeps ==
  ASSUME Parameters, NEW m, MemInv(m), NEW o \in DOMAIN m.vec
  PROVE  LET n == Reallocate(m, o, 1, MinAlign)
         IN  /\ MemInv(n) /\ DOMAIN n.vec = DOMAIN m.vec /\ \A q \in DOMAIN m.vec \ {o} : n.vec[q] = m.vec[q]
             /\ n.vec[o].cur > m.vec[o].cur /\ Grew(m, n, o)
             /\ n.finished = m.finished /\ n.arena = m.arena /\ n.held = m.held
<1> DEFINE v == m.vec[o]
           R == Grown(v.reserved, 1, v.initial, MinAlign)
           p == Fresh(m)
           new == [i \in 1 .. R |-> Null]
           old == MemcpyDownward(m.heap[v.buf].bytes, v.reserved, R, v.size, v.scratch)
           bytes == IF v.buf # Null THEN old ELSE new
           moved == IF v.buf # Null THEN ReallocateDownward(m, v.allocator, v.buf, v.reserved, R, v.size, v.scratch)
                    ELSE AllocateBytes(m, v.allocator, new)
           w == [v EXCEPT !.reserved = R, !.buf = p, !.cur = R - v.size]
           n == SetVector(moved, o, w)
<1>1. Reallocate(m, o, 1, MinAlign) = n
  BY DEF Reallocate
<1>2. Vector(v) /\ o \in Plain \cup Msg
  BY DEF MemInv, MemTypes
<1>3. R \in Nat /\ R > v.reserved
  BY <1>2, GrownIsLarger DEF Vector
<1>4. v.cur + v.size = v.reserved /\ v.scratch <= v.cur /\ (v.buf # Null => v.buf \in DOMAIN m.heap)
  BY DEF MemInv, Owned, Layout
<1>5. DOMAIN new = 1 .. R /\ DOMAIN old = 1 .. R /\ DOMAIN bytes = 1 .. R /\ (v.buf # Null => bytes = old) /\ (v.buf = Null => bytes = new)
  BY DEF MemcpyDownward
<1> HIDE DEF R, new, old, p, bytes
<1>6. Moved(m, moved, o, p, bytes)
  <2>1. CASE o \in Plain
    <3>1. v.allocator \notin DOMAIN m.slice
      BY <2>1, AllocatorIsThere
    <3>2. v.buf # Null => moved = AllocatorReallocate(m, v.allocator, v.buf, v.reserved, old)
      BY <1>4, <3>1 DEF ReallocateDownward, old
    <3> HIDE DEF moved
    <3>3. v.buf = Null => moved = AllocateBytes(m, v.allocator, new)
      BY DEF moved
    <3> QED BY <1>3, <1>5, <2>1, <3>2, <3>3, PlainMoved DEF p
  <2>2. CASE o \in Msg
    <3>1. v.allocator \in DOMAIN m.slice
      BY <2>2 DEF MemInv, Owned, MsgOwn, MemTypes
    <3>2. v.buf # Null => moved = SliceReallocate(m, v.allocator, v.buf, v.reserved, old)
      BY <1>4, <3>1 DEF ReallocateDownward, old
    <3> HIDE DEF moved
    <3>3. v.buf = Null => moved = AllocateBytes(m, v.allocator, new)
      BY DEF moved
    <3> QED BY <1>3, <1>5, <2>2, <3>2, <3>3, MsgMoved DEF p
  <2> QED BY <1>2, <2>1, <2>2
<1> HIDE DEF moved
<1>7. w.allocator = v.allocator /\ w.own = v.own /\ w.initial = v.initial /\ w.reserved = R /\ w.size = v.size
      /\ w.buf = p /\ w.cur = R - v.size /\ w.scratch = v.scratch
      /\ w = [allocator |-> w.allocator, own |-> w.own, initial |-> w.initial, reserved |-> w.reserved,
              size |-> w.size, buf |-> w.buf, cur |-> w.cur, scratch |-> w.scratch]
  <2> DEFINE c == R - v.size
  <2>1. w = [v EXCEPT !.reserved = R, !.buf = p, !.cur = c] /\ c = R - v.size /\ Vector(v)
    BY <1>2
  <2> HIDE DEF c, v, w
  <2>2. /\ w.allocator = v.allocator /\ w.own = v.own /\ w.initial = v.initial /\ w.reserved = R /\ w.size = v.size
        /\ w.buf = p /\ w.cur = c /\ w.scratch = v.scratch
        /\ w = [allocator |-> w.allocator, own |-> w.own, initial |-> w.initial, reserved |-> w.reserved,
                size |-> w.size, buf |-> w.buf, cur |-> w.cur, scratch |-> w.scratch]
    BY <2>1 DEF Vector
  <2> QED BY <2>1, <2>2
<1>8. R - v.size \in Nat /\ R - v.size > v.cur /\ v.scratch <= R - v.size /\ R - v.size + v.size = R /\ R > 0
  BY <1>2, <1>3, <1>4 DEF Vector
<1>9. Vector(w)
  <2> HIDE DEF w
  <2> QED BY <1>2, <1>3, <1>7, <1>8 DEF Vector
<1> HIDE DEF w
<1>10. /\ MemTypes(n) /\ DOMAIN n.vec = DOMAIN m.vec /\ n.vec[o] = w
       /\ \A q \in DOMAIN m.vec \ {o} : n.vec[q] = m.vec[q]
       /\ n.heap = moved.heap /\ n.finished = m.finished /\ n.arena = m.arena /\ n.held = m.held /\ n.slice = moved.slice
  <2>1. MemTypes(moved) /\ OnlyBlocks(m, moved)
    BY <1>6 DEF Moved
  <2> QED BY <1>9, <2>1, SetVecFields DEF OnlyBlocks
<1> HIDE DEF n
<1>11. Owned(n)
  <2>1. CASE o \in Plain
    <3>1. /\ p \notin DOMAIN m.heap /\ p # Null /\ DOMAIN n.heap = (DOMAIN m.heap \ {v.buf}) \cup {p}
          /\ \A q \in DOMAIN n.heap \ {p} : n.heap[q] = m.heap[q]
          /\ n.heap[p].by = v.allocator /\ ~n.heap[p].counted /\ DOMAIN n.heap[p].bytes = 1 .. R
          /\ n.slice = m.slice
      BY <1>5, <1>6, <1>10, <2>1 DEF Moved
    <3> QED BY <1>7, <1>8, <1>10, <2>1, <3>1, PlainGrows DEF MemInv
  <2>2. CASE o \in Msg
    <3>1. /\ p \notin DOMAIN m.heap /\ p # Null
          /\ \A q : q \in DOMAIN moved.heap <=> q = p \/ (q \in DOMAIN m.heap /\ (m.heap[q].counted => SlicedAt(moved, q)))
          /\ \A q \in DOMAIN n.heap \ {p} : n.heap[q] = m.heap[q]
          /\ n.heap[p].counted /\ DOMAIN n.heap[p].bytes = 1 .. R
          /\ n.slice = [m.slice EXCEPT ![o] = p] /\ moved.held = m.held
      BY <1>5, <1>6, <1>10, <2>2 DEF Moved, OnlyBlocks
    <3>2. \A q : SlicedAt(moved, q) <=> SlicedAt(n, q)
      BY <1>10, <3>1 DEF SlicedAt
    <3>3. \A q : q \in DOMAIN n.heap <=> q = p \/ (q \in DOMAIN m.heap /\ (m.heap[q].counted => SlicedAt(n, q)))
      BY <1>10, <3>1, <3>2
    <3>4. v.allocator = o /\ ~v.own
      BY <2>2 DEF MemInv, Owned, MsgOwn
    <3> QED BY <1>7, <1>8, <1>10, <2>2, <3>1, <3>3, <3>4, MsgGrows DEF MemInv
  <2> QED BY <1>2, <2>1, <2>2
<1>12. ArenaOwned(n)
  <2>1. n.vec[o].allocator = v.allocator /\ n.vec[o].own = v.own
    BY <1>7, <1>10
  <2>2. \A q \in DOMAIN m.vec : n.vec[q].allocator = m.vec[q].allocator /\ n.vec[q].own = m.vec[q].own
    BY <1>10, <2>1
  <2> QED BY <1>10, <2>2 DEF MemInv, ArenaOwned
<1> QED
  <2>1. n.vec[o].cur > v.cur
    BY <1>7, <1>8, <1>10
  <2>2. Grew(m, n, o)
    <3>1. /\ n.vec[o].buf = p /\ n.vec[o].size = v.size /\ n.vec[o].scratch = v.scratch /\ n.vec[o].reserved = R
      BY <1>7, <1>10
    <3>2. p # Null /\ p \notin DOMAIN m.heap /\ n.heap[p].bytes = bytes /\ \A q \in DOMAIN n.heap \ {p} : n.heap[q] = m.heap[q]
      BY <1>6, <1>10 DEF Moved
    <3>3. v.buf # Null => n.heap[p].bytes = old
      BY <1>5, <3>2
    <3> HIDE DEF v
    <3> QED BY <1>3, <3>1, <3>2, <3>3 DEF Grew, old, v
  <2> QED BY <1>1, <1>10, <1>11, <1>12, <2>1, <2>2 DEF MemInv

LEMMA EnsureSpaceKeeps ==
  ASSUME Parameters, NEW m, MemInv(m), NEW o \in DOMAIN m.vec
  PROVE  LET n == EnsureSpace(m, o, 1, MinAlign)
         IN  /\ MemInv(n) /\ DOMAIN n.vec = DOMAIN m.vec /\ \A q \in DOMAIN m.vec \ {o} : n.vec[q] = m.vec[q]
             /\ n.vec[o].scratch < n.vec[o].cur /\ n.vec[o].buf # Null /\ (n = m \/ Grew(m, n, o))
             /\ n.finished = m.finished /\ n.arena = m.arena /\ n.held = m.held
<1>1. Vector(m.vec[o]) /\ m.vec[o].scratch <= m.vec[o].cur
  BY DEF MemInv, MemTypes, Owned, Layout
<1>2. CASE 1 > m.vec[o].cur - m.vec[o].scratch
  <2>1. EnsureSpace(m, o, 1, MinAlign) = Reallocate(m, o, 1, MinAlign)
    BY <1>2 DEF EnsureSpace
  <2> DEFINE n == Reallocate(m, o, 1, MinAlign)
  <2>2. /\ MemInv(n) /\ DOMAIN n.vec = DOMAIN m.vec /\ \A q \in DOMAIN m.vec \ {o} : n.vec[q] = m.vec[q]
        /\ n.vec[o].cur > m.vec[o].cur /\ Grew(m, n, o)
        /\ n.finished = m.finished /\ n.arena = m.arena /\ n.held = m.held
    BY ReallocateKeeps
  <2> HIDE DEF n
  <2>3. Vector(n.vec[o])
    BY <2>2 DEF MemInv, MemTypes
  <2>4. n.vec[o].scratch < n.vec[o].cur /\ n.vec[o].buf # Null
    BY <1>1, <2>2, <2>3 DEF Vector, Grew
  <2> QED BY <2>1, <2>2, <2>4 DEF n
<1>3. CASE ~(1 > m.vec[o].cur - m.vec[o].scratch)
  <2>1. EnsureSpace(m, o, 1, MinAlign) = m
    BY <1>3 DEF EnsureSpace
  <2>2. m.vec[o].scratch < m.vec[o].cur
    BY <1>1, <1>3 DEF Vector
  <2>3. m.vec[o].buf # Null
    BY <1>1, <2>2 DEF MemInv, Owned, Layout, Vector
  <2> QED BY <2>1, <2>2, <2>3
<1> QED BY <1>2, <1>3

\* Bytes are stored in block p.
LEMMA BytesKeep ==
  ASSUME NEW m, MemInv(m), NEW p \in DOMAIN m.heap, NEW f, DOMAIN f = DOMAIN m.heap[p].bytes
  PROVE  LET n == [m EXCEPT !.heap[p].bytes = f]
         IN  /\ MemInv(n) /\ OnlyBlocks(m, n) /\ n.slice = m.slice
             /\ n.heap[p].bytes = f /\ DOMAIN n.heap = DOMAIN m.heap /\ \A q \in DOMAIN m.heap \ {p} : n.heap[q] = m.heap[q]
<1> DEFINE n == [m EXCEPT !.heap[p].bytes = f]
           b == [m.heap[p] EXCEPT !.bytes = f]
<1>1. /\ IsMem(n) /\ OnlyBlocks(m, n) /\ n.failed = m.failed /\ n.slice = m.slice
      /\ n.heap = [m.heap EXCEPT ![p] = b]
  BY DEF MemInv, MemTypes, IsMem, OnlyBlocks
<1>2. Block(b) /\ b.by = m.heap[p].by /\ b.counted = m.heap[p].counted /\ b.bytes = f
  <2>1. Block(m.heap[p])
    BY DEF MemInv, MemTypes
  <2> DEFINE c == m.heap[p]
  <2>2. b = [c EXCEPT !.bytes = f] /\ Block(c)
    BY <2>1
  <2> HIDE DEF b, c
  <2>3. Block(b) /\ b.by = c.by /\ b.counted = c.counted /\ b.bytes = f
    BY <2>2 DEF Block
  <2> QED BY <2>3 DEF c
<1> HIDE DEF n, b
<1>3. /\ DOMAIN n.heap = DOMAIN m.heap /\ n.heap = [q \in DOMAIN n.heap |-> n.heap[q]]
      /\ n.heap[p] = b /\ \A q \in DOMAIN m.heap \ {p} : n.heap[q] = m.heap[q]
  BY <1>1 DEF MemInv, MemTypes
<1>4. MemTypes(n)
  BY <1>1, <1>2, <1>3 DEF MemInv, MemTypes, OnlyBlocks
<1>5. SamePointers(m, n)
  BY <1>1, <1>2, <1>3 DEF SamePointers, OnlyBlocks, MemInv, Owned, Layout
<1> QED BY <1>1, <1>2, <1>3, <1>4, <1>5, SameKeeps DEF n, OnlyBlocks

SameProgram(m, n) ==
  DOMAIN n.vec = DOMAIN m.vec /\ n.finished = m.finished /\ n.arena = m.arena /\ n.held = m.held

LEMMA StoredKeeps ==
  ASSUME NEW m, MemInv(m), NEW o \in DOMAIN m.vec, m.vec[o].buf # Null, NEW at, NEW bytes
  PROVE  LET n == Stored(m, o, at, bytes)   p == m.vec[o].buf
         IN  /\ MemInv(n) /\ SameProgram(m, n) /\ n.vec = m.vec
             /\ p \in DOMAIN m.heap /\ DOMAIN n.heap = DOMAIN m.heap /\ \A q \in DOMAIN m.heap \ {p} : n.heap[q] = m.heap[q]
             /\ n.heap[p].bytes = [i \in DOMAIN m.heap[p].bytes |-> IF i - at \in DOMAIN bytes THEN bytes[i - at] ELSE m.heap[p].bytes[i]]
<1> DEFINE p == m.vec[o].buf
           f == [i \in DOMAIN m.heap[p].bytes |-> IF i - at \in DOMAIN bytes THEN bytes[i - at] ELSE m.heap[p].bytes[i]]
<1>1. p \in DOMAIN m.heap
  BY DEF MemInv, Owned, Layout
<1>2. Stored(m, o, at, bytes) = [m EXCEPT !.heap[p].bytes = f]
  <2>1. IsMem(m) /\ m.heap = [q \in DOMAIN m.heap |-> m.heap[q]] /\ Block(m.heap[p])
    BY <1>1 DEF MemInv, MemTypes
  <2> QED BY <1>1, <2>1 DEF Stored, IsMem, Block
<1> HIDE DEF f
<1>3. DOMAIN f = DOMAIN m.heap[p].bytes
  BY DEF f
<1>4. LET n == [m EXCEPT !.heap[p].bytes = f]
      IN  /\ MemInv(n) /\ OnlyBlocks(m, n)
          /\ n.heap[p].bytes = f /\ DOMAIN n.heap = DOMAIN m.heap /\ \A q \in DOMAIN m.heap \ {p} : n.heap[q] = m.heap[q]
  <2> DEFINE n == [m EXCEPT !.heap[p].bytes = f]
  <2>1. MemInv(n) /\ OnlyBlocks(m, n) /\ n.heap[p].bytes = f /\ DOMAIN n.heap = DOMAIN m.heap /\ \A q \in DOMAIN m.heap \ {p} : n.heap[q] = m.heap[q]
    <3> HIDE DEF p
    <3> QED BY <1>1, <1>3, BytesKeep
  <2> QED BY <2>1
<1> QED BY <1>1, <1>2, <1>4 DEF OnlyBlocks, SameProgram, f

LEMMA PushKeeps ==
  ASSUME Parameters, NEW m, MemInv(m), NEW o \in DOMAIN m.vec, NEW b
  PROVE  MemInv(Push(m, o, <<b>>, MinAlign)) /\ SameProgram(m, Push(m, o, <<b>>, MinAlign))
<1> DEFINE e == EnsureSpace(m, o, 1, MinAlign)
           u == e.vec[o]
           v == [u EXCEPT !.cur = u.cur - 1, !.size = u.size + 1]
           s == SetVector(e, o, v)
<1>1. /\ MemInv(e) /\ DOMAIN e.vec = DOMAIN m.vec
      /\ u.scratch < u.cur /\ u.buf # Null
      /\ e.finished = m.finished /\ e.arena = m.arena /\ e.held = m.held
  BY EnsureSpaceKeeps
<1>2. Push(m, o, <<b>>, MinAlign) = Stored(s, o, v.cur, <<b>>)
  <2>1. Len(<<b>>) = 1 /\ e.failed = FALSE
    BY <1>1 DEF MemInv, MemTypes
  <2> QED BY <2>1 DEF Push
<1> HIDE DEF e
<1>3. Vector(u) /\ u.cur + u.size = u.reserved
  BY <1>1 DEF MemInv, MemTypes, Owned, Layout
<1>4. /\ Vector(v) /\ v.buf = u.buf /\ v.allocator = u.allocator /\ v.own = u.own /\ v.reserved = u.reserved
      /\ v.cur + v.size = v.reserved /\ v.scratch <= v.cur
  <2> DEFINE c == u.cur - 1
             d == u.size + 1
  <2>1. v = [u EXCEPT !.cur = c, !.size = d] /\ c \in Nat /\ d \in Nat /\ c + d = u.reserved /\ u.scratch <= c
    BY <1>1, <1>3 DEF Vector
  <2> HIDE DEF u, v, c, d
  <2>2. /\ v.buf = u.buf /\ v.allocator = u.allocator /\ v.own = u.own /\ v.reserved = u.reserved
        /\ v.cur = c /\ v.size = d /\ v.scratch = u.scratch /\ v.initial = u.initial
        /\ v = [allocator |-> v.allocator, own |-> v.own, initial |-> v.initial, reserved |-> v.reserved,
                size |-> v.size, buf |-> v.buf, cur |-> v.cur, scratch |-> v.scratch]
    BY <1>3, <2>1 DEF Vector
  <2>3. Vector(v)
    BY <1>3, <2>1, <2>2 DEF Vector
  <2> QED BY <2>1, <2>2, <2>3
<1> HIDE DEF v
<1>5. MemInv(s) /\ SameProgram(m, s) /\ o \in DOMAIN s.vec /\ s.vec[o].buf # Null
  BY <1>1, <1>4, SetVectorKeeps DEF SameProgram
<1> HIDE DEF s
<1>6. MemInv(Stored(s, o, v.cur, <<b>>)) /\ SameProgram(s, Stored(s, o, v.cur, <<b>>))
  BY <1>5, StoredKeeps
<1> QED BY <1>2, <1>5, <1>6 DEF SameProgram

LEMMA ScratchPushKeeps ==
  ASSUME Parameters, NEW m, MemInv(m), NEW o \in DOMAIN m.vec, NEW b
  PROVE  MemInv(ScratchPush(m, o, b, MinAlign)) /\ SameProgram(m, ScratchPush(m, o, b, MinAlign))
<1> DEFINE e == EnsureSpace(m, o, 1, MinAlign)
           u == e.vec[o]
           v == [u EXCEPT !.scratch = u.scratch + 1]
           s == SetVector(e, o, v)
<1>1. /\ MemInv(e) /\ DOMAIN e.vec = DOMAIN m.vec
      /\ u.scratch < u.cur /\ u.buf # Null
      /\ e.finished = m.finished /\ e.arena = m.arena /\ e.held = m.held
  BY EnsureSpaceKeeps
<1>2. ScratchPush(m, o, b, MinAlign) = Stored(s, o, u.scratch, <<b>>)
  <2>1. e.failed = FALSE
    BY <1>1 DEF MemInv, MemTypes
  <2> QED BY <2>1 DEF ScratchPush
<1> HIDE DEF e
<1>3. Vector(u) /\ u.cur + u.size = u.reserved
  BY <1>1 DEF MemInv, MemTypes, Owned, Layout
<1>4. /\ Vector(v) /\ v.buf = u.buf /\ v.allocator = u.allocator /\ v.own = u.own /\ v.reserved = u.reserved
      /\ v.cur + v.size = v.reserved /\ v.scratch <= v.cur
  <2> DEFINE c == u.scratch + 1
  <2>1. v = [u EXCEPT !.scratch = c] /\ c \in Nat /\ c <= u.cur
    BY <1>1, <1>3 DEF Vector
  <2> HIDE DEF u, v, c
  <2>2. /\ v.buf = u.buf /\ v.allocator = u.allocator /\ v.own = u.own /\ v.reserved = u.reserved
        /\ v.cur = u.cur /\ v.size = u.size /\ v.scratch = c /\ v.initial = u.initial
        /\ v = [allocator |-> v.allocator, own |-> v.own, initial |-> v.initial, reserved |-> v.reserved,
                size |-> v.size, buf |-> v.buf, cur |-> v.cur, scratch |-> v.scratch]
    BY <1>3, <2>1 DEF Vector
  <2>3. Vector(v)
    BY <1>3, <2>1, <2>2 DEF Vector
  <2> QED BY <1>3, <2>1, <2>2, <2>3
<1> HIDE DEF v
<1>5. MemInv(s) /\ SameProgram(m, s) /\ o \in DOMAIN s.vec /\ s.vec[o].buf # Null
  BY <1>1, <1>4, SetVectorKeeps DEF SameProgram
<1> HIDE DEF s, u
<1>6. MemInv(Stored(s, o, u.scratch, <<b>>)) /\ SameProgram(s, Stored(s, o, u.scratch, <<b>>))
  BY <1>5, StoredKeeps
<1> QED BY <1>2, <1>5, <1>6 DEF SameProgram

LEMMA PopKeeps ==
  ASSUME NEW m, MemInv(m), NEW o \in DOMAIN m.vec, m.vec[o].size > 0
  PROVE  MemInv(Pop(m, o, 1)) /\ SameProgram(m, Pop(m, o, 1))
<1> DEFINE u == m.vec[o]
           v == [u EXCEPT !.cur = u.cur + 1, !.size = u.size - 1]
<1>1. Pop(m, o, 1) = SetVector(m, o, v)
  BY DEF Pop
<1>3. Vector(u) /\ u.cur + u.size = u.reserved /\ u.scratch <= u.cur
  BY DEF MemInv, MemTypes, Owned, Layout
<1>4. /\ Vector(v) /\ v.buf = u.buf /\ v.allocator = u.allocator /\ v.own = u.own /\ v.reserved = u.reserved
      /\ v.cur + v.size = v.reserved /\ v.scratch <= v.cur
  <2> DEFINE c == u.cur + 1
             d == u.size - 1
  <2>1. v = [u EXCEPT !.cur = c, !.size = d] /\ c \in Nat /\ d \in Nat /\ c + d = u.reserved /\ u.scratch <= c
    BY <1>3 DEF Vector
  <2> HIDE DEF u, v, c, d
  <2>2. /\ v.buf = u.buf /\ v.allocator = u.allocator /\ v.own = u.own /\ v.reserved = u.reserved
        /\ v.cur = c /\ v.size = d /\ v.scratch = u.scratch /\ v.initial = u.initial
        /\ v = [allocator |-> v.allocator, own |-> v.own, initial |-> v.initial, reserved |-> v.reserved,
                size |-> v.size, buf |-> v.buf, cur |-> v.cur, scratch |-> v.scratch]
    BY <1>3, <2>1 DEF Vector
  <2>3. Vector(v)
    BY <1>3, <2>1, <2>2 DEF Vector
  <2> QED BY <2>1, <2>2, <2>3
<1> HIDE DEF v
<1> QED BY <1>1, <1>4, SetVectorKeeps DEF SameProgram

-----------------------------------------------------------------------------
(* A vector gives up its block.                                             *)

Freed(m, o) ==
  IF m.vec[o].buf # Null THEN Deallocate(m, m.vec[o].allocator, m.vec[o].buf, m.vec[o].reserved) ELSE m

LEMMA PlainFreed ==
  ASSUME Parameters, NEW m, MemInv(m), NEW o \in DOMAIN m.vec \cap Plain
  PROVE  LET n == Freed(m, o)
         IN  /\ MemTypes(n) /\ OnlyBlocks(m, n) /\ n.slice = m.slice
             /\ DOMAIN n.heap = DOMAIN m.heap \ {m.vec[o].buf} /\ \A q \in DOMAIN n.heap : n.heap[q] = m.heap[q]
<1> DEFINE v == m.vec[o]
<1>1. CASE v.buf = Null
  <2>1. v.buf \notin DOMAIN m.heap
    BY <1>1 DEF MemInv, MemTypes, Parameters
  <2> QED BY <1>1, <2>1 DEF Freed, MemInv, OnlyBlocks
<1>2. CASE v.buf # Null
  <2>1. v.buf \in DOMAIN m.heap /\ m.heap[v.buf].by = v.allocator /\ ~m.heap[v.buf].counted
    BY <1>2 DEF MemInv, Owned, Layout, PlainOwn
  <2>2. Freed(m, o) = Without(m, v.buf)
    BY <1>2, <2>1, AllocatorIsThere DEF Freed, Deallocate
  <2> QED BY <2>2, WithoutFields DEF MemInv
<1> QED BY <1>1, <1>2

LEMMA MsgFreed ==
  ASSUME Parameters, NEW m, MemInv(m), NEW o \in DOMAIN m.vec \cap Msg
  PROVE  LET n == Freed(m, o)
         IN  /\ MemTypes(n) /\ OnlyBlocks(m, n) /\ n.slice = [m.slice EXCEPT ![o] = Null]
             /\ \A q : q \in DOMAIN n.heap <=> q \in DOMAIN m.heap /\ (m.heap[q].counted => SlicedAt(n, q))
             /\ \A q \in DOMAIN n.heap : n.heap[q] = m.heap[q]
<1> DEFINE v == m.vec[o]
<1>0. v.allocator = o /\ v.buf = m.slice[o]
  BY DEF MemInv, Owned, MsgOwn
<1>1. CASE v.buf = Null
  <2>1. m.slice = [m.slice EXCEPT ![o] = Null]
    BY <1>0, <1>1 DEF MemInv, MemTypes
  <2>2. \A q \in DOMAIN m.heap : m.heap[q].counted => SlicedAt(m, q)
    BY DEF MemInv, Owned, NoLeak, SlicedAt
  <2> QED BY <1>1, <2>1, <2>2 DEF Freed, MemInv, OnlyBlocks
<1>2. CASE v.buf # Null
  <2>1. v.buf \in DOMAIN m.heap /\ DOMAIN m.heap[v.buf].bytes = 1 .. v.reserved
    BY <1>2 DEF MemInv, Owned, Layout
  <2>2. DOMAIN m.slice = Msg
    BY DEF MemInv, MemTypes
  <2> DEFINE w == [m EXCEPT !.slice[o] = Null]
             n == Collect(w)
  <2>3. Freed(m, o) = n
    BY <1>0, <1>2, <2>1, <2>2 DEF Freed, Deallocate, SliceDeallocate
  <2>4. MemTypes(w) /\ OnlyBlocks(m, w) /\ w.heap = m.heap /\ w.slice = [m.slice EXCEPT ![o] = Null]
    BY SetSliceFields DEF MemInv
  <2> HIDE DEF w
  <2>5. /\ MemTypes(n) /\ OnlyBlocks(w, n) /\ n.slice = w.slice
        /\ \A q : q \in DOMAIN n.heap <=> q \in DOMAIN w.heap /\ (w.heap[q].counted => SlicedAt(w, q))
        /\ \A q \in DOMAIN n.heap : n.heap[q] = w.heap[q]
    BY <2>4, CollectFields
  <2> HIDE DEF n
  <2>6. \A q : SlicedAt(n, q) <=> SlicedAt(w, q)
    BY <2>5 DEF SlicedAt, OnlyBlocks
  <2>7. OnlyBlocks(m, n)
    BY <2>4, <2>5 DEF OnlyBlocks
  <2> QED BY <2>3, <2>4, <2>5, <2>6, <2>7 DEF n
<1> QED BY <1>1, <1>2

\* The effect of freeing the block of o on heap and slices.
FreedBlocks(m, n, o) ==
  /\ o \in Plain => /\ DOMAIN n.heap = DOMAIN m.heap \ {m.vec[o].buf} /\ n.slice = m.slice
  /\ o \in Msg => /\ \A q : q \in DOMAIN n.heap <=> q \in DOMAIN m.heap /\ (m.heap[q].counted => SlicedAt(n, q))
                  /\ n.slice = [m.slice EXCEPT ![o] = Null]
  /\ \A q \in DOMAIN n.heap : n.heap[q] = m.heap[q]
  /\ n.held = m.held

Unblocked(v, w) ==
  /\ Vector(v) /\ v.buf = Null /\ v.allocator = w.allocator /\ v.own = w.own /\ v.reserved = w.reserved
  /\ v.initial = w.initial /\ v.size = w.size /\ v.cur = w.cur /\ v.scratch = w.scratch

LEMMA ClearBufferFields ==
  ASSUME Parameters, NEW m, MemInv(m), NEW o \in DOMAIN m.vec
  PROVE  LET n == ClearBuffer(m, o)
         IN  /\ MemTypes(n) /\ FreedBlocks(m, n, o) /\ SameProgram(m, n)
             /\ Unblocked(n.vec[o], m.vec[o]) /\ \A q \in DOMAIN m.vec \ {o} : n.vec[q] = m.vec[q]
<1> DEFINE v == m.vec[o]
           f == Freed(m, o)
           w == [v EXCEPT !.buf = Null]
           n == SetVector(f, o, w)
<1>1. ClearBuffer(m, o) = n
  BY DEF ClearBuffer, Freed
<1>2. Vector(v) /\ o \in Plain \cup Msg /\ Plain \cap Msg = {}
  BY DEF MemInv, MemTypes, Parameters, Plain, Msg
<1>3. MemTypes(f) /\ OnlyBlocks(m, f) /\ FreedBlocks(m, f, o)
  <2> HIDE DEF f
  <2>1. CASE o \in Plain
    <3>1. /\ MemTypes(f) /\ OnlyBlocks(m, f) /\ f.slice = m.slice
          /\ DOMAIN f.heap = DOMAIN m.heap \ {m.vec[o].buf} /\ \A q \in DOMAIN f.heap : f.heap[q] = m.heap[q]
      BY <2>1, PlainFreed DEF f
    <3> QED BY <1>2, <2>1, <3>1 DEF FreedBlocks, OnlyBlocks
  <2>2. CASE o \in Msg
    <3>1. /\ MemTypes(f) /\ OnlyBlocks(m, f) /\ f.slice = [m.slice EXCEPT ![o] = Null]
          /\ \A q : q \in DOMAIN f.heap <=> q \in DOMAIN m.heap /\ (m.heap[q].counted => SlicedAt(f, q))
          /\ \A q \in DOMAIN f.heap : f.heap[q] = m.heap[q]
      BY <2>2, MsgFreed DEF f
    <3> QED BY <1>2, <2>2, <3>1 DEF FreedBlocks, OnlyBlocks
  <2> QED BY <1>2, <2>1, <2>2
<1>4. Unblocked(w, v)
  <2>1. w = [v EXCEPT !.buf = Null]
    OBVIOUS
  <2> HIDE DEF v, w
  <2>2. /\ w.buf = Null /\ w.allocator = v.allocator /\ w.own = v.own /\ w.reserved = v.reserved
        /\ w.initial = v.initial /\ w.size = v.size /\ w.cur = v.cur /\ w.scratch = v.scratch
        /\ w = [allocator |-> w.allocator, own |-> w.own, initial |-> w.initial, reserved |-> w.reserved,
                size |-> w.size, buf |-> w.buf, cur |-> w.cur, scratch |-> w.scratch]
    BY <1>2, <2>1 DEF Vector
  <2>3. Vector(w)
    BY <1>2, <2>2 DEF Vector
  <2> QED BY <2>2, <2>3 DEF Unblocked
<1> HIDE DEF f, w
<1>5. /\ MemTypes(n) /\ DOMAIN n.vec = DOMAIN m.vec /\ n.vec[o] = w
      /\ \A q \in DOMAIN m.vec \ {o} : n.vec[q] = m.vec[q]
      /\ n.heap = f.heap /\ n.finished = m.finished /\ n.arena = m.arena /\ n.held = m.held /\ n.slice = f.slice
  <2>1. Vector(w) /\ o \in DOMAIN f.vec
    BY <1>3, <1>4 DEF Unblocked, OnlyBlocks
  <2> QED BY <1>3, <2>1, SetVecFields DEF OnlyBlocks
<1> HIDE DEF n
<1>6. FreedBlocks(m, n, o)
  <2>1. f.held = m.held
    BY <1>3 DEF OnlyBlocks
  <2>2. \A q : SlicedAt(n, q) <=> SlicedAt(f, q)
    BY <1>5, <2>1 DEF SlicedAt
  <2> QED BY <1>3, <1>5, <2>2 DEF FreedBlocks
<1> QED BY <1>1, <1>4, <1>5, <1>6 DEF SameProgram

LEMMA FreedFrozen ==
  ASSUME NEW m, NEW n, NEW o \in Plain \cup Msg, FreedBlocks(m, n, o)
  PROVE  Frozen(m, n)
  BY DEF FreedBlocks, Frozen

\* An empty vector in place of o, or none at all.
LEMMA FreedOwned ==
  ASSUME Parameters, NEW m, MemInv(m), NEW n, MemTypes(n), NEW o \in DOMAIN m.vec, FreedBlocks(m, n, o),
         DOMAIN n.vec \in {DOMAIN m.vec, DOMAIN m.vec \ {o}}, \A q \in DOMAIN n.vec \ {o} : n.vec[q] = m.vec[q],
         o \in DOMAIN n.vec => /\ n.vec[o].buf = Null /\ n.vec[o].reserved = 0 /\ n.vec[o].allocator = m.vec[o].allocator
                               /\ n.vec[o].own = m.vec[o].own
                               /\ n.vec[o].cur = 0 /\ n.vec[o].size = 0 /\ n.vec[o].scratch = 0
  PROVE  Owned(n)
<1>1. o \in Plain \cup Msg /\ MemTypes(m) /\ Owned(m)
  BY DEF MemInv, MemTypes
<1>2. CASE o \in Plain
  BY <1>1, <1>2, PlainEmptied DEF FreedBlocks
<1>3. CASE o \in Msg
  <2>1. m.vec[o].allocator = o /\ ~m.vec[o].own
    BY <1>1, <1>3 DEF Owned, MsgOwn
  <2> QED BY <1>1, <1>3, <2>1, MsgEmptied DEF FreedBlocks
<1> QED BY <1>1, <1>2, <1>3

LEMMA ResetKeeps ==
  ASSUME Parameters, NEW m, MemInv(m), NEW o \in DOMAIN m.vec
  PROVE  LET n == ResetBuilder(m, o)
         IN  /\ MemInv(n) /\ DOMAIN n.vec = DOMAIN m.vec /\ n.finished = m.finished \ {o}
             /\ n.arena = m.arena /\ n.held = m.held /\ Frozen(m, n) /\ GivenUp(m, n, o)
<1> DEFINE k == ClearBuilder(m, o)
           c == ClearBuffer(k, o)
           v == ClearVector(c.vec[o])
           n == SetVector(c, o, v)
<1>1. ResetBuilder(m, o) = n
  BY DEF ResetBuilder, ResetVector
<1>2. /\ MemInv(k) /\ DOMAIN k.vec = DOMAIN m.vec /\ k.finished = m.finished \ {o} /\ k.arena = m.arena /\ k.held = m.held
      /\ k.heap = m.heap /\ \A q \in DOMAIN m.vec \ {o} : k.vec[q] = m.vec[q]
  BY ClearKeeps
<1> HIDE DEF k
<1>3. /\ MemTypes(c) /\ FreedBlocks(k, c, o) /\ SameProgram(k, c)
      /\ Unblocked(c.vec[o], k.vec[o]) /\ \A q \in DOMAIN k.vec \ {o} : c.vec[q] = k.vec[q]
  BY <1>2, ClearBufferFields
<1> HIDE DEF c
<1>4. /\ Vector(v) /\ v.buf = Null /\ v.allocator = k.vec[o].allocator /\ v.own = k.vec[o].own
      /\ v.reserved = 0 /\ v.cur = 0 /\ v.size = 0 /\ v.scratch = 0
  <2> DEFINE w == c.vec[o]
  <2>1. Vector(w) /\ w.buf = Null /\ w.allocator = k.vec[o].allocator /\ w.own = k.vec[o].own
    BY <1>3 DEF Unblocked
  <2>2. v = [w EXCEPT !.reserved = 0, !.cur = 0, !.size = 0, !.scratch = 0]
    BY <2>1 DEF ClearVector
  <2> HIDE DEF v, w
  <2>3. /\ v.buf = w.buf /\ v.allocator = w.allocator /\ v.own = w.own /\ v.reserved = 0
        /\ v.cur = 0 /\ v.size = 0 /\ v.scratch = 0 /\ v.initial = w.initial
        /\ v = [allocator |-> v.allocator, own |-> v.own, initial |-> v.initial, reserved |-> v.reserved,
                size |-> v.size, buf |-> v.buf, cur |-> v.cur, scratch |-> v.scratch]
    BY <2>1, <2>2 DEF Vector
  <2> QED BY <2>1, <2>3 DEF Vector
<1> HIDE DEF v
<1>5. /\ MemTypes(n) /\ DOMAIN n.vec = DOMAIN c.vec /\ n.vec[o] = v
      /\ \A q \in DOMAIN c.vec \ {o} : n.vec[q] = c.vec[q]
      /\ n.heap = c.heap /\ n.finished = c.finished /\ n.arena = c.arena /\ n.held = c.held /\ n.slice = c.slice
  <2>1. o \in DOMAIN c.vec
    BY <1>2, <1>3 DEF SameProgram
  <2> QED BY <1>3, <1>4, <2>1, SetVecFields
<1> HIDE DEF n
<1>6. FreedBlocks(k, n, o)
  <2>1. \A q : SlicedAt(n, q) <=> SlicedAt(c, q)
    BY <1>5 DEF SlicedAt
  <2> QED BY <1>3, <1>5, <2>1 DEF FreedBlocks
<1>7. DOMAIN n.vec = DOMAIN k.vec /\ \A q \in DOMAIN n.vec \ {o} : n.vec[q] = k.vec[q]
  BY <1>3, <1>5 DEF SameProgram
<1>8. Owned(n)
  BY <1>2, <1>4, <1>5, <1>6, <1>7, FreedOwned
<1>9. ArenaOwned(n)
  <2>1. \A q \in DOMAIN k.vec : n.vec[q].allocator = k.vec[q].allocator /\ n.vec[q].own = k.vec[q].own
    BY <1>4, <1>5, <1>7
  <2> QED BY <1>2, <1>3, <1>5, <1>7, <2>1 DEF MemInv, ArenaOwned, SameProgram
<1>10. Frozen(m, n)
  <2>1. o \in Plain \cup Msg
    BY DEF MemInv, MemTypes
  <2> QED BY <1>2, <1>6, <2>1, FreedFrozen DEF Frozen
<1>11. GivenUp(m, n, o)
  BY <1>2, <1>3, <1>4, <1>5, <1>7 DEF GivenUp, SameProgram
<1> QED BY <1>1, <1>2, <1>3, <1>5, <1>8, <1>9, <1>10, <1>11 DEF MemInv, SameProgram

\* The allocator of a vector that goes is deleted if the vector owns it.
LEMMA DeletedFields ==
  ASSUME NEW m, MemTypes(m), m.arena # "deleted", NEW a
  PROVE  LET n == DeleteAllocator(m, a)
         IN  /\ MemTypes(n) /\ n.arena = "deleted" /\ n.vec = m.vec /\ n.heap = m.heap /\ n.finished = m.finished
             /\ n.held = m.held /\ n.slice = m.slice
<1> DEFINE n == DeleteAllocator(m, a)
<1>1. /\ IsMem(n) /\ n.arena = "deleted" /\ n.vec = m.vec /\ n.heap = m.heap /\ n.finished = m.finished
      /\ n.held = m.held /\ n.slice = m.slice /\ n.failed = m.failed
  BY DEF DeleteAllocator, MemTypes, IsMem
<1> HIDE DEF n
<1>2. MemTypes(n)
  BY <1>1 DEF MemTypes
<1> QED BY <1>1, <1>2 DEF n

LEMMA ForgetFields ==
  ASSUME NEW m, MemTypes(m), NEW o
  PROVE  LET n == Forget(m, o)
         IN  /\ MemTypes(n) /\ DOMAIN n.vec = DOMAIN m.vec \ {o} /\ (\A q \in DOMAIN n.vec : n.vec[q] = m.vec[q])
             /\ n.finished = m.finished \ {o} /\ n.heap = m.heap /\ n.arena = m.arena /\ n.held = m.held /\ n.slice = m.slice
<1> DEFINE n == Forget(m, o)
<1>1. /\ IsMem(n) /\ n.vec = [q \in DOMAIN m.vec \ {o} |-> m.vec[q]] /\ n.finished = m.finished \ {o}
      /\ n.heap = m.heap /\ n.arena = m.arena /\ n.held = m.held /\ n.slice = m.slice /\ n.failed = m.failed
  <2> DEFINE V == [q \in DOMAIN m.vec \ {o} |-> m.vec[q]]
             F == m.finished \ {o}
  <2>1. n = [m EXCEPT !.vec = V, !.finished = F]
    BY DEF Forget
  <2> HIDE DEF V, F, n
  <2>2. /\ IsMem(n) /\ n.vec = V /\ n.finished = F
        /\ n.heap = m.heap /\ n.arena = m.arena /\ n.held = m.held /\ n.slice = m.slice /\ n.failed = m.failed
    BY <2>1 DEF MemTypes, IsMem
  <2> QED BY <2>2 DEF V, F
<1> HIDE DEF n
<1>2. DOMAIN n.vec = DOMAIN m.vec \ {o} /\ (\A q \in DOMAIN n.vec : n.vec[q] = m.vec[q]) /\ n.vec = [q \in DOMAIN n.vec |-> n.vec[q]]
  BY <1>1
<1>3. MemTypes(n)
  BY <1>1, <1>2 DEF MemTypes
<1> QED BY <1>1, <1>2, <1>3 DEF n

LEMMA DestructKeeps ==
  ASSUME Parameters, NEW m, MemInv(m), NEW o \in DOMAIN m.vec
  PROVE  LET n == Destruct(m, o)
         IN  /\ MemInv(n) /\ DOMAIN n.vec = DOMAIN m.vec \ {o} /\ \A q \in DOMAIN n.vec : n.vec[q] = m.vec[q]
             /\ n.finished = m.finished \ {o} /\ n.held = m.held /\ Frozen(m, n)
<1> DEFINE v == m.vec[o]
           c == ClearBuffer(m, o)
           u == c.vec[o]
           a == IF u.own /\ u.allocator # Default THEN DeleteAllocator(c, u.allocator) ELSE c
           w == [u EXCEPT !.allocator = Default, !.own = FALSE]
           d == SetVector(a, o, w)
           f == Forget(d, o)
           g == [f EXCEPT !.slice[o] = Null]
           n == IF o \in DOMAIN m.slice THEN Collect(g) ELSE f
<1>1. Destruct(m, o) = n
  BY DEF Destruct, DestroyVector, ClearAllocator
<1>2. o \in Plain \cup Msg /\ Plain \cap Msg = {} /\ DOMAIN m.slice = Msg
  BY DEF MemInv, MemTypes, Parameters, Plain, Msg
<1>3. /\ MemTypes(c) /\ FreedBlocks(m, c, o) /\ SameProgram(m, c)
      /\ Unblocked(u, v) /\ \A q \in DOMAIN m.vec \ {o} : c.vec[q] = m.vec[q]
  BY ClearBufferFields
<1>4. u.own = v.own /\ u.allocator = v.allocator /\ Vector(u) /\ c.arena = m.arena /\ Default # Arena
  BY <1>3 DEF Unblocked, SameProgram, Parameters
<1>5. v.own => v.allocator = Arena /\ m.arena # "deleted" /\ m.arena # "none"
  BY DEF MemInv, ArenaOwned
<1> HIDE DEF c, u
<1>6. /\ MemTypes(a) /\ a.arena = (IF v.own THEN "deleted" ELSE m.arena) /\ a.vec = c.vec /\ a.heap = c.heap
      /\ a.finished = m.finished /\ a.held = m.held /\ a.slice = c.slice
  <2>1. CASE v.own
    BY <1>3, <1>4, <1>5, <2>1, DeletedFields DEF SameProgram
  <2>2. CASE ~v.own
    BY <1>3, <1>4, <2>2 DEF SameProgram
  <2> QED BY <2>1, <2>2
<1> HIDE DEF a
<1>7. Vector(w)
  <2>1. w = [u EXCEPT !.allocator = Default, !.own = FALSE]
    OBVIOUS
  <2> HIDE DEF w
  <2>2. /\ w.own = FALSE /\ w.initial = u.initial /\ w.reserved = u.reserved /\ w.size = u.size /\ w.cur = u.cur
        /\ w.scratch = u.scratch
        /\ w = [allocator |-> w.allocator, own |-> w.own, initial |-> w.initial, reserved |-> w.reserved,
                size |-> w.size, buf |-> w.buf, cur |-> w.cur, scratch |-> w.scratch]
    BY <1>4, <2>1 DEF Vector
  <2> QED BY <1>4, <2>2 DEF Vector
<1> HIDE DEF w
<1>8. /\ MemTypes(d) /\ DOMAIN d.vec = DOMAIN m.vec /\ (\A q \in DOMAIN m.vec \ {o} : d.vec[q] = m.vec[q])
      /\ d.heap = c.heap /\ d.finished = m.finished /\ d.arena = a.arena /\ d.held = m.held /\ d.slice = c.slice
  <2>1. o \in DOMAIN a.vec /\ DOMAIN a.vec = DOMAIN m.vec
    BY <1>3, <1>6 DEF SameProgram
  <2> QED BY <1>3, <1>6, <1>7, <2>1, SetVecFields
<1> HIDE DEF d
<1>9. /\ MemTypes(f) /\ DOMAIN f.vec = DOMAIN m.vec \ {o} /\ (\A q \in DOMAIN f.vec : f.vec[q] = m.vec[q])
      /\ f.finished = m.finished \ {o} /\ f.heap = c.heap /\ f.arena = a.arena /\ f.held = m.held /\ f.slice = c.slice
  BY <1>8, ForgetFields
<1> HIDE DEF f
<1>10. FreedBlocks(m, f, o)
  <2>1. \A q : SlicedAt(f, q) <=> SlicedAt(c, q)
    BY <1>3, <1>9 DEF SlicedAt, FreedBlocks
  <2> QED BY <1>3, <1>9, <2>1 DEF FreedBlocks
<1>11. /\ MemTypes(n) /\ DOMAIN n.vec = DOMAIN m.vec \ {o} /\ (\A q \in DOMAIN n.vec : n.vec[q] = m.vec[q])
       /\ n.finished = m.finished \ {o} /\ n.arena = a.arena /\ n.held = m.held /\ FreedBlocks(m, n, o)
  <2>1. CASE o \in Plain
    <3>1. n = f
      BY <1>2, <2>1
    <3> QED BY <1>9, <1>10, <3>1
  <2>2. CASE o \in Msg
    <3>1. n = Collect(g)
      BY <1>2, <2>2
    <3>2. MemTypes(g) /\ OnlyBlocks(f, g) /\ g.heap = f.heap /\ g.slice = [f.slice EXCEPT ![o] = Null]
      BY <1>9, <2>2, SetSliceFields
    <3> HIDE DEF g
    <3>3. /\ MemTypes(n) /\ OnlyBlocks(g, n) /\ n.slice = g.slice
          /\ \A q : q \in DOMAIN n.heap <=> q \in DOMAIN g.heap /\ (g.heap[q].counted => SlicedAt(g, q))
          /\ \A q \in DOMAIN n.heap : n.heap[q] = g.heap[q]
      BY <3>1, <3>2, CollectFields
    <3> HIDE DEF n
    <3>4. f.slice = [m.slice EXCEPT ![o] = Null]
      BY <1>10, <2>2 DEF FreedBlocks
    <3>5. n.slice = f.slice /\ g.slice = f.slice
      BY <1>2, <2>2, <3>2, <3>3, <3>4
    <3>6. \A q : (SlicedAt(g, q) <=> SlicedAt(f, q)) /\ (SlicedAt(n, q) <=> SlicedAt(f, q))
      BY <3>2, <3>3, <3>5 DEF SlicedAt, OnlyBlocks
    <3>7. FreedBlocks(m, n, o)
      BY <1>2, <1>10, <2>2, <3>2, <3>3, <3>4, <3>5, <3>6, <1>9 DEF FreedBlocks, OnlyBlocks
    <3> QED BY <1>9, <3>2, <3>3, <3>7 DEF OnlyBlocks
  <2> QED BY <1>2, <2>1, <2>2
<1> HIDE DEF n
<1>12. Owned(n)
  <2>1. DOMAIN n.vec \in {DOMAIN m.vec, DOMAIN m.vec \ {o}} /\ o \notin DOMAIN n.vec
    BY <1>11
  <2> QED BY <1>11, <2>1, FreedOwned
<1>13. ArenaOwned(n)
  <2>1. CASE v.own
    BY <1>5, <1>6, <1>11, <2>1 DEF MemInv, ArenaOwned
  <2>2. CASE ~v.own
    BY <1>6, <1>11, <2>2 DEF MemInv, ArenaOwned
  <2> QED BY <2>1, <2>2
<1>14. Frozen(m, n)
  BY <1>2, <1>11, FreedFrozen
<1> QED BY <1>1, <1>11, <1>12, <1>13, <1>14 DEF MemInv

-----------------------------------------------------------------------------
(* Vectors, slices and allocators change places.                            *)

LEMMA SwapBuildersFields ==
  ASSUME NEW m, MemTypes(m), NEW o \in DOMAIN m.vec, NEW p \in DOMAIN m.vec
  PROVE  LET n == SwapBuilders(m, o, p)
         IN  /\ MemTypes(n) /\ n.vec = [m.vec EXCEPT ![o] = m.vec[p], ![p] = m.vec[o]] /\ n.finished \subseteq DOMAIN m.vec
             /\ n.heap = m.heap /\ n.arena = m.arena /\ n.held = m.held /\ n.slice = m.slice
             /\ FinishedExchanged(m, n, o, p)
<1> DEFINE V == [m.vec EXCEPT ![o] = m.vec[p], ![p] = m.vec[o]]
           F == {q \in Object \cup {Temp, TempMessage} : (CASE q = o -> p [] q = p -> o [] OTHER -> q) \in m.finished}
           s == SwapVectors(m, o, p)
           n == SwapBuilders(m, o, p)
<1>1. F \subseteq DOMAIN m.vec
  <2>1. m.finished \subseteq DOMAIN m.vec
    BY DEF MemTypes
  <2> SUFFICES ASSUME NEW q \in F, q # o, q # p PROVE q \in DOMAIN m.vec
    OBVIOUS
  <2>2. (CASE q = o -> p [] q = p -> o [] OTHER -> q) = q
    OBVIOUS
  <2> QED BY <2>1, <2>2
<1>8. m.finished \ {o, p} \subseteq F /\ (o \in m.finished => p \in F) /\ (p \in m.finished => o \in F)
  <2>1. m.finished \subseteq DOMAIN m.vec /\ DOMAIN m.vec \subseteq Object \cup {Temp, TempMessage}
    BY DEF MemTypes, Plain, Msg, Object
  <2>2. ASSUME NEW q \in m.finished, q # o, q # p PROVE q \in F
    <3>1. (CASE q = o -> p [] q = p -> o [] OTHER -> q) = q
      BY <2>2
    <3> QED BY <2>1, <2>2, <3>1
  <2>3. ASSUME o \in m.finished PROVE p \in F
    <3>1. (CASE p = o -> p [] p = p -> o [] OTHER -> p) = o
      OBVIOUS
    <3> QED BY <2>1, <2>3, <3>1
  <2>4. ASSUME p \in m.finished PROVE o \in F
    <3>1. (CASE o = o -> p [] o = p -> o [] OTHER -> o) = p
      OBVIOUS
    <3> QED BY <2>1, <2>4, <3>1
  <2> HIDE DEF F
  <2> QED BY <2>2, <2>3, <2>4
<1>2. n = [s EXCEPT !.finished = F]
  BY DEF SwapBuilders
<1>3. s = [m EXCEPT !.vec = V]
  BY DEF SwapVectors, MemTypes, IsMem
<1>4. DOMAIN V = DOMAIN m.vec /\ V = [q \in DOMAIN V |-> V[q]] /\ \A q \in DOMAIN V : Vector(V[q])
  BY DEF MemTypes
<1> HIDE DEF F, V, s, n
<1>5. /\ IsMem(s) /\ s.vec = V /\ s.failed = m.failed
      /\ s.heap = m.heap /\ s.arena = m.arena /\ s.held = m.held /\ s.slice = m.slice
  BY <1>3 DEF MemTypes, IsMem
<1>6. /\ IsMem(n) /\ n.vec = V /\ n.failed = m.failed /\ n.finished = F
      /\ n.heap = m.heap /\ n.arena = m.arena /\ n.held = m.held /\ n.slice = m.slice
  BY <1>2, <1>5 DEF IsMem
<1>7. MemTypes(n)
  BY <1>1, <1>4, <1>6 DEF MemTypes
<1>9. FinishedExchanged(m, n, o, p)
  BY <1>6, <1>8 DEF FinishedExchanged
<1> QED BY <1>1, <1>6, <1>7, <1>9 DEF n, V

LEMMA SwapPlainKeeps ==
  ASSUME Parameters, NEW m, MemInv(m), NEW o \in DOMAIN m.vec \cap Plain, NEW p \in DOMAIN m.vec \cap Plain
  PROVE  LET n == SwapBuilders(m, o, p)
         IN  /\ MemInv(n) /\ DOMAIN n.vec = DOMAIN m.vec /\ n.arena = m.arena /\ n.held = m.held
             /\ Exchanged(m, n, o, p) /\ Frozen(m, n)
<1> DEFINE n == SwapBuilders(m, o, p)
<1>1. /\ MemTypes(n) /\ n.vec = [m.vec EXCEPT ![o] = m.vec[p], ![p] = m.vec[o]]
      /\ n.heap = m.heap /\ n.arena = m.arena /\ n.held = m.held /\ n.slice = m.slice
      /\ FinishedExchanged(m, n, o, p)
  BY SwapBuildersFields DEF MemInv
<1> HIDE DEF n
<1>2. Owned(n)
  BY <1>1, PlainSwapped DEF MemInv
<1>3. ArenaOwned(n)
  <2>1. DOMAIN n.vec = DOMAIN m.vec /\ n.vec[o] = m.vec[p] /\ n.vec[p] = m.vec[o] /\ \A q \in DOMAIN m.vec \ {o, p} : n.vec[q] = m.vec[q]
    BY <1>1
  <2> QED BY <1>1, <2>1 DEF MemInv, ArenaOwned
<1>4. Exchanged(m, n, o, p) /\ Frozen(m, n)
  BY <1>1 DEF Exchanged, SameStorage, Frozen
<1> QED BY <1>1, <1>2, <1>3, <1>4 DEF MemInv, n

LEMMA MoveConstructKeeps ==
  ASSUME Parameters, NEW m, MemInv(m), NEW o \in Plain, o \notin DOMAIN m.vec, NEW p \in DOMAIN m.vec \cap Plain
  PROVE  LET n == MoveConstruct(m, o, p)
         IN  MemInv(n) /\ DOMAIN n.vec = DOMAIN m.vec \cup {o} /\ n.arena = m.arena /\ n.held = m.held
<1> DEFINE c == Construct(m, o, Default, FALSE)
<1>1. Default # Arena /\ o \notin Msg
  BY DEF Parameters, Plain, Msg
<1>2. MemInv(c) /\ DOMAIN c.vec = DOMAIN m.vec \cup {o} /\ c.arena = m.arena /\ c.held = m.held
  <2>1. o \in Plain \cup Msg /\ FALSE \in BOOLEAN /\ Default \in {Default, Arena}
    OBVIOUS
  <2> QED BY <1>1, <2>1, ConstructKeeps, ZenonT(30)
<1> HIDE DEF c
<1>3. LET n == SwapBuilders(c, o, p)
      IN  MemInv(n) /\ DOMAIN n.vec = DOMAIN c.vec /\ n.arena = c.arena /\ n.held = c.held
  BY <1>2, SwapPlainKeeps
<1> QED BY <1>2, <1>3 DEF MoveConstruct, c

LEMMA MoveAssignKeeps ==
  ASSUME Parameters, NEW m, MemInv(m), Temp \notin DOMAIN m.vec, NEW o \in DOMAIN m.vec \cap Plain, NEW p \in DOMAIN m.vec \cap Plain
  PROVE  LET n == MoveAssign(m, o, p)
         IN  MemInv(n) /\ DOMAIN n.vec = DOMAIN m.vec /\ n.held = m.held
<1> DEFINE c == MoveConstruct(m, Temp, p)
           s == SwapBuilders(c, o, Temp)
           n == Destruct(s, Temp)
<1>1. MemInv(c) /\ DOMAIN c.vec = DOMAIN m.vec \cup {Temp} /\ c.arena = m.arena /\ c.held = m.held /\ Temp \in Plain
  BY MoveConstructKeeps DEF Plain
<1> HIDE DEF c
<1>2. MemInv(s) /\ DOMAIN s.vec = DOMAIN c.vec /\ s.held = c.held
  BY <1>1, SwapPlainKeeps
<1> HIDE DEF s
<1>3. MemInv(n) /\ DOMAIN n.vec = DOMAIN s.vec \ {Temp} /\ n.held = s.held
  BY <1>1, <1>2, DestructKeeps
<1> HIDE DEF n
<1> QED BY <1>1, <1>2, <1>3 DEF MoveAssign, c, s, n

\* A vector with another's allocator.
WithAllocator(v, w) == [v EXCEPT !.allocator = w.allocator, !.own = w.own]

LEMMA WithAllocatorFields ==
  ASSUME NEW v, Vector(v), NEW w, Vector(w)
  PROVE  LET u == WithAllocator(v, w) IN Vector(u) /\ SameStorage(u, v) /\ u.allocator = w.allocator /\ u.own = w.own
<1> DEFINE u == WithAllocator(v, w)
           a == w.allocator
           b == w.own
<1>1. u = [v EXCEPT !.allocator = a, !.own = b] /\ b \in BOOLEAN
  BY DEF WithAllocator, Vector
<1> HIDE DEF u, a, b
<1>2. /\ u.allocator = a /\ u.own = b /\ u.initial = v.initial /\ u.reserved = v.reserved /\ u.size = v.size /\ u.cur = v.cur
      /\ u.scratch = v.scratch /\ u.buf = v.buf
      /\ u = [allocator |-> u.allocator, own |-> u.own, initial |-> u.initial, reserved |-> u.reserved,
              size |-> u.size, buf |-> u.buf, cur |-> u.cur, scratch |-> u.scratch]
  BY <1>1 DEF Vector
<1>3. Vector(u)
  BY <1>1, <1>2 DEF Vector
<1> QED BY <1>2, <1>3 DEF SameStorage, u, a, b

LEMMA SwapAllocatorsFields ==
  ASSUME NEW m, MemTypes(m), NEW o \in DOMAIN m.vec, NEW p \in DOMAIN m.vec, o # p
  PROVE  LET n == SwapAllocators(m, o, p)
         IN  /\ MemTypes(n) /\ DOMAIN n.vec = DOMAIN m.vec /\ \A q \in DOMAIN m.vec \ {o, p} : n.vec[q] = m.vec[q]
             /\ n.vec[o] = WithAllocator(m.vec[o], m.vec[p]) /\ n.vec[p] = WithAllocator(m.vec[p], m.vec[o])
             /\ n.heap = m.heap /\ n.finished = m.finished /\ n.arena = m.arena /\ n.held = m.held /\ n.slice = m.slice
<1> DEFINE v == m.vec[o]
           w == m.vec[p]
           V == [m.vec EXCEPT ![o].allocator = w.allocator, ![o].own = w.own,
                              ![p].allocator = v.allocator, ![p].own = v.own]
           n == SwapAllocators(m, o, p)
<1>1. n = [m EXCEPT !.vec = V]
  BY DEF SwapAllocators, MemTypes, IsMem
<1>2. /\ DOMAIN V = DOMAIN m.vec /\ V = [q \in DOMAIN V |-> V[q]] /\ \A q \in DOMAIN m.vec \ {o, p} : V[q] = m.vec[q]
      /\ V[o] = WithAllocator(v, w) /\ V[p] = WithAllocator(w, v)
  BY DEF MemTypes, WithAllocator
<1> HIDE DEF V, n
<1>3. /\ IsMem(n) /\ n.vec = V /\ n.failed = m.failed /\ n.finished = m.finished
      /\ n.heap = m.heap /\ n.arena = m.arena /\ n.held = m.held /\ n.slice = m.slice
  BY <1>1 DEF MemTypes, IsMem
<1>4. Vector(V[o]) /\ Vector(V[p])
  <2>1. Vector(v) /\ Vector(w)
    BY DEF MemTypes
  <2> QED BY <1>2, <2>1, WithAllocatorFields
<1>5. \A q \in DOMAIN m.vec : Vector(V[q])
  BY <1>2, <1>4 DEF MemTypes
<1>6. MemTypes(n)
  BY <1>2, <1>3, <1>5 DEF MemTypes
<1> QED BY <1>2, <1>3, <1>6 DEF n

LEMMA SwapSlicesFields ==
  ASSUME NEW m, MemTypes(m), NEW o \in Msg, NEW p \in Msg
  PROVE  LET n == SwapSlices(m, o, p)
         IN  MemTypes(n) /\ OnlyBlocks(m, n) /\ n.heap = m.heap /\ n.slice = [m.slice EXCEPT ![o] = m.slice[p], ![p] = m.slice[o]]
<1> DEFINE S == [m.slice EXCEPT ![o] = m.slice[p], ![p] = m.slice[o]]
           n == SwapSlices(m, o, p)
<1>1. n = [m EXCEPT !.slice = S]
  BY DEF SwapSlices, MemTypes, IsMem
<1>2. S = [s \in Msg |-> S[s]]
  BY DEF MemTypes
<1> HIDE DEF S, n
<1>3. IsMem(n) /\ n.slice = S /\ n.failed = m.failed /\ OnlyBlocks(m, n) /\ n.heap = m.heap
  BY <1>1 DEF MemTypes, IsMem, OnlyBlocks
<1>4. MemTypes(n)
  BY <1>2, <1>3 DEF MemTypes, OnlyBlocks
<1> QED BY <1>3, <1>4 DEF n, S

LEMMA SwapMessagesKeeps ==
  ASSUME Parameters, NEW m, MemInv(m), NEW o \in DOMAIN m.vec \cap Msg, NEW p \in DOMAIN m.vec \cap Msg, o # p
  PROVE  LET n == SwapMessages(m, o, p)
         IN  /\ MemInv(n) /\ DOMAIN n.vec = DOMAIN m.vec /\ n.arena = m.arena /\ n.held = m.held
             /\ Exchanged(m, n, o, p) /\ Frozen(m, n)
<1> DEFINE s == SwapSlices(m, o, p)
           b == SwapBuilders(s, o, p)
           n == SwapAllocators(b, o, p)
<1>1. MemTypes(s) /\ OnlyBlocks(m, s) /\ s.heap = m.heap /\ s.slice = [m.slice EXCEPT ![o] = m.slice[p], ![p] = m.slice[o]]
  BY SwapSlicesFields DEF MemInv
<1> HIDE DEF s
<1>2. /\ MemTypes(b) /\ b.vec = [m.vec EXCEPT ![o] = m.vec[p], ![p] = m.vec[o]]
      /\ b.heap = m.heap /\ b.arena = m.arena /\ b.held = m.held /\ b.slice = s.slice
      /\ FinishedExchanged(m, b, o, p)
  BY <1>1, SwapBuildersFields DEF OnlyBlocks, FinishedExchanged
<1> HIDE DEF b
<1>3. DOMAIN b.vec = DOMAIN m.vec /\ b.vec[o] = m.vec[p] /\ b.vec[p] = m.vec[o] /\ \A q \in DOMAIN m.vec \ {o, p} : b.vec[q] = m.vec[q]
  BY <1>2
<1>4. /\ MemTypes(n) /\ DOMAIN n.vec = DOMAIN m.vec /\ \A q \in DOMAIN m.vec \ {o, p} : n.vec[q] = m.vec[q]
      /\ n.vec[o] = WithAllocator(m.vec[p], m.vec[o]) /\ n.vec[p] = WithAllocator(m.vec[o], m.vec[p])
      /\ n.heap = m.heap /\ n.arena = m.arena /\ n.held = m.held /\ n.slice = s.slice
      /\ n.finished = b.finished
  BY <1>2, <1>3, SwapAllocatorsFields
<1> HIDE DEF n
<1>5. Vector(m.vec[o]) /\ Vector(m.vec[p])
  BY DEF MemInv, MemTypes
<1>6. m.vec[o].allocator = o /\ ~m.vec[o].own /\ m.vec[p].allocator = p /\ ~m.vec[p].own
  BY DEF MemInv, Owned, MsgOwn
<1>7. /\ SameStorage(n.vec[o], m.vec[p]) /\ n.vec[o].allocator = o /\ ~n.vec[o].own
      /\ SameStorage(n.vec[p], m.vec[o]) /\ n.vec[p].allocator = p /\ ~n.vec[p].own
  BY <1>4, <1>5, <1>6, WithAllocatorFields
<1>8. Owned(n)
  BY <1>1, <1>4, <1>7, MsgSwapped DEF MemInv
<1>9. ArenaOwned(n)
  <2>1. \A q \in DOMAIN m.vec : n.vec[q].allocator = m.vec[q].allocator /\ (n.vec[q].own <=> m.vec[q].own)
    BY <1>4, <1>6, <1>7
  <2> QED BY <1>4, <2>1 DEF MemInv, ArenaOwned
<1>10. Exchanged(m, n, o, p) /\ Frozen(m, n)
  BY <1>2, <1>4, <1>7 DEF Exchanged, Frozen, FinishedExchanged
<1> QED BY <1>4, <1>8, <1>9, <1>10 DEF MemInv, SwapMessages, n, b, s

LEMMA ConstructMessageKeeps ==
  ASSUME Parameters, NEW m, MemInv(m), NEW o \in Msg, o \notin DOMAIN m.vec
  PROVE  LET n == ConstructMessage(m, o)
         IN  /\ MemInv(n) /\ DOMAIN n.vec = DOMAIN m.vec \cup {o} /\ n.vec[o] = NewVector(o, FALSE, InitialSize)
             /\ \A q \in DOMAIN m.vec : n.vec[q] = m.vec[q]
             /\ n.heap = m.heap /\ n.finished = m.finished /\ n.arena = m.arena /\ n.held = m.held /\ n.slice = m.slice
<1>1. o \notin Plain /\ o # Arena /\ o \in Plain \cup Msg /\ FALSE \in BOOLEAN
  BY DEF Parameters, Plain, Msg
<1> QED BY <1>1, ConstructKeeps, ZenonT(30) DEF ConstructMessage

LEMMA MoveConstructMessageKeeps ==
  ASSUME Parameters, NEW m, MemInv(m), NEW o \in Msg, o \notin DOMAIN m.vec, NEW p \in DOMAIN m.vec \cap Msg
  PROVE  LET n == MoveConstructMessage(m, o, p)
         IN  MemInv(n) /\ DOMAIN n.vec = DOMAIN m.vec \cup {o} /\ n.arena = m.arena /\ n.held = m.held
<1> DEFINE c == ConstructMessage(m, o)
<1>1. MemInv(c) /\ DOMAIN c.vec = DOMAIN m.vec \cup {o} /\ c.arena = m.arena /\ c.held = m.held
  BY ConstructMessageKeeps
<1> HIDE DEF c
<1>2. LET n == SwapMessages(c, o, p)
      IN  MemInv(n) /\ DOMAIN n.vec = DOMAIN c.vec /\ n.arena = c.arena /\ n.held = c.held
  BY <1>1, SwapMessagesKeeps
<1> QED BY <1>1, <1>2 DEF MoveConstructMessage, c

\* The message in an unnamed builder replaces that of o.
LEMMA ReplaceMessageKeeps ==
  ASSUME Parameters, NEW m, MemInv(m), NEW o \in DOMAIN m.vec \cap MessageBuilder, TempMessage \in DOMAIN m.vec
  PROVE  LET n == Destruct(SwapMessages(m, o, TempMessage), TempMessage)
         IN  MemInv(n) /\ DOMAIN n.vec = DOMAIN m.vec \ {TempMessage} /\ n.held = m.held
<1> DEFINE s == SwapMessages(m, o, TempMessage)
           n == Destruct(s, TempMessage)
<1>1. o \in Msg /\ TempMessage \in Msg /\ o # TempMessage
  BY DEF Parameters, Msg
<1>2. MemInv(s) /\ DOMAIN s.vec = DOMAIN m.vec /\ s.held = m.held
  BY <1>1, SwapMessagesKeeps
<1> HIDE DEF s
<1>3. MemInv(n) /\ DOMAIN n.vec = DOMAIN s.vec \ {TempMessage} /\ n.held = s.held
  BY <1>2, DestructKeeps
<1> QED BY <1>2, <1>3 DEF s

LEMMA AdoptFields ==
  ASSUME NEW m, MemTypes(m), NEW o \in DOMAIN m.vec \cap Msg,
         m.vec[o].reserved # 0 <=> m.vec[o].buf # Null, m.vec[o].buf # Null => m.vec[o].buf \in DOMAIN m.heap, m.slice[o] = Null
  PROVE  LET n == Adopt(m, o)   b == m.vec[o].buf
         IN  /\ MemTypes(n) /\ OnlyBlocks(m, n) /\ n.slice = [m.slice EXCEPT ![o] = b]
             /\ DOMAIN n.heap = DOMAIN m.heap /\ \A q \in DOMAIN m.heap \ {b} : n.heap[q] = m.heap[q]
             /\ b # Null => n.heap[b].counted /\ n.heap[b].bytes = m.heap[b].bytes
<1> DEFINE b == m.vec[o].buf
           n == Adopt(m, o)
<1>1. CASE b = Null
  <2>1. n = m /\ m.slice = [m.slice EXCEPT ![o] = b]
    BY <1>1 DEF Adopt, MemTypes
  <2> QED BY <1>1, <2>1 DEF OnlyBlocks
<1>2. CASE b # Null
  <2> DEFINE B == [m.heap[b] EXCEPT !.counted = TRUE]
             H == [m.heap EXCEPT ![b] = B]
             s == [m EXCEPT !.slice[o] = b]
  <2>1. n = [s EXCEPT !.heap = H]
    BY <1>2 DEF Adopt, MemTypes, IsMem
  <2>2. MemTypes(s) /\ OnlyBlocks(m, s) /\ s.heap = m.heap /\ s.slice = [m.slice EXCEPT ![o] = b]
    BY SetSliceFields
  <2>3. Block(B) /\ B.counted = TRUE /\ B.bytes = m.heap[b].bytes
    <3> DEFINE c == m.heap[b]
    <3>1. B = [c EXCEPT !.counted = TRUE] /\ Block(c)
      BY <1>2 DEF MemTypes
    <3> HIDE DEF B, c
    <3>2. Block(B) /\ B.counted = TRUE /\ B.bytes = c.bytes
      BY <3>1 DEF Block
    <3> QED BY <3>2 DEF c
  <2> HIDE DEF B
  <2>4. DOMAIN H = DOMAIN m.heap /\ H = [q \in DOMAIN H |-> H[q]] /\ H[b] = B /\ \A q \in DOMAIN m.heap \ {b} : H[q] = m.heap[q]
    BY <1>2 DEF MemTypes
  <2> HIDE DEF H, s, n
  <2>5. IsMem(n) /\ n.heap = H /\ n.slice = s.slice /\ n.failed = s.failed /\ OnlyBlocks(s, n)
    BY <2>1, <2>2 DEF MemTypes, IsMem, OnlyBlocks
  <2>6. MemTypes(n)
    BY <1>2, <2>2, <2>3, <2>4, <2>5 DEF MemTypes, OnlyBlocks
  <2> QED BY <2>2, <2>3, <2>4, <2>5, <2>6 DEF n, OnlyBlocks
<1> QED BY <1>1, <1>2

LEMMA MessageFromBuilderKeeps ==
  ASSUME Parameters, NEW m, MemInv(m), NEW o \in Msg, o \notin DOMAIN m.vec, NEW from \in DOMAIN m.vec \cap Plain,
         m.vec[from].allocator = Default
  PROVE  LET n == MessageFromBuilder(m, o, from)
             c == ConstructMessage(m, o)
         IN  /\ MemInv(n) /\ DOMAIN n.vec = DOMAIN m.vec \cup {o} /\ n.arena = m.arena /\ n.held = m.held
             /\ Exchanged(c, n, o, from) /\ Frozen(c, n) /\ n.held = c.held
<1> DEFINE v == m.vec[from]
           new == NewVector(o, FALSE, InitialSize)
           c == ConstructMessage(m, o)
           b == SwapBuilders(c, from, o)
           a == SwapAllocators(b, from, o)
           n == Adopt(a, o)
<1>1. o # from /\ o # Arena /\ o \notin Plain /\ Default # Arena
  BY DEF Parameters, Plain, Msg
<1>2. /\ MemInv(c) /\ DOMAIN c.vec = DOMAIN m.vec \cup {o} /\ c.vec[o] = new
      /\ \A q \in DOMAIN m.vec : c.vec[q] = m.vec[q]
      /\ c.heap = m.heap /\ c.arena = m.arena /\ c.held = m.held /\ c.slice = m.slice
  BY ConstructMessageKeeps
<1> HIDE DEF c
<1>3. /\ MemTypes(b) /\ b.vec = [c.vec EXCEPT ![from] = c.vec[o], ![o] = c.vec[from]]
      /\ b.heap = m.heap /\ b.arena = m.arena /\ b.held = m.held /\ b.slice = m.slice
      /\ FinishedExchanged(c, b, from, o)
  <2>1. MemTypes(c) /\ from \in DOMAIN c.vec /\ o \in DOMAIN c.vec
    BY <1>2 DEF MemInv
  <2>2. /\ MemTypes(b) /\ b.vec = [c.vec EXCEPT ![from] = c.vec[o], ![o] = c.vec[from]]
        /\ b.heap = c.heap /\ b.arena = c.arena /\ b.held = c.held /\ b.slice = c.slice
        /\ FinishedExchanged(c, b, from, o)
    BY <2>1, SwapBuildersFields
  <2> QED BY <1>2, <2>2
<1> HIDE DEF b
<1>4. /\ DOMAIN b.vec = DOMAIN m.vec \cup {o} /\ b.vec[from] = new /\ b.vec[o] = v
      /\ \A q \in DOMAIN m.vec \ {from} : b.vec[q] = m.vec[q]
  BY <1>1, <1>2, <1>3
<1>5. /\ MemTypes(a) /\ DOMAIN a.vec = DOMAIN m.vec \cup {o} /\ (\A q \in DOMAIN m.vec \ {from} : a.vec[q] = m.vec[q])
      /\ a.vec[from] = WithAllocator(new, v) /\ a.vec[o] = WithAllocator(v, new)
      /\ a.heap = m.heap /\ a.arena = m.arena /\ a.held = m.held /\ a.slice = m.slice /\ a.finished = b.finished
  <2>1. from \in DOMAIN b.vec /\ o \in DOMAIN b.vec /\ from # o
    BY <1>1, <1>4
  <2>2. /\ MemTypes(a) /\ DOMAIN a.vec = DOMAIN b.vec /\ (\A q \in DOMAIN b.vec \ {from, o} : a.vec[q] = b.vec[q])
        /\ a.vec[from] = WithAllocator(b.vec[from], b.vec[o]) /\ a.vec[o] = WithAllocator(b.vec[o], b.vec[from])
        /\ a.heap = b.heap /\ a.arena = b.arena /\ a.held = b.held /\ a.slice = b.slice
        /\ a.finished = b.finished
    BY <1>3, <2>1, SwapAllocatorsFields
  <2>3. \A q \in DOMAIN m.vec \ {from} : q \in DOMAIN b.vec \ {from, o} /\ b.vec[q] = m.vec[q]
    BY <1>4
  <2> HIDE DEF v, new
  <2> QED BY <1>3, <1>4, <2>2, <2>3
<1> HIDE DEF a
<1>6. /\ Vector(new) /\ new.allocator = o /\ new.own = FALSE /\ new.buf = Null /\ new.reserved = 0 /\ new.size = 0
      /\ new.cur = 0 /\ new.scratch = 0
  BY DEF NewVector, Vector, Parameters
<1> HIDE DEF new
<1>7. Vector(v) /\ ~v.own /\ (v.reserved # 0 <=> v.buf # Null) /\ (v.buf # Null => v.buf \in DOMAIN m.heap)
  <2>1. Vector(v)
    BY DEF MemInv, MemTypes
  <2>2. ~v.own
    BY <1>1 DEF MemInv, ArenaOwned
  <2>3. (v.buf = Null => v.reserved = 0) /\ (v.buf # Null => v.reserved > 0 /\ v.buf \in DOMAIN m.heap)
    BY DEF MemInv, Owned, Layout
  <2> QED BY <2>1, <2>2, <2>3 DEF Vector
<1>8. /\ SameStorage(a.vec[from], new) /\ a.vec[from].allocator = Default /\ ~a.vec[from].own
      /\ SameStorage(a.vec[o], v) /\ a.vec[o].allocator = o /\ ~a.vec[o].own
  BY <1>5, <1>6, <1>7, WithAllocatorFields
<1>9. m.slice[o] = Null /\ a.vec[o].buf = v.buf /\ a.vec[o].reserved = v.reserved
  BY <1>8 DEF MemInv, Owned, SlicesOwn, SameStorage
<1>10. /\ MemTypes(n) /\ OnlyBlocks(a, n) /\ n.slice = [m.slice EXCEPT ![o] = v.buf]
       /\ DOMAIN n.heap = DOMAIN m.heap /\ (\A q \in DOMAIN m.heap \ {v.buf} : n.heap[q] = m.heap[q])
       /\ v.buf # Null => n.heap[v.buf].counted /\ n.heap[v.buf].bytes = m.heap[v.buf].bytes
  <2>1. /\ MemTypes(a) /\ o \in DOMAIN a.vec \cap Msg /\ a.slice[o] = Null
        /\ a.vec[o].reserved # 0 <=> a.vec[o].buf # Null
    BY <1>5, <1>7, <1>9
  <2>2. a.vec[o].buf # Null => a.vec[o].buf \in DOMAIN a.heap
    BY <1>5, <1>7, <1>9
  <2>3. /\ MemTypes(n) /\ OnlyBlocks(a, n) /\ n.slice = [a.slice EXCEPT ![o] = a.vec[o].buf]
        /\ DOMAIN n.heap = DOMAIN a.heap /\ (\A q \in DOMAIN a.heap \ {a.vec[o].buf} : n.heap[q] = a.heap[q])
        /\ a.vec[o].buf # Null => n.heap[a.vec[o].buf].counted /\ n.heap[a.vec[o].buf].bytes = a.heap[a.vec[o].buf].bytes
    BY <2>1, <2>2, AdoptFields
  <2> QED BY <1>5, <1>9, <2>3
<1> HIDE DEF n
<1>11. Owned(n)
  <2>1. /\ n.vec[from].buf = Null /\ n.vec[from].reserved = 0 /\ n.vec[from].allocator \in {Default, Arena}
        /\ n.vec[from].cur = 0 /\ n.vec[from].size = 0 /\ n.vec[from].scratch = 0
    BY <1>6, <1>8, <1>10 DEF SameStorage, OnlyBlocks
  <2> QED BY <1>5, <1>8, <1>10, <2>1, VectorAdopted DEF MemInv, OnlyBlocks
<1>12. ArenaOwned(n)
  <2>1. /\ n.vec[from].allocator # Arena /\ ~n.vec[from].own /\ n.vec[o].allocator # Arena /\ ~n.vec[o].own
        /\ \A q \in DOMAIN m.vec \ {from} : n.vec[q] = m.vec[q]
        /\ DOMAIN n.vec = DOMAIN m.vec \cup {o} /\ n.held = m.held /\ n.arena = m.arena
    BY <1>1, <1>5, <1>8, <1>10 DEF OnlyBlocks
  <2> QED BY <2>1 DEF MemInv, ArenaOwned
<1>13. Exchanged(c, n, o, from)
  <2>1. DOMAIN n.vec = DOMAIN c.vec /\ \A q \in DOMAIN c.vec \ {o, from} : n.vec[q] = c.vec[q]
    BY <1>2, <1>5, <1>10 DEF OnlyBlocks
  <2>2. SameStorage(n.vec[o], c.vec[from]) /\ SameStorage(n.vec[from], c.vec[o])
    BY <1>2, <1>8, <1>10 DEF OnlyBlocks
  <2>3. FinishedExchanged(c, n, o, from)
    BY <1>3, <1>5, <1>10 DEF OnlyBlocks, FinishedExchanged
  <2> QED BY <2>1, <2>2, <2>3 DEF Exchanged
<1>14. Frozen(c, n)
  <2>1. Null \notin DOMAIN m.heap
    BY DEF MemInv, MemTypes, Parameters
  <2>2. ASSUME NEW q \in DOMAIN m.heap PROVE n.heap[q].bytes = m.heap[q].bytes
    BY <1>10, <2>1
  <2> QED BY <1>2, <1>10, <2>2 DEF Frozen
<1> QED BY <1>2, <1>5, <1>10, <1>11, <1>12, <1>13, <1>14 DEF MemInv, MessageFromBuilder, OnlyBlocks, n, a, b, c

LEMMA AssignFromBuilderKeeps ==
  ASSUME Parameters, NEW m, MemInv(m), TempMessage \notin DOMAIN m.vec, NEW o \in DOMAIN m.vec \cap MessageBuilder,
         NEW from \in DOMAIN m.vec \cap Plain, m.vec[from].allocator = Default
  PROVE  LET n == AssignFromBuilder(m, o, from)
         IN  MemInv(n) /\ DOMAIN n.vec = DOMAIN m.vec /\ n.held = m.held
<1> DEFINE c == MessageFromBuilder(m, TempMessage, from)
<1>1. TempMessage \in Msg
  BY DEF Msg
<1>2. MemInv(c) /\ DOMAIN c.vec = DOMAIN m.vec \cup {TempMessage} /\ c.held = m.held
  BY <1>1, MessageFromBuilderKeeps
<1> HIDE DEF c
<1>3. o \in DOMAIN c.vec \cap MessageBuilder /\ TempMessage \in DOMAIN c.vec
  BY <1>2
<1>4. LET n == Destruct(SwapMessages(c, o, TempMessage), TempMessage)
      IN  MemInv(n) /\ DOMAIN n.vec = DOMAIN c.vec \ {TempMessage} /\ n.held = c.held
  BY <1>2, <1>3, ReplaceMessageKeeps
<1> QED BY <1>2, <1>4 DEF AssignFromBuilder, c

LEMMA MoveAssignMessageKeeps ==
  ASSUME Parameters, NEW m, MemInv(m), TempMessage \notin DOMAIN m.vec, NEW o \in DOMAIN m.vec \cap MessageBuilder,
         NEW from \in DOMAIN m.vec \cap MessageBuilder
  PROVE  LET n == MoveAssignMessage(m, o, from)
         IN  MemInv(n) /\ DOMAIN n.vec = DOMAIN m.vec /\ n.held = m.held
<1> DEFINE c == MoveConstructMessage(m, TempMessage, from)
<1>1. TempMessage \in Msg /\ from \in DOMAIN m.vec \cap Msg
  BY DEF Msg
<1>2. MemInv(c) /\ DOMAIN c.vec = DOMAIN m.vec \cup {TempMessage} /\ c.held = m.held
  BY <1>1, MoveConstructMessageKeeps
<1> HIDE DEF c
<1>3. o \in DOMAIN c.vec \cap MessageBuilder /\ TempMessage \in DOMAIN c.vec
  BY <1>2
<1>4. LET n == Destruct(SwapMessages(c, o, TempMessage), TempMessage)
      IN  MemInv(n) /\ DOMAIN n.vec = DOMAIN c.vec \ {TempMessage} /\ n.held = c.held
  BY <1>2, <1>3, ReplaceMessageKeeps
<1> QED BY <1>2, <1>4 DEF MoveAssignMessage, c

-----------------------------------------------------------------------------
(* What holders have.                                                       *)

LEMMA HeldFields ==
  ASSUME NEW m, MemTypes(m), NEW h \in Holder, NEW d, Held(d)
  PROVE  LET n == [m EXCEPT !.held[h] = d]
         IN  /\ MemTypes(n) /\ n.held = [m.held EXCEPT ![h] = d]
             /\ n.vec = m.vec /\ n.heap = m.heap /\ n.finished = m.finished /\ n.arena = m.arena /\ n.slice = m.slice
<1> DEFINE H == [m.held EXCEPT ![h] = d]
           n == [m EXCEPT !.held[h] = d]
<1>1. n = [m EXCEPT !.held = H]
  BY DEF MemTypes, IsMem
<1>2. H = [g \in Holder |-> H[g]] /\ \A g \in Holder : Held(H[g])
  BY DEF MemTypes
<1> HIDE DEF H, n
<1>3. /\ IsMem(n) /\ n.held = H /\ n.failed = m.failed
      /\ n.vec = m.vec /\ n.heap = m.heap /\ n.finished = m.finished /\ n.arena = m.arena /\ n.slice = m.slice
  BY <1>1 DEF MemTypes, IsMem
<1>4. MemTypes(n)
  BY <1>2, <1>3 DEF MemTypes
<1> QED BY <1>3, <1>4 DEF n, H

\* What h has can be destroyed.
CanFree(m, h) ==
  LET d == m.held[h]
  IN /\ d.own => d.allocator = Arena /\ d.kind # "slice" /\ m.arena # "deleted"
     /\ d.kind # "slice" /\ d.buf # Null =>
          /\ d.buf \in DOMAIN m.heap /\ ~m.heap[d.buf].counted /\ m.heap[d.buf].by = d.allocator
          /\ d.allocator \in {Default, Arena} /\ ~Gone(m, d.allocator)

LEMMA HeldCanBeFreed ==
  ASSUME Parameters, NEW m, MemInv(m), RawFirst(m), NEW h \in Holder
  PROVE  CanFree(m, h)
<1> DEFINE d == m.held[h]
<1>1. d.kind \in {"none", "detached", "raw", "slice"} /\ (d.kind = "none" => d.buf = Null /\ d.own = FALSE)
  <2>1. d.kind \in {"none", "detached", "raw", "slice"} /\ (d.kind = "none" => d = NoBuffer)
    BY DEF MemInv, MemTypes, Held, Owned, HeldOwn
  <2>2. NoBuffer.buf = Null /\ NoBuffer.own = FALSE
    BY DEF NoBuffer
  <2> HIDE DEF d
  <2> QED BY <2>1, <2>2
<1>2. d.own => d.allocator = Arena /\ d.kind = "detached" /\ m.arena # "deleted"
  BY <1>1 DEF MemInv, Owned, HeldOwn, ArenaOwned
<1>3. ASSUME d.kind # "slice", d.buf # Null
      PROVE  /\ d.buf \in DOMAIN m.heap /\ ~m.heap[d.buf].counted /\ m.heap[d.buf].by = d.allocator
             /\ d.allocator \in {Default, Arena} /\ ~Gone(m, d.allocator)
  <2>1. /\ d.buf \in DOMAIN m.heap /\ ~m.heap[d.buf].counted /\ m.heap[d.buf].by = d.allocator
        /\ d.allocator \in {Default, Arena}
    BY <1>1, <1>3 DEF MemInv, Owned, HeldOwn
  <2>2. d.allocator = Arena => m.arena # "deleted"
    BY <1>1, <1>3 DEF MemInv, ArenaOwned, RawFirst
  <2> QED BY <2>1, <2>2 DEF Gone
<1> QED BY <1>2, <1>3 DEF CanFree

LEMMA DestroyHeldFields ==
  ASSUME Parameters, NEW m, MemTypes(m), NEW h \in Holder, CanFree(m, h)
  PROVE  LET n == DestroyHeld(m, h)
         IN  /\ MemTypes(n) /\ n.held = [m.held EXCEPT ![h] = NoBuffer]
             /\ n.vec = m.vec /\ n.finished = m.finished /\ n.slice = m.slice
             /\ n.arena = (IF m.held[h].own THEN "deleted" ELSE m.arena)
             /\ m.held[h].kind # "slice" => DOMAIN n.heap = DOMAIN m.heap \ {m.held[h].buf}
             /\ m.held[h].kind = "slice" => \A q : q \in DOMAIN n.heap <=> q \in DOMAIN m.heap /\ (m.heap[q].counted => SlicedAt(n, q))
             /\ \A q \in DOMAIN n.heap : n.heap[q] = m.heap[q]
<1> DEFINE d == m.held[h]
           n == DestroyHeld(m, h)
<1>1. Held(NoBuffer)
  BY DEF Held, NoBuffer
<1>2. CASE d.kind = "slice"
  <2> DEFINE e == [m EXCEPT !.held[h] = NoBuffer]
             c == Collect(e)
  <2>1. n = c
    BY <1>2 DEF DestroyHeld
  <2>2. /\ MemTypes(e) /\ e.held = [m.held EXCEPT ![h] = NoBuffer]
        /\ e.vec = m.vec /\ e.heap = m.heap /\ e.finished = m.finished /\ e.arena = m.arena /\ e.slice = m.slice
    BY <1>1, HeldFields
  <2> HIDE DEF e
  <2>3. /\ MemTypes(c) /\ OnlyBlocks(e, c) /\ c.slice = e.slice
        /\ \A q : q \in DOMAIN c.heap <=> q \in DOMAIN e.heap /\ (e.heap[q].counted => SlicedAt(e, q))
        /\ \A q \in DOMAIN c.heap : c.heap[q] = e.heap[q]
    BY <2>2, CollectFields
  <2> HIDE DEF c
  <2>4. \A q : SlicedAt(e, q) <=> SlicedAt(c, q)
    BY <2>3 DEF SlicedAt, OnlyBlocks
  <2>5. d.own = FALSE
    BY <1>2 DEF CanFree, MemTypes, Held
  <2> QED BY <1>2, <2>1, <2>2, <2>3, <2>4, <2>5 DEF OnlyBlocks
<1>3. CASE d.kind # "slice"
  <2> DEFINE f == IF d.buf # Null THEN Deallocate(m, d.allocator, d.buf, d.reserved) ELSE m
             a == IF d.own /\ d.allocator # Default THEN DeleteAllocator(f, d.allocator) ELSE f
             e == [a EXCEPT !.held[h] = NoBuffer]
  <2>1. n = e
    BY <1>3 DEF DestroyHeld
  <2>2. /\ MemTypes(f) /\ OnlyBlocks(m, f) /\ f.slice = m.slice
        /\ DOMAIN f.heap = DOMAIN m.heap \ {d.buf} /\ \A q \in DOMAIN f.heap : f.heap[q] = m.heap[q]
    <3>1. CASE d.buf = Null
      <4>1. f = m /\ Null \notin DOMAIN m.heap
        BY <3>1 DEF MemTypes, Parameters
      <4> HIDE DEF f
      <4> QED BY <3>1, <4>1 DEF OnlyBlocks
    <3>2. CASE d.buf # Null
      <4>1. d.allocator \notin Msg /\ DOMAIN m.slice = Msg
        BY <1>3, <3>2 DEF CanFree, Parameters, Msg, MemTypes
      <4>2. f = Without(m, d.buf)
        BY <1>3, <3>2, <4>1 DEF CanFree, Deallocate
      <4> HIDE DEF f
      <4> QED BY <4>2, WithoutFields
    <3> QED BY <3>1, <3>2
  <2> HIDE DEF f
  <2>3. /\ MemTypes(a) /\ a.arena = (IF d.own THEN "deleted" ELSE m.arena) /\ a.vec = m.vec /\ a.heap = f.heap
        /\ a.finished = m.finished /\ a.held = m.held /\ a.slice = m.slice
    <3>1. d.own => d.allocator = Arena /\ d.allocator # Default /\ f.arena # "deleted"
      BY <2>2 DEF CanFree, Parameters, OnlyBlocks
    <3>2. CASE d.own
      BY <2>2, <3>1, <3>2, DeletedFields DEF OnlyBlocks
    <3>3. CASE ~d.own
      BY <2>2, <3>3 DEF OnlyBlocks
    <3> QED BY <3>2, <3>3
  <2> HIDE DEF a
  <2>4. /\ MemTypes(e) /\ e.held = [a.held EXCEPT ![h] = NoBuffer]
        /\ e.vec = a.vec /\ e.heap = a.heap /\ e.finished = a.finished /\ e.arena = a.arena /\ e.slice = a.slice
    BY <1>1, <2>3, HeldFields
  <2> HIDE DEF e
  <2> QED BY <1>3, <2>1, <2>2, <2>3, <2>4
<1> QED BY <1>2, <1>3

LEMMA DestroyHeldKeeps ==
  ASSUME Parameters, NEW m, MemInv(m), RawFirst(m), NEW h \in Holder
  PROVE  LET n == DestroyHeld(m, h)
         IN  /\ MemInv(n) /\ n.held = [m.held EXCEPT ![h] = NoBuffer]
             /\ n.vec = m.vec /\ n.finished = m.finished /\ n.slice = m.slice /\ Frozen(m, n)
<1> DEFINE n == DestroyHeld(m, h)
<1>1. MemTypes(m) /\ Owned(m) /\ CanFree(m, h)
  BY HeldCanBeFreed DEF MemInv
<1>2. /\ MemTypes(n) /\ n.held = [m.held EXCEPT ![h] = NoBuffer]
      /\ n.vec = m.vec /\ n.finished = m.finished /\ n.slice = m.slice
      /\ n.arena = (IF m.held[h].own THEN "deleted" ELSE m.arena)
      /\ m.held[h].kind # "slice" => DOMAIN n.heap = DOMAIN m.heap \ {m.held[h].buf}
      /\ m.held[h].kind = "slice" => \A q : q \in DOMAIN n.heap <=> q \in DOMAIN m.heap /\ (m.heap[q].counted => SlicedAt(n, q))
      /\ \A q \in DOMAIN n.heap : n.heap[q] = m.heap[q]
  BY <1>1, DestroyHeldFields
<1> HIDE DEF n
<1>3. Owned(n)
  <2>1. CASE m.held[h].kind = "slice"
    BY <1>1, <1>2, <2>1, SliceDropped
  <2>2. CASE m.held[h].kind # "slice"
    BY <1>1, <1>2, <2>2, BufferDropped
  <2> QED BY <2>1, <2>2
<1>4. ArenaOwned(n)
  <2>1. /\ n.held[h] = NoBuffer /\ (\A g \in Holder \ {h} : n.held[g] = m.held[g])
        /\ NoBuffer.own = FALSE /\ NoBuffer.allocator # Arena
    BY <1>1, <1>2 DEF MemTypes, NoBuffer, Parameters
  <2>2. CASE m.held[h].own
    BY <1>2, <2>1, <2>2 DEF MemInv, ArenaOwned
  <2>3. CASE ~m.held[h].own
    BY <1>2, <2>1, <2>3 DEF MemInv, ArenaOwned
  <2> QED BY <2>2, <2>3
<1>5. Frozen(m, n)
  BY <1>2 DEF Frozen
<1> QED BY <1>2, <1>3, <1>4, <1>5 DEF MemInv, n

LEMMA GripFields ==
  ASSUME NEW v, Vector(v), NEW k \in {"none", "detached", "raw", "slice"}
  PROVE  LET d == Grip(v, k)
         IN  /\ Held(d) /\ d.size = v.size /\ d.cur = v.cur
             /\ d.kind = k /\ d.allocator = v.allocator /\ d.own = v.own /\ d.buf = v.buf /\ d.reserved = v.reserved
  BY DEF Grip, Vector, Held

\* Only the pointers of o have changed: it has no block.
Emptied(m, n, o) ==
  /\ MemTypes(n) /\ DOMAIN n.vec = DOMAIN m.vec /\ \A q \in DOMAIN m.vec \ {o} : n.vec[q] = m.vec[q]
  /\ n.vec[o].buf = Null /\ n.vec[o].reserved = 0 /\ n.vec[o].cur = 0 /\ n.vec[o].size = 0 /\ n.vec[o].scratch = 0
  /\ n.heap = m.heap /\ n.arena = m.arena /\ n.held = m.held /\ n.slice = m.slice /\ n.finished = m.finished \ {o}

LEMMA ClearVectorFields ==
  ASSUME NEW w, Vector(w), w.buf = Null
  PROVE  LET v == ClearVector(w)
         IN  /\ Vector(v) /\ v.buf = Null /\ v.allocator = w.allocator /\ v.own = w.own
             /\ v.reserved = 0 /\ v.cur = 0 /\ v.size = 0 /\ v.scratch = 0
<1> DEFINE v == ClearVector(w)
<1>1. v = [w EXCEPT !.reserved = 0, !.cur = 0, !.size = 0, !.scratch = 0]
  BY DEF ClearVector
<1> HIDE DEF v
<1>2. /\ v.buf = w.buf /\ v.allocator = w.allocator /\ v.own = w.own /\ v.reserved = 0
      /\ v.cur = 0 /\ v.size = 0 /\ v.scratch = 0 /\ v.initial = w.initial
      /\ v = [allocator |-> v.allocator, own |-> v.own, initial |-> v.initial, reserved |-> v.reserved,
              size |-> v.size, buf |-> v.buf, cur |-> v.cur, scratch |-> v.scratch]
  BY <1>1 DEF Vector
<1>3. Vector(v)
  BY <1>2 DEF Vector
<1> QED BY <1>2, <1>3 DEF v

LEMMA ReleasedFields ==
  ASSUME NEW m, MemTypes(m), NEW o \in DOMAIN m.vec, NEW w, Vector(w), w.buf = Null
  PROVE  LET n == ClearBuilder(SetVector(m, o, ClearVector(w)), o)
         IN  Emptied(m, n, o) /\ n.vec[o].allocator = w.allocator /\ n.vec[o].own = w.own
<1> DEFINE v == ClearVector(w)
           s == SetVector(m, o, v)
           F == s.finished \ {o}
           f == [s EXCEPT !.finished = F]
           u == ClearVector(v)
           n == SetVector(f, o, u)
<1>1. /\ Vector(v) /\ v.buf = Null /\ v.allocator = w.allocator /\ v.own = w.own
  BY ClearVectorFields
<1> HIDE DEF v
<1>2. /\ Vector(u) /\ u.buf = Null /\ u.allocator = w.allocator /\ u.own = w.own
      /\ u.reserved = 0 /\ u.cur = 0 /\ u.size = 0 /\ u.scratch = 0
  BY <1>1, ClearVectorFields
<1> HIDE DEF u
<1>3. /\ MemTypes(s) /\ DOMAIN s.vec = DOMAIN m.vec /\ s.vec[o] = v
      /\ \A q \in DOMAIN m.vec \ {o} : s.vec[q] = m.vec[q]
      /\ s.heap = m.heap /\ s.finished = m.finished /\ s.arena = m.arena /\ s.held = m.held /\ s.slice = m.slice
  BY <1>1, SetVecFields
<1>4. ClearBuilder(s, o) = n
  <2>1. ClearBuilder(s, o) = SetVector(f, o, ClearVector(s.vec[o]))
    BY <1>3 DEF ClearBuilder, MemTypes, IsMem
  <2> QED BY <1>3, <2>1 DEF u
<1> HIDE DEF s
<1>5. /\ MemTypes(f) /\ f.vec = s.vec /\ f.heap = s.heap /\ f.arena = s.arena /\ f.held = s.held /\ f.slice = s.slice
  <2>1. F \subseteq DOMAIN s.vec
    BY <1>3 DEF MemTypes, F
  <2> HIDE DEF F
  <2> QED BY <1>3, <2>1 DEF MemTypes, IsMem
<1>8. f.finished = m.finished \ {o}
  BY <1>3 DEF MemTypes, IsMem
<1> HIDE DEF f, F
<1>6. /\ MemTypes(n) /\ DOMAIN n.vec = DOMAIN f.vec /\ n.vec[o] = u
      /\ \A q \in DOMAIN f.vec \ {o} : n.vec[q] = f.vec[q]
      /\ n.heap = f.heap /\ n.arena = f.arena /\ n.held = f.held /\ n.slice = f.slice
      /\ n.finished = f.finished
  <2>1. o \in DOMAIN f.vec
    BY <1>3, <1>5
  <2> QED BY <1>2, <1>5, <2>1, SetVecFields
<1> HIDE DEF n
<1>7. Emptied(m, n, o) /\ n.vec[o].allocator = w.allocator /\ n.vec[o].own = w.own
  BY <1>2, <1>3, <1>5, <1>6, <1>8 DEF Emptied
<1> QED BY <1>4, <1>7 DEF s, v

LEMMA ReleaseBuilderFields ==
  ASSUME Parameters, NEW m, MemTypes(m), NEW o \in DOMAIN m.vec
  PROVE  LET n == ReleaseBuilder(m, o)   v == m.vec[o]
         IN  /\ Emptied(m, n, o) /\ n.vec[o].own = FALSE
             /\ n.vec[o].allocator = (IF v.own THEN Default ELSE v.allocator)
<1> DEFINE v == m.vec[o]
           w == [v EXCEPT !.buf = Null, !.allocator = IF v.own THEN Default ELSE @, !.own = FALSE]
           a == IF v.own THEN Default ELSE v.allocator
<1>1. Vector(v)
  BY DEF MemTypes
<1>2. ReleaseBuilder(m, o) = ClearBuilder(SetVector(m, o, ClearVector(w)), o)
  BY DEF ReleaseBuilder, Release
<1>3. w = [v EXCEPT !.buf = Null, !.allocator = a, !.own = FALSE]
  BY <1>1 DEF Vector
<1> HIDE DEF w, a, v
<1>4. /\ w.buf = Null /\ w.allocator = a /\ w.own = FALSE /\ w.initial = v.initial /\ w.reserved = v.reserved
      /\ w.size = v.size /\ w.cur = v.cur /\ w.scratch = v.scratch
      /\ w = [allocator |-> w.allocator, own |-> w.own, initial |-> w.initial, reserved |-> w.reserved,
              size |-> w.size, buf |-> w.buf, cur |-> w.cur, scratch |-> w.scratch]
  BY <1>1, <1>3 DEF Vector
<1>5. Vector(w)
  BY <1>1, <1>4 DEF Vector
<1> DEFINE n == ClearBuilder(SetVector(m, o, ClearVector(w)), o)
<1>6. Emptied(m, n, o) /\ n.vec[o].allocator = w.allocator /\ n.vec[o].own = w.own
  BY <1>4, <1>5, ReleasedFields
<1> HIDE DEF n
<1> QED BY <1>2, <1>4, <1>6 DEF a, v, n

LEMMA ReleaseBuilderRawFields ==
  ASSUME NEW m, MemTypes(m), NEW o \in DOMAIN m.vec
  PROVE  LET n == ReleaseBuilderRaw(m, o)   v == m.vec[o]
         IN  Emptied(m, n, o) /\ n.vec[o].own = v.own /\ n.vec[o].allocator = v.allocator
<1> DEFINE v == m.vec[o]
           w == [v EXCEPT !.buf = Null]
<1>1. Vector(v)
  BY DEF MemTypes
<1>2. ReleaseBuilderRaw(m, o) = ClearBuilder(SetVector(m, o, ClearVector(w)), o)
  BY DEF ReleaseBuilderRaw, ReleaseRaw
<1>3. w = [v EXCEPT !.buf = Null]
  OBVIOUS
<1> HIDE DEF w, v
<1>4. /\ w.buf = Null /\ w.allocator = v.allocator /\ w.own = v.own /\ w.initial = v.initial /\ w.reserved = v.reserved
      /\ w.size = v.size /\ w.cur = v.cur /\ w.scratch = v.scratch
      /\ w = [allocator |-> w.allocator, own |-> w.own, initial |-> w.initial, reserved |-> w.reserved,
              size |-> w.size, buf |-> w.buf, cur |-> w.cur, scratch |-> w.scratch]
  BY <1>1, <1>3 DEF Vector
<1>5. Vector(w)
  BY <1>1, <1>4 DEF Vector
<1> DEFINE n == ClearBuilder(SetVector(m, o, ClearVector(w)), o)
<1>6. Emptied(m, n, o) /\ n.vec[o].allocator = w.allocator /\ n.vec[o].own = w.own
  BY <1>4, <1>5, ReleasedFields
<1> HIDE DEF n
<1> QED BY <1>2, <1>4, <1>6 DEF v, n

\* A buffer is handed to a holder, after what that had is destroyed.
LEMMA DetachKeeps ==
  ASSUME Parameters, NEW m, MemInv(m), RawFirst(m), NEW o \in DOMAIN m.vec \cap Plain, NEW h \in Holder,
         m.held[h].kind \in {"none", "detached"}
  PROVE  LET n == AssignDetached(ReleaseBuilder(m, o), h, Grip(m.vec[o], "detached"))
         IN  MemInv(n) /\ DOMAIN n.vec = DOMAIN m.vec /\ InHand(m, n, o, h) /\ GivenUp(m, n, o)
<1> DEFINE v == m.vec[o]
           r == ReleaseBuilder(m, o)
           g == Grip(v, "detached")
           x == DestroyHeld(r, h)
           n == [x EXCEPT !.held[h] = g]
           d == DestroyHeld(m, h)
<1>1. MemTypes(m) /\ CanFree(m, h) /\ Vector(v) /\ Default # Arena
  BY HeldCanBeFreed DEF MemInv, MemTypes, Parameters
<1>2. Held(g) /\ g.kind = "detached" /\ g.allocator = v.allocator /\ g.own = v.own /\ g.buf = v.buf /\ g.reserved = v.reserved
      /\ g.size = v.size /\ g.cur = v.cur
  BY <1>1, GripFields
<1> HIDE DEF g
<1>3. Emptied(m, r, o) /\ r.vec[o].own = FALSE /\ r.vec[o].allocator = (IF v.own THEN Default ELSE v.allocator)
  BY <1>1, ReleaseBuilderFields
<1> HIDE DEF r
<1>4. MemInv(d) /\ d.held = [m.held EXCEPT ![h] = NoBuffer] /\ d.vec = m.vec /\ d.finished = m.finished /\ d.slice = m.slice /\ Frozen(m, d)
  BY DestroyHeldKeeps
<1>5. /\ d.arena = (IF m.held[h].own THEN "deleted" ELSE m.arena)
      /\ DOMAIN d.heap = DOMAIN m.heap \ {m.held[h].buf} /\ \A q \in DOMAIN d.heap : d.heap[q] = m.heap[q]
  BY <1>1, DestroyHeldFields
<1> HIDE DEF d
<1>6. CanFree(r, h) /\ MemTypes(r) /\ r.held = m.held /\ r.heap = m.heap /\ r.slice = m.slice /\ r.arena = m.arena
  BY <1>1, <1>3 DEF Emptied, CanFree, Gone
<1>7. /\ MemTypes(x) /\ x.held = d.held /\ x.vec = r.vec /\ x.slice = d.slice /\ x.arena = d.arena /\ x.finished = r.finished
      /\ DOMAIN x.heap = DOMAIN d.heap /\ \A q \in DOMAIN x.heap : x.heap[q] = d.heap[q]
  <2>1. /\ MemTypes(x) /\ x.held = [r.held EXCEPT ![h] = NoBuffer]
        /\ x.vec = r.vec /\ x.slice = r.slice /\ x.finished = r.finished /\ x.arena = (IF r.held[h].own THEN "deleted" ELSE r.arena)
        /\ r.held[h].kind # "slice" => DOMAIN x.heap = DOMAIN r.heap \ {r.held[h].buf}
        /\ \A q \in DOMAIN x.heap : x.heap[q] = r.heap[q]
    BY <1>6, DestroyHeldFields
  <2> HIDE DEF x
  <2> QED BY <1>4, <1>5, <1>6, <2>1
<1> HIDE DEF x
<1>8. x.heap = d.heap
  BY <1>4, <1>7 DEF MemInv, MemTypes
<1>9. /\ MemTypes(n) /\ n.held = [x.held EXCEPT ![h] = g] /\ n.vec = x.vec /\ n.heap = x.heap
      /\ n.arena = x.arena /\ n.slice = x.slice /\ n.finished = x.finished
  BY <1>2, <1>7, HeldFields
<1> HIDE DEF n
<1>10. /\ DOMAIN d.held = Holder /\ d.held[h].kind = "none" /\ n.held[h] = g /\ \A k \in Holder \ {h} : n.held[k] = d.held[k]
  BY <1>1, <1>4, <1>7, <1>9 DEF MemTypes, NoBuffer
<1>11. /\ DOMAIN n.vec = DOMAIN d.vec /\ (\A q \in DOMAIN d.vec \ {o} : n.vec[q] = d.vec[q])
       /\ n.vec[o].buf = Null /\ n.vec[o].reserved = 0
       /\ n.vec[o].cur = 0 /\ n.vec[o].size = 0 /\ n.vec[o].scratch = 0
       /\ n.vec[o].own = FALSE /\ n.vec[o].allocator = (IF v.own THEN Default ELSE v.allocator)
       /\ n.heap = d.heap /\ n.slice = d.slice /\ n.arena = d.arena
  BY <1>3, <1>4, <1>7, <1>8, <1>9 DEF Emptied
<1>12. n.vec[o].allocator \in {Default, Arena}
  BY <1>11 DEF MemInv, Owned, PlainOwn
<1>13. Owned(n)
  <2>1. o \in DOMAIN d.vec \cap Plain /\ d.vec[o] = v /\ MemTypes(d) /\ Owned(d)
    BY <1>4 DEF MemInv
  <2> HIDE DEF v
  <2>2. /\ n.held[h].kind \in {"detached", "raw"} /\ (n.held[h].kind = "raw" => ~n.held[h].own)
        /\ n.held[h].buf = d.vec[o].buf /\ n.held[h].allocator = d.vec[o].allocator
        /\ n.held[h].reserved = d.vec[o].reserved
    BY <1>2, <1>10, <2>1
  <2>3. MemTypes(n) /\ d.held[h].kind = "none" /\ \A k \in Holder \ {h} : n.held[k] = d.held[k]
    BY <1>9, <1>10
  <2> QED BY <1>11, <1>12, <2>1, <2>2, <2>3, PlainHanded
<1>14. ArenaOwned(n)
  <2>1. o \in DOMAIN d.vec /\ d.vec[o] = v /\ ArenaOwned(d)
    BY <1>4 DEF MemInv
  <2> HIDE DEF v
  <2>2. CASE v.own
    BY <1>1, <1>2, <1>10, <1>11, <2>1, <2>2 DEF ArenaOwned
  <2>3. CASE ~v.own
    BY <1>1, <1>2, <1>10, <1>11, <2>1, <2>3 DEF ArenaOwned
  <2> QED BY <2>2, <2>3
<1>15. InHand(m, n, o, h)
  <2>1. \A k \in Holder \ {h} : n.held[k] = m.held[k]
    BY <1>1, <1>4, <1>10 DEF MemTypes
  <2>2. Frozen(m, n)
    BY <1>4, <1>11 DEF Frozen
  <2> QED BY <1>2, <1>10, <2>1, <2>2 DEF InHand
<1>16. GivenUp(m, n, o)
  BY <1>3, <1>4, <1>7, <1>9, <1>11 DEF GivenUp, Emptied
<1> QED BY <1>4, <1>9, <1>11, <1>13, <1>14, <1>15, <1>16 DEF MemInv, AssignDetached, n, x, r, g

\* The raw block goes to the program.
LEMMA DetachRawKeeps ==
  ASSUME Parameters, NEW m, MemInv(m), NEW o \in DOMAIN m.vec \cap Plain, NEW h \in Holder, m.held[h].kind = "none"
  PROVE  LET n == [ReleaseBuilderRaw(m, o) EXCEPT !.held[h] = [Grip(m.vec[o], "raw") EXCEPT !.own = FALSE]]
         IN  MemInv(n) /\ DOMAIN n.vec = DOMAIN m.vec /\ InHand(m, n, o, h) /\ GivenUp(m, n, o)
<1> DEFINE v == m.vec[o]
           r == ReleaseBuilderRaw(m, o)
           g == [Grip(v, "raw") EXCEPT !.own = FALSE]
           n == [r EXCEPT !.held[h] = g]
<1>1. MemTypes(m) /\ Vector(v)
  BY DEF MemInv, MemTypes
<1>2. Held(g) /\ g.kind = "raw" /\ g.allocator = v.allocator /\ g.own = FALSE /\ g.buf = v.buf /\ g.reserved = v.reserved
      /\ g.size = v.size /\ g.cur = v.cur
  <2> DEFINE w == Grip(v, "raw")
  <2>1. Held(w) /\ w.kind = "raw" /\ w.allocator = v.allocator /\ w.buf = v.buf /\ w.reserved = v.reserved
        /\ w.size = v.size /\ w.cur = v.cur
    BY <1>1, GripFields
  <2>2. g = [w EXCEPT !.own = FALSE]
    OBVIOUS
  <2> HIDE DEF g, w
  <2>3. /\ g.kind = w.kind /\ g.allocator = w.allocator /\ g.own = FALSE /\ g.buf = w.buf /\ g.reserved = w.reserved
        /\ g.size = w.size /\ g.cur = w.cur
        /\ g = [kind |-> g.kind, allocator |-> g.allocator, own |-> g.own, buf |-> g.buf,
                reserved |-> g.reserved, cur |-> g.cur, size |-> g.size]
    BY <2>1, <2>2 DEF Held
  <2> QED BY <2>1, <2>3 DEF Held
<1> HIDE DEF g
<1>3. Emptied(m, r, o) /\ r.vec[o].own = v.own /\ r.vec[o].allocator = v.allocator
  BY <1>1, ReleaseBuilderRawFields
<1> HIDE DEF r
<1>4. /\ MemTypes(n) /\ n.held = [r.held EXCEPT ![h] = g] /\ n.vec = r.vec /\ n.heap = r.heap
      /\ n.arena = r.arena /\ n.slice = r.slice /\ n.finished = r.finished
  BY <1>2, <1>3, HeldFields DEF Emptied
<1> HIDE DEF n
<1>5. n.held[h] = g /\ \A k \in Holder \ {h} : n.held[k] = m.held[k]
  BY <1>1, <1>3, <1>4 DEF MemTypes, Emptied
<1>6. /\ DOMAIN n.vec = DOMAIN m.vec /\ (\A q \in DOMAIN m.vec \ {o} : n.vec[q] = m.vec[q])
      /\ n.vec[o].buf = Null /\ n.vec[o].reserved = 0
      /\ n.vec[o].cur = 0 /\ n.vec[o].size = 0 /\ n.vec[o].scratch = 0
      /\ n.vec[o].own = v.own /\ n.vec[o].allocator = v.allocator
      /\ n.heap = m.heap /\ n.slice = m.slice /\ n.arena = m.arena
  BY <1>3, <1>4 DEF Emptied
<1>7. v.allocator \in {Default, Arena}
  BY DEF MemInv, Owned, PlainOwn
<1>8. Owned(n)
  <2>1. /\ n.held[h].kind \in {"detached", "raw"} /\ (n.held[h].kind = "raw" => ~n.held[h].own)
        /\ n.held[h].buf = m.vec[o].buf /\ n.held[h].allocator = m.vec[o].allocator
        /\ n.held[h].reserved = m.vec[o].reserved
    BY <1>2, <1>5
  <2>2. MemTypes(m) /\ Owned(m) /\ MemTypes(n) /\ n.vec[o].allocator \in {Default, Arena}
    BY <1>4, <1>6, <1>7 DEF MemInv
  <2> QED BY <1>5, <1>6, <2>1, <2>2, PlainHanded
<1>9. ArenaOwned(n)
  <2>1. o \in DOMAIN m.vec /\ ArenaOwned(m)
    BY DEF MemInv
  <2>2. \A q \in DOMAIN m.vec : n.vec[q].own = m.vec[q].own /\ n.vec[q].allocator = m.vec[q].allocator
    BY <1>6
  <2> QED BY <1>2, <1>5, <1>6, <2>1, <2>2 DEF ArenaOwned
<1>10. InHand(m, n, o, h)
  BY <1>2, <1>5, <1>6 DEF InHand, Frozen
<1>11. GivenUp(m, n, o)
  BY <1>3, <1>4, <1>6 DEF GivenUp, Emptied
<1> QED BY <1>4, <1>6, <1>8, <1>9, <1>10, <1>11 DEF MemInv, n, r, g

\* A message is part of the slice of its builder.
LEMMA GetMessageKeeps ==
  ASSUME Parameters, NEW m, MemInv(m), RawFirst(m), NEW o \in DOMAIN m.vec \cap Msg, NEW h \in Holder
  PROVE  LET n == GetMessage(m, o, h)
         IN  MemInv(n) /\ n.vec = m.vec /\ n.finished = m.finished /\ InHand(m, n, o, h)
<1> DEFINE v == m.vec[o]
           d == DestroyHeld(m, h)
           g == Grip(v, "slice")
           n == [d EXCEPT !.held[h] = g]
<1>1. Vector(v) /\ v.buf = m.slice[o] /\ v.allocator = o /\ ~v.own /\ o # Arena
  BY DEF MemInv, MemTypes, Owned, MsgOwn, Parameters, Msg
<1>2. GetMessage(m, o, h) = n
  BY <1>1 DEF GetMessage
<1>3. Held(g) /\ g.own = v.own /\ g.allocator = o /\ g.kind = "slice"
      /\ g.buf = v.buf /\ g.size = v.size /\ g.cur = v.cur /\ g.reserved = v.reserved
  BY <1>1, GripFields
<1>4. MemInv(d) /\ d.held = [m.held EXCEPT ![h] = NoBuffer] /\ d.vec = m.vec /\ d.slice = m.slice
      /\ d.finished = m.finished /\ Frozen(m, d)
  BY DestroyHeldKeeps
<1> HIDE DEF d
<1>5. /\ MemTypes(n) /\ n.held = [d.held EXCEPT ![h] = g] /\ n.vec = d.vec /\ n.heap = d.heap
      /\ n.arena = d.arena /\ n.slice = d.slice /\ n.finished = d.finished
  <2> HIDE DEF g
  <2> QED BY <1>3, <1>4, HeldFields DEF MemInv
<1> HIDE DEF n
<1>6. DOMAIN d.held = Holder /\ d.held[h].kind = "none" /\ n.held[h] = g /\ \A k \in Holder \ {h} : n.held[k] = d.held[k]
  <2> HIDE DEF g
  <2> QED BY <1>4, <1>5 DEF MemInv, MemTypes, NoBuffer
<1>7. Owned(n)
  <2>1. MemTypes(d) /\ Owned(d) /\ o \in DOMAIN d.vec \cap Msg /\ n.held = [d.held EXCEPT ![h] = Grip(d.vec[o], "slice")]
    BY <1>4, <1>5 DEF MemInv
  <2> QED BY <1>5, <1>6, <2>1, SliceShared
<1>8. ArenaOwned(n)
  <2> HIDE DEF g
  <2> QED BY <1>1, <1>3, <1>4, <1>5, <1>6 DEF MemInv, ArenaOwned
<1>9. InHand(m, n, o, h)
  <2>1. \A k \in Holder \ {h} : n.held[k] = m.held[k]
    BY <1>4, <1>6 DEF MemInv, MemTypes
  <2>2. Frozen(m, n)
    BY <1>4, <1>5 DEF Frozen
  <2> HIDE DEF g
  <2> QED BY <1>3, <1>6, <2>1, <2>2 DEF InHand
<1> QED BY <1>2, <1>4, <1>5, <1>7, <1>8, <1>9 DEF MemInv

LEMMA ReleaseMessageKeeps ==
  ASSUME Parameters, NEW m, MemInv(m), RawFirst(m), NEW o \in DOMAIN m.vec \cap Msg, NEW h \in Holder
  PROVE  LET n == ReleaseMessage(m, o, h)
         IN  MemInv(n) /\ DOMAIN n.vec = DOMAIN m.vec /\ InHand(m, n, o, h) /\ GivenUp(m, n, o)
<1> DEFINE g == GetMessage(m, o, h)
<1>1. MemInv(g) /\ g.vec = m.vec /\ g.finished = m.finished /\ InHand(m, g, o, h)
  BY GetMessageKeeps
<1> HIDE DEF g
<1> DEFINE n == ResetBuilder(g, o)
<1>2. /\ MemInv(n) /\ DOMAIN n.vec = DOMAIN g.vec /\ n.held = g.held /\ Frozen(g, n) /\ GivenUp(g, n, o)
  BY <1>1, ResetKeeps
<1> HIDE DEF n
<1>3. InHand(m, n, o, h) /\ GivenUp(m, n, o)
  BY <1>1, <1>2 DEF InHand, GivenUp, Frozen
<1> QED BY <1>1, <1>2, <1>3 DEF ReleaseMessage, g, n

\* The whole slice of the builder goes into the message.
LEMMA ReleaseMessageRawKeeps ==
  ASSUME Parameters, NEW m, MemInv(m), RawFirst(m), NEW o \in DOMAIN m.vec \cap Msg, NEW h \in Holder
  PROVE  LET n == ReleaseMessageRaw(m, o, h)
         IN  MemInv(n) /\ DOMAIN n.vec = DOMAIN m.vec /\ InHand(m, n, o, h) /\ GivenUp(m, n, o)
<1> DEFINE v == m.vec[o]
           d == DestroyHeld(m, h)
           r == ReleaseBuilderRaw(d, o)
           g == Grip(v, "slice")
           e == [r EXCEPT !.held[h] = g]
           n == [e EXCEPT !.slice[o] = Null]
<1>1. Vector(v) /\ v.buf = m.slice[o] /\ v.allocator = o /\ ~v.own /\ o # Arena
  BY DEF MemInv, MemTypes, Owned, MsgOwn, Parameters, Msg
<1>2. ReleaseMessageRaw(m, o, h) = n
  BY DEF ReleaseMessageRaw
<1>3. Held(g) /\ g.own = v.own /\ g.allocator = o /\ g.kind = "slice"
      /\ g.buf = v.buf /\ g.size = v.size /\ g.cur = v.cur /\ g.reserved = v.reserved
  BY <1>1, GripFields
<1>4. MemInv(d) /\ d.held = [m.held EXCEPT ![h] = NoBuffer] /\ d.vec = m.vec /\ d.slice = m.slice
      /\ d.finished = m.finished /\ Frozen(m, d)
  BY DestroyHeldKeeps
<1> HIDE DEF d
<1>5. Emptied(d, r, o) /\ r.vec[o].own = v.own /\ r.vec[o].allocator = v.allocator
  <2>1. MemTypes(d) /\ o \in DOMAIN d.vec /\ d.vec[o] = v
    BY <1>4 DEF MemInv
  <2> QED BY <2>1, ReleaseBuilderRawFields
<1> HIDE DEF r
<1>6. /\ MemTypes(e) /\ e.held = [r.held EXCEPT ![h] = g] /\ e.vec = r.vec /\ e.heap = r.heap
      /\ e.arena = r.arena /\ e.slice = r.slice /\ e.finished = r.finished
  <2> HIDE DEF g
  <2> QED BY <1>3, <1>5, HeldFields DEF Emptied
<1> HIDE DEF e
<1>7. MemTypes(n) /\ OnlyBlocks(e, n) /\ n.heap = e.heap /\ n.slice = [e.slice EXCEPT ![o] = Null]
  BY <1>6, SetSliceFields
<1> HIDE DEF n
<1>8. /\ DOMAIN n.vec = DOMAIN d.vec /\ (\A q \in DOMAIN d.vec \ {o} : n.vec[q] = d.vec[q])
      /\ n.vec[o].buf = Null /\ n.vec[o].reserved = 0
      /\ n.vec[o].cur = 0 /\ n.vec[o].size = 0 /\ n.vec[o].scratch = 0
      /\ n.vec[o].own = v.own /\ n.vec[o].allocator = v.allocator
      /\ n.heap = d.heap /\ n.slice = [d.slice EXCEPT ![o] = Null] /\ n.arena = d.arena
      /\ n.held = [d.held EXCEPT ![h] = g] /\ n.finished = d.finished \ {o}
  BY <1>5, <1>6, <1>7 DEF Emptied, OnlyBlocks
<1>9. DOMAIN d.held = Holder /\ d.held[h].kind = "none" /\ n.held[h] = g /\ \A k \in Holder \ {h} : n.held[k] = d.held[k]
  <2> HIDE DEF g
  <2> QED BY <1>4, <1>8 DEF MemInv, MemTypes, NoBuffer
<1>10. Owned(n)
  <2>1. MemTypes(d) /\ Owned(d) /\ o \in DOMAIN d.vec \cap Msg /\ n.held = [d.held EXCEPT ![h] = Grip(d.vec[o], "slice")]
    BY <1>4, <1>8 DEF MemInv
  <2> QED BY <1>1, <1>7, <1>8, <1>9, <2>1, MsgHanded
<1>11. ArenaOwned(n)
  <2>1. \A q \in DOMAIN d.vec : n.vec[q].own = d.vec[q].own /\ n.vec[q].allocator = d.vec[q].allocator
    BY <1>4, <1>8
  <2> HIDE DEF g
  <2> QED BY <1>1, <1>3, <1>4, <1>8, <1>9, <2>1 DEF MemInv, ArenaOwned
<1>12. InHand(m, n, o, h)
  <2>1. \A k \in Holder \ {h} : n.held[k] = m.held[k]
    BY <1>4, <1>9 DEF MemInv, MemTypes
  <2>2. Frozen(m, n)
    BY <1>4, <1>8 DEF Frozen
  <2> HIDE DEF g
  <2> QED BY <1>3, <1>9, <2>1, <2>2 DEF InHand
<1>13. GivenUp(m, n, o)
  BY <1>4, <1>8 DEF GivenUp
<1> QED BY <1>2, <1>4, <1>7, <1>8, <1>10, <1>11, <1>12, <1>13 DEF MemInv

\* One holder takes over what another has.
LEMMA MoveHeldKeeps ==
  ASSUME Parameters, NEW m, MemInv(m), RawFirst(m), NEW h \in Holder, NEW g \in Holder, h # g
  PROVE  LET n == MoveHeld(m, h, g)
         IN  /\ MemInv(n) /\ n.vec = m.vec /\ n.finished = m.finished /\ Frozen(m, n)
             /\ n.held[h] = m.held[g] /\ n.held[g] = NoBuffer /\ \A x \in Holder \ {h, g} : n.held[x] = m.held[x]
<1> DEFINE d == DestroyHeld(m, h)
           k == m.held[g]
           e == [d EXCEPT !.held[h] = k]
           n == [e EXCEPT !.held[g] = NoBuffer]
<1>1. MoveHeld(m, h, g) = n
  BY DEF MoveHeld, AssignDetached
<1>2. Held(k) /\ Held(NoBuffer) /\ NoBuffer.own = FALSE /\ NoBuffer.allocator # Arena
  BY DEF MemInv, MemTypes, Held, NoBuffer, Parameters
<1>3. MemInv(d) /\ d.held = [m.held EXCEPT ![h] = NoBuffer] /\ d.vec = m.vec /\ d.slice = m.slice
      /\ d.finished = m.finished /\ Frozen(m, d)
  BY DestroyHeldKeeps
<1>4. d.held[g] = k /\ d.held[h] = NoBuffer /\ d.held[h].kind = "none"
  <2>1. m.held = [x \in Holder |-> m.held[x]]
    BY DEF MemInv, MemTypes
  <2>2. NoBuffer.kind = "none"
    BY DEF NoBuffer
  <2> HIDE DEF d
  <2> QED BY <1>3, <2>1, <2>2
<1> HIDE DEF d, k
<1>5. /\ MemTypes(e) /\ e.held = [d.held EXCEPT ![h] = k]
      /\ e.vec = d.vec /\ e.heap = d.heap /\ e.arena = d.arena /\ e.slice = d.slice /\ e.finished = d.finished
  BY <1>2, <1>3, HeldFields DEF MemInv
<1> HIDE DEF e
<1>6. /\ MemTypes(n) /\ n.held = [e.held EXCEPT ![g] = NoBuffer]
      /\ n.vec = e.vec /\ n.heap = e.heap /\ n.arena = e.arena /\ n.slice = e.slice /\ n.finished = e.finished
  BY <1>2, <1>5, HeldFields
<1> HIDE DEF n
<1>7. n.held = [d.held EXCEPT ![h] = d.held[g], ![g] = NoBuffer]
  BY <1>4, <1>5, <1>6
<1>8. Owned(n)
  <2>1. MemTypes(d) /\ Owned(d) /\ MemTypes(n) /\ n.vec = d.vec /\ n.heap = d.heap /\ n.slice = d.slice
    BY <1>3, <1>5, <1>6 DEF MemInv
  <2> QED BY <1>4, <1>7, <2>1, HeldMoved
<1>9. ArenaOwned(n)
  <2>1. n.held[h] = d.held[g] /\ n.held[g] = NoBuffer /\ \A x \in Holder \ {h, g} : n.held[x] = d.held[x]
    BY <1>3, <1>7 DEF MemInv, MemTypes
  <2> QED BY <1>2, <1>3, <1>4, <1>5, <1>6, <2>1 DEF MemInv, ArenaOwned
<1>10. n.held[h] = k /\ n.held[g] = NoBuffer /\ \A x \in Holder \ {h, g} : n.held[x] = m.held[x]
  BY <1>3, <1>4, <1>7 DEF MemInv, MemTypes
<1>11. Frozen(m, n) /\ n.finished = m.finished
  BY <1>3, <1>5, <1>6 DEF Frozen
<1> QED BY <1>1, <1>3, <1>5, <1>6, <1>8, <1>9, <1>10, <1>11 DEF MemInv, k

-----------------------------------------------------------------------------
(* The steps of the program.                                                *)

\* An allocator is made, nobody has it yet.
LEMMA ArenaMade ==
  ASSUME NEW m, MemInv(m), m.arena = "none"
  PROVE  LET n == [m EXCEPT !.arena = "made"]
         IN  MemInv(n) /\ NoArena(n) /\ n.vec = m.vec /\ n.arena = "made" /\ n.held = m.held
             /\ n.finished = m.finished /\ n.heap = m.heap
<1> DEFINE n == [m EXCEPT !.arena = "made"]
<1>1. n = [m EXCEPT !.arena = "made"] /\ MemTypes(m) /\ Owned(m) /\ ArenaOwned(m)
  BY DEF MemInv
<1> HIDE DEF n
<1>2. /\ IsMem(n) /\ n.arena = "made" /\ n.failed = m.failed /\ n.vec = m.vec /\ n.heap = m.heap /\ n.held = m.held
      /\ n.slice = m.slice /\ n.finished = m.finished
  BY <1>1 DEF MemTypes, IsMem
<1>3. MemTypes(n)
  BY <1>1, <1>2 DEF MemTypes
<1>4. Owned(n)
  BY <1>1, <1>2 DEF Owned, Layout, PlainOwn, MsgOwn, SlicesOwn, HeldOwn, NoLeak
<1>5. NoArena(n)
  BY <1>1, <1>2 DEF ArenaOwned, NoArena
<1>6. ArenaOwned(n)
  BY <1>1, <1>2, <1>5 DEF ArenaOwned, NoArena
<1> QED BY <1>2, <1>3, <1>4, <1>5, <1>6 DEF MemInv, n

LEMMA ForgetfulKeeps ==
  ASSUME NEW m, MemInv(m)
  PROVE  LET n == Forgetful(m)
         IN  /\ MemInv(n) /\ n.vec = m.vec /\ n.held = m.held /\ n.arena = m.arena
             /\ n.finished = m.finished /\ DOMAIN n.heap = DOMAIN m.heap
             /\ \A p \in DOMAIN m.heap :
                  n.heap[p].bytes = [i \in DOMAIN m.heap[p].bytes |-> IF i \in Used(m, p) THEN m.heap[p].bytes[i] ELSE Null]
<1> DEFINE H == [p \in DOMAIN m.heap |-> Remembered(m, p)]
           n == Forgetful(m)
<1>1. MemTypes(m) /\ Owned(m)
  BY DEF MemInv
<1>2. n = [m EXCEPT !.heap = H]
  BY DEF Forgetful
<1>3. ASSUME NEW p \in DOMAIN m.heap
      PROVE  /\ Block(H[p]) /\ H[p].by = m.heap[p].by /\ H[p].counted = m.heap[p].counted
             /\ DOMAIN H[p].bytes = DOMAIN m.heap[p].bytes
             /\ H[p].bytes = [i \in DOMAIN m.heap[p].bytes |-> IF i \in Used(m, p) THEN m.heap[p].bytes[i] ELSE Null]
  <2> DEFINE b == m.heap[p]
             f == [i \in DOMAIN b.bytes |-> IF i \in Used(m, p) THEN b.bytes[i] ELSE Null]
             c == [b EXCEPT !.bytes = f]
  <2>1. H[p] = c /\ Block(b) /\ DOMAIN f = DOMAIN b.bytes
    BY <1>1 DEF MemTypes, Remembered
  <2>2. c = [b EXCEPT !.bytes = f]
    OBVIOUS
  <2> HIDE DEF b, f, c, H
  <2>3. /\ c.by = b.by /\ c.counted = b.counted /\ c.bytes = f
        /\ c = [by |-> c.by, counted |-> c.counted, bytes |-> c.bytes]
    BY <2>1, <2>2 DEF Block
  <2> QED BY <2>1, <2>3 DEF Block, b, f
<1>4. DOMAIN H = DOMAIN m.heap /\ H = [p \in DOMAIN H |-> H[p]]
  OBVIOUS
<1> HIDE DEF H, n
<1>5. /\ IsMem(n) /\ n.heap = H /\ n.failed = m.failed /\ n.vec = m.vec /\ n.arena = m.arena /\ n.held = m.held
      /\ n.slice = m.slice /\ n.finished = m.finished
  BY <1>1, <1>2 DEF MemTypes, IsMem
<1>6. MemTypes(n)
  BY <1>1, <1>3, <1>4, <1>5 DEF MemTypes
<1>7. SamePointers(m, n)
  <2>1. \A o \in DOMAIN m.vec : m.vec[o].cur + m.vec[o].size = m.vec[o].reserved /\ m.vec[o].scratch <= m.vec[o].cur
    BY <1>1 DEF Owned, Layout
  <2> QED BY <1>3, <1>4, <1>5, <2>1 DEF SamePointers
<1>8. MemInv(n)
  BY <1>5, <1>6, <1>7, SameKeeps
<1> QED BY <1>3, <1>4, <1>5, <1>8 DEF n

\* What a step does to the memory is enough.
LEMMA BecomeKeeps ==
  ASSUME NEW m, MemInv(m), DOMAIN m.vec \subseteq Object, Become(m)
  PROVE  Inv'
<1>1. MemInv(Forgetful(m)) /\ Forgetful(m).vec = m.vec /\ Forgetful(m).held = m.held /\ Forgetful(m).arena = m.arena
  BY ForgetfulKeeps
<1>2. mem' = Forgetful(m) /\ RawFirst(m)
  BY DEF Become
<1>3. MemInv(mem') /\ mem'.vec = m.vec /\ mem'.held = m.held /\ mem'.arena = m.arena
  BY <1>1, <1>2
<1>4. RawFirst(mem')
  BY <1>2, <1>3 DEF RawFirst
<1> QED BY <1>3, <1>4 DEF Inv

LEMMA NamesOfVectors ==
  ASSUME Parameters, Inv
  PROVE  /\ MemInv(mem) /\ RawFirst(mem) /\ DOMAIN mem.vec \subseteq Object
         /\ Temp \notin DOMAIN mem.vec /\ TempMessage \notin DOMAIN mem.vec
         /\ mem.finished \subseteq DOMAIN mem.vec
         /\ Builder \subseteq Plain /\ MessageBuilder \subseteq Msg /\ Builder \cap Msg = {} /\ MessageBuilder \cap Plain = {}
<1>1. MemInv(mem) /\ RawFirst(mem) /\ DOMAIN mem.vec \subseteq Object
  BY DEF Inv
<1>2. mem.finished \subseteq DOMAIN mem.vec
  BY <1>1 DEF MemInv, MemTypes
<1> QED BY <1>1, <1>2 DEF Parameters, Object, Plain, Msg

LEMMA InitInv ==
  ASSUME Parameters, Init
  PROVE  Inv
<1>1. mem = [heap |-> <<>>, vec |-> <<>>, finished |-> {}, arena |-> "none", failed |-> FALSE,
             held |-> [h \in Holder |-> NoBuffer],
             slice |-> [o \in MessageBuilder \cup {TempMessage} |-> Null]]
  BY DEF Init
<1>2. DOMAIN <<>> = {} /\ <<>> = [p \in {} |-> <<>>[p]] /\ IsFiniteSet({})
  BY FS_EmptySet
<1>3. /\ IsMem(mem) /\ mem.heap = <<>> /\ mem.vec = <<>> /\ mem.finished = {} /\ mem.arena = "none" /\ mem.failed = FALSE
      /\ mem.held = [h \in Holder |-> NoBuffer] /\ mem.slice = [o \in Msg |-> Null]
  BY <1>1 DEF IsMem, Msg
<1>4. Held(NoBuffer) /\ NoBuffer.kind = "none" /\ NoBuffer.own = FALSE /\ NoBuffer.allocator = Default /\ Default # Arena
  BY DEF NoBuffer, Held, Parameters
<1>5. MemTypes(mem)
  BY <1>2, <1>3, <1>4 DEF MemTypes
<1>6. Owned(mem)
  BY <1>2, <1>3, <1>4 DEF Owned, Layout, PlainOwn, MsgOwn, SlicesOwn, HeldOwn, NoLeak
<1>7. ArenaOwned(mem) /\ RawFirst(mem)
  BY <1>2, <1>3, <1>4 DEF ArenaOwned, RawFirst
<1> QED BY <1>2, <1>3, <1>5, <1>6, <1>7 DEF MemInv, Inv

LEMMA CreateInv ==
  ASSUME Parameters, Inv, NEW o \in Object, Create(o)
  PROVE  Inv'
<1>1. o \notin DOMAIN mem.vec /\ MemInv(mem) /\ Default # Arena
  BY DEF Create, Live, Inv, Parameters
<1>2. CASE o \in MessageBuilder /\ Become(ConstructMessage(mem, o))
  <2> DEFINE n == ConstructMessage(mem, o)
  <2>1. MemInv(n) /\ DOMAIN n.vec = DOMAIN mem.vec \cup {o}
    BY <1>1, <1>2, NamesOfVectors, ConstructMessageKeeps
  <2>2. DOMAIN n.vec \subseteq Object
    BY <2>1, NamesOfVectors
  <2> HIDE DEF n
  <2> QED BY <1>2, <2>1, <2>2, BecomeKeeps DEF n
<1>3. CASE o \notin MessageBuilder /\ Become(Construct(mem, o, Default, FALSE))
  <2> DEFINE n == Construct(mem, o, Default, FALSE)
  <2>0. o \in Plain /\ o \notin Msg /\ o \in Plain \cup Msg /\ FALSE \in BOOLEAN /\ Default \in {Default, Arena}
    BY <1>3, NamesOfVectors DEF Object
  <2>1. MemInv(n) /\ DOMAIN n.vec = DOMAIN mem.vec \cup {o}
    BY <1>1, <2>0, ConstructKeeps, ZenonT(30)
  <2>2. DOMAIN n.vec \subseteq Object
    BY <2>1, NamesOfVectors
  <2> HIDE DEF n
  <2> QED BY <1>3, <2>1, <2>2, BecomeKeeps DEF n
<1>4. ASSUME o \notin MessageBuilder, NEW own \in BOOLEAN, mem.arena = "none",
             Become(Construct([mem EXCEPT !.arena = "made"], o, Arena, own))
      PROVE  Inv'
  <2> DEFINE a == [mem EXCEPT !.arena = "made"]
             n == Construct(a, o, Arena, own)
  <2>1. MemInv(a) /\ NoArena(a) /\ a.vec = mem.vec /\ a.arena = "made"
    BY <1>1, <1>4, ArenaMade
  <2>2. o \in Plain /\ o \notin Msg /\ o \in Plain \cup Msg /\ Arena \in {Default, Arena}
    BY <1>4, NamesOfVectors DEF Object
  <2> HIDE DEF a
  <2>3. MemInv(n) /\ DOMAIN n.vec = DOMAIN a.vec \cup {o}
    BY <1>1, <2>1, <2>2, ConstructKeeps
  <2>4. DOMAIN n.vec \subseteq Object
    BY <2>1, <2>3, NamesOfVectors
  <2> HIDE DEF n
  <2> QED BY <1>4, <2>3, <2>4, BecomeKeeps DEF n, a
<1> QED BY <1>2, <1>3, <1>4 DEF Create

LEMMA WriteInv ==
  ASSUME Parameters, Inv, NEW o \in Object, Write(o)
  PROVE  Inv'
<1> DEFINE b == mem.vec[o].size + 1
           n == Push(mem, o, <<b>>, MinAlign)
<1>1. o \in DOMAIN mem.vec /\ Become(n)
  BY DEF Write, InUse, Live
<1> HIDE DEF b
<1>2. MemInv(n) /\ SameProgram(mem, n)
  BY <1>1, NamesOfVectors, PushKeeps
<1> HIDE DEF n
<1> QED BY <1>1, <1>2, NamesOfVectors, BecomeKeeps DEF SameProgram

LEMMA RemoveInv ==
  ASSUME Parameters, Inv, NEW o \in Object, Remove(o)
  PROVE  Inv'
<1> DEFINE n == Pop(mem, o, 1)
<1>1. o \in DOMAIN mem.vec /\ mem.vec[o].size > 0 /\ Become(n)
  BY DEF Remove, InUse, Live
<1>2. MemInv(n) /\ SameProgram(mem, n)
  BY <1>1, NamesOfVectors, PopKeeps
<1> HIDE DEF n
<1> QED BY <1>1, <1>2, NamesOfVectors, BecomeKeeps DEF SameProgram

LEMMA NoteInv ==
  ASSUME Parameters, Inv, NEW o \in Object, Note(o)
  PROVE  Inv'
<1> DEFINE b == - 1 - mem.vec[o].scratch
           n == ScratchPush(mem, o, b, MinAlign)
<1>1. o \in DOMAIN mem.vec /\ Become(n)
  BY DEF Note, InUse, Live
<1> HIDE DEF b
<1>2. MemInv(n) /\ SameProgram(mem, n)
  BY <1>1, NamesOfVectors, ScratchPushKeeps
<1> HIDE DEF n
<1> QED BY <1>1, <1>2, NamesOfVectors, BecomeKeeps DEF SameProgram

LEMMA FinishInv ==
  ASSUME Parameters, Inv, NEW o \in Object, Finish(o)
  PROVE  Inv'
<1> DEFINE F == mem.finished \cup {o}
           f == [mem EXCEPT !.finished = F]
           v == mem.vec[o]
           w == [v EXCEPT !.scratch = 0]
           c == SetVector(f, o, w)
           b == v.size + 1
           n == Push(c, o, <<b>>, MinAlign)
<1>1. o \in DOMAIN mem.vec /\ MemInv(mem) /\ MemTypes(mem)
  BY DEF Finish, InUse, Live, Inv, MemInv
<1>2. Become(n)
  BY <1>1 DEF Finish, MemTypes, IsMem
<1>3. F \subseteq DOMAIN mem.vec
  BY <1>1, NamesOfVectors
<1> HIDE DEF F
<1>4. MemInv(f) /\ f.vec = mem.vec
  BY <1>1, <1>3, FinishedKeeps
<1>5. Vector(v) /\ v.cur + v.size = v.reserved /\ v.scratch <= v.cur
  BY <1>1 DEF MemInv, MemTypes, Owned, Layout
<1>6. Vector(w) /\ w.buf = v.buf /\ w.allocator = v.allocator /\ w.own = v.own /\ w.reserved = v.reserved
      /\ w.cur + w.size = w.reserved /\ w.scratch <= w.cur
  <2>1. w = [v EXCEPT !.scratch = 0]
    OBVIOUS
  <2> HIDE DEF v, w
  <2>2. /\ w.buf = v.buf /\ w.allocator = v.allocator /\ w.own = v.own /\ w.reserved = v.reserved
        /\ w.cur = v.cur /\ w.size = v.size /\ w.initial = v.initial /\ w.scratch = 0
        /\ w = [allocator |-> w.allocator, own |-> w.own, initial |-> w.initial, reserved |-> w.reserved,
                size |-> w.size, buf |-> w.buf, cur |-> w.cur, scratch |-> w.scratch]
    BY <1>5, <2>1 DEF Vector
  <2> QED BY <1>5, <2>2 DEF Vector
<1> HIDE DEF w, f, b
<1>7. MemInv(c) /\ DOMAIN c.vec = DOMAIN mem.vec
  <2>1. o \in DOMAIN f.vec /\ f.vec[o] = v
    BY <1>1, <1>4
  <2> HIDE DEF v
  <2> QED BY <1>4, <1>6, <2>1, SetVectorKeeps
<1> HIDE DEF c
<1>8. MemInv(n) /\ SameProgram(c, n)
  BY <1>1, <1>7, PushKeeps
<1> HIDE DEF n
<1> QED BY <1>2, <1>7, <1>8, NamesOfVectors, BecomeKeeps DEF SameProgram

LEMMA ClearInv ==
  ASSUME Parameters, Inv, NEW o \in Object, Clear(o)
  PROVE  Inv'
<1> DEFINE n == ClearBuilder(mem, o)
<1>1. o \in DOMAIN mem.vec /\ Become(n)
  BY DEF Clear, Live
<1>2. MemInv(n) /\ DOMAIN n.vec = DOMAIN mem.vec
  BY <1>1, NamesOfVectors, ClearKeeps
<1> HIDE DEF n
<1> QED BY <1>1, <1>2, NamesOfVectors, BecomeKeeps

LEMMA ResetInv ==
  ASSUME Parameters, Inv, NEW o \in Object, Reset(o)
  PROVE  Inv'
<1> DEFINE n == ResetBuilder(mem, o)
<1>1. o \in DOMAIN mem.vec /\ Become(n)
  BY DEF Reset, Live
<1>2. MemInv(n) /\ DOMAIN n.vec = DOMAIN mem.vec
  BY <1>1, NamesOfVectors, ResetKeeps
<1> HIDE DEF n
<1> QED BY <1>1, <1>2, NamesOfVectors, BecomeKeeps

LEMMA DestroyInv ==
  ASSUME Parameters, Inv, NEW o \in Object, Destroy(o)
  PROVE  Inv'
<1> DEFINE n == Destruct(mem, o)
<1>1. o \in DOMAIN mem.vec /\ Become(n)
  BY DEF Destroy, Live
<1>2. MemInv(n) /\ DOMAIN n.vec = DOMAIN mem.vec \ {o}
  BY <1>1, NamesOfVectors, DestructKeeps
<1> HIDE DEF n
<1> QED BY <1>1, <1>2, NamesOfVectors, BecomeKeeps

LEMMA SwapInv ==
  ASSUME Parameters, Inv, NEW o \in Object, NEW p \in Object, Swap(o, p)
  PROVE  Inv'
<1>1. o \in DOMAIN mem.vec /\ p \in DOMAIN mem.vec /\ o # p /\ MemInv(mem)
  BY NamesOfVectors DEF Swap, Live
<1>2. CASE o \in Builder /\ p \in Builder /\ Become(SwapBuilders(mem, o, p))
  <2> DEFINE n == SwapBuilders(mem, o, p)
  <2>1. o \in DOMAIN mem.vec \cap Plain /\ p \in DOMAIN mem.vec \cap Plain
    BY <1>1, <1>2, NamesOfVectors
  <2>2. MemInv(n) /\ DOMAIN n.vec = DOMAIN mem.vec
    BY <1>1, <2>1, SwapPlainKeeps
  <2> HIDE DEF n
  <2> QED BY <1>2, <2>2, NamesOfVectors, BecomeKeeps DEF n
<1>3. CASE o \in MessageBuilder /\ p \in MessageBuilder /\ Become(SwapMessages(mem, o, p))
  <2> DEFINE n == SwapMessages(mem, o, p)
  <2>1. o \in DOMAIN mem.vec \cap Msg /\ p \in DOMAIN mem.vec \cap Msg
    BY <1>1, <1>3, NamesOfVectors
  <2>2. MemInv(n) /\ DOMAIN n.vec = DOMAIN mem.vec
    BY <1>1, <2>1, SwapMessagesKeeps
  <2> HIDE DEF n
  <2> QED BY <1>3, <2>2, NamesOfVectors, BecomeKeeps DEF n
<1> QED BY <1>2, <1>3 DEF Swap

LEMMA MoveInv ==
  ASSUME Parameters, Inv, NEW o \in Object, NEW p \in Object, Move(o, p)
  PROVE  Inv'
<1>1. p \in DOMAIN mem.vec /\ o # p /\ MemInv(mem) /\ (Live(o) <=> o \in DOMAIN mem.vec)
  BY NamesOfVectors DEF Move, Live
<1>2. ASSUME o \in Builder, p \in Builder, Become((IF Live(o) THEN MoveAssign(mem, o, p) ELSE MoveConstruct(mem, o, p)))
      PROVE  Inv'
  <2>1. p \in DOMAIN mem.vec \cap Plain /\ o \in Plain /\ Temp \notin DOMAIN mem.vec
    BY <1>1, <1>2, NamesOfVectors
  <2>2. CASE Live(o)
    <3> DEFINE n == MoveAssign(mem, o, p)
    <3>1. Become(n) /\ o \in DOMAIN mem.vec \cap Plain
      BY <1>1, <1>2, <2>1, <2>2
    <3>2. MemInv(n) /\ DOMAIN n.vec = DOMAIN mem.vec
      BY <1>1, <2>1, <3>1, MoveAssignKeeps
    <3> HIDE DEF n
    <3> QED BY <3>1, <3>2, NamesOfVectors, BecomeKeeps
  <2>3. CASE ~Live(o)
    <3> DEFINE n == MoveConstruct(mem, o, p)
    <3>1. Become(n) /\ o \notin DOMAIN mem.vec
      BY <1>1, <1>2, <2>3
    <3>2. MemInv(n) /\ DOMAIN n.vec = DOMAIN mem.vec \cup {o}
      BY <1>1, <2>1, <3>1, MoveConstructKeeps
    <3> HIDE DEF n
    <3> QED BY <3>1, <3>2, NamesOfVectors, BecomeKeeps
  <2> QED BY <2>2, <2>3
<1>3. ASSUME o \in MessageBuilder, p \in MessageBuilder,
             Become((IF Live(o) THEN MoveAssignMessage(mem, o, p) ELSE MoveConstructMessage(mem, o, p)))
      PROVE  Inv'
  <2>1. p \in DOMAIN mem.vec \cap Msg /\ p \in DOMAIN mem.vec \cap MessageBuilder /\ o \in Msg /\ TempMessage \notin DOMAIN mem.vec
    BY <1>1, <1>3, NamesOfVectors
  <2>2. CASE Live(o)
    <3> DEFINE n == MoveAssignMessage(mem, o, p)
    <3>1. Become(n) /\ o \in DOMAIN mem.vec \cap MessageBuilder
      BY <1>1, <1>3, <2>2
    <3>2. MemInv(n) /\ DOMAIN n.vec = DOMAIN mem.vec
      BY <1>1, <2>1, <3>1, MoveAssignMessageKeeps
    <3> HIDE DEF n
    <3> QED BY <3>1, <3>2, NamesOfVectors, BecomeKeeps
  <2>3. CASE ~Live(o)
    <3> DEFINE n == MoveConstructMessage(mem, o, p)
    <3>1. Become(n) /\ o \notin DOMAIN mem.vec
      BY <1>1, <1>3, <2>3
    <3>2. MemInv(n) /\ DOMAIN n.vec = DOMAIN mem.vec \cup {o}
      BY <1>1, <2>1, <3>1, MoveConstructMessageKeeps
    <3> HIDE DEF n
    <3> QED BY <3>1, <3>2, NamesOfVectors, BecomeKeeps
  <2> QED BY <2>2, <2>3
<1>4. ASSUME o \in MessageBuilder, p \in Builder, mem.vec[p].allocator = Default,
             Become((IF Live(o) THEN AssignFromBuilder(mem, o, p) ELSE MessageFromBuilder(mem, o, p)))
      PROVE  Inv'
  <2>1. p \in DOMAIN mem.vec \cap Plain /\ o \in Msg /\ TempMessage \notin DOMAIN mem.vec
    BY <1>1, <1>4, NamesOfVectors
  <2>2. CASE Live(o)
    <3> DEFINE n == AssignFromBuilder(mem, o, p)
    <3>1. Become(n) /\ o \in DOMAIN mem.vec \cap MessageBuilder
      BY <1>1, <1>4, <2>2
    <3>2. MemInv(n) /\ DOMAIN n.vec = DOMAIN mem.vec
      BY <1>1, <1>4, <2>1, <3>1, AssignFromBuilderKeeps
    <3> HIDE DEF n
    <3> QED BY <3>1, <3>2, NamesOfVectors, BecomeKeeps
  <2>3. CASE ~Live(o)
    <3> DEFINE n == MessageFromBuilder(mem, o, p)
    <3>1. Become(n) /\ o \notin DOMAIN mem.vec
      BY <1>1, <1>4, <2>3
    <3>2. MemInv(n) /\ DOMAIN n.vec = DOMAIN mem.vec \cup {o}
      BY <1>1, <1>4, <2>1, <3>1, MessageFromBuilderKeeps
    <3> HIDE DEF n
    <3> QED BY <3>1, <3>2, NamesOfVectors, BecomeKeeps
  <2> QED BY <2>2, <2>3
<1> QED BY <1>2, <1>3, <1>4 DEF Move

LEMMA DetachInv ==
  ASSUME Parameters, Inv, NEW o \in Object, NEW h \in Holder, Detach(o, h)
  PROVE  Inv'
<1>1. o \in DOMAIN mem.vec \cap Plain /\ MemInv(mem) /\ RawFirst(mem)
  BY NamesOfVectors DEF Detach, Finished
<1>2. ASSUME mem.held[h].kind \in {"none", "detached"},
             Become(AssignDetached(ReleaseBuilder(mem, o), h, Grip(mem.vec[o], "detached")))
      PROVE  Inv'
  <2> DEFINE n == AssignDetached(ReleaseBuilder(mem, o), h, Grip(mem.vec[o], "detached"))
  <2>1. MemInv(n) /\ DOMAIN n.vec = DOMAIN mem.vec
    BY <1>1, <1>2, DetachKeeps
  <2> HIDE DEF n
  <2> QED BY <1>2, <2>1, NamesOfVectors, BecomeKeeps DEF n
<1>3. ASSUME mem.held[h].kind = "none",
             Become([ReleaseBuilderRaw(mem, o) EXCEPT !.held[h] = [Grip(mem.vec[o], "raw") EXCEPT !.own = FALSE]])
      PROVE  Inv'
  <2> DEFINE n == [ReleaseBuilderRaw(mem, o) EXCEPT !.held[h] = [Grip(mem.vec[o], "raw") EXCEPT !.own = FALSE]]
  <2>1. MemInv(n) /\ DOMAIN n.vec = DOMAIN mem.vec
    BY <1>1, <1>3, DetachRawKeeps
  <2> HIDE DEF n
  <2> QED BY <1>3, <2>1, NamesOfVectors, BecomeKeeps DEF n
<1> QED BY <1>2, <1>3 DEF Detach

LEMMA SendInv ==
  ASSUME Parameters, Inv, NEW o \in Object, NEW h \in Holder, Send(o, h)
  PROVE  Inv'
<1>1. o \in DOMAIN mem.vec \cap Msg /\ MemInv(mem) /\ RawFirst(mem)
  BY NamesOfVectors DEF Send, Finished
<1>2. ASSUME Become(GetMessage(mem, o, h)) PROVE Inv'
  <2> DEFINE n == GetMessage(mem, o, h)
  <2>1. MemInv(n) /\ DOMAIN n.vec = DOMAIN mem.vec
    BY <1>1, GetMessageKeeps
  <2> HIDE DEF n
  <2> QED BY <1>2, <2>1, NamesOfVectors, BecomeKeeps DEF n
<1>3. ASSUME Become(ReleaseMessage(mem, o, h)) PROVE Inv'
  <2> DEFINE n == ReleaseMessage(mem, o, h)
  <2>1. MemInv(n) /\ DOMAIN n.vec = DOMAIN mem.vec
    BY <1>1, ReleaseMessageKeeps
  <2> HIDE DEF n
  <2> QED BY <1>3, <2>1, NamesOfVectors, BecomeKeeps DEF n
<1>4. ASSUME Become(ReleaseMessageRaw(mem, o, h)) PROVE Inv'
  <2> DEFINE n == ReleaseMessageRaw(mem, o, h)
  <2>1. MemInv(n) /\ DOMAIN n.vec = DOMAIN mem.vec
    BY <1>1, ReleaseMessageRawKeeps
  <2> HIDE DEF n
  <2> QED BY <1>4, <2>1, NamesOfVectors, BecomeKeeps DEF n
<1> QED BY <1>2, <1>3, <1>4 DEF Send

LEMMA PassInv ==
  ASSUME Parameters, Inv, NEW h \in Holder, NEW g \in Holder, Pass(h, g)
  PROVE  Inv'
<1> DEFINE n == MoveHeld(mem, h, g)
<1>1. h # g /\ Become(n)
  BY DEF Pass
<1>2. MemInv(n) /\ n.vec = mem.vec
  BY <1>1, NamesOfVectors, MoveHeldKeeps
<1> HIDE DEF n
<1> QED BY <1>1, <1>2, NamesOfVectors, BecomeKeeps

LEMMA DropInv ==
  ASSUME Parameters, Inv, NEW h \in Holder, Drop(h)
  PROVE  Inv'
<1> DEFINE n == DestroyHeld(mem, h)
<1>1. Become(n)
  BY DEF Drop
<1>2. MemInv(n) /\ n.vec = mem.vec
  BY NamesOfVectors, DestroyHeldKeeps
<1> HIDE DEF n
<1> QED BY <1>1, <1>2, NamesOfVectors, BecomeKeeps

LEMMA NextInv ==
  ASSUME Parameters, Inv, [Next]_ovars
  PROVE  Inv'
<1>1. CASE Next
  BY <1>1, CreateInv, WriteInv, RemoveInv, NoteInv, FinishInv, ClearInv, ResetInv, DestroyInv, SwapInv, MoveInv,
     DetachInv, SendInv, PassInv, DropInv DEF Next
<1>2. CASE UNCHANGED ovars
  BY <1>2 DEF ovars, Inv
<1> QED BY <1>1, <1>2

-----------------------------------------------------------------------------
(* One owner.                                                               *)

LEMMA OneOwnerOfBlocks ==
  ASSUME Parameters, Inv, NEW p \in DOMAIN mem.heap
  PROVE  IF mem.heap[p].counted THEN Slices(p) # {} /\ Owners(p) \subseteq Slices(p)
         ELSE Cardinality(Owners(p)) = 1 /\ Slices(p) = {}
<1>1. MemTypes(mem) /\ Owned(mem) /\ p # Null /\ Plain \cap Msg = {} /\ DOMAIN mem.slice = Msg
  BY DEF Inv, MemInv, MemTypes, Parameters, Plain, Msg
<1>2. \A o \in DOMAIN mem.vec : mem.vec[o].buf = p => IF o \in Plain THEN ~mem.heap[p].counted ELSE o \in Msg /\ mem.slice[o] = p
  BY <1>1 DEF MemTypes, Owned, PlainOwn, MsgOwn
<1>3. \A s \in Msg : mem.slice[s] = p => mem.heap[p].counted
  BY <1>1 DEF Owned, SlicesOwn
<1>4. \A h \in Holder : mem.held[h].buf = p => (mem.heap[p].counted <=> mem.held[h].kind = "slice")
  BY <1>1, PointersOfHeld
<1>5. CASE mem.heap[p].counted
  <2>1. Slices(p) # {}
    BY <1>1, <1>5 DEF Owned, NoLeak, Slices
  <2>2. Owners(p) \subseteq Slices(p)
    BY <1>1, <1>2, <1>4, <1>5 DEF Owners, Slices
  <2> QED BY <1>5, <2>1, <2>2
<1>6. CASE ~mem.heap[p].counted
  <2>1. Slices(p) = {}
    BY <1>1, <1>3, <1>4, <1>6 DEF Slices
  <2>2. \A o \in DOMAIN mem.vec : mem.vec[o].buf = p => o \in DOMAIN mem.vec \cap Plain
    BY <1>2, <1>3, <1>6
  <2>3. \A h \in Holder : mem.held[h].buf = p => mem.held[h].kind # "slice" /\ mem.held[h].kind \in {"detached", "raw"}
    BY <1>1, <1>4, <1>6, PointersOfHeld
  <2>4. \E x : Owners(p) = {x}
    <3>1. CASE \E o \in DOMAIN mem.vec \cap Plain : mem.vec[o].buf = p
      <4>1. PICK o \in DOMAIN mem.vec \cap Plain : mem.vec[o].buf = p
        BY <3>1
      <4>2. /\ \A q \in DOMAIN mem.vec : mem.vec[q].buf = p => q = o
            /\ \A h \in Holder : mem.held[h].kind # "slice" => mem.held[h].buf # p
        BY <1>1, <4>1 DEF Owned, PlainOwn
      <4>3. Owners(p) = {o}
        BY <4>1, <4>2 DEF Owners
      <4> QED BY <4>3
    <3>2. CASE ~\E o \in DOMAIN mem.vec \cap Plain : mem.vec[o].buf = p
      <4>1. PICK h \in Holder : mem.held[h].kind # "slice" /\ mem.held[h].buf = p
        BY <1>1, <1>6, <3>2 DEF Owned, NoLeak
      <4>2. \A g \in Holder : mem.held[g].kind # "slice" /\ mem.held[g].buf = p => g = h
        BY <1>1, <2>3, <4>1 DEF Owned, HeldOwn
      <4>3. Owners(p) = {h}
        BY <2>2, <3>2, <4>1, <4>2 DEF Owners
      <4> QED BY <4>3
    <3> QED BY <3>1, <3>2
  <2>5. Cardinality(Owners(p)) = 1
    BY <2>4, FS_Singleton
  <2> QED BY <1>6, <2>1, <2>5
<1> QED BY <1>5, <1>6

LEMMA OneOwnerOfArena ==
  ASSUME Parameters, Inv
  PROVE  /\ mem.arena = "deleted" => ArenaOwners = {} /\ \A o \in DOMAIN mem.vec : mem.vec[o].allocator # Arena
         /\ Cardinality(ArenaOwners) <= 1
<1>1. ArenaOwned(mem) /\ HeldOwn(mem) /\ DOMAIN mem.vec \cap Holder = {}
  BY DEF Inv, MemInv, Owned, MemTypes, Parameters, Object
<1>2. \A h \in Holder : mem.held[h].own => mem.held[h].kind # "raw" /\ mem.held[h].allocator = Arena
  BY <1>1 DEF HeldOwn, ArenaOwned
<1>3. \A x, y \in ArenaOwners : x = y
  BY <1>1, <1>2 DEF ArenaOwned, ArenaOwners
<1>4. ArenaOwners = {} \/ \E x : ArenaOwners = {x}
  BY <1>3
<1>5. Cardinality(ArenaOwners) <= 1
  <2>1. CASE ArenaOwners = {}
    <3>1. Cardinality(ArenaOwners) = 0
      BY <2>1, FS_EmptySet
    <3> QED BY <3>1
  <2>2. CASE \E x : ArenaOwners = {x}
    <3>1. Cardinality(ArenaOwners) = 1
      BY <2>2, FS_Singleton
    <3> QED BY <3>1
  <2> QED BY <1>4, <2>1, <2>2
<1>6. mem.arena = "deleted" => ArenaOwners = {} /\ \A o \in DOMAIN mem.vec : mem.vec[o].allocator # Arena
  BY <1>1, <1>2 DEF ArenaOwned, ArenaOwners
<1> QED BY <1>5, <1>6

LEMMA InvMeansOneOwner ==
  ASSUME Parameters, Inv
  PROVE  OneOwner
<1>1. MemTypes(mem) /\ Owned(mem)
  BY DEF Inv, MemInv
<1>2. ~mem.failed
  BY <1>1 DEF MemTypes
<1>3. \A o \in DOMAIN mem.vec : o \in MessageBuilder => mem.vec[o].buf = mem.slice[o]
  BY <1>1 DEF Owned, MsgOwn, Msg
<1>4. \A h \in Holder : mem.held[h].buf # Null => mem.held[h].buf \in DOMAIN mem.heap
  BY <1>1, PointersOfHeld
<1> QED BY <1>2, <1>3, <1>4, OneOwnerOfBlocks, OneOwnerOfArena DEF OneOwner

\* Whatever the program does with its builders, messages and released buffers,
\* every block of memory has one owner, and the rest of OneOwner holds
\* (vector_downward.h, detached_buffer.h, grpc.h).
THEOREM OneOwnerAlways == Spec => []OneOwner
<1>1. Init => Inv
  BY ParametersAssumption, InitInv
<1>2. Inv /\ [Next]_ovars => Inv'
  BY ParametersAssumption, NextInv
<1>3. Inv => OneOwner
  BY ParametersAssumption, InvMeansOneOwner
<1> QED BY <1>1, <1>2, <1>3, PTL DEF Spec

\* A vector's pointers always stay inside its block, or it has none and they
\* are zero (vector_downward.h).
THEOREM VectorsAlways == Spec => []Vectors
<1>1. Init => Inv
  BY ParametersAssumption, InitInv
<1>2. Inv /\ [Next]_ovars => Inv'
  BY ParametersAssumption, NextInv
<1>3. Inv => Vectors
  BY DEF Inv, MemInv, Owned, Layout, Vectors
<1> QED BY <1>1, <1>2, <1>3, PTL DEF Spec

-----------------------------------------------------------------------------
(* What the program sees.                                                   *)

DataOf(m, o) == IF o \in DOMAIN m.vec THEN Data(m, o) ELSE <<>>
NotesOf(m, o) == IF o \in DOMAIN m.vec THEN ScratchData(m, o) ELSE <<>>
KeptBy(m, h) == LET d == m.held[h] IN [i \in 1 .. d.size |-> m.heap[d.buf].bytes[d.cur + i]]

\* No two vectors have the same block; who has one that a holder has is
\* finished and is not written; a holder's data ends with its block.
Apart(m) == \A o, q \in DOMAIN m.vec : o # q /\ m.vec[o].buf # Null => m.vec[q].buf # m.vec[o].buf
LentFinished(m) ==
  \A o \in DOMAIN m.vec : \A h \in Holder : m.held[h].buf # Null /\ m.held[h].buf = m.vec[o].buf => o \in m.finished
HeldSpan(m) ==
  \A h \in Holder :
    LET d == m.held[h]
    IN /\ d.size \in Nat /\ d.cur \in Nat
       /\ d.buf = Null => d.size = 0
       /\ d.buf # Null => d.cur + d.size = d.reserved /\ DOMAIN m.heap[d.buf].bytes = 1 .. d.reserved
DataInv(m) == Apart(m) /\ LentFinished(m) /\ HeldSpan(m)

\* In n the vector q shows what r showed in m; nothing is seen of it.
Sees(m, n, q, r) == DataOf(n, q) = DataOf(m, r) /\ NotesOf(n, q) = NotesOf(m, r)
Blank(n, q) == DataOf(n, q) = <<>> /\ NotesOf(n, q) = <<>>

\* A function on 1 .. n is a sequence.
LEMMA FunctionAsSequence ==
  ASSUME NEW D, NEW n \in Nat, D = [i \in 1 .. n |-> D[i]]
  PROVE  D \in Seq({D[i] : i \in 1 .. n}) /\ Len(D) = n
<1> DEFINE S == {D[i] : i \in 1 .. n}
<1>1. \A i \in 1 .. n : D[i] \in S
  OBVIOUS
<1> HIDE DEF S
<1>2. D \in [1 .. n -> S]
  BY <1>1
<1>3. D \in Seq(S)
  BY <1>2
<1>4. DOMAIN D = 1 .. n
  BY <1>2
<1> QED BY <1>3, <1>4 DEF S

LEMMA SameStorageSeen ==
  ASSUME NEW m, NEW n, MemTypes(m), Layout(m), NEW q \in DOMAIN n.vec, NEW r \in DOMAIN m.vec,
         SameStorage(n.vec[q], m.vec[r]), m.vec[r].buf # Null => n.heap[m.vec[r].buf].bytes = m.heap[m.vec[r].buf].bytes
  PROVE  Sees(m, n, q, r)
<1> DEFINE v == m.vec[r]
<1>1. /\ v.size \in Nat /\ v.scratch \in Nat /\ v.cur \in Nat
      /\ v.buf = Null => v.size = 0 /\ v.scratch = 0
  <2>1. Vector(v) /\ v.cur + v.size = v.reserved /\ v.scratch <= v.cur /\ (v.buf = Null => v.reserved = 0)
    BY DEF MemTypes, Layout
  <2> QED BY <2>1 DEF Vector
<1>2. DataOf(n, q) = [i \in 1 .. v.size |-> n.heap[v.buf].bytes[v.cur + i]] /\ NotesOf(n, q) = [i \in 1 .. v.scratch |-> n.heap[v.buf].bytes[i]]
  BY DEF DataOf, NotesOf, Data, ScratchData, SameStorage
<1>3. DataOf(m, r) = [i \in 1 .. v.size |-> m.heap[v.buf].bytes[v.cur + i]] /\ NotesOf(m, r) = [i \in 1 .. v.scratch |-> m.heap[v.buf].bytes[i]]
  BY DEF DataOf, NotesOf, Data, ScratchData
<1> HIDE DEF v
<1>4. CASE v.buf = Null
  <2>1. 1 .. v.size = {} /\ 1 .. v.scratch = {}
    BY <1>1, <1>4
  <2> QED BY <1>2, <1>3, <2>1 DEF Sees
<1>5. CASE v.buf # Null
  BY <1>2, <1>3, <1>5 DEF Sees, v
<1> QED BY <1>4, <1>5

LEMMA NothingSeen ==
  ASSUME NEW n, NEW q, q \in DOMAIN n.vec => n.vec[q].size = 0 /\ n.vec[q].scratch = 0
  PROVE  Blank(n, q)
<1>1. CASE q \notin DOMAIN n.vec
  BY <1>1 DEF Blank, DataOf, NotesOf
<1>2. CASE q \in DOMAIN n.vec
  <2>1. DataOf(n, q) = [i \in 1 .. 0 |-> n.heap[n.vec[q].buf].bytes[n.vec[q].cur + i]] /\ NotesOf(n, q) = [i \in 1 .. 0 |-> n.heap[n.vec[q].buf].bytes[i]]
    BY <1>2 DEF DataOf, NotesOf, Data, ScratchData
  <2>2. 1 .. 0 = {}
    OBVIOUS
  <2> QED BY <2>1, <2>2 DEF Blank
<1> QED BY <1>1, <1>2

LEMMA SameKeptSeen ==
  ASSUME NEW m, NEW n, HeldSpan(m), NEW h \in Holder, NEW g \in Holder,
         n.held[h].buf = m.held[g].buf, n.held[h].size = m.held[g].size, n.held[h].cur = m.held[g].cur,
         m.held[g].buf # Null => n.heap[m.held[g].buf].bytes = m.heap[m.held[g].buf].bytes
  PROVE  KeptBy(n, h) = KeptBy(m, g)
<1> DEFINE d == m.held[g]
<1>1. KeptBy(n, h) = [i \in 1 .. d.size |-> n.heap[d.buf].bytes[d.cur + i]] /\ KeptBy(m, g) = [i \in 1 .. d.size |-> m.heap[d.buf].bytes[d.cur + i]]
  BY DEF KeptBy
<1>2. d.buf = Null => d.size = 0
  BY DEF HeldSpan
<1>3. CASE d.buf = Null
  <2>1. 1 .. d.size = {}
    BY <1>2, <1>3
  <2> QED BY <1>1, <2>1
<1>4. CASE d.buf # Null
  BY <1>1, <1>4
<1> QED BY <1>3, <1>4

\* What is shown is in use.
LEMMA ShownIsUsed ==
  ASSUME NEW m
  PROVE  /\ \A o \in DOMAIN m.vec : LET v == m.vec[o] IN (1 .. v.scratch \cup v.cur + 1 .. v.cur + v.size) \subseteq Used(m, v.buf)
         /\ \A h \in Holder : LET d == m.held[h] IN (d.cur + 1 .. d.cur + d.size) \subseteq Used(m, d.buf)
<1>1. ASSUME NEW o \in DOMAIN m.vec
      PROVE  LET v == m.vec[o] IN (1 .. v.scratch \cup v.cur + 1 .. v.cur + v.size) \subseteq Used(m, v.buf)
  <2> DEFINE v == m.vec[o]
             V == {m.vec[r] : r \in {q \in DOMAIN m.vec : m.vec[q].buf = v.buf}}
             use(w) == 1 .. w.scratch \cup w.cur + 1 .. w.cur + w.size
  <2>1. v \in V
    OBVIOUS
  <2> HIDE DEF v, V
  <2>2. use(v) \subseteq UNION {use(w) : w \in V}
    <3> HIDE DEF use
    <3> QED BY <2>1
  <2>3. UNION {use(w) : w \in V} \subseteq Used(m, v.buf)
    BY DEF Used, V, use
  <2> QED BY <2>2, <2>3 DEF v, use
<1>2. ASSUME NEW h \in Holder
      PROVE  LET d == m.held[h] IN (d.cur + 1 .. d.cur + d.size) \subseteq Used(m, d.buf)
  <2> DEFINE d == m.held[h]
             V == {m.held[r] : r \in {g \in Holder : m.held[g].buf = d.buf}}
             use(w) == w.cur + 1 .. w.cur + w.size
  <2>1. d \in V
    OBVIOUS
  <2> HIDE DEF d, V
  <2>2. use(d) \subseteq UNION {use(w) : w \in V}
    <3> HIDE DEF use
    <3> QED BY <2>1
  <2>3. UNION {use(w) : w \in V} \subseteq Used(m, d.buf)
    BY DEF Used, V, use
  <2> QED BY <2>2, <2>3 DEF d, use
<1> QED BY <1>1, <1>2

\* What is forgotten was not shown.
LEMMA ForgetfulSeen ==
  ASSUME Parameters, NEW m, MemInv(m), DataInv(m)
  PROVE  LET n == Forgetful(m)
         IN  /\ DataInv(n) /\ \A q : Sees(m, n, q, q)
             /\ \A h \in Holder : KeptBy(n, h) = KeptBy(m, h)
<1> DEFINE n == Forgetful(m)
<1>1. /\ MemInv(n) /\ n.vec = m.vec /\ n.held = m.held
      /\ n.finished = m.finished /\ DOMAIN n.heap = DOMAIN m.heap
      /\ \A p \in DOMAIN m.heap : n.heap[p].bytes = [i \in DOMAIN m.heap[p].bytes |-> IF i \in Used(m, p) THEN m.heap[p].bytes[i] ELSE Null]
  BY ForgetfulKeeps
<1> HIDE DEF n
<1>2. MemTypes(m) /\ Owned(m)
  BY DEF MemInv
<1>3. DataInv(n)
  <2>1. Apart(n) /\ LentFinished(n)
    BY <1>1 DEF DataInv, Apart, LentFinished
  <2>2. \A h \in Holder : m.held[h].buf # Null => m.held[h].buf \in DOMAIN m.heap
    BY <1>2, PointersOfHeld
  <2>3. HeldSpan(n)
    BY <1>1, <2>2 DEF DataInv, HeldSpan
  <2> QED BY <2>1, <2>3 DEF DataInv
<1>4. ASSUME NEW q PROVE Sees(m, n, q, q)
  <2>1. CASE q \notin DOMAIN m.vec
    BY <1>1, <2>1 DEF Sees, DataOf, NotesOf
  <2>2. CASE q \in DOMAIN m.vec
    <3> DEFINE v == m.vec[q]
    <3>1. /\ Vector(v) /\ v.cur + v.size = v.reserved /\ v.scratch <= v.cur
          /\ v.buf # Null => v.buf \in DOMAIN m.heap /\ DOMAIN m.heap[v.buf].bytes = 1 .. v.reserved
          /\ v.buf = Null => v.reserved = 0
      BY <1>2, <2>2 DEF MemTypes, Owned, Layout
    <3>2. (1 .. v.scratch \cup v.cur + 1 .. v.cur + v.size) \subseteq Used(m, v.buf)
      BY <2>2, ShownIsUsed
    <3>3. DataOf(n, q) = [i \in 1 .. v.size |-> n.heap[v.buf].bytes[v.cur + i]] /\ NotesOf(n, q) = [i \in 1 .. v.scratch |-> n.heap[v.buf].bytes[i]]
      BY <1>1, <2>2 DEF DataOf, NotesOf, Data, ScratchData
    <3>4. DataOf(m, q) = [i \in 1 .. v.size |-> m.heap[v.buf].bytes[v.cur + i]] /\ NotesOf(m, q) = [i \in 1 .. v.scratch |-> m.heap[v.buf].bytes[i]]
      BY <2>2 DEF DataOf, NotesOf, Data, ScratchData
    <3>5. v.buf # Null => n.heap[v.buf].bytes = [i \in DOMAIN m.heap[v.buf].bytes |-> IF i \in Used(m, v.buf) THEN m.heap[v.buf].bytes[i] ELSE Null]
      BY <1>1, <3>1
    <3> HIDE DEF v
    <3>6. CASE v.buf = Null
      <4>1. 1 .. v.size = {} /\ 1 .. v.scratch = {}
        BY <3>1, <3>6 DEF Vector
      <4> QED BY <3>3, <3>4, <4>1 DEF Sees
    <3>7. CASE v.buf # Null
      <4>1. \A i \in 1 .. v.size : n.heap[v.buf].bytes[v.cur + i] = m.heap[v.buf].bytes[v.cur + i]
        <5> SUFFICES ASSUME NEW i \in 1 .. v.size PROVE n.heap[v.buf].bytes[v.cur + i] = m.heap[v.buf].bytes[v.cur + i]
          OBVIOUS
        <5>1. v.cur + i \in 1 .. v.reserved /\ v.cur + i \in v.cur + 1 .. v.cur + v.size
          BY <3>1 DEF Vector
        <5> QED BY <3>1, <3>2, <3>5, <3>7, <5>1
      <4>2. \A i \in 1 .. v.scratch : n.heap[v.buf].bytes[i] = m.heap[v.buf].bytes[i]
        <5> SUFFICES ASSUME NEW i \in 1 .. v.scratch PROVE n.heap[v.buf].bytes[i] = m.heap[v.buf].bytes[i]
          OBVIOUS
        <5>1. i \in 1 .. v.reserved
          BY <3>1 DEF Vector
        <5> QED BY <3>1, <3>2, <3>5, <3>7, <5>1
      <4> QED BY <3>3, <3>4, <4>1, <4>2 DEF Sees
    <3> QED BY <3>6, <3>7
  <2> QED BY <2>1, <2>2
<1>5. ASSUME NEW h \in Holder PROVE KeptBy(n, h) = KeptBy(m, h)
  <2> DEFINE d == m.held[h]
  <2>1. /\ d.size \in Nat /\ d.cur \in Nat
        /\ d.buf = Null => d.size = 0
        /\ d.buf # Null => d.cur + d.size = d.reserved /\ DOMAIN m.heap[d.buf].bytes = 1 .. d.reserved /\ d.buf \in DOMAIN m.heap
    BY <1>2, PointersOfHeld DEF DataInv, HeldSpan
  <2>2. (d.cur + 1 .. d.cur + d.size) \subseteq Used(m, d.buf)
    BY ShownIsUsed
  <2>3. KeptBy(n, h) = [i \in 1 .. d.size |-> n.heap[d.buf].bytes[d.cur + i]] /\ KeptBy(m, h) = [i \in 1 .. d.size |-> m.heap[d.buf].bytes[d.cur + i]]
    BY <1>1 DEF KeptBy
  <2>4. d.buf # Null => n.heap[d.buf].bytes = [i \in DOMAIN m.heap[d.buf].bytes |-> IF i \in Used(m, d.buf) THEN m.heap[d.buf].bytes[i] ELSE Null]
    BY <1>1, <2>1
  <2> HIDE DEF d
  <2>5. CASE d.buf = Null
    <3>1. 1 .. d.size = {}
      BY <2>1, <2>5
    <3> QED BY <2>3, <3>1
  <2>6. CASE d.buf # Null
    <3>1. \A i \in 1 .. d.size : n.heap[d.buf].bytes[d.cur + i] = m.heap[d.buf].bytes[d.cur + i]
      <4> SUFFICES ASSUME NEW i \in 1 .. d.size PROVE n.heap[d.buf].bytes[d.cur + i] = m.heap[d.buf].bytes[d.cur + i]
        OBVIOUS
      <4>1. d.cur + i \in 1 .. d.reserved /\ d.cur + i \in d.cur + 1 .. d.cur + d.size
        BY <2>1, <2>6
      <4> QED BY <2>1, <2>2, <2>4, <2>6, <4>1
    <3> QED BY <2>3, <3>1
  <2> QED BY <2>5, <2>6
<1> QED BY <1>3, <1>4, <1>5 DEF n

\* A block that has grown shows what it showed before.
LEMMA GrownSeen ==
  ASSUME NEW m, MemInv(m), NEW n, MemInv(n), NEW o \in DOMAIN m.vec, DOMAIN n.vec = DOMAIN m.vec, Grew(m, n, o)
  PROVE  Sees(m, n, o, o)
<1> DEFINE v == m.vec[o]
           w == n.vec[o]
           old == m.heap[v.buf].bytes
           new == n.heap[w.buf].bytes
<1>1. /\ Vector(v) /\ v.cur + v.size = v.reserved /\ v.scratch <= v.cur
      /\ v.buf = Null => v.reserved = 0
  BY DEF MemInv, MemTypes, Owned, Layout
<1>2. Vector(w) /\ w.cur + w.size = w.reserved
  BY DEF MemInv, MemTypes, Owned, Layout
<1>3. /\ w.size = v.size /\ w.scratch = v.scratch /\ w.reserved > v.reserved
      /\ v.buf # Null => new = MemcpyDownward(old, v.reserved, w.reserved, v.size, v.scratch)
  BY DEF Grew
<1>4. DataOf(n, o) = [i \in 1 .. w.size |-> new[w.cur + i]] /\ NotesOf(n, o) = [i \in 1 .. w.scratch |-> new[i]]
  BY DEF DataOf, NotesOf, Data, ScratchData
<1>5. DataOf(m, o) = [i \in 1 .. v.size |-> old[v.cur + i]] /\ NotesOf(m, o) = [i \in 1 .. v.scratch |-> old[i]]
  BY DEF DataOf, NotesOf, Data, ScratchData
<1> HIDE DEF v, w, old, new
<1>6. CASE v.buf = Null
  <2>1. 1 .. v.size = {} /\ 1 .. v.scratch = {}
    BY <1>1, <1>6 DEF Vector
  <2> QED BY <1>3, <1>4, <1>5, <2>1 DEF Sees
<1>7. CASE v.buf # Null
  <2>1. new = [i \in 1 .. w.reserved |-> IF i <= v.scratch THEN old[i]
                                         ELSE IF i > w.reserved - v.size THEN old[i - (w.reserved - v.reserved)] ELSE Null]
    BY <1>3, <1>7 DEF MemcpyDownward
  <2>2. \A i \in 1 .. v.size : new[w.cur + i] = old[v.cur + i]
    <3> SUFFICES ASSUME NEW i \in 1 .. v.size PROVE new[w.cur + i] = old[v.cur + i]
      OBVIOUS
    <3> DEFINE k == w.cur + i
               j == v.cur + i
    <3>1. k \in 1 .. w.reserved /\ ~(k <= v.scratch) /\ k > w.reserved - v.size /\ k - (w.reserved - v.reserved) = j
      BY <1>1, <1>2, <1>3 DEF Vector
    <3> HIDE DEF k, j
    <3>2. new[k] = old[j]
      BY <2>1, <3>1
    <3> QED BY <3>2 DEF k, j
  <2>3. \A i \in 1 .. v.scratch : new[i] = old[i]
    <3> SUFFICES ASSUME NEW i \in 1 .. v.scratch PROVE new[i] = old[i]
      OBVIOUS
    <3>1. i \in 1 .. w.reserved /\ i <= v.scratch
      BY <1>1, <1>2, <1>3 DEF Vector
    <3> QED BY <2>1, <3>1
  <2> QED BY <1>3, <1>4, <1>5, <2>2, <2>3 DEF Sees
<1> QED BY <1>6, <1>7

\* No holder has the block of o.
NotLent(m, o) == \A h \in Holder : m.held[h].buf # Null => m.held[h].buf # m.vec[o].buf

LEMMA EnsureSpaceSeen ==
  ASSUME Parameters, NEW m, MemInv(m), DataInv(m), NEW o \in DOMAIN m.vec
  PROVE  LET n == EnsureSpace(m, o, 1, MinAlign)
         IN  /\ DataInv(n) /\ \A q : Sees(m, n, q, q)
             /\ \A h \in Holder : KeptBy(n, h) = KeptBy(m, h)
             /\ n.vec[o].size = m.vec[o].size /\ n.vec[o].scratch = m.vec[o].scratch
             /\ NotLent(m, o) => NotLent(n, o)
<1> DEFINE n == EnsureSpace(m, o, 1, MinAlign)
<1>1. /\ MemInv(n) /\ DOMAIN n.vec = DOMAIN m.vec /\ \A q \in DOMAIN m.vec \ {o} : n.vec[q] = m.vec[q]
      /\ n.vec[o].buf # Null /\ (n = m \/ Grew(m, n, o))
      /\ n.finished = m.finished /\ n.held = m.held
  BY EnsureSpaceKeeps
<1> HIDE DEF n
<1>2. CASE n = m
  BY <1>2 DEF Sees, n
<1>3. CASE Grew(m, n, o)
  <2> DEFINE p == n.vec[o].buf
  <2>1. /\ p # Null /\ p \notin DOMAIN m.heap /\ \A q \in DOMAIN n.heap \ {p} : n.heap[q] = m.heap[q]
        /\ n.vec[o].size = m.vec[o].size /\ n.vec[o].scratch = m.vec[o].scratch
    BY <1>3 DEF Grew
  <2>2. \A q \in DOMAIN m.vec \ {o} : m.vec[q].buf # Null =>
          m.vec[q].buf \in DOMAIN m.heap /\ m.vec[q].buf # p /\ n.heap[m.vec[q].buf] = m.heap[m.vec[q].buf]
    BY <1>1, <2>1 DEF MemInv, Owned, Layout
  <2>3. \A h \in Holder : m.held[h].buf # Null =>
          m.held[h].buf \in DOMAIN m.heap /\ m.held[h].buf # p /\ n.heap[m.held[h].buf] = m.heap[m.held[h].buf]
    <3> SUFFICES ASSUME NEW h \in Holder, m.held[h].buf # Null
                 PROVE  m.held[h].buf \in DOMAIN m.heap /\ m.held[h].buf # p /\ n.heap[m.held[h].buf] = m.heap[m.held[h].buf]
      OBVIOUS
    <3>1. m.held[h].buf \in DOMAIN m.heap
      BY PointersOfHeld DEF MemInv
    <3>2. n.held[h].buf \in DOMAIN n.heap
      BY <1>1, PointersOfHeld DEF MemInv
    <3> QED BY <1>1, <2>1, <3>1, <3>2
  <2>4. DataInv(n)
    <3>1. Apart(n)
      BY <1>1, <2>1, <2>2 DEF DataInv, Apart
    <3>2. LentFinished(n)
      BY <1>1, <2>1, <2>3 DEF DataInv, LentFinished
    <3>3. HeldSpan(n)
      BY <1>1, <2>3 DEF DataInv, HeldSpan
    <3> QED BY <3>1, <3>2, <3>3 DEF DataInv
  <2>5. ASSUME NEW q PROVE Sees(m, n, q, q)
    <3>1. CASE q = o
      BY <1>1, <1>3, <3>1, GrownSeen
    <3>2. CASE q \in DOMAIN m.vec \ {o}
      <4>1. SameStorage(n.vec[q], m.vec[q]) /\ (m.vec[q].buf # Null => n.heap[m.vec[q].buf].bytes = m.heap[m.vec[q].buf].bytes)
        BY <1>1, <2>2, <3>2 DEF SameStorage
      <4> QED BY <1>1, <3>2, <4>1, SameStorageSeen DEF MemInv, Owned
    <3>3. CASE q \notin DOMAIN m.vec
      BY <1>1, <3>3 DEF Sees, DataOf, NotesOf
    <3> QED BY <3>1, <3>2, <3>3
  <2>6. ASSUME NEW h \in Holder PROVE KeptBy(n, h) = KeptBy(m, h)
    BY <1>1, <2>3, SameKeptSeen DEF DataInv
  <2>7. NotLent(n, o)
    BY <1>1, <2>3 DEF NotLent
  <2> QED BY <2>1, <2>4, <2>5, <2>6, <2>7 DEF n
<1> QED BY <1>1, <1>2, <1>3

\* A write to the block of o, which nobody else has, is not seen elsewhere.
LEMMA ElsewhereSeen ==
  ASSUME NEW m, MemInv(m), DataInv(m), NEW o \in DOMAIN m.vec, NotLent(m, o),
         NEW n, MemInv(n), DOMAIN n.vec = DOMAIN m.vec, m.finished \subseteq n.finished, n.held = m.held,
         n.vec[o].buf = m.vec[o].buf, \A q \in DOMAIN m.vec \ {o} : n.vec[q] = m.vec[q],
         \A p \in DOMAIN m.heap \ {m.vec[o].buf} : n.heap[p] = m.heap[p]
  PROVE  /\ DataInv(n) /\ NotLent(n, o) /\ \A q : q # o => Sees(m, n, q, q)
         /\ \A h \in Holder : KeptBy(n, h) = KeptBy(m, h)
<1>1. \A q \in DOMAIN m.vec \ {o} : m.vec[q].buf # Null => m.vec[q].buf \in DOMAIN m.heap /\ m.vec[q].buf # m.vec[o].buf
  BY DEF MemInv, Owned, Layout, DataInv, Apart
<1>2. \A h \in Holder : m.held[h].buf # Null => m.held[h].buf \in DOMAIN m.heap /\ m.held[h].buf # m.vec[o].buf
  BY PointersOfHeld DEF MemInv, NotLent
<1>3. DataInv(n)
  <2>1. \A q \in DOMAIN m.vec : n.vec[q].buf = m.vec[q].buf
    OBVIOUS
  <2>2. Apart(n) /\ LentFinished(n)
    BY <2>1 DEF DataInv, Apart, LentFinished
  <2>3. HeldSpan(n)
    BY <1>2 DEF DataInv, HeldSpan
  <2> QED BY <2>2, <2>3 DEF DataInv
<1>4. ASSUME NEW q, q # o PROVE Sees(m, n, q, q)
  <2>1. CASE q \in DOMAIN m.vec
    <3>1. SameStorage(n.vec[q], m.vec[q]) /\ (m.vec[q].buf # Null => n.heap[m.vec[q].buf].bytes = m.heap[m.vec[q].buf].bytes)
      BY <1>1, <1>4, <2>1 DEF SameStorage
    <3> QED BY <2>1, <3>1, SameStorageSeen DEF MemInv, Owned
  <2>2. CASE q \notin DOMAIN m.vec
    BY <2>2 DEF Sees, DataOf, NotesOf
  <2> QED BY <2>1, <2>2
<1>5. ASSUME NEW h \in Holder PROVE KeptBy(n, h) = KeptBy(m, h)
  BY <1>2, SameKeptSeen DEF DataInv
<1>6. NotLent(n, o)
  BY DEF NotLent
<1> QED BY <1>3, <1>4, <1>5, <1>6

\* A byte that is pushed comes in front of the data.
LEMMA PushSeen ==
  ASSUME Parameters, NEW m, MemInv(m), DataInv(m), NEW o \in DOMAIN m.vec, NotLent(m, o), NEW b
  PROVE  LET n == Push(m, o, <<b>>, MinAlign)
         IN  /\ DataInv(n) /\ \A q : q # o => Sees(m, n, q, q)
             /\ DataOf(n, o) = <<b>> \o DataOf(m, o) /\ NotesOf(n, o) = NotesOf(m, o)
             /\ \A h \in Holder : KeptBy(n, h) = KeptBy(m, h)
<1> DEFINE e == EnsureSpace(m, o, 1, MinAlign)
           u == e.vec[o]
           v == [u EXCEPT !.cur = u.cur - 1, !.size = u.size + 1]
           s == SetVector(e, o, v)
           n == Stored(s, o, v.cur, <<b>>)
           p == u.buf
           old == e.heap[p].bytes
           new == n.heap[p].bytes
<1>1. /\ MemInv(e) /\ DOMAIN e.vec = DOMAIN m.vec
      /\ u.scratch < u.cur /\ u.buf # Null
      /\ e.finished = m.finished /\ e.arena = m.arena /\ e.held = m.held
  BY EnsureSpaceKeeps
<1>2. /\ DataInv(e) /\ \A q : Sees(m, e, q, q)
      /\ \A h \in Holder : KeptBy(e, h) = KeptBy(m, h)
      /\ NotLent(e, o)
  BY EnsureSpaceSeen
<1>3. Push(m, o, <<b>>, MinAlign) = n
  <2>1. Len(<<b>>) = 1 /\ e.failed = FALSE
    BY <1>1 DEF MemInv, MemTypes
  <2> QED BY <2>1 DEF Push
<1> HIDE DEF e
<1>4. Vector(u) /\ u.cur + u.size = u.reserved /\ p \in DOMAIN e.heap /\ DOMAIN old = 1 .. u.reserved
  BY <1>1 DEF MemInv, MemTypes, Owned, Layout
<1>5. /\ Vector(v) /\ v.buf = u.buf /\ v.allocator = u.allocator /\ v.own = u.own /\ v.reserved = u.reserved
      /\ v.cur + v.size = v.reserved /\ v.scratch <= v.cur
      /\ v.cur = u.cur - 1 /\ v.size = u.size + 1 /\ v.scratch = u.scratch
  <2> DEFINE c == u.cur - 1
             d == u.size + 1
  <2>1. v = [u EXCEPT !.cur = c, !.size = d] /\ c \in Nat /\ d \in Nat /\ c + d = u.reserved /\ u.scratch <= c
        /\ c = u.cur - 1 /\ d = u.size + 1
    BY <1>1, <1>4 DEF Vector
  <2> HIDE DEF u, v, c, d
  <2>2. /\ v.buf = u.buf /\ v.allocator = u.allocator /\ v.own = u.own /\ v.reserved = u.reserved
        /\ v.cur = c /\ v.size = d /\ v.scratch = u.scratch /\ v.initial = u.initial
        /\ v = [allocator |-> v.allocator, own |-> v.own, initial |-> v.initial, reserved |-> v.reserved,
                size |-> v.size, buf |-> v.buf, cur |-> v.cur, scratch |-> v.scratch]
    BY <1>4, <2>1 DEF Vector
  <2>3. Vector(v)
    BY <1>4, <2>1, <2>2 DEF Vector
  <2> QED BY <2>1, <2>2, <2>3
<1> HIDE DEF v
<1>6. /\ MemInv(s) /\ DOMAIN s.vec = DOMAIN e.vec /\ s.vec[o] = v /\ \A q \in DOMAIN e.vec \ {o} : s.vec[q] = e.vec[q]
      /\ s.heap = e.heap /\ s.finished = e.finished /\ s.held = e.held
  BY <1>1, <1>5, SetVectorKeeps
<1> HIDE DEF s
<1>7. /\ MemInv(n) /\ SameProgram(s, n) /\ n.vec = s.vec
      /\ \A q \in DOMAIN e.heap \ {p} : n.heap[q] = e.heap[q]
      /\ new = [i \in DOMAIN old |-> IF i - v.cur \in DOMAIN <<b>> THEN <<b>>[i - v.cur] ELSE old[i]]
  <2>1. o \in DOMAIN s.vec /\ s.vec[o].buf # Null /\ s.vec[o].buf = p
    BY <1>1, <1>5, <1>6
  <2> HIDE DEF p
  <2> QED BY <1>6, <2>1, StoredKeeps
<1> HIDE DEF n
<1>8. /\ DataInv(n) /\ \A q : q # o => Sees(e, n, q, q)
      /\ \A h \in Holder : KeptBy(n, h) = KeptBy(e, h)
  <2>1. /\ DOMAIN n.vec = DOMAIN e.vec /\ n.finished = e.finished /\ n.held = e.held
        /\ n.vec[o].buf = e.vec[o].buf /\ \A q \in DOMAIN e.vec \ {o} : n.vec[q] = e.vec[q]
    BY <1>1, <1>5, <1>6, <1>7 DEF SameProgram
  <2> HIDE DEF u
  <2> QED BY <1>1, <1>2, <1>7, <2>1, ElsewhereSeen DEF p, u
<1>9. DataOf(n, o) = [i \in 1 .. v.size |-> new[v.cur + i]] /\ NotesOf(n, o) = [i \in 1 .. v.scratch |-> new[i]]
  <2>1. o \in DOMAIN n.vec /\ n.vec[o] = v
    BY <1>1, <1>6, <1>7
  <2> QED BY <1>5, <2>1 DEF DataOf, NotesOf, Data, ScratchData
<1>10. DataOf(e, o) = [i \in 1 .. u.size |-> old[u.cur + i]] /\ NotesOf(e, o) = [i \in 1 .. u.scratch |-> old[i]]
  BY <1>1 DEF DataOf, NotesOf, Data, ScratchData
<1> HIDE DEF u, p, old, new
<1>11. new = [i \in 1 .. u.reserved |-> IF i = u.cur THEN b ELSE old[i]]
  <2>1. \A i \in 1 .. u.reserved : i - v.cur \in DOMAIN <<b>> <=> i = u.cur
    BY <1>4, <1>5 DEF Vector
  <2>2. \A i \in 1 .. u.reserved : i = u.cur => <<b>>[i - v.cur] = b
    BY <1>4, <1>5 DEF Vector
  <2> QED BY <1>4, <1>7, <2>1, <2>2
<1>12. NotesOf(n, o) = NotesOf(e, o)
  <2>1. \A i \in 1 .. u.scratch : i \in 1 .. u.reserved /\ i # u.cur
    BY <1>1, <1>4 DEF Vector
  <2> QED BY <1>5, <1>9, <1>10, <1>11, <2>1
<1>13. DataOf(n, o) = <<b>> \o DataOf(e, o)
  <2> DEFINE D == DataOf(e, o)
             E == DataOf(n, o)
  <2>1. /\ u.size \in Nat /\ u.cur \in Nat /\ u.cur > 0 /\ u.scratch \in Nat /\ u.reserved = u.cur + u.size
        /\ v.cur = u.cur - 1 /\ v.size = u.size + 1
    BY <1>1, <1>4, <1>5 DEF Vector
  <2>2. E[1] = b
    <3>1. v.cur + 1 = u.cur /\ u.cur \in 1 .. u.reserved /\ 1 \in 1 .. v.size
      BY <2>1
    <3> QED BY <1>9, <1>11, <3>1
  <2>3. ASSUME NEW i \in 2 .. u.size + 1 PROVE E[i] = D[i - 1]
    <3> DEFINE k == v.cur + i
               j == i - 1
    <3>1. k = u.cur + j /\ k \in 1 .. u.reserved /\ k # u.cur /\ i \in 1 .. v.size /\ j \in 1 .. u.size
      BY <2>1
    <3>2. E[i] = new[k] /\ D[j] = old[u.cur + j]
      BY <1>9, <1>10, <3>1
    <3> HIDE DEF k
    <3>3. new[k] = old[k]
      BY <1>11, <3>1
    <3> QED BY <3>1, <3>2, <3>3
  <2>4. E = [i \in 1 .. u.size + 1 |-> E[i]] /\ D = [i \in 1 .. u.size |-> D[i]]
    BY <1>9, <1>10, <2>1
  <2> HIDE DEF D, E
  <2>5. E = <<b>> \o D
    <3> DEFINE S == {D[i] : i \in 1 .. u.size}
    <3>1. D \in Seq(S) /\ Len(D) = u.size
      BY <2>1, <2>4, FunctionAsSequence
    <3>2. <<b>> \o D = [i \in 1 .. u.size + 1 |-> IF i = 1 THEN b ELSE D[i - 1]]
      BY <2>1, <3>1
    <3>3. \A i \in 1 .. u.size + 1 : E[i] = IF i = 1 THEN b ELSE D[i - 1]
      <4>1. \A i \in 1 .. u.size + 1 : i = 1 \/ i \in 2 .. u.size + 1
        BY <2>1
      <4> QED BY <2>2, <2>3, <4>1
    <3> QED BY <2>4, <3>2, <3>3
  <2> QED BY <2>5 DEF D, E
<1> QED
  <2>1. \A q : q # o => Sees(m, n, q, q)
    BY <1>2, <1>8 DEF Sees
  <2> QED BY <1>2, <1>3, <1>8, <1>12, <1>13, <2>1 DEF Sees

\* A note is appended to the scratch pad.
LEMMA ScratchPushSeen ==
  ASSUME Parameters, NEW m, MemInv(m), DataInv(m), NEW o \in DOMAIN m.vec, NotLent(m, o), NEW b
  PROVE  LET n == ScratchPush(m, o, b, MinAlign)
         IN  /\ DataInv(n) /\ \A q : q # o => Sees(m, n, q, q)
             /\ DataOf(n, o) = DataOf(m, o) /\ NotesOf(n, o) = Append(NotesOf(m, o), b)
             /\ \A h \in Holder : KeptBy(n, h) = KeptBy(m, h)
<1> DEFINE e == EnsureSpace(m, o, 1, MinAlign)
           u == e.vec[o]
           v == [u EXCEPT !.scratch = u.scratch + 1]
           s == SetVector(e, o, v)
           n == Stored(s, o, u.scratch, <<b>>)
           p == u.buf
           old == e.heap[p].bytes
           new == n.heap[p].bytes
<1>1. /\ MemInv(e) /\ DOMAIN e.vec = DOMAIN m.vec
      /\ u.scratch < u.cur /\ u.buf # Null
      /\ e.finished = m.finished /\ e.arena = m.arena /\ e.held = m.held
  BY EnsureSpaceKeeps
<1>2. /\ DataInv(e) /\ \A q : Sees(m, e, q, q)
      /\ \A h \in Holder : KeptBy(e, h) = KeptBy(m, h)
      /\ NotLent(e, o)
  BY EnsureSpaceSeen
<1>3. ScratchPush(m, o, b, MinAlign) = n
  <2>1. e.failed = FALSE
    BY <1>1 DEF MemInv, MemTypes
  <2> QED BY <2>1 DEF ScratchPush
<1> HIDE DEF e
<1>4. Vector(u) /\ u.cur + u.size = u.reserved /\ p \in DOMAIN e.heap /\ DOMAIN old = 1 .. u.reserved
  BY <1>1 DEF MemInv, MemTypes, Owned, Layout
<1>5. /\ Vector(v) /\ v.buf = u.buf /\ v.allocator = u.allocator /\ v.own = u.own /\ v.reserved = u.reserved
      /\ v.cur + v.size = v.reserved /\ v.scratch <= v.cur
      /\ v.cur = u.cur /\ v.size = u.size /\ v.scratch = u.scratch + 1
  <2> DEFINE c == u.scratch + 1
  <2>1. v = [u EXCEPT !.scratch = c] /\ c \in Nat /\ c <= u.cur /\ c = u.scratch + 1
    BY <1>1, <1>4 DEF Vector
  <2> HIDE DEF u, v, c
  <2>2. /\ v.buf = u.buf /\ v.allocator = u.allocator /\ v.own = u.own /\ v.reserved = u.reserved
        /\ v.cur = u.cur /\ v.size = u.size /\ v.scratch = c /\ v.initial = u.initial
        /\ v = [allocator |-> v.allocator, own |-> v.own, initial |-> v.initial, reserved |-> v.reserved,
                size |-> v.size, buf |-> v.buf, cur |-> v.cur, scratch |-> v.scratch]
    BY <1>4, <2>1 DEF Vector
  <2>3. Vector(v)
    BY <1>4, <2>1, <2>2 DEF Vector
  <2> QED BY <1>4, <2>1, <2>2, <2>3
<1> HIDE DEF v
<1>6. /\ MemInv(s) /\ DOMAIN s.vec = DOMAIN e.vec /\ s.vec[o] = v /\ \A q \in DOMAIN e.vec \ {o} : s.vec[q] = e.vec[q]
      /\ s.heap = e.heap /\ s.finished = e.finished /\ s.held = e.held
  BY <1>1, <1>5, SetVectorKeeps
<1> HIDE DEF s
<1>7. /\ MemInv(n) /\ SameProgram(s, n) /\ n.vec = s.vec
      /\ \A q \in DOMAIN e.heap \ {p} : n.heap[q] = e.heap[q]
      /\ new = [i \in DOMAIN old |-> IF i - u.scratch \in DOMAIN <<b>> THEN <<b>>[i - u.scratch] ELSE old[i]]
  <2>1. o \in DOMAIN s.vec /\ s.vec[o].buf # Null /\ s.vec[o].buf = p
    BY <1>1, <1>5, <1>6
  <2> HIDE DEF p
  <2> QED BY <1>6, <2>1, StoredKeeps
<1> HIDE DEF n
<1>8. /\ DataInv(n) /\ \A q : q # o => Sees(e, n, q, q)
      /\ \A h \in Holder : KeptBy(n, h) = KeptBy(e, h)
  <2>1. /\ DOMAIN n.vec = DOMAIN e.vec /\ n.finished = e.finished /\ n.held = e.held
        /\ n.vec[o].buf = e.vec[o].buf /\ \A q \in DOMAIN e.vec \ {o} : n.vec[q] = e.vec[q]
    BY <1>1, <1>5, <1>6, <1>7 DEF SameProgram
  <2> HIDE DEF u
  <2> QED BY <1>1, <1>2, <1>7, <2>1, ElsewhereSeen DEF p, u
<1>9. DataOf(n, o) = [i \in 1 .. u.size |-> new[u.cur + i]] /\ NotesOf(n, o) = [i \in 1 .. u.scratch + 1 |-> new[i]]
  <2>1. o \in DOMAIN n.vec /\ n.vec[o] = v
    BY <1>1, <1>6, <1>7
  <2> QED BY <1>5, <2>1 DEF DataOf, NotesOf, Data, ScratchData
<1>10. DataOf(e, o) = [i \in 1 .. u.size |-> old[u.cur + i]] /\ NotesOf(e, o) = [i \in 1 .. u.scratch |-> old[i]]
  BY <1>1 DEF DataOf, NotesOf, Data, ScratchData
<1> HIDE DEF u, p, old, new
<1>11. /\ u.size \in Nat /\ u.cur \in Nat /\ u.scratch \in Nat /\ u.scratch < u.cur /\ u.reserved = u.cur + u.size
  BY <1>1, <1>4 DEF Vector
<1>12. new = [i \in 1 .. u.reserved |-> IF i = u.scratch + 1 THEN b ELSE old[i]]
  <2>1. \A i \in 1 .. u.reserved : i - u.scratch \in DOMAIN <<b>> <=> i = u.scratch + 1
    BY <1>11
  <2>2. \A i \in 1 .. u.reserved : i = u.scratch + 1 => <<b>>[i - u.scratch] = b
    BY <1>11
  <2> QED BY <1>4, <1>7, <2>1, <2>2
<1>13. DataOf(n, o) = DataOf(e, o)
  <2>1. ASSUME NEW i \in 1 .. u.size PROVE new[u.cur + i] = old[u.cur + i]
    <3> DEFINE k == u.cur + i
    <3>1. k \in 1 .. u.reserved /\ k # u.scratch + 1
      BY <1>11
    <3> HIDE DEF k
    <3>2. new[k] = old[k]
      BY <1>12, <3>1
    <3> QED BY <3>2 DEF k
  <2> QED BY <1>9, <1>10, <2>1
<1>14. NotesOf(n, o) = Append(NotesOf(e, o), b)
  <2> DEFINE D == NotesOf(e, o)
             E == NotesOf(n, o)
             k == u.scratch + 1
  <2>1. \A i \in 1 .. u.scratch : i \in 1 .. u.reserved /\ i # k /\ i \in 1 .. k
    BY <1>11
  <2>2. k \in 1 .. u.reserved /\ k \in 1 .. k /\ k \in Nat /\ k = u.scratch + 1
    BY <1>11
  <2>3. E = [i \in 1 .. k |-> new[i]] /\ new = [i \in 1 .. u.reserved |-> IF i = k THEN b ELSE old[i]]
        /\ D = [i \in 1 .. u.scratch |-> old[i]]
    BY <1>9, <1>10, <1>12
  <2> HIDE DEF D, E, k
  <2>4. D = [i \in 1 .. u.scratch |-> D[i]]
    BY <2>3
  <2>5. \A i \in 1 .. u.scratch : E[i] = D[i]
    BY <2>1, <2>3
  <2>6. E[k] = b
    BY <2>2, <2>3
  <2>7. D \in Seq({D[i] : i \in 1 .. u.scratch}) /\ Len(D) = u.scratch
    BY <1>11, <2>4, FunctionAsSequence
  <2>8. Append(D, b) = [i \in 1 .. k |-> IF i = k THEN b ELSE D[i]]
    <3> DEFINE S == {D[i] : i \in 1 .. u.scratch} \cup {b}
    <3>1. D \in Seq(S) /\ b \in S /\ Len(D) + 1 = k
      BY <1>11, <2>2, <2>7
    <3> HIDE DEF S, k
    <3>2. /\ Append(D, b) \in Seq(S) /\ Len(Append(D, b)) = k
          /\ \A i \in 1 .. Len(D) : Append(D, b)[i] = D[i]
          /\ Append(D, b)[k] = b
      BY <3>1, AppendProperties
    <3>3. Append(D, b) = [i \in 1 .. k |-> Append(D, b)[i]]
      <4> DEFINE A == Append(D, b)
      <4>1. A \in Seq(S) /\ Len(A) = k
        BY <3>2
      <4> HIDE DEF A
      <4>2. DOMAIN A = 1 .. k /\ A \in [1 .. k -> S]
        BY <4>1, LenProperties
      <4>3. A = [i \in 1 .. k |-> A[i]]
        BY <4>2
      <4> QED BY <4>3 DEF A
    <3>4. \A i \in 1 .. k : Append(D, b)[i] = IF i = k THEN b ELSE D[i]
      BY <1>11, <2>2, <2>7, <3>2
    <3> QED BY <3>3, <3>4
  <2>9. \A i \in 1 .. k : E[i] = IF i = k THEN b ELSE D[i]
    <3>1. \A i \in 1 .. k : i = k \/ i \in 1 .. u.scratch
      BY <1>11, <2>2
    <3> QED BY <2>5, <2>6, <3>1
  <2>10. E = [i \in 1 .. k |-> E[i]]
    BY <2>3
  <2> QED BY <2>8, <2>9, <2>10 DEF D, E
<1> QED
  <2>1. \A q : q # o => Sees(m, n, q, q)
    BY <1>2, <1>8 DEF Sees
  <2> QED BY <1>2, <1>3, <1>8, <1>13, <1>14, <2>1 DEF Sees

\* What is taken back is the front of the data.
LEMMA PopSeen ==
  ASSUME NEW m, MemInv(m), DataInv(m), NEW o \in DOMAIN m.vec, NotLent(m, o), m.vec[o].size > 0
  PROVE  LET n == Pop(m, o, 1)
         IN  /\ DataInv(n) /\ \A q : q # o => Sees(m, n, q, q)
             /\ DataOf(m, o) # <<>> /\ DataOf(n, o) = Tail(DataOf(m, o)) /\ NotesOf(n, o) = NotesOf(m, o)
             /\ \A h \in Holder : KeptBy(n, h) = KeptBy(m, h)
<1> DEFINE u == m.vec[o]
           v == [u EXCEPT !.cur = u.cur + 1, !.size = u.size - 1]
           n == SetVector(m, o, v)
           old == m.heap[u.buf].bytes
<1>1. Pop(m, o, 1) = n
  BY DEF Pop
<1>3. Vector(u) /\ u.cur + u.size = u.reserved /\ u.scratch <= u.cur
  BY DEF MemInv, MemTypes, Owned, Layout
<1>4. /\ Vector(v) /\ v.buf = u.buf /\ v.allocator = u.allocator /\ v.own = u.own /\ v.reserved = u.reserved
      /\ v.cur + v.size = v.reserved /\ v.scratch <= v.cur
      /\ v.cur = u.cur + 1 /\ v.size = u.size - 1 /\ v.scratch = u.scratch
  <2> DEFINE c == u.cur + 1
             d == u.size - 1
  <2>1. v = [u EXCEPT !.cur = c, !.size = d] /\ c \in Nat /\ d \in Nat /\ c + d = u.reserved /\ u.scratch <= c
        /\ c = u.cur + 1 /\ d = u.size - 1
    BY <1>3 DEF Vector
  <2> HIDE DEF u, v, c, d
  <2>2. /\ v.buf = u.buf /\ v.allocator = u.allocator /\ v.own = u.own /\ v.reserved = u.reserved
        /\ v.cur = c /\ v.size = d /\ v.scratch = u.scratch /\ v.initial = u.initial
        /\ v = [allocator |-> v.allocator, own |-> v.own, initial |-> v.initial, reserved |-> v.reserved,
                size |-> v.size, buf |-> v.buf, cur |-> v.cur, scratch |-> v.scratch]
    BY <1>3, <2>1 DEF Vector
  <2>3. Vector(v)
    BY <1>3, <2>1, <2>2 DEF Vector
  <2> QED BY <2>1, <2>2, <2>3
<1> HIDE DEF v
<1>5. /\ MemInv(n) /\ DOMAIN n.vec = DOMAIN m.vec /\ n.vec[o] = v /\ \A q \in DOMAIN m.vec \ {o} : n.vec[q] = m.vec[q]
      /\ n.heap = m.heap /\ n.finished = m.finished /\ n.held = m.held
  BY <1>4, SetVectorKeeps
<1> HIDE DEF n
<1>6. /\ DataInv(n) /\ \A q : q # o => Sees(m, n, q, q)
      /\ \A h \in Holder : KeptBy(n, h) = KeptBy(m, h)
  BY <1>4, <1>5, ElsewhereSeen
<1>7. DataOf(n, o) = [i \in 1 .. v.size |-> old[v.cur + i]] /\ NotesOf(n, o) = [i \in 1 .. v.scratch |-> old[i]]
  BY <1>4, <1>5 DEF DataOf, NotesOf, Data, ScratchData
<1>8. DataOf(m, o) = [i \in 1 .. u.size |-> old[u.cur + i]] /\ NotesOf(m, o) = [i \in 1 .. u.scratch |-> old[i]]
  BY DEF DataOf, NotesOf, Data, ScratchData
<1> HIDE DEF old
<1>9. DataOf(m, o) # <<>> /\ DataOf(n, o) = Tail(DataOf(m, o))
  <2> DEFINE D == DataOf(m, o)
             E == DataOf(n, o)
  <2>1. u.size \in Nat /\ u.size > 0 /\ u.cur \in Nat
    BY <1>3 DEF Vector
  <2>2. \A i \in 1 .. u.size - 1 : E[i] = D[i + 1]
    <3> SUFFICES ASSUME NEW i \in 1 .. u.size - 1 PROVE E[i] = D[i + 1]
      OBVIOUS
    <3> DEFINE j == i + 1
    <3>1. j \in 1 .. u.size /\ i \in 1 .. v.size /\ v.cur + i = u.cur + j
      BY <1>4, <2>1
    <3>2. E[i] = old[v.cur + i] /\ D[j] = old[u.cur + j]
      BY <1>7, <1>8, <3>1
    <3> QED BY <3>1, <3>2
  <2>3. D = [i \in 1 .. u.size |-> D[i]] /\ E = [i \in 1 .. u.size - 1 |-> E[i]]
    BY <1>4, <1>7, <1>8
  <2> HIDE DEF D, E
  <2>4. D \in Seq({D[i] : i \in 1 .. u.size}) /\ Len(D) = u.size
    BY <2>1, <2>3, FunctionAsSequence
  <2>5. D # <<>>
    BY <2>1, <2>4
  <2>6. Tail(D) = [i \in 1 .. u.size - 1 |-> D[i + 1]]
    <3> DEFINE S == {D[i] : i \in 1 .. u.size}
    <3>1. D \in Seq(S) /\ Len(D) = u.size
      BY <2>4
    <3> HIDE DEF S
    <3>2. /\ Tail(D) \in Seq(S) /\ Len(Tail(D)) = u.size - 1
          /\ \A i \in 1 .. Len(Tail(D)) : Tail(D)[i] = D[i + 1]
      BY <2>5, <3>1, HeadTailProperties
    <3> DEFINE T == Tail(D)
    <3> HIDE DEF T
    <3>3. T = [i \in 1 .. u.size - 1 |-> T[i]]
      <4>1. T \in Seq(S) /\ Len(T) = u.size - 1
        BY <3>2 DEF T
      <4>2. DOMAIN T = 1 .. u.size - 1 /\ T \in [1 .. u.size - 1 -> S]
        BY <4>1, LenProperties
      <4> QED BY <4>2
    <3>4. \A i \in 1 .. u.size - 1 : T[i] = D[i + 1]
      BY <3>2 DEF T
    <3> QED BY <3>3, <3>4 DEF T
  <2>7. E = Tail(D)
    BY <2>2, <2>3, <2>6
  <2> QED BY <2>5, <2>7 DEF D, E
<1> QED BY <1>1, <1>4, <1>6, <1>7, <1>8, <1>9

\* A vector that is unchanged, or has been taken over from another, shows the same.
LEMMA TakenSeen ==
  ASSUME NEW m, MemInv(m), NEW n, MemInv(n), Frozen(m, n), NEW q \in DOMAIN n.vec, NEW r \in DOMAIN m.vec,
         SameStorage(n.vec[q], m.vec[r])
  PROVE  Sees(m, n, q, r)
<1>1. m.vec[r].buf # Null => m.vec[r].buf \in DOMAIN n.heap
  BY DEF MemInv, Owned, Layout, SameStorage
<1>2. m.vec[r].buf # Null => n.heap[m.vec[r].buf].bytes = m.heap[m.vec[r].buf].bytes
  BY <1>1 DEF Frozen
<1> QED BY <1>2, SameStorageSeen DEF MemInv, Owned

\* The same of what a holder has.
LEMMA HoldingSeen ==
  ASSUME NEW m, MemInv(m), HeldSpan(m), NEW n, MemInv(n), Frozen(m, n), NEW h \in Holder, NEW g \in Holder, n.held[h] = m.held[g]
  PROVE  /\ KeptBy(n, h) = KeptBy(m, g)
         /\ n.held[h].buf # Null => n.held[h].buf \in DOMAIN n.heap /\ n.heap[n.held[h].buf].bytes = m.heap[m.held[g].buf].bytes
<1>1. n.held[h].buf # Null => n.held[h].buf \in DOMAIN n.heap
  BY PointersOfHeld DEF MemInv
<1>2. n.held[h].buf # Null => n.heap[n.held[h].buf].bytes = m.heap[m.held[g].buf].bytes
  BY <1>1 DEF Frozen
<1>3. /\ n.held[h].buf = m.held[g].buf /\ n.held[h].size = m.held[g].size /\ n.held[h].cur = m.held[g].cur
      /\ m.held[g].buf # Null => n.heap[m.held[g].buf].bytes = m.heap[m.held[g].buf].bytes
  BY <1>2
<1>4. KeptBy(n, h) = KeptBy(m, g)
  <2> DEFINE d == m.held[g]
  <2>1. /\ KeptBy(n, h) = [i \in 1 .. d.size |-> n.heap[d.buf].bytes[d.cur + i]]
        /\ KeptBy(m, g) = [i \in 1 .. d.size |-> m.heap[d.buf].bytes[d.cur + i]]
    BY DEF KeptBy
  <2>2. d.buf = Null => d.size = 0
    BY DEF HeldSpan
  <2>3. d.buf # Null => n.heap[d.buf].bytes = m.heap[d.buf].bytes
    BY <1>3
  <2> HIDE DEF d
  <2>4. CASE d.buf = Null
    <3>1. 1 .. d.size = {}
      BY <2>2, <2>4
    <3> QED BY <2>1, <3>1
  <2>5. CASE d.buf # Null
    BY <2>1, <2>3, <2>5
  <2> QED BY <2>4, <2>5
<1> QED BY <1>1, <1>2, <1>4

LEMMA HoldersSeen ==
  ASSUME NEW m, MemInv(m), HeldSpan(m), NEW n, MemInv(n), Frozen(m, n), n.held = m.held
  PROVE  HeldSpan(n) /\ \A h \in Holder : KeptBy(n, h) = KeptBy(m, h)
<1>1. ASSUME NEW h \in Holder
      PROVE  /\ KeptBy(n, h) = KeptBy(m, h)
             /\ n.held[h].buf # Null => n.heap[n.held[h].buf].bytes = m.heap[m.held[h].buf].bytes
  BY HoldingSeen
<1> QED BY <1>1 DEF HeldSpan

\* A vector that is new has nothing.
LEMMA AddedSeen ==
  ASSUME NEW m, MemInv(m), DataInv(m), NEW n, MemInv(n), NEW o, o \notin DOMAIN m.vec,
         DOMAIN n.vec = DOMAIN m.vec \cup {o}, \A q \in DOMAIN m.vec : n.vec[q] = m.vec[q],
         n.vec[o].buf = Null, n.vec[o].size = 0, n.vec[o].scratch = 0,
         n.finished = m.finished, n.held = m.held, n.heap = m.heap
  PROVE  /\ DataInv(n) /\ Blank(n, o) /\ \A q : Sees(m, n, q, q)
         /\ \A h \in Holder : KeptBy(n, h) = KeptBy(m, h)
<1>1. Frozen(m, n)
  BY DEF Frozen
<1>2. HeldSpan(n) /\ \A h \in Holder : KeptBy(n, h) = KeptBy(m, h)
  BY <1>1, HoldersSeen DEF DataInv
<1>3. Apart(n) /\ LentFinished(n)
  BY DEF DataInv, Apart, LentFinished
<1>4. Blank(n, o) /\ Blank(m, o)
  BY NothingSeen
<1>5. ASSUME NEW q PROVE Sees(m, n, q, q)
  <2>1. CASE q \in DOMAIN m.vec
    <3>1. SameStorage(n.vec[q], m.vec[q])
      BY <2>1 DEF SameStorage
    <3> QED BY <1>1, <2>1, <3>1, TakenSeen
  <2>2. CASE q = o
    BY <1>4, <2>2 DEF Sees, Blank
  <2>3. CASE q \notin DOMAIN n.vec
    BY <2>3 DEF Sees, DataOf, NotesOf
  <2> QED BY <2>1, <2>2, <2>3
<1> QED BY <1>2, <1>3, <1>4, <1>5 DEF DataInv

\* A vector that has been emptied, or is gone.
LEMMA EmptiedSeen ==
  ASSUME NEW m, MemInv(m), DataInv(m), NEW n, MemInv(n), NEW o \in DOMAIN m.vec, Frozen(m, n),
         DOMAIN n.vec \in {DOMAIN m.vec, DOMAIN m.vec \ {o}}, \A q \in DOMAIN n.vec \ {o} : n.vec[q] = m.vec[q],
         o \in DOMAIN n.vec => n.vec[o].size = 0 /\ n.vec[o].scratch = 0,
         o \in DOMAIN n.vec => n.vec[o].buf = Null \/ (NotLent(m, o) /\ n.vec[o].buf = m.vec[o].buf),
         m.finished \ {o} \subseteq n.finished, n.held = m.held
  PROVE  /\ DataInv(n) /\ Blank(n, o) /\ \A q : q # o => Sees(m, n, q, q)
         /\ \A h \in Holder : KeptBy(n, h) = KeptBy(m, h)
<1>1. HeldSpan(n) /\ \A h \in Holder : KeptBy(n, h) = KeptBy(m, h)
  BY HoldersSeen DEF DataInv
<1>2. Apart(n)
  BY DEF DataInv, Apart
<1>3. LentFinished(n)
  BY DEF DataInv, LentFinished, NotLent
<1>4. Blank(n, o)
  BY NothingSeen
<1>5. ASSUME NEW q, q # o PROVE Sees(m, n, q, q)
  <2>1. CASE q \in DOMAIN n.vec
    <3>1. SameStorage(n.vec[q], m.vec[q]) /\ q \in DOMAIN m.vec
      BY <1>5, <2>1 DEF SameStorage
    <3> QED BY <2>1, <3>1, TakenSeen
  <2>2. CASE q \notin DOMAIN n.vec
    BY <1>5, <2>2 DEF Sees, DataOf, NotesOf
  <2> QED BY <2>1, <2>2
<1> QED BY <1>1, <1>2, <1>3, <1>4, <1>5 DEF DataInv

\* Two vectors exchange what they have.
LEMMA ExchangedSeen ==
  ASSUME NEW m, MemInv(m), DataInv(m), NEW n, MemInv(n), NEW o \in DOMAIN m.vec, NEW p \in DOMAIN m.vec, o # p, Frozen(m, n),
         Exchanged(m, n, o, p), n.held = m.held
  PROVE  /\ DataInv(n) /\ Sees(m, n, o, p) /\ Sees(m, n, p, o) /\ \A q : q \notin {o, p} => Sees(m, n, q, q)
         /\ \A h \in Holder : KeptBy(n, h) = KeptBy(m, h)
<1>1. HeldSpan(n) /\ \A h \in Holder : KeptBy(n, h) = KeptBy(m, h)
  BY HoldersSeen DEF DataInv
<1>2. n.vec[o].buf = m.vec[p].buf /\ n.vec[p].buf = m.vec[o].buf
  BY DEF Exchanged, SameStorage
<1>3. Apart(n)
  BY <1>2 DEF DataInv, Apart, Exchanged
<1>4. LentFinished(n)
  BY <1>2 DEF DataInv, LentFinished, Exchanged, FinishedExchanged
<1>5. Sees(m, n, o, p) /\ Sees(m, n, p, o)
  <2>1. o \in DOMAIN n.vec /\ p \in DOMAIN n.vec /\ SameStorage(n.vec[o], m.vec[p]) /\ SameStorage(n.vec[p], m.vec[o])
    BY DEF Exchanged
  <2> QED BY <2>1, TakenSeen
<1>6. ASSUME NEW q, q \notin {o, p} PROVE Sees(m, n, q, q)
  <2>1. CASE q \in DOMAIN n.vec
    <3>1. SameStorage(n.vec[q], m.vec[q]) /\ q \in DOMAIN m.vec
      BY <1>6, <2>1 DEF Exchanged, SameStorage
    <3> QED BY <2>1, <3>1, TakenSeen
  <2>2. CASE q \notin DOMAIN n.vec
    BY <2>2 DEF Exchanged, Sees, DataOf, NotesOf
  <2> QED BY <2>1, <2>2
<1> QED BY <1>1, <1>3, <1>4, <1>5, <1>6 DEF DataInv

\* What o shows is in holder h's hands, for good or as long as o is finished.
LEMMA HandedSeen ==
  ASSUME NEW m, MemInv(m), DataInv(m), NEW n, MemInv(n), NEW o \in DOMAIN m.vec, NEW h \in Holder, Frozen(m, n),
         DOMAIN n.vec = DOMAIN m.vec, \A q \in DOMAIN m.vec \ {o} : n.vec[q] = m.vec[q],
         \/ n.vec[o] = m.vec[o] /\ o \in n.finished
         \/ n.vec[o].buf = Null /\ n.vec[o].size = 0 /\ n.vec[o].scratch = 0,
         m.finished \ {o} \subseteq n.finished, \A g \in Holder \ {h} : n.held[g] = m.held[g],
         n.held[h].buf = m.vec[o].buf, n.held[h].size = m.vec[o].size, n.held[h].cur = m.vec[o].cur,
         n.held[h].reserved = m.vec[o].reserved
  PROVE  /\ DataInv(n) /\ KeptBy(n, h) = DataOf(m, o) /\ \A g \in Holder \ {h} : KeptBy(n, g) = KeptBy(m, g)
         /\ IF n.vec[o] = m.vec[o] THEN Sees(m, n, o, o) ELSE Blank(n, o)
         /\ \A q : q # o => Sees(m, n, q, q)
<1> DEFINE v == m.vec[o]
           d == n.held[h]
<1>1. /\ v.size \in Nat /\ v.cur \in Nat /\ v.cur + v.size = v.reserved
      /\ v.buf = Null => v.size = 0
      /\ v.buf # Null => v.buf \in DOMAIN m.heap /\ DOMAIN m.heap[v.buf].bytes = 1 .. v.reserved
  <2>1. Vector(v) /\ v.cur + v.size = v.reserved /\ (v.buf = Null => v.reserved = 0)
        /\ (v.buf # Null => v.buf \in DOMAIN m.heap /\ DOMAIN m.heap[v.buf].bytes = 1 .. v.reserved)
    BY DEF MemInv, MemTypes, Owned, Layout
  <2> QED BY <2>1 DEF Vector
<1>2. v.buf # Null => v.buf \in DOMAIN n.heap /\ n.heap[v.buf].bytes = m.heap[v.buf].bytes
  <2>1. v.buf # Null => v.buf \in DOMAIN n.heap
    BY PointersOfHeld DEF MemInv
  <2> QED BY <2>1 DEF Frozen
<1>3. ASSUME NEW g \in Holder \ {h}
      PROVE  /\ KeptBy(n, g) = KeptBy(m, g)
             /\ n.held[g].buf # Null => n.heap[n.held[g].buf].bytes = m.heap[m.held[g].buf].bytes
  BY HoldingSeen DEF DataInv
<1>4. HeldSpan(n)
  <2>1. /\ d.size \in Nat /\ d.cur \in Nat
        /\ d.buf = Null => d.size = 0
        /\ d.buf # Null => d.cur + d.size = d.reserved /\ DOMAIN n.heap[d.buf].bytes = 1 .. d.reserved
    BY <1>1, <1>2
  <2> QED BY <1>3, <2>1 DEF DataInv, HeldSpan
<1>5. KeptBy(n, h) = DataOf(m, o)
  <2>1. KeptBy(n, h) = [i \in 1 .. v.size |-> n.heap[v.buf].bytes[v.cur + i]] /\ DataOf(m, o) = [i \in 1 .. v.size |-> m.heap[v.buf].bytes[v.cur + i]]
    BY DEF KeptBy, DataOf, Data
  <2>2. CASE v.buf = Null
    <3>1. 1 .. v.size = {}
      BY <1>1, <2>2
    <3> QED BY <2>1, <3>1
  <2>3. CASE v.buf # Null
    BY <1>2, <2>1, <2>3
  <2> QED BY <2>2, <2>3
<1>6. Apart(n)
  BY DEF DataInv, Apart
<1>7. LentFinished(n)
  BY DEF DataInv, Apart, LentFinished
<1>8. IF n.vec[o] = m.vec[o] THEN Sees(m, n, o, o) ELSE Blank(n, o)
  <2>1. CASE n.vec[o] = m.vec[o]
    <3>1. SameStorage(n.vec[o], m.vec[o])
      BY <2>1 DEF SameStorage
    <3> QED BY <2>1, <3>1, TakenSeen
  <2>2. CASE n.vec[o] # m.vec[o]
    BY <2>2, NothingSeen
  <2> QED BY <2>1, <2>2
<1>9. ASSUME NEW q, q # o PROVE Sees(m, n, q, q)
  <2>1. CASE q \in DOMAIN n.vec
    <3>1. SameStorage(n.vec[q], m.vec[q]) /\ q \in DOMAIN m.vec
      BY <1>9, <2>1 DEF SameStorage
    <3> QED BY <2>1, <3>1, TakenSeen
  <2>2. CASE q \notin DOMAIN n.vec
    BY <2>2 DEF Sees, DataOf, NotesOf
  <2> QED BY <2>1, <2>2
<1> QED BY <1>3, <1>4, <1>5, <1>6, <1>7, <1>8, <1>9 DEF DataInv

\* Holders pass on what they have, or let it go.
LEMMA PassedSeen ==
  ASSUME NEW m, MemInv(m), DataInv(m), NEW n, MemInv(n), Frozen(m, n), n.vec = m.vec, n.finished = m.finished,
         \A x \in Holder : n.held[x] = NoBuffer \/ \E y \in Holder : n.held[x] = m.held[y]
  PROVE  /\ DataInv(n) /\ \A q : Sees(m, n, q, q)
         /\ \A x \in Holder : n.held[x] = NoBuffer => KeptBy(n, x) = <<>>
         /\ \A x, y \in Holder : n.held[x] = m.held[y] => KeptBy(n, x) = KeptBy(m, y)
<1>1. ASSUME NEW x \in Holder, NEW y \in Holder, n.held[x] = m.held[y]
      PROVE  /\ KeptBy(n, x) = KeptBy(m, y)
             /\ n.held[x].buf # Null => n.heap[n.held[x].buf].bytes = m.heap[m.held[y].buf].bytes
  BY <1>1, HoldingSeen DEF DataInv
<1>2. NoBuffer.buf = Null /\ NoBuffer.size = 0 /\ NoBuffer.cur = 0
  BY DEF NoBuffer
<1>3. ASSUME NEW x \in Holder, n.held[x] = NoBuffer PROVE KeptBy(n, x) = <<>>
  <2>1. KeptBy(n, x) = [i \in 1 .. 0 |-> n.heap[Null].bytes[0 + i]]
    BY <1>2, <1>3 DEF KeptBy
  <2>2. 1 .. 0 = {}
    OBVIOUS
  <2> QED BY <2>1, <2>2
<1>4. Apart(n)
  BY DEF DataInv, Apart
<1>5. LentFinished(n)
  BY <1>2 DEF DataInv, LentFinished
<1>6. HeldSpan(n)
  <2> SUFFICES ASSUME NEW x \in Holder
               PROVE  /\ n.held[x].size \in Nat /\ n.held[x].cur \in Nat
                      /\ n.held[x].buf = Null => n.held[x].size = 0
                      /\ n.held[x].buf # Null => /\ n.held[x].cur + n.held[x].size = n.held[x].reserved
                                                 /\ DOMAIN n.heap[n.held[x].buf].bytes = 1 .. n.held[x].reserved
    BY DEF HeldSpan
  <2>1. CASE n.held[x] = NoBuffer
    BY <1>2, <2>1
  <2>2. CASE \E y \in Holder : n.held[x] = m.held[y]
    BY <1>1, <2>2 DEF DataInv, HeldSpan
  <2> QED BY <2>1, <2>2
<1>7. ASSUME NEW q PROVE Sees(m, n, q, q)
  <2>1. CASE q \in DOMAIN n.vec
    <3>1. SameStorage(n.vec[q], m.vec[q]) /\ q \in DOMAIN m.vec
      BY <2>1 DEF SameStorage
    <3> QED BY <2>1, <3>1, TakenSeen
  <2>2. CASE q \notin DOMAIN n.vec
    BY <2>2 DEF Sees, DataOf, NotesOf
  <2> QED BY <2>1, <2>2
<1> QED BY <1>1, <1>3, <1>4, <1>5, <1>6, <1>7 DEF DataInv

-----------------------------------------------------------------------------
(* What the operations show.                                                *)

SameKept(m, n) == \A h \in Holder : KeptBy(n, h) = KeptBy(m, h)

\* In n, o shows what p showed in m, and p shows nothing.
TakenOver(m, n, o, p) ==
  /\ MemInv(n) /\ DataInv(n) /\ Sees(m, n, o, p) /\ Blank(n, p)
  /\ (\A q \in Object \ {o, p} : Sees(m, n, q, q)) /\ SameKept(m, n)

\* A builder that is not finished has its block for itself, and so has one that may be cleared.
LEMMA InUseNotLent ==
  ASSUME NEW m, LentFinished(m), NEW o \in DOMAIN m.vec, o \notin m.finished
  PROVE  NotLent(m, o)
  BY DEF LentFinished, NotLent

LEMMA ClearedNotLent ==
  ASSUME Parameters, Inv, NEW o \in Object, Live(o), ~Lent(o)
  PROVE  NotLent(mem, o)
<1>1. MemTypes(mem) /\ Owned(mem) /\ o \in DOMAIN mem.vec
  BY DEF Inv, MemInv, Live
<1>2. CASE o \in MessageBuilder
  <2>1. mem.vec[o].buf = mem.slice[o]
    BY <1>1, <1>2 DEF Owned, MsgOwn, Msg
  <2> QED BY <1>2, <2>1 DEF Lent, NotLent
<1>3. CASE o \in Builder
  <2> SUFFICES ASSUME NEW h \in Holder, mem.held[h].buf # Null, mem.held[h].buf = mem.vec[o].buf PROVE FALSE
    BY DEF NotLent
  <2>1. /\ ~mem.heap[mem.vec[o].buf].counted /\ (mem.held[h].kind # "slice" => mem.held[h].buf # mem.vec[o].buf)
    BY <1>1, <1>3 DEF Owned, PlainOwn, Plain
  <2>2. mem.held[h].kind = "slice" /\ mem.heap[mem.held[h].buf].counted
    BY <1>1, <2>1, PointersOfHeld
  <2> QED BY <2>1, <2>2
<1> QED BY <1>2, <1>3 DEF Object

\* A builder that is new.
LEMMA ConstructSeen ==
  ASSUME Parameters, NEW m, MemInv(m), DataInv(m), NEW n, MemInv(n), NEW o, o \notin DOMAIN m.vec, NEW a, NEW own,
         DOMAIN n.vec = DOMAIN m.vec \cup {o}, n.vec[o] = NewVector(a, own, InitialSize),
         \A q \in DOMAIN m.vec : n.vec[q] = m.vec[q], n.heap = m.heap, n.finished = m.finished, n.held = m.held
  PROVE  DataInv(n) /\ Blank(n, o) /\ SameKept(m, n) /\ \A q : Sees(m, n, q, q)
<1>1. n.vec[o].buf = Null /\ n.vec[o].size = 0 /\ n.vec[o].scratch = 0
  BY DEF NewVector
<1> QED BY <1>1, AddedSeen DEF SameKept

\* A new one that changes places with p.
LEMMA NewExchanged ==
  ASSUME NEW m, NEW c, NEW n, NEW o, NEW p \in DOMAIN c.vec, o # p, o \in DOMAIN c.vec,
         MemInv(c), DataInv(c), Blank(c, o), SameKept(m, c), \A q : Sees(m, c, q, q),
         MemInv(n), Exchanged(c, n, o, p), Frozen(c, n), n.held = c.held
  PROVE  TakenOver(m, n, o, p)
<1>1. /\ DataInv(n) /\ Sees(c, n, o, p) /\ Sees(c, n, p, o) /\ \A q : q \notin {o, p} => Sees(c, n, q, q)
      /\ \A h \in Holder : KeptBy(n, h) = KeptBy(c, h)
  BY ExchangedSeen
<1>2. Sees(m, n, o, p) /\ Blank(n, p) /\ \A q \in Object \ {o, p} : Sees(m, n, q, q)
  BY <1>1 DEF Sees, Blank
<1>3. SameKept(m, n)
  BY <1>1 DEF SameKept
<1> QED BY <1>1, <1>2, <1>3 DEF TakenOver

LEMMA MoveConstructSeen ==
  ASSUME Parameters, NEW m, MemInv(m), DataInv(m), NEW o \in Plain, o \notin DOMAIN m.vec, NEW p \in DOMAIN m.vec \cap Plain
  PROVE  TakenOver(m, MoveConstruct(m, o, p), o, p)
<1> DEFINE c == Construct(m, o, Default, FALSE)
           n == SwapBuilders(c, o, p)
<1>1. Default # Arena /\ o \notin Msg /\ o # p
  BY DEF Parameters, Plain, Msg
<1>2. /\ MemInv(c) /\ DOMAIN c.vec = DOMAIN m.vec \cup {o} /\ c.vec[o] = NewVector(Default, FALSE, InitialSize)
      /\ (\A q \in DOMAIN m.vec : c.vec[q] = m.vec[q]) /\ c.heap = m.heap /\ c.finished = m.finished /\ c.held = m.held
  <2>1. o \in Plain \cup Msg /\ FALSE \in BOOLEAN /\ Default \in {Default, Arena}
    OBVIOUS
  <2>2. /\ (o \in Plain => Default \in {Default, Arena}) /\ (o \in Msg => Default = o /\ ~FALSE) /\ (FALSE => Default = Arena)
        /\ (Default = Arena => m.arena = "made" /\ NoArena(m))
    BY <1>1
  <2>3. LET k == Construct(m, o, Default, FALSE)
        IN  /\ MemInv(k) /\ DOMAIN k.vec = DOMAIN m.vec \cup {o} /\ k.vec[o] = NewVector(Default, FALSE, InitialSize)
            /\ \A q \in DOMAIN m.vec : k.vec[q] = m.vec[q]
            /\ k.heap = m.heap /\ k.finished = m.finished /\ k.arena = m.arena /\ k.held = m.held /\ k.slice = m.slice
    BY <2>1, <2>2, ConstructKeeps, ZenonT(60)
  <2> QED BY <2>3, Zenon
<1> HIDE DEF c
<1>3. DataInv(c) /\ Blank(c, o) /\ SameKept(m, c) /\ \A q : Sees(m, c, q, q)
  BY <1>2, ConstructSeen, ZenonT(30)
<1>4. MemInv(n) /\ n.held = c.held /\ Exchanged(c, n, o, p) /\ Frozen(c, n)
  BY <1>2, SwapPlainKeeps
<1> HIDE DEF n
<1>5. TakenOver(m, n, o, p)
  BY <1>1, <1>2, <1>3, <1>4, NewExchanged
<1> QED BY <1>5 DEF MoveConstruct, n, c

LEMMA MoveConstructMessageSeen ==
  ASSUME Parameters, NEW m, MemInv(m), DataInv(m), NEW o \in Msg, o \notin DOMAIN m.vec, NEW p \in DOMAIN m.vec \cap Msg
  PROVE  TakenOver(m, MoveConstructMessage(m, o, p), o, p)
<1> DEFINE c == ConstructMessage(m, o)
           n == SwapMessages(c, o, p)
<1>2. /\ MemInv(c) /\ DOMAIN c.vec = DOMAIN m.vec \cup {o} /\ c.vec[o] = NewVector(o, FALSE, InitialSize)
      /\ (\A q \in DOMAIN m.vec : c.vec[q] = m.vec[q]) /\ c.heap = m.heap /\ c.finished = m.finished /\ c.held = m.held
  BY ConstructMessageKeeps
<1> HIDE DEF c
<1>3. DataInv(c) /\ Blank(c, o) /\ SameKept(m, c) /\ \A q : Sees(m, c, q, q)
  BY <1>2, ConstructSeen, ZenonT(30)
<1>4. MemInv(n) /\ n.held = c.held /\ Exchanged(c, n, o, p) /\ Frozen(c, n)
  BY <1>2, SwapMessagesKeeps
<1> HIDE DEF n
<1>5. TakenOver(m, n, o, p)
  BY <1>2, <1>3, <1>4, NewExchanged
<1> QED BY <1>5 DEF MoveConstructMessage, n, c

LEMMA MessageFromBuilderSeen ==
  ASSUME Parameters, NEW m, MemInv(m), DataInv(m), NEW o \in Msg, o \notin DOMAIN m.vec, NEW p \in DOMAIN m.vec \cap Plain,
         m.vec[p].allocator = Default
  PROVE  TakenOver(m, MessageFromBuilder(m, o, p), o, p)
<1> DEFINE c == ConstructMessage(m, o)
           n == MessageFromBuilder(m, o, p)
<1>2. /\ MemInv(c) /\ DOMAIN c.vec = DOMAIN m.vec \cup {o} /\ c.vec[o] = NewVector(o, FALSE, InitialSize)
      /\ (\A q \in DOMAIN m.vec : c.vec[q] = m.vec[q]) /\ c.heap = m.heap /\ c.finished = m.finished /\ c.held = m.held
  BY ConstructMessageKeeps
<1>4. MemInv(n) /\ n.held = c.held /\ Exchanged(c, n, o, p) /\ Frozen(c, n)
  BY MessageFromBuilderKeeps
<1> HIDE DEF c, n
<1>3. DataInv(c) /\ Blank(c, o) /\ SameKept(m, c) /\ \A q : Sees(m, c, q, q)
  BY <1>2, ConstructSeen, ZenonT(30)
<1>5. TakenOver(m, n, o, p)
  BY <1>2, <1>3, <1>4, NewExchanged
<1> QED BY <1>5 DEF n

\* The unnamed t, which has taken p over, changes places with o and goes.
LEMMA UnnamedReplaces ==
  ASSUME Parameters, NEW m, NEW c, NEW s, NEW o \in Object, NEW p \in Object, o # p,
         NEW t, t \notin Object, o \in DOMAIN c.vec, t \in DOMAIN c.vec,
         MemInv(c), TakenOver(m, c, t, p), MemInv(s), Exchanged(c, s, o, t), Frozen(c, s), s.held = c.held
  PROVE  TakenOver(m, Destruct(s, t), o, p)
<1> DEFINE n == Destruct(s, t)
<1>0. o # t /\ p # t
  OBVIOUS
<1>1. /\ DataInv(s) /\ Sees(c, s, o, t) /\ \A q : q \notin {o, t} => Sees(c, s, q, q)
      /\ \A h \in Holder : KeptBy(s, h) = KeptBy(c, h)
  BY <1>0, ExchangedSeen DEF TakenOver
<1>2. t \in DOMAIN s.vec
  BY DEF Exchanged
<1>3. /\ MemInv(n) /\ DOMAIN n.vec = DOMAIN s.vec \ {t} /\ (\A q \in DOMAIN n.vec : n.vec[q] = s.vec[q])
      /\ n.finished = s.finished \ {t} /\ n.held = s.held /\ Frozen(s, n)
  BY <1>2, DestructKeeps
<1> HIDE DEF n
<1>4. /\ DataInv(n) /\ (\A q : q # t => Sees(s, n, q, q)) /\ \A h \in Holder : KeptBy(n, h) = KeptBy(s, h)
  <2>1. /\ DOMAIN n.vec \in {DOMAIN s.vec, DOMAIN s.vec \ {t}} /\ t \notin DOMAIN n.vec
        /\ (\A q \in DOMAIN n.vec \ {t} : n.vec[q] = s.vec[q]) /\ s.finished \ {t} \subseteq n.finished
    BY <1>3
  <2> QED BY <1>1, <1>2, <1>3, <2>1, EmptiedSeen
<1>5. Sees(m, n, o, p) /\ Blank(n, p) /\ \A q \in Object \ {o, p} : Sees(m, n, q, q)
  BY <1>0, <1>1, <1>4 DEF TakenOver, Sees, Blank
<1>6. SameKept(m, n)
  BY <1>1, <1>4 DEF TakenOver, SameKept
<1> QED BY <1>3, <1>4, <1>5, <1>6 DEF TakenOver, n

LEMMA MoveAssignSeen ==
  ASSUME Parameters, NEW m, MemInv(m), DataInv(m), Temp \notin DOMAIN m.vec, NEW o \in DOMAIN m.vec \cap Builder,
         NEW p \in DOMAIN m.vec \cap Builder, o # p
  PROVE  TakenOver(m, MoveAssign(m, o, p), o, p)
<1> DEFINE c == MoveConstruct(m, Temp, p)
           s == SwapBuilders(c, o, Temp)
<1>1. Temp \in Plain /\ o \in Plain /\ p \in Plain /\ Temp \notin Object /\ o \in Object /\ p \in Object
  BY DEF Plain, Parameters, Object
<1>2. MemInv(c) /\ DOMAIN c.vec = DOMAIN m.vec \cup {Temp} /\ TakenOver(m, c, Temp, p)
  BY <1>1, MoveConstructKeeps, MoveConstructSeen
<1> HIDE DEF c
<1>3. MemInv(s) /\ s.held = c.held /\ Exchanged(c, s, o, Temp) /\ Frozen(c, s)
  BY <1>1, <1>2, SwapPlainKeeps
<1> HIDE DEF s
<1>4. TakenOver(m, Destruct(s, Temp), o, p)
  BY <1>1, <1>2, <1>3, UnnamedReplaces
<1> QED BY <1>4 DEF MoveAssign, s, c

LEMMA MoveAssignMessageSeen ==
  ASSUME Parameters, NEW m, MemInv(m), DataInv(m), TempMessage \notin DOMAIN m.vec, NEW o \in DOMAIN m.vec \cap MessageBuilder,
         NEW p \in DOMAIN m.vec \cap MessageBuilder, o # p
  PROVE  TakenOver(m, MoveAssignMessage(m, o, p), o, p)
<1> DEFINE c == MoveConstructMessage(m, TempMessage, p)
           s == SwapMessages(c, o, TempMessage)
<1>1. TempMessage \in Msg /\ o \in Msg /\ p \in Msg /\ TempMessage \notin Object /\ o \in Object /\ p \in Object
  BY DEF Msg, Parameters, Object
<1>2. MemInv(c) /\ DOMAIN c.vec = DOMAIN m.vec \cup {TempMessage} /\ TakenOver(m, c, TempMessage, p)
  BY <1>1, MoveConstructMessageKeeps, MoveConstructMessageSeen
<1> HIDE DEF c
<1>3. MemInv(s) /\ s.held = c.held /\ Exchanged(c, s, o, TempMessage) /\ Frozen(c, s)
  BY <1>1, <1>2, SwapMessagesKeeps
<1> HIDE DEF s
<1>4. TakenOver(m, Destruct(s, TempMessage), o, p)
  BY <1>1, <1>2, <1>3, UnnamedReplaces
<1> QED BY <1>4 DEF MoveAssignMessage, s, c

LEMMA AssignFromBuilderSeen ==
  ASSUME Parameters, NEW m, MemInv(m), DataInv(m), TempMessage \notin DOMAIN m.vec, NEW o \in DOMAIN m.vec \cap MessageBuilder,
         NEW p \in DOMAIN m.vec \cap Builder, m.vec[p].allocator = Default
  PROVE  TakenOver(m, AssignFromBuilder(m, o, p), o, p)
<1> DEFINE c == MessageFromBuilder(m, TempMessage, p)
           s == SwapMessages(c, o, TempMessage)
<1>1. /\ TempMessage \in Msg /\ o \in Msg /\ p \in Plain /\ TempMessage \notin Object /\ o \in Object /\ p \in Object /\ o # p
  BY DEF Plain, Msg, Parameters, Object
<1>2. MemInv(c) /\ DOMAIN c.vec = DOMAIN m.vec \cup {TempMessage} /\ TakenOver(m, c, TempMessage, p)
  BY <1>1, MessageFromBuilderKeeps, MessageFromBuilderSeen
<1> HIDE DEF c
<1>3. MemInv(s) /\ s.held = c.held /\ Exchanged(c, s, o, TempMessage) /\ Frozen(c, s)
  BY <1>1, <1>2, SwapMessagesKeeps
<1> HIDE DEF s
<1>4. TakenOver(m, Destruct(s, TempMessage), o, p)
  BY <1>1, <1>2, <1>3, UnnamedReplaces
<1> QED BY <1>4 DEF AssignFromBuilder, s, c

-----------------------------------------------------------------------------
(* Every step is one of the stacks, or none.                                *)

DataView(m) == [o \in Object |-> DataOf(m, o)]
NotesView(m) == [o \in Object |-> NotesOf(m, o)]
KeptView(m) == [h \in Holder |-> KeptBy(m, h)]

LEMMA Views ==
  /\ [o \in Object |-> Contents(o)] = DataView(mem) /\ [o \in Object |-> Contents(o)]' = DataView(mem')
  /\ [o \in Object |-> Notes(o)] = NotesView(mem) /\ [o \in Object |-> Notes(o)]' = NotesView(mem')
  /\ [h \in Holder |-> Kept(h)] = KeptView(mem) /\ [h \in Holder |-> Kept(h)]' = KeptView(mem')
<1>1. [o \in Object |-> Contents(o)] = DataView(mem) /\ [o \in Object |-> Contents(o)]' = DataView(mem')
  BY DEF DataView, Contents, Live, DataOf, Data
<1>2. [o \in Object |-> Notes(o)] = NotesView(mem) /\ [o \in Object |-> Notes(o)]' = NotesView(mem')
  BY DEF NotesView, Notes, Live, NotesOf, ScratchData
<1>3. [h \in Holder |-> Kept(h)] = KeptView(mem) /\ [h \in Holder |-> Kept(h)]' = KeptView(mem')
  BY DEF KeptView, Kept, KeptBy
<1> QED BY <1>1, <1>2, <1>3

\* The steps that change one vector.
LEMMA OneVector ==
  ASSUME NEW o \in Object, \A q \in Object \ {o} : Sees(mem, mem', q, q), SameKept(mem, mem')
  PROVE  /\ DataView(mem') = [DataView(mem) EXCEPT ![o] = DataOf(mem', o)]
         /\ NotesView(mem') = [NotesView(mem) EXCEPT ![o] = NotesOf(mem', o)]
         /\ KeptView(mem') = KeptView(mem)
         /\ DataView(mem)[o] = DataOf(mem, o) /\ NotesView(mem)[o] = NotesOf(mem, o)
  BY DEF DataView, NotesView, KeptView, Sees, SameKept

LEMMA WriteStep ==
  ASSUME NEW o \in Object, NEW b \in - MaxNotes .. MaxSize, \A q \in Object \ {o} : Sees(mem, mem', q, q), SameKept(mem, mem'),
         DataOf(mem', o) = <<b>> \o DataOf(mem, o), NotesOf(mem', o) = NotesOf(mem, o)
  PROVE  Stacks!Write(o)
<1>1. DataView(mem') = [DataView(mem) EXCEPT ![o] = <<b>> \o DataView(mem)[o]]
  BY OneVector
<1>2. NotesView(mem') = NotesView(mem) /\ KeptView(mem') = KeptView(mem)
  BY OneVector DEF NotesView
<1> QED BY <1>1, <1>2, Views DEF Stacks!Write

LEMMA RemoveStep ==
  ASSUME NEW o \in Object, \A q \in Object \ {o} : Sees(mem, mem', q, q), SameKept(mem, mem'), DataOf(mem, o) # <<>>,
         DataOf(mem', o) = Tail(DataOf(mem, o)), NotesOf(mem', o) = NotesOf(mem, o)
  PROVE  Stacks!Remove(o)
<1>1. DataView(mem') = [DataView(mem) EXCEPT ![o] = Tail(DataView(mem)[o])] /\ DataView(mem)[o] # <<>>
  BY OneVector
<1>2. NotesView(mem') = NotesView(mem) /\ KeptView(mem') = KeptView(mem)
  BY OneVector DEF NotesView
<1> QED BY <1>1, <1>2, Views DEF Stacks!Remove

LEMMA NoteStep ==
  ASSUME NEW o \in Object, NEW b \in - MaxNotes .. MaxSize, \A q \in Object \ {o} : Sees(mem, mem', q, q), SameKept(mem, mem'),
         DataOf(mem', o) = DataOf(mem, o), NotesOf(mem', o) = Append(NotesOf(mem, o), b)
  PROVE  Stacks!Note(o)
<1>1. NotesView(mem') = [NotesView(mem) EXCEPT ![o] = Append(NotesView(mem)[o], b)]
  BY OneVector
<1>2. DataView(mem') = DataView(mem) /\ KeptView(mem') = KeptView(mem)
  BY OneVector DEF DataView
<1> QED BY <1>1, <1>2, Views DEF Stacks!Note

LEMMA CompleteStep ==
  ASSUME NEW o \in Object, NEW b \in - MaxNotes .. MaxSize, \A q \in Object \ {o} : Sees(mem, mem', q, q), SameKept(mem, mem'),
         DataOf(mem', o) = <<b>> \o DataOf(mem, o), NotesOf(mem', o) = <<>>
  PROVE  Stacks!Complete(o)
<1>1. DataView(mem') = [DataView(mem) EXCEPT ![o] = <<b>> \o DataView(mem)[o]]
  BY OneVector
<1>2. NotesView(mem') = [NotesView(mem) EXCEPT ![o] = <<>>] /\ KeptView(mem') = KeptView(mem)
  BY OneVector
<1> QED BY <1>1, <1>2, Views DEF Stacks!Complete

LEMMA EmptyStep ==
  ASSUME NEW o \in Object, \A q \in Object \ {o} : Sees(mem, mem', q, q), SameKept(mem, mem'), Blank(mem', o)
  PROVE  Stacks!Empty(o)
<1>1. /\ DataView(mem') = [DataView(mem) EXCEPT ![o] = <<>>] /\ NotesView(mem') = [NotesView(mem) EXCEPT ![o] = <<>>]
      /\ KeptView(mem') = KeptView(mem)
  BY OneVector DEF Blank
<1> QED BY <1>1, Views DEF Stacks!Empty

\* The steps that change two.
LEMMA ExchangeStep ==
  ASSUME NEW o \in Object, NEW p \in Object, o # p, \A q \in Object \ {o, p} : Sees(mem, mem', q, q), SameKept(mem, mem'),
         Sees(mem, mem', o, p), Sees(mem, mem', p, o)
  PROVE  Stacks!Exchange(o, p)
<1>1. DataView(mem') = [DataView(mem) EXCEPT ![o] = DataView(mem)[p], ![p] = DataView(mem)[o]]
  BY DEF DataView, Sees
<1>2. NotesView(mem') = [NotesView(mem) EXCEPT ![o] = NotesView(mem)[p], ![p] = NotesView(mem)[o]]
  BY DEF NotesView, Sees
<1>3. KeptView(mem') = KeptView(mem)
  BY DEF KeptView, SameKept
<1> QED BY <1>1, <1>2, <1>3, Views DEF Stacks!Exchange

LEMMA BecomeStep ==
  ASSUME NEW o \in Object, NEW p \in Object, o # p, \A q \in Object \ {o, p} : Sees(mem, mem', q, q), SameKept(mem, mem'),
         Sees(mem, mem', o, p), Blank(mem', p)
  PROVE  Stacks!Become(o, p)
<1>1. DataView(mem') = [DataView(mem) EXCEPT ![p] = <<>>, ![o] = DataView(mem)[p]]
  BY DEF DataView, Sees, Blank
<1>2. NotesView(mem') = [NotesView(mem) EXCEPT ![p] = <<>>, ![o] = NotesView(mem)[p]]
  BY DEF NotesView, Sees, Blank
<1>3. KeptView(mem') = KeptView(mem)
  BY DEF KeptView, SameKept
<1> QED BY <1>1, <1>2, <1>3, Views DEF Stacks!Become

\* The steps of the holders.
LEMMA HandOverStep ==
  ASSUME NEW o \in Object, NEW h \in Holder, \A q \in Object \ {o} : Sees(mem, mem', q, q),
         Sees(mem, mem', o, o) \/ Blank(mem', o), KeptBy(mem', h) = DataOf(mem, o),
         \A g \in Holder \ {h} : KeptBy(mem', g) = KeptBy(mem, g)
  PROVE  Stacks!HandOver(o, h)
<1>1. KeptView(mem') = [KeptView(mem) EXCEPT ![h] = DataView(mem)[o]]
  BY DEF KeptView, DataView
<1>2. CASE Sees(mem, mem', o, o)
  <2>1. DataView(mem') = DataView(mem) /\ NotesView(mem') = NotesView(mem)
    BY <1>2 DEF DataView, NotesView, Sees
  <2> QED BY <1>1, <2>1, Views DEF Stacks!HandOver
<1>3. CASE Blank(mem', o)
  <2>1. DataView(mem') = [DataView(mem) EXCEPT ![o] = <<>>] /\ NotesView(mem') = [NotesView(mem) EXCEPT ![o] = <<>>]
    BY <1>3 DEF DataView, NotesView, Sees, Blank
  <2> QED BY <1>1, <2>1, Views DEF Stacks!HandOver
<1> QED BY <1>2, <1>3

LEMMA PassStep ==
  ASSUME NEW h \in Holder, NEW g \in Holder, h # g, \A q \in Object : Sees(mem, mem', q, q),
         KeptBy(mem', h) = KeptBy(mem, g), KeptBy(mem', g) = <<>>, \A x \in Holder \ {h, g} : KeptBy(mem', x) = KeptBy(mem, x)
  PROVE  Stacks!Pass(h, g)
<1>1. KeptView(mem') = [KeptView(mem) EXCEPT ![g] = <<>>, ![h] = KeptView(mem)[g]]
  BY DEF KeptView
<1>2. DataView(mem') = DataView(mem) /\ NotesView(mem') = NotesView(mem)
  BY DEF DataView, NotesView, Sees
<1> QED BY <1>1, <1>2, Views DEF Stacks!Pass

LEMMA DropStep ==
  ASSUME NEW h \in Holder, \A q \in Object : Sees(mem, mem', q, q),
         KeptBy(mem', h) = <<>>, \A x \in Holder \ {h} : KeptBy(mem', x) = KeptBy(mem, x)
  PROVE  Stacks!Drop(h)
<1>1. KeptView(mem') = [KeptView(mem) EXCEPT ![h] = <<>>]
  BY DEF KeptView
<1>2. DataView(mem') = DataView(mem) /\ NotesView(mem') = NotesView(mem)
  BY DEF DataView, NotesView, Sees
<1> QED BY <1>1, <1>2, Views DEF Stacks!Drop

LEMMA NoStep ==
  ASSUME \A q \in Object : Sees(mem, mem', q, q), SameKept(mem, mem')
  PROVE  UNCHANGED Stacks!svars
<1>1. DataView(mem') = DataView(mem) /\ NotesView(mem') = NotesView(mem) /\ KeptView(mem') = KeptView(mem)
  BY DEF DataView, NotesView, KeptView, Sees, SameKept
<1> QED BY <1>1, Views DEF Stacks!svars

\* What the program forgets has no part in it.
LEMMA BecomeSeen ==
  ASSUME Parameters, NEW n, MemInv(n), DataInv(n), Become(n)
  PROVE  DataInv(mem') /\ (\A q : Sees(n, mem', q, q)) /\ SameKept(n, mem')
<1>1. mem' = Forgetful(n)
  BY DEF Become
<1> QED BY <1>1, ForgetfulSeen DEF SameKept

LEMMA CreateShows ==
  ASSUME Parameters, Inv, DataInv(mem), NEW o \in Object, Create(o)
  PROVE  DataInv(mem') /\ UNCHANGED Stacks!svars
<1>1. o \notin DOMAIN mem.vec /\ MemInv(mem) /\ Default # Arena
  BY DEF Create, Live, Inv, Parameters
<1>2. \E n, a, own : /\ MemInv(n) /\ Become(n) /\ DOMAIN n.vec = DOMAIN mem.vec \cup {o}
                     /\ n.vec[o] = NewVector(a, own, InitialSize) /\ (\A q \in DOMAIN mem.vec : n.vec[q] = mem.vec[q])
                     /\ n.heap = mem.heap /\ n.finished = mem.finished /\ n.held = mem.held
  <2>1. CASE o \in MessageBuilder /\ Become(ConstructMessage(mem, o))
    <3> DEFINE n == ConstructMessage(mem, o)
    <3>1. /\ MemInv(n) /\ DOMAIN n.vec = DOMAIN mem.vec \cup {o}
          /\ n.vec[o] = NewVector(o, FALSE, InitialSize) /\ (\A q \in DOMAIN mem.vec : n.vec[q] = mem.vec[q])
          /\ n.heap = mem.heap /\ n.finished = mem.finished /\ n.held = mem.held
      BY <1>1, <2>1, NamesOfVectors, ConstructMessageKeeps
    <3>2. Become(n)
      BY <2>1
    <3> HIDE DEF n
    <3> QED BY <3>1, <3>2
  <2>2. CASE o \notin MessageBuilder /\ Become(Construct(mem, o, Default, FALSE))
    <3> DEFINE n == Construct(mem, o, Default, FALSE)
    <3>1. o \in Plain /\ o \notin Msg /\ o \in Plain \cup Msg /\ FALSE \in BOOLEAN /\ Default \in {Default, Arena}
      BY <2>2, NamesOfVectors DEF Object
    <3>2. LET k == Construct(mem, o, Default, FALSE)
          IN  /\ MemInv(k) /\ DOMAIN k.vec = DOMAIN mem.vec \cup {o} /\ k.vec[o] = NewVector(Default, FALSE, InitialSize)
              /\ \A q \in DOMAIN mem.vec : k.vec[q] = mem.vec[q]
              /\ k.heap = mem.heap /\ k.finished = mem.finished /\ k.arena = mem.arena /\ k.held = mem.held /\ k.slice = mem.slice
      BY <1>1, <3>1, ConstructKeeps, ZenonT(60)
    <3>3. /\ MemInv(n) /\ DOMAIN n.vec = DOMAIN mem.vec \cup {o}
          /\ n.vec[o] = NewVector(Default, FALSE, InitialSize) /\ (\A q \in DOMAIN mem.vec : n.vec[q] = mem.vec[q])
          /\ n.heap = mem.heap /\ n.finished = mem.finished /\ n.held = mem.held
      BY <3>2, Zenon
    <3>4. Become(n)
      BY <2>2
    <3> HIDE DEF n
    <3> QED BY <3>3, <3>4
  <2>3. ASSUME o \notin MessageBuilder, NEW own \in BOOLEAN, mem.arena = "none",
               Become(Construct([mem EXCEPT !.arena = "made"], o, Arena, own))
        PROVE  \E n, a, w : /\ MemInv(n) /\ Become(n) /\ DOMAIN n.vec = DOMAIN mem.vec \cup {o}
                            /\ n.vec[o] = NewVector(a, w, InitialSize) /\ (\A q \in DOMAIN mem.vec : n.vec[q] = mem.vec[q])
                            /\ n.heap = mem.heap /\ n.finished = mem.finished /\ n.held = mem.held
    <3> DEFINE a == [mem EXCEPT !.arena = "made"]
               n == Construct(a, o, Arena, own)
    <3>1. /\ MemInv(a) /\ NoArena(a) /\ a.vec = mem.vec /\ a.arena = "made" /\ a.heap = mem.heap /\ a.finished = mem.finished
          /\ a.held = mem.held
      BY <1>1, <2>3, ArenaMade
    <3>2. o \in Plain /\ o \notin Msg /\ o \in Plain \cup Msg /\ Arena \in {Default, Arena}
      BY <2>3, NamesOfVectors DEF Object
    <3>3. Become(n)
      BY <2>3
    <3> HIDE DEF a
    <3>4. /\ MemInv(n) /\ DOMAIN n.vec = DOMAIN a.vec \cup {o} /\ n.vec[o] = NewVector(Arena, own, InitialSize)
          /\ (\A q \in DOMAIN a.vec : n.vec[q] = a.vec[q])
          /\ n.heap = a.heap /\ n.finished = a.finished /\ n.held = a.held
      BY <1>1, <3>1, <3>2, ConstructKeeps
    <3> HIDE DEF n
    <3> QED BY <3>1, <3>3, <3>4
  <2> QED BY <2>1, <2>2, <2>3 DEF Create
<1>3. PICK n, a, own : /\ MemInv(n) /\ Become(n) /\ DOMAIN n.vec = DOMAIN mem.vec \cup {o}
                       /\ n.vec[o] = NewVector(a, own, InitialSize) /\ (\A q \in DOMAIN mem.vec : n.vec[q] = mem.vec[q])
                       /\ n.heap = mem.heap /\ n.finished = mem.finished /\ n.held = mem.held
  BY <1>2
<1>4. DataInv(n) /\ SameKept(mem, n) /\ \A q : Sees(mem, n, q, q)
  BY <1>1, <1>3, ConstructSeen
<1>5. DataInv(mem') /\ (\A q : Sees(n, mem', q, q)) /\ SameKept(n, mem')
  BY <1>3, <1>4, BecomeSeen
<1>6. SameKept(mem, mem') /\ \A q \in Object : Sees(mem, mem', q, q)
  BY <1>4, <1>5 DEF SameKept, Sees
<1> QED BY <1>5, <1>6, NoStep

LEMMA WriteShows ==
  ASSUME Parameters, Inv, DataInv(mem), NEW o \in Object, Write(o)
  PROVE  DataInv(mem') /\ Stacks!Write(o)
<1> DEFINE b == mem.vec[o].size + 1
           n == Push(mem, o, <<b>>, MinAlign)
<1>1. o \in DOMAIN mem.vec /\ o \notin mem.finished /\ Become(n) /\ MemInv(mem)
  BY NamesOfVectors DEF Write, InUse, Live
<1>2. b \in - MaxNotes .. MaxSize
  <2>1. mem.vec[o].size \in Nat /\ mem.vec[o].size < MaxSize
    BY <1>1 DEF Write, MemInv, MemTypes, Vector
  <2> QED BY <2>1 DEF Parameters
<1> HIDE DEF b
<1>3. NotLent(mem, o)
  BY <1>1, InUseNotLent DEF DataInv
<1>4. MemInv(n)
  BY <1>1, PushKeeps
<1>5. /\ DataInv(n) /\ \A q : q # o => Sees(mem, n, q, q)
      /\ DataOf(n, o) = <<b>> \o DataOf(mem, o) /\ NotesOf(n, o) = NotesOf(mem, o)
      /\ \A h \in Holder : KeptBy(n, h) = KeptBy(mem, h)
  BY <1>1, <1>3, PushSeen
<1> HIDE DEF n
<1>6. DataInv(mem') /\ (\A q : Sees(n, mem', q, q)) /\ SameKept(n, mem')
  BY <1>1, <1>4, <1>5, BecomeSeen
<1>7. /\ \A q \in Object \ {o} : Sees(mem, mem', q, q)
      /\ SameKept(mem, mem') /\ DataOf(mem', o) = <<b>> \o DataOf(mem, o) /\ NotesOf(mem', o) = NotesOf(mem, o)
  BY <1>5, <1>6 DEF Sees, SameKept
<1> QED BY <1>2, <1>6, <1>7, WriteStep

LEMMA RemoveShows ==
  ASSUME Parameters, Inv, DataInv(mem), NEW o \in Object, Remove(o)
  PROVE  DataInv(mem') /\ Stacks!Remove(o)
<1> DEFINE n == Pop(mem, o, 1)
<1>1. o \in DOMAIN mem.vec /\ o \notin mem.finished /\ mem.vec[o].size > 0 /\ Become(n) /\ MemInv(mem)
  BY NamesOfVectors DEF Remove, InUse, Live
<1>2. NotLent(mem, o)
  BY <1>1, InUseNotLent DEF DataInv
<1>3. MemInv(n)
  BY <1>1, PopKeeps
<1>4. /\ DataInv(n) /\ \A q : q # o => Sees(mem, n, q, q)
      /\ DataOf(mem, o) # <<>> /\ DataOf(n, o) = Tail(DataOf(mem, o)) /\ NotesOf(n, o) = NotesOf(mem, o)
      /\ \A h \in Holder : KeptBy(n, h) = KeptBy(mem, h)
  BY <1>1, <1>2, PopSeen
<1> HIDE DEF n
<1>5. DataInv(mem') /\ (\A q : Sees(n, mem', q, q)) /\ SameKept(n, mem')
  BY <1>1, <1>3, <1>4, BecomeSeen
<1>6. /\ \A q \in Object \ {o} : Sees(mem, mem', q, q)
      /\ SameKept(mem, mem') /\ DataOf(mem', o) = Tail(DataOf(mem, o)) /\ NotesOf(mem', o) = NotesOf(mem, o)
  BY <1>4, <1>5 DEF Sees, SameKept
<1> QED BY <1>4, <1>5, <1>6, RemoveStep

LEMMA NoteShows ==
  ASSUME Parameters, Inv, DataInv(mem), NEW o \in Object, Note(o)
  PROVE  DataInv(mem') /\ Stacks!Note(o)
<1> DEFINE b == - 1 - mem.vec[o].scratch
           n == ScratchPush(mem, o, b, MinAlign)
<1>1. o \in DOMAIN mem.vec /\ o \notin mem.finished /\ Become(n) /\ MemInv(mem)
  BY NamesOfVectors DEF Note, InUse, Live
<1>2. b \in - MaxNotes .. MaxSize
  <2>1. mem.vec[o].scratch \in Nat /\ mem.vec[o].scratch < MaxNotes
    BY <1>1 DEF Note, MemInv, MemTypes, Vector
  <2> QED BY <2>1 DEF Parameters
<1> HIDE DEF b
<1>3. NotLent(mem, o)
  BY <1>1, InUseNotLent DEF DataInv
<1>4. MemInv(n)
  BY <1>1, ScratchPushKeeps
<1>5. /\ DataInv(n) /\ \A q : q # o => Sees(mem, n, q, q)
      /\ DataOf(n, o) = DataOf(mem, o) /\ NotesOf(n, o) = Append(NotesOf(mem, o), b)
      /\ \A h \in Holder : KeptBy(n, h) = KeptBy(mem, h)
  BY <1>1, <1>3, ScratchPushSeen
<1> HIDE DEF n
<1>6. DataInv(mem') /\ (\A q : Sees(n, mem', q, q)) /\ SameKept(n, mem')
  BY <1>1, <1>4, <1>5, BecomeSeen
<1>7. /\ \A q \in Object \ {o} : Sees(mem, mem', q, q)
      /\ SameKept(mem, mem') /\ DataOf(mem', o) = DataOf(mem, o) /\ NotesOf(mem', o) = Append(NotesOf(mem, o), b)
  BY <1>5, <1>6 DEF Sees, SameKept
<1> QED BY <1>2, <1>6, <1>7, NoteStep

\* Finish gives the scratch pad up first; no holder has the block yet.
LEMMA FinishShows ==
  ASSUME Parameters, Inv, DataInv(mem), NEW o \in Object, Finish(o)
  PROVE  DataInv(mem') /\ Stacks!Complete(o)
<1> DEFINE F == mem.finished \cup {o}
           f == [mem EXCEPT !.finished = F]
           v == mem.vec[o]
           w == [v EXCEPT !.scratch = 0]
           c == SetVector(f, o, w)
           b == v.size + 1
           n == Push(c, o, <<b>>, MinAlign)
<1>1. o \in DOMAIN mem.vec /\ o \notin mem.finished /\ MemInv(mem) /\ MemTypes(mem)
  BY DEF Finish, InUse, Live, Inv, MemInv
<1>2. Become(n)
  BY <1>1 DEF Finish, MemTypes, IsMem
<1>3. b \in - MaxNotes .. MaxSize
  <2>1. mem.vec[o].size \in Nat /\ mem.vec[o].size < MaxSize
    BY <1>1 DEF Finish, MemTypes, Vector
  <2> QED BY <2>1 DEF Parameters
<1>4. F \subseteq DOMAIN mem.vec /\ mem.finished \subseteq F
  BY <1>1, NamesOfVectors
<1> HIDE DEF F
<1>5. MemInv(f) /\ f.vec = mem.vec /\ f.finished = F /\ f.heap = mem.heap /\ f.held = mem.held
  BY <1>1, <1>4, FinishedKeeps
<1>6. Vector(v) /\ v.cur + v.size = v.reserved /\ v.scratch <= v.cur
  BY <1>1 DEF MemInv, MemTypes, Owned, Layout
<1>7. Vector(w) /\ w.buf = v.buf /\ w.allocator = v.allocator /\ w.own = v.own /\ w.reserved = v.reserved
      /\ w.cur + w.size = w.reserved /\ w.scratch <= w.cur /\ w.cur = v.cur /\ w.size = v.size /\ w.scratch = 0
  <2>1. w = [v EXCEPT !.scratch = 0]
    OBVIOUS
  <2> HIDE DEF v, w
  <2>2. /\ w.buf = v.buf /\ w.allocator = v.allocator /\ w.own = v.own /\ w.reserved = v.reserved
        /\ w.cur = v.cur /\ w.size = v.size /\ w.initial = v.initial /\ w.scratch = 0
        /\ w = [allocator |-> w.allocator, own |-> w.own, initial |-> w.initial, reserved |-> w.reserved,
                size |-> w.size, buf |-> w.buf, cur |-> w.cur, scratch |-> w.scratch]
    BY <1>6, <2>1 DEF Vector
  <2> QED BY <1>6, <2>2 DEF Vector
<1> HIDE DEF w, f, b
<1>8. /\ MemInv(c) /\ DOMAIN c.vec = DOMAIN mem.vec /\ c.vec[o] = w /\ (\A q \in DOMAIN mem.vec \ {o} : c.vec[q] = mem.vec[q])
      /\ c.heap = mem.heap /\ c.finished = F /\ c.held = mem.held
  <2>1. o \in DOMAIN f.vec /\ f.vec[o] = v
    BY <1>1, <1>5
  <2> HIDE DEF v
  <2>2. /\ MemInv(c) /\ DOMAIN c.vec = DOMAIN f.vec /\ c.vec[o] = w /\ (\A q \in DOMAIN f.vec \ {o} : c.vec[q] = f.vec[q])
        /\ c.heap = f.heap /\ c.finished = f.finished /\ c.held = f.held
    BY <1>5, <1>7, <2>1, SetVectorKeeps
  <2> QED BY <1>5, <2>2
<1> HIDE DEF c
<1>9. NotLent(mem, o)
  BY <1>1, InUseNotLent DEF DataInv
<1>10. /\ DataInv(c) /\ NotLent(c, o) /\ (\A q : q # o => Sees(mem, c, q, q))
       /\ \A h \in Holder : KeptBy(c, h) = KeptBy(mem, h)
  <2>1. mem.finished \subseteq c.finished /\ c.vec[o].buf = mem.vec[o].buf
    BY <1>4, <1>7, <1>8
  <2>2. \A p \in DOMAIN mem.heap \ {mem.vec[o].buf} : c.heap[p] = mem.heap[p]
    BY <1>8
  <2> QED BY <1>1, <1>8, <1>9, <2>1, <2>2, ElsewhereSeen
<1>11. DataOf(c, o) = DataOf(mem, o) /\ NotesOf(c, o) = <<>>
  <2>1. DataOf(c, o) = DataOf(mem, o)
    BY <1>1, <1>7, <1>8 DEF DataOf, Data
  <2>2. NotesOf(c, o) = [i \in 1 .. 0 |-> c.heap[w.buf].bytes[i]]
    BY <1>1, <1>7, <1>8 DEF NotesOf, ScratchData
  <2>3. 1 .. 0 = {}
    OBVIOUS
  <2> QED BY <2>1, <2>2, <2>3
<1>12. MemInv(n)
  BY <1>1, <1>8, PushKeeps
<1>13. /\ DataInv(n) /\ \A q : q # o => Sees(c, n, q, q)
       /\ DataOf(n, o) = <<b>> \o DataOf(c, o) /\ NotesOf(n, o) = NotesOf(c, o)
       /\ \A h \in Holder : KeptBy(n, h) = KeptBy(c, h)
  <2>1. o \in DOMAIN c.vec /\ MemInv(c) /\ DataInv(c) /\ NotLent(c, o)
    BY <1>1, <1>8, <1>10
  <2> QED BY <2>1, PushSeen
<1> HIDE DEF n
<1>14. DataInv(mem') /\ (\A q : Sees(n, mem', q, q)) /\ SameKept(n, mem')
  BY <1>2, <1>12, <1>13, BecomeSeen
<1>15. /\ \A q \in Object \ {o} : Sees(mem, mem', q, q)
       /\ SameKept(mem, mem') /\ DataOf(mem', o) = <<b>> \o DataOf(mem, o) /\ NotesOf(mem', o) = <<>>
  BY <1>10, <1>11, <1>13, <1>14 DEF Sees, SameKept
<1> QED BY <1>3, <1>14, <1>15, CompleteStep

\* A builder is emptied, and keeps its block, gives it up or goes.
LEMMA EmptyShows ==
  ASSUME Parameters, NEW o \in Object, NEW n, MemInv(n), DataInv(n), Become(n), Blank(n, o),
         \A q : q # o => Sees(mem, n, q, q), \A h \in Holder : KeptBy(n, h) = KeptBy(mem, h)
  PROVE  DataInv(mem') /\ Stacks!Empty(o)
<1>1. DataInv(mem') /\ (\A q : Sees(n, mem', q, q)) /\ SameKept(n, mem')
  BY BecomeSeen
<1>2. (\A q \in Object \ {o} : Sees(mem, mem', q, q)) /\ SameKept(mem, mem') /\ Blank(mem', o)
  BY <1>1 DEF Sees, SameKept, Blank
<1> QED BY <1>1, <1>2, EmptyStep

LEMMA ClearShows ==
  ASSUME Parameters, Inv, DataInv(mem), NEW o \in Object, Clear(o)
  PROVE  DataInv(mem') /\ Stacks!Empty(o)
<1> DEFINE n == ClearBuilder(mem, o)
<1>1. o \in DOMAIN mem.vec /\ Become(n) /\ MemInv(mem) /\ NotLent(mem, o)
  BY NamesOfVectors, ClearedNotLent DEF Clear, Live
<1>2. /\ MemInv(n) /\ DOMAIN n.vec = DOMAIN mem.vec /\ (\A q \in DOMAIN mem.vec \ {o} : n.vec[q] = mem.vec[q])
      /\ n.vec[o].buf = mem.vec[o].buf /\ n.vec[o].size = 0 /\ n.vec[o].scratch = 0
      /\ n.heap = mem.heap /\ n.finished = mem.finished \ {o} /\ n.held = mem.held
  BY <1>1, ClearKeeps
<1> HIDE DEF n
<1>3. Frozen(mem, n) /\ DOMAIN n.vec \in {DOMAIN mem.vec, DOMAIN mem.vec \ {o}}
  BY <1>2 DEF Frozen
<1>4. /\ DataInv(n) /\ Blank(n, o) /\ (\A q : q # o => Sees(mem, n, q, q))
      /\ \A h \in Holder : KeptBy(n, h) = KeptBy(mem, h)
  BY <1>1, <1>2, <1>3, EmptiedSeen
<1> QED BY <1>1, <1>2, <1>4, EmptyShows

LEMMA ResetShows ==
  ASSUME Parameters, Inv, DataInv(mem), NEW o \in Object, Reset(o)
  PROVE  DataInv(mem') /\ Stacks!Empty(o)
<1> DEFINE n == ResetBuilder(mem, o)
<1>1. o \in DOMAIN mem.vec /\ Become(n) /\ MemInv(mem)
  BY NamesOfVectors DEF Reset, Live
<1>2. /\ MemInv(n) /\ DOMAIN n.vec = DOMAIN mem.vec /\ n.held = mem.held /\ Frozen(mem, n) /\ GivenUp(mem, n, o)
  BY <1>1, ResetKeeps
<1> HIDE DEF n
<1>3. /\ DOMAIN n.vec \in {DOMAIN mem.vec, DOMAIN mem.vec \ {o}} /\ (\A q \in DOMAIN n.vec \ {o} : n.vec[q] = mem.vec[q])
      /\ n.vec[o].buf = Null /\ n.vec[o].size = 0 /\ n.vec[o].scratch = 0 /\ mem.finished \ {o} \subseteq n.finished
  BY <1>2 DEF GivenUp
<1>4. /\ DataInv(n) /\ Blank(n, o) /\ (\A q : q # o => Sees(mem, n, q, q))
      /\ \A h \in Holder : KeptBy(n, h) = KeptBy(mem, h)
  BY <1>1, <1>2, <1>3, EmptiedSeen
<1> QED BY <1>1, <1>2, <1>4, EmptyShows

LEMMA DestroyShows ==
  ASSUME Parameters, Inv, DataInv(mem), NEW o \in Object, Destroy(o)
  PROVE  DataInv(mem') /\ Stacks!Empty(o)
<1> DEFINE n == Destruct(mem, o)
<1>1. o \in DOMAIN mem.vec /\ Become(n) /\ MemInv(mem)
  BY NamesOfVectors DEF Destroy, Live
<1>2. /\ MemInv(n) /\ DOMAIN n.vec = DOMAIN mem.vec \ {o} /\ (\A q \in DOMAIN n.vec : n.vec[q] = mem.vec[q])
      /\ n.finished = mem.finished \ {o} /\ n.held = mem.held /\ Frozen(mem, n)
  BY <1>1, DestructKeeps
<1> HIDE DEF n
<1>3. DOMAIN n.vec \in {DOMAIN mem.vec, DOMAIN mem.vec \ {o}} /\ o \notin DOMAIN n.vec
  BY <1>2
<1>4. /\ DataInv(n) /\ Blank(n, o) /\ (\A q : q # o => Sees(mem, n, q, q))
      /\ \A h \in Holder : KeptBy(n, h) = KeptBy(mem, h)
  BY <1>1, <1>2, <1>3, EmptiedSeen
<1> QED BY <1>1, <1>2, <1>4, EmptyShows

LEMMA SwapShows ==
  ASSUME Parameters, Inv, DataInv(mem), NEW o \in Object, NEW p \in Object, Swap(o, p)
  PROVE  DataInv(mem') /\ Stacks!Exchange(o, p)
<1>1. o \in DOMAIN mem.vec /\ p \in DOMAIN mem.vec /\ o # p /\ MemInv(mem)
  BY NamesOfVectors DEF Swap, Live
<1>2. \E n : MemInv(n) /\ Become(n) /\ n.held = mem.held /\ Exchanged(mem, n, o, p) /\ Frozen(mem, n)
  <2>1. CASE o \in Builder /\ p \in Builder /\ Become(SwapBuilders(mem, o, p))
    <3>1. o \in DOMAIN mem.vec \cap Plain /\ p \in DOMAIN mem.vec \cap Plain
      BY <1>1, <2>1, NamesOfVectors
    <3> QED BY <1>1, <2>1, <3>1, SwapPlainKeeps
  <2>2. CASE o \in MessageBuilder /\ p \in MessageBuilder /\ Become(SwapMessages(mem, o, p))
    <3>1. o \in DOMAIN mem.vec \cap Msg /\ p \in DOMAIN mem.vec \cap Msg
      BY <1>1, <2>2, NamesOfVectors
    <3> QED BY <1>1, <2>2, <3>1, SwapMessagesKeeps
  <2> QED BY <2>1, <2>2 DEF Swap
<1>3. PICK n : MemInv(n) /\ Become(n) /\ n.held = mem.held /\ Exchanged(mem, n, o, p) /\ Frozen(mem, n)
  BY <1>2
<1>4. /\ DataInv(n) /\ Sees(mem, n, o, p) /\ Sees(mem, n, p, o) /\ (\A q : q \notin {o, p} => Sees(mem, n, q, q))
      /\ \A h \in Holder : KeptBy(n, h) = KeptBy(mem, h)
  BY <1>1, <1>3, ExchangedSeen
<1>5. DataInv(mem') /\ (\A q : Sees(n, mem', q, q)) /\ SameKept(n, mem')
  BY <1>3, <1>4, BecomeSeen
<1>6. /\ (\A q \in Object \ {o, p} : Sees(mem, mem', q, q)) /\ SameKept(mem, mem')
      /\ Sees(mem, mem', o, p) /\ Sees(mem, mem', p, o)
  BY <1>4, <1>5 DEF Sees, SameKept
<1> QED BY <1>1, <1>5, <1>6, ExchangeStep

LEMMA MoveShows ==
  ASSUME Parameters, Inv, DataInv(mem), NEW o \in Object, NEW p \in Object, Move(o, p)
  PROVE  DataInv(mem') /\ Stacks!Become(o, p)
<1>1. /\ p \in DOMAIN mem.vec /\ o # p /\ MemInv(mem) /\ (Live(o) <=> o \in DOMAIN mem.vec)
      /\ Temp \notin DOMAIN mem.vec /\ TempMessage \notin DOMAIN mem.vec
  BY NamesOfVectors DEF Move, Live
<1>2. \E n : Become(n) /\ TakenOver(mem, n, o, p)
  <2>1. ASSUME o \in Builder, p \in Builder, Become((IF Live(o) THEN MoveAssign(mem, o, p) ELSE MoveConstruct(mem, o, p)))
        PROVE  \E n : Become(n) /\ TakenOver(mem, n, o, p)
    <3>1. p \in DOMAIN mem.vec \cap Plain /\ p \in DOMAIN mem.vec \cap Builder /\ o \in Plain
      BY <1>1, <2>1, NamesOfVectors
    <3>2. CASE Live(o)
      <4>1. o \in DOMAIN mem.vec \cap Builder /\ Become(MoveAssign(mem, o, p))
        BY <1>1, <2>1, <3>2
      <4> QED BY <1>1, <3>1, <4>1, MoveAssignSeen
    <3>3. CASE ~Live(o)
      <4>1. o \notin DOMAIN mem.vec /\ Become(MoveConstruct(mem, o, p))
        BY <1>1, <2>1, <3>3
      <4> QED BY <1>1, <3>1, <4>1, MoveConstructSeen
    <3> QED BY <3>2, <3>3
  <2>2. ASSUME o \in MessageBuilder, p \in MessageBuilder,
               Become((IF Live(o) THEN MoveAssignMessage(mem, o, p) ELSE MoveConstructMessage(mem, o, p)))
        PROVE  \E n : Become(n) /\ TakenOver(mem, n, o, p)
    <3>1. p \in DOMAIN mem.vec \cap Msg /\ p \in DOMAIN mem.vec \cap MessageBuilder /\ o \in Msg
      BY <1>1, <2>2, NamesOfVectors
    <3>2. CASE Live(o)
      <4>1. o \in DOMAIN mem.vec \cap MessageBuilder /\ Become(MoveAssignMessage(mem, o, p))
        BY <1>1, <2>2, <3>2
      <4> QED BY <1>1, <3>1, <4>1, MoveAssignMessageSeen
    <3>3. CASE ~Live(o)
      <4>1. o \notin DOMAIN mem.vec /\ Become(MoveConstructMessage(mem, o, p))
        BY <1>1, <2>2, <3>3
      <4> QED BY <1>1, <3>1, <4>1, MoveConstructMessageSeen
    <3> QED BY <3>2, <3>3
  <2>3. ASSUME o \in MessageBuilder, p \in Builder, mem.vec[p].allocator = Default,
               Become((IF Live(o) THEN AssignFromBuilder(mem, o, p) ELSE MessageFromBuilder(mem, o, p)))
        PROVE  \E n : Become(n) /\ TakenOver(mem, n, o, p)
    <3>1. p \in DOMAIN mem.vec \cap Plain /\ p \in DOMAIN mem.vec \cap Builder /\ o \in Msg
      BY <1>1, <2>3, NamesOfVectors
    <3>2. CASE Live(o)
      <4>1. o \in DOMAIN mem.vec \cap MessageBuilder /\ Become(AssignFromBuilder(mem, o, p))
        BY <1>1, <2>3, <3>2
      <4> QED BY <1>1, <2>3, <3>1, <4>1, AssignFromBuilderSeen
    <3>3. CASE ~Live(o)
      <4>1. o \notin DOMAIN mem.vec /\ Become(MessageFromBuilder(mem, o, p))
        BY <1>1, <2>3, <3>3
      <4> QED BY <1>1, <2>3, <3>1, <4>1, MessageFromBuilderSeen
    <3> QED BY <3>2, <3>3
  <2> QED BY <2>1, <2>2, <2>3 DEF Move
<1>3. PICK n : Become(n) /\ TakenOver(mem, n, o, p)
  BY <1>2
<1>4. DataInv(mem') /\ (\A q : Sees(n, mem', q, q)) /\ SameKept(n, mem')
  BY <1>3, BecomeSeen DEF TakenOver
<1>5. /\ (\A q \in Object \ {o, p} : Sees(mem, mem', q, q)) /\ SameKept(mem, mem')
      /\ Sees(mem, mem', o, p) /\ Blank(mem', p)
  BY <1>3, <1>4 DEF TakenOver, Sees, SameKept, Blank
<1> QED BY <1>1, <1>4, <1>5, BecomeStep

\* What is handed over by o, who keeps it or has given it up.
LEMMA HandShows ==
  ASSUME Parameters, Inv, DataInv(mem), NEW o \in Object, o \in DOMAIN mem.vec, NEW h \in Holder,
         NEW n, MemInv(n), Become(n), DOMAIN n.vec = DOMAIN mem.vec, InHand(mem, n, o, h),
         \/ n.vec = mem.vec /\ n.finished = mem.finished /\ o \in mem.finished
         \/ GivenUp(mem, n, o)
  PROVE  DataInv(mem') /\ Stacks!HandOver(o, h)
<1>1. MemInv(mem)
  BY NamesOfVectors
<1>2. /\ Frozen(mem, n) /\ (\A g \in Holder \ {h} : n.held[g] = mem.held[g])
      /\ n.held[h].buf = mem.vec[o].buf /\ n.held[h].size = mem.vec[o].size /\ n.held[h].cur = mem.vec[o].cur
      /\ n.held[h].reserved = mem.vec[o].reserved
  BY DEF InHand
<1>3. /\ (\A q \in DOMAIN mem.vec \ {o} : n.vec[q] = mem.vec[q]) /\ mem.finished \ {o} \subseteq n.finished
      /\ \/ n.vec[o] = mem.vec[o] /\ o \in n.finished
         \/ n.vec[o].buf = Null /\ n.vec[o].size = 0 /\ n.vec[o].scratch = 0
  BY DEF GivenUp
<1>4. /\ DataInv(n) /\ KeptBy(n, h) = DataOf(mem, o) /\ (\A g \in Holder \ {h} : KeptBy(n, g) = KeptBy(mem, g))
      /\ IF n.vec[o] = mem.vec[o] THEN Sees(mem, n, o, o) ELSE Blank(n, o)
      /\ \A q : q # o => Sees(mem, n, q, q)
  BY <1>1, <1>2, <1>3, HandedSeen
<1>5. DataInv(mem') /\ (\A q : Sees(n, mem', q, q)) /\ SameKept(n, mem')
  BY <1>4, BecomeSeen
<1>6. /\ (\A q \in Object \ {o} : Sees(mem, mem', q, q)) /\ (Sees(mem, mem', o, o) \/ Blank(mem', o))
      /\ KeptBy(mem', h) = DataOf(mem, o) /\ \A g \in Holder \ {h} : KeptBy(mem', g) = KeptBy(mem, g)
  BY <1>4, <1>5 DEF Sees, SameKept, Blank
<1> QED BY <1>5, <1>6, HandOverStep

LEMMA DetachShows ==
  ASSUME Parameters, Inv, DataInv(mem), NEW o \in Object, NEW h \in Holder, Detach(o, h)
  PROVE  DataInv(mem') /\ Stacks!HandOver(o, h)
<1>1. o \in DOMAIN mem.vec \cap Plain /\ MemInv(mem) /\ RawFirst(mem)
  BY NamesOfVectors DEF Detach, Finished
<1>2. \E n : MemInv(n) /\ Become(n) /\ DOMAIN n.vec = DOMAIN mem.vec /\ InHand(mem, n, o, h) /\ GivenUp(mem, n, o)
  <2>1. CASE /\ mem.held[h].kind \in {"none", "detached"}
             /\ Become(AssignDetached(ReleaseBuilder(mem, o), h, Grip(mem.vec[o], "detached")))
    BY <1>1, <2>1, DetachKeeps
  <2>2. CASE /\ mem.held[h].kind = "none"
             /\ Become([ReleaseBuilderRaw(mem, o) EXCEPT !.held[h] = [Grip(mem.vec[o], "raw") EXCEPT !.own = FALSE]])
    BY <1>1, <2>2, DetachRawKeeps
  <2> QED BY <2>1, <2>2 DEF Detach
<1> QED BY <1>1, <1>2, HandShows

LEMMA SendShows ==
  ASSUME Parameters, Inv, DataInv(mem), NEW o \in Object, NEW h \in Holder, Send(o, h)
  PROVE  DataInv(mem') /\ Stacks!HandOver(o, h)
<1>1. o \in DOMAIN mem.vec \cap Msg /\ o \in mem.finished /\ MemInv(mem) /\ RawFirst(mem)
  BY NamesOfVectors DEF Send, Finished
<1>2. \E n : /\ MemInv(n) /\ Become(n) /\ DOMAIN n.vec = DOMAIN mem.vec /\ InHand(mem, n, o, h)
             /\ (n.vec = mem.vec /\ n.finished = mem.finished) \/ GivenUp(mem, n, o)
  <2>1. CASE Become(GetMessage(mem, o, h))
    BY <1>1, <2>1, GetMessageKeeps
  <2>2. CASE Become(ReleaseMessage(mem, o, h))
    BY <1>1, <2>2, ReleaseMessageKeeps
  <2>3. CASE Become(ReleaseMessageRaw(mem, o, h))
    BY <1>1, <2>3, ReleaseMessageRawKeeps
  <2> QED BY <2>1, <2>2, <2>3 DEF Send
<1> QED BY <1>1, <1>2, HandShows

LEMMA PassShows ==
  ASSUME Parameters, Inv, DataInv(mem), NEW h \in Holder, NEW g \in Holder, Pass(h, g)
  PROVE  DataInv(mem') /\ Stacks!Pass(h, g)
<1> DEFINE n == MoveHeld(mem, h, g)
<1>1. h # g /\ Become(n) /\ MemInv(mem) /\ RawFirst(mem)
  BY NamesOfVectors DEF Pass
<1>2. /\ MemInv(n) /\ n.vec = mem.vec /\ n.finished = mem.finished /\ Frozen(mem, n)
      /\ n.held[h] = mem.held[g] /\ n.held[g] = NoBuffer /\ \A x \in Holder \ {h, g} : n.held[x] = mem.held[x]
  BY <1>1, MoveHeldKeeps
<1> HIDE DEF n
<1>3. \A x \in Holder : n.held[x] = NoBuffer \/ \E y \in Holder : n.held[x] = mem.held[y]
  BY <1>2
<1>4. /\ DataInv(n) /\ (\A q : Sees(mem, n, q, q))
      /\ (\A x \in Holder : n.held[x] = NoBuffer => KeptBy(n, x) = <<>>)
      /\ (\A x, y \in Holder : n.held[x] = mem.held[y] => KeptBy(n, x) = KeptBy(mem, y))
  BY <1>1, <1>2, <1>3, PassedSeen
<1>5. DataInv(mem') /\ (\A q : Sees(n, mem', q, q)) /\ SameKept(n, mem')
  BY <1>1, <1>2, <1>4, BecomeSeen
<1>6. /\ (\A q \in Object : Sees(mem, mem', q, q)) /\ KeptBy(mem', h) = KeptBy(mem, g) /\ KeptBy(mem', g) = <<>>
      /\ \A x \in Holder \ {h, g} : KeptBy(mem', x) = KeptBy(mem, x)
  BY <1>2, <1>4, <1>5 DEF Sees, SameKept
<1> QED BY <1>1, <1>5, <1>6, PassStep

LEMMA DropShows ==
  ASSUME Parameters, Inv, DataInv(mem), NEW h \in Holder, Drop(h)
  PROVE  DataInv(mem') /\ Stacks!Drop(h)
<1> DEFINE n == DestroyHeld(mem, h)
<1>1. Become(n) /\ MemInv(mem) /\ RawFirst(mem)
  BY NamesOfVectors DEF Drop
<1>2. /\ MemInv(n) /\ n.vec = mem.vec /\ n.finished = mem.finished /\ Frozen(mem, n)
      /\ n.held = [mem.held EXCEPT ![h] = NoBuffer] /\ DOMAIN mem.held = Holder
  <2>1. /\ MemInv(n) /\ n.vec = mem.vec /\ n.finished = mem.finished /\ Frozen(mem, n)
        /\ n.held = [mem.held EXCEPT ![h] = NoBuffer]
    BY <1>1, DestroyHeldKeeps
  <2>2. DOMAIN mem.held = Holder
    BY <1>1 DEF MemInv, MemTypes
  <2> QED BY <2>1, <2>2
<1> HIDE DEF n
<1>3. /\ n.held[h] = NoBuffer /\ (\A x \in Holder \ {h} : n.held[x] = mem.held[x])
      /\ \A x \in Holder : n.held[x] = NoBuffer \/ \E y \in Holder : n.held[x] = mem.held[y]
  BY <1>2
<1>4. /\ DataInv(n) /\ (\A q : Sees(mem, n, q, q))
      /\ (\A x \in Holder : n.held[x] = NoBuffer => KeptBy(n, x) = <<>>)
      /\ (\A x, y \in Holder : n.held[x] = mem.held[y] => KeptBy(n, x) = KeptBy(mem, y))
  BY <1>1, <1>2, <1>3, PassedSeen
<1>5. DataInv(mem') /\ (\A q : Sees(n, mem', q, q)) /\ SameKept(n, mem')
  BY <1>1, <1>2, <1>4, BecomeSeen
<1>6. /\ (\A q \in Object : Sees(mem, mem', q, q)) /\ KeptBy(mem', h) = <<>>
      /\ \A x \in Holder \ {h} : KeptBy(mem', x) = KeptBy(mem, x)
  BY <1>3, <1>4, <1>5 DEF Sees, SameKept
<1> QED BY <1>5, <1>6, DropStep

\* Who has memory and what is seen of it.
FullInv == Inv /\ DataInv(mem)

LEMMA InitShows ==
  ASSUME Parameters, Init
  PROVE  FullInv /\ Stacks!Init
<1>1. mem.vec = <<>> /\ mem.held = [h \in Holder |-> NoBuffer] /\ DOMAIN <<>> = {}
  BY DEF Init
<1>2. NoBuffer.buf = Null /\ NoBuffer.size = 0 /\ NoBuffer.cur = 0
  BY DEF NoBuffer
<1>3. DataInv(mem)
  BY <1>1, <1>2 DEF DataInv, Apart, LentFinished, HeldSpan
<1>4. \A o : DataOf(mem, o) = <<>> /\ NotesOf(mem, o) = <<>>
  BY <1>1 DEF DataOf, NotesOf
<1>5. ASSUME NEW h \in Holder PROVE KeptBy(mem, h) = <<>>
  <2>1. KeptBy(mem, h) = [i \in 1 .. 0 |-> mem.heap[Null].bytes[0 + i]]
    BY <1>1, <1>2 DEF KeptBy
  <2>2. 1 .. 0 = {}
    OBVIOUS
  <2> QED BY <2>1, <2>2
<1>6. Stacks!Init
  BY <1>4, <1>5, Views DEF Stacks!Init, DataView, NotesView, KeptView
<1> QED BY <1>3, <1>6, InitInv DEF FullInv

LEMMA NextShows ==
  ASSUME Parameters, FullInv, [Next]_ovars
  PROVE  FullInv' /\ [Stacks!Next]_(Stacks!svars)
<1>1. Inv /\ DataInv(mem) /\ Inv'
  BY NextInv DEF FullInv
<1>2. CASE Next
  <2>1. ASSUME NEW o \in Object, Create(o) \/ Write(o) \/ Remove(o) \/ Note(o) \/ Finish(o) \/ Clear(o) \/ Reset(o) \/ Destroy(o)
        PROVE  DataInv(mem') /\ [Stacks!Next]_(Stacks!svars)
    <3>1. CASE Create(o)
      BY <1>1, <3>1, CreateShows
    <3>2. CASE Write(o)
      BY <1>1, <3>2, WriteShows DEF Stacks!Next
    <3>3. CASE Remove(o)
      BY <1>1, <3>3, RemoveShows DEF Stacks!Next
    <3>4. CASE Note(o)
      BY <1>1, <3>4, NoteShows DEF Stacks!Next
    <3>5. CASE Finish(o)
      BY <1>1, <3>5, FinishShows DEF Stacks!Next
    <3>6. CASE Clear(o)
      BY <1>1, <3>6, ClearShows DEF Stacks!Next
    <3>7. CASE Reset(o)
      BY <1>1, <3>7, ResetShows DEF Stacks!Next
    <3>8. CASE Destroy(o)
      BY <1>1, <3>8, DestroyShows DEF Stacks!Next
    <3> QED BY <2>1, <3>1, <3>2, <3>3, <3>4, <3>5, <3>6, <3>7, <3>8
  <2>2. ASSUME NEW o \in Object, NEW p \in Object, Swap(o, p) \/ Move(o, p)
        PROVE  DataInv(mem') /\ [Stacks!Next]_(Stacks!svars)
    BY <1>1, <2>2, SwapShows, MoveShows DEF Stacks!Next
  <2>3. ASSUME NEW o \in Object, NEW h \in Holder, Detach(o, h) \/ Send(o, h)
        PROVE  DataInv(mem') /\ [Stacks!Next]_(Stacks!svars)
    BY <1>1, <2>3, DetachShows, SendShows DEF Stacks!Next
  <2>4. ASSUME NEW h \in Holder, NEW g \in Holder, Pass(h, g)
        PROVE  DataInv(mem') /\ [Stacks!Next]_(Stacks!svars)
    BY <1>1, <2>4, PassShows DEF Stacks!Next
  <2>5. ASSUME NEW h \in Holder, Drop(h)
        PROVE  DataInv(mem') /\ [Stacks!Next]_(Stacks!svars)
    BY <1>1, <2>5, DropShows DEF Stacks!Next
  <2>6. DataInv(mem') /\ [Stacks!Next]_(Stacks!svars)
    BY <1>2, <2>1, <2>2, <2>3, <2>4, <2>5 DEF Next
  <2> QED BY <1>1, <2>6 DEF FullInv
<1>3. CASE UNCHANGED ovars
  <2>1. mem' = mem
    BY <1>3 DEF ovars
  <2>2. (\A q \in Object : Sees(mem, mem', q, q)) /\ SameKept(mem, mem')
    BY <2>1 DEF Sees, SameKept
  <2>3. DataInv(mem')
    BY <1>1, <2>1
  <2> QED BY <1>1, <2>2, <2>3, NoStep DEF FullInv
<1> QED BY <1>2, <1>3

\* Whatever the program does, each builder shows two stacks of its own and a
\* holder what it was handed: growth, exchange, moves and release leave no trace
\* (flatbuffer_builder.h, vector_downward.h, detached_buffer.h, grpc.h).
THEOREM BehavesAsStacksAlways == Spec => BehavesAsStacks
<1>1. Init => FullInv /\ Stacks!Init
  BY ParametersAssumption, InitShows
<1>2. FullInv /\ [Next]_ovars => FullInv' /\ [Stacks!Next]_(Stacks!svars)
  BY ParametersAssumption, NextShows
<1> QED BY <1>1, <1>2, PTL DEF Spec, BehavesAsStacks, Stacks!Spec
=============================================================================
