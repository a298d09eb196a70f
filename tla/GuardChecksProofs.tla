------------------------- MODULE GuardChecksProofs -------------------------
(***************************************************************************)
(* Theorems about GuardChecks, for all bodies: what the plugin's guard and *)
(* patch-gen's removal do to the graph of blocks is computed once by the   *)
(* lemmas, and the invariant GuardInv says which of these graphs "body" is *)
(* in each stage and what a call knows at each block of it.                *)
(***************************************************************************)
EXTENDS GuardChecks, SequenceTheorems, TLAPS

\* A body before its guard: the compiler's, or the stub that only throws.
PlainBlock == Block \cup {"new entry", "throwing"}
PlainOp == Op \cup {"raise"}

PlainBody(b) ==
  /\ IsBody(b, PlainBlock, PlainOp) /\ Closed(b)
  /\ To(b, b.entry) # <<b.entry>>

-----------------------------------------------------------------------------
\* Sequences over a set are sequences over a larger one.
LEMMA SeqSubset ==
  ASSUME NEW S, NEW T, S \subseteq T
  PROVE  Seq(S) \subseteq Seq(T)
BY SeqMonotonic

\* A sequence over a set is one over any set that holds its elements.
LEMMA SeqNarrowed ==
  ASSUME NEW S, NEW T, NEW s \in Seq(S), \A i \in 1 .. Len(s) : s[i] \in T
  PROVE  s \in Seq(T)
<1>1. s = [i \in 1 .. Len(s) |-> s[i]] /\ Len(s) \in Nat
  OBVIOUS
<1>2. QED BY <1>1

\* Cutting off a pair of expressions that was appended.
LEMMA CutPair ==
  ASSUME NEW S, NEW c \in Seq(S), NEW T, NEW p \in Seq(T), Len(p) = 2
  PROVE  /\ Len(c \o p) >= 2
         /\ SubSeq(c \o p, 1, Len(c \o p) - 2) = c
         /\ SubSeq(c \o p, Len(c \o p) - 1, Len(c \o p)) = p
         /\ (c \o p)[Len(c \o p)] = p[2]
<1> DEFINE U == S \cup T
           d == c \o p
           n == Len(c)
<1>1. c \in Seq(U) /\ p \in Seq(U)
  BY SeqSubset
<1>2. d \in Seq(U) /\ Len(d) = n + Len(p)
  BY <1>1, ConcatProperties
<1>3. \A i \in 1 .. n + Len(p) : d[i] = IF i <= n THEN c[i] ELSE p[i - n]
  BY <1>1, ConcatProperties
<1>4. n \in Nat
  OBVIOUS
<1> HIDE DEF U, d, n
<1>5. Len(d) = n + 2
  BY <1>2
<1>6. \A i \in 1 .. Len(d) : d[i] \in U
  BY <1>2, ElementOfSeq
<1>7. SubSeq(d, 1, Len(d) - 2) = c
  <2> DEFINE w == SubSeq(d, 1, n)
  <2>1. w \in Seq(U) /\ Len(w) = n /\ \A i \in 1 .. n : w[i] = d[i]
    <3>1. \A i \in 1 .. n : d[i] \in U
      BY <1>4, <1>5, <1>6
    <3>2. /\ w \in Seq(U) /\ Len(w) = IF 1 <= n THEN n - 1 + 1 ELSE 0
          /\ \A i \in 1 .. n - 1 + 1 : w[i] = d[1 + i - 1]
      BY <3>1, <1>4, SubSeqProperties
    <3> HIDE DEF w
    <3>3. QED BY <3>2, <1>4
  <2> HIDE DEF w
  <2>2. \A i \in 1 .. n : d[i] = c[i]
    BY <1>3, <1>4
  <2>3. w = c
    BY <2>1, <2>2, <1>1, SeqEqual DEF n
  <2>4. Len(d) - 2 = n
    BY <1>4, <1>5
  <2>5. QED BY <2>3, <2>4 DEF w
<1>8. SubSeq(d, Len(d) - 1, Len(d)) = p
  <2> DEFINE w == SubSeq(d, n + 1, n + 2)
  <2>1. w \in Seq(U) /\ Len(w) = 2 /\ \A i \in 1 .. 2 : w[i] = d[n + i]
    <3>1. \A i \in n + 1 .. n + 2 : d[i] \in U
      BY <1>4, <1>5, <1>6
    <3>2. /\ w \in Seq(U)
          /\ Len(w) = IF n + 1 <= n + 2 THEN n + 2 - (n + 1) + 1 ELSE 0
          /\ \A i \in 1 .. n + 2 - (n + 1) + 1 : w[i] = d[n + 1 + i - 1]
      BY <3>1, <1>4, SubSeqProperties
    <3> HIDE DEF w
    <3>3. QED BY <3>2, <1>4
  <2> HIDE DEF w
  <2>2. \A i \in 1 .. 2 : d[n + i] = p[i]
    BY <1>3, <1>4
  <2>3. w = p
    BY <2>1, <2>2, <1>1, SeqEqual
  <2>4. Len(d) - 1 = n + 1 /\ Len(d) = n + 2
    BY <1>4, <1>5
  <2>5. QED BY <2>3, <2>4 DEF w
<1>9. Len(d) >= 2 /\ d[Len(d)] = p[2]
  BY <1>3, <1>4, <1>5
<1>10. QED BY <1>7, <1>8, <1>9 DEF d

\* The two expressions that read the flag, behind the code of an entry.
LEMMA CutFlagCheck ==
  ASSUME NEW S, NEW c \in Seq(S)
  PROVE  /\ Len(c \o FlagCheck) >= 2
         /\ SubSeq(c \o FlagCheck, 1, Len(c \o FlagCheck) - 2) = c
         /\ SubSeq(c \o FlagCheck, Len(c \o FlagCheck) - 1, Len(c \o FlagCheck)) = FlagCheck
         /\ (c \o FlagCheck)[Len(c \o FlagCheck)] = "not"
<1> DEFINE p == FlagCheck
<1>1. p \in Seq({"load flag", "not"}) /\ Len(p) = 2
  BY DEF FlagCheck
<1>2. p[2] = "not"
  BY DEF FlagCheck
<1> HIDE DEF p
<1>3. /\ Len(c \o p) >= 2
      /\ SubSeq(c \o p, 1, Len(c \o p) - 2) = c
      /\ SubSeq(c \o p, Len(c \o p) - 1, Len(c \o p)) = p
      /\ (c \o p)[Len(c \o p)] = p[2]
  BY <1>1, CutPair
<1>4. QED BY <1>2, <1>3 DEF p

\* The fields of a block, wherever the block is.
LEMMA BlockFields ==
  \A b, l, c, t : b.block[l] = Seg(c, t) => Code(b, l) = c /\ To(b, l) = t
  BY DEF Code, To, Seg

\* A block of a plain body is not one that a guard adds.
LEMMA PlainParts ==
  ASSUME NEW b, PlainBody(b)
  PROVE  /\ b.entry \in DOMAIN b.block /\ DOMAIN b.block \subseteq PlainBlock
         /\ DOMAIN b.block \cap {"old entry", "check", "call", "throw", "found", "made",
                                 "synthetic"} = {}
         /\ b.block = [l \in DOMAIN b.block |-> b.block[l]]
         /\ \A l \in DOMAIN b.block :
              /\ Code(b, l) \in Seq(PlainOp) /\ To(b, l) \in Seq(DOMAIN b.block)
              /\ b.block[l] = Seg(Code(b, l), To(b, l))
         /\ To(b, b.entry) # <<b.entry>>
<1>1. /\ b.entry \in DOMAIN b.block /\ DOMAIN b.block \subseteq PlainBlock
      /\ b.block = [l \in DOMAIN b.block |-> b.block[l]]
      /\ \A l \in DOMAIN b.block : b.block[l] \in [code : Seq(PlainOp), to : Seq(PlainBlock)]
  BY DEF PlainBody, IsBody
<1>2. PlainBlock \cap {"old entry", "check", "call", "throw", "found", "made",
                       "synthetic"} = {}
  BY LabelAssumption DEF PlainBlock, NewBlock, Outcome
<1>3. ASSUME NEW l \in DOMAIN b.block
      PROVE  /\ Code(b, l) \in Seq(PlainOp) /\ To(b, l) \in Seq(DOMAIN b.block)
             /\ b.block[l] = Seg(Code(b, l), To(b, l))
  <2>1. /\ Code(b, l) \in Seq(PlainOp) /\ To(b, l) \in Seq(PlainBlock)
        /\ b.block[l] = Seg(Code(b, l), To(b, l))
    BY <1>1 DEF Code, To, Seg
  <2>2. \A i \in 1 .. Len(To(b, l)) : To(b, l)[i] \in DOMAIN b.block
    BY DEF PlainBody, Closed
  <2>3. To(b, l) \in Seq(DOMAIN b.block)
    BY <2>1, <2>2, SeqNarrowed
  <2>4. QED BY <2>1, <2>3
<1>4. QED BY <1>1, <1>2, <1>3 DEF PlainBody

\* Every body that the plugin guards is a plain body.
LEMMA PlainBodies ==
  ASSUME NEW b \in Source \cup {Throwing}
  PROVE  PlainBody(b)
<1>1. CASE b \in Source
  <2>1. IsBody(b, Block, Op) /\ Closed(b) /\ To(b, b.entry) # <<b.entry>>
    BY <1>1, SourceAssumption
  <2>2. Seq(Op) \subseteq Seq(PlainOp) /\ Seq(Block) \subseteq Seq(PlainBlock)
    BY SeqSubset DEF PlainOp, PlainBlock
  <2>3. [code : Seq(Op), to : Seq(Block)] \subseteq [code : Seq(PlainOp), to : Seq(PlainBlock)]
    BY <2>2
  <2>4. IsBody(b, PlainBlock, PlainOp)
    BY <2>1, <2>3 DEF IsBody, PlainBlock
  <2>5. QED BY <2>1, <2>4 DEF PlainBody
<1>2. CASE b = Throwing
  <2>1. /\ b.entry = "new entry" /\ DOMAIN b.block = {"new entry", "throwing"}
        /\ b = [entry |-> b.entry, block |-> b.block]
        /\ b.block = [l \in DOMAIN b.block |-> b.block[l]]
    BY <1>2 DEF Throwing
  <2>a. b.block["new entry"] = Seg(<<>>, <<"throwing">>)
    BY <1>2 DEF Throwing
  <2>b. b.block["throwing"] = Seg(<<"raise">>, <<>>)
    BY <1>2 DEF Throwing
  <2>2. /\ Seg(<<>>, <<"throwing">>) \in [code : Seq(PlainOp), to : Seq(PlainBlock)]
        /\ Seg(<<"raise">>, <<>>) \in [code : Seq(PlainOp), to : Seq(PlainBlock)]
    <3>1. /\ <<>> \in Seq(PlainOp) /\ <<"raise">> \in Seq(PlainOp)
          /\ <<>> \in Seq(PlainBlock) /\ <<"throwing">> \in Seq(PlainBlock)
      BY DEF PlainOp, PlainBlock
    <3>2. QED BY <3>1 DEF Seg
  <2>3. IsBody(b, PlainBlock, PlainOp)
    <3>1. DOMAIN b.block \subseteq PlainBlock /\ b.entry \in DOMAIN b.block
      BY <2>1 DEF PlainBlock
    <3>2. \A l \in DOMAIN b.block :
            b.block[l] \in [code : Seq(PlainOp), to : Seq(PlainBlock)]
      BY <2>1, <2>a, <2>b, <2>2
    <3>3. QED BY <2>1, <3>1, <3>2 DEF IsBody
  <2>4. To(b, "new entry") = <<"throwing">> /\ To(b, "throwing") = <<>>
    <3>1. To(b, "new entry") = <<"throwing">>
      BY <2>a, BlockFields
    <3>2. To(b, "throwing") = <<>>
      BY <2>b, BlockFields
    <3>3. QED BY <3>1, <3>2
  <2>5. Closed(b)
    <3>1. ASSUME NEW l \in DOMAIN b.block, NEW i \in 1 .. Len(To(b, l))
          PROVE  To(b, l)[i] \in DOMAIN b.block
      <4>1. l = "new entry" \/ l = "throwing"
        BY <2>1
      <4>2. CASE l = "new entry"
        <5>1. To(b, l) = <<"throwing">> BY <4>2, <2>4
        <5>2. i = 1 BY <5>1
        <5>3. To(b, l)[i] = "throwing" BY <5>1, <5>2
        <5>4. QED BY <5>3, <2>1
      <4>3. CASE l = "throwing"
        <5>1. To(b, l) = <<>> BY <4>3, <2>4
        <5>2. QED BY <5>1
      <4>4. QED BY <4>1, <4>2, <4>3
    <3>2. QED BY <3>1 DEF Closed
  <2>6. To(b, b.entry) # <<b.entry>>
    <3>1. <<"throwing">> # <<"new entry">>
      OBVIOUS
    <3>2. QED BY <2>1, <2>4, <3>1
  <2>7. QED BY <2>3, <2>5, <2>6 DEF PlainBody
<1>3. QED BY <1>1, <1>2

-----------------------------------------------------------------------------
\* The blocks of a guarded function.
LEMMA GuardedBlocks ==
  ASSUME NEW b, NEW k, PlainBody(b)
  PROVE  /\ Guarded(b, k) = [entry |-> b.entry, block |-> Guarded(b, k).block]
         /\ Guarded(b, k).entry = b.entry
         /\ DOMAIN Guarded(b, k).block = DOMAIN b.block \cup {"check", "call", "throw"}
         /\ Guarded(b, k).block = [l \in DOMAIN Guarded(b, k).block |-> Guarded(b, k).block[l]]
         /\ Guarded(b, k).block[b.entry] =
              Seg(Code(b, b.entry) \o FlagCheck, <<To(b, b.entry)[1], "check">>)
         /\ Guarded(b, k).block["check"] = Seg(VarCheck, <<"call", "throw">>)
         /\ Guarded(b, k).block["call"]  = Seg(<<PatchCall(k)>>, <<>>)
         /\ Guarded(b, k).block["throw"] = Seg(<<"raise">>, <<>>)
         /\ \A l \in DOMAIN b.block \ {b.entry} : Guarded(b, k).block[l] = b.block[l]
<1>1. /\ b.entry \in DOMAIN b.block
      /\ DOMAIN b.block \cap {"check", "call", "throw"} = {}
  BY PlainParts
<1>2. QED BY <1>1 DEF Guarded

\* The blocks of a guarded package init.
LEMMA GuardedInitBlocks ==
  ASSUME NEW b, PlainBody(b)
  PROVE  /\ GuardedInit(b) = [entry |-> b.entry, block |-> GuardedInit(b).block]
         /\ GuardedInit(b).entry = b.entry
         /\ DOMAIN GuardedInit(b).block =
              DOMAIN b.block \cup {"old entry", "check", "found", "made", "call"}
         /\ GuardedInit(b).block =
              [l \in DOMAIN GuardedInit(b).block |-> GuardedInit(b).block[l]]
         /\ GuardedInit(b).block[b.entry] = Seg(FlagCheck, <<"old entry", "check">>)
         /\ GuardedInit(b).block["old entry"] = b.block[b.entry]
         /\ GuardedInit(b).block["check"] = Seg(VarCheck, <<"found", "made">>)
         /\ GuardedInit(b).block["found"] = Seg(<<"use instance">>, <<"call">>)
         /\ GuardedInit(b).block["made"]  = Seg(<<"make instance">>, <<"call">>)
         /\ GuardedInit(b).block["call"]  = Seg(<<"invoke guard method">>, <<>>)
         /\ \A l \in DOMAIN b.block \ {b.entry} : GuardedInit(b).block[l] = b.block[l]
<1>1. /\ b.entry \in DOMAIN b.block
      /\ DOMAIN b.block \cap {"old entry", "check", "found", "made", "call"} = {}
  BY PlainParts
<1>2. QED BY <1>1 DEF GuardedInit

\* What a terminator with two successors leads to.
LEMMA PairTargets ==
  \A b, l, x, y :
    To(b, l) = <<x, y>> => To(b, l)[1] = x /\ To(b, l)[2] = y /\ IsBranch(b, l)
<1>1. \A t, x, y : t = <<x, y>> => t[1] = x /\ t[2] = y /\ Len(t) = 2
  OBVIOUS
<1>2. QED BY <1>1 DEF IsBranch

\* The shape of both, whatever the blocks hold.
LEMMA GuardedShape ==
  ASSUME NEW b, NEW k, PlainBody(b)
  PROVE  /\ Guarded(b, k).entry = b.entry
         /\ DOMAIN Guarded(b, k).block = DOMAIN b.block \cup {"check", "call", "throw"}
         /\ \A l \in DOMAIN b.block \ {b.entry} : Guarded(b, k).block[l] = b.block[l]
BY GuardedBlocks

LEMMA GuardedInitShape ==
  ASSUME NEW b, PlainBody(b)
  PROVE  /\ GuardedInit(b).entry = b.entry
         /\ DOMAIN GuardedInit(b).block =
              DOMAIN b.block \cup {"old entry", "check", "found", "made", "call"}
         /\ GuardedInit(b).block["old entry"] = b.block[b.entry]
         /\ \A l \in DOMAIN b.block \ {b.entry} : GuardedInit(b).block[l] = b.block[l]
BY GuardedInitBlocks

\* A plain entry with a single successor leads to another block of the body.
LEMMA OwnBlock ==
  ASSUME NEW b, PlainBody(b), SingleSuccessor(b)
  PROVE  /\ To(b, b.entry)[1] \in DOMAIN b.block \ {b.entry}
         /\ To(b, b.entry) = <<To(b, b.entry)[1]>>
<1>1. b.entry \in DOMAIN b.block /\ To(b, b.entry) \in Seq(DOMAIN b.block)
  BY PlainParts
<1>2. To(b, b.entry) = <<To(b, b.entry)[1]>>
  BY <1>1 DEF SingleSuccessor
<1>3. To(b, b.entry)[1] \in DOMAIN b.block
  BY <1>1 DEF SingleSuccessor
<1>4. QED BY <1>2, <1>3, PlainParts

\* The guard of a function is recognised, and removing it gives the body back
\* with its first two blocks merged.
LEMMA FunctionRoundTrip ==
  ASSUME NEW b, NEW k, k # "package init", PlainBody(b), SingleSuccessor(b)
  PROVE  Recognised(Guarded(b, k), k) /\ Unguarded(Guarded(b, k)) = Merged(b)
<1> DEFINE g   == Guarded(b, k)
           own == To(b, b.entry)[1]
           c   == Code(b, b.entry)
<1>1. /\ b.entry \in DOMAIN b.block /\ own \in DOMAIN b.block /\ own # b.entry
      /\ DOMAIN b.block \cap {"check", "call", "throw"} = {}
  BY OwnBlock, PlainParts
<1>c. c \in Seq(PlainOp)
  BY PlainParts
<1>2. /\ g.entry = b.entry /\ DOMAIN g.block = DOMAIN b.block \cup {"check", "call", "throw"}
      /\ Code(g, b.entry) = c \o FlagCheck /\ To(g, b.entry) = <<own, "check">>
      /\ To(g, "check") = <<"call", "throw">>
      /\ \A l \in DOMAIN b.block \ {b.entry} : g.block[l] = b.block[l]
  <2>1. /\ g.entry = b.entry
        /\ DOMAIN g.block = DOMAIN b.block \cup {"check", "call", "throw"}
        /\ \A l \in DOMAIN b.block \ {b.entry} : g.block[l] = b.block[l]
    BY GuardedBlocks
  <2>2. /\ g.block[b.entry] = Seg(c \o FlagCheck, <<own, "check">>)
        /\ g.block["check"] = Seg(VarCheck, <<"call", "throw">>)
    BY GuardedBlocks
  <2> HIDE DEF g, own, c
  <2>3. Code(g, b.entry) = c \o FlagCheck /\ To(g, b.entry) = <<own, "check">>
    BY <2>2, BlockFields
  <2>4. To(g, "check") = <<"call", "throw">>
    BY <2>2, BlockFields
  <2>5. QED BY <2>1, <2>3, <2>4
<1> HIDE DEF g, own, c
<1>e. To(g, g.entry) = <<own, "check">>
  BY <1>2
<1>k. To(g, "check") = <<"call", "throw">>
  BY <1>2
<1>3. /\ To(g, g.entry)[1] = own /\ To(g, g.entry)[2] = "check" /\ IsBranch(g, g.entry)
      /\ To(g, "check")[1] = "call" /\ To(g, "check")[2] = "throw" /\ IsBranch(g, "check")
  <2>1. /\ To(g, g.entry)[1] = own /\ To(g, g.entry)[2] = "check" /\ IsBranch(g, g.entry)
    BY <1>e, PairTargets
  <2>2. /\ To(g, "check")[1] = "call" /\ To(g, "check")[2] = "throw" /\ IsBranch(g, "check")
    BY <1>k, PairTargets
  <2>3. QED BY <2>1, <2>2
<1>4. /\ Len(c \o FlagCheck) >= 2
      /\ SubSeq(c \o FlagCheck, 1, Len(c \o FlagCheck) - 2) = c
      /\ SubSeq(c \o FlagCheck, Len(c \o FlagCheck) - 1, Len(c \o FlagCheck)) = FlagCheck
  BY <1>c, CutFlagCheck
<1>5. Recognised(g, k)
  BY <1>2, <1>3, <1>4 DEF Recognised
<1>6. Unguarded(g) = Merged(b)
  <2> DEFINE U(l) == IF l = g.entry
                     THEN Seg(SubSeq(c \o FlagCheck, 1, Len(c \o FlagCheck) - 2)
                                \o Code(g, own), To(g, own))
                     ELSE g.block[l]
             M(l) == IF l = b.entry THEN Seg(c \o Code(b, own), To(b, own)) ELSE b.block[l]
  <2>1. DOMAIN g.block \ {"check", "call", "throw", own} = DOMAIN b.block \ {own}
    BY <1>1, <1>2
  <2>2. Code(g, own) = Code(b, own) /\ To(g, own) = To(b, own)
    BY <1>1, <1>2 DEF Code, To
  <2>3. \A l \in DOMAIN b.block \ {own} : U(l) = M(l)
    BY <2>2, <1>2, <1>4
  <2>4. Merged(b) = [entry |-> b.entry, block |-> [l \in DOMAIN b.block \ {own} |-> M(l)]]
    BY DEF Merged, own, c
  <2>5. Unguarded(g) =
          [ entry |-> g.entry,
            block |-> [l \in DOMAIN g.block \ {"check", "call", "throw", own} |-> U(l)] ]
    BY <1>2, <1>3 DEF Unguarded
  <2> HIDE DEF U, M
  <2>6. QED BY <2>1, <2>3, <2>4, <2>5, <1>2
<1>7. QED BY <1>5, <1>6 DEF g

\* The guard of a package init is recognised, and removing it gives the body
\* back, its entry under the name of the appended block.
LEMMA InitRoundTrip ==
  ASSUME NEW b, PlainBody(b)
  PROVE  /\ Recognised(GuardedInit(b), "package init")
         /\ UnguardedInit(GuardedInit(b)) = Renamed(b)
<1> DEFINE g == GuardedInit(b)
<1>1. /\ b.entry \in DOMAIN b.block
      /\ DOMAIN b.block \cap {"old entry", "check", "found", "made", "call"} = {}
  BY PlainParts
<1>2. /\ g.entry = b.entry
      /\ DOMAIN g.block = DOMAIN b.block \cup {"old entry", "check", "found", "made", "call"}
      /\ To(g, b.entry) = <<"old entry", "check">>
      /\ To(g, "check") = <<"found", "made">> /\ To(g, "found") = <<"call">>
      /\ g.block["old entry"] = b.block[b.entry]
      /\ \A l \in DOMAIN b.block \ {b.entry} : g.block[l] = b.block[l]
  <2>1. /\ g.entry = b.entry
        /\ DOMAIN g.block =
             DOMAIN b.block \cup {"old entry", "check", "found", "made", "call"}
        /\ g.block["old entry"] = b.block[b.entry]
        /\ \A l \in DOMAIN b.block \ {b.entry} : g.block[l] = b.block[l]
    BY GuardedInitBlocks
  <2>2. /\ g.block[b.entry] = Seg(FlagCheck, <<"old entry", "check">>)
        /\ g.block["check"] = Seg(VarCheck, <<"found", "made">>)
        /\ g.block["found"] = Seg(<<"use instance">>, <<"call">>)
    BY GuardedInitBlocks
  <2> HIDE DEF g
  <2>3. To(g, b.entry) = <<"old entry", "check">>
    BY <2>2, BlockFields
  <2>4. To(g, "check") = <<"found", "made">>
    BY <2>2, BlockFields
  <2>5. To(g, "found") = <<"call">>
    BY <2>2, BlockFields
  <2>6. QED BY <2>1, <2>3, <2>4, <2>5
<1> HIDE DEF g
<1>3. /\ To(g, g.entry)[1] = "old entry" /\ To(g, g.entry)[2] = "check"
      /\ IsBranch(g, g.entry)
      /\ To(g, "check")[1] = "found" /\ To(g, "check")[2] = "made" /\ IsBranch(g, "check")
      /\ To(g, "found")[1] = "call" /\ Len(To(g, "found")) = 1
  <2>1. /\ To(g, g.entry)[1] = "old entry" /\ To(g, g.entry)[2] = "check"
        /\ IsBranch(g, g.entry)
        /\ To(g, "check")[1] = "found" /\ To(g, "check")[2] = "made" /\ IsBranch(g, "check")
    <3>1. To(g, g.entry) = <<"old entry", "check">>
      BY <1>2
    <3>2. To(g, "check") = <<"found", "made">>
      BY <1>2
    <3>3. To(g, g.entry)[1] = "old entry" /\ To(g, g.entry)[2] = "check" /\ IsBranch(g, g.entry)
      BY <3>1, PairTargets
    <3>4. To(g, "check")[1] = "found" /\ To(g, "check")[2] = "made" /\ IsBranch(g, "check")
      BY <3>2, PairTargets
    <3>5. QED BY <3>3, <3>4
  <2> DEFINE t == To(g, "found")
  <2>2. t = <<"call">>
    BY <1>2
  <2> HIDE DEF t
  <2>3. t[1] = "call" /\ Len(t) = 1
    BY <2>2
  <2>4. QED BY <2>1, <2>3 DEF t
<1>4. Recognised(g, "package init")
  BY <1>3 DEF Recognised
<1>5. UnguardedInit(g) = Renamed(b)
  <2>1. DOMAIN g.block \ {g.entry, "check", "found", "made", "call"} =
          (DOMAIN b.block \ {b.entry}) \cup {"old entry"}
    BY <1>1, <1>2
  <2>2. \A l \in (DOMAIN b.block \ {b.entry}) \cup {"old entry"} :
          g.block[l] = IF l = "old entry" THEN b.block[b.entry] ELSE b.block[l]
    BY <1>1, <1>2
  <2>3. UnguardedInit(g) =
          [ entry |-> "old entry",
            block |-> [ l \in DOMAIN g.block \ {g.entry, "check", "found", "made", "call"} |->
                        g.block[l] ] ]
    BY <1>3 DEF UnguardedInit
  <2>4. QED BY <2>1, <2>2, <2>3 DEF Renamed
<1>6. QED BY <1>4, <1>5 DEF g

-----------------------------------------------------------------------------
WithGuard(b, k) == IF k = "package init" THEN GuardedInit(b) ELSE Guarded(b, k)
WithoutGuard(b, k) == IF k = "package init" THEN Renamed(b) ELSE Merged(b)

\* Which body there is in each stage.
BodyInv ==
  /\ kind \in {"function", "constructor", "package init"}
  /\ plain \in Source \cup {Throwing}
  /\ stage \in {"source", "refused", "guarded", "removed"}
  /\ stage \in {"source", "refused"} => body = plain
  /\ stage = "guarded" =>
       body = WithGuard(plain, kind) /\ (kind # "package init" => SingleSuccessor(plain))
  /\ stage = "removed" => body = WithoutGuard(plain, kind)

LEMMA BodyInit == Init => BodyInv
BY DEF Init, BodyInv

LEMMA CallsKeepBody ==
  Call \/ Continue => UNCHANGED <<kind, plain, body, stage>>
BY DEF Call, Continue, TestFlag, TestGuardVar, UseInstance, MakeInstance,
       ApplySyntheticConstructor, InvokeGuardMethod, Raise, RunOwnBlock

\* Removal recognises every guard: the only use of the two round trips.
LEMMA GuardRecognised ==
  ASSUME BodyInv, stage = "guarded"
  PROVE  /\ Recognised(body, kind)
         /\ (IF kind = "package init" THEN UnguardedInit(body) ELSE Unguarded(body))
              = WithoutGuard(plain, kind)
<1>1. PlainBody(plain) /\ body = WithGuard(plain, kind)
  BY PlainBodies DEF BodyInv
<1>2. CASE kind = "package init"
  BY <1>1, <1>2, InitRoundTrip DEF WithGuard, WithoutGuard
<1>3. CASE kind # "package init"
  <2>1. SingleSuccessor(plain)
    BY <1>3 DEF BodyInv
  <2>2. QED BY <1>1, <1>3, <2>1, FunctionRoundTrip DEF WithGuard, WithoutGuard
<1>4. QED BY <1>2, <1>3

LEMMA BodyStep == BodyInv /\ [Next]_vars => BodyInv'
<1> SUFFICES ASSUME BodyInv, [Next]_vars
             PROVE  BodyInv'
  OBVIOUS
<1>1. CASE ReplaceBodyWithThrow
  BY <1>1 DEF ReplaceBodyWithThrow, BodyInv
<1>2. CASE GenGuardChecks
  <2>1. body = plain /\ SingleSuccessor(plain) /\ kind # "package init"
    BY <1>2 DEF GenGuardChecks, BodyInv
  <2>2. body' = WithGuard(plain, kind)
    BY <1>2, <2>1 DEF GenGuardChecks, WithGuard
  <2>3. UNCHANGED <<kind, plain>> /\ stage' = "guarded"
    BY <1>2 DEF GenGuardChecks
  <2>4. QED BY <2>1, <2>2, <2>3 DEF BodyInv
<1>3. CASE GenPackageInitGuardChecks
  <2>1. body = plain /\ kind = "package init"
    BY <1>3 DEF GenPackageInitGuardChecks, BodyInv
  <2>2. body' = WithGuard(plain, kind)
    BY <1>3, <2>1 DEF GenPackageInitGuardChecks, WithGuard
  <2>3. UNCHANGED <<kind, plain>> /\ stage' = "guarded"
    BY <1>3 DEF GenPackageInitGuardChecks
  <2>4. QED BY <2>1, <2>2, <2>3 DEF BodyInv
<1>4. CASE Refuse
  BY <1>4 DEF Refuse, BodyInv
<1>5. CASE RemoveGuardChecks
  <2>1. body' = WithoutGuard(plain, kind) /\ stage' = "removed"
    <3>1. stage = "guarded"
      BY <1>5 DEF RemoveGuardChecks
    <3>2. /\ Recognised(body, kind)
          /\ (IF kind = "package init" THEN UnguardedInit(body) ELSE Unguarded(body))
               = WithoutGuard(plain, kind)
      BY <3>1, GuardRecognised
    <3>3. /\ body' = IF kind = "package init" THEN UnguardedInit(body) ELSE Unguarded(body)
          /\ stage' = "removed"
      <4>1. Recognised(body, kind)
        BY <3>2
      <4>2. QED BY <1>5, <4>1 DEF RemoveGuardChecks
    <3>4. QED BY <3>2, <3>3
  <2>2. UNCHANGED <<kind, plain>>
    BY <1>5 DEF RemoveGuardChecks
  <2>3. QED BY <2>1, <2>2 DEF BodyInv
<1>6. CASE Call \/ Continue \/ UNCHANGED vars
  <2>1. UNCHANGED <<kind, plain, body, stage>>
    BY <1>6, CallsKeepBody DEF vars
  <2>2. QED BY <2>1 DEF BodyInv
<1>7. QED BY <1>1, <1>2, <1>3, <1>4, <1>5, <1>6 DEF Next

LEMMA BodyInvariant == Spec => []BodyInv
BY BodyInit, BodyStep, PTL DEF Spec

\* patch-gen gives back the original code of every function, constructor and
\* package init, its entry merged or renamed, whatever the body.
THEOREM RoundTripTheorem == Spec => []RoundTrip
<1>1. BodyInv => RoundTrip
  BY DEF BodyInv, RoundTrip, WithoutGuard
<1>2. QED BY <1>1, BodyInvariant, PTL

\* Every guard that the plugin makes is one that patch-gen recognises.
THEOREM GuardsRecognisedTheorem == Spec => []GuardsRecognised
<1>1. BodyInv => GuardsRecognised
  BY DEF BodyInv, GuardsRecognised
<1>2. QED BY <1>1, BodyInvariant, PTL

-----------------------------------------------------------------------------
\* What the blocks of a guarded body end in, which is what a call does there.
Ends(c, o) == c # <<>> /\ c[Len(c)] = o

LEMMA EndsSingle == \A x, o : Ends(<<x>>, o) <=> o = x
<1>1. \A x : <<x>> # <<>> /\ <<x>>[Len(<<x>>)] = x
  OBVIOUS
<1>2. QED BY <1>1 DEF Ends

LEMMA EndsVarCheck ==
  ASSUME NEW o
  PROVE  Ends(VarCheck, o) <=> o = "tag is false"
<1>1. VarCheck # <<>> /\ VarCheck[Len(VarCheck)] = "tag is false"
  BY DEF VarCheck
<1>2. QED BY <1>1 DEF Ends

LEMMA EndsFlagCheck ==
  ASSUME NEW o
  PROVE  Ends(FlagCheck, o) <=> o = "not"
<1>1. FlagCheck # <<>> /\ FlagCheck[Len(FlagCheck)] = "not"
  BY DEF FlagCheck
<1>2. QED BY <1>1 DEF Ends

LEMMA EndsWithFlagCheck ==
  ASSUME NEW S, NEW c \in Seq(S), NEW o
  PROVE  Ends(c \o FlagCheck, o) <=> o = "not"
<1> DEFINE d == c \o FlagCheck
<1>1. Len(d) >= 2 /\ d[Len(d)] = "not"
  BY CutFlagCheck
<1> HIDE DEF d
<1>2. d # <<>>
  BY <1>1
<1>3. Ends(d, o) <=> o = "not"
  BY <1>1, <1>2 DEF Ends
<1>4. QED BY <1>3 DEF d

LEMMA EndsPlain ==
  ASSUME NEW S, NEW c \in Seq(S), NEW o, Ends(c, o)
  PROVE  o \in S
<1>1. Len(c) \in 1 .. Len(c)
  BY DEF Ends
<1>2. QED BY <1>1, ElementOfSeq DEF Ends

\* The code of a block and what it ends in, wherever the block is.
LEMMA CodeEnds ==
  \A b, l, c, t, o : b.block[l] = Seg(c, t) => (Ends(Code(b, l), o) <=> Ends(c, o))
BY BlockFields

\* Only the stub raises, and nothing follows.
LEMMA PlainRaise ==
  ASSUME NEW b \in Source \cup {Throwing}, NEW l \in DOMAIN b.block, Ends(Code(b, l), "raise")
  PROVE  To(b, l) = <<>>
<1>1. CASE b \in Source
  <2>1. Code(b, l) \in Seq(Op)
    BY <1>1, SourceAssumption DEF IsBody, Code
  <2>2. "raise" \in Op
    BY <2>1, EndsPlain
  <2>3. QED BY <2>2, LabelAssumption DEF NewOp
<1>2. CASE b = Throwing
  <2>1. b.block["new entry"] = Seg(<<>>, <<"throwing">>)
    BY <1>2 DEF Throwing
  <2>2. b.block["throwing"] = Seg(<<"raise">>, <<>>)
    BY <1>2 DEF Throwing
  <2>3. DOMAIN b.block = {"new entry", "throwing"}
    BY <1>2 DEF Throwing
  <2>4. Code(b, "new entry") = <<>>
    BY <2>1, BlockFields
  <2>5. To(b, "throwing") = <<>>
    BY <2>2, BlockFields
  <2>6. CASE l = "new entry"
    BY <2>4, <2>6 DEF Ends
  <2>7. QED BY <2>3, <2>5, <2>6
<1>3. QED BY <1>1, <1>2

\* The places of the original code in a guarded body, and their original names.
OwnPlace(l, b, k) == l \in DOMAIN b.block \ {b.entry} \/ (k = "package init" /\ l = "old entry")
Original(l, b) == IF l = "old entry" THEN b.entry ELSE l

\* Where the call is and where it can go next, told from what the block ends in.
Located(b, k, l, o) ==
  \/ o = "not" /\ l = b.entry
  \/ o = "tag is false" /\ l = "check"
  \/ o = "use instance" /\ l = "found" /\ k = "package init"
  \/ o = "make instance" /\ l = "made" /\ k = "package init"
  \/ o = PatchCall(k) /\ l = "call"
  \/ o = "raise" /\ l = "throw" /\ k # "package init"
  \/ o \in PlainOp /\ OwnPlace(l, b, k)

LEMMA FunctionBlocks ==
  ASSUME NEW b, NEW k, k # "package init", PlainBody(b),
         NEW l \in DOMAIN Guarded(b, k).block, NEW o, Ends(Code(Guarded(b, k), l), o)
  PROVE  Located(b, k, l, o)
<1> DEFINE g == Guarded(b, k)
<1>1. /\ b.entry \in DOMAIN b.block
      /\ DOMAIN g.block = DOMAIN b.block \cup {"check", "call", "throw"}
  BY PlainParts, GuardedBlocks
<1>a. g.block[b.entry] = Seg(Code(b, b.entry) \o FlagCheck, <<To(b, b.entry)[1], "check">>)
  BY GuardedBlocks
<1>b1. g.block["check"] = Seg(VarCheck, <<"call", "throw">>)
  BY GuardedBlocks
<1>b2. g.block["call"] = Seg(<<PatchCall(k)>>, <<>>)
  BY GuardedBlocks
<1>b3. g.block["throw"] = Seg(<<"raise">>, <<>>)
  BY GuardedBlocks
<1>b4. \A m \in DOMAIN b.block \ {b.entry} : g.block[m] = b.block[m]
  BY GuardedBlocks
<1>c. Ends(Code(g, l), o)
  OBVIOUS
<1> HIDE DEF g
<1>2. ASSUME l = b.entry
      PROVE  Located(b, k, l, o)
  <2>1. Code(g, l) = Code(b, b.entry) \o FlagCheck
    BY <1>2, <1>a, BlockFields
  <2>2. Code(b, b.entry) \in Seq(PlainOp)
    BY PlainParts
  <2>3. o = "not"
    BY <1>c, <2>1, <2>2, EndsWithFlagCheck
  <2>4. QED BY <1>2, <2>3 DEF Located
<1>3. ASSUME l = "check"
      PROVE  Located(b, k, l, o)
  <2>1. Ends(VarCheck, o)
    BY <1>3, <1>c, <1>b1, CodeEnds
  <2>2. o = "tag is false"
    BY <2>1, EndsVarCheck
  <2>3. QED BY <1>3, <2>2 DEF Located
<1>4. ASSUME l = "call"
      PROVE  Located(b, k, l, o)
  <2>1. Ends(<<PatchCall(k)>>, o)
    BY <1>4, <1>c, <1>b2, CodeEnds
  <2>2. o = PatchCall(k)
    BY <2>1, EndsSingle
  <2>3. QED BY <1>4, <2>2 DEF Located
<1>5. ASSUME l = "throw"
      PROVE  Located(b, k, l, o)
  <2>1. Ends(<<"raise">>, o)
    BY <1>5, <1>c, <1>b3, CodeEnds
  <2>2. o = "raise"
    BY <2>1, EndsSingle
  <2>3. QED BY <1>5, <2>2 DEF Located
<1>6. ASSUME l \in DOMAIN b.block \ {b.entry}
      PROVE  Located(b, k, l, o)
  <2>1. Code(g, l) = Code(b, l)
    BY <1>6, <1>b4 DEF Code
  <2>2. Code(b, l) \in Seq(PlainOp)
    BY <1>6, PlainParts
  <2>3. o \in PlainOp
    BY <1>c, <2>1, <2>2, EndsPlain
  <2>4. QED BY <1>6, <2>3 DEF Located, OwnPlace
<1>7. QED
  <2>1. l \in DOMAIN g.block
    BY DEF g
  <2>2. Located(b, k, l, o)
    BY <1>1, <1>2, <1>3, <1>4, <1>5, <1>6, <2>1
  <2>3. QED BY <2>2 DEF g

LEMMA InitBlocks ==
  ASSUME NEW b, PlainBody(b),
         NEW l \in DOMAIN GuardedInit(b).block, NEW o, Ends(Code(GuardedInit(b), l), o)
  PROVE  Located(b, "package init", l, o)
<1> DEFINE g == GuardedInit(b)
<1>1. /\ b.entry \in DOMAIN b.block
      /\ DOMAIN g.block = DOMAIN b.block \cup {"old entry", "check", "found", "made", "call"}
  BY PlainParts, GuardedInitBlocks
<1>a. g.block[b.entry] = Seg(FlagCheck, <<"old entry", "check">>)
  BY GuardedInitBlocks
<1>b1. g.block["check"] = Seg(VarCheck, <<"found", "made">>)
  BY GuardedInitBlocks
<1>b2. g.block["found"] = Seg(<<"use instance">>, <<"call">>)
  BY GuardedInitBlocks
<1>b3. g.block["made"] = Seg(<<"make instance">>, <<"call">>)
  BY GuardedInitBlocks
<1>b4. g.block["call"] = Seg(<<"invoke guard method">>, <<>>)
  BY GuardedInitBlocks
<1>b5. g.block["old entry"] = b.block[b.entry]
  BY GuardedInitBlocks
<1>b6. \A m \in DOMAIN b.block \ {b.entry} : g.block[m] = b.block[m]
  BY GuardedInitBlocks
<1>c. Ends(Code(g, l), o)
  OBVIOUS
<1> HIDE DEF g
<1>2. ASSUME l = b.entry
      PROVE  Located(b, "package init", l, o)
  <2>1. Code(g, l) = FlagCheck
    BY <1>2, <1>a, BlockFields
  <2>2. o = "not"
    BY <1>c, <2>1, EndsFlagCheck
  <2>3. QED BY <1>2, <2>2 DEF Located
<1>3. ASSUME l = "check"
      PROVE  Located(b, "package init", l, o)
  <2>1. Ends(VarCheck, o)
    BY <1>3, <1>c, <1>b1, CodeEnds
  <2>2. o = "tag is false"
    BY <2>1, EndsVarCheck
  <2>3. QED BY <1>3, <2>2 DEF Located
<1>4. ASSUME l = "found"
      PROVE  Located(b, "package init", l, o)
  <2>1. Ends(<<"use instance">>, o)
    BY <1>4, <1>c, <1>b2, CodeEnds
  <2>2. o = "use instance"
    BY <2>1, EndsSingle
  <2>3. QED BY <1>4, <2>2 DEF Located
<1>5. ASSUME l = "made"
      PROVE  Located(b, "package init", l, o)
  <2>1. Ends(<<"make instance">>, o)
    BY <1>5, <1>c, <1>b3, CodeEnds
  <2>2. o = "make instance"
    BY <2>1, EndsSingle
  <2>3. QED BY <1>5, <2>2 DEF Located
<1>6. ASSUME l = "call"
      PROVE  Located(b, "package init", l, o)
  <2>1. Ends(<<"invoke guard method">>, o)
    BY <1>6, <1>c, <1>b4, CodeEnds
  <2>2. o = "invoke guard method"
    BY <2>1, EndsSingle
  <2>3. QED BY <1>6, <2>2 DEF Located, PatchCall
<1>7. ASSUME l \in DOMAIN b.block \ {b.entry} \/ l = "old entry"
      PROVE  Located(b, "package init", l, o)
  <2>1. Code(g, l) = Code(b, Original(l, b))
    <3>1. "old entry" \notin DOMAIN b.block
      BY PlainParts
    <3>2. QED BY <1>7, <3>1, <1>b5, <1>b6 DEF Code, Original
  <2>2. Code(b, Original(l, b)) \in Seq(PlainOp)
    BY <1>1, <1>7, PlainParts DEF Original
  <2>3. o \in PlainOp
    BY <1>c, <2>1, <2>2, EndsPlain
  <2>4. QED BY <1>7, <2>3 DEF Located, OwnPlace
<1>8. QED
  <2>1. l \in DOMAIN g.block
    BY DEF g
  <2>2. Located(b, "package init", l, o)
    BY <1>1, <1>2, <1>3, <1>4, <1>5, <1>6, <1>7, <2>1
  <2>3. QED BY <2>2 DEF g

\* The blocks that a guard adds, and the entry it takes over, are not empty.
LEMMA GuardNotEmpty ==
  ASSUME BodyInv, stage = "guarded", NEW l \in DOMAIN body.block, ~OwnPlace(l, plain, kind)
  PROVE  Code(body, l) # <<>>
<1>1. PlainBody(plain) /\ body = WithGuard(plain, kind)
  BY PlainBodies DEF BodyInv
<1> SUFFICES \E o : Ends(Code(body, l), o)
  BY DEF Ends
<1>2. CASE kind = "package init"
  <2> DEFINE b == plain
             g == GuardedInit(b)
  <2>1. /\ DOMAIN g.block = DOMAIN b.block \cup {"old entry", "check", "found", "made", "call"}
        /\ body = g
    BY <1>1, <1>2, GuardedInitBlocks DEF WithGuard
  <2>2. l \in {b.entry, "check", "found", "made", "call"}
    BY <1>2, <2>1 DEF OwnPlace
  <2>a. g.block[b.entry] = Seg(FlagCheck, <<"old entry", "check">>)
    BY <1>1, GuardedInitBlocks
  <2>b. g.block["check"] = Seg(VarCheck, <<"found", "made">>)
    BY <1>1, GuardedInitBlocks
  <2>c. g.block["found"] = Seg(<<"use instance">>, <<"call">>)
    BY <1>1, GuardedInitBlocks
  <2>d. g.block["made"] = Seg(<<"make instance">>, <<"call">>)
    BY <1>1, GuardedInitBlocks
  <2>e. g.block["call"] = Seg(<<"invoke guard method">>, <<>>)
    BY <1>1, GuardedInitBlocks
  <2> HIDE DEF g, b
  <2>3. Ends(FlagCheck, "not") /\ Ends(VarCheck, "tag is false")
    BY EndsFlagCheck, EndsVarCheck
  <2>4. Ends(Code(g, b.entry), "not")
    BY <2>3, <2>a, CodeEnds
  <2>5. Ends(Code(g, "check"), "tag is false")
    BY <2>3, <2>b, CodeEnds
  <2>6. Ends(Code(g, "found"), "use instance")
    BY <2>c, CodeEnds, EndsSingle
  <2>7. Ends(Code(g, "made"), "make instance")
    BY <2>d, CodeEnds, EndsSingle
  <2>8. Ends(Code(g, "call"), "invoke guard method")
    BY <2>e, CodeEnds, EndsSingle
  <2>9. QED BY <2>1, <2>2, <2>4, <2>5, <2>6, <2>7, <2>8
<1>3. CASE kind # "package init"
  <2> DEFINE b == plain
             k == kind
             g == Guarded(b, k)
  <2>1. DOMAIN g.block = DOMAIN b.block \cup {"check", "call", "throw"} /\ body = g
    BY <1>1, <1>3, GuardedBlocks DEF WithGuard
  <2>2. l \in {b.entry, "check", "call", "throw"}
    BY <2>1 DEF OwnPlace
  <2>a. g.block[b.entry] = Seg(Code(b, b.entry) \o FlagCheck, <<To(b, b.entry)[1], "check">>)
    BY <1>1, GuardedBlocks
  <2>b. g.block["check"] = Seg(VarCheck, <<"call", "throw">>)
    BY <1>1, GuardedBlocks
  <2>c. g.block["call"] = Seg(<<PatchCall(k)>>, <<>>)
    BY <1>1, GuardedBlocks
  <2>d. g.block["throw"] = Seg(<<"raise">>, <<>>)
    BY <1>1, GuardedBlocks
  <2>3. Ends(Code(b, b.entry) \o FlagCheck, "not")
    <3>1. Code(b, b.entry) \in Seq(PlainOp)
      BY <1>1, PlainParts
    <3>2. QED BY <3>1, EndsWithFlagCheck
  <2>4. Ends(VarCheck, "tag is false")
    BY EndsVarCheck
  <2> HIDE DEF g, b, k
  <2>5. Ends(Code(g, b.entry), "not")
    BY <2>3, <2>a, CodeEnds
  <2>6. Ends(Code(g, "check"), "tag is false")
    BY <2>4, <2>b, CodeEnds
  <2>7. Ends(Code(g, "call"), PatchCall(k))
    BY <2>c, CodeEnds, EndsSingle
  <2>8. Ends(Code(g, "throw"), "raise")
    BY <2>d, CodeEnds, EndsSingle
  <2>9. QED BY <2>1, <2>2, <2>5, <2>6, <2>7, <2>8
<1>4. QED BY <1>2, <1>3

\* Where a call is, told from what its code ends in.
LEMMA WhereCallIs ==
  ASSUME BodyInv, InCall, NEW o, EndsIn(o)
  PROVE  \/ at = "synthetic" /\ o = "invoke guard method"
         \/ at \in DOMAIN body.block /\ Located(plain, kind, at, o)
<1>1. PlainBody(plain) /\ body = WithGuard(plain, kind)
  BY PlainBodies DEF BodyInv, InCall
<1>2. CASE at = "synthetic"
  <2>1. Here = <<"invoke guard method">>
    BY <1>2 DEF Here
  <2>2. Ends(Here, o)
    BY DEF EndsIn, Ends
  <2>3. QED BY <1>2, <2>1, <2>2, EndsSingle
<1>3. CASE at # "synthetic"
  <2>1. at \in DOMAIN body.block /\ Ends(Code(body, at), o)
    BY <1>3 DEF InCall, EndsIn, Here, Ends
  <2>2. CASE kind = "package init"
    BY <1>1, <2>1, <2>2, InitBlocks DEF WithGuard
  <2>3. CASE kind # "package init"
    BY <1>1, <2>1, <2>3, FunctionBlocks DEF WithGuard
  <2>4. QED BY <2>1, <2>2, <2>3
<1>4. QED BY <1>2, <1>3

\* The function's own code is all that is left.
LEMMA WhereOwnCodeIs ==
  ASSUME BodyInv, InCall, Here = <<>> \/ Here[Len(Here)] \in Op
  PROVE  at \in DOMAIN body.block /\ OwnPlace(at, plain, kind)
<1>1. at # "synthetic"
  <2> SUFFICES ASSUME at = "synthetic" PROVE FALSE
    OBVIOUS
  <2>1. Here = <<"invoke guard method">>
    BY DEF Here
  <2>2. Ends(Here, "invoke guard method")
    BY <2>1, EndsSingle
  <2>3. "invoke guard method" \in Op
    BY <2>2 DEF Ends
  <2>4. QED BY <2>3, LabelAssumption DEF NewOp
<1>2. at \in DOMAIN body.block /\ Here = Code(body, at)
  BY <1>1 DEF InCall, Here
<1>3. CASE Here = <<>>
  BY <1>2, <1>3, GuardNotEmpty DEF InCall
<1>4. CASE Here # <<>>
  <2> DEFINE o == Here[Len(Here)]
  <2>1. EndsIn(o) /\ o \in Op
    BY <1>4 DEF EndsIn
  <2> HIDE DEF o
  <2>2. Located(plain, kind, at, o)
    BY <1>1, <2>1, WhereCallIs
  <2>3. o \notin NewOp
    BY <2>1, LabelAssumption
  <2>4. PatchCall(kind) \in NewOp
    BY DEF PatchCall, NewOp
  <2>5. QED BY <1>2, <2>2, <2>3, <2>4 DEF Located, NewOp
<1>5. QED BY <1>3, <1>4

-----------------------------------------------------------------------------
\* Where each block of a guarded body leads.
OnOff(k, b) == IF k = "package init" THEN "old entry" ELSE To(b, b.entry)[1]
OnSome(k) == IF k = "package init" THEN "found" ELSE "call"
OnNone(k) == IF k = "package init" THEN "made" ELSE "throw"

LEMMA FunctionTargets ==
  ASSUME NEW b, NEW k, k # "package init", PlainBody(b)
  PROVE  /\ To(Guarded(b, k), b.entry)[1] = OnOff(k, b)
         /\ To(Guarded(b, k), b.entry)[2] = "check"
         /\ To(Guarded(b, k), "check")[1] = OnSome(k)
         /\ To(Guarded(b, k), "check")[2] = OnNone(k)
<1> DEFINE g == Guarded(b, k)
           e == b.entry
           own == To(b, b.entry)[1]
<1>1. g.block[e] = Seg(Code(b, e) \o FlagCheck, <<own, "check">>)
  BY GuardedBlocks
<1>2. g.block["check"] = Seg(VarCheck, <<"call", "throw">>)
  BY GuardedBlocks
<1> HIDE DEF g, e, own
<1>3. To(g, e) = <<own, "check">>
  BY <1>1, BlockFields
<1>4. To(g, "check") = <<"call", "throw">>
  BY <1>2, BlockFields
<1>5. To(g, e)[1] = own /\ To(g, e)[2] = "check"
  BY <1>3, PairTargets
<1>6. To(g, "check")[1] = "call" /\ To(g, "check")[2] = "throw"
  BY <1>4, PairTargets
<1>7. QED BY <1>5, <1>6 DEF g, e, own, OnOff, OnSome, OnNone

LEMMA InitTargets ==
  ASSUME NEW b, PlainBody(b)
  PROVE  /\ To(GuardedInit(b), b.entry)[1] = "old entry"
         /\ To(GuardedInit(b), b.entry)[2] = "check"
         /\ To(GuardedInit(b), "check")[1] = "found"
         /\ To(GuardedInit(b), "check")[2] = "made"
         /\ To(GuardedInit(b), "found")[1] = "call"
         /\ To(GuardedInit(b), "made")[1] = "call"
<1> DEFINE g == GuardedInit(b)
           e == b.entry
<1>1. g.block[e] = Seg(FlagCheck, <<"old entry", "check">>)
  BY GuardedInitBlocks
<1>2. g.block["check"] = Seg(VarCheck, <<"found", "made">>)
  BY GuardedInitBlocks
<1>3. g.block["found"] = Seg(<<"use instance">>, <<"call">>)
  BY GuardedInitBlocks
<1>4. g.block["made"] = Seg(<<"make instance">>, <<"call">>)
  BY GuardedInitBlocks
<1> HIDE DEF g, e
<1>5. To(g, e) = <<"old entry", "check">>
  BY <1>1, BlockFields
<1>6. To(g, "check") = <<"found", "made">>
  BY <1>2, BlockFields
<1>7. To(g, "found") = <<"call">>
  BY <1>3, BlockFields
<1>8. To(g, "made") = <<"call">>
  BY <1>4, BlockFields
<1>9. To(g, e)[1] = "old entry" /\ To(g, e)[2] = "check"
  BY <1>5, PairTargets
<1>10. To(g, "check")[1] = "found" /\ To(g, "check")[2] = "made"
  BY <1>6, PairTargets
<1>11. \A t : t = <<"call">> => t[1] = "call"
  OBVIOUS
<1>12. QED BY <1>7, <1>8, <1>9, <1>10, <1>11 DEF g, e

LEMMA Targets ==
  ASSUME BodyInv, stage = "guarded"
  PROVE  /\ body.entry = plain.entry /\ plain.entry \in DOMAIN body.block
         /\ To(body, plain.entry)[1] = OnOff(kind, plain)
         /\ To(body, plain.entry)[2] = "check"
         /\ To(body, "check")[1] = OnSome(kind) /\ To(body, "check")[2] = OnNone(kind)
         /\ kind = "package init" =>
              To(body, "found")[1] = "call" /\ To(body, "made")[1] = "call"
<1>1. PlainBody(plain) /\ body = WithGuard(plain, kind)
  BY PlainBodies DEF BodyInv
<1>2. CASE kind = "package init"
  <2>1. body = GuardedInit(plain)
    BY <1>1, <1>2 DEF WithGuard
  <2>2. body.entry = plain.entry /\ plain.entry \in DOMAIN body.block
    <3>1. plain.entry \in DOMAIN plain.block
      BY <1>1, PlainParts
    <3>2. QED BY <1>1, <2>1, <3>1, GuardedInitShape
  <2>3. /\ To(body, plain.entry)[1] = OnOff(kind, plain) /\ To(body, plain.entry)[2] = "check"
        /\ To(body, "check")[1] = OnSome(kind) /\ To(body, "check")[2] = OnNone(kind)
        /\ To(body, "found")[1] = "call" /\ To(body, "made")[1] = "call"
    BY <1>1, <1>2, <2>1, InitTargets DEF OnOff, OnSome, OnNone
  <2>4. QED BY <2>2, <2>3
<1>3. CASE kind # "package init"
  <2>1. body = Guarded(plain, kind)
    BY <1>1, <1>3 DEF WithGuard
  <2>2. body.entry = plain.entry /\ plain.entry \in DOMAIN body.block
    <3>1. plain.entry \in DOMAIN plain.block
      BY <1>1, PlainParts
    <3>2. QED BY <1>1, <2>1, <3>1, GuardedShape
  <2>3. /\ To(body, plain.entry)[1] = OnOff(kind, plain) /\ To(body, plain.entry)[2] = "check"
        /\ To(body, "check")[1] = OnSome(kind) /\ To(body, "check")[2] = OnNone(kind)
    BY <1>1, <1>3, <2>1, FunctionTargets
  <2>4. QED BY <1>3, <2>2, <2>3
<1>4. QED BY <1>2, <1>3

\* The original code keeps its successors.
LEMMA OwnTargets ==
  ASSUME BodyInv, stage = "guarded", NEW l, OwnPlace(l, plain, kind)
  PROVE  /\ To(body, l) = To(plain, Original(l, plain))
         /\ Code(body, l) = Code(plain, Original(l, plain))
         /\ Original(l, plain) \in DOMAIN plain.block
<1>1. PlainBody(plain) /\ body = WithGuard(plain, kind)
  BY PlainBodies DEF BodyInv
<1>2. "old entry" \notin DOMAIN plain.block /\ plain.entry \in DOMAIN plain.block
  BY <1>1, PlainParts
<1>3. CASE kind = "package init"
  <2>1. body = GuardedInit(plain)
    BY <1>1, <1>3 DEF WithGuard
  <2>2. /\ body.block["old entry"] = plain.block[plain.entry]
        /\ \A m \in DOMAIN plain.block \ {plain.entry} : body.block[m] = plain.block[m]
    BY <1>1, <2>1, GuardedInitShape
  <2>3. QED BY <1>2, <2>2 DEF OwnPlace, Original, To, Code
<1>4. CASE kind # "package init"
  <2>1. body = Guarded(plain, kind)
    BY <1>1, <1>4 DEF WithGuard
  <2>2. \A m \in DOMAIN plain.block \ {plain.entry} : body.block[m] = plain.block[m]
    BY <1>1, <2>1, GuardedShape
  <2>3. QED BY <1>2, <1>4, <2>2 DEF OwnPlace, Original, To, Code
<1>5. QED BY <1>3, <1>4

\* The names of the plain blocks are not places of anything else.
LEMMA PlainPlaces ==
  ASSUME NEW b \in Source \cup {Throwing}
  PROVE  DOMAIN b.block \cap ({"old entry", "check", "call", "throw", "found", "made",
           "synthetic", "idle", "routed"} \cup Outcome) = {}
<1>1. DOMAIN b.block \subseteq PlainBlock
  BY PlainBodies, PlainParts
<1>2. QED BY <1>1, LabelAssumption DEF PlainBlock, NewBlock, Outcome

\* Every place of a guarded body: the guard's, or the original code's.
LEMMA Places ==
  ASSUME BodyInv
  PROVE  /\ plain.entry \in DOMAIN plain.block
         /\ DOMAIN plain.block \cap ({"old entry", "check", "call", "throw", "found", "made",
              "synthetic", "idle", "routed"} \cup Outcome) = {}
         /\ stage = "guarded" =>
              /\ {"check", "call", OnSome(kind), OnNone(kind)} \subseteq DOMAIN body.block
              /\ DOMAIN plain.block \subseteq DOMAIN body.block
              /\ kind = "package init" => "old entry" \in DOMAIN body.block
              /\ kind # "package init" =>
                   OnOff(kind, plain) \in DOMAIN plain.block \ {plain.entry}
<1>1. PlainBody(plain)
  BY PlainBodies DEF BodyInv
<1>2. plain.entry \in DOMAIN plain.block /\ DOMAIN plain.block \subseteq PlainBlock
  BY <1>1, PlainParts
<1>3. PlainBlock \cap ({"old entry", "check", "call", "throw", "found", "made",
        "synthetic", "idle", "routed"} \cup Outcome) = {}
  BY LabelAssumption DEF PlainBlock, NewBlock, Outcome
<1>4. ASSUME stage = "guarded", kind = "package init"
      PROVE  /\ {"check", "call", OnSome(kind), OnNone(kind)} \subseteq DOMAIN body.block
             /\ DOMAIN plain.block \subseteq DOMAIN body.block
             /\ "old entry" \in DOMAIN body.block
  BY <1>1, <1>4, GuardedInitShape DEF BodyInv, WithGuard, OnSome, OnNone
<1>5. ASSUME stage = "guarded", kind # "package init"
      PROVE  /\ {"check", "call", OnSome(kind), OnNone(kind)} \subseteq DOMAIN body.block
             /\ DOMAIN plain.block \subseteq DOMAIN body.block
             /\ OnOff(kind, plain) \in DOMAIN plain.block \ {plain.entry}
  <2>1. SingleSuccessor(plain) /\ body = Guarded(plain, kind)
    BY <1>5 DEF BodyInv, WithGuard
  <2>2. DOMAIN body.block = DOMAIN plain.block \cup {"check", "call", "throw"}
    BY <1>1, <2>1, GuardedShape
  <2>3. OnOff(kind, plain) \in DOMAIN plain.block \ {plain.entry}
    BY <1>1, <1>5, <2>1, OwnBlock DEF OnOff
  <2>4. QED BY <1>5, <2>2, <2>3 DEF OnSome, OnNone
<1>6. QED BY <1>2, <1>3, <1>4, <1>5

-----------------------------------------------------------------------------
\* The steps of a call as moves from place to place: what is left of them once
\* the graph of blocks has been looked at.
Own == OwnPlace(at, plain, kind)
Globals == <<guardVar, loaded, receiver>>

Moves ==
  \/ /\ at = plain.entry /\ at' = IF ~flag THEN OnOff(kind, plain) ELSE "check"
     /\ UNCHANGED Globals
  \/ /\ at = "check" /\ at' = IF guardVar # None THEN OnSome(kind) ELSE OnNone(kind)
     /\ loaded' = guardVar /\ UNCHANGED guardVar
     /\ kind # "package init" => receiver' = guardVar
  \/ /\ at = "found" /\ kind = "package init" /\ at' = "call"
     /\ receiver' = loaded /\ UNCHANGED <<guardVar, loaded>>
  \/ /\ at = "made" /\ kind = "package init" /\ at' = "call"
     /\ receiver' = Fresh /\ UNCHANGED loaded
  \/ at = "call" /\ kind # "package init" /\ at' = "synthetic" /\ UNCHANGED Globals
  \/ at \in {"call", "synthetic"} /\ at' = "patched" /\ UNCHANGED Globals
  \/ /\ at = "throw" /\ kind # "package init" /\ at' = "should not reach here"
     /\ UNCHANGED Globals
  \/ /\ Own /\ To(plain, Original(at, plain)) = <<>> /\ at' = "returned"
     /\ UNCHANGED Globals
  \/ /\ Own /\ UNCHANGED Globals
     /\ \E i \in 1 .. Len(To(plain, Original(at, plain))) :
          at' = To(plain, Original(at, plain))[i]

LEMMA PatchCallName ==
  \/ PatchCall(kind) = "apply synthetic constructor" /\ kind = "constructor"
  \/ PatchCall(kind) = "invoke guard method" /\ kind # "constructor"
BY DEF PatchCall

LEMMA NotPlainOps ==
  {"not", "tag is false", "use instance", "make instance", "apply synthetic constructor",
   "invoke guard method"} \cap PlainOp = {}
BY LabelAssumption DEF PlainOp, NewOp

LEMMA ContinueMoves ==
  ASSUME BodyInv, Continue
  PROVE  Moves /\ stage = "guarded" /\ UNCHANGED <<kind, plain, body, stage, flag>>
<1>1. BodyInv /\ InCall /\ stage = "guarded"
  BY DEF Continue, TestFlag, TestGuardVar, UseInstance, MakeInstance,
         ApplySyntheticConstructor, InvokeGuardMethod, Raise, RunOwnBlock, InCall
<1>2. UNCHANGED <<kind, plain, body, stage, flag>>
  BY DEF Continue, TestFlag, TestGuardVar, UseInstance, MakeInstance,
         ApplySyntheticConstructor, InvokeGuardMethod, Raise, RunOwnBlock
<1>3. CASE TestFlag
  <2>1. EndsIn("not") /\ at' = To(body, at)[IF ~flag THEN 1 ELSE 2] /\ UNCHANGED Globals
    BY <1>3 DEF TestFlag, Globals
  <2>2. at = plain.entry
    BY <1>1, <2>1, WhereCallIs, PatchCallName, NotPlainOps DEF Located
  <2>3. QED BY <1>1, <1>2, <2>1, <2>2, Targets DEF Moves
<1>4. CASE TestGuardVar
  <2>1. /\ EndsIn("tag is false") /\ loaded' = guardVar /\ UNCHANGED guardVar
        /\ kind # "package init" => receiver' = guardVar
        /\ at' = To(body, at)[IF guardVar # None THEN 1 ELSE 2]
    BY <1>4 DEF TestGuardVar
  <2>2. at = "check"
    BY <1>1, <2>1, WhereCallIs, PatchCallName, NotPlainOps DEF Located
  <2>3. QED BY <1>1, <1>2, <2>1, <2>2, Targets DEF Moves
<1>5. CASE UseInstance
  <2>1. /\ EndsIn("use instance") /\ receiver' = loaded /\ at' = To(body, at)[1]
        /\ UNCHANGED <<guardVar, loaded>>
    BY <1>5 DEF UseInstance
  <2>2. at = "found" /\ kind = "package init"
    BY <1>1, <2>1, WhereCallIs, PatchCallName, NotPlainOps DEF Located
  <2>3. QED BY <1>1, <1>2, <2>1, <2>2, Targets DEF Moves
<1>6. CASE MakeInstance
  <2>1. /\ EndsIn("make instance") /\ receiver' = Fresh /\ at' = To(body, at)[1]
        /\ UNCHANGED loaded
    BY <1>6 DEF MakeInstance
  <2>2. at = "made" /\ kind = "package init"
    BY <1>1, <2>1, WhereCallIs, PatchCallName, NotPlainOps DEF Located
  <2>3. QED BY <1>1, <1>2, <2>1, <2>2, Targets DEF Moves
<1>7. CASE ApplySyntheticConstructor
  <2>1. EndsIn("apply synthetic constructor") /\ at' = "synthetic" /\ UNCHANGED Globals
    BY <1>7 DEF ApplySyntheticConstructor, Globals
  <2>2. at = "call" /\ kind # "package init"
    BY <1>1, <2>1, WhereCallIs, PatchCallName, NotPlainOps DEF Located
  <2>3. QED BY <1>1, <1>2, <2>1, <2>2 DEF Moves
<1>8. CASE InvokeGuardMethod
  <2>1. EndsIn("invoke guard method") /\ at' = "patched" /\ UNCHANGED Globals
    BY <1>8 DEF InvokeGuardMethod, Globals
  <2>2. at \in {"call", "synthetic"}
    BY <1>1, <2>1, WhereCallIs, PatchCallName, NotPlainOps DEF Located
  <2>3. QED BY <1>1, <1>2, <2>1, <2>2 DEF Moves
<1>9. CASE Raise
  <2>1. /\ EndsIn("raise") /\ UNCHANGED Globals
        /\ at' = IF at = "throw" THEN "should not reach here" ELSE "returned"
    BY <1>9 DEF Raise, Globals
  <2>2. /\ at \in DOMAIN body.block
        /\ (at = "throw" /\ kind # "package init") \/ Own
    <3>1. EndsIn("raise")
      BY <2>1
    <3>2. at \in DOMAIN body.block /\ Located(plain, kind, at, "raise")
      BY <1>1, <3>1, WhereCallIs
    <3>3. (at = "throw" /\ kind # "package init") \/ OwnPlace(at, plain, kind)
      BY <3>2, PatchCallName DEF Located
    <3>4. QED BY <3>2, <3>3 DEF Own
  <2>3. CASE at = "throw" /\ kind # "package init"
    BY <1>1, <1>2, <2>1, <2>3 DEF Moves
  <2>4. CASE Own
    <3>1. /\ Code(body, at) = Code(plain, Original(at, plain))
          /\ Original(at, plain) \in DOMAIN plain.block
      BY <1>1, <2>4, OwnTargets DEF Own
    <3>2. at # "throw" /\ at # "synthetic"
      BY <2>4, Places DEF Own, OwnPlace
    <3>3. Ends(Code(plain, Original(at, plain)), "raise")
      BY <2>1, <3>1, <3>2 DEF EndsIn, Here, Ends
    <3>4. plain \in Source \cup {Throwing}
      BY DEF BodyInv
    <3>5. To(plain, Original(at, plain)) = <<>>
      BY <3>1, <3>3, <3>4, PlainRaise
    <3>6. at' = "returned"
      BY <2>1, <3>2
    <3>7. QED BY <1>1, <1>2, <2>1, <2>4, <3>5, <3>6 DEF Moves
  <2>5. QED BY <2>2, <2>3, <2>4
<1>10. CASE RunOwnBlock
  <2>1. Own
    BY <1>1, <1>10, WhereOwnCodeIs DEF RunOwnBlock, Own
  <2>2. To(body, at) = To(plain, Original(at, plain))
    BY <1>1, <2>1, OwnTargets DEF Own
  <2>3. /\ UNCHANGED Globals
        /\ \/ \E i \in 1 .. Len(To(body, at)) : at' = To(body, at)[i]
           \/ To(body, at) = <<>> /\ at' = "returned"
    BY <1>10 DEF RunOwnBlock, Globals
  <2>4. QED BY <1>1, <1>2, <2>1, <2>2, <2>3 DEF Moves
<1>11. QED BY <1>3, <1>4, <1>5, <1>6, <1>7, <1>8, <1>9, <1>10 DEF Continue

\* The original code stays within itself.
LEMMA OwnSuccessors ==
  ASSUME BodyInv, stage = "guarded", NEW l, OwnPlace(l, plain, kind),
         NEW i \in 1 .. Len(To(plain, Original(l, plain)))
  PROVE  To(plain, Original(l, plain))[i] \in DOMAIN plain.block
<1> DEFINE t == To(plain, Original(l, plain))
           P == DOMAIN plain.block
<1>1. PlainBody(plain)
  BY PlainBodies DEF BodyInv
<1>2. Original(l, plain) \in DOMAIN plain.block
  BY OwnTargets
<1>3. t \in Seq(P)
  BY <1>1, <1>2, PlainParts
<1>4. i \in 1 .. Len(t)
  OBVIOUS
<1> HIDE DEF t, P
<1>5. t[i] \in P
  BY <1>3, <1>4, ElementOfSeq
<1>6. QED BY <1>5 DEF t, P

-----------------------------------------------------------------------------
\* What a call knows at each place: the flag decides between the guard's places
\* and the original code's, and the instance is there where it is needed.
CallInv ==
  /\ stage # "guarded" => at = "idle"
  /\ stage = "guarded" =>
       at \in DOMAIN body.block \cup {"idle", "synthetic"} \cup Outcome
  /\ stage = "guarded" /\ Own => ~flag
  /\ at \in {"check", "found", "made", "call", "throw", "synthetic"} => flag
  /\ at = "throw" => guardVar = None
  /\ at = "found" => loaded # None
  /\ at \in {"call", "synthetic"} =>
       receiver # None /\ (kind # "package init" => guardVar # None)
  /\ at = "patched" => receiver # None

LEMMA CallInit == Init => CallInv
BY DEF Init, CallInv, Outcome

LEMMA CallStep == BodyInv /\ CallInv /\ [Next]_vars => CallInv'
<1> SUFFICES ASSUME BodyInv, CallInv, [Next]_vars
             PROVE  CallInv'
  OBVIOUS
<1>1. BodyInv'
  BY BodyStep
<1>2. ASSUME at = "idle", at' = "idle"
      PROVE  CallInv'
  <2>1. stage' = "guarded" => ~Own'
    <3>1. "idle" \notin DOMAIN plain'.block
      <4>1. plain' \in Source \cup {Throwing}
        BY <1>1 DEF BodyInv
      <4>2. QED BY <4>1, PlainPlaces
    <3>2. QED BY <1>2, <3>1 DEF Own, OwnPlace
  <2>2. QED BY <1>2, <2>1 DEF CallInv
<1>3. CASE \/ ReplaceBodyWithThrow \/ GenGuardChecks \/ GenPackageInitGuardChecks
           \/ Refuse \/ RemoveGuardChecks
  <2>1. at = "idle" /\ at' = at
    BY <1>3 DEF ReplaceBodyWithThrow, GenGuardChecks, GenPackageInitGuardChecks,
                Refuse, RemoveGuardChecks, CallInv, call
  <2>2. QED BY <1>2, <2>1
<1>4. CASE Call
  <2>1. /\ stage = "guarded" /\ at' = plain.entry
        /\ UNCHANGED <<kind, plain, body, stage, flag, guardVar>>
    <3>1. /\ stage = "guarded" /\ at' = body.entry
          /\ UNCHANGED <<kind, plain, body, stage, flag, guardVar>>
      BY <1>4 DEF Call
    <3>2. QED BY <3>1, Targets
  <2>2. plain.entry \in DOMAIN body.block /\ plain.entry \in DOMAIN plain.block
    BY <2>1, Targets, Places
  <2>3. plain.entry \notin {"old entry", "check", "call", "throw", "found", "made",
                           "synthetic", "idle"} \cup Outcome
    BY <2>2, Places
  <2>4. ~Own'
    BY <2>1, <2>3 DEF Own, OwnPlace
  <2>5. at' # "patched"
    BY <2>1, <2>3 DEF Outcome
  <2>6. QED BY <2>1, <2>2, <2>3, <2>4, <2>5 DEF CallInv
<1>5. CASE Continue
  <2>1. Moves /\ stage = "guarded" /\ UNCHANGED <<kind, plain, body, stage, flag>>
    BY <1>5, ContinueMoves
  <2> DEFINE G == {"check", "call", "throw", "found", "made", "synthetic"}
             P == DOMAIN plain.block
  <2>2. /\ plain.entry \in P
        /\ P \cap (G \cup {"old entry", "idle", "routed"} \cup Outcome) = {}
        /\ {"check", "call", OnSome(kind), OnNone(kind)} \subseteq DOMAIN body.block
        /\ P \subseteq DOMAIN body.block
        /\ kind = "package init" => "old entry" \in DOMAIN body.block
        /\ kind # "package init" => OnOff(kind, plain) \in P \ {plain.entry}
    BY <2>1, Places
  <2>3. Own' <=> at' \in P \ {plain.entry} \/ (kind = "package init" /\ at' = "old entry")
    BY <2>1 DEF Own, OwnPlace
  <2>4. CallInv' <=>
          /\ at' \in DOMAIN body.block \cup {"idle", "synthetic"} \cup Outcome
          /\ Own' => ~flag
          /\ at' \in G => flag
          /\ at' = "throw" => guardVar' = None
          /\ at' = "found" => loaded' # None
          /\ at' \in {"call", "synthetic"} =>
               receiver' # None /\ (kind # "package init" => guardVar' # None)
          /\ at' = "patched" => receiver' # None
    BY <2>1 DEF CallInv
  <2>5. /\ Own => ~flag
        /\ at \in G => flag
        /\ at = "throw" => guardVar = None
        /\ at = "found" => loaded # None
        /\ at \in {"call", "synthetic"} =>
             receiver # None /\ (kind # "package init" => guardVar # None)
    BY <2>1 DEF CallInv
  <2>6. Outcome \cap G = {} /\ "old entry" \notin Outcome /\ "old entry" \notin G
    BY DEF Outcome
  <2> HIDE DEF P
  <2>7. CASE /\ at = plain.entry /\ at' = IF ~flag THEN OnOff(kind, plain) ELSE "check"
             /\ UNCHANGED Globals
    <3>1. at' = "check" \/ (kind = "package init" /\ at' = "old entry")
            \/ (at' \in P \ {plain.entry})
      BY <2>2, <2>7 DEF OnOff
    <3>2. at' = "check" <=> flag
      BY <2>2, <2>7, <3>1 DEF OnOff
    <3>3. QED BY <2>2, <2>3, <2>4, <2>6, <3>1, <3>2 DEF Outcome
  <2>8. CASE /\ at = "check" /\ loaded' = guardVar /\ UNCHANGED guardVar
             /\ at' = IF guardVar # None THEN OnSome(kind) ELSE OnNone(kind)
             /\ kind # "package init" => receiver' = guardVar
    <3>1. flag
      BY <2>5, <2>8
    <3>2. \/ kind = "package init" /\ guardVar # None /\ at' = "found"
          \/ kind = "package init" /\ at' = "made"
          \/ kind # "package init" /\ guardVar # None /\ at' = "call"
          \/ kind # "package init" /\ guardVar = None /\ at' = "throw"
      BY <2>8 DEF OnSome, OnNone
    <3>3. at' \in DOMAIN body.block
      BY <2>2, <2>8
    <3>4. QED BY <2>2, <2>3, <2>4, <2>8, <3>1, <3>2, <3>3
  <2>9. CASE /\ at = "found" /\ kind = "package init" /\ at' = "call"
             /\ receiver' = loaded /\ UNCHANGED <<guardVar, loaded>>
    BY <2>2, <2>3, <2>4, <2>5, <2>9
  <2>10. CASE /\ at = "made" /\ kind = "package init" /\ at' = "call"
              /\ receiver' = Fresh /\ UNCHANGED loaded
    BY <2>2, <2>3, <2>4, <2>5, <2>10 DEF Fresh, None
  <2>11. CASE /\ at = "call" /\ kind # "package init" /\ at' = "synthetic"
              /\ UNCHANGED Globals
    BY <2>2, <2>3, <2>4, <2>5, <2>11 DEF Globals
  <2>12. CASE at \in {"call", "synthetic"} /\ at' = "patched" /\ UNCHANGED Globals
    BY <2>2, <2>3, <2>4, <2>5, <2>12 DEF Globals, Outcome
  <2>13. CASE at' \in {"should not reach here", "returned"}
    BY <2>2, <2>3, <2>4, <2>13 DEF Outcome
  <2>14. CASE /\ Own /\ UNCHANGED Globals
              /\ \E i \in 1 .. Len(To(plain, Original(at, plain))) :
                   at' = To(plain, Original(at, plain))[i]
    <3>1. at' \in P
      BY <2>1, <2>14, OwnSuccessors DEF Own, P
    <3>2. QED BY <2>2, <2>3, <2>4, <2>5, <2>14, <3>1 DEF Outcome
  <2>15. QED BY <2>1, <2>7, <2>8, <2>9, <2>10, <2>11, <2>12, <2>13, <2>14 DEF Moves
<1>6. CASE UNCHANGED vars
  BY <1>6 DEF vars, call, CallInv, Own
<1>7. QED BY <1>3, <1>4, <1>5, <1>6 DEF Next

LEMMA CallInvariant == Spec => [](BodyInv /\ CallInv)
BY BodyInit, BodyStep, CallInit, CallStep, PTL DEF Spec

\* Whatever the body, a guard method is only ever invoked on an instance.
THEOREM InvokedOnInstanceTheorem == Spec => []InvokedOnInstance
<1>1. CallInv => InvokedOnInstance
  BY DEF CallInv, InvokedOnInstance
<1>2. QED BY <1>1, CallInvariant, PTL

-----------------------------------------------------------------------------
\* The call as the code without guards knows it.
Abs == Seen(at, plain.entry, flag)

GuardPlace == {"check", "found", "made", "call", "throw", "synthetic"}

LEMMA SeenGuard ==
  \A e, f : \A l \in GuardPlace : Seen(l, e, f) = "routed"
BY DEF Seen, GuardPlace

LEMMA SeenEnd ==
  ASSUME NEW e, NEW f, NEW l \in {"idle"} \cup Outcome, e \notin {"idle"} \cup Outcome
  PROVE  Seen(l, e, f) = l
BY DEF Seen, Outcome

LEMMA SeenOwn ==
  ASSUME BodyInv, stage = "guarded", NEW l, OwnPlace(l, plain, kind), NEW f \in BOOLEAN
  PROVE  Seen(l, plain.entry, f) = Original(l, plain)
<1>1. l = "old entry" \/ (l \in DOMAIN plain.block /\ l # plain.entry)
  BY DEF OwnPlace
<1>2. DOMAIN plain.block \cap GuardPlace = {} /\ "old entry" \notin DOMAIN plain.block
  BY Places DEF GuardPlace
<1>3. CASE l = "old entry"
  <2>1. plain.entry # "old entry"
    BY Places
  <2>2. \A e : e # "old entry" => Seen("old entry", e, f) = e
    BY DEF Seen
  <2>3. QED BY <1>3, <2>1, <2>2 DEF Original
<1>4. CASE l \in DOMAIN plain.block /\ l # plain.entry
  BY <1>2, <1>4 DEF Seen, Original, GuardPlace
<1>5. QED BY <1>1, <1>3, <1>4

\* The entry of a plain body, to be left by the flag's branch or by a call.
LEMMA SeenEntry ==
  ASSUME BodyInv, NEW f \in BOOLEAN
  PROVE  Seen(plain.entry, plain.entry, f) = IF f THEN "routed" ELSE plain.entry
<1>1. plain.entry \notin GuardPlace \cup {"old entry"}
  BY Places DEF GuardPlace
<1>2. QED BY <1>1 DEF Seen, GuardPlace

LEMMA FlagType == Spec => [](flag \in BOOLEAN)
<1>1. Init => flag \in BOOLEAN
  BY DEF Init
<1>2. flag \in BOOLEAN /\ [Next]_vars => (flag \in BOOLEAN)'
  BY DEF Next, vars, ReplaceBodyWithThrow, GenGuardChecks, GenPackageInitGuardChecks,
         Refuse, RemoveGuardChecks, Call, Continue, TestFlag, TestGuardVar,
         UseInstance, MakeInstance, ApplySyntheticConstructor, InvokeGuardMethod, Raise,
         RunOwnBlock
<1>3. QED BY <1>1, <1>2, PTL DEF Spec

LEMMA PromiseInit == Init => Promise!Init
<1> SUFFICES ASSUME Init PROVE Promise!Init
  OBVIOUS
<1>1. at = "idle" /\ flag \in BOOLEAN /\ BodyInv
  BY BodyInit DEF Init
<1>2. plain.entry \in DOMAIN plain.block
  BY <1>1, Places
<1>3. plain.entry \notin {"idle"} \cup Outcome
  BY <1>1, <1>2, Places
<1>4. Seen(at, plain.entry, flag) = "idle"
  BY <1>1, <1>3, SeenEnd
<1>5. QED BY <1>1, <1>4 DEF Promise!Init

\* A step of the run is a step of the promise, or changes nothing of it.
LEMMA PromiseMove ==
  ASSUME BodyInv, CallInv, flag \in BOOLEAN, Continue
  PROVE  [Promise!Next]_Promise!vars
<1>1. Moves /\ stage = "guarded" /\ UNCHANGED <<kind, plain, body, stage, flag>>
  BY ContinueMoves
<1> DEFINE P == DOMAIN plain.block
           e == plain.entry
           Avail == kind = "package init" \/ guardVar # None
<1>2. /\ e \in P /\ e \notin {"idle"} \cup Outcome
      /\ kind # "package init" => OnOff(kind, plain) \in P \ {e}
  BY <1>1, Places
<1>3. Abs' = Seen(at', e, flag)
  BY <1>1 DEF Abs
<1>4. (UNCHANGED guardVar \/ kind = "package init") => UNCHANGED Avail
  BY <1>1
<1>5. Abs' = Abs /\ UNCHANGED Avail => UNCHANGED Promise!vars
  BY <1>1 DEF Promise!vars, Abs
<1>6. /\ Own => ~flag
      /\ at = "throw" => guardVar = None
      /\ at \in {"call", "synthetic"} /\ kind # "package init" => guardVar # None
  BY <1>1 DEF CallInv
<1>7. \A l \in Outcome : Seen(l, e, flag) = l
  BY <1>2, SeenEnd
<1>8. \A l : OwnPlace(l, plain, kind) => Seen(l, e, flag) = Original(l, plain)
  BY <1>1, SeenOwn
<1>9. ASSUME at = e, at' = IF ~flag THEN OnOff(kind, plain) ELSE "check", UNCHANGED Globals
      PROVE  [Promise!Next]_Promise!vars
  <2>1. UNCHANGED Avail
    BY <1>4, <1>9 DEF Globals
  <2>2. Abs = IF flag THEN "routed" ELSE e
    BY <1>9, SeenEntry DEF Abs
  <2>3. CASE flag
    <3>1. Abs' = "routed"
      BY <1>3, <1>9, <2>3, SeenGuard DEF GuardPlace
    <3>2. QED BY <1>5, <2>1, <2>2, <2>3, <3>1
  <2>4. CASE ~flag /\ kind = "package init"
    <3>1. Abs' = e
      BY <1>3, <1>9, <2>4 DEF OnOff, Seen
    <3>2. QED BY <1>5, <2>1, <2>2, <2>4, <3>1
  <2>5. CASE ~flag /\ kind # "package init"
    <3>1. OwnPlace(OnOff(kind, plain), plain, kind)
      BY <1>2, <2>5 DEF OwnPlace
    <3>2. OnOff(kind, plain) # "old entry"
      BY <1>1, <1>2, <2>5, Places
    <3>3. Abs' = To(plain, e)[1]
      BY <1>3, <1>8, <1>9, <2>5, <3>1, <3>2 DEF OnOff, Original
    <3>4. SingleSuccessor(plain)
      BY <1>1, <2>5 DEF BodyInv
    <3>5. Promise!Run
      <4>1. Abs \in DOMAIN plain.block /\ Abs = e
        BY <1>2, <2>2, <2>5
      <4>2. 1 \in 1 .. Len(plain.block[Abs].to) /\ Abs' = plain.block[Abs].to[1]
        BY <3>3, <3>4, <4>1 DEF SingleSuccessor, To
      <4>3. UNCHANGED <<plain, flag, Avail>>
        BY <1>1, <2>1
      <4>4. QED BY <4>1, <4>2, <4>3 DEF Promise!Run, Abs
    <3>6. QED BY <3>5 DEF Promise!Next
  <2>6. QED BY <2>3, <2>4, <2>5
<1>10. ASSUME at \in GuardPlace, at' \in GuardPlace, UNCHANGED guardVar \/ kind = "package init"
       PROVE  [Promise!Next]_Promise!vars
  <2>1. Abs = "routed" /\ Abs' = "routed"
    BY <1>3, <1>10, SeenGuard DEF Abs
  <2>2. QED BY <1>4, <1>5, <1>10, <2>1
<1>11. ASSUME at \in GuardPlace, UNCHANGED guardVar,
              at' = IF Avail THEN "patched" ELSE "should not reach here"
       PROVE  [Promise!Next]_Promise!vars
  <2>1. Abs = "routed" /\ Abs' = IF Avail THEN "patched" ELSE "should not reach here"
    BY <1>3, <1>7, <1>11, SeenGuard DEF Abs, Outcome
  <2>2. UNCHANGED <<plain, flag, Avail>>
    BY <1>1, <1>4, <1>11
  <2>3. Promise!Route
    BY <2>1, <2>2 DEF Promise!Route, Abs
  <2>4. QED BY <2>3 DEF Promise!Next
<1>12. ASSUME Own, To(plain, Original(at, plain)) = <<>>, at' = "returned", UNCHANGED Globals
       PROVE  [Promise!Next]_Promise!vars
  <2>1. Abs = Original(at, plain) /\ Abs' = "returned"
    BY <1>3, <1>7, <1>8, <1>12 DEF Abs, Own, Outcome
  <2>2. Original(at, plain) \in DOMAIN plain.block
    BY <1>1, <1>12, OwnTargets DEF Own
  <2>3. UNCHANGED <<plain, flag, Avail>>
    BY <1>1, <1>4, <1>12 DEF Globals
  <2>4. Promise!Return
    BY <1>12, <2>1, <2>2, <2>3 DEF Promise!Return, Abs, To
  <2>5. QED BY <2>4 DEF Promise!Next
<1>13. ASSUME Own, UNCHANGED Globals, NEW i \in 1 .. Len(To(plain, Original(at, plain))),
              at' = To(plain, Original(at, plain))[i]
       PROVE  [Promise!Next]_Promise!vars
  <2>1. Abs = Original(at, plain)
    BY <1>8, <1>13 DEF Abs, Own
  <2>2. Original(at, plain) \in DOMAIN plain.block /\ at' \in P
    BY <1>1, <1>13, OwnTargets, OwnSuccessors DEF Own
  <2>3. Abs' = at'
    <3>1. CASE at' = e
      BY <1>3, <1>6, <1>13, <3>1, SeenEntry
    <3>2. CASE at' # e
      <4>1. OwnPlace(at', plain, kind) /\ at' # "old entry"
        BY <1>1, <2>2, <3>2, Places DEF OwnPlace
      <4>2. QED BY <1>3, <1>8, <4>1 DEF Original
    <3>3. QED BY <3>1, <3>2
  <2>4. UNCHANGED <<plain, flag, Avail>>
    BY <1>1, <1>4, <1>13 DEF Globals
  <2>5. Promise!Run
    BY <1>13, <2>1, <2>2, <2>3, <2>4 DEF Promise!Run, Abs, To
  <2>6. QED BY <2>5 DEF Promise!Next
<1>14. CASE /\ at = "check" /\ at' = IF guardVar # None THEN OnSome(kind) ELSE OnNone(kind)
            /\ UNCHANGED guardVar
  BY <1>10, <1>14 DEF OnSome, OnNone, GuardPlace
<1>15. CASE \/ at = "found" /\ at' = "call" /\ UNCHANGED guardVar
            \/ at = "made" /\ kind = "package init" /\ at' = "call"
            \/ at = "call" /\ at' = "synthetic" /\ UNCHANGED Globals
  BY <1>10, <1>15 DEF GuardPlace, Globals
<1>16. CASE at \in {"call", "synthetic"} /\ at' = "patched" /\ UNCHANGED Globals
  <2>1. Avail /\ at \in GuardPlace /\ UNCHANGED guardVar
    BY <1>6, <1>16 DEF GuardPlace, Globals
  <2>2. QED BY <1>11, <1>16, <2>1
<1>17. CASE /\ at = "throw" /\ kind # "package init" /\ at' = "should not reach here"
            /\ UNCHANGED Globals
  <2>1. ~Avail /\ at \in GuardPlace /\ UNCHANGED guardVar
    BY <1>6, <1>17 DEF GuardPlace, Globals
  <2>2. QED BY <1>11, <1>17, <2>1
<1>18. QED BY <1>1, <1>9, <1>12, <1>13, <1>14, <1>15, <1>16, <1>17 DEF Moves

LEMMA PromiseStep ==
  BodyInv /\ CallInv /\ flag \in BOOLEAN /\ [Next]_vars => [Promise!Next]_Promise!vars
<1> SUFFICES ASSUME BodyInv, CallInv, flag \in BOOLEAN, [Next]_vars
             PROVE  [Promise!Next]_Promise!vars
  OBVIOUS
<1> DEFINE Avail == kind = "package init" \/ guardVar # None
<1>1. ASSUME UNCHANGED <<kind, plain, flag, guardVar, at>>
      PROVE  UNCHANGED Promise!vars
  BY <1>1 DEF Promise!vars
<1>2. plain.entry \in DOMAIN plain.block /\ plain.entry \notin {"idle"} \cup Outcome
  BY Places
<1>3. CASE ReplaceBodyWithThrow
  <2>1. /\ at = "idle" /\ plain' = Throwing /\ plain # Throwing
        /\ UNCHANGED <<kind, flag, guardVar, at>>
    BY <1>3 DEF ReplaceBodyWithThrow, CallInv, call
  <2>2. Throwing.entry \notin {"idle"} \cup Outcome
    BY DEF Throwing, Outcome
  <2>3. Abs = "idle" /\ Abs' = "idle"
    BY <1>2, <2>1, <2>2, SeenEnd DEF Abs
  <2>4. Promise!Compile
    BY <2>1, <2>3 DEF Promise!Compile, Abs
  <2>5. QED BY <2>4 DEF Promise!Next
<1>4. CASE \/ GenGuardChecks \/ GenPackageInitGuardChecks \/ Refuse
           \/ RemoveGuardChecks \/ UNCHANGED vars
  <2>1. UNCHANGED <<kind, plain, flag, guardVar, at>>
    BY <1>4 DEF GenGuardChecks, GenPackageInitGuardChecks, Refuse, RemoveGuardChecks,
                vars, call
  <2>2. QED BY <1>1, <2>1
<1>5. CASE Call
  <2>1. /\ stage = "guarded" /\ at \in {"idle"} \cup Outcome /\ at' = body.entry
        /\ UNCHANGED <<kind, plain, flag, guardVar>>
    BY <1>5 DEF Call
  <2>2. at' = plain.entry
    BY <2>1, Targets
  <2>3. Abs \in {"idle"} \cup Outcome
    BY <1>2, <2>1, SeenEnd DEF Abs
  <2>4. Abs' = IF flag THEN "routed" ELSE plain.entry
    BY <2>1, <2>2, SeenEntry DEF Abs
  <2>5. UNCHANGED <<plain, flag, Avail>>
    BY <2>1
  <2>6. Promise!Call
    BY <2>3, <2>4, <2>5 DEF Promise!Call, Promise!Outcome, Outcome, Abs
  <2>7. QED BY <2>6 DEF Promise!Next
<1>6. CASE Continue
  BY <1>6, PromiseMove
<1>7. QED BY <1>3, <1>4, <1>5, <1>6 DEF Next

\* For every body, every run of the guarded function is one of the promise:
\* its own code with the flag off, the guard method or the exception with it on.
THEOREM BehavesAsPromisedTheorem == Spec => Promise!Spec
BY PromiseInit, PromiseStep, CallInvariant, FlagType, PTL DEF Spec, Promise!Spec

-----------------------------------------------------------------------------
\* A body is closed when each of its terminators stays within it.
LEMMA ClosedBySuccessors ==
  \A b : Closed(b) <=> \A l \in DOMAIN b.block : Successors(b, l) \subseteq DOMAIN b.block
BY DEF Closed, Successors

LEMMA SuccessorsOf ==
  /\ \A b, l : To(b, l) = <<>> => Successors(b, l) = {}
  /\ \A b, l, x : To(b, l) = <<x>> => Successors(b, l) = {x}
  /\ \A b, l, x, y : To(b, l) = <<x, y>> => Successors(b, l) = {x, y}
<1>1. \A t : t = <<>> => {t[i] : i \in 1 .. Len(t)} = {}
  OBVIOUS
<1>2. \A t, x : t = <<x>> => {t[i] : i \in 1 .. Len(t)} = {x}
  <2> SUFFICES ASSUME NEW t, NEW x, t = <<x>>
               PROVE  {t[i] : i \in 1 .. Len(t)} = {x}
    OBVIOUS
  <2>1. Len(t) = 1 /\ t[1] = x
    OBVIOUS
  <2>2. QED BY <2>1
<1>3. \A t, x, y : t = <<x, y>> => {t[i] : i \in 1 .. Len(t)} = {x, y}
  <2> SUFFICES ASSUME NEW t, NEW x, NEW y, t = <<x, y>>
               PROVE  {t[i] : i \in 1 .. Len(t)} = {x, y}
    OBVIOUS
  <2>1. Len(t) = 2 /\ t[1] = x /\ t[2] = y
    OBVIOUS
  <2>2. 1 .. 2 = {1, 2}
    OBVIOUS
  <2>3. QED BY <2>1, <2>2
<1>4. ASSUME NEW b, NEW l, To(b, l) = <<>>
      PROVE  Successors(b, l) = {}
  BY <1>1, <1>4 DEF Successors
<1>5. ASSUME NEW b, NEW l, NEW x, To(b, l) = <<x>>
      PROVE  Successors(b, l) = {x}
  BY <1>2, <1>5 DEF Successors
<1>6. ASSUME NEW b, NEW l, NEW x, NEW y, To(b, l) = <<x, y>>
      PROVE  Successors(b, l) = {x, y}
  BY <1>3, <1>6 DEF Successors
<1>7. QED BY <1>4, <1>5, <1>6

LEMMA SameSuccessors ==
  \A b, g, l, m : To(g, l) = To(b, m) => Successors(g, l) = Successors(b, m)
BY DEF Successors

LEMMA PlainClosed ==
  ASSUME NEW b, PlainBody(b)
  PROVE  /\ b.entry \in DOMAIN b.block
         /\ \A l \in DOMAIN b.block : Successors(b, l) \subseteq DOMAIN b.block
<1>1. Closed(b)
  BY DEF PlainBody
<1>2. QED BY <1>1, ClosedBySuccessors, PlainParts

LEMMA FunctionClosed ==
  ASSUME NEW b, NEW k, PlainBody(b), SingleSuccessor(b)
  PROVE  Closed(Guarded(b, k))
<1> DEFINE g == Guarded(b, k)
           e == b.entry
           own == To(b, b.entry)[1]
           B == DOMAIN b.block
           S(l) == Successors(g, l)
<1>a. g.block[e] = Seg(Code(b, e) \o FlagCheck, <<own, "check">>)
  BY GuardedBlocks
<1>b. g.block["check"] = Seg(VarCheck, <<"call", "throw">>)
  BY GuardedBlocks
<1>c. g.block["call"] = Seg(<<PatchCall(k)>>, <<>>)
  BY GuardedBlocks
<1>d. g.block["throw"] = Seg(<<"raise">>, <<>>)
  BY GuardedBlocks
<1>1. DOMAIN g.block = B \cup {"check", "call", "throw"} /\ own \in B
  BY GuardedShape, OwnBlock
<1>2. \A l \in B \ {e} : S(l) = Successors(b, l)
  <2>1. \A l \in B \ {e} : To(g, l) = To(b, l)
    BY GuardedShape DEF To
  <2>2. QED BY <2>1, SameSuccessors
<1>3. \A l \in B : Successors(b, l) \subseteq B
  BY PlainClosed
<1> HIDE DEF g, e, own
<1>4. S(e) = {own, "check"}
  <2>1. To(g, e) = <<own, "check">>
    BY <1>a, BlockFields
  <2>2. QED BY <2>1, SuccessorsOf
<1>5. S("check") = {"call", "throw"}
  <2>1. To(g, "check") = <<"call", "throw">>
    BY <1>b, BlockFields
  <2>2. QED BY <2>1, SuccessorsOf
<1>6. S("call") = {}
  <2>1. To(g, "call") = <<>>
    BY <1>c, BlockFields
  <2>2. QED BY <2>1, SuccessorsOf
<1>7. S("throw") = {}
  <2>1. To(g, "throw") = <<>>
    BY <1>d, BlockFields
  <2>2. QED BY <2>1, SuccessorsOf
<1>8. \A l \in DOMAIN g.block : S(l) \subseteq DOMAIN g.block
  <2> HIDE DEF S, B
  <2>1. QED BY <1>1, <1>2, <1>3, <1>4, <1>5, <1>6, <1>7
<1>9. Closed(g)
  BY <1>8, ClosedBySuccessors
<1>10. QED BY <1>9 DEF g

LEMMA InitClosed ==
  ASSUME NEW b, PlainBody(b)
  PROVE  Closed(GuardedInit(b))
<1> DEFINE g == GuardedInit(b)
           e == b.entry
           B == DOMAIN b.block
           S(l) == Successors(g, l)
<1>a. g.block[e] = Seg(FlagCheck, <<"old entry", "check">>)
  BY GuardedInitBlocks
<1>b. g.block["check"] = Seg(VarCheck, <<"found", "made">>)
  BY GuardedInitBlocks
<1>c. g.block["found"] = Seg(<<"use instance">>, <<"call">>)
  BY GuardedInitBlocks
<1>d. g.block["made"] = Seg(<<"make instance">>, <<"call">>)
  BY GuardedInitBlocks
<1>e. g.block["call"] = Seg(<<"invoke guard method">>, <<>>)
  BY GuardedInitBlocks
<1>1. DOMAIN g.block = B \cup {"old entry", "check", "found", "made", "call"} /\ e \in B
  BY GuardedInitShape, PlainParts
<1>2. \A l \in B \ {e} : S(l) = Successors(b, l)
  <2>1. \A l \in B \ {e} : To(g, l) = To(b, l)
    BY GuardedInitShape DEF To
  <2>2. QED BY <2>1, SameSuccessors
<1>3. S("old entry") = Successors(b, e)
  <2> DEFINE old == "old entry"
  <2>1. To(g, old) = To(b, e)
    BY GuardedInitShape DEF To
  <2> HIDE DEF old, g, e
  <2>2. Successors(g, old) = Successors(b, e)
    BY <2>1, SameSuccessors
  <2>3. QED BY <2>2 DEF old
<1>4. \A l \in B : Successors(b, l) \subseteq B
  BY PlainClosed
<1> HIDE DEF g, e
<1>5. S(e) = {"old entry", "check"}
  <2> DEFINE old == "old entry"
             chk == "check"
  <2>1. To(g, e) = <<old, chk>>
    BY <1>a, BlockFields
  <2> HIDE DEF old, chk
  <2>2. Successors(g, e) = {old, chk}
    BY <2>1, SuccessorsOf
  <2>3. QED BY <2>2 DEF old, chk
<1>6. S("check") = {"found", "made"}
  <2>1. To(g, "check") = <<"found", "made">>
    BY <1>b, BlockFields
  <2>2. QED BY <2>1, SuccessorsOf
<1>7. S("found") = {"call"}
  <2>1. To(g, "found") = <<"call">>
    BY <1>c, BlockFields
  <2>2. QED BY <2>1, SuccessorsOf
<1>8. S("made") = {"call"}
  <2>1. To(g, "made") = <<"call">>
    BY <1>d, BlockFields
  <2>2. QED BY <2>1, SuccessorsOf
<1>9. S("call") = {}
  <2>1. To(g, "call") = <<>>
    BY <1>e, BlockFields
  <2>2. QED BY <2>1, SuccessorsOf
<1>10. \A l \in DOMAIN g.block : S(l) \subseteq DOMAIN g.block
  <2> DEFINE D == DOMAIN g.block
             old == "old entry"
             chk == "check"
             fnd == "found"
             mde == "made"
             cll == "call"
  <2>1. D = B \cup {old, chk, fnd, mde, cll} /\ e \in B
    BY <1>1
  <2>2. S(old) \subseteq B
    BY <1>3, <1>4, <1>1
  <2>3. \A l \in B \ {e} : S(l) \subseteq B
    BY <1>2, <1>4
  <2>4. S(e) = {old, chk} /\ S(chk) = {fnd, mde} /\ S(fnd) = {cll} /\ S(mde) = {cll} /\ S(cll) = {}
    BY <1>5, <1>6, <1>7, <1>8, <1>9
  <2> HIDE DEF S, B, D, old, chk, fnd, mde, cll
  <2>5. \A l \in D : S(l) \subseteq D
    BY <2>1, <2>2, <2>3, <2>4
  <2>6. QED BY <2>5 DEF D
<1>11. Closed(g)
  BY <1>10, ClosedBySuccessors
<1>12. QED BY <1>11 DEF g

\* The block that is merged into the entry is reached from nowhere else.
LEMMA MergedClosed ==
  ASSUME NEW b, PlainBody(b), SingleSuccessor(b),
         Predecessors(b, To(b, b.entry)[1]) = {b.entry}
  PROVE  Closed(Merged(b))
<1> DEFINE own == To(b, b.entry)[1]
           e == b.entry
           m == Merged(b)
           B == DOMAIN b.block
<1>1. own \in B \ {e} /\ e \in B
  BY OwnBlock, PlainParts
<1>2. DOMAIN m.block = B \ {own}
  BY DEF Merged
<1>3. m.block[e] = Seg(Code(b, e) \o Code(b, own), To(b, own))
  BY <1>1 DEF Merged
<1>4. \A l \in B \ {own, e} : To(m, l) = To(b, l)
  BY DEF Merged, To
<1>5. \A l \in B : Successors(b, l) \subseteq B /\ (own \in Successors(b, l) => l = e)
  BY PlainClosed DEF Predecessors
<1> HIDE DEF m, own, e
<1>6. Successors(m, e) = Successors(b, own)
  <2>1. To(m, e) = To(b, own)
    BY <1>3, BlockFields
  <2>2. QED BY <2>1, SameSuccessors
<1>7. \A l \in B \ {own, e} : Successors(m, l) = Successors(b, l)
  BY <1>4, SameSuccessors
<1>8. \A l \in DOMAIN m.block : Successors(m, l) \subseteq DOMAIN m.block
  <2> HIDE DEF B
  <2>1. QED BY <1>1, <1>2, <1>5, <1>6, <1>7
<1>9. Closed(m)
  BY <1>8, ClosedBySuccessors
<1>10. QED BY <1>9 DEF m

LEMMA RenamedClosed ==
  ASSUME NEW b, PlainBody(b), Predecessors(b, b.entry) = {}
  PROVE  Closed(Renamed(b))
<1> DEFINE e == b.entry
           r == Renamed(b)
           B == DOMAIN b.block
<1>1. e \in B /\ "old entry" \notin B
  BY PlainParts
<1>2. DOMAIN r.block = (B \ {e}) \cup {"old entry"}
  BY DEF Renamed
<1>3. To(r, "old entry") = To(b, e)
  BY DEF Renamed, To
<1>4. \A l \in B \ {e} : To(r, l) = To(b, l)
  BY <1>1 DEF Renamed, To
<1>5. \A l \in B : Successors(b, l) \subseteq B /\ e \notin Successors(b, l)
  BY PlainClosed DEF Predecessors
<1> HIDE DEF r, e
<1>6. /\ Successors(r, "old entry") = Successors(b, e)
      /\ \A l \in B \ {e} : Successors(r, l) = Successors(b, l)
  <2> DEFINE old == "old entry"
  <2>1. To(r, old) = To(b, e)
    BY <1>3
  <2> HIDE DEF old
  <2>2. Successors(r, old) = Successors(b, e)
    BY <2>1, SameSuccessors
  <2>3. Successors(r, "old entry") = Successors(b, e)
    BY <2>2 DEF old
  <2>4. \A l \in B \ {e} : Successors(r, l) = Successors(b, l)
    BY <1>4, SameSuccessors
  <2>5. QED BY <2>3, <2>4
<1>7. \A l \in DOMAIN r.block : Successors(r, l) \subseteq DOMAIN r.block
  <2> HIDE DEF B
  <2>1. QED BY <1>1, <1>2, <1>5, <1>6
<1>8. Closed(r)
  BY <1>7, ClosedBySuccessors
<1>9. QED BY <1>8 DEF r

\* Only a body that can be guarded is.
GuardableInv ==
  stage \in {"guarded", "removed"} =>
    IF kind = "package init" THEN Predecessors(plain, plain.entry) = {}
                             ELSE SingleSuccessor(plain)

LEMMA GuardableInvariant == Spec => []GuardableInv
<1>1. Init => GuardableInv
  BY DEF Init, GuardableInv
<1>2. BodyInv /\ GuardableInv /\ [Next]_vars => GuardableInv'
  <2> SUFFICES ASSUME BodyInv, GuardableInv, [Next]_vars
               PROVE  GuardableInv'
    OBVIOUS
  <2>1. CASE ReplaceBodyWithThrow
    BY <2>1 DEF ReplaceBodyWithThrow, GuardableInv
  <2>2. CASE GenGuardChecks
    <3>1. body = plain
      BY <2>2 DEF GenGuardChecks, BodyInv
    <3>2. QED BY <2>2, <3>1 DEF GenGuardChecks, GuardableInv
  <2>3. CASE GenPackageInitGuardChecks
    <3>1. body = plain
      BY <2>3 DEF GenPackageInitGuardChecks, BodyInv
    <3>2. QED BY <2>3, <3>1 DEF GenPackageInitGuardChecks, GuardableInv
  <2>4. CASE Refuse
    BY <2>4 DEF Refuse, GuardableInv
  <2>5. CASE RemoveGuardChecks
    BY <2>5 DEF RemoveGuardChecks, GuardableInv
  <2>6. CASE Call \/ Continue \/ UNCHANGED vars
    <3>1. UNCHANGED <<kind, plain, stage>>
      BY <2>6, CallsKeepBody DEF vars
    <3>2. QED BY <3>1 DEF GuardableInv
  <2>7. QED BY <2>1, <2>2, <2>3, <2>4, <2>5, <2>6 DEF Next
<1>3. QED BY <1>1, <1>2, BodyInvariant, PTL DEF Spec

\* No branch of a body that either tool made leads out of it, whatever the body,
\* as long as the merged block has the entry as its only predecessor.
THEOREM NoDanglingBranchTheorem == Spec => []NoDanglingBranch
<1>1. BodyInv /\ GuardableInv => NoDanglingBranch
  <2> SUFFICES ASSUME BodyInv, GuardableInv, stage \in {"guarded", "removed"}, EntryIsLinear
               PROVE  Closed(body)
    BY DEF NoDanglingBranch
  <2>1. PlainBody(plain)
    BY PlainBodies DEF BodyInv
  <2>2. CASE kind = "package init"
    <3>1. Predecessors(plain, plain.entry) = {}
      BY <2>2 DEF GuardableInv
    <3>2. body = GuardedInit(plain) \/ body = Renamed(plain)
      BY <2>2 DEF BodyInv, WithGuard, WithoutGuard
    <3>3. QED BY <2>1, <3>1, <3>2, InitClosed, RenamedClosed
  <2>3. CASE kind # "package init"
    <3>1. SingleSuccessor(plain)
      BY <2>3 DEF GuardableInv
    <3>2. Predecessors(plain, To(plain, plain.entry)[1]) = {plain.entry}
      BY <2>3 DEF EntryIsLinear
    <3>3. body = Guarded(plain, kind) \/ body = Merged(plain)
      BY <2>3 DEF BodyInv, WithGuard, WithoutGuard
    <3>4. QED BY <2>1, <3>1, <3>2, <3>3, FunctionClosed, MergedClosed
  <2>4. QED BY <2>2, <2>3
<1>2. QED BY <1>1, BodyInvariant, GuardableInvariant, PTL

-----------------------------------------------------------------------------
\* Types: whatever the tools do to a body, and wherever a call is in it.
AnyBlock == Block \cup NewBlock
AnyOp == Op \cup NewOp
IsSegment(x) == x \in [code : Seq(AnyOp), to : Seq(AnyBlock)]

LEMMA SegmentOf ==
  ASSUME NEW c \in Seq(AnyOp), NEW t \in Seq(AnyBlock)
  PROVE  IsSegment(Seg(c, t))
BY DEF IsSegment, Seg

LEMMA PlainSegments ==
  ASSUME NEW b, PlainBody(b), NEW l \in DOMAIN b.block
  PROVE  Code(b, l) \in Seq(AnyOp) /\ To(b, l) \in Seq(AnyBlock) /\ IsSegment(b.block[l])
<1>1. PlainOp \subseteq AnyOp /\ PlainBlock \subseteq AnyBlock /\ DOMAIN b.block \subseteq AnyBlock
  BY PlainParts DEF PlainOp, AnyOp, PlainBlock, AnyBlock, NewOp, NewBlock
<1>2. Code(b, l) \in Seq(AnyOp) /\ To(b, l) \in Seq(AnyBlock)
  BY <1>1, PlainParts, SeqSubset
<1>3. b.block[l] = Seg(Code(b, l), To(b, l))
  BY PlainParts
<1>4. QED BY <1>2, <1>3, SegmentOf

\* The segments that a guard adds.
LEMMA AddedSegments ==
  /\ FlagCheck \in Seq(AnyOp)
  /\ IsSegment(Seg(VarCheck, <<"call", "throw">>)) /\ IsSegment(Seg(VarCheck, <<"found", "made">>))
  /\ IsSegment(Seg(FlagCheck, <<"old entry", "check">>))
  /\ IsSegment(Seg(<<"use instance">>, <<"call">>)) /\ IsSegment(Seg(<<"make instance">>, <<"call">>))
  /\ IsSegment(Seg(<<"invoke guard method">>, <<>>)) /\ IsSegment(Seg(<<"raise">>, <<>>))
  /\ \A k : IsSegment(Seg(<<PatchCall(k)>>, <<>>))
<1>1. FlagCheck \in Seq(AnyOp) /\ VarCheck \in Seq(AnyOp)
  BY DEF FlagCheck, VarCheck, AnyOp, NewOp
<1>2. /\ <<"call", "throw">> \in Seq(AnyBlock) /\ <<"found", "made">> \in Seq(AnyBlock)
      /\ <<"old entry", "check">> \in Seq(AnyBlock) /\ <<"call">> \in Seq(AnyBlock) /\ <<>> \in Seq(AnyBlock)
  BY DEF AnyBlock, NewBlock
<1>3. /\ <<"use instance">> \in Seq(AnyOp) /\ <<"make instance">> \in Seq(AnyOp)
      /\ <<"invoke guard method">> \in Seq(AnyOp) /\ <<"raise">> \in Seq(AnyOp)
      /\ <<"apply synthetic constructor">> \in Seq(AnyOp)
  BY DEF AnyOp, NewOp
<1>4. \A k : <<PatchCall(k)>> \in Seq(AnyOp)
  BY <1>3 DEF PatchCall
<1>5. QED BY <1>1, <1>2, <1>3, <1>4, SegmentOf

\* A body is one of any blocks if each of its blocks is.
LEMMA BodyOfSegments ==
  ASSUME NEW b, b = [entry |-> b.entry, block |-> b.block],
         b.block = [l \in DOMAIN b.block |-> b.block[l]],
         b.entry \in DOMAIN b.block, DOMAIN b.block \subseteq AnyBlock,
         \A l \in DOMAIN b.block : IsSegment(b.block[l])
  PROVE  IsBody(b, AnyBlock, AnyOp)
BY DEF IsBody, IsSegment

LEMMA PlainType ==
  ASSUME NEW b, PlainBody(b)
  PROVE  IsBody(b, AnyBlock, AnyOp)
<1>1. /\ b = [entry |-> b.entry, block |-> b.block] /\ b.block = [l \in DOMAIN b.block |-> b.block[l]]
      /\ b.entry \in DOMAIN b.block /\ DOMAIN b.block \subseteq PlainBlock
  BY DEF PlainBody, IsBody
<1>2. DOMAIN b.block \subseteq AnyBlock
  BY <1>1 DEF PlainBlock, AnyBlock, NewBlock
<1>3. QED BY <1>1, <1>2, PlainSegments, BodyOfSegments

LEMMA GuardedType ==
  ASSUME NEW b, NEW k, PlainBody(b), SingleSuccessor(b)
  PROVE  IsBody(Guarded(b, k), AnyBlock, AnyOp)
<1> DEFINE g   == Guarded(b, k)
           own == To(b, b.entry)[1]
<1>1. /\ g = [entry |-> g.entry, block |-> g.block] /\ g.block = [l \in DOMAIN g.block |-> g.block[l]]
      /\ g.entry = b.entry /\ DOMAIN g.block = DOMAIN b.block \cup {"check", "call", "throw"}
      /\ g.block[b.entry] = Seg(Code(b, b.entry) \o FlagCheck, <<own, "check">>)
      /\ g.block["check"] = Seg(VarCheck, <<"call", "throw">>)
      /\ g.block["call"]  = Seg(<<PatchCall(k)>>, <<>>)
      /\ g.block["throw"] = Seg(<<"raise">>, <<>>)
      /\ \A l \in DOMAIN b.block \ {b.entry} : g.block[l] = b.block[l]
  BY GuardedBlocks
<1>2. b.entry \in DOMAIN b.block /\ DOMAIN b.block \subseteq AnyBlock /\ own \in AnyBlock
  BY PlainType, OwnBlock DEF IsBody
<1> HIDE DEF g, own
<1>3. IsSegment(g.block[b.entry])
  <2>1. Code(b, b.entry) \in Seq(AnyOp) /\ FlagCheck \in Seq(AnyOp)
    BY <1>2, PlainSegments, AddedSegments
  <2>2. Code(b, b.entry) \o FlagCheck \in Seq(AnyOp)
    BY <2>1, ConcatProperties
  <2>3. "check" \in AnyBlock
    BY DEF AnyBlock, NewBlock
  <2>4. <<own, "check">> \in Seq(AnyBlock)
    BY <1>2, <2>3
  <2>5. QED BY <1>1, <2>2, <2>4, SegmentOf
<1>4. IsSegment(g.block["check"]) /\ IsSegment(g.block["call"]) /\ IsSegment(g.block["throw"])
  BY <1>1, AddedSegments
<1>5. \A l \in DOMAIN b.block \ {b.entry} : IsSegment(g.block[l])
  BY <1>1, PlainSegments
<1>6. DOMAIN g.block \subseteq AnyBlock /\ g.entry \in DOMAIN g.block
  BY <1>1, <1>2 DEF AnyBlock, NewBlock
<1>7. \A l \in DOMAIN g.block : IsSegment(g.block[l])
  BY <1>1, <1>3, <1>4, <1>5
<1>8. QED BY <1>1, <1>6, <1>7, BodyOfSegments DEF g

LEMMA GuardedInitType ==
  ASSUME NEW b, PlainBody(b)
  PROVE  IsBody(GuardedInit(b), AnyBlock, AnyOp)
<1> DEFINE g == GuardedInit(b)
<1>1. /\ g = [entry |-> g.entry, block |-> g.block] /\ g.block = [l \in DOMAIN g.block |-> g.block[l]]
      /\ g.entry = b.entry
      /\ DOMAIN g.block = DOMAIN b.block \cup {"old entry", "check", "found", "made", "call"}
      /\ g.block[b.entry] = Seg(FlagCheck, <<"old entry", "check">>)
      /\ g.block["old entry"] = b.block[b.entry]
      /\ g.block["check"] = Seg(VarCheck, <<"found", "made">>)
      /\ g.block["found"] = Seg(<<"use instance">>, <<"call">>)
      /\ g.block["made"]  = Seg(<<"make instance">>, <<"call">>)
      /\ g.block["call"]  = Seg(<<"invoke guard method">>, <<>>)
      /\ \A l \in DOMAIN b.block \ {b.entry} : g.block[l] = b.block[l]
  BY GuardedInitBlocks
<1>2. b.entry \in DOMAIN b.block /\ DOMAIN b.block \subseteq AnyBlock
  BY PlainType DEF IsBody
<1> HIDE DEF g
<1>3. /\ IsSegment(g.block[b.entry]) /\ IsSegment(g.block["check"]) /\ IsSegment(g.block["found"])
      /\ IsSegment(g.block["made"]) /\ IsSegment(g.block["call"])
  BY <1>1, AddedSegments
<1>4. /\ IsSegment(g.block["old entry"])
      /\ \A l \in DOMAIN b.block \ {b.entry} : IsSegment(g.block[l])
  BY <1>1, <1>2, PlainSegments
<1>5. DOMAIN g.block \subseteq AnyBlock /\ g.entry \in DOMAIN g.block
  BY <1>1, <1>2 DEF AnyBlock, NewBlock
<1>6. \A l \in DOMAIN g.block : IsSegment(g.block[l])
  BY <1>1, <1>3, <1>4
<1>7. QED BY <1>1, <1>5, <1>6, BodyOfSegments DEF g

LEMMA MergedType ==
  ASSUME NEW b, PlainBody(b), SingleSuccessor(b)
  PROVE  IsBody(Merged(b), AnyBlock, AnyOp)
<1> DEFINE m   == Merged(b)
           own == To(b, b.entry)[1]
<1>1. own \in DOMAIN b.block \ {b.entry} /\ b.entry \in DOMAIN b.block /\ DOMAIN b.block \subseteq AnyBlock
  BY OwnBlock, PlainType DEF IsBody
<1>2. /\ m = [entry |-> m.entry, block |-> m.block] /\ m.block = [l \in DOMAIN m.block |-> m.block[l]]
      /\ m.entry = b.entry /\ DOMAIN m.block = DOMAIN b.block \ {own}
      /\ m.block[b.entry] = Seg(Code(b, b.entry) \o Code(b, own), To(b, own))
      /\ \A l \in DOMAIN b.block \ {own, b.entry} : m.block[l] = b.block[l]
  BY <1>1 DEF Merged
<1> HIDE DEF m, own
<1>3. Code(b, b.entry) \in Seq(AnyOp) /\ Code(b, own) \in Seq(AnyOp) /\ To(b, own) \in Seq(AnyBlock)
  BY <1>1, PlainSegments
<1>4. Code(b, b.entry) \o Code(b, own) \in Seq(AnyOp)
  BY <1>3, ConcatProperties
<1>5. IsSegment(m.block[b.entry]) /\ \A l \in DOMAIN b.block \ {own, b.entry} : IsSegment(m.block[l])
  BY <1>2, <1>3, <1>4, SegmentOf, PlainSegments
<1>6. DOMAIN m.block \subseteq AnyBlock /\ m.entry \in DOMAIN m.block
      /\ \A l \in DOMAIN m.block : IsSegment(m.block[l])
  BY <1>1, <1>2, <1>5
<1>7. QED BY <1>2, <1>6, BodyOfSegments DEF m

LEMMA RenamedType ==
  ASSUME NEW b, PlainBody(b)
  PROVE  IsBody(Renamed(b), AnyBlock, AnyOp)
<1> DEFINE r == Renamed(b)
<1>1. b.entry \in DOMAIN b.block /\ "old entry" \notin DOMAIN b.block /\ DOMAIN b.block \subseteq AnyBlock
  BY PlainParts, PlainType DEF IsBody
<1>2. /\ r = [entry |-> r.entry, block |-> r.block] /\ r.block = [l \in DOMAIN r.block |-> r.block[l]]
      /\ r.entry = "old entry" /\ DOMAIN r.block = (DOMAIN b.block \ {b.entry}) \cup {"old entry"}
      /\ r.block["old entry"] = b.block[b.entry]
      /\ \A l \in DOMAIN b.block \ {b.entry} : r.block[l] = b.block[l]
  BY <1>1 DEF Renamed
<1> HIDE DEF r
<1>3. DOMAIN r.block \subseteq AnyBlock /\ r.entry \in DOMAIN r.block
  BY <1>1, <1>2 DEF AnyBlock, NewBlock
<1>4. \A l \in DOMAIN r.block : IsSegment(r.block[l])
  BY <1>1, <1>2, PlainSegments
<1>5. QED BY <1>2, <1>3, <1>4, BodyOfSegments DEF r

GlobalTypes ==
  flag \in BOOLEAN /\ guardVar \in {None, Installed}
  /\ loaded \in {None, Installed} /\ receiver \in {None, Installed, Fresh}

LEMMA GlobalsStep == GlobalTypes /\ [Next]_vars => GlobalTypes'
<1> SUFFICES ASSUME GlobalTypes, [Next]_vars PROVE GlobalTypes'
  OBVIOUS
<1>1. ReplaceBodyWithThrow \/ GenGuardChecks \/ GenPackageInitGuardChecks \/ Refuse \/ RemoveGuardChecks
        \/ UNCHANGED vars => UNCHANGED <<flag, guardVar, loaded, receiver>>
  BY DEF ReplaceBodyWithThrow, GenGuardChecks, GenPackageInitGuardChecks, Refuse, RemoveGuardChecks, call, vars
<1>2. TestFlag \/ ApplySyntheticConstructor \/ InvokeGuardMethod \/ Raise \/ RunOwnBlock =>
        UNCHANGED <<flag, guardVar, loaded, receiver>>
  BY DEF TestFlag, ApplySyntheticConstructor, InvokeGuardMethod, Raise, RunOwnBlock
<1>3. Call \/ TestGuardVar \/ UseInstance \/ MakeInstance => GlobalTypes'
  BY DEF Call, TestGuardVar, UseInstance, MakeInstance, GlobalTypes
<1>4. QED BY <1>1, <1>2, <1>3 DEF Next, Continue, GlobalTypes

\* Type correctness of guarding, calling and removing, for every body: the body is
\* always one of known blocks and expressions, and a call is at one of its blocks.
THEOREM GuardTypes == Spec => []TypeOK
<1>1. Init => GlobalTypes
  BY DEF Init, GlobalTypes
<1>2. Spec => []GlobalTypes
  BY <1>1, GlobalsStep, PTL DEF Spec
<1>3. BodyInv /\ CallInv /\ GuardableInv /\ GlobalTypes => TypeOK
  <2> SUFFICES ASSUME BodyInv, CallInv, GuardableInv, GlobalTypes PROVE TypeOK
    OBVIOUS
  <2>1. PlainBody(plain)
    BY PlainBodies DEF BodyInv
  <2>2. IsBody(body, AnyBlock, AnyOp)
    <3>1. CASE stage \in {"source", "refused"}
      BY <2>1, <3>1, PlainType DEF BodyInv
    <3>2. CASE stage = "guarded"
      BY <2>1, <3>2, GuardedType, GuardedInitType DEF BodyInv, WithGuard
    <3>3. CASE stage = "removed"
      BY <2>1, <3>3, MergedType, RenamedType DEF BodyInv, WithoutGuard, GuardableInv
    <3>4. QED BY <3>1, <3>2, <3>3 DEF BodyInv
  <2>3. at \in AnyBlock \cup Outcome \cup {"idle"}
    BY <2>2 DEF CallInv, IsBody, AnyBlock, NewBlock
  <2>4. QED BY <2>2, <2>3 DEF TypeOK, BodyInv, GlobalTypes, AnyBlock, AnyOp
<1>4. QED BY <1>2, <1>3, CallInvariant, GuardableInvariant, PTL
=============================================================================
