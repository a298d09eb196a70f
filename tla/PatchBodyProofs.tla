-------------------------- MODULE PatchBodyProofs --------------------------
(***************************************************************************)
(* Proofs about PatchBody, for bodies of any length, in any order.         *)
(***************************************************************************)
EXTENDS PatchBody, TLAPS

(***************************************************************************)
(* The values are told apart by their kinds.                               *)
(***************************************************************************)
LEMMA CloneFields == \A k : Clone(k).is = "clone" /\ Clone(k).of = k
  BY DEF Clone

LEMMA PatchedFields == \A i : Patched(i).is = "patched parameter" /\ Patched(i).of = i
  BY DEF Patched

\* What has become of an operand v of expression k when the visitor is at s.
ImageAt(v, k, s) ==
  IF v.is = "result"
  THEN IF (~Terminator(v.of) /\ v.of < s) \/ (Terminator(v.of) /\ v.of < k /\ k < s)
       THEN Clone(v.of) ELSE v
  ELSE IF v.of \in Identifiers(patchable) /\ k < s THEN Shifted(v.of) ELSE v

ClonedBefore(s) == {j \in DOMAIN Code : j < s /\ Terminator(j) /\ Code[j].result}

\* One visit takes every operand from its image before it to that after it.
LEMMA VisitOperand ==
  ASSUME NEW v \in Value, NEW k \in Nat, NEW w, w = ImageAt(v, k, step),
         step \in Nat, v.is = "result" => v.of \in DOMAIN Code /\ Code[v.of].result,
         clonedTerminators = ClonedBefore(step)
  PROVE  (IF k = step THEN NewOperand(Replaced(w)) ELSE Replaced(w)) = ImageAt(v, k, step + 1)
<1>0. v.of \in Nat /\ v.is \in {"result", "parameter"}
  BY DEF Value
<1>1. CASE v.is = "parameter"
  <2>1. w = IF v.of \in Identifiers(patchable) /\ k < step THEN Shifted(v.of) ELSE v
    BY <1>1 DEF ImageAt
  <2>2. w.is # "result"
    BY <2>1, <1>1, PatchedFields DEF Shifted
  <2>3. Replaced(w) = w
    BY <2>2 DEF Replaced
  <2>4. CASE k = step
    <3>1. w = v
      BY <2>1, <2>4
    <3>2. NewOperand(v) = IF v.of \in Identifiers(patchable) THEN Shifted(v.of) ELSE v
      BY <1>1 DEF NewOperand
    <3> QED
      BY <2>3, <2>4, <3>1, <3>2, <1>1 DEF ImageAt
  <2>5. CASE k # step
    BY <2>1, <2>3, <2>5, <1>1 DEF ImageAt
  <2> QED
    BY <2>4, <2>5
<1>2. CASE v.is = "result" /\ ~Terminator(v.of)
  <2>1. w = IF v.of < step THEN Clone(v.of) ELSE v
    BY <1>2 DEF ImageAt
  <2>2. ImageAt(v, k, step + 1) = IF v.of <= step THEN Clone(v.of) ELSE v
    BY <1>2, <1>0 DEF ImageAt
  <2>3. Replaced(w) = IF v.of <= step THEN Clone(v.of) ELSE v
    <3>1. CASE v.of < step
      BY <3>1, <2>1, CloneFields, <1>0 DEF Replaced
    <3>2. CASE v.of = step
      BY <3>2, <2>1, <1>2, <1>0 DEF Replaced
    <3>3. CASE v.of > step
      BY <3>3, <2>1, <1>2, <1>0 DEF Replaced
    <3> QED
      BY <3>1, <3>2, <3>3, <1>0
  <2>4. NewOperand(Clone(v.of)) = Clone(v.of)
    BY CloneFields DEF NewOperand
  <2>5. NewOperand(v) = v
    BY <1>2 DEF NewOperand, ClonedBefore
  <2> QED
    BY <2>2, <2>3, <2>4, <2>5
<1>3. CASE v.is = "result" /\ Terminator(v.of)
  <2>1. w = IF v.of < k /\ k < step THEN Clone(v.of) ELSE v
    BY <1>3 DEF ImageAt
  <2>2. ImageAt(v, k, step + 1) = IF v.of < k /\ k <= step THEN Clone(v.of) ELSE v
    BY <1>3, <1>0 DEF ImageAt
  <2>3. Replaced(w) = w
    BY <2>1, <1>3, CloneFields DEF Replaced
  <2>4. CASE k = step
    <3>1. w = v
      BY <2>1, <2>4
    <3>2. v.of \in clonedTerminators <=> v.of < k
      BY <2>4, <1>3 DEF ClonedBefore
    <3>3. NewOperand(v) = IF v.of < k THEN Clone(v.of) ELSE v
      BY <1>3, <3>2 DEF NewOperand
    <3> QED
      BY <2>2, <2>3, <2>4, <3>1, <3>3
  <2>5. CASE k # step
    BY <2>1, <2>2, <2>3, <2>5
  <2> QED
    BY <2>4, <2>5
<1> QED
  BY <1>0, <1>1, <1>2, <1>3

(***************************************************************************)
(* The inductive invariant.                                                *)
(***************************************************************************)
Shapes ==
  /\ DOMAIN operands = DOMAIN Code /\ DOMAIN thisType = DOMAIN Code
  /\ \A k \in DOMAIN Code : DOMAIN operands[k] = DOMAIN Code[k].operands
  /\ \A k \in DOMAIN Code : DOMAIN thisType[k] = DOMAIN Code[k].thisType

Images ==
  \A k \in DOMAIN Code : \A i \in DOMAIN Code[k].operands :
    operands[k][i] = ImageAt(Code[k].operands[i], k, step)

ThisAsWritten ==
  \A k \in DOMAIN Code : \A i \in DOMAIN Code[k].thisType : thisType[k][i] = Code[k].thisType[i]

IInv ==
  /\ patchable \in Patchable /\ step \in Nat
  /\ Shapes
  /\ step <= Len(Code) + 1 => Images /\ clonedTerminators = ClonedBefore(step) /\ returnValue = Nothing
  /\ step > Len(Code) + 1 => OperandsMeant /\ ValueReturned
  /\ retValIdx = IF step = 0 THEN 0 ELSE patchable.returns
  /\ step <= Len(Code) + 2 => ThisAsWritten
  /\ step = Len(Code) + 3 => ThisBound

LEMMA BodyFacts ==
  ASSUME patchable \in Patchable
  PROVE  /\ Code \in Seq(Expression) /\ Len(Code) \in Nat /\ DOMAIN Code = 1 .. Len(Code)
         /\ \A k \in DOMAIN Code : \A i \in DOMAIN Code[k].operands :
              /\ Code[k].operands[i] \in Value
              /\ Code[k].operands[i].is = "result" =>
                   Code[k].operands[i].of \in DOMAIN Code /\ Code[Code[k].operands[i].of].result
         /\ patchable.returns = 0 \/ patchable.returns \in NonTerminators(patchable)
         /\ patchable.returns \in Nat
         /\ patchable.kind = "class constructor" => patchable.returns = 0
         /\ patchable.parent # "This"
<1>1. Code \in Seq(Expression)
  BY PatchableAssumption DEF Code
<1>2. Len(Code) \in Nat /\ DOMAIN Code = 1 .. Len(Code)
  BY <1>1
<1>3. ASSUME NEW k \in DOMAIN Code, NEW i \in DOMAIN Code[k].operands
      PROVE  Code[k].operands[i] \in Value
  <2>1. Code[k] \in Expression
    BY <1>1, <1>2
  <2>2. Code[k].operands \in Seq(Value)
    BY <2>1 DEF Expression
  <2> QED
    BY <2>2
<1>4. ASSUME NEW k \in DOMAIN Code, NEW i \in DOMAIN Code[k].operands, Code[k].operands[i].is = "result"
      PROVE  Code[k].operands[i].of \in DOMAIN Code /\ Code[Code[k].operands[i].of].result
  BY <1>4, PatchableAssumption DEF Code
<1>5. patchable.returns = 0 \/ patchable.returns \in NonTerminators(patchable)
  BY PatchableAssumption
<1>6. patchable.returns \in Nat
  BY <1>5, <1>2 DEF NonTerminators, Code
<1>7. /\ patchable.kind = "class constructor" => patchable.returns = 0
      /\ patchable.parent # "This"
  BY PatchableAssumption
<1> QED
  BY <1>1, <1>2, <1>3, <1>4, <1>5, <1>6, <1>7

LEMMA InitImplies == Init => IInv
<1> SUFFICES ASSUME Init PROVE IInv
  OBVIOUS
<1>1. patchable \in Patchable /\ step = 0 /\ retValIdx = 0 /\ returnValue = Nothing /\ clonedTerminators = {}
  BY DEF Init
<1>2. Len(Code) \in Nat /\ DOMAIN Code = 1 .. Len(Code)
  BY <1>1, BodyFacts
<1>3. \A k \in DOMAIN Code : operands[k] = Code[k].operands /\ thisType[k] = Code[k].thisType
  BY DEF Init
<1>4. Shapes
  BY <1>3 DEF Init, Shapes
<1>5. Images
  <2> SUFFICES ASSUME NEW k \in DOMAIN Code, NEW i \in DOMAIN Code[k].operands
               PROVE  operands[k][i] = ImageAt(Code[k].operands[i], k, step)
    BY DEF Images
  <2>1. Code[k].operands[i] \in Value
    BY <1>1, BodyFacts
  <2>2. ImageAt(Code[k].operands[i], k, 0) = Code[k].operands[i]
    BY <2>1, <1>2 DEF ImageAt, Value
  <2> QED
    BY <1>1, <1>3, <2>2
<1>6. clonedTerminators = ClonedBefore(step)
  BY <1>1, <1>2 DEF ClonedBefore
<1>7. ThisAsWritten
  BY <1>3 DEF ThisAsWritten
<1> QED
  BY <1>1, <1>2, <1>4, <1>5, <1>6, <1>7 DEF IInv

LEMMA ReplaceBodyKeeps ==
  ASSUME IInv, ReplaceBody
  PROVE  IInv'
<1>1. /\ step = 0 /\ step' = 1
      /\ patchable' = patchable /\ operands' = operands /\ thisType' = thisType
      /\ returnValue' = returnValue /\ clonedTerminators' = clonedTerminators
  BY DEF ReplaceBody
<1>2. /\ Len(Code) \in Nat /\ DOMAIN Code = 1 .. Len(Code)
      /\ patchable.returns = 0 \/ patchable.returns \in NonTerminators(patchable)
  BY BodyFacts DEF IInv
<1>3. Code' = Code
  BY <1>1 DEF Code
<1>4. Shapes' /\ ThisAsWritten'
  BY <1>1, <1>2, <1>3 DEF IInv, Shapes, ThisAsWritten
<1>5. Images'
  <2> SUFFICES ASSUME NEW k \in DOMAIN Code, NEW i \in DOMAIN Code[k].operands
               PROVE  operands[k][i] = ImageAt(Code[k].operands[i], k, 1)
    BY <1>1, <1>3 DEF Images, ImageAt, Terminator, Clone, Shifted, Patched, IsStructCtor, Code
  <2>1. Code[k].operands[i] \in Value /\ (Code[k].operands[i].is = "result" => Code[k].operands[i].of \in DOMAIN Code)
    BY BodyFacts DEF IInv
  <2>2. operands[k][i] = ImageAt(Code[k].operands[i], k, 0)
    BY <1>1, <1>2 DEF IInv, Images
  <2>3. ImageAt(Code[k].operands[i], k, 0) = ImageAt(Code[k].operands[i], k, 1)
    BY <2>1, <1>2 DEF ImageAt, Value
  <2> QED
    BY <2>2, <2>3
<1>6. clonedTerminators' = ClonedBefore(step)'
  <2>1. clonedTerminators = ClonedBefore(0)
    BY <1>1, <1>2 DEF IInv
  <2>2. ClonedBefore(0) = {} /\ ClonedBefore(1) = {}
    BY <1>2 DEF ClonedBefore
  <2>3. ClonedBefore(step)' = ClonedBefore(1)
    BY <1>1, <1>3 DEF ClonedBefore, Terminator, Code
  <2> QED
    BY <1>1, <2>1, <2>2, <2>3
<1>7. retValIdx' = patchable.returns
  BY <1>2 DEF ReplaceBody
<1> QED
  BY <1>1, <1>2, <1>3, <1>4, <1>5, <1>6, <1>7 DEF IInv

LEMMA VisitKeeps ==
  ASSUME IInv, VisitExpression
  PROVE  IInv'
<1>1. /\ step \in DOMAIN Code /\ step' = step + 1
      /\ patchable' = patchable /\ thisType' = thisType
      /\ returnValue' = returnValue /\ retValIdx' = retValIdx
  BY DEF VisitExpression
<1>2. Len(Code) \in Nat /\ DOMAIN Code = 1 .. Len(Code) /\ step \in Nat
  BY BodyFacts DEF IInv
<1>3. Code' = Code
  BY <1>1 DEF Code
<1>4. step # 0 /\ step <= Len(Code) /\ step + 1 <= Len(Code) + 1
  BY <1>1, <1>2
<1>5. /\ Shapes /\ Images /\ ThisAsWritten
      /\ clonedTerminators = ClonedBefore(step) /\ returnValue = Nothing
  BY <1>2, <1>4 DEF IInv
<1>6. \A k \in DOMAIN Code : \A i \in DOMAIN Code[k].operands :
        operands'[k][i] = IF k = step THEN NewOperand(Replaced(operands[k][i])) ELSE Replaced(operands[k][i])
  BY <1>5 DEF VisitExpression, Shapes
<1>7. Shapes'
  BY <1>1, <1>3, <1>5 DEF VisitExpression, Shapes
<1>8. Images'
  <2> SUFFICES ASSUME NEW k \in DOMAIN Code, NEW i \in DOMAIN Code[k].operands
               PROVE  operands'[k][i] = ImageAt(Code[k].operands[i], k, step + 1)
    BY <1>1, <1>3 DEF Images, ImageAt, Terminator, Clone, Shifted, Patched, IsStructCtor, Code
  <2>1. /\ Code[k].operands[i] \in Value
        /\ Code[k].operands[i].is = "result" =>
             Code[k].operands[i].of \in DOMAIN Code /\ Code[Code[k].operands[i].of].result
    BY BodyFacts DEF IInv
  <2>2. operands[k][i] = ImageAt(Code[k].operands[i], k, step)
    BY <1>5 DEF Images
  <2>3. k \in Nat
    BY <1>2
  <2> HIDE DEF Value, ImageAt, NewOperand, Replaced, ClonedBefore
  <2>4. (IF k = step THEN NewOperand(Replaced(operands[k][i])) ELSE Replaced(operands[k][i]))
          = ImageAt(Code[k].operands[i], k, step + 1)
    BY <2>1, <2>2, <2>3, <1>2, <1>5, VisitOperand
  <2> QED
    BY <1>6, <2>4
<1>9. clonedTerminators' = ClonedBefore(step)'
  <2>1. clonedTerminators' = IF Terminator(step) /\ Code[step].result
                             THEN clonedTerminators \cup {step} ELSE clonedTerminators
    BY DEF VisitExpression
  <2>2. ClonedBefore(step)' = ClonedBefore(step + 1)
    BY <1>1, <1>3 DEF ClonedBefore, Terminator, Code
  <2>3. ClonedBefore(step + 1) = IF Terminator(step) /\ Code[step].result
                                 THEN ClonedBefore(step) \cup {step} ELSE ClonedBefore(step)
    BY <1>1, <1>2 DEF ClonedBefore
  <2> QED
    BY <1>5, <2>1, <2>2, <2>3
<1>10. ThisAsWritten'
  BY <1>1, <1>3, <1>5 DEF ThisAsWritten
<1>11. retValIdx' = patchable'.returns
  BY <1>1, <1>4 DEF IInv
<1>12. patchable' \in Patchable /\ step' \in Nat
  BY <1>1, <1>2 DEF IInv
<1> QED
  BY <1>1, <1>2, <1>3, <1>4, <1>5, <1>7, <1>8, <1>9, <1>10, <1>11, <1>12 DEF IInv

\* After the last visit only the receiver of a struct constructor is left to replace.
LEMMA ImageWhenVisited ==
  ASSUME NEW v \in Value, NEW k \in Nat, NEW s \in Nat, k < s,
         v.is = "result" => v.of \in Nat /\ v.of < s,
         v.is = "result" /\ Terminator(v.of) => v.of < k
  PROVE  ImageAt(v, k, s) = Meant(v, TRUE)
  BY DEF ImageAt, Meant, Value, Shifted, Own

LEMMA AllocFields == Alloc("struct").is = "struct"
  BY DEF Alloc

LEMMA ReceiverReplaced ==
  ASSUME NEW v \in Value, NEW debug \in BOOLEAN, IsStructCtor
  PROVE  Meant(v, debug) = IF Meant(v, TRUE) = Patched(0) /\ ~debug THEN Alloc("struct") ELSE Meant(v, TRUE)
<1>1. CASE v.is = "result"
  BY <1>1, CloneFields, PatchedFields DEF Meant
<1>2. CASE v.is = "parameter" /\ v.of \notin Identifiers(patchable)
  BY <1>2, PatchedFields DEF Meant
<1>3. CASE v.is = "parameter" /\ v.of \in Identifiers(patchable)
  <2>1. Meant(v, TRUE) = Patched(v.of)
    BY <1>3 DEF Meant, Own
  <2>2. Patched(v.of) = Patched(0) <=> v.of = 0
    BY PatchedFields
  <2>3. Meant(v, debug) = IF v.of = 0 /\ ~debug THEN Alloc("struct") ELSE Patched(v.of)
    BY <1>3 DEF Meant, Own, Receiver
  <2> QED
    BY <2>1, <2>2, <2>3
<1> QED
  BY <1>1, <1>2, <1>3 DEF Value

\* What the images are when all expressions are visited.
LEMMA VisitedImages ==
  ASSUME IInv, Visited, NEW k \in DOMAIN Code, NEW i \in DOMAIN Code[k].operands,
         Code[k].operands[i].is = "result" /\ Terminator(Code[k].operands[i].of) => Code[k].operands[i].of < k
  PROVE  operands[k][i] = Meant(Code[k].operands[i], TRUE)
<1>1. Len(Code) \in Nat /\ DOMAIN Code = 1 .. Len(Code) /\ step \in Nat /\ step = Len(Code) + 1
  BY BodyFacts DEF IInv, Visited
<1>2. operands[k][i] = ImageAt(Code[k].operands[i], k, step)
  BY <1>1 DEF IInv, Images
<1>3. /\ Code[k].operands[i] \in Value
      /\ Code[k].operands[i].is = "result" => Code[k].operands[i].of \in DOMAIN Code
  BY BodyFacts DEF IInv
<1>4. k \in Nat /\ k < step
  BY <1>1
<1>5. Code[k].operands[i].is = "result" => Code[k].operands[i].of \in Nat /\ Code[k].operands[i].of < step
  BY <1>1, <1>3
<1> HIDE DEF Value, ImageAt, Meant
<1> QED
  BY <1>1, <1>2, <1>3, <1>4, <1>5, ImageWhenVisited

LEMMA AllocateStructKeeps ==
  ASSUME IInv, AllocateStruct
  PROVE  IInv'
<1>1. /\ Visited /\ IsStructCtor /\ step' = step + 1
      /\ patchable' = patchable /\ thisType' = thisType /\ retValIdx' = retValIdx
      /\ returnValue' = Alloc("struct")
  BY DEF AllocateStruct
<1>2. Len(Code) \in Nat /\ DOMAIN Code = 1 .. Len(Code) /\ step = Len(Code) + 1
  BY <1>1, BodyFacts DEF IInv, Visited
<1>3. Code' = Code
  BY <1>1 DEF Code
<1>4. Shapes /\ ThisAsWritten
  BY <1>2 DEF IInv
<1>5. Shapes' /\ ThisAsWritten'
  BY <1>1, <1>3, <1>4 DEF AllocateStruct, Shapes, ThisAsWritten
<1>6. OperandsMeant'
  <2> SUFFICES ASSUME NEW k \in DOMAIN Code, NEW i \in DOMAIN Code[k].operands,
                      Code[k].operands[i].is = "result" /\ Terminator(Code[k].operands[i].of)
                        => Code[k].operands[i].of < k
               PROVE  operands'[k][i] = Meant(Code[k].operands[i], Code[k].debug)
    BY <1>1, <1>3 DEF OperandsMeant, Meant, Receiver, Own, Terminator, Clone, Patched, Alloc, IsStructCtor, Code
  <2>1. operands'[k][i] = IF operands[k][i] = Patched(0) /\ ~Code[k].debug THEN Alloc("struct") ELSE operands[k][i]
    BY <1>4 DEF AllocateStruct, Shapes
  <2>2. operands[k][i] = Meant(Code[k].operands[i], TRUE)
    BY <1>1, VisitedImages
  <2>3. Code[k].operands[i] \in Value /\ Code[k].debug \in BOOLEAN
    <3>0. patchable \in Patchable
      BY DEF IInv
    <3>4. Code \in Seq(Expression) /\ DOMAIN Code = 1 .. Len(Code)
      BY <3>0, BodyFacts
    <3>1. Code[k] \in Expression
      BY <3>4
    <3>2. Code[k].debug \in BOOLEAN
      BY <3>1 DEF Expression
    <3>3. Code[k].operands[i] \in Value
      BY BodyFacts DEF IInv
    <3> QED
      BY <3>2, <3>3
  <2> HIDE DEF Value, Meant
  <2>4. Meant(Code[k].operands[i], Code[k].debug)
          = IF Meant(Code[k].operands[i], TRUE) = Patched(0) /\ ~Code[k].debug
            THEN Alloc("struct") ELSE Meant(Code[k].operands[i], TRUE)
    BY <1>1, <2>3, ReceiverReplaced
  <2> QED
    BY <2>1, <2>2, <2>4
<1>7. ValueReturned'
  BY <1>1 DEF ValueReturned, IsStructCtor, Alloc
<1>8. retValIdx' = patchable'.returns /\ patchable' \in Patchable
  BY <1>1, <1>2 DEF IInv
<1>9. step' = Len(Code') + 2 /\ Len(Code') \in Nat
  BY <1>1, <1>2, <1>3
<1> QED
  BY <1>5, <1>6, <1>7, <1>8, <1>9 DEF IInv

LEMMA SetReturnValueKeeps ==
  ASSUME IInv, SetReturnValue
  PROVE  IInv'
<1>1. /\ Visited /\ ~IsStructCtor /\ step' = step + 1
      /\ patchable' = patchable /\ thisType' = thisType /\ retValIdx' = retValIdx /\ operands' = operands
      /\ returnValue' = IF retValIdx > 0 THEN Clone(retValIdx)
                        ELSE IF AllocateUnit THEN Alloc("unit") ELSE returnValue
  BY DEF SetReturnValue
<1>2. Len(Code) \in Nat /\ step = Len(Code) + 1 /\ patchable.returns \in Nat
  BY <1>1, BodyFacts DEF IInv, Visited
<1>3. Code' = Code
  BY <1>1 DEF Code
<1>10. Shapes /\ ThisAsWritten /\ retValIdx = patchable.returns /\ returnValue = Nothing
  BY <1>2 DEF IInv
<1>4. Shapes' /\ ThisAsWritten'
  BY <1>1, <1>3, <1>10 DEF Shapes, ThisAsWritten
<1>5. OperandsMeant'
  <2> SUFFICES ASSUME NEW k \in DOMAIN Code, NEW i \in DOMAIN Code[k].operands,
                      Code[k].operands[i].is = "result" /\ Terminator(Code[k].operands[i].of)
                        => Code[k].operands[i].of < k
               PROVE  operands[k][i] = Meant(Code[k].operands[i], Code[k].debug)
    BY <1>1, <1>3 DEF OperandsMeant, Meant, Receiver, Own, Terminator, Clone, Patched, Alloc, IsStructCtor, Code
  <2>1. operands[k][i] = Meant(Code[k].operands[i], TRUE)
    BY <1>1, VisitedImages
  <2>2. Meant(Code[k].operands[i], TRUE) = Meant(Code[k].operands[i], Code[k].debug)
    BY <1>1 DEF Meant, Receiver
  <2> QED
    BY <2>1, <2>2
<1>6. ValueReturned'
  <2>1. patchable.returns # 0 <=> patchable.returns > 0
    BY <1>2
  <2>2. AllocateUnit <=> patchable.kind = "class constructor"
    BY <1>1 DEF AllocateUnit, IsStructCtor, StructConstructor
  <2>3. returnValue' = IF patchable.returns # 0 THEN Clone(patchable.returns)
                       ELSE IF patchable.kind = "class constructor" THEN Alloc("unit") ELSE Nothing
    BY <1>1, <1>10, <2>1, <2>2
  <2> QED
    BY <1>1, <2>3 DEF ValueReturned, IsStructCtor, Clone, Alloc, Nothing
<1>7. retValIdx' = patchable'.returns /\ patchable' \in Patchable
  BY <1>1, <1>10 DEF IInv
<1>8. step' = Len(Code') + 2 /\ Len(Code') \in Nat
  BY <1>1, <1>2, <1>3
<1> QED
  BY <1>4, <1>5, <1>6, <1>7, <1>8 DEF IInv

LEMMA BindThisTypesKeeps ==
  ASSUME IInv, BindThisTypes
  PROVE  IInv'
<1>1. /\ step = Len(Code) + 2 /\ step' = step + 1
      /\ patchable' = patchable /\ retValIdx' = retValIdx /\ operands' = operands /\ returnValue' = returnValue
      /\ thisType' = IF patchable.parent = "none" THEN thisType
                     ELSE [k \in DOMAIN thisType |-> BindThisType(thisType[k])]
  BY DEF BindThisTypes
<1>2. Len(Code) \in Nat /\ step \in Nat
  BY BodyFacts DEF IInv
<1>3. Code' = Code
  BY <1>1 DEF Code
<1>4. Shapes /\ OperandsMeant /\ ValueReturned /\ ThisAsWritten
  BY <1>1, <1>2 DEF IInv
<1>5. Shapes'
  BY <1>1, <1>3, <1>4 DEF Shapes, BindThisType
<1>6. OperandsMeant' /\ ValueReturned'
  <2>1. OperandsMeant' <=> OperandsMeant
    BY <1>1 DEF OperandsMeant, Meant, Receiver, Own, Terminator, Clone, Patched, Alloc, IsStructCtor, Code
  <2>2. ValueReturned' <=> ValueReturned
    BY <1>1 DEF ValueReturned, Clone, Alloc, Nothing, IsStructCtor
  <2> QED
    BY <1>4, <2>1, <2>2
<1>7. ThisBound'
  <2> SUFFICES ASSUME NEW k \in DOMAIN Code, NEW i \in DOMAIN Code[k].thisType
               PROVE  thisType'[k][i] = IF Code[k].thisType[i] = "This" /\ patchable.parent # "none"
                                        THEN patchable.parent ELSE Code[k].thisType[i]
    BY <1>1, <1>3 DEF ThisBound, Code
  <2>1. thisType[k][i] = Code[k].thisType[i] /\ k \in DOMAIN thisType /\ i \in DOMAIN thisType[k]
    BY <1>4 DEF Shapes, ThisAsWritten
  <2> QED
    BY <1>1, <2>1 DEF BindThisType
<1>8. retValIdx' = patchable'.returns /\ patchable' \in Patchable
  BY <1>1, <1>2 DEF IInv
<1>9. step' = Len(Code') + 3 /\ Len(Code') \in Nat
  BY <1>1, <1>2, <1>3
<1> QED
  BY <1>5, <1>6, <1>7, <1>8, <1>9 DEF IInv

LEMMA StutterKeeps ==
  ASSUME IInv, UNCHANGED mvars
  PROVE  IInv'
<1>1. /\ patchable' = patchable /\ step' = step /\ retValIdx' = retValIdx /\ operands' = operands
      /\ thisType' = thisType /\ returnValue' = returnValue /\ clonedTerminators' = clonedTerminators
  BY DEF mvars
<1>2. Code' = Code
  BY <1>1 DEF Code
<1>3. Shapes' <=> Shapes
  BY <1>1, <1>2 DEF Shapes
<1>4. Images' <=> Images
  BY <1>1 DEF Images, ImageAt, Terminator, Clone, Shifted, Patched, IsStructCtor, Code
<1>5. ClonedBefore(step)' = ClonedBefore(step)
  BY <1>1 DEF ClonedBefore, Terminator, Code
<1>6. OperandsMeant' <=> OperandsMeant
  BY <1>1 DEF OperandsMeant, Meant, Receiver, Own, Terminator, Clone, Patched, Alloc, IsStructCtor, Code
<1>7. ValueReturned' <=> ValueReturned
  BY <1>1 DEF ValueReturned, Clone, Alloc, Nothing, IsStructCtor
<1>8. ThisAsWritten' <=> ThisAsWritten
  BY <1>1, <1>2 DEF ThisAsWritten
<1>9. ThisBound' <=> ThisBound
  BY <1>1, <1>2 DEF ThisBound
<1>10. Nothing' = Nothing
  BY DEF Nothing
<1> QED
  BY <1>1, <1>2, <1>3, <1>4, <1>5, <1>6, <1>7, <1>8, <1>9, <1>10 DEF IInv

\* A changed body that patch-gen moves to PatchImpl computes what the changed function
\* did: for every body, whatever its length and the order in which it is visited
\* (genPatches, bindThisType).
THEOREM BodyMovedFaithfully == Spec => []MovedFaithfully
<1>1. Init => IInv
  BY InitImplies
<1>2. IInv /\ [Next]_mvars => IInv'
  <2> SUFFICES ASSUME IInv, [Next]_mvars PROVE IInv'
    OBVIOUS
  <2>1. CASE ReplaceBody
    BY <2>1, ReplaceBodyKeeps
  <2>2. CASE VisitExpression
    BY <2>2, VisitKeeps
  <2>3. CASE AllocateStruct
    BY <2>3, AllocateStructKeeps
  <2>4. CASE SetReturnValue
    BY <2>4, SetReturnValueKeeps
  <2>5. CASE BindThisTypes
    BY <2>5, BindThisTypesKeeps
  <2>6. CASE UNCHANGED mvars
    BY <2>6, StutterKeeps
  <2> QED
    BY <2>1, <2>2, <2>3, <2>4, <2>5, <2>6 DEF Next
<1>3. IInv => MovedFaithfully
  <2> SUFFICES ASSUME IInv, step = Len(Code) + 3 PROVE OperandsMeant /\ ValueReturned /\ ThisBound
    BY DEF MovedFaithfully
  <2>1. Len(Code) \in Nat
    BY BodyFacts DEF IInv
  <2> QED
    BY <2>1 DEF IInv
<1> QED
  BY <1>1, <1>2, <1>3, PTL DEF Spec
=============================================================================
