--------------------- MODULE FuncCodeEqualityProofs ---------------------
(***************************************************************************)
(* Theorems about FuncCodeEquality, for all bodies of any size and shape.  *)
(***************************************************************************)
EXTENDS FuncCodeEquality, SequenceTheorems, TLAPS

Elems(s) == {s[i] : i \in 1 .. Len(s)}

-----------------------------------------------------------------------------
\* The top of a stack and the rest of it are all there is in it.
LEMMA ElemsTail ==
  ASSUME NEW S, NEW s \in Seq(S), s # <<>>
  PROVE  /\ Head(s) \in S /\ Tail(s) \in Seq(S)
         /\ Elems(s) = {Head(s)} \cup Elems(Tail(s))
<1>1. Len(s) \in Nat /\ Len(s) > 0 /\ Head(s) = s[1]
  OBVIOUS
<1>2. /\ Tail(s) \in Seq(S) /\ Len(Tail(s)) = Len(s) - 1
      /\ \A i \in 1 .. Len(s) - 1 : Tail(s)[i] = s[i + 1]
  OBVIOUS
<1>3. Elems(s) \subseteq {Head(s)} \cup Elems(Tail(s))
  <2> SUFFICES ASSUME NEW i \in 1 .. Len(s), i # 1
               PROVE  s[i] \in Elems(Tail(s))
    BY <1>1 DEF Elems
  <2>1. i - 1 \in 1 .. Len(Tail(s)) /\ Tail(s)[i - 1] = s[i]
    BY <1>1, <1>2
  <2> QED BY <2>1 DEF Elems
<1>4. Elems(Tail(s)) \subseteq Elems(s)
  <2> SUFFICES ASSUME NEW i \in 1 .. Len(Tail(s))
               PROVE  Tail(s)[i] \in Elems(s)
    BY DEF Elems
  <2>1. i + 1 \in 1 .. Len(s) /\ Tail(s)[i] = s[i + 1]
    BY <1>1, <1>2
  <2> QED BY <2>1 DEF Elems
<1>5. Head(s) \in Elems(s)
  BY <1>1 DEF Elems
<1> QED BY <1>1, <1>2, <1>3, <1>4, <1>5

\* Pushing pairs on a stack keeps those below.
LEMMA ElemsConcat ==
  ASSUME NEW S, NEW s \in Seq(S), NEW t \in Seq(S)
  PROVE  s \o t \in Seq(S) /\ Elems(s \o t) = Elems(s) \cup Elems(t)
<1>1. /\ s \o t \in Seq(S) /\ Len(s \o t) = Len(s) + Len(t)
      /\ \A i \in 1 .. Len(s) : (s \o t)[i] = s[i]
      /\ \A i \in 1 .. Len(t) : (s \o t)[Len(s) + i] = t[i]
      /\ Len(s) \in Nat /\ Len(t) \in Nat
  OBVIOUS
<1>2. Elems(s \o t) \subseteq Elems(s) \cup Elems(t)
  <2> SUFFICES ASSUME NEW i \in 1 .. Len(s \o t), i > Len(s)
               PROVE  (s \o t)[i] \in Elems(t)
    BY <1>1 DEF Elems
  <2>1. i - Len(s) \in 1 .. Len(t) /\ i = Len(s) + (i - Len(s))
    BY <1>1
  <2>2. (s \o t)[i] = t[i - Len(s)]
    BY <1>1, <2>1
  <2> QED BY <2>1, <2>2 DEF Elems
<1>3. Elems(s) \subseteq Elems(s \o t)
  BY <1>1 DEF Elems
<1>4. Elems(t) \subseteq Elems(s \o t)
  <2> SUFFICES ASSUME NEW i \in 1 .. Len(t)
               PROVE  t[i] \in Elems(s \o t)
    BY DEF Elems
  <2>1. Len(s) + i \in 1 .. Len(s \o t) /\ (s \o t)[Len(s) + i] = t[i]
    BY <1>1
  <2> QED BY <2>1 DEF Elems
<1> QED BY <1>1, <1>2, <1>3, <1>4

\* The pairs a compared pair leads to: its operands one by one.
LEMMA KidPairsFacts ==
  ASSUME pair \in CodePair, NEW p \in Value \X Value, Alike(p)
  PROVE  /\ KidPairs(p) \in Seq(MaybeNull \X MaybeNull)
         /\ Elems(KidPairs(p)) =
              {<<pair.source.kids[p[1]][i], pair.patched.kids[p[2]][i]>> :
                 i \in 1 .. Len(pair.source.kids[p[1]])}
<1> DEFINE ks == pair.source.kids[p[1]]
           kp == pair.patched.kids[p[2]]
<1>1. ks \in Seq(MaybeNull) /\ kp \in Seq(MaybeNull)
  BY CodeAssumption DEF Code, MaybeNull
<1>2. Len(ks) = Len(kp)
  BY DEF Alike
<1>3. KidPairs(p) = [i \in 1 .. Len(ks) |-> <<ks[i], kp[i]>>]
  BY DEF KidPairs
<1> HIDE DEF ks, kp
<1>4. \A i \in 1 .. Len(ks) : ks[i] \in MaybeNull /\ kp[i] \in MaybeNull
  BY <1>1, <1>2
<1>5. Len(ks) \in Nat
  BY <1>1
<1>6. KidPairs(p) \in Seq(MaybeNull \X MaybeNull) /\ Len(KidPairs(p)) = Len(ks)
  <2>1. KidPairs(p) \in [1 .. Len(ks) -> MaybeNull \X MaybeNull]
    BY <1>3, <1>4
  <2> QED BY <2>1, <1>3, <1>5
<1>7. Elems(KidPairs(p)) = {<<ks[i], kp[i]>> : i \in 1 .. Len(ks)}
  BY <1>3, <1>6 DEF Elems
<1> QED BY <1>6, <1>7 DEF ks, kp


\* What Compare does: the top pair is replaced by the pairs it leads to.
LEMMA CompareStep ==
  ASSUME TypeOK, Compare
  PROVE  /\ Head(todo) \in Value \X Value
         /\ Elems(KidPairs(Head(todo))) =
              {<<pair.source.kids[Head(todo)[1]][i], pair.patched.kids[Head(todo)[2]][i]>> :
                 i \in 1 .. Len(pair.source.kids[Head(todo)[1]])}
         /\ todo' \in Seq(MaybeNull \X MaybeNull)
         /\ Elems(todo') = Elems(KidPairs(Head(todo))) \cup Elems(Tail(todo))
<1> DEFINE S == MaybeNull \X MaybeNull
<1>1. todo \in Seq(S) /\ todo # <<>>
  BY DEF TypeOK, Compare, Running
<1>2. Head(todo) \in S /\ Tail(todo) \in Seq(S)
  BY <1>1, ElemsTail
<1>3. Alike(Head(todo)) /\ Head(todo) \in Value \X Value
  BY <1>2 DEF Compare, Alike, MaybeNull
<1>4. /\ KidPairs(Head(todo)) \in Seq(S)
      /\ Elems(KidPairs(Head(todo))) =
           {<<pair.source.kids[Head(todo)[1]][i], pair.patched.kids[Head(todo)[2]][i]>> :
              i \in 1 .. Len(pair.source.kids[Head(todo)[1]])}
  BY <1>3, KidPairsFacts DEF TypeOK
<1>5. todo' = KidPairs(Head(todo)) \o Tail(todo)
  BY DEF Compare
<1> HIDE DEF S
<1>6. \A s, t \in Seq(S) : s \o t \in Seq(S) /\ Elems(s \o t) = Elems(s) \cup Elems(t)
  BY ElemsConcat
<1>7. /\ KidPairs(Head(todo)) \o Tail(todo) \in Seq(S)
      /\ Elems(KidPairs(Head(todo)) \o Tail(todo)) =
           Elems(KidPairs(Head(todo))) \cup Elems(Tail(todo))
  BY <1>2, <1>4, <1>6
<1> QED BY <1>3, <1>4, <1>5, <1>7 DEF S

-----------------------------------------------------------------------------
\* The first value of a pair that is compared is new, so a value of the first
\* version is never compared twice; nothing else enters the memo.
THEOREM EqualityTypeCorrect == Spec => []TypeOK
<1>1. Init => TypeOK
  <2> SUFFICES ASSUME Init PROVE TypeOK
    OBVIOUS
  <2>1. pair.source.root \in Value /\ pair.patched.root \in Value
    BY CodeAssumption DEF Init, Code
  <2> QED BY <2>1 DEF Init, TypeOK, MaybeNull
<1>2. TypeOK /\ [Next]_vars => TypeOK'
  <2> SUFFICES ASSUME TypeOK, [Next]_vars PROVE TypeOK'
    OBVIOUS
  <2>1. CASE DropSameObject
    BY <2>1, ElemsTail DEF DropSameObject, Running, TypeOK
  <2>2. CASE DropVisited
    <3>1. Head(todo) \in MaybeNull \X MaybeNull /\ Tail(todo) \in Seq(MaybeNull \X MaybeNull)
      BY <2>2, ElemsTail DEF DropVisited, Running, TypeOK
    <3>2. PICK p \in matched : p[1] = Head(todo)[1]
      BY <2>2 DEF DropVisited, Visited
    <3>3. Head(todo) \in Value \X MaybeNull
      BY <3>1, <3>2 DEF TypeOK
    <3> QED BY <2>2, <3>1, <3>3 DEF DropVisited, TypeOK
  <2>3. CASE Compare
    <3>1. Head(todo) \in Value \X Value /\ todo' \in Seq(MaybeNull \X MaybeNull)
      BY <2>3, CompareStep
    <3>2. ~Visited(Head(todo)[1])
      BY <2>3 DEF Compare
    <3>3. matched' \subseteq Value \X Value
      BY <2>3, <3>1 DEF Compare, TypeOK
    <3>4. \A p, q \in matched' : p[1] = q[1] => p = q
      BY <2>3, <3>2 DEF Compare, Visited, TypeOK
    <3> QED BY <2>3, <3>1, <3>3, <3>4 DEF Compare, TypeOK
  <2>4. CASE Differ
    BY <2>4 DEF Differ, TypeOK
  <2>5. CASE Finish
    BY <2>5 DEF Finish, TypeOK
  <2>6. CASE UNCHANGED vars
    BY <2>6 DEF vars, TypeOK
  <2> QED BY <2>1, <2>2, <2>3, <2>4, <2>5, <2>6 DEF Next
<1> QED BY <1>1, <1>2, PTL DEF Spec

-----------------------------------------------------------------------------
(***************************************************************************)
(* Unchanged code is never reported as changed.  Inductive invariant: as   *)
(* long as some relation R shows the bodies to be the same, R holds of     *)
(* every pair on the stack.  A difference at the top would refute R.       *)
(***************************************************************************)
TodoRelated ==
  \A R \in SUBSET (Value \X Value) :
    Roots \in R /\ Bisimulation(R) =>
      /\ Elems(todo) \subseteq R \cup {<<Null, Null>>}
      /\ answer # "different"

THEOREM UnchangedCodeAccepted == Spec => []NeverRejectsSame
<1>1. Init => TodoRelated
  BY DEF Init, TodoRelated, Roots, Elems
<1>2. TypeOK /\ TodoRelated /\ [Next]_vars => TodoRelated'
  <2> SUFFICES ASSUME TypeOK, TodoRelated, [Next]_vars,
                      NEW R \in SUBSET (Value \X Value),
                      Roots' \in R, Bisimulation(R)'
               PROVE  /\ Elems(todo') \subseteq R \cup {<<Null, Null>>}
                      /\ answer' # "different"
    BY DEF TodoRelated, Elems
  <2>1. pair' = pair
    BY DEF Next, vars, DropSameObject, DropVisited, Compare, Differ, Finish
  <2>2. Roots \in R /\ Bisimulation(R)
    BY <2>1 DEF Roots, Bisimulation, LooksSame
  <2>3. Elems(todo) \subseteq R \cup {<<Null, Null>>} /\ answer # "different"
    BY <2>2 DEF TodoRelated
  <2>4. Running => Elems(todo) = {Head(todo)} \cup Elems(Tail(todo))
                   /\ Tail(todo) \in Seq(MaybeNull \X MaybeNull)
    BY ElemsTail DEF Running, TypeOK
  <2>5. CASE DropSameObject
    BY <2>3, <2>4, <2>5 DEF DropSameObject
  <2>6. CASE DropVisited
    BY <2>3, <2>4, <2>6 DEF DropVisited
  <2>7. CASE Compare
    <3>1. Head(todo) \in R
      BY <2>3, <2>4, <2>7 DEF Compare, SameObject
    <3>2. Elems(KidPairs(Head(todo))) \subseteq R \cup {<<Null, Null>>}
      <4>1. \A i \in 1 .. Len(pair.source.kids[Head(todo)[1]]) :
              <<pair.source.kids[Head(todo)[1]][i], pair.patched.kids[Head(todo)[2]][i]>>
                \in R \cup {<<Null, Null>>}
        BY <2>2, <3>1 DEF Bisimulation
      <4>2. Elems(KidPairs(Head(todo))) =
              {<<pair.source.kids[Head(todo)[1]][i], pair.patched.kids[Head(todo)[2]][i]>> :
                 i \in 1 .. Len(pair.source.kids[Head(todo)[1]])}
        BY <2>7, CompareStep
      <4> QED BY <4>1, <4>2
    <3>3. Elems(todo') = Elems(KidPairs(Head(todo))) \cup Elems(Tail(todo))
      BY <2>7, CompareStep
    <3>4. Running /\ answer' = answer
      BY <2>7 DEF Compare
    <3> QED BY <2>3, <2>4, <3>2, <3>3, <3>4
  <2>8. CASE Differ
    <3>1. Head(todo) \in R
      BY <2>3, <2>4, <2>8 DEF Differ, SameObject
    <3>2. LooksSame(Head(todo)) /\ Head(todo) \in Value \X Value
      BY <2>2, <3>1 DEF Bisimulation
    <3>3. Alike(Head(todo))
      BY <3>2, NullAssumption DEF LooksSame, Alike
    <3> QED BY <2>8, <3>3 DEF Differ
  <2>9. CASE Finish
    BY <2>3, <2>9 DEF Finish
  <2>10. CASE UNCHANGED vars
    BY <2>3, <2>10 DEF vars
  <2> QED BY <2>5, <2>6, <2>7, <2>8, <2>9, <2>10 DEF Next
<1>3. TodoRelated => NeverRejectsSame
  BY DEF TodoRelated, NeverRejectsSame, SameShape
<1> QED BY <1>1, <1>2, <1>3, EqualityTypeCorrect, PTL DEF Spec

-----------------------------------------------------------------------------
(***************************************************************************)
(* "equal" is right if no value was paired anew.  Inductive invariant: the *)
(* pairs compared look the same, and every pair they lead to is compared,  *)
(* dropped, null or still on the stack; with the stack empty and nothing   *)
(* dropped but what was compared, "matched" is the relation asked for.     *)
(***************************************************************************)
Accounted(todoPairs) == matched \cup skipped \cup todoPairs \cup {<<Null, Null>>}

MatchedClosed ==
  /\ answer = "equal" => todo = <<>>
  /\ Roots \in Accounted(Elems(todo))
  /\ \A p \in matched :
       /\ LooksSame(p)
       /\ \A i \in 1 .. Len(pair.source.kids[p[1]]) :
            <<pair.source.kids[p[1]][i], pair.patched.kids[p[2]][i]>>
              \in Accounted(Elems(todo))

THEOREM EqualMeansSame == Spec => []EqualUnlessRepaired
<1>1. Init => MatchedClosed
  <2> SUFFICES ASSUME Init PROVE MatchedClosed
    OBVIOUS
  <2>1. Roots \in Elems(todo)
    BY DEF Init, Roots, Elems
  <2> QED BY <2>1 DEF Init, MatchedClosed, Accounted
<1>2. TypeOK /\ MatchedClosed /\ [Next]_vars => MatchedClosed'
  <2> SUFFICES ASSUME TypeOK, MatchedClosed, [Next]_vars PROVE MatchedClosed'
    OBVIOUS
  <2>1. pair' = pair
    BY DEF Next, vars, DropSameObject, DropVisited, Compare, Differ, Finish
  <2>2. Running => Elems(todo) = {Head(todo)} \cup Elems(Tail(todo))
                   /\ Tail(todo) \in Seq(MaybeNull \X MaybeNull)
    BY ElemsTail DEF Running, TypeOK
  \* Whatever leaves the stack is accounted for otherwise.
  <2>3. Accounted(Elems(todo)) \subseteq Accounted(Elems(todo))'
    <3>1. CASE DropSameObject
      BY <3>1, <2>2 DEF DropSameObject, SameObject, Accounted, Elems
    <3>2. CASE DropVisited
      BY <3>2, <2>2 DEF DropVisited, Accounted, Elems
    <3>3. CASE Compare
      <4>1. Elems(todo') = Elems(KidPairs(Head(todo))) \cup Elems(Tail(todo))
        BY <3>3, CompareStep
      <4> QED BY <3>3, <2>2, <4>1 DEF Compare, Accounted, Elems
    <3>4. CASE Differ \/ Finish \/ UNCHANGED vars
      BY <3>4 DEF Differ, Finish, vars, Accounted, Elems
    <3> QED BY <3>1, <3>2, <3>3, <3>4 DEF Next
  <2>4. (answer = "equal" => todo = <<>>)'
    BY DEF MatchedClosed, Next, vars, Running, DropSameObject, DropVisited,
           Compare, Differ, Finish
  <2>5. (Roots \in Accounted(Elems(todo)))'
    BY <2>1, <2>3 DEF MatchedClosed, Roots
  <2>6. ASSUME NEW p \in matched'
        PROVE  /\ LooksSame(p)
               /\ \A i \in 1 .. Len(pair.source.kids[p[1]]) :
                    <<pair.source.kids[p[1]][i], pair.patched.kids[p[2]][i]>>
                      \in Accounted(Elems(todo))'
    <3>1. CASE p \in matched
      BY <3>1, <2>3 DEF MatchedClosed
    <3>2. CASE p \notin matched
      <4>1. Compare /\ p = Head(todo)
        BY <2>6, <3>2 DEF Next, vars, DropSameObject, DropVisited, Compare, Differ, Finish
      <4>2. /\ p \in Value \X Value
            /\ Elems(KidPairs(p)) =
                 {<<pair.source.kids[p[1]][i], pair.patched.kids[p[2]][i]>> :
                    i \in 1 .. Len(pair.source.kids[p[1]])}
            /\ Elems(todo') = Elems(KidPairs(p)) \cup Elems(Tail(todo))
        BY <4>1, CompareStep
      <4>3. Elems(KidPairs(p)) \subseteq Accounted(Elems(todo))'
        BY <4>2 DEF Accounted, Elems
      <4>4. LooksSame(p)
        BY <4>1 DEF Compare, Alike, LooksSame
      <4> QED BY <4>2, <4>3, <4>4
    <3> QED BY <3>1, <3>2
  <2> QED BY <2>1, <2>4, <2>5, <2>6 DEF MatchedClosed, LooksSame
<1>3. TypeOK /\ MatchedClosed => EqualUnlessRepaired
  <2> SUFFICES ASSUME TypeOK, MatchedClosed, answer = "equal", skipped \subseteq matched
               PROVE  SameShape
    BY DEF EqualUnlessRepaired
  <2>1. Accounted(Elems(todo)) = matched \cup {<<Null, Null>>}
    BY DEF MatchedClosed, Accounted, Elems
  <2>2. Roots \in Value \X Value
    BY CodeAssumption DEF TypeOK, Roots, Code
  <2>3. Roots \in matched
    BY <2>1, <2>2, NullAssumption DEF MatchedClosed, Roots
  <2>4. Bisimulation(matched)
    BY <2>1 DEF MatchedClosed, Bisimulation
  <2>5. matched \in SUBSET {p \in Value \X Value : LooksSame(p)}
    BY DEF TypeOK, MatchedClosed
  <2> QED BY <2>3, <2>4, <2>5 DEF SameShape
<1> QED BY <1>1, <1>2, <1>3, EqualityTypeCorrect, PTL DEF Spec

=============================================================================
