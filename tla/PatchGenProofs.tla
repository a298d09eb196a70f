-------------------------- MODULE PatchGenProofs --------------------------
(***************************************************************************)
(* Proofs about PatchGen, for every set of functions and every family of   *)
(* package pairs: its type invariant; that the depth-first search keeps    *)
(* the code of every INTERNAL function a patchable reaches; that a pair is *)
(* refused exactly when a patch could not be applied; that the flags a     *)
(* patch enables are those of the changed functions; that no new code is   *)
(* lost and guards that stay resolve; that the search recurses no deeper   *)
(* than there are INTERNAL functions.                                      *)
(***************************************************************************)
EXTENDS PatchGen, SequenceTheorems, TLAPS

FrameSet == [func : Func, todo : SUBSET Func]
GviOps == {Flag(f) : f \in Func} \cup {<<"none">>, <<"some">>}

-----------------------------------------------------------------------------
(* Lemmas about the operators of the search                                 *)

\* The frame a visit of f starts with is a frame.
LEMMA FrameType ==
  ASSUME NEW f \in Func, pair \in PackagePair
  PROVE  Frame(f) \in FrameSet /\ InternalCallees(f) \in SUBSET Func
BY DEF Frame, FrameSet, InternalCallees, PackagePair

\* Taking a callee off the top frame keeps the other frames and the functions
\* of all frames.
LEMMA TakeCalleeProperties ==
  ASSUME NEW s \in Seq(FrameSet), s # <<>>, NEW c \in Func
  PROVE  /\ TakeCallee(s, c) \in Seq(FrameSet)
         /\ Len(TakeCallee(s, c)) = Len(s)
         /\ \A i \in 1..Len(s) :
              /\ TakeCallee(s, c)[i].func = s[i].func
              /\ TakeCallee(s, c)[i].todo =
                   IF i = Len(s) THEN s[i].todo \ {c} ELSE s[i].todo
<1>1. Len(s) \in 1..Len(s) /\ \A i \in 1..Len(s) : s[i] \in FrameSet
  BY LenProperties
<1> DEFINE e == [func |-> s[Len(s)].func, todo |-> s[Len(s)].todo \ {c}]
<1>2. e \in FrameSet /\ e.func = s[Len(s)].func /\ e.todo = s[Len(s)].todo \ {c}
  BY <1>1 DEF FrameSet
<1>3. TakeCallee(s, c) = [s EXCEPT ![Len(s)] = e]
  BY DEF TakeCallee
<1> HIDE DEF e
<1>4. /\ [s EXCEPT ![Len(s)] = e] \in Seq(FrameSet)
      /\ Len([s EXCEPT ![Len(s)] = e]) = Len(s)
      /\ \A i \in 1..Len(s) : [s EXCEPT ![Len(s)] = e][i] = IF i = Len(s) THEN e ELSE s[i]
  BY <1>1, <1>2, ExceptSeq
<1> QED
  BY <1>2, <1>3, <1>4

\* Returning drops the top frame and keeps the others.
LEMMA DropFrame ==
  ASSUME NEW s \in Seq(FrameSet), s # <<>>, NEW r, r = SubSeq(s, 1, Len(s) - 1)
  PROVE  /\ r \in Seq(FrameSet)
         /\ Len(r) = Len(s) - 1
         /\ \A i \in 1..Len(r) : r[i] = s[i]
<1> DEFINE m == Len(s) - 1
<1>1. Len(s) \in Nat \ {0}
  BY EmptySeq, LenProperties
<1>2. m \in Nat /\ \A i \in 1..m : s[i] \in FrameSet
  BY <1>1, LenProperties
<1>3. r = SubSeq(s, 1, m)
  OBVIOUS
<1> HIDE DEF m
<1>4. /\ r \in Seq(FrameSet)
      /\ Len(r) = IF 1 <= m THEN m - 1 + 1 ELSE 0
      /\ \A i \in 1..(m - 1 + 1) : r[i] = s[1 + i - 1]
  BY <1>2, <1>3, SubSeqProperties
<1>5. Len(r) = m /\ m - 1 + 1 = m
  BY <1>2, <1>4
<1>6. \A i \in 1..Len(r) : 1 + i - 1 = i
  BY <1>2, <1>5
<1> QED
  BY <1>4, <1>5, <1>6 DEF m

\* Visiting callee c takes it off the top frame, keeps the others, and pushes
\* a frame for c on its first visit.
LEMMA ApplyFrames ==
  ASSUME stack \in Seq(FrameSet), pair \in PackagePair, NEW c \in Func, ReachApply(c)
  PROVE  /\ \A i \in 1..Len(stack) :
              /\ i \in 1..Len(stack')
              /\ stack'[i].func = stack[i].func
              /\ stack'[i].todo = IF i = Len(stack) THEN stack[i].todo \ {c}
                                                   ELSE stack[i].todo
         /\ c \in visited => Len(stack') = Len(stack)
         /\ c \notin visited => /\ Len(stack') = Len(stack) + 1
                               /\ stack'[Len(stack) + 1] = Frame(c)
<1> DEFINE rest == TakeCallee(stack, c)
<1>1. stack # <<>> /\ Len(stack) \in Nat
  BY LenProperties DEF ReachApply, Unmark, Descend
<1>2. /\ rest \in Seq(FrameSet)
      /\ Len(rest) = Len(stack)
      /\ \A i \in 1..Len(stack) :
           /\ rest[i].func = stack[i].func
           /\ rest[i].todo = IF i = Len(stack) THEN stack[i].todo \ {c} ELSE stack[i].todo
  BY <1>1, TakeCalleeProperties
<1>3. stack' = IF c \in visited THEN rest ELSE Append(rest, Frame(c))
  BY DEF ReachApply, Unmark, Descend
<1>4. Frame(c) \in FrameSet
  BY FrameType
<1> HIDE DEF rest
<1>5. CASE c \in visited
  BY <1>2, <1>3, <1>5
<1>6. CASE c \notin visited
  <2>1. /\ Len(stack') = Len(stack) + 1
        /\ \A i \in 1..Len(stack) : stack'[i] = rest[i]
        /\ stack'[Len(stack) + 1] = Frame(c)
    BY <1>2, <1>3, <1>4, <1>6, AppendProperties
  <2>2. \A i \in 1..Len(stack) : i \in 1..Len(stack')
    BY <1>1, <2>1
  <2> QED
    BY <1>2, <1>6, <2>1, <2>2
<1> QED
  BY <1>5, <1>6

-----------------------------------------------------------------------------
(* Type correctness                                                         *)

\* Every initial state is well typed.
LEMMA InitTypeOK == Init => TypeOK
<1> SUFFICES ASSUME Init PROVE TypeOK
  OBVIOUS
<1>1. pair \in PackagePair /\ WellFormed(pair)
  BY PairAssumption DEF Init
<1>2. <<"none">> \in GviOps
  BY DEF GviOps
<1>3. gvi \in Seq(GviOps)
  BY <1>2 DEF Init
<1> QED
  BY <1>1, <1>3 DEF Init, TypeOK, Phases, PackagePair, GviOps

\* Every step of mark keeps the types.
LEMMA MarkTypeOK == TypeOK /\ Mark => TypeOK'
<1> SUFFICES ASSUME TypeOK, Mark PROVE TypeOK'
  OBVIOUS
<1> USE DEF TypeOK, reachVars, genVars
<1>1. CASE MarkPackage
  <2>1. PackageInit \in Func /\ LiteralInit \in Func
    BY FuncAssumption DEF Inits
  <2>2. <<PackageInit, LiteralInit>> \in Seq(Func)
    BY <2>1
  <2> QED
    BY <1>1, <2>2 DEF MarkPackage, Phases, Fail, PackagePair
<1>2. CASE MarkTypes
  BY <1>2 DEF MarkTypes, Phases, Fail, PackagePair
<1>3. ASSUME NEW f \in Func, MarkFunc(f) PROVE TypeOK'
  <2>1. Append(patchables, f) \in Seq(Func)
    OBVIOUS
  <2>2. /\ funcsToImport' \subseteq Func /\ funcsToDelete' \subseteq Func
        /\ patchables' \in Seq(Func)
        /\ phase' \in Phases
        /\ toMark' \subseteq Func
    BY <1>3, <2>1 DEF MarkFunc, Fail, Phases
  <2> QED
    BY <1>3, <2>2 DEF MarkFunc
<1>4. CASE MarkFuncsEnd
  BY <1>4 DEF MarkFuncsEnd, markVars, Phases
<1>5. CASE MarkFuncsAsNonPatchable
  BY <1>5 DEF MarkFuncsAsNonPatchable, NewPatchables, Phases, PackagePair
<1>6. CASE MarkVars
  BY <1>6 DEF MarkVars, Phases, Fail, PackagePair
<1> QED
  BY <1>1, <1>2, <1>3, <1>4, <1>5, <1>6 DEF Mark

\* Every step of the search keeps the types.
LEMMA ReachTypeOK == TypeOK /\ Reach => TypeOK'
<1> SUFFICES ASSUME TypeOK, Reach PROVE TypeOK'
  OBVIOUS
<1> USE DEF TypeOK, genVars
<1>1. CASE ReachRoot
  <2>1. patchables[root] \in Func
    BY <1>1 DEF ReachRoot
  <2>2. <<Frame(patchables[root])>> \in Seq(FrameSet)
    BY <2>1, FrameType
  <2> QED
    BY <1>1, <2>2 DEF ReachRoot, markVars, FrameSet
<1>2. ASSUME NEW c \in Func, ReachApply(c) PROVE TypeOK'
  <2>1. TakeCallee(stack, c) \in Seq(FrameSet)
    BY <1>2, TakeCalleeProperties DEF ReachApply, Unmark, Descend, FrameSet
  <2>2. Append(TakeCallee(stack, c), Frame(c)) \in Seq(FrameSet)
    BY <2>1, FrameType
  <2>3. stack' \in Seq(FrameSet)
    BY <1>2, <2>1, <2>2 DEF ReachApply, Unmark, Descend
  <2>4. /\ funcsToImport' \subseteq Func /\ funcsToDelete' \subseteq Func
        /\ visited' \subseteq Func
    BY <1>2 DEF ReachApply, Unmark, Descend
  <2> QED
    BY <1>2, <2>3, <2>4 DEF ReachApply, Unmark, Descend, FrameSet
<1>3. CASE ReachReturn
  <2>1. stack' \in Seq(FrameSet)
    BY <1>3, DropFrame DEF ReachReturn, FrameSet
  <2> QED
    BY <1>3, <2>1 DEF ReachReturn, markVars, FrameSet
<1>4. CASE ReachEnd
  BY <1>4 DEF ReachEnd, markVars, reachVars, Phases
<1> QED
  BY <1>1, <1>2, <1>3, <1>4 DEF Reach

\* Every step of gen keeps the types.
LEMMA GenTypeOK == TypeOK /\ Gen => TypeOK'
<1> SUFFICES ASSUME TypeOK, Gen PROVE TypeOK'
  OBVIOUS
<1> USE DEF TypeOK, markVars, reachVars
<1>0. gvi \in Seq(GviOps)
  BY DEF GviOps
<1>1. ASSUME NEW f \in Func, MakeNonPatchable(f) PROVE TypeOK'
  BY <1>1 DEF MakeNonPatchable, RemoveGuardChecks
<1>2. CASE UnguardEnd
  BY <1>2 DEF UnguardEnd, AfterUnguard, genVars, Phases
<1>3. CASE PatchInit
  <2>1. patchables[next] \in Func
    BY <1>3 DEF PatchInit, RemoveGuardChecks
  <2> QED
    BY <1>3, <2>1 DEF PatchInit, RemoveGuardChecks
<1>4. CASE PatchFunc
  <2>1. patchables[next] \in Func
    BY <1>4 DEF PatchFunc, EnableGuardVarFlag
  <2>2. Append(gvi, Flag(patchables[next])) \in Seq(GviOps)
    BY <1>0, <2>1 DEF GviOps
  <2>3. gvi' \in Seq(GviOps)
    BY <1>0, <1>4, <2>2 DEF PatchFunc, EnableGuardVarFlag
  <2>4. body' \in [Func -> {"none", "plain", "guarded"}]
    BY <1>4, <2>1 DEF PatchFunc, EnableGuardVarFlag
  <2>5. patchMethod' \in [Func -> {"none", "stub", "patch"}]
    BY <1>4, <2>1 DEF PatchFunc, EnableGuardVarFlag
  <2>6. next' \in Nat \ {0} /\ phase' \in Phases
    BY <1>4 DEF PatchFunc, EnableGuardVarFlag, Fail, Phases
  <2> QED
    BY <1>4, <2>3, <2>4, <2>5, <2>6 DEF PatchFunc, EnableGuardVarFlag, GviOps
<1>5. CASE GenPatchesEnd
  <2>1. Append(gvi, <<"some">>) \in Seq(GviOps)
    BY <1>0 DEF GviOps
  <2>2. gvi' \in Seq(GviOps)
    BY <1>0, <1>5, <2>1 DEF GenPatchesEnd, InstantiatePatchClass
  <2> QED
    BY <1>5, <2>2 DEF GenPatchesEnd, InstantiatePatchClass, Phases, GviOps
<1>6. CASE ImportFuncs
  BY <1>6 DEF ImportFuncs, Phases
<1>7. CASE ImportVars
  BY <1>7 DEF ImportVars, Phases
<1>8. CASE ImportTypes
  BY <1>8 DEF ImportTypes, Phases
<1>9. CASE RemoveRedundant
  BY <1>9 DEF RemoveRedundant, Phases
<1>10. CASE UpdatePackageInits
  BY <1>10 DEF UpdatePackageInits, Phases, Fail
<1> QED
  BY <1>1, <1>2, <1>3, <1>4, <1>5, <1>6, <1>7, <1>8, <1>9, <1>10 DEF Gen

\* Every step keeps the types.
LEMMA NextTypeOK == TypeOK /\ [Next]_vars_ => TypeOK'
<1> SUFFICES ASSUME TypeOK, [Next]_vars_ PROVE TypeOK'
  OBVIOUS
<1>1. CASE Construct
  BY <1>1 DEF Construct, TypeOK, Fail, Phases, markVars, reachVars, genVars
<1>2. CASE UNCHANGED vars_
  BY <1>2 DEF vars_, TypeOK, markVars, reachVars, genVars
<1> QED
  BY <1>1, <1>2, MarkTypeOK, ReachTypeOK, GenTypeOK DEF Next, Terminated

\* patch-gen's state keeps its types: marks, search and edited package refer
\* to functions, variables and types of the two versions only.
THEOREM TypeCorrect == Spec => []TypeOK
<1>1. Init => TypeOK
  BY InitTypeOK
<1>2. TypeOK /\ [Next]_vars_ => TypeOK'
  BY NextTypeOK
<1> QED
  BY <1>1, <1>2, PTL DEF Spec

-----------------------------------------------------------------------------
(* The search keeps what it reaches.  The strengthening: everything visited *)
(* so far is closed under INTERNAL callees up to the callees still waiting  *)
(* in a frame, and every edit of the package is covered by a mark.          *)

MarkPhases == {"construct", "mark", "markTypes", "markFuncs", "markNonPatchable",
               "markVars"}
GenPhases == Phases \ (MarkPhases \cup {"reach"})

Pending(g, c) == \E i \in 1..Len(stack) : stack[i].func = g /\ c \in stack[i].todo

Entered(g) == g \in visited \/ \E i \in 1..Len(patchables) : i < root /\ patchables[i] = g

SearchPhases ==
  /\ phase \in MarkPhases => stack = <<>> /\ visited = {} /\ root = 1
  /\ phase \in GenPhases \ {"error"} => stack = <<>> /\ root > Len(patchables)

ClosedUpToStack ==
  \A g \in Func : Entered(g) =>
    \A c \in InternalCallees(g) : c \in visited \/ Pending(g, c)

VisitedUnmarked ==
  /\ \A c \in visited :
       /\ c \in pair.patched
       /\ c \notin funcsToDelete
       /\ c \in funcsToImport => c \in PatchableSet
  /\ \A i \in 1..Len(stack) : stack[i].todo \subseteq pair.patched

LambdasMarked ==
  /\ funcsToImport \cap pair.lambda = {}
  /\ funcsToDelete \subseteq pair.lambda
  /\ toMark \subseteq pair.source

EditsMarked ==
  /\ \A c \in imported : c \in funcsToImport /\ phase \in GenPhases
  /\ \A c \in pair.patchedBody : body[c] = "none" =>
       phase \in GenPhases /\ c \in funcsToImport \cup PatchableSet
  /\ \A c \in pair.patched \ funcs :
       phase \in GenPhases /\ c \in funcsToDelete \cup (pair.initializer \cap pair.empty)

SearchInv == SearchPhases /\ ClosedUpToStack /\ VisitedUnmarked /\ LambdasMarked /\ EditsMarked

\* The search starts with nothing visited and nothing edited.
LEMMA InitSearchInv == Init => SearchInv
<1> SUFFICES ASSUME Init PROVE SearchInv
  OBVIOUS
<1> USE DEF Init
<1>1. pair \in PackagePair
  BY PairAssumption
<1>2. SearchPhases
  BY DEF SearchPhases, MarkPhases, GenPhases, Phases
<1>3. ClosedUpToStack
  BY DEF ClosedUpToStack, Entered
<1>4. EditsMarked
  BY <1>1 DEF EditsMarked, PackagePair
<1> QED
  BY <1>2, <1>3, <1>4 DEF SearchInv, VisitedUnmarked, LambdasMarked

\* A step that leaves the search and its marks alone keeps the closure.
LEMMA SearchUnchanged ==
  ASSUME SearchInv, UNCHANGED <<pair, root, stack, visited, patchables>>
  PROVE  ClosedUpToStack'
BY DEF SearchInv, ClosedUpToStack, Entered, Pending, InternalCallees

\* While nothing is visited and no root is entered the closure is void.
LEMMA ClosedVoid ==
  ASSUME TypeOK', visited' = {}, root' = 1
  PROVE  ClosedUpToStack'
BY DEF ClosedUpToStack, Entered, TypeOK

\* Marking decides before the search and edits nothing.
LEMMA MarkSearchInv == TypeOK /\ TypeOK' /\ SearchInv /\ Mark => SearchInv'
<1> SUFFICES ASSUME TypeOK, TypeOK', SearchInv, Mark PROVE SearchInv'
  OBVIOUS
<1>1. /\ phase \in MarkPhases
      /\ UNCHANGED <<pair, reachVars, genVars>>
  BY DEF Mark, MarkPackage, MarkTypes, MarkFunc, MarkFuncsEnd,
         MarkFuncsAsNonPatchable, MarkVars, MarkPhases
<1>2. stack' = <<>> /\ visited' = {} /\ root' = 1
  BY <1>1 DEF SearchInv, SearchPhases, reachVars
<1>3. phase' \in MarkPhases \cup {"error"} \/ phase' = "reach"
  BY DEF Mark, MarkPackage, MarkTypes, MarkFunc, MarkFuncsEnd,
         MarkFuncsAsNonPatchable, MarkVars, MarkPhases, Fail
<1>4. SearchPhases'
  BY <1>2, <1>3 DEF SearchPhases, MarkPhases, GenPhases, Phases
<1>5. ClosedUpToStack'
  BY <1>2, ClosedVoid
<1>6. VisitedUnmarked'
  BY <1>2 DEF VisitedUnmarked
<1>7. LambdasMarked'
  <2>1. LambdasMarked
    BY DEF SearchInv
  <2>2. ASSUME NEW f \in Func, MarkFunc(f) PROVE LambdasMarked'
    <3>1. pair.lambda \cap pair.source \subseteq pair.sourceBody
      BY DEF TypeOK, WellFormed
    <3>2. f \in pair.source /\ toMark' \subseteq pair.source
      BY <2>1, <2>2 DEF LambdasMarked, MarkFunc, Found
    <3>3. f \in pair.lambda => f \in pair.sourceBody
      BY <3>1, <3>2
    <3>4. funcsToImport' \subseteq funcsToImport \cup {f}
      BY <2>2 DEF MarkFunc
    <3>5. f \in funcsToImport' => f \in funcsToImport \/ f \notin pair.lambda
      BY <2>2, <3>3 DEF MarkFunc
    <3>6. funcsToDelete' \subseteq pair.lambda
      BY <2>1, <2>2 DEF LambdasMarked, MarkFunc, Found
    <3> QED
      BY <1>1, <2>1, <3>2, <3>4, <3>5, <3>6 DEF LambdasMarked
  <2> QED
    BY <2>1, <2>2, <1>1 DEF Mark, MarkPackage, MarkTypes, MarkFuncsEnd,
         MarkFuncsAsNonPatchable, MarkVars, LambdasMarked, markVars
<1>8. EditsMarked'
  <2>1. ~(phase \in GenPhases)
    BY <1>1 DEF GenPhases, MarkPhases
  <2> QED
    BY <1>1, <2>1 DEF SearchInv, EditsMarked, genVars
<1> QED
  BY <1>4, <1>5, <1>6, <1>7, <1>8 DEF SearchInv

\* The search visits callee after callee; what is visited stays un-marked.
LEMMA ReachSearchInv == TypeOK /\ TypeOK' /\ SearchInv /\ Reach => SearchInv'
<1> SUFFICES ASSUME TypeOK, TypeOK', SearchInv, Reach PROVE SearchInv'
  OBVIOUS
<1>1. phase = "reach" /\ UNCHANGED <<pair, toMark, patchables, genVars>>
  BY DEF Reach, ReachRoot, ReachApply, Unmark, Descend, ReachReturn, ReachEnd, markVars
<1>2. stack \in Seq(FrameSet) /\ Len(stack) \in Nat
  BY DEF TypeOK, FrameSet
<1>3. ClosedUpToStack'
  <2>1. CASE ReachRoot
    <3>1. PICK r \in Func : r = patchables[root]
      BY <2>1 DEF ReachRoot, TypeOK
    <3>2. /\ stack' = <<Frame(r)>>
          /\ root' = root + 1
          /\ stack = <<>>
          /\ visited' = visited
      BY <2>1, <3>1 DEF ReachRoot
    <3>3. ASSUME NEW c \in InternalCallees(r) PROVE Pending(r, c)'
      <4>1. Len(stack') = 1 /\ stack'[1] = Frame(r)
        BY <3>2
      <4>2. Frame(r).func = r /\ Frame(r).todo = InternalCallees(r)
        BY DEF Frame
      <4>3. 1 \in 1..Len(stack') /\ stack'[1].func = r /\ c \in stack'[1].todo
        BY <3>3, <4>1, <4>2
      <4> QED
        BY <4>3 DEF Pending
    <3>4. ASSUME NEW g \in Func, Entered(g)', g # r PROVE Entered(g)
      <4>1. CASE g \in visited'
        BY <3>2, <4>1 DEF Entered
      <4>2. ASSUME NEW i \in 1..Len(patchables), i < root + 1, patchables[i] = g
            PROVE  Entered(g)
        <5>1. i # root /\ root \in Nat
          BY <3>1, <3>4, <4>2 DEF TypeOK
        <5>2. i < root
          BY <4>2, <5>1
        <5> QED
          BY <4>2, <5>2 DEF Entered
      <4> QED
        BY <1>1, <3>2, <3>4, <4>1, <4>2 DEF Entered
    <3>5. ASSUME NEW g \in Func, NEW c PROVE ~Pending(g, c)
      <4>1. Len(stack) = 0
        BY <3>2
      <4> QED
        BY <4>1 DEF Pending
    <3>6. ASSUME NEW g \in Func, Entered(g)', NEW c \in InternalCallees(g)
          PROVE  c \in visited' \/ Pending(g, c)'
      <4>1. CASE g = r
        BY <3>3, <3>6, <4>1
      <4>2. CASE g # r
        <5>1. Entered(g)
          BY <3>4, <3>6, <4>2
        <5>2. c \in visited \/ Pending(g, c)
          BY <3>6, <5>1 DEF SearchInv, ClosedUpToStack
        <5> QED
          BY <3>2, <3>5, <5>2
      <4> QED
        BY <4>1, <4>2
    <3>7. \A g \in Func : InternalCallees(g)' = InternalCallees(g)
      BY <1>1 DEF InternalCallees
    <3> QED
      BY <3>6, <3>7 DEF ClosedUpToStack
  <2>2. ASSUME NEW c \in Func, ReachApply(c) PROVE ClosedUpToStack'
    <3>1. stack \in Seq(FrameSet) /\ pair \in PackagePair
      BY <1>2 DEF TypeOK
    <3>2. visited' = visited \cup {c} /\ root' = root
      BY <2>2 DEF ReachApply, Unmark, Descend
    <3>3. /\ \A i \in 1..Len(stack) :
               /\ i \in 1..Len(stack')
               /\ stack'[i].func = stack[i].func
               /\ stack'[i].todo = IF i = Len(stack) THEN stack[i].todo \ {c}
                                                    ELSE stack[i].todo
          /\ c \notin visited => /\ Len(stack') = Len(stack) + 1
                                /\ stack'[Len(stack) + 1] = Frame(c)
      BY <2>2, <3>1, ApplyFrames
    <3>4. ASSUME NEW g \in Func, NEW d, Pending(g, d)
          PROVE  d \in visited' \/ Pending(g, d)'
      <4>1. PICK i \in 1..Len(stack) : stack[i].func = g /\ d \in stack[i].todo
        BY <3>4 DEF Pending
      <4>2. CASE d = c
        BY <3>2, <4>2
      <4>3. CASE d # c
        <5>1. i \in 1..Len(stack') /\ stack'[i].func = g /\ d \in stack'[i].todo
          BY <3>3, <4>1, <4>3
        <5> QED
          BY <5>1 DEF Pending
      <4> QED
        BY <4>2, <4>3
    <3>5. ASSUME c \notin visited, NEW d \in InternalCallees(c) PROVE Pending(c, d)'
      <4>2. /\ Len(stack') = Len(stack) + 1
            /\ stack'[Len(stack) + 1] = Frame(c)
        BY <3>3, <3>5
      <4>3. Len(stack) + 1 \in 1..Len(stack')
        BY <1>2, <4>2
      <4>4. stack'[Len(stack) + 1].func = c /\ d \in stack'[Len(stack) + 1].todo
        BY <3>5, <4>2 DEF Frame
      <4> QED
        BY <4>3, <4>4 DEF Pending
    <3>6. ASSUME NEW g \in Func, Entered(g)' PROVE Entered(g) \/ (g = c /\ c \notin visited)
      BY <1>1, <3>2, <3>6 DEF Entered
    <3> QED
      BY <1>1, <3>2, <3>4, <3>5, <3>6 DEF SearchInv, ClosedUpToStack, InternalCallees
  <2>3. CASE ReachReturn
    <3>1. /\ stack # <<>>
          /\ stack[Len(stack)].todo = {}
          /\ stack' = SubSeq(stack, 1, Len(stack) - 1)
          /\ UNCHANGED <<root, visited>>
      BY <2>3 DEF ReachReturn
    <3>2. /\ Len(stack') = Len(stack) - 1
          /\ \A i \in 1..Len(stack') : stack'[i] = stack[i]
      BY <1>2, <3>1, DropFrame
    <3>3. ASSUME NEW g \in Func, NEW d, Pending(g, d) PROVE Pending(g, d)'
      <4>1. PICK i \in 1..Len(stack) : stack[i].func = g /\ d \in stack[i].todo
        BY <3>3 DEF Pending
      <4>2. i # Len(stack)
        BY <3>1, <4>1
      <4>3. i \in 1..Len(stack')
        BY <1>2, <3>2, <4>1, <4>2
      <4> QED
        BY <3>2, <4>1, <4>3 DEF Pending
    <3> QED
      BY <1>1, <3>1, <3>3 DEF SearchInv, ClosedUpToStack, InternalCallees, Entered
  <2>4. CASE ReachEnd
    BY <2>4, <1>1, SearchUnchanged DEF ReachEnd, reachVars
  <2> QED
    BY <2>1, <2>2, <2>3, <2>4 DEF Reach
<1>4. SearchPhases'
  BY <1>1 DEF Reach, ReachRoot, ReachApply, Unmark, Descend, ReachReturn, ReachEnd, reachVars,
     SearchPhases, MarkPhases, GenPhases, markVars
<1>5. VisitedUnmarked' /\ LambdasMarked'
  <2>1. VisitedUnmarked /\ LambdasMarked
    BY DEF SearchInv
  <2>2. ASSUME NEW c \in Func, ReachApply(c) PROVE VisitedUnmarked' /\ LambdasMarked'
    <3>1. c \in pair.patched /\ c \in stack[Len(stack)].todo /\ stack # <<>>
      BY <1>2, <2>1, <2>2 DEF ReachApply, Unmark, Descend, VisitedUnmarked
    <3>2. /\ funcsToDelete' \subseteq funcsToDelete /\ funcsToImport' \subseteq funcsToImport
          /\ c \notin funcsToDelete'
          /\ c \in funcsToImport' => c \in PatchableSet
      BY <2>1, <2>2 DEF ReachApply, Unmark, Descend, LambdasMarked, VisitedUnmarked
    <3>3. \A i \in 1..Len(stack') : stack'[i].todo \subseteq pair.patched
      <4>1. stack \in Seq(FrameSet) /\ pair \in PackagePair
        BY <1>2 DEF TypeOK
      <4>2. Frame(c).todo \subseteq pair.patched
        BY DEF Frame, InternalCallees, TypeOK, WellFormed
      <4>3. \A i \in 1..Len(stack) : stack'[i].todo \subseteq pair.patched
        BY <2>1, <2>2, <4>1, ApplyFrames DEF VisitedUnmarked
      <4>4. \A i \in 1..Len(stack') : i \in 1..Len(stack) \/ (c \notin visited /\ i = Len(stack) + 1)
        BY <1>2, <2>2, <4>1, ApplyFrames
      <4>5. c \notin visited => stack'[Len(stack) + 1] = Frame(c)
        BY <2>2, <4>1, ApplyFrames
      <4> QED
        BY <4>2, <4>3, <4>4, <4>5
    <3>4. visited' = visited \cup {c} /\ UNCHANGED PatchableSet
      BY <1>1, <2>2 DEF ReachApply, Unmark, Descend, PatchableSet
    <3> QED
      BY <1>1, <2>1, <3>1, <3>2, <3>3, <3>4 DEF VisitedUnmarked, LambdasMarked
  <2>3. ASSUME ReachRoot \/ ReachReturn \/ ReachEnd
        PROVE  VisitedUnmarked' /\ LambdasMarked'
    <3>1. UNCHANGED <<visited, funcsToDelete, funcsToImport>>
      BY <2>3 DEF ReachRoot, ReachReturn, ReachEnd, markVars, reachVars
    <3>2. \A i \in 1..Len(stack') : stack'[i].todo \subseteq pair.patched
      <4>1. CASE ReachRoot
        <5>1. stack' = <<Frame(patchables[root])>> /\ patchables[root] \in Func
          BY <4>1 DEF ReachRoot, TypeOK
        <5>2. Frame(patchables[root]).todo \subseteq pair.patched
          BY <5>1 DEF Frame, InternalCallees, TypeOK, WellFormed
        <5> QED
          BY <5>1, <5>2
      <4>2. CASE ReachReturn
        <5>1. /\ Len(stack') = Len(stack) - 1
              /\ \A i \in 1..Len(stack') : stack'[i] = stack[i]
          BY <1>2, <4>2, DropFrame DEF ReachReturn
        <5> QED
          BY <1>2, <2>1, <5>1 DEF VisitedUnmarked
      <4>3. CASE ReachEnd
        BY <2>1, <4>3 DEF ReachEnd, reachVars, VisitedUnmarked
      <4> QED
        BY <2>3, <4>1, <4>2, <4>3
    <3> QED
      BY <1>1, <2>1, <3>1, <3>2 DEF VisitedUnmarked, LambdasMarked, PatchableSet
  <2> QED
    BY <2>2, <2>3 DEF Reach
<1>6. EditsMarked'
  <2>1. ~(phase \in GenPhases)
    BY <1>1 DEF GenPhases
  <2> QED
    BY <1>1, <2>1 DEF SearchInv, EditsMarked, genVars
<1> QED
  BY <1>3, <1>4, <1>5, <1>6 DEF SearchInv

\* Editing destroys and removes only what is marked.
LEMMA GenSearchInv == TypeOK /\ TypeOK' /\ SearchInv /\ Gen => SearchInv'
<1> SUFFICES ASSUME TypeOK, TypeOK', SearchInv, Gen PROVE SearchInv'
  OBVIOUS
<1>1. /\ phase \in GenPhases \ {"error"}
      /\ phase' \in GenPhases
      /\ UNCHANGED <<pair, toMark, markVars, reachVars>>
  BY DEF Gen, MakeNonPatchable, UnguardEnd, AfterUnguard, PatchInit, PatchFunc,
     GenPatchesEnd, ImportFuncs, ImportVars, ImportTypes, RemoveRedundant,
     UpdatePackageInits, GenPhases, Phases, MarkPhases, Fail
<1>2. SearchPhases'
  BY <1>1 DEF SearchInv, SearchPhases, GenPhases, MarkPhases, Phases, reachVars, markVars
<1>3. ClosedUpToStack'
  BY <1>1, SearchUnchanged DEF reachVars, markVars
<1>4. VisitedUnmarked' /\ LambdasMarked'
  BY <1>1 DEF SearchInv, VisitedUnmarked, LambdasMarked, reachVars, markVars, PatchableSet
<1>5. EditsMarked'
  <2>1. EditsMarked /\ PatchableSet' = PatchableSet
    BY <1>1 DEF SearchInv, PatchableSet, markVars
  <2> USE DEF EditsMarked, TypeOK
  <2>2. ASSUME NEW f \in Func, MakeNonPatchable(f) PROVE EditsMarked'
    <3>1. \A c \in Func : body'[c] = "none" => body[c] = "none"
      BY <2>2 DEF MakeNonPatchable, RemoveGuardChecks
    <3>2. pair.patchedBody \subseteq Func
      BY DEF PackagePair
    <3> QED
      BY <1>1, <2>1, <2>2, <3>1, <3>2 DEF MakeNonPatchable, markVars
  <2>3. CASE UnguardEnd
    BY <1>1, <2>1, <2>3 DEF UnguardEnd, AfterUnguard, genVars, markVars
  <2>4. CASE PatchInit
    <3>1. \A c \in Func : body'[c] = "none" => body[c] = "none"
      BY <2>4 DEF PatchInit, RemoveGuardChecks
    <3>2. pair.patchedBody \subseteq Func
      BY DEF PackagePair
    <3> QED
      BY <1>1, <2>1, <2>4, <3>1, <3>2 DEF PatchInit, markVars
  <2>5. CASE PatchFunc
    <3>1. patchables[next] \in PatchableSet
      BY <2>5 DEF PatchFunc, EnableGuardVarFlag, PatchableSet
    <3>2. \A c \in Func : body'[c] = "none" => body[c] = "none" \/ c = patchables[next]
      BY <2>5 DEF PatchFunc, EnableGuardVarFlag
    <3>3. pair.patchedBody \subseteq Func
      BY DEF PackagePair
    <3> QED
      BY <1>1, <2>1, <2>5, <3>1, <3>2, <3>3 DEF PatchFunc, EnableGuardVarFlag, markVars
  <2>6. CASE GenPatchesEnd
    BY <1>1, <2>1, <2>6 DEF GenPatchesEnd, InstantiatePatchClass, markVars
  <2>7. CASE ImportFuncs
    <3>1. \A c \in Func : body'[c] = "none" => body[c] = "none" \/ c \in funcsToImport
      BY <2>7 DEF ImportFuncs
    <3>2. pair.patchedBody \subseteq Func
      BY DEF PackagePair
    <3> QED
      BY <1>1, <2>1, <2>7, <3>1, <3>2 DEF ImportFuncs, markVars
  <2>8. CASE ImportVars \/ ImportTypes
    BY <1>1, <2>1, <2>8 DEF ImportVars, ImportTypes, markVars
  <2>9. CASE RemoveRedundant
    BY <1>1, <2>1, <2>9 DEF RemoveRedundant, markVars, EmptyInitializers
  <2>10. CASE UpdatePackageInits
    BY <1>1, <2>1, <2>10 DEF UpdatePackageInits, markVars
  <2> QED
    BY <2>2, <2>3, <2>4, <2>5, <2>6, <2>7, <2>8, <2>9, <2>10 DEF Gen
<1> QED
  BY <1>2, <1>3, <1>4, <1>5 DEF SearchInv

\* Every step keeps the strengthened invariant.
LEMMA NextSearchInv == TypeOK /\ TypeOK' /\ SearchInv /\ [Next]_vars_ => SearchInv'
<1> SUFFICES ASSUME TypeOK, TypeOK', SearchInv, [Next]_vars_ PROVE SearchInv'
  OBVIOUS
<1>1. CASE Construct
  <2>1. /\ phase \in MarkPhases /\ phase' \in {"mark", "error"}
        /\ UNCHANGED <<pair, toMark, markVars, reachVars, genVars>>
    BY <1>1 DEF Construct, Fail, MarkPhases
  <2>2. SearchPhases'
    BY <2>1 DEF SearchInv, SearchPhases, MarkPhases, GenPhases, Phases, reachVars
  <2>3. ClosedUpToStack'
    BY <2>1, SearchUnchanged DEF reachVars, markVars
  <2>4. VisitedUnmarked' /\ LambdasMarked'
    BY <2>1 DEF SearchInv, VisitedUnmarked, LambdasMarked, reachVars, markVars, PatchableSet
  <2>5. EditsMarked'
    BY <2>1 DEF SearchInv, EditsMarked, GenPhases, genVars
  <2> QED
    BY <2>2, <2>3, <2>4, <2>5 DEF SearchInv
<1>2. CASE UNCHANGED vars_
  <2>1. UNCHANGED <<pair, phase, toMark, markVars, reachVars, genVars>>
    BY <1>2 DEF vars_
  <2>2. ClosedUpToStack'
    BY <2>1, SearchUnchanged DEF reachVars, markVars
  <2> QED
    BY <2>1, <2>2 DEF SearchInv, SearchPhases, VisitedUnmarked, LambdasMarked, EditsMarked,
       reachVars, markVars, genVars, PatchableSet
<1> QED
  BY <1>1, <1>2, MarkSearchInv, ReachSearchInv, GenSearchInv DEF Next, Terminated

\* When the search is over, what it visited is closed, hence contains every
\* function the patchables reach.
LEMMA VisitedIsReachable ==
  ASSUME TypeOK, SearchInv, phase \in GenPhases \ {"error"}
  PROVE  Reachable \subseteq visited
<1>1. stack = <<>> /\ root > Len(patchables)
  BY DEF SearchInv, SearchPhases
<1>2. ASSUME NEW g \in Func, NEW c PROVE ~Pending(g, c)
  BY <1>1 DEF Pending
<1>3. \A g \in PatchableSet \cup visited : g \in Func /\ Entered(g)
  <2>1. ASSUME NEW i \in 1..Len(patchables) PROVE i < root /\ patchables[i] \in Func
    BY <1>1 DEF TypeOK
  <2> QED
    BY <2>1 DEF PatchableSet, Entered, TypeOK
<1>4. ClosedUnderCalls(visited)
  BY <1>2, <1>3 DEF SearchInv, ClosedUpToStack, ClosedUnderCalls
<1>5. visited \in SUBSET Func
  BY DEF TypeOK
<1> QED
  BY <1>4, <1>5 DEF Reachable

\* The invariant gives the property.
LEMMA SearchInvKeepsCode == TypeOK /\ SearchInv => ReachableCodeKept
<1> SUFFICES ASSUME TypeOK, SearchInv, phase = "done", NEW c \in Reachable
             PROVE  /\ c \in funcs \/ c \in pair.initializer \cap pair.empty
                    /\ c \notin PatchableSet =>
                         c \notin imported /\ (c \in pair.patchedBody => body[c] # "none")
  BY DEF ReachableCodeKept
<1>1. c \in visited
  BY VisitedIsReachable DEF GenPhases, MarkPhases, Phases
<1>2. c \in pair.patched /\ c \notin funcsToDelete /\ (c \in funcsToImport => c \in PatchableSet)
  BY <1>1 DEF SearchInv, VisitedUnmarked
<1> QED
  BY <1>2 DEF SearchInv, EditsMarked

\* The search and what it keeps, in every reachable state.
LEMMA SearchInvariant == Spec => []SearchInv
<1>1. Init => SearchInv
  BY InitSearchInv
<1>2. TypeOK /\ TypeOK' /\ SearchInv /\ [Next]_vars_ => SearchInv'
  BY NextSearchInv
<1> QED
  BY <1>1, <1>2, TypeCorrect, PTL DEF Spec

\* The finished patch has the code of every INTERNAL function that a patchable
\* reaches through INTERNAL callees, for every pair of versions.
THEOREM SearchKeepsReachableCode == Spec => []ReachableCodeKept
<1>1. TypeOK /\ SearchInv => ReachableCodeKept
  BY SearchInvKeepsCode
<1> QED
  BY <1>1, SearchInvariant, TypeCorrect, PTL

-----------------------------------------------------------------------------
(* Checks, marks and edits: the strengthening                               *)

\* The checks that a function of the base version has to pass.
Sound(f) ==
  /\ f \in pair.patched
  /\ f \in pair.sourceBody <=> f \in pair.patchedBody
  /\ f \notin pair.sourceBody \cap pair.attrsDiffer
  /\ f \in pair.sourceGuarded <=> f \in pair.patchedGuarded
  /\ f \in Changed => f \in pair.sourceGuarded

EditPhases == {"genPatches", "importFuncs", "importVars", "importTypes", "removeRedundant", "updateInits"}
SourcePhases == {"markTypes", "markFuncs", "markVars"} \cup EditPhases
Running == Phases \ {"construct", "error"}

\* What has been checked when a phase is reached.
ChecksPassed ==
  /\ phase \in SourcePhases => pair.hasSource
  /\ phase \in Running => pair.guardParts \in {{}, GuardParts} /\ pair.exception
  /\ phase \in Running \ {"mark"} /\ pair.hasSource => pair.sameName
  /\ phase \in Running \ {"mark", "markTypes"} /\ pair.hasSource =>
       /\ pair.sourceType \cap pair.importable \subseteq pair.patchedType
       /\ \A f \in pair.source \ (pair.initializer \cup toMark) : Sound(f)
  /\ phase = "markTypes" => toMark = pair.source
  /\ phase \notin {"markTypes", "markFuncs", "error"} => toMark = {}
  /\ phase \in {"reach", "unguard", "done"} \cup EditPhases /\ pair.hasSource =>
       pair.sourceVar \subseteq pair.patchedVar /\ varsToImport = pair.sourceVar
  /\ phase \in {"unguard", "done"} \cup EditPhases /\ pair.guardParts # {} => pair.patchClass
  /\ phase = "done" /\ pair.hasSource => pair.initAccess

Refused == phase = "error" => CannotApply

\* patchables holds the changed functions that were come to, each once.
ListedOnce ==
  /\ \A i \in 1..Len(patchables) :
       patchables[i] \in Inits \/ (patchables[i] \in Changed \ toMark /\ Sound(patchables[i]))
  /\ \A i, j \in 1..Len(patchables) : patchables[i] = patchables[j] => i = j

ChangedListed ==
  /\ phase \in {"construct", "mark"} => patchables = <<>> /\ funcsToImport = {}
  /\ ~pair.hasSource => patchables = <<>>
  /\ phase \in Running \ {"mark"} /\ pair.hasSource => Changed \subseteq PatchableSet \cup toMark
  /\ toMark \subseteq pair.source

ImportsKnown ==
  /\ funcsToImport \subseteq pair.source
  /\ funcsToImport \cap Changed \subseteq PatchableSet
  /\ funcsToMakeNonPatchable \subseteq NewPatchables
  /\ phase \in Running \ {"mark", "markTypes", "markFuncs", "markNonPatchable"} =>
       funcsToMakeNonPatchable = NewPatchables

\* The functions whose bodies have been moved to PatchImpl.
Moved == {f \in Func \ Inits : \E i \in 1..Len(patchables) : i < next /\ patchables[i] = f}

Before == MarkPhases \cup {"reach", "unguard"}

BodiesMoved ==
  /\ phase \in Before => next = 1 /\ gvi = << <<"none">> >>
  /\ phase # "error" => \A f \in Func :
       /\ patchMethod[f] = "patch" <=> f \in Moved
       /\ f \in Moved => body[f] = "none"
  /\ phase \in (EditPhases \ {"genPatches"}) \cup {"done"} /\ pair.hasSource => next > Len(patchables)

\* Guards, flags and methods stay as long as the base has the function.
GuardsKept ==
  /\ \A f \in pair.patchedGuarded \cap pair.source : pair.hasSource =>
       f \in guardMethod /\ Flag(f) \in vars /\ patchMethod[f] # "none"
  /\ pair.patchedGuarded # {} => GuardVar \in vars
  /\ \A f \in Func \ Inits : body[f] = "guarded" => f \in pair.patchedGuarded
  /\ phase \in Before \cup {"genPatches"} => \A f \in pair.patchedGuarded \cap pair.source :
       pair.hasSource /\ f \notin Moved => body[f] = "guarded"
  /\ phase \in EditPhases \cup {"done"} => \A f \in NewPatchables : body[f] # "guarded"

\* The initialiser: None, a flag for each moved body, at the end the instance.
Enables(op) == \E f \in Moved : op = Flag(f)

StoresInOrder ==
  phase # "error" =>
    /\ Len(gvi) >= 1 /\ gvi[1] = <<"none">>
    /\ \A f \in Moved : \E i \in 2..Len(gvi) : gvi[i] = Flag(f)
    /\ \A i \in 2..Len(gvi) - 1 : Enables(gvi[i])
    /\ Len(gvi) > 1 => IF phase \in Before \cup {"genPatches"} THEN Enables(gvi[Len(gvi)])
                       ELSE gvi[Len(gvi)] = <<"some">>

VarsImported ==
  phase \in {"importTypes", "removeRedundant", "updateInits", "done"} /\ pair.hasSource =>
    varImported = varsToImport

MarksInv == ChecksPassed /\ Refused /\ ListedOnce /\ ChangedListed /\ ImportsKnown
GenInv == BodiesMoved /\ GuardsKept /\ StoresInOrder /\ VarsImported
EditsInv == MarksInv /\ GenInv

\* Every invariant holds at the start.
LEMMA InitEditsInv == Init => EditsInv
<1> SUFFICES ASSUME Init PROVE EditsInv
  OBVIOUS
<1> USE DEF Init
<1>1. pair \in PackagePair /\ WellFormed(pair)
  BY PairAssumption
<1>2. patchables = <<>> /\ Len(patchables) = 0
  OBVIOUS
<1>3. Moved = {}
  BY DEF Moved
<1>4. ChecksPassed /\ Refused
  BY DEF ChecksPassed, Refused, SourcePhases, EditPhases, Running
<1>5. ListedOnce /\ ChangedListed /\ ImportsKnown
  BY DEF ListedOnce, ChangedListed, ImportsKnown, Running
<1>6. BodiesMoved
  BY <1>3 DEF BodiesMoved, EditPhases
<1>7. GuardsKept
  BY <1>1 DEF GuardsKept, EditPhases, WellFormed, PackagePair
<1>8. gvi[1] = <<"none">> /\ Len(gvi) = 1
  OBVIOUS
<1>9. StoresInOrder
  BY <1>3, <1>8 DEF StoresInOrder
<1>10. VarsImported
  BY DEF VarsImported
<1> QED
  BY <1>4, <1>5, <1>6, <1>7, <1>9, <1>10 DEF EditsInv, MarksInv, GenInv

-----------------------------------------------------------------------------
(* What the three parts of a run leave alone                                *)

LEMMA MarkFrame ==
  Mark => /\ phase \in MarkPhases /\ phase' \in MarkPhases \cup {"reach", "error"}
          /\ UNCHANGED <<pair, reachVars, genVars>>
BY DEF Mark, MarkPackage, MarkTypes, MarkFunc, MarkFuncsEnd, MarkFuncsAsNonPatchable, MarkVars, MarkPhases, Fail

LEMMA ReachFrame ==
  Reach => /\ phase = "reach" /\ phase' \in {"reach", "unguard", "error"}
           /\ UNCHANGED <<pair, toMark, patchables, funcsToMakeNonPatchable, varsToImport, genVars>>
           /\ funcsToImport' \subseteq funcsToImport
           /\ phase' = "unguard" => (pair.guardParts # {} => pair.patchClass)
           /\ phase' = "error" => pair.guardParts # {} /\ ~pair.patchClass
BY DEF Reach, ReachRoot, ReachApply, ReachReturn, ReachEnd, Unmark, markVars

LEMMA GenFrame ==
  Gen => /\ phase \in {"unguard"} \cup EditPhases
         /\ UNCHANGED <<pair, toMark, markVars, reachVars>>
BY DEF Gen, MakeNonPatchable, UnguardEnd, PatchInit, PatchFunc, GenPatchesEnd, ImportFuncs, ImportVars,
       ImportTypes, RemoveRedundant, UpdatePackageInits, EditPhases

\* The phase of gen after a step.
LEMMA GenPhase ==
  Gen => \/ phase' = phase
         \/ phase = "unguard" /\ phase' = (IF pair.hasSource THEN "genPatches" ELSE "done")
         \/ phase \in EditPhases /\ phase' \in EditPhases
         \/ phase = "updateInits" /\ phase' = "done" /\ pair.initAccess
         \/ phase = "updateInits" /\ phase' = "error" /\ ~pair.initAccess
         \/ phase = "genPatches" /\ phase' = "error" /\ PatchFunc
BY DEF Gen, MakeNonPatchable, UnguardEnd, AfterUnguard, PatchInit, PatchFunc, GenPatchesEnd, ImportFuncs, ImportVars,
       ImportTypes, RemoveRedundant, UpdatePackageInits, EditPhases, Fail

\* What is a matter of the pair alone does not change.
PairUnchanged ==
  /\ pair' = pair
  /\ Changed' = Changed /\ NewPatchables' = NewPatchables
  /\ CannotApply' <=> CannotApply
  /\ \A f : Sound(f)' <=> Sound(f)

LEMMA PairFrame == UNCHANGED pair => PairUnchanged
<1> SUFFICES ASSUME UNCHANGED pair PROVE PairUnchanged
  OBVIOUS
<1>1. Changed' = Changed
  BY DEF Changed
<1>2. NewPatchables' = NewPatchables
  BY DEF NewPatchables
<1>3. CannotApply' <=> CannotApply
  BY <1>1 DEF CannotApply
<1>4. \A f : Sound(f)' <=> Sound(f)
  BY <1>1 DEF Sound
<1> QED
  BY <1>1, <1>2, <1>3, <1>4 DEF PairUnchanged

-----------------------------------------------------------------------------
(* The marks                                                                *)

\* The function a step of the loop comes to is listed when it has changed,
\* imported only together with its new code, and refused for a reason.
LEMMA MarkFuncMarks ==
  ASSUME TypeOK, MarksInv, NEW f \in Func, MarkFunc(f), UNCHANGED pair
  PROVE  MarksInv'
<1>1. /\ phase = "markFuncs" /\ phase' \in {"markFuncs", "error"}
      /\ f \in toMark /\ toMark' = toMark \ {f}
      /\ UNCHANGED <<funcsToMakeNonPatchable, varsToImport>>
  BY DEF MarkFunc, Fail
<1>2. f \in pair.source /\ pair.hasSource /\ toMark' \subseteq pair.source
  BY <1>1 DEF MarksInv, ChecksPassed, ChangedListed, SourcePhases
<1>3. WellFormed(pair) /\ Inits \subseteq pair.initializer /\ Inits \cap Changed = {}
  BY DEF TypeOK, WellFormed, Changed
<1>4. phase' # "error" /\ f \notin pair.initializer => Sound(f)
  <2> SUFFICES ASSUME phase' # "error", f \notin pair.initializer PROVE Sound(f)
    OBVIOUS
  <2>1. Found(f) /\ ~Rejected(f)
    BY <1>1 DEF MarkFunc, Fail, Rejected
  <2> QED
    BY <1>2, <1>3, <2>1 DEF Sound, Found, Rejected, WellFormed, Changed
<1>5. phase' = "error" => CannotApply
  <2> SUFFICES ASSUME phase' = "error" PROVE CannotApply
    OBVIOUS
  <2>1. f \notin pair.initializer /\ (~Found(f) \/ Rejected(f))
    BY <1>1 DEF MarkFunc
  <2> QED
    BY <1>2, <2>1 DEF CannotApply, Found, Rejected, Changed
<1>6. \/ patchables' = patchables /\ (phase' # "error" => f \notin Changed)
      \/ patchables' = Append(patchables, f) /\ f \in Changed /\ phase' = "markFuncs"
  BY <1>1, <1>2 DEF MarkFunc, Changed, Fail
<1>7. /\ f \in Changed => \A i \in 1..Len(patchables) : patchables[i] # f
      /\ \A i \in 1..Len(patchables) :
           patchables[i] \in Inits \/ (patchables[i] \in Changed \ toMark' /\ Sound(patchables[i]))
  BY <1>1, <1>3, <1>6 DEF MarksInv, ListedOnce
<1>8. PairUnchanged
  BY PairFrame DEF PairUnchanged
<1>9. ChecksPassed'
  <2>1. \A g \in (pair.source \ (pair.initializer \cup toMark')) :
          phase' # "error" => Sound(g)
    BY <1>1, <1>2, <1>4 DEF MarksInv, ChecksPassed, Running, Phases
  <2>2. phase' = "markFuncs" => pair.sameName /\ pair.guardParts \in {{}, GuardParts} /\ pair.exception
          /\ pair.sourceType \cap pair.importable \subseteq pair.patchedType
    BY <1>1, <1>2 DEF MarksInv, ChecksPassed, Running, Phases, SourcePhases
  <2> QED
    BY <1>1, <1>2, <1>8, <2>1, <2>2 DEF ChecksPassed, PairUnchanged, Running, SourcePhases, EditPhases
<1>10. Refused'
  BY <1>5, <1>8 DEF Refused, PairUnchanged
<1>11. ListedOnce'
  <2>1. CASE patchables' = patchables
    BY <1>7, <1>8, <2>1 DEF MarksInv, ListedOnce, PairUnchanged
  <2>2. CASE patchables' = Append(patchables, f) /\ f \in Changed /\ phase' = "markFuncs"
    <3>1. /\ Len(patchables) \in Nat
          /\ Len(patchables') = Len(patchables) + 1
          /\ patchables'[Len(patchables) + 1] = f
          /\ \A i \in 1..Len(patchables) : patchables'[i] = patchables[i]
      BY <2>2, AppendProperties DEF TypeOK
    <3>2. \A i \in 1..Len(patchables') : i \in 1..Len(patchables) \/ i = Len(patchables) + 1
      BY <3>1
    <3>3. f \in Changed \ toMark' /\ Sound(f)
      BY <1>1, <1>3, <1>4, <2>2 DEF Changed
    <3> QED
      BY <1>7, <1>8, <2>2, <3>1, <3>2, <3>3 DEF MarksInv, ListedOnce, PairUnchanged
  <2> QED
    BY <1>6, <2>1, <2>2
<1>12. PatchableSet \subseteq PatchableSet' /\ (f \in Changed /\ phase' # "error" => f \in PatchableSet')
  <2>1. Len(patchables) \in Nat /\ patchables \in Seq(Func)
    BY DEF TypeOK
  <2>2. CASE patchables' = patchables
    BY <1>6, <2>2 DEF PatchableSet
  <2>3. CASE patchables' = Append(patchables, f)
    <3>1. /\ Len(patchables) + 1 \in 1..Len(patchables')
          /\ patchables'[Len(patchables) + 1] = f
          /\ \A i \in 1..Len(patchables) : i \in 1..Len(patchables') /\ patchables'[i] = patchables[i]
      BY <2>1, <2>3, AppendProperties
    <3> QED
      BY <3>1 DEF PatchableSet
  <2> QED
    BY <1>6, <2>2, <2>3
<1>13. ChangedListed'
  BY <1>1, <1>2, <1>8, <1>12 DEF MarksInv, ChangedListed, PairUnchanged, Running, Phases
<1>14. ImportsKnown'
  <2>1. funcsToImport' \subseteq funcsToImport \cup {f}
    BY DEF MarkFunc
  <2>2. f \in funcsToImport' => f \in funcsToImport \/ phase' # "error"
    BY <1>1 DEF MarkFunc
  <2> QED
    BY <1>1, <1>2, <1>8, <1>12, <2>1, <2>2 DEF MarksInv, ImportsKnown, PairUnchanged, Running
<1> QED
  BY <1>9, <1>10, <1>11, <1>13, <1>14 DEF MarksInv

\* Marking keeps what the marks stand for.
LEMMA MarkMarks == TypeOK /\ MarksInv /\ Mark => MarksInv'
<1> SUFFICES ASSUME TypeOK, MarksInv, Mark PROVE MarksInv'
  OBVIOUS
<1>0. PairUnchanged
  BY MarkFrame, PairFrame
<1> USE <1>0 DEF PairUnchanged
<1>1. CASE MarkPackage
  <2>1. /\ phase = "mark" /\ toMark = {} /\ patchables = <<>> /\ funcsToImport = {}
        /\ UNCHANGED <<funcsToImport, funcsToMakeNonPatchable, varsToImport>>
    BY <1>1 DEF MarkPackage, MarksInv, ChecksPassed, ChangedListed
  <2>2. \/ patchables' = <<>> /\ toMark' = {} /\ phase' = "markNonPatchable" /\ ~pair.hasSource
        \/ patchables' = <<>> /\ toMark' = {} /\ phase' = "error" /\ CannotApply
        \/ /\ patchables' = <<PackageInit, LiteralInit>> /\ toMark' = pair.source
           /\ phase' = "markTypes" /\ pair.hasSource /\ pair.sameName
    BY <1>1, <2>1 DEF MarkPackage, Fail, CannotApply
  <2>3. ChecksPassed' /\ Refused'
    BY <2>1, <2>2 DEF MarksInv, ChecksPassed, Refused, Running, Phases, SourcePhases, EditPhases
  <2>4. ListedOnce'
    <3>1. CASE patchables' = <<>>
      BY <3>1 DEF ListedOnce
    <3>2. CASE patchables' = <<PackageInit, LiteralInit>>
      <4>1. /\ Len(patchables') = 2 /\ patchables'[1] = PackageInit /\ patchables'[2] = LiteralInit
        BY <3>2
      <4>2. \A i \in 1..Len(patchables') : i = 1 \/ i = 2
        BY <4>1
      <4> QED
        BY <4>1, <4>2, FuncAssumption DEF ListedOnce, Inits
    <3> QED
      BY <2>2, <3>1, <3>2
  <2>5. ChangedListed'
    BY <2>1, <2>2 DEF MarksInv, ChangedListed, Running, Changed
  <2>6. ImportsKnown'
    BY <2>1, <2>2 DEF MarksInv, ImportsKnown, Running
  <2> QED
    BY <2>3, <2>4, <2>5, <2>6 DEF MarksInv
<1>2. CASE MarkTypes
  <2>1. /\ phase = "markTypes" /\ toMark = pair.source /\ pair.hasSource
        /\ UNCHANGED <<toMark, patchables, funcsToImport, funcsToMakeNonPatchable, varsToImport>>
    BY <1>2 DEF MarkTypes, MarksInv, ChecksPassed, SourcePhases
  <2>2. \/ phase' = "error" /\ CannotApply
        \/ phase' = "markFuncs" /\ pair.sourceType \cap pair.importable \subseteq pair.patchedType
    BY <1>2, <2>1 DEF MarkTypes, Fail, CannotApply
  <2>3. ChecksPassed' /\ Refused'
    BY <2>1, <2>2 DEF MarksInv, ChecksPassed, Refused, Running, Phases, SourcePhases, EditPhases
  <2>4. ListedOnce' /\ ChangedListed' /\ ImportsKnown'
    BY <2>1, <2>2 DEF MarksInv, ListedOnce, ChangedListed, ImportsKnown, Running, PatchableSet, Phases
  <2> QED
    BY <2>3, <2>4 DEF MarksInv
<1>3. ASSUME NEW f \in Func, MarkFunc(f) PROVE MarksInv'
  BY <1>3, MarkFuncMarks
<1>4. CASE MarkFuncsEnd \/ MarkFuncsAsNonPatchable \/ MarkVars
  <2>1. /\ phase \in {"markFuncs", "markNonPatchable", "markVars"} /\ toMark = {}
        /\ phase' \in {"markNonPatchable", "markVars", "reach", "error"}
        /\ UNCHANGED <<toMark, patchables, funcsToImport>>
    BY <1>4 DEF MarkFuncsEnd, MarkFuncsAsNonPatchable, MarkVars, markVars, MarksInv, ChecksPassed, Fail
  <2>2. /\ phase \in {"markFuncs", "markVars"} => pair.hasSource
        /\ phase' = "error" => ~(pair.sourceVar \subseteq pair.patchedVar) /\ pair.hasSource
        /\ phase' = "markVars" => pair.hasSource
        /\ phase' = "reach" /\ pair.hasSource =>
             pair.sourceVar \subseteq pair.patchedVar /\ varsToImport' = pair.sourceVar
    BY <1>4 DEF MarkFuncsEnd, MarkFuncsAsNonPatchable, MarkVars, MarksInv, ChecksPassed, SourcePhases, Fail
  <2>3. /\ pair.guardParts \in {{}, GuardParts} /\ pair.exception
        /\ pair.hasSource => /\ pair.sameName
                             /\ pair.sourceType \cap pair.importable \subseteq pair.patchedType
                             /\ \A f \in pair.source \ (pair.initializer \cup toMark) : Sound(f)
    BY <2>1 DEF MarksInv, ChecksPassed, Running, Phases
  <2>4. ChecksPassed'
    BY <2>1, <2>2, <2>3 DEF ChecksPassed, Running, Phases, SourcePhases, EditPhases
  <2>5. Refused'
    BY <2>2 DEF Refused, CannotApply
  <2>6. ListedOnce' /\ ChangedListed'
    BY <2>1 DEF MarksInv, ListedOnce, ChangedListed, Running, PatchableSet, Phases
  <2>7. /\ funcsToMakeNonPatchable' \subseteq NewPatchables
        /\ phase' \in {"markVars", "reach"} => funcsToMakeNonPatchable' = NewPatchables
    BY <1>4, <2>1 DEF MarkFuncsEnd, MarkFuncsAsNonPatchable, MarkVars, markVars, MarksInv, ImportsKnown, Running, Phases
  <2>8. ImportsKnown'
    BY <2>1, <2>7 DEF MarksInv, ImportsKnown, Running, PatchableSet
  <2> QED
    BY <2>4, <2>5, <2>6, <2>8 DEF MarksInv
<1> QED
  BY <1>1, <1>2, <1>3, <1>4 DEF Mark

\* The checks, the search and the edits after marking keep the marks.
LEMMA LaterMarks ==
  ASSUME MarksInv, UNCHANGED <<pair, toMark, patchables, funcsToMakeNonPatchable, varsToImport>>,
         funcsToImport' \subseteq funcsToImport, phase \in Running \ {"mark"}, phase' \in Running,
         phase' = phase \/ phase \notin MarkPhases, phase' \notin MarkPhases,
         phase' \in SourcePhases => pair.hasSource,
         phase' \in {"unguard", "done"} \cup EditPhases /\ pair.guardParts # {} => pair.patchClass,
         phase' = "done" /\ pair.hasSource => pair.initAccess
  PROVE  MarksInv'
<1>0. PairUnchanged
  BY PairFrame
<1> USE <1>0 DEF PairUnchanged
<1>1. ChecksPassed' /\ Refused'
  BY DEF MarksInv, ChecksPassed, Refused, Running, Phases, SourcePhases, EditPhases, MarkPhases
<1>2. ListedOnce' /\ ChangedListed' /\ ImportsKnown'
  BY DEF MarksInv, ListedOnce, ChangedListed, ImportsKnown, Running, Phases, PatchableSet, MarkPhases
<1> QED
  BY <1>1, <1>2 DEF MarksInv

\* Searching keeps the marks; it fails only when there is no patch class.
LEMMA ReachMarks == MarksInv /\ Reach => MarksInv'
<1> SUFFICES ASSUME MarksInv, Reach PROVE MarksInv'
  OBVIOUS
<1>1. /\ phase = "reach" /\ phase' \in {"reach", "unguard", "error"}
      /\ UNCHANGED <<pair, toMark, patchables, funcsToMakeNonPatchable, varsToImport>>
      /\ funcsToImport' \subseteq funcsToImport
      /\ phase' = "unguard" => (pair.guardParts # {} => pair.patchClass)
      /\ phase' = "error" => pair.guardParts # {} /\ ~pair.patchClass
  BY ReachFrame
<1>2. CASE phase' # "error"
  BY <1>1, <1>2, LaterMarks DEF Running, Phases, MarkPhases, SourcePhases, EditPhases
<1>3. CASE phase' = "error"
  <2>1. PairUnchanged
    BY <1>1, PairFrame
  <2> USE <2>1 DEF PairUnchanged
  <2>2. ChecksPassed' /\ Refused'
    BY <1>1, <1>3 DEF ChecksPassed, Refused, CannotApply, Running, Phases, SourcePhases, EditPhases
  <2>3. ListedOnce' /\ ChangedListed' /\ ImportsKnown'
    BY <1>1, <1>3 DEF MarksInv, ListedOnce, ChangedListed, ImportsKnown, Running, Phases, PatchableSet
  <2> QED
    BY <2>2, <2>3 DEF MarksInv
<1> QED
  BY <1>2, <1>3

-----------------------------------------------------------------------------
(* The edits                                                                *)

\* The operations of the initialiser are told apart.
LEMMA Tags ==
  /\ \A f, g : Flag(f) = Flag(g) => f = g
  /\ \A f : Flag(f) # <<"none">> /\ Flag(f) # <<"some">> /\ Flag(f) # GuardVar
  /\ <<"none">> # <<"some">>
<1>1. \A f : Flag(f)[2] = f /\ Len(Flag(f)) = 2
  BY DEF Flag
<1>2. Len(<<"none">>) = 1 /\ Len(<<"some">>) = 1 /\ Len(GuardVar) = 1
  BY DEF GuardVar
<1>3. <<"none">>[1] = "none" /\ <<"some">>[1] = "some"
  OBVIOUS
<1>4. \A f, g : Flag(f) = Flag(g) => f = g
  BY <1>1
<1>5. \A f : Flag(f) # <<"none">> /\ Flag(f) # <<"some">> /\ Flag(f) # GuardVar
  BY <1>1, <1>2
<1>6. <<"none">> # <<"some">>
  BY <1>3
<1> QED
  BY <1>4, <1>5, <1>6

\* The next listed function has not been moved before.
LEMMA NextNotMoved ==
  ASSUME TypeOK, ListedOnce, next <= Len(patchables)
  PROVE  /\ next \in 1..Len(patchables) /\ patchables[next] \in Func
         /\ patchables[next] \notin Moved
<1>1. next \in 1..Len(patchables) /\ patchables[next] \in Func
  BY DEF TypeOK
<1>2. \A i \in 1..Len(patchables) : i < next => patchables[i] # patchables[next]
  BY <1>1 DEF ListedOnce, TypeOK
<1> QED
  BY <1>1, <1>2 DEF Moved

\* What has been checked is enough to move a changed body: the error branches
\* of genPatches are never taken.
LEMMA PatchFuncApplies ==
  ASSUME TypeOK, EditsInv, PatchFunc
  PROVE  LET f == patchables[next]
         IN /\ f \in Changed /\ f \in pair.patchedGuarded
            /\ f \in Func \ Inits
            /\ phase = "genPatches" /\ phase' = "genPatches"
            /\ body' = [body EXCEPT ![f] = "none"]
            /\ patchMethod' = [patchMethod EXCEPT ![f] = "patch"]
            /\ gvi' = Append(gvi, Flag(f))
            /\ next' = next + 1
            /\ UNCHANGED <<pair, patchables, guardMethod, vars, varImported, varsToImport>>
<1> DEFINE f == patchables[next]
<1>1. f \in Func \ Inits /\ phase = "genPatches" /\ next <= Len(patchables)
  BY NextNotMoved DEF PatchFunc, EditsInv, MarksInv
<1>2. f \notin Moved /\ next \in 1..Len(patchables)
  BY <1>1, NextNotMoved DEF EditsInv, MarksInv
<1>3. f \in Changed /\ Sound(f)
  BY <1>1, <1>2 DEF EditsInv, MarksInv, ListedOnce
<1>4. pair.hasSource /\ f \in pair.source /\ f \in pair.patchedGuarded
  BY <1>1, <1>3 DEF EditsInv, MarksInv, ChecksPassed, SourcePhases, EditPhases, Sound, Changed
<1>5. body[f] = "guarded" /\ Flag(f) \in vars /\ patchMethod[f] # "none"
  BY <1>1, <1>2, <1>4 DEF EditsInv, GenInv, GuardsKept
<1> QED
  BY <1>1, <1>3, <1>4, <1>5 DEF PatchFunc, EnableGuardVarFlag, markVars

\* Editing keeps the marks, and fails only when an accessor is missing.
LEMMA GenMarks == TypeOK /\ EditsInv /\ Gen => MarksInv'
<1> SUFFICES ASSUME TypeOK, EditsInv, Gen PROVE MarksInv'
  OBVIOUS
<1>1. /\ MarksInv /\ phase \in {"unguard"} \cup EditPhases
      /\ UNCHANGED <<pair, toMark, markVars, reachVars>>
  BY GenFrame DEF EditsInv
<1>2. \/ phase' = phase
      \/ phase = "unguard" /\ phase' = (IF pair.hasSource THEN "genPatches" ELSE "done")
      \/ phase \in EditPhases /\ phase' \in EditPhases
      \/ phase = "updateInits" /\ phase' = "done" /\ pair.initAccess
      \/ phase = "updateInits" /\ phase' = "error" /\ ~pair.initAccess
  BY GenPhase, PatchFuncApplies
<1>3. phase \in EditPhases => pair.hasSource
  BY <1>1 DEF MarksInv, ChecksPassed, SourcePhases
<1>4. pair.guardParts # {} => pair.patchClass
  BY <1>1 DEF MarksInv, ChecksPassed
<1>5. CASE phase' # "error"
  BY <1>1, <1>2, <1>3, <1>4, <1>5, LaterMarks DEF markVars, Running, Phases, MarkPhases, SourcePhases, EditPhases
<1>6. CASE phase' = "error"
  <2>1. PairUnchanged
    BY <1>1, PairFrame
  <2> USE <2>1 DEF PairUnchanged
  <2>2. pair.hasSource /\ ~pair.initAccess
    BY <1>1, <1>2, <1>3, <1>6 DEF EditPhases
  <2>3. ChecksPassed' /\ Refused'
    BY <1>6, <2>2 DEF ChecksPassed, Refused, CannotApply, Running, Phases, SourcePhases, EditPhases
  <2>4. ListedOnce' /\ ChangedListed' /\ ImportsKnown'
    BY <1>1, <1>6 DEF MarksInv, ListedOnce, ChangedListed, ImportsKnown, Running, Phases, PatchableSet, markVars
  <2> QED
    BY <2>3, <2>4 DEF MarksInv
<1> QED
  BY <1>5, <1>6

\* Moved depends on the list and the position in it only.
LEMMA MovedFrame ==
  /\ UNCHANGED <<patchables, next>> => Moved' = Moved
  /\ next = 1 => Moved = {}
  /\ next' = 1 => Moved' = {}
BY DEF Moved

\* A step that edits functions by import only, after the bodies were moved,
\* keeps the invariant of the edits.
LEMMA EditsFrame ==
  ASSUME GenInv, UNCHANGED <<pair, patchables, next, gvi, patchMethod, guardMethod, vars, varsToImport>>,
         \A f \in Func : body'[f] = body[f] \/ body'[f] = "none",
         phase \in EditPhases \ {"genPatches"}, phase' \in (EditPhases \ {"genPatches"}) \cup {"done", "error"},
         phase' \in {"importTypes", "removeRedundant", "updateInits", "done"} /\ pair.hasSource =>
           varImported' = varsToImport,
         TypeOK
  PROVE  GenInv'
<1>0. PairUnchanged /\ Moved' = Moved
  BY PairFrame, MovedFrame
<1>1. NewPatchables \subseteq Func
  BY DEF NewPatchables, TypeOK, PackagePair
<1> USE <1>0 DEF PairUnchanged
<1>2. BodiesMoved'
  BY DEF GenInv, BodiesMoved, EditPhases, Before, MarkPhases
<1>3. GuardsKept'
  BY <1>1 DEF GenInv, GuardsKept, EditPhases, Before, MarkPhases
<1>4. StoresInOrder'
  <2>1. \A op : Enables(op)' <=> Enables(op)
    BY DEF Enables
  <2> QED
    BY <2>1 DEF GenInv, StoresInOrder, EditPhases, Before, MarkPhases
<1>5. VarsImported'
  BY DEF VarsImported
<1> QED
  BY <1>2, <1>3, <1>4, <1>5 DEF GenInv

\* Before the edits start the package is as it was.
LEMMA BeforeEdits ==
  ASSUME TypeOK, GenInv, phase \in Before, phase' \in Before \cup {"error"}, UNCHANGED <<pair, genVars>>
  PROVE  GenInv'
<1>1. next = 1 /\ gvi = << <<"none">> >>
  BY DEF GenInv, BodiesMoved
<1>2. PairUnchanged /\ Moved = {} /\ Moved' = {}
  BY <1>1, PairFrame, MovedFrame DEF genVars
<1> USE <1>2 DEF PairUnchanged, genVars
<1>3. phase # "error" /\ phase' \notin EditPhases \cup {"done"}
  BY DEF Before, MarkPhases, EditPhases
<1>4. BodiesMoved'
  BY <1>3 DEF GenInv, BodiesMoved
<1>5. GuardsKept'
  BY <1>3 DEF GenInv, GuardsKept, Before, MarkPhases
<1>6. StoresInOrder'
  <2>1. Len(gvi') = 1 /\ gvi'[1] = <<"none">>
    BY <1>1
  <2> QED
    BY <2>1 DEF StoresInOrder
<1>7. VarsImported'
  BY <1>3 DEF VarsImported, EditPhases
<1> QED
  BY <1>4, <1>5, <1>6, <1>7 DEF GenInv

\* Removing the guard of a new function leaves what the base needs.
LEMMA UnguardEdits ==
  ASSUME TypeOK, EditsInv, NEW f \in Func, MakeNonPatchable(f)
  PROVE  GenInv'
<1>1. /\ phase = "unguard" /\ phase' = "unguard" /\ body[f] = "guarded"
      /\ body' = [body EXCEPT ![f] = "plain"] /\ vars' = vars \ {Flag(f)}
      /\ guardMethod' = guardMethod \ {f} /\ patchMethod' = [patchMethod EXCEPT ![f] = "none"]
      /\ f \in funcsToMakeNonPatchable /\ UNCHANGED <<pair, patchables, next, gvi, varImported, varsToImport>>
  BY DEF MakeNonPatchable, RemoveGuardChecks, markVars
<1>2. f \in NewPatchables /\ next = 1 /\ gvi = << <<"none">> >>
  BY <1>1 DEF EditsInv, MarksInv, GenInv, ImportsKnown, BodiesMoved, Before
<1>3. PairUnchanged /\ Moved = {} /\ Moved' = {}
  BY <1>1, <1>2, PairFrame, MovedFrame
<1> USE <1>3 DEF PairUnchanged
<1>4. pair.hasSource => f \notin pair.source
  BY <1>2 DEF NewPatchables
<1>5. /\ \A g \in Func \ {f} : body'[g] = body[g] /\ patchMethod'[g] = patchMethod[g]
      /\ body'[f] = "plain" /\ patchMethod'[f] = "none"
  BY <1>1 DEF TypeOK
<1>6. BodiesMoved'
  BY <1>1, <1>2, <1>5 DEF EditsInv, GenInv, BodiesMoved, Before, MarkPhases, EditPhases
<1>7. GuardsKept'
  <2>1. pair.source \subseteq Func /\ pair.patchedGuarded \subseteq Func
    BY DEF TypeOK, PackagePair
  <2>2. \A g \in pair.patchedGuarded \cap pair.source : pair.hasSource =>
          g \in guardMethod' /\ Flag(g) \in vars' /\ patchMethod'[g] # "none"
    BY <1>1, <1>4, <1>5, <2>1, Tags DEF EditsInv, GenInv, GuardsKept
  <2>3. pair.patchedGuarded # {} => GuardVar \in vars'
    BY <1>1, Tags DEF EditsInv, GenInv, GuardsKept
  <2>4. \A g \in Func \ Inits : body'[g] = "guarded" => g \in pair.patchedGuarded
    BY <1>5 DEF EditsInv, GenInv, GuardsKept
  <2>5. \A g \in pair.patchedGuarded \cap pair.source :
          pair.hasSource /\ g \notin Moved => body'[g] = "guarded"
    BY <1>1, <1>4, <1>5, <2>1 DEF EditsInv, GenInv, GuardsKept, Before
  <2> QED
    BY <1>1, <2>2, <2>3, <2>4, <2>5 DEF GuardsKept, EditPhases
<1>8. StoresInOrder'
  <2>1. Len(gvi') = 1 /\ gvi'[1] = <<"none">>
    BY <1>1, <1>2
  <2> QED
    BY <2>1 DEF StoresInOrder
<1>9. VarsImported'
  BY <1>1 DEF VarsImported
<1> QED
  BY <1>6, <1>7, <1>8, <1>9 DEF GenInv

\* When the loop over the new functions ends, none of them is guarded.
LEMMA UnguardEndEdits ==
  ASSUME TypeOK, EditsInv, UnguardEnd
  PROVE  GenInv'
<1>1. /\ phase = "unguard" /\ phase' = (IF pair.hasSource THEN "genPatches" ELSE "done")
      /\ UNCHANGED <<pair, patchables, varsToImport, genVars>>
  BY DEF UnguardEnd, AfterUnguard, markVars
<1>2. next = 1 /\ gvi = << <<"none">> >> /\ funcsToMakeNonPatchable = NewPatchables
  BY <1>1 DEF EditsInv, MarksInv, GenInv, ImportsKnown, BodiesMoved, Before, Running, Phases
<1>3. PairUnchanged /\ Moved = {} /\ Moved' = {}
  BY <1>1, <1>2, PairFrame, MovedFrame DEF genVars
<1> USE <1>3 DEF PairUnchanged, genVars
<1>4. \A f \in NewPatchables : body[f] # "guarded"
  <2>1. NewPatchables # {} => pair.guardParts # {}
    BY DEF NewPatchables, TypeOK, WellFormed
  <2> QED
    BY <1>2, <2>1 DEF UnguardEnd
<1>5. BodiesMoved'
  BY <1>1 DEF EditsInv, GenInv, BodiesMoved, Before, MarkPhases, EditPhases
<1>6. GuardsKept'
  BY <1>1, <1>4 DEF EditsInv, GenInv, GuardsKept, Before, MarkPhases, EditPhases
<1>7. StoresInOrder'
  <2>1. Len(gvi') = 1 /\ gvi'[1] = <<"none">>
    BY <1>1, <1>2
  <2> QED
    BY <2>1 DEF StoresInOrder
<1>8. VarsImported'
  BY <1>1 DEF VarsImported
<1> QED
  BY <1>5, <1>6, <1>7, <1>8 DEF GenInv

\* A package init stays where it is: nothing counts as moved.
LEMMA PatchInitEdits ==
  ASSUME TypeOK, EditsInv, PatchInit
  PROVE  GenInv'
<1> DEFINE f == patchables[next]
<1>1. /\ phase = "genPatches" /\ phase' = "genPatches" /\ next' = next + 1
      /\ f \in Inits /\ f \in Func /\ body' = [body EXCEPT ![f] = "plain"]
      /\ UNCHANGED <<pair, patchables, vars, guardMethod, patchMethod, gvi, varImported, varsToImport>>
  BY NextNotMoved DEF PatchInit, RemoveGuardChecks, markVars, EditsInv, MarksInv
<1>2. Moved' = Moved
  <2>1. \A i \in 1..Len(patchables) : i < next' <=> i < next \/ i = next
    BY <1>1 DEF TypeOK
  <2> QED
    BY <1>1, <2>1 DEF Moved
<1>3. PairUnchanged
  BY <1>1, PairFrame
<1> USE <1>2, <1>3 DEF PairUnchanged
<1>4. body'[f] = "plain" /\ \A g \in Func \ {f} : body'[g] = body[g]
  BY <1>1 DEF TypeOK
<1>5. f \notin Moved /\ f \notin pair.patchedGuarded
  BY <1>1 DEF Moved, TypeOK, WellFormed
<1>6. BodiesMoved'
  <2>1. \A g \in Func : (patchMethod'[g] = "patch" <=> g \in Moved) /\ (g \in Moved => body'[g] = "none")
    BY <1>1, <1>4, <1>5 DEF EditsInv, GenInv, BodiesMoved
  <2> QED
    BY <1>1, <2>1 DEF BodiesMoved, Before, MarkPhases, EditPhases
<1>7. GuardsKept'
  <2>1. pair.source \subseteq Func /\ pair.patchedGuarded \subseteq Func /\ NewPatchables \subseteq pair.patchedGuarded
    BY DEF TypeOK, PackagePair, NewPatchables
  <2> QED
    BY <1>1, <1>4, <1>5, <2>1 DEF EditsInv, GenInv, GuardsKept, EditPhases
<1>8. StoresInOrder'
  <2>1. \A op : Enables(op)' <=> Enables(op)
    BY DEF Enables
  <2> QED
    BY <1>1, <2>1 DEF EditsInv, GenInv, StoresInOrder
<1>9. VarsImported'
  BY <1>1 DEF VarsImported
<1> QED
  BY <1>6, <1>7, <1>8, <1>9 DEF GenInv

\* A changed body is moved, its method is its patch and its flag is enabled.
LEMMA PatchFuncEdits ==
  ASSUME TypeOK, EditsInv, PatchFunc
  PROVE  GenInv'
<1> DEFINE f == patchables[next]
<1>1. /\ f \in Func \ Inits /\ f \in pair.patchedGuarded
      /\ phase = "genPatches" /\ phase' = "genPatches"
      /\ body' = [body EXCEPT ![f] = "none"]
      /\ patchMethod' = [patchMethod EXCEPT ![f] = "patch"]
      /\ gvi' = Append(gvi, Flag(f)) /\ next' = next + 1
      /\ UNCHANGED <<pair, patchables, guardMethod, vars, varImported, varsToImport>>
  BY PatchFuncApplies
<1>2. next \in 1..Len(patchables)
  BY NextNotMoved DEF PatchFunc, EditsInv, MarksInv
<1> HIDE DEF f
<1>3. Moved' = Moved \cup {f}
  <2>1. \A i \in 1..Len(patchables) : i < next' <=> i < next \/ i = next
    BY <1>1, <1>2 DEF TypeOK
  <2> QED
    BY <1>1, <1>2, <2>1 DEF Moved, f
<1>4. PairUnchanged
  BY <1>1, PairFrame
<1> USE <1>3, <1>4 DEF PairUnchanged
<1>5. /\ body'[f] = "none" /\ \A g \in Func \ {f} : body'[g] = body[g]
      /\ patchMethod'[f] = "patch" /\ \A g \in Func \ {f} : patchMethod'[g] = patchMethod[g]
  BY <1>1 DEF TypeOK
<1>6. BodiesMoved'
  <2>1. \A g \in Func : (patchMethod'[g] = "patch" <=> g \in Moved') /\ (g \in Moved' => body'[g] = "none")
    BY <1>1, <1>5 DEF EditsInv, GenInv, BodiesMoved
  <2> QED
    BY <1>1, <2>1 DEF BodiesMoved, Before, MarkPhases, EditPhases
<1>7. GuardsKept'
  <2>1. pair.source \subseteq Func /\ pair.patchedGuarded \subseteq Func /\ NewPatchables \subseteq pair.patchedGuarded
    BY DEF TypeOK, PackagePair, NewPatchables
  <2> QED
    BY <1>1, <1>5, <2>1 DEF EditsInv, GenInv, GuardsKept, EditPhases
<1>8. StoresInOrder'
  <2>1. gvi \in Seq(GviOps) /\ Flag(f) \in GviOps
    BY <1>1 DEF TypeOK, GviOps
  <2>2. /\ Len(gvi) \in Nat /\ Len(gvi') = Len(gvi) + 1 /\ gvi'[Len(gvi) + 1] = Flag(f)
        /\ \A i \in 1..Len(gvi) : gvi'[i] = gvi[i]
    BY <1>1, <2>1, AppendProperties
  <2>3. Len(gvi) >= 1 /\ gvi[1] = <<"none">>
    BY <1>1 DEF EditsInv, GenInv, StoresInOrder
  <2> DEFINE Enabled(op) == \E g \in Moved' : op = Flag(g)
  <2>4. Enabled(Flag(f)) /\ \A op : Enables(op) => Enabled(op)
    BY DEF Enables
  <2>5. \A g \in Moved' : \E i \in 2..Len(gvi') : gvi'[i] = Flag(g)
    <3>1. ASSUME NEW g \in Moved PROVE \E i \in 2..Len(gvi') : gvi'[i] = Flag(g)
      <4>1. PICK i \in 2..Len(gvi) : gvi[i] = Flag(g)
        BY <1>1, <3>1 DEF EditsInv, GenInv, StoresInOrder
      <4>2. i \in 2..Len(gvi') /\ i \in 1..Len(gvi)
        BY <2>2, <4>1
      <4> QED
        BY <2>2, <4>1, <4>2
    <3>2. Len(gvi) + 1 \in 2..Len(gvi')
      BY <2>2, <2>3
    <3> QED
      BY <2>2, <3>1, <3>2
  <2>6. \A i \in 2..Len(gvi) : Enables(gvi[i])
    <3>1. /\ \A i \in 2..Len(gvi) - 1 : Enables(gvi[i])
          /\ Len(gvi) > 1 => Enables(gvi[Len(gvi)])
      BY <1>1 DEF EditsInv, GenInv, StoresInOrder
    <3>2. \A i \in 2..Len(gvi) : i \in 2..Len(gvi) - 1 \/ (i = Len(gvi) /\ Len(gvi) > 1)
      BY <2>2
    <3> QED
      BY <3>1, <3>2
  <2>7. \A i \in 2..Len(gvi') - 1 : Enabled(gvi'[i])
    <3>1. \A i \in 2..Len(gvi') - 1 : i \in 2..Len(gvi) /\ i \in 1..Len(gvi)
      BY <2>2
    <3> QED
      BY <2>2, <2>4, <2>6, <3>1
  <2>8. gvi'[1] = <<"none">> /\ Len(gvi') >= 1
    BY <2>2, <2>3
  <2>9. Enabled(gvi'[Len(gvi')])
    BY <2>2, <2>4
  <2> QED
    BY <1>1, <2>5, <2>7, <2>8, <2>9 DEF StoresInOrder, Enables
<1>9. VarsImported'
  BY <1>1 DEF VarsImported
<1> QED
  BY <1>6, <1>7, <1>8, <1>9 DEF GenInv

\* After the last body the instance is stored, when there is a moved body.
LEMMA GenPatchesEndEdits ==
  ASSUME TypeOK, EditsInv, GenPatchesEnd
  PROVE  GenInv'
<1>1. /\ phase = "genPatches" /\ phase' = "importFuncs" /\ next > Len(patchables)
      /\ gvi' = IF PatchableSet \subseteq Inits THEN gvi ELSE Append(gvi, <<"some">>)
      /\ UNCHANGED <<pair, patchables, next, body, vars, guardMethod, patchMethod, varImported, varsToImport>>
  BY DEF GenPatchesEnd, InstantiatePatchClass, markVars
<1>2. PairUnchanged /\ Moved' = Moved
  BY <1>1, PairFrame, MovedFrame
<1> USE <1>2 DEF PairUnchanged
<1>3. BodiesMoved'
  BY <1>1 DEF EditsInv, GenInv, BodiesMoved, Before, MarkPhases, EditPhases
<1>4. GuardsKept'
  BY <1>1 DEF EditsInv, GenInv, GuardsKept, Before, MarkPhases, EditPhases
<1>5. StoresInOrder'
  <2>1. \A op : Enables(op)' <=> Enables(op)
    BY DEF Enables
  <2>2. /\ Len(gvi) >= 1 /\ gvi[1] = <<"none">>
        /\ \A f \in Moved : \E i \in 2..Len(gvi) : gvi[i] = Flag(f)
        /\ \A i \in 2..Len(gvi) - 1 : Enables(gvi[i])
        /\ Len(gvi) > 1 => Enables(gvi[Len(gvi)])
    BY <1>1 DEF EditsInv, GenInv, StoresInOrder
  <2>3. Len(gvi) \in Nat
    BY DEF TypeOK
  <2>4. CASE PatchableSet \subseteq Inits
    <3>1. \A i \in 1..Len(patchables) : patchables[i] \in Inits
      BY <2>4 DEF PatchableSet
    <3>2. Moved = {}
      BY <3>1 DEF Moved
    <3>3. ~Enables(gvi[Len(gvi)])
      BY <3>2 DEF Enables
    <3>4. ~(Len(gvi) > 1)
      BY <2>2, <3>3
    <3>5. Len(gvi) >= 1
      BY <2>2
    <3>6. Len(gvi) = 1
      BY <2>3, <3>4, <3>5
    <3>7. gvi' = gvi
      BY <1>1, <2>4
    <3>8. ~(Len(gvi') > 1) /\ 2..Len(gvi') - 1 = {}
      BY <3>6, <3>7
    <3> QED
      BY <2>2, <3>2, <3>5, <3>7, <3>8 DEF StoresInOrder
  <2>5. CASE ~(PatchableSet \subseteq Inits)
    <3>1. gvi \in Seq(GviOps) /\ <<"some">> \in GviOps
      BY DEF TypeOK, GviOps
    <3>2. /\ Len(gvi') = Len(gvi) + 1 /\ gvi'[Len(gvi) + 1] = <<"some">>
          /\ \A i \in 1..Len(gvi) : gvi'[i] = gvi[i]
      BY <1>1, <2>5, <3>1, AppendProperties
    <3>3. \A f \in Moved : \E i \in 2..Len(gvi') : gvi'[i] = Flag(f)
      <4>1. \A i \in 2..Len(gvi) : i \in 2..Len(gvi') /\ i \in 1..Len(gvi)
        BY <2>3, <3>2
      <4> QED
        BY <2>2, <3>2, <4>1
    <3>4. \A i \in 2..Len(gvi') - 1 : Enables(gvi'[i])
      <4>1. \A i \in 2..Len(gvi') - 1 :
              i \in 1..Len(gvi) /\ (i \in 2..Len(gvi) - 1 \/ (i = Len(gvi) /\ Len(gvi) > 1))
        BY <2>3, <3>2
      <4> QED
        BY <2>2, <3>2, <4>1
    <3>5. gvi'[1] = <<"none">> /\ Len(gvi') >= 1 /\ gvi'[Len(gvi')] = <<"some">>
      BY <2>2, <2>3, <3>2
    <3>6. phase' \notin Before \cup {"genPatches"}
      BY <1>1 DEF Before, MarkPhases
    <3> QED
      BY <3>3, <3>4, <3>5, <3>6 DEF StoresInOrder, Enables
  <2> QED
    BY <2>4, <2>5
<1>6. VarsImported'
  BY <1>1 DEF VarsImported
<1> QED
  BY <1>3, <1>4, <1>5, <1>6 DEF GenInv

\* Every edit keeps the invariant of the edits.
LEMMA GenEdits == TypeOK /\ EditsInv /\ Gen => GenInv'
<1> SUFFICES ASSUME TypeOK, EditsInv, Gen PROVE GenInv'
  OBVIOUS
<1>1. GenInv /\ (phase \in EditPhases => pair.hasSource)
  BY DEF EditsInv, MarksInv, ChecksPassed, SourcePhases
<1>2. CASE ImportFuncs
  BY <1>1, <1>2, EditsFrame DEF ImportFuncs, markVars, EditPhases
<1>3. CASE ImportVars
  BY <1>1, <1>3, EditsFrame DEF ImportVars, markVars, EditPhases
<1>4. CASE ImportTypes \/ RemoveRedundant \/ UpdatePackageInits
  <2>1. varImported = varsToImport
    BY <1>1, <1>4 DEF ImportTypes, RemoveRedundant, UpdatePackageInits, GenInv, VarsImported, EditPhases
  <2>2. /\ UNCHANGED <<pair, patchables, next, gvi, patchMethod, guardMethod, vars, varsToImport, body, varImported>>
        /\ phase \in EditPhases \ {"genPatches"}
        /\ phase' \in (EditPhases \ {"genPatches"}) \cup {"done", "error"}
    BY <1>4 DEF ImportTypes, RemoveRedundant, UpdatePackageInits, markVars, EditPhases, Fail
  <2> QED
    BY <1>1, <2>1, <2>2, EditsFrame
<1> QED
  BY <1>2, <1>3, <1>4, UnguardEdits, UnguardEndEdits, PatchInitEdits, PatchFuncEdits, GenPatchesEndEdits DEF Gen

\* Every step keeps the strengthened invariant.
LEMMA NextEditsInv == TypeOK /\ EditsInv /\ [Next]_vars_ => EditsInv'
<1> SUFFICES ASSUME TypeOK, EditsInv, [Next]_vars_ PROVE EditsInv'
  OBVIOUS
<1>1. CASE Construct
  <2>1. /\ phase = "construct" /\ UNCHANGED <<pair, toMark, markVars, reachVars, genVars>>
        /\ phase' = IF pair.guardParts \in {{}, GuardParts} /\ pair.exception THEN "mark" ELSE "error"
    BY <1>1 DEF Construct, Fail
  <2>2. PairUnchanged
    BY <2>1, PairFrame
  <2>3. GenInv'
    BY <2>1, BeforeEdits DEF EditsInv, Before, MarkPhases
  <2> USE DEF PairUnchanged, markVars
  <2>4. ChecksPassed' /\ Refused'
    BY <2>1, <2>2 DEF EditsInv, MarksInv, ChecksPassed, Refused, CannotApply, Running, Phases, SourcePhases, EditPhases
  <2>5. ListedOnce' /\ ChangedListed' /\ ImportsKnown'
    BY <2>1, <2>2 DEF EditsInv, MarksInv, ListedOnce, ChangedListed, ImportsKnown, Running, Phases, PatchableSet
  <2> QED
    BY <2>3, <2>4, <2>5 DEF EditsInv, MarksInv
<1>2. CASE Mark
  <2>1. GenInv'
    BY <1>2, MarkFrame, BeforeEdits DEF EditsInv, Before
  <2> QED
    BY <1>2, <2>1, MarkMarks DEF EditsInv
<1>3. CASE Reach
  <2>1. GenInv'
    BY <1>3, ReachFrame, BeforeEdits DEF EditsInv, Before
  <2> QED
    BY <1>3, <2>1, ReachMarks DEF EditsInv
<1>4. CASE Gen
  BY <1>4, GenMarks, GenEdits DEF EditsInv
<1>5. CASE UNCHANGED vars_
  <2>1. UNCHANGED <<pair, phase, toMark, markVars, reachVars, genVars>>
    BY <1>5 DEF vars_
  <2>2. PairUnchanged /\ Moved' = Moved
    BY <2>1, PairFrame, MovedFrame DEF markVars, genVars
  <2> USE <2>1, <2>2 DEF PairUnchanged, markVars, genVars
  <2>3. MarksInv'
    BY DEF EditsInv, MarksInv, ChecksPassed, Refused, ListedOnce, ChangedListed, ImportsKnown, PatchableSet
  <2>4. StoresInOrder'
    BY DEF EditsInv, GenInv, StoresInOrder, Enables
  <2>5. BodiesMoved' /\ GuardsKept' /\ VarsImported'
    BY DEF EditsInv, GenInv, BodiesMoved, GuardsKept, VarsImported
  <2> QED
    BY <2>3, <2>4, <2>5 DEF EditsInv, GenInv
<1> QED
  BY <1>1, <1>2, <1>3, <1>4, <1>5 DEF Next, Terminated

\* The strengthened invariant holds in every reachable state.
LEMMA EditsInvariant == Spec => []EditsInv
<1>1. Init => EditsInv
  BY InitEditsInv
<1>2. TypeOK /\ EditsInv /\ [Next]_vars_ => EditsInv'
  BY NextEditsInv
<1> QED
  BY <1>1, <1>2, TypeCorrect, PTL DEF Spec

-----------------------------------------------------------------------------
(* What follows                                                             *)

\* In a finished patch the moved functions are the changed ones.
LEMMA MovedAreChanged ==
  ASSUME TypeOK, EditsInv, phase = "done", pair.hasSource
  PROVE  Moved = Changed
<1>1. next > Len(patchables) /\ toMark = {}
  BY DEF EditsInv, MarksInv, GenInv, ChecksPassed, BodiesMoved
<1>2. Changed \subseteq PatchableSet /\ Changed \cap Inits = {} /\ Changed \subseteq Func
  BY <1>1 DEF EditsInv, MarksInv, ChangedListed, Running, Phases, Changed, TypeOK, WellFormed, PackagePair
<1>3. \A i \in 1..Len(patchables) : i < next /\ (patchables[i] \in Inits \/ patchables[i] \in Changed)
  BY <1>1 DEF EditsInv, MarksInv, ListedOnce, TypeOK
<1>4. Moved \subseteq Changed
  BY <1>3 DEF Moved
<1>5. Changed \subseteq Moved
  BY <1>2, <1>3 DEF Moved, PatchableSet
<1> QED
  BY <1>4, <1>5

\* In a finished patch the enabled flags are those of the moved functions.
LEMMA EnabledAreMoved ==
  ASSUME TypeOK, EditsInv, phase = "done"
  PROVE  /\ EnabledFlags = Moved
         /\ gvi[1] = <<"none">>
         /\ EnabledFlags # {} => gvi[Len(gvi)] = <<"some">>
         /\ \A i \in 2..Len(gvi) - 1 : gvi[i] \notin {<<"none">>, <<"some">>}
<1>1. /\ Len(gvi) >= 1 /\ gvi[1] = <<"none">>
      /\ \A f \in Moved : \E i \in 2..Len(gvi) : gvi[i] = Flag(f)
      /\ \A i \in 2..Len(gvi) - 1 : Enables(gvi[i])
      /\ Len(gvi) > 1 => gvi[Len(gvi)] = <<"some">>
  BY DEF EditsInv, GenInv, StoresInOrder, Before, MarkPhases
<1>2. Len(gvi) \in Nat
  BY DEF TypeOK
<1>3. ASSUME NEW f \in EnabledFlags PROVE f \in Moved /\ Len(gvi) > 1
  <2>1. PICK i \in 1..Len(gvi) : gvi[i] = Flag(f)
    BY <1>3 DEF EnabledFlags
  <2>2. i # 1
    BY <1>1, <2>1, Tags
  <2>3. Len(gvi) > 1
    <3>1. i \in 1..Len(gvi)
      OBVIOUS
    <3> QED
      BY <1>2, <2>2, <3>1
  <2>4. i # Len(gvi)
    BY <1>1, <2>1, <2>3, Tags
  <2>5. i \in 2..Len(gvi) - 1
    BY <1>2, <2>2, <2>4
  <2>6. Enables(Flag(f))
    BY <1>1, <2>1, <2>5
  <2>7. f \in Moved
    BY <2>6, Tags DEF Enables
  <2> QED
    BY <2>3, <2>7
<1>4. ASSUME NEW f \in Moved PROVE f \in EnabledFlags
  <2>1. PICK i \in 2..Len(gvi) : gvi[i] = Flag(f)
    BY <1>1
  <2>2. i \in 1..Len(gvi) /\ f \in Func
    BY <1>2, <2>1 DEF Moved
  <2> QED
    BY <2>1, <2>2 DEF EnabledFlags
<1>5. \A op : Enables(op) => op # <<"none">> /\ op # <<"some">>
  BY Tags DEF Enables
<1>6. \A i \in 2..Len(gvi) - 1 : gvi[i] \notin {<<"none">>, <<"some">>}
  BY <1>1, <1>5
<1> QED
  BY <1>1, <1>3, <1>4, <1>6

\* A patch replaces exactly the changed functions: their flags, and no other,
\* are enabled between the reset of the guard variable and the store of the
\* instance; flags, guards and methods are those the base refers to.
THEOREM FlagsMatchChanges == Spec => []FlagsMatchPatches
<1>1. TypeOK /\ EditsInv => FlagsMatchPatches
  <2> SUFFICES ASSUME TypeOK, EditsInv, phase = "done", pair.hasSource
               PROVE  FlagsMatchPatches
    BY DEF FlagsMatchPatches
  <2>1. Moved = Changed
    BY MovedAreChanged
  <2>2. /\ EnabledFlags = Moved
        /\ gvi[1] = <<"none">>
        /\ EnabledFlags # {} => gvi[Len(gvi)] = <<"some">>
        /\ \A i \in 2..Len(gvi) - 1 : gvi[i] \notin {<<"none">>, <<"some">>}
    BY EnabledAreMoved
  <2>3. Moved = {f \in Func : patchMethod[f] = "patch"}
    BY DEF EditsInv, GenInv, BodiesMoved, Moved
  <2>4. ASSUME NEW f \in Changed
        PROVE  /\ f \in pair.sourceGuarded
               /\ Flag(f) \in vars /\ GuardVar \in vars
               /\ Flag(f) \in varImported /\ GuardVar \in varImported
               /\ f \in guardMethod
    <3>1. f \in pair.source \ (pair.initializer \cup toMark) /\ Sound(f)
      BY <2>4 DEF EditsInv, MarksInv, ChecksPassed, Running, Phases, Changed
    <3>2. f \in pair.sourceGuarded /\ f \in pair.patchedGuarded /\ f \in pair.source
      BY <2>4, <3>1 DEF Sound
    <3>3. f \in guardMethod /\ Flag(f) \in vars /\ GuardVar \in vars
      BY <3>2 DEF EditsInv, GenInv, GuardsKept
    <3>4. varImported = pair.sourceVar
      BY DEF EditsInv, MarksInv, GenInv, ChecksPassed, VarsImported
    <3>5. {Flag(f), GuardVar} \subseteq pair.sourceVar
      BY <3>2 DEF TypeOK, WellFormed
    <3> QED
      BY <3>2, <3>3, <3>4, <3>5
  <2> QED
    BY <2>1, <2>2, <2>3, <2>4 DEF FlagsMatchPatches
<1> QED
  BY <1>1, EditsInvariant, TypeCorrect, PTL

\* A pair is refused exactly when a patch for it could not be applied.
THEOREM RefusedExactly == Spec => []RefusedIffCannotApply
<1>1. TypeOK /\ EditsInv => RefusedIffCannotApply
  <2> SUFFICES ASSUME TypeOK, EditsInv PROVE RefusedIffCannotApply
    OBVIOUS
  <2>1. phase = "error" => CannotApply
    BY DEF EditsInv, MarksInv, Refused
  <2>2. ASSUME phase = "done" PROVE ~CannotApply
    <3>1. /\ pair.guardParts \in {{}, GuardParts} /\ pair.exception
          /\ pair.guardParts # {} => pair.patchClass
      BY <2>2 DEF EditsInv, MarksInv, ChecksPassed, Running, Phases
    <3>2. pair.hasSource =>
            /\ pair.sameName /\ pair.initAccess
            /\ pair.sourceType \cap pair.importable \subseteq pair.patchedType
            /\ pair.sourceVar \subseteq pair.patchedVar
            /\ \A f \in pair.source \ pair.initializer : Sound(f)
      BY <2>2 DEF EditsInv, MarksInv, ChecksPassed, Running, Phases
    <3>3. \A f \in Changed : f \in pair.source \ pair.initializer
      BY DEF Changed
    <3>4. pair.hasSource => pair.source \ pair.initializer \subseteq pair.patched /\ Changed \subseteq pair.sourceGuarded
      BY <3>2, <3>3 DEF Sound
    <3> QED
      BY <3>1, <3>2, <3>4 DEF CannotApply, Sound
  <2> QED
    BY <2>1, <2>2 DEF RefusedIffCannotApply
<1> QED
  BY <1>1, EditsInvariant, TypeCorrect, PTL

\* A guard that stays in a finished patch finds its flag and guard method, and
\* is that of a function of the base.
THEOREM GuardsStayResolved == Spec => []GuardsResolve
<1>1. TypeOK /\ EditsInv => GuardsResolve
  <2> SUFFICES ASSUME TypeOK, EditsInv, phase = "done", NEW f \in Func \ Inits, body[f] = "guarded"
               PROVE  f \in pair.source /\ Flag(f) \in vars /\ f \in guardMethod /\ patchMethod[f] = "stub"
    BY DEF GuardsResolve, TypeOK
  <2>1. f \in pair.patchedGuarded /\ f \notin NewPatchables
    BY DEF EditsInv, GenInv, GuardsKept
  <2>2. pair.hasSource /\ f \in pair.source
    BY <2>1 DEF NewPatchables
  <2>3. f \in guardMethod /\ Flag(f) \in vars /\ patchMethod[f] # "none"
    BY <2>1, <2>2 DEF EditsInv, GenInv, GuardsKept
  <2>4. patchMethod[f] # "patch"
    BY DEF EditsInv, GenInv, BodiesMoved
  <2>5. patchMethod[f] \in {"none", "stub", "patch"}
    BY DEF TypeOK
  <2> QED
    BY <2>2, <2>3, <2>4, <2>5
<1> QED
  BY <1>1, EditsInvariant, TypeCorrect, PTL

\* No step drops a body that only the patch has, or a changed body that was not
\* moved to PatchImpl.
THEOREM NoNewCodeLost == Spec => NewCodeNotLost
<1> DEFINE Kept == \A f \in pair.patchedBody :
                     body[f] # "none" /\ body'[f] = "none" =>
                       /\ f \in pair.source
                       /\ f \in Changed => patchMethod'[f] = "patch"
<1>1. TypeOK /\ EditsInv /\ [Next]_vars_ => Kept
  <2> SUFFICES ASSUME TypeOK, EditsInv, [Next]_vars_,
                      NEW f \in Func, body[f] # "none", body'[f] = "none"
               PROVE  f \in pair.source /\ (f \in Changed => patchMethod'[f] = "patch")
    BY DEF TypeOK, PackagePair
  <2>1. CASE PatchFunc
    <3>1. f = patchables[next] /\ f \in Changed /\ patchMethod'[f] = "patch"
      BY <2>1, PatchFuncApplies DEF TypeOK
    <3> QED
      BY <3>1 DEF Changed
  <2>2. CASE ImportFuncs
    <3>1. f \in funcsToImport /\ phase = "importFuncs" /\ pair.hasSource /\ patchMethod' = patchMethod
      BY <2>2 DEF ImportFuncs, EditsInv, MarksInv, ChecksPassed, SourcePhases, EditPhases
    <3>2. f \in pair.source
      BY <3>1 DEF EditsInv, MarksInv, ImportsKnown
    <3>3. ASSUME f \in Changed PROVE FALSE
      <4>1. PICK i \in 1..Len(patchables) : patchables[i] = f
        BY <3>1, <3>3 DEF EditsInv, MarksInv, ImportsKnown, PatchableSet
      <4>2. next > Len(patchables)
        BY <3>1 DEF EditsInv, GenInv, BodiesMoved, EditPhases
      <4>3. i < next /\ f \notin Inits
        BY <3>3, <4>1, <4>2 DEF TypeOK, Changed, WellFormed
      <4>4. f \in Moved
        BY <4>1, <4>3 DEF Moved
      <4> QED
        BY <3>1, <4>4 DEF EditsInv, GenInv, BodiesMoved
    <3> QED
      BY <3>2, <3>3
  <2>3. ASSUME NEW g \in Func, MakeNonPatchable(g) PROVE FALSE
    BY <2>3 DEF MakeNonPatchable, RemoveGuardChecks, TypeOK
  <2>4. CASE PatchInit
    BY <2>4 DEF PatchInit, RemoveGuardChecks, TypeOK
  <2>5. CASE UNCHANGED body
    BY <2>5
  <2>6. Construct \/ Mark \/ Reach \/ UNCHANGED vars_ => UNCHANGED body
    BY MarkFrame, ReachFrame DEF Construct, vars_, genVars
  <2>7. UnguardEnd \/ GenPatchesEnd \/ ImportVars \/ ImportTypes \/ RemoveRedundant \/ UpdatePackageInits => UNCHANGED body
    BY DEF UnguardEnd, GenPatchesEnd, ImportVars, ImportTypes, RemoveRedundant, UpdatePackageInits, genVars
  <2> QED
    BY <2>1, <2>2, <2>3, <2>4, <2>5, <2>6, <2>7 DEF Next, Gen, Terminated
<1>2. Spec => [][Kept]_vars_
  BY <1>1, EditsInvariant, TypeCorrect, PTL DEF Spec
<1> QED
  BY <1>2 DEF NewCodeNotLost

-----------------------------------------------------------------------------
(* Functions without a body                                                 *)

\* A changed function is imported, where its body was, unless it is a lambda; that is
\* deleted unless the search reached it.
ListedMarked ==
  /\ \A f \in PatchableSet \ Inits :
       f \in funcsToImport \/ (f \in pair.lambda /\ f \in funcsToDelete \cup visited)
  /\ funcsToImport \cap pair.initializer = {}
  /\ ~pair.hasSource => funcsToImport = {}

\* What is marked is done.
MarksDone ==
  /\ \A f \in Inits : body[f] # "none"
  /\ phase \in {"importVars", "importTypes", "removeRedundant", "updateInits", "done"} =>
       funcsToImport \subseteq imported
  /\ phase \in {"updateInits", "done"} /\ pair.hasSource => funcs \cap funcsToDelete = {}

BodilessInv == ListedMarked /\ MarksDone

LEMMA InitBodiless == Init => BodilessInv
<1> SUFFICES ASSUME Init PROVE BodilessInv
  OBVIOUS
<1>1. Inits \subseteq Func
  BY FuncAssumption
<1>2. PatchableSet = {} /\ funcsToImport = {} /\ phase = "construct"
  BY DEF Init, PatchableSet
<1>3. \A f \in Inits : body[f] = "guarded"
  BY <1>1 DEF Init
<1> QED
  BY <1>2, <1>3 DEF BodilessInv, ListedMarked, MarksDone

\* A changed function is marked when it is listed.
LEMMA MarkBodiless ==
  ASSUME TypeOK, EditsInv, BodilessInv, Mark
  PROVE  BodilessInv'
<1>1. /\ UNCHANGED <<pair, visited, body, funcs, imported>>
      /\ phase' \in MarkPhases \cup {"reach", "error"}
  BY MarkFrame DEF reachVars, genVars
<1>2. MarksDone'
  BY <1>1 DEF BodilessInv, MarksDone, MarkPhases
<1>3. CASE MarkPackage
  <2>1. funcsToImport = {} /\ funcsToImport' = funcsToImport /\ funcsToDelete' = funcsToDelete
    BY <1>3 DEF MarkPackage, EditsInv, MarksInv, ChangedListed
  <2>2. patchables' = patchables \/ patchables' = <<PackageInit, LiteralInit>>
    BY <1>3 DEF MarkPackage
  <2>3. CASE patchables' = patchables
    BY <1>1, <1>2, <2>1, <2>3 DEF BodilessInv, ListedMarked, PatchableSet
  <2>4. CASE patchables' = <<PackageInit, LiteralInit>>
    <3>1. PatchableSet' = Inits
      BY <2>4 DEF PatchableSet, Inits
    <3> QED
      BY <1>1, <1>2, <2>1, <3>1 DEF BodilessInv, ListedMarked
  <2> QED
    BY <2>2, <2>3, <2>4
<1>4. ASSUME NEW f \in Func, MarkFunc(f) PROVE BodilessInv'
  <2>1. phase = "markFuncs" /\ pair.hasSource
    BY <1>4 DEF MarkFunc, EditsInv, MarksInv, ChecksPassed, SourcePhases
  <2>2. /\ funcsToImport \subseteq funcsToImport' /\ funcsToImport' \subseteq funcsToImport \cup {f}
        /\ funcsToDelete \subseteq funcsToDelete'
        /\ funcsToImport' # funcsToImport => f \notin pair.initializer
    BY <1>4 DEF MarkFunc
  <2>3. \/ patchables' = patchables
        \/ /\ patchables' = Append(patchables, f)
           /\ f \in funcsToImport' \/ (f \in pair.lambda /\ f \in funcsToDelete')
    BY <1>4 DEF MarkFunc
  <2>4. PatchableSet' \subseteq PatchableSet \cup {f} /\ (patchables' = patchables => PatchableSet' = PatchableSet)
    <3>1. CASE patchables' = patchables
      BY <3>1 DEF PatchableSet
    <3>2. CASE patchables' = Append(patchables, f)
      <4>1. /\ Len(patchables) \in Nat
            /\ Len(patchables') = Len(patchables) + 1
            /\ patchables'[Len(patchables) + 1] = f
            /\ \A i \in 1..Len(patchables) : patchables'[i] = patchables[i]
        BY <3>2, AppendProperties DEF TypeOK
      <4>2. \A i \in 1..Len(patchables') : i \in 1..Len(patchables) \/ i = Len(patchables) + 1
        BY <4>1
      <4>3. PatchableSet' \subseteq PatchableSet \cup {f}
        BY <4>1, <4>2 DEF PatchableSet
      <4>4. patchables' # patchables
        BY <4>1
      <4> QED
        BY <4>3, <4>4
    <3> QED
      BY <2>3, <3>1, <3>2
  <2>5. \A g \in PatchableSet \ Inits :
          g \in funcsToImport' \/ (g \in pair.lambda /\ g \in funcsToDelete' \cup visited)
    BY <2>2 DEF BodilessInv, ListedMarked
  <2>6. \A g \in PatchableSet' \ Inits :
          g \in funcsToImport' \/ (g \in pair.lambda /\ g \in funcsToDelete' \cup visited)
    BY <2>3, <2>4, <2>5
  <2>7. funcsToImport' \cap pair.initializer = {}
    BY <2>2 DEF BodilessInv, ListedMarked
  <2> QED
    BY <1>1, <1>2, <2>1, <2>6, <2>7 DEF BodilessInv, ListedMarked
<1>5. MarkTypes \/ MarkFuncsEnd \/ MarkFuncsAsNonPatchable \/ MarkVars =>
        UNCHANGED <<funcsToImport, funcsToDelete, patchables>>
  BY DEF MarkTypes, MarkFuncsEnd, MarkFuncsAsNonPatchable, MarkVars, markVars
<1>6. CASE UNCHANGED <<funcsToImport, funcsToDelete, patchables>>
  BY <1>1, <1>2, <1>6 DEF BodilessInv, ListedMarked, PatchableSet
<1> QED
  BY <1>3, <1>4, <1>5, <1>6 DEF Mark

\* The search takes the mark of a listed function only if that is a lambda it visits.
LEMMA ReachBodiless ==
  ASSUME BodilessInv, Reach
  PROVE  BodilessInv'
<1>1. UNCHANGED <<pair, patchables, body, funcs, imported>> /\ phase' \in {"reach", "unguard", "error"}
      /\ funcsToImport' \subseteq funcsToImport
  BY ReachFrame DEF genVars
<1>2. MarksDone'
  BY <1>1 DEF BodilessInv, MarksDone
<1>3. PatchableSet' = PatchableSet
  BY <1>1 DEF PatchableSet
<1>4. /\ visited \subseteq visited'
      /\ \A f \in funcsToImport \ funcsToImport' : f \notin PatchableSet
      /\ \A f \in funcsToDelete \ funcsToDelete' : f \in visited'
  BY DEF Reach, ReachRoot, ReachApply, ReachReturn, ReachEnd, Unmark, markVars, reachVars
<1>5. \A f \in PatchableSet \ Inits :
        f \in funcsToImport' \/ (f \in pair.lambda /\ f \in funcsToDelete' \cup visited')
  BY <1>4 DEF BodilessInv, ListedMarked
<1> QED
  BY <1>1, <1>2, <1>3, <1>5 DEF BodilessInv, ListedMarked

\* The edits do what the marks say.
LEMMA GenBodiless ==
  ASSUME TypeOK, EditsInv, BodilessInv, Gen
  PROVE  BodilessInv'
<1>1. UNCHANGED <<pair, patchables, funcsToImport, funcsToDelete, visited>>
  BY GenFrame DEF markVars, reachVars
<1>2. ListedMarked'
  BY <1>1 DEF BodilessInv, ListedMarked, PatchableSet
<1>3. Inits \subseteq Func /\ Inits \subseteq pair.initializer
  BY DEF TypeOK, WellFormed, PackagePair
<1>4. \A f \in Inits : body'[f] # "none"
  <2>1. \A f \in Inits : f \notin funcsToImport
    BY <1>3 DEF BodilessInv, ListedMarked
  <2>2. PatchFunc => \A f \in Inits : body'[f] = body[f]
    <3>1. PatchFunc => \/ UNCHANGED body
                       \/ patchables[next] \notin Inits /\ body' = [body EXCEPT ![patchables[next]] = "none"]
      BY DEF PatchFunc
    <3> QED
      BY <1>3, <3>1 DEF TypeOK
  <2>3. ImportFuncs => \A f \in Inits : body'[f] = body[f]
    BY <1>3, <2>1 DEF ImportFuncs
  <2>4. ASSUME NEW g \in Func, MakeNonPatchable(g) PROVE \A f \in Inits : body'[f] \in {"plain", body[f]}
    BY <1>3, <2>4 DEF MakeNonPatchable, RemoveGuardChecks, TypeOK
  <2>5. PatchInit => \A f \in Inits : body'[f] \in {"plain", body[f]}
    BY <1>3 DEF PatchInit, RemoveGuardChecks, TypeOK
  <2>6. UnguardEnd \/ GenPatchesEnd \/ ImportVars \/ ImportTypes \/ RemoveRedundant \/ UpdatePackageInits => UNCHANGED body
    BY DEF UnguardEnd, GenPatchesEnd, ImportVars, ImportTypes, RemoveRedundant, UpdatePackageInits, genVars
  <2>7. \A f \in Inits : body'[f] \in {"plain", body[f]}
    BY <2>2, <2>3, <2>4, <2>5, <2>6 DEF Gen
  <2> QED
    BY <2>7 DEF BodilessInv, MarksDone
<1>5. phase' \in {"importVars", "importTypes", "removeRedundant", "updateInits", "done"} =>
        funcsToImport \subseteq imported'
  <2>1. ImportFuncs => funcsToImport \subseteq imported'
    BY DEF ImportFuncs
  <2>2. UnguardEnd => phase' = "genPatches" \/ funcsToImport = {}
    BY DEF UnguardEnd, AfterUnguard, BodilessInv, ListedMarked
  <2>3. (\E f \in Func : MakeNonPatchable(f))
        \/ PatchInit \/ PatchFunc \/ GenPatchesEnd \/ ImportVars \/ ImportTypes \/ RemoveRedundant \/ UpdatePackageInits =>
          /\ imported' = imported
          /\ phase' \in {"importVars", "importTypes", "removeRedundant", "updateInits", "done"} =>
               phase \in {"importVars", "importTypes", "removeRedundant", "updateInits"}
    BY DEF MakeNonPatchable, PatchInit, PatchFunc, GenPatchesEnd, ImportVars, ImportTypes, RemoveRedundant,
           UpdatePackageInits, Fail
  <2>4. UnguardEnd => phase' \in {"genPatches", "done"} /\ (pair.hasSource => phase' = "genPatches")
    BY DEF UnguardEnd, AfterUnguard
  <2> QED
    BY <2>1, <2>2, <2>3, <2>4 DEF Gen, BodilessInv, MarksDone
<1>6. phase' \in {"updateInits", "done"} /\ pair.hasSource => funcs' \cap funcsToDelete = {}
  <2>1. RemoveRedundant => funcs' \cap funcsToDelete = {}
    BY DEF RemoveRedundant
  <2>2. UpdatePackageInits => funcs' = funcs /\ phase = "updateInits"
    BY DEF UpdatePackageInits
  <2>3. UnguardEnd /\ pair.hasSource => phase' = "genPatches"
    BY DEF UnguardEnd, AfterUnguard
  <2>4. (\E f \in Func : MakeNonPatchable(f))
        \/ PatchInit \/ PatchFunc \/ GenPatchesEnd \/ ImportFuncs \/ ImportVars \/ ImportTypes =>
          phase' \notin {"updateInits", "done"}
    BY DEF MakeNonPatchable, PatchInit, PatchFunc, GenPatchesEnd, ImportFuncs, ImportVars, ImportTypes, Fail
  <2> QED
    BY <2>1, <2>2, <2>3, <2>4 DEF Gen, BodilessInv, MarksDone
<1> QED
  BY <1>1, <1>2, <1>4, <1>5, <1>6 DEF BodilessInv, MarksDone

LEMMA BodilessInvariant == Spec => []BodilessInv
<1>1. Init => BodilessInv
  BY InitBodiless
<1>2. TypeOK /\ EditsInv /\ BodilessInv /\ [Next]_vars_ => BodilessInv'
  <2> SUFFICES ASSUME TypeOK, EditsInv, BodilessInv, [Next]_vars_ PROVE BodilessInv'
    OBVIOUS
  <2>1. CASE Construct \/ UNCHANGED vars_
    <3>1. UNCHANGED <<pair, patchables, funcsToImport, funcsToDelete, visited, body, funcs, imported>>
      BY <2>1 DEF Construct, vars_, markVars, reachVars, genVars
    <3>2. phase' = phase \/ phase' \in {"mark", "error"}
      BY <2>1 DEF Construct, Fail, vars_
    <3>3. ListedMarked' /\ MarksDone'
      BY <3>1, <3>2 DEF BodilessInv, ListedMarked, MarksDone, PatchableSet
    <3> QED
      BY <3>3 DEF BodilessInv
  <2> QED
    BY <2>1, MarkBodiless, ReachBodiless, GenBodiless DEF Next, Terminated
<1> QED
  BY <1>1, <1>2, TypeCorrect, EditsInvariant, PTL DEF Spec

\* A function that a patch has as its own without a body is a changed lambda that
\* code in the patch applies: where it has one, its body went to PatchImpl.
OnlyReachedLambdas ==
  phase = "done" =>
    \A f \in (funcs \cap pair.patchedBody) \ imported :
      body[f] = "none" => f \in Changed \cap pair.lambda \cap visited

THEOREM BodilessAreReachedLambdas == Spec => []OnlyReachedLambdas
<1>1. TypeOK /\ SearchInv /\ EditsInv /\ BodilessInv => OnlyReachedLambdas
  <2> SUFFICES ASSUME TypeOK, SearchInv, EditsInv, BodilessInv, phase = "done",
                      NEW f \in Func, f \in funcs, f \in pair.patchedBody, f \notin imported, body[f] = "none"
               PROVE  f \in Changed \cap pair.lambda \cap visited
    BY DEF OnlyReachedLambdas, TypeOK
  <2>1. f \notin funcsToImport /\ f \notin Inits
    BY DEF BodilessInv, MarksDone
  <2>2. f \in PatchableSet
    BY <2>1 DEF SearchInv, EditsMarked
  <2>3. f \in Changed
    BY <2>1, <2>2 DEF EditsInv, MarksInv, ListedOnce, PatchableSet
  <2>4. pair.hasSource
    <3>1. patchables # <<>>
      BY <2>2 DEF PatchableSet
    <3> QED
      BY <3>1 DEF EditsInv, MarksInv, ChangedListed
  <2>5. f \in pair.lambda /\ f \in funcsToDelete \cup visited
    BY <2>1, <2>2 DEF BodilessInv, ListedMarked
  <2>6. f \notin funcsToDelete
    BY <2>4 DEF BodilessInv, MarksDone
  <2> QED
    BY <2>3, <2>5, <2>6
<1> QED
  BY <1>1, TypeCorrect, SearchInvariant, EditsInvariant, BodilessInvariant, PTL

\* If no lambda that the base has is among the changed functions, no function of the
\* patch is without its body ("we want to avoid such situations", PatchGen.cpp).
NoLambdaChanged == pair.lambda \cap Changed = {}

THEOREM NoBodilessUnlessLambdaChanged == Spec /\ NoLambdaChanged => []NoBodilessFunction
<1>1. NoLambdaChanged /\ [Next]_vars_ => NoLambdaChanged'
  <2> SUFFICES ASSUME NoLambdaChanged, [Next]_vars_ PROVE NoLambdaChanged'
    OBVIOUS
  <2>1. UNCHANGED pair
    BY MarkFrame, ReachFrame, GenFrame DEF Next, Construct, Terminated, vars_
  <2> QED
    BY <2>1, PairFrame DEF NoLambdaChanged, PairUnchanged
<1>2. NoLambdaChanged /\ OnlyReachedLambdas => NoBodilessFunction
  BY DEF NoLambdaChanged, OnlyReachedLambdas, NoBodilessFunction
<1> QED
  BY <1>1, <1>2, BodilessAreReachedLambdas, PTL DEF Spec


-----------------------------------------------------------------------------
(* The depth of the search                                                  *)

\* What is left to visit is INTERNAL; the frames above a root are of visited
\* functions, each of which has one frame.
FramesVisited ==
  /\ \A i \in 1..Len(stack) : stack[i].todo \subseteq pair.internal
  /\ \A i \in 2..Len(stack) : stack[i].func \in visited \cap pair.internal
  /\ \A i, j \in 2..Len(stack) : stack[i].func = stack[j].func => i = j

\* The search starts without frames.
LEMMA InitFrames == Init => FramesVisited
<1> SUFFICES ASSUME Init PROVE FramesVisited
  OBVIOUS
<1>1. Len(stack) = 0
  BY DEF Init
<1> QED
  BY <1>1 DEF FramesVisited

\* Every step of the search keeps one frame for each visited function.
LEMMA ReachFrames == TypeOK /\ FramesVisited /\ Reach => FramesVisited'
<1> SUFFICES ASSUME TypeOK, FramesVisited, Reach PROVE FramesVisited'
  OBVIOUS
<1>1. /\ pair' = pair /\ pair \in PackagePair
      /\ stack \in Seq(FrameSet) /\ Len(stack) \in Nat
  <2>1. stack \in Seq(FrameSet) /\ pair \in PackagePair
    BY DEF TypeOK, FrameSet
  <2> QED
    BY <2>1, LenProperties
       DEF Reach, ReachRoot, ReachApply, Unmark, Descend, ReachReturn, ReachEnd
<1>2. CASE ReachRoot
  <2>1. stack' = <<Frame(patchables[root])>> /\ visited' = visited
    BY <1>2 DEF ReachRoot
  <2>2. Len(stack') = 1 /\ stack'[1].todo \subseteq pair.internal
    BY <2>1 DEF Frame, InternalCallees
  <2> QED
    BY <1>1, <2>1, <2>2 DEF FramesVisited
<1>3. ASSUME NEW c \in Func, ReachApply(c) PROVE FramesVisited'
  <2>1. /\ \A i \in 1..Len(stack) :
             /\ i \in 1..Len(stack')
             /\ stack'[i].func = stack[i].func
             /\ stack'[i].todo = IF i = Len(stack) THEN stack[i].todo \ {c}
                                                  ELSE stack[i].todo
        /\ c \in visited => Len(stack') = Len(stack)
        /\ c \notin visited => /\ Len(stack') = Len(stack) + 1
                              /\ stack'[Len(stack) + 1] = Frame(c)
    BY <1>1, <1>3, ApplyFrames
  <2>2. visited' = visited \cup {c} /\ c \in pair.internal
    <3>1. stack # <<>> /\ c \in stack[Len(stack)].todo /\ visited' = visited \cup {c}
      BY <1>3 DEF ReachApply
    <3>2. Len(stack) \in 1..Len(stack)
      BY <1>1, <3>1, EmptySeq
    <3> QED
      BY <3>1, <3>2 DEF FramesVisited
  <2>3. CASE c \in visited
    <3>1. Len(stack') = Len(stack) /\ visited' = visited /\ pair' = pair
      BY <1>1, <2>1, <2>2, <2>3
    <3>2. \A i \in 1..Len(stack') : stack'[i].func = stack[i].func /\ stack'[i].todo \subseteq stack[i].todo
      BY <2>1, <3>1
    <3>3. \A i \in 1..Len(stack') : stack'[i].todo \subseteq pair'.internal
      BY <3>1, <3>2 DEF FramesVisited
    <3>4. \A i \in 2..Len(stack') : i \in 2..Len(stack) /\ stack'[i].func = stack[i].func
      BY <1>1, <3>1, <3>2
    <3>5. \A i \in 2..Len(stack') : stack'[i].func \in visited' \cap pair'.internal
      BY <3>1, <3>4 DEF FramesVisited
    <3>6. \A i, j \in 2..Len(stack') : stack'[i].func = stack'[j].func => i = j
      BY <3>4 DEF FramesVisited
    <3> QED
      BY <3>3, <3>5, <3>6 DEF FramesVisited
  <2>4. CASE c \notin visited
    <3>1. Frame(c).func = c /\ Frame(c).todo \subseteq pair.internal
      BY DEF Frame, InternalCallees
    <3>2. \A i \in 1..Len(stack') : i \in 1..Len(stack) \/ i = Len(stack) + 1
      BY <1>1, <2>1, <2>4
    <3>3. \A i \in 1..Len(stack') : stack'[i].todo \subseteq pair.internal
      <4>1. \A i \in 1..Len(stack) : stack'[i].todo \subseteq stack[i].todo
        BY <2>1
      <4>2. \A i \in 1..Len(stack) : stack'[i].todo \subseteq pair.internal
        BY <4>1 DEF FramesVisited
      <4> QED
        BY <2>1, <2>4, <3>1, <3>2, <4>2
    <3>4. \A i \in 2..Len(stack') :
            \/ i = Len(stack) + 1 /\ stack'[i].func = c
            \/ i \in 2..Len(stack) /\ stack'[i].func = stack[i].func
      <4>1. stack'[Len(stack) + 1].func = c
        BY <2>1, <2>4, <3>1
      <4>2. \A i \in 2..Len(stack') : i \in 2..Len(stack) \/ i = Len(stack) + 1
        <5>1. Len(stack) \in Nat /\ Len(stack') = Len(stack) + 1
          BY <1>1, <2>1, <2>4
        <5> QED
          BY <5>1
      <4>3. \A i \in 2..Len(stack) : stack'[i].func = stack[i].func
        <5>1. Len(stack) \in Nat /\ \A i \in 1..Len(stack) : stack'[i].func = stack[i].func
          BY <1>1, <2>1
        <5> QED
          BY <5>1
      <4> QED
        BY <4>1, <4>2, <4>3
    <3>5. \A i \in 2..Len(stack) : stack[i].func \in visited \cap pair.internal /\ stack[i].func # c
      BY <2>4 DEF FramesVisited
    <3>6. \A i \in 2..Len(stack') : stack'[i].func \in visited' \cap pair.internal
      BY <2>2, <3>4, <3>5
    <3>7. \A i, j \in 2..Len(stack') : stack'[i].func = stack'[j].func => i = j
      BY <3>4, <3>5 DEF FramesVisited
    <3> QED
      BY <1>1, <3>3, <3>6, <3>7 DEF FramesVisited
  <2> QED
    BY <2>3, <2>4
<1>4. CASE ReachReturn
  <2>1. stack # <<>> /\ stack' = SubSeq(stack, 1, Len(stack) - 1) /\ visited' = visited
    BY <1>4 DEF ReachReturn
  <2>2. Len(stack') = Len(stack) - 1 /\ \A i \in 1..Len(stack') : stack'[i] = stack[i]
    BY <1>1, <2>1, DropFrame
  <2> QED
    BY <1>1, <2>1, <2>2 DEF FramesVisited
<1>5. CASE ReachEnd
  BY <1>5 DEF ReachEnd, reachVars, FramesVisited
<1> QED
  BY <1>2, <1>3, <1>4, <1>5 DEF Reach

\* Every step of patch-gen does; only the search touches the frames.
LEMMA NextFrames == TypeOK /\ FramesVisited /\ [Next]_vars_ => FramesVisited'
<1> SUFFICES ASSUME TypeOK, FramesVisited, [Next]_vars_ PROVE FramesVisited'
  OBVIOUS
<1>1. CASE Construct \/ Terminated \/ UNCHANGED vars_
  BY <1>1 DEF Construct, Terminated, vars_, reachVars, FramesVisited
<1>2. CASE Mark
  BY <1>2, MarkFrame DEF reachVars, FramesVisited
<1>3. CASE Reach
  BY <1>3, ReachFrames
<1>4. CASE Gen
  BY <1>4, GenFrame DEF reachVars, FramesVisited
<1> QED
  BY <1>1, <1>2, <1>3, <1>4 DEF Next

\* The recursion of the search is bounded by the INTERNAL functions, however
\* the bodies call each other: the safety part of Termination.
RecursionBounded ==
  \A i, j \in 2..Len(stack) :
    stack[i].func \in pair.internal /\ (stack[i].func = stack[j].func => i = j)

THEOREM RecursionStaysBounded == Spec => []RecursionBounded
<1>1. Init => FramesVisited
  BY InitFrames
<1>2. TypeOK /\ FramesVisited /\ [Next]_vars_ => FramesVisited'
  BY NextFrames
<1>3. FramesVisited => RecursionBounded
  BY DEF FramesVisited, RecursionBounded
<1> QED
  BY <1>1, <1>2, <1>3, TypeCorrect, PTL DEF Spec
=============================================================================
