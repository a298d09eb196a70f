---------------------------- MODULE PatchGen ----------------------------
(***************************************************************************)
(* patch-gen (patch-gen/src/PatchGen.cpp): from the compiled base version  *)
(* ("source") and the compiled fixed version ("patched") of one package,   *)
(* both instrumented by cjc-plugin, make the patch that is loaded into the *)
(* running base.  The patch is the patched package edited in place:        *)
(*                                                                         *)
(*   mark   compare the versions, decide per function: import it from the  *)
(*          base, delete it, move its body into PatchImpl, or un-guard it; *)
(*   reach  depth-first search that un-marks the INTERNAL functions the    *)
(*          moved bodies apply, since the base does not export them;       *)
(*   gen    edit the patched package by these marks.                       *)
(*                                                                         *)
(* A pair of versions is one record, a member of the constant Pair, fixed  *)
(* by Init.  A body is reduced to what the edits tell apart: whether it is *)
(* there, whether it is still guarded and which functions it applies.      *)
(* A failed check throws PatchGenException, which main turns into a failed *)
(* run that writes no patch: phase "error".                                *)
(***************************************************************************)
EXTENDS Naturals, Sequences, FiniteSets

CONSTANTS Func,         \* global functions and methods of the two versions
          PackageInit,  \* the package initialisation function
          LiteralInit,  \* the initialisation function of the literals
          TypeDef,      \* class, struct, enum and extend definitions
          PatchImpl,    \* the definition of the patch class
          UserVar,      \* global variables written by the user
          Pair          \* the pairs of versions considered

Inits == {PackageInit, LiteralInit}

\* The plugin gives each patchable function a flag, and the package one guard
\* variable; patch-gen finds a flag by the name made from the function's name.
Flag(f) == <<"flag", f>>
GuardVar == <<"guardVar">>
Var == {Flag(f) : f \in Func} \cup {GuardVar} \cup UserVar

GuardParts == {"guardVarsInitializer", "guardClass", "guardVar"}

PackagePair ==
  [ hasSource      : BOOLEAN,          \* a base version was given
    sameName       : BOOLEAN,          \* the versions' packages are equal
    guardParts     : SUBSET GuardParts,\* found in the patched version
    patchClass     : BOOLEAN,
    exception      : BOOLEAN,          \* Exception and its constructor found
    initAccess     : BOOLEAN,          \* init flags and their accessors found
    source         : SUBSET Func,
    patched        : SUBSET Func,
    sourceBody     : SUBSET Func,
    patchedBody    : SUBSET Func,
    sourceImported : SUBSET Func,
    sourceGuarded  : SUBSET Func,
    patchedGuarded : SUBSET Func,
    attrsDiffer    : SUBSET Func,
    differ         : SUBSET Func,      \* ~FuncCodeEquality.areEqual
    lambda         : SUBSET Func,
    internal       : SUBSET Func,      \* INTERNAL linkage
    initializer    : SUBSET Func,      \* GLOBALVAR_INIT, annotation factory
    empty          : SUBSET Func,      \* the body is a lone Exit
    calls          : [Func -> SUBSET Func],
    sourceType     : SUBSET TypeDef,
    patchedType    : SUBSET TypeDef,
    importable     : SUBSET TypeDef,   \* classes and structs
    sourceVar      : SUBSET Var,
    patchedVar     : SUBSET Var ]

\* What the plugin and the compiler guarantee of the versions they produce.
WellFormed(p) ==
  /\ p.sourceGuarded \subseteq p.sourceBody
  /\ p.sourceBody \subseteq p.source
  /\ p.patchedGuarded \subseteq p.patchedBody
  /\ p.patchedBody \subseteq p.patched
  /\ Inits \subseteq p.patchedBody \cap p.initializer
  /\ Inits \cap (p.patchedGuarded \cup p.lambda \cup p.internal) = {}
  /\ (p.patchedGuarded \cup p.sourceGuarded) \cap p.initializer = {}
  /\ p.lambda \cap p.source \subseteq p.sourceBody
  /\ \A f \in Func : p.calls[f] \subseteq p.patched
  /\ \A f \in p.sourceGuarded : {Flag(f), GuardVar} \subseteq p.sourceVar
  /\ \A f \in p.patchedGuarded :
       /\ {Flag(f), GuardVar} \subseteq p.patchedVar
       /\ p.guardParts # {}

ASSUME FuncAssumption == Inits \subseteq Func /\ PackageInit # LiteralInit
ASSUME PairAssumption == \A p \in Pair : p \in PackagePair /\ WellFormed(p)

Phases == {"construct", "mark", "markTypes", "markFuncs", "markNonPatchable",
           "markVars", "reach", "unguard", "genPatches", "importFuncs",
           "importVars", "importTypes", "removeRedundant", "updateInits",
           "done", "error"}

VARIABLES
  pair, phase, toMark,
  \* MarkContext
  typesToImport, funcsToImport, funcsToMakeNonPatchable, funcsToDelete,
  varsToImport, patchables,
  \* the depth-first search: next root, frames of the recursion, visited
  root, stack, visited,
  \* the package being edited
  funcs, body, calls, imported, vars, varImported, guardMethod, patchMethod,
  gvi, initAccess, typeImported,
  next                     \* genPatches' position in patchables

markVars == <<typesToImport, funcsToImport, funcsToMakeNonPatchable,
              funcsToDelete, varsToImport, patchables>>
reachVars == <<root, stack, visited>>
genVars == <<funcs, body, calls, imported, vars, varImported, guardMethod,
             patchMethod, gvi, initAccess, typeImported, next>>
vars_ == <<pair, phase, toMark, markVars, reachVars, genVars>>

Fail == phase' = "error"

-----------------------------------------------------------------------------
Init ==
  /\ pair \in Pair
  /\ phase = "construct"
  /\ toMark = {}
  /\ typesToImport = {} /\ funcsToImport = {} /\ funcsToMakeNonPatchable = {}
  /\ funcsToDelete = {} /\ varsToImport = {} /\ patchables = <<>>
  /\ root = 1 /\ stack = <<>> /\ visited = {}
  /\ funcs = pair.patched
  /\ body = [f \in Func |-> IF f \in pair.patchedGuarded \cup Inits THEN "guarded"
                            ELSE IF f \in pair.patchedBody THEN "plain" ELSE "none"]
  /\ calls = pair.calls
  /\ imported = {}
  /\ vars = pair.patchedVar /\ varImported = {}
  /\ guardMethod = pair.patchedGuarded
  /\ patchMethod = [f \in Func |-> IF f \in pair.patchedGuarded THEN "stub" ELSE "none"]
  /\ gvi = << <<"none">> >>          \* the plugin's body: guard variable := None
  /\ initAccess = "flags"
  /\ typeImported = {}
  /\ next = 1

\* PatchGen::PatchGen: the three guard parts go together, Exception is known.
Construct ==
  /\ phase = "construct"
  /\ IF pair.guardParts \in {{}, GuardParts} /\ pair.exception
       THEN phase' = "mark" ELSE Fail
  /\ UNCHANGED <<pair, toMark, markVars, reachVars, genVars>>

-----------------------------------------------------------------------------
(* mark                                                                     *)

MarkPackage ==
  /\ phase = "mark"
  /\ \/ /\ ~pair.hasSource
        /\ phase' = "markNonPatchable"
        /\ UNCHANGED <<toMark, patchables>>
     \/ /\ pair.hasSource /\ ~pair.sameName
        /\ Fail
        /\ UNCHANGED <<toMark, patchables>>
     \/ /\ pair.hasSource /\ pair.sameName
        /\ patchables' = <<PackageInit, LiteralInit>>
        /\ toMark' = pair.source
        /\ phase' = "markTypes"
  /\ UNCHANGED <<pair, typesToImport, funcsToImport, funcsToMakeNonPatchable,
                 funcsToDelete, varsToImport, reachVars, genVars>>

\* The loop over the source's types.  Enums and extends are skipped.
MarkTypes ==
  /\ phase = "markTypes"
  /\ LET considered == pair.sourceType \cap pair.importable
     IN IF considered \subseteq pair.patchedType
          THEN /\ typesToImport' =
                    IF pair.guardParts = {} THEN considered
                                            ELSE considered \ {PatchImpl}
               /\ phase' = "markFuncs"
          ELSE Fail /\ UNCHANGED typesToImport
  /\ UNCHANGED <<pair, toMark, funcsToImport, funcsToMakeNonPatchable,
                 funcsToDelete, varsToImport, patchables, reachVars, genVars>>

\* Mutant: markFunc forgets to compare the attributes.
RejectedWithoutAttributes(f) ==
  /\ f \in pair.sourceBody
  /\ \/ (f \in pair.sourceGuarded) # (f \in pair.patchedGuarded)
     \/ f \in pair.differ /\ f \notin pair.sourceGuarded

\* What markFunc rejects: a function that is patchable in one version only, or
\* whose attributes changed, or that changed without being patchable.
Rejected(f) ==
  /\ f \in pair.sourceBody
  /\ \/ (f \in pair.sourceGuarded) # (f \in pair.patchedGuarded)
     \/ f \in pair.attrsDiffer
     \/ f \in pair.differ /\ f \notin pair.sourceGuarded

\* The lookup by FunctionEquality, which tells a function with a body from one
\* without (and an imported one from one that is not).
Found(f) == f \in pair.patched /\ (f \in pair.sourceBody <=> f \in pair.patchedBody)

\* One iteration of the loop over the source's functions, with markFunc.
MarkFunc(f) ==
  /\ phase = "markFuncs"
  /\ f \in toMark
  /\ \/ /\ f \in pair.initializer
        /\ phase' = phase
        /\ UNCHANGED <<funcsToImport, funcsToDelete, patchables>>
     \/ /\ f \notin pair.initializer
        /\ ~Found(f) \/ Rejected(f)
        /\ Fail
        /\ UNCHANGED <<funcsToImport, funcsToDelete, patchables>>
     \/ /\ f \notin pair.initializer \cup pair.sourceBody
        /\ Found(f)
        /\ funcsToImport' = IF f \in pair.sourceImported THEN funcsToImport
                                                         ELSE funcsToImport \cup {f}
        /\ phase' = phase
        /\ UNCHANGED <<funcsToDelete, patchables>>
     \/ /\ f \in pair.sourceBody \ pair.initializer
        /\ Found(f) /\ ~Rejected(f)
        /\ IF f \in pair.lambda
             THEN funcsToDelete' = funcsToDelete \cup {f} /\ UNCHANGED funcsToImport
             ELSE funcsToImport' = funcsToImport \cup {f} /\ UNCHANGED funcsToDelete
        /\ patchables' = IF f \in pair.differ THEN Append(patchables, f) ELSE patchables
        /\ phase' = phase
  /\ toMark' = toMark \ {f}
  /\ UNCHANGED <<pair, typesToImport, funcsToMakeNonPatchable, varsToImport,
                 reachVars, genVars>>

MarkFuncsEnd ==
  /\ phase = "markFuncs"
  /\ toMark = {}
  /\ phase' = "markNonPatchable"
  /\ UNCHANGED <<pair, toMark, markVars, reachVars, genVars>>

\* Mutant: new functions are looked up in the patched version.
NewPatchablesOfPatched ==
  IF pair.hasSource THEN pair.patchedGuarded \ pair.patched ELSE pair.patchedGuarded

\* Patchable functions the source does not have.
NewPatchables ==
  IF pair.hasSource THEN pair.patchedGuarded \ pair.source ELSE pair.patchedGuarded

MarkFuncsAsNonPatchable ==
  /\ phase = "markNonPatchable"
  /\ funcsToMakeNonPatchable' = NewPatchables
  /\ phase' = IF pair.hasSource THEN "markVars" ELSE "reach"
  /\ UNCHANGED <<pair, toMark, typesToImport, funcsToImport, funcsToDelete,
                 varsToImport, patchables, reachVars, genVars>>

MarkVars ==
  /\ phase = "markVars"
  /\ IF pair.sourceVar \subseteq pair.patchedVar
       THEN varsToImport' = pair.sourceVar /\ phase' = "reach"
       ELSE Fail /\ UNCHANGED varsToImport
  /\ UNCHANGED <<pair, toMark, typesToImport, funcsToImport,
                 funcsToMakeNonPatchable, funcsToDelete, patchables, reachVars,
                 genVars>>

-----------------------------------------------------------------------------
(* reach                                                                    *)

PatchableSet == {patchables[i] : i \in 1..Len(patchables)}

\* The callees the search follows.  A guarded body and its un-guarded form
\* apply the same functions here: the plugin's own calls are never INTERNAL.
InternalCallees(f) == pair.calls[f] \cap pair.internal

Frame(f) == [func |-> f, todo |-> InternalCallees(f)]

\* The frames with callee c taken off the top one.
TakeCallee(frames, c) ==
  [frames EXCEPT ![Len(frames)] = [func |-> @.func, todo |-> @.todo \ {c}]]

ReachRoot ==
  /\ phase = "reach"
  /\ stack = <<>>
  /\ root <= Len(patchables)
  /\ stack' = <<Frame(patchables[root])>>
  /\ root' = root + 1
  /\ UNCHANGED <<pair, phase, toMark, markVars, visited, genVars>>

\* Mutant: a changed callee is un-marked although its body moves to PatchImpl.
UnmarkEvenPatchable(c) ==
  IF c \in pair.lambda
    THEN funcsToDelete' = funcsToDelete \ {c} /\ UNCHANGED funcsToImport
    ELSE funcsToImport' = funcsToImport \ {c} /\ UNCHANGED funcsToDelete

Unmark(c) ==
  IF c \in pair.lambda
    THEN funcsToDelete' = funcsToDelete \ {c} /\ UNCHANGED funcsToImport
    ELSE /\ funcsToImport' = IF c \in PatchableSet THEN funcsToImport
                                                   ELSE funcsToImport \ {c}
         /\ UNCHANGED funcsToDelete

\* Mutant: a lambda's callees are not searched.
DescendNotIntoLambda(c) ==
  stack' = IF c \in visited \cup pair.lambda THEN TakeCallee(stack, c)
                                            ELSE Append(TakeCallee(stack, c), Frame(c))

\* Mutant: a callee is searched again each time it is met.
DescendAgain(c) == stack' = Append(TakeCallee(stack, c), Frame(c))

\* The recursive call, on the first visit of c only.
Descend(c) ==
  stack' = IF c \in visited THEN TakeCallee(stack, c)
                            ELSE Append(TakeCallee(stack, c), Frame(c))

\* One Apply of an INTERNAL function in the body being visited.
ReachApply(c) ==
  /\ phase = "reach"
  /\ stack # <<>>
  /\ c \in stack[Len(stack)].todo
  /\ Unmark(c)
  /\ Descend(c)
  /\ visited' = visited \cup {c}
  /\ UNCHANGED <<pair, phase, toMark, typesToImport, funcsToMakeNonPatchable,
                 varsToImport, patchables, root, genVars>>

ReachReturn ==
  /\ phase = "reach"
  /\ stack # <<>>
  /\ stack[Len(stack)].todo = {}
  /\ stack' = SubSeq(stack, 1, Len(stack) - 1)
  /\ UNCHANGED <<pair, phase, toMark, markVars, root, visited, genVars>>

ReachEnd ==
  /\ phase = "reach"
  /\ stack = <<>>
  /\ root > Len(patchables)
  /\ phase' = IF pair.guardParts # {} /\ ~pair.patchClass THEN "error" ELSE "unguard"
  /\ UNCHANGED <<pair, toMark, markVars, reachVars, genVars>>

-----------------------------------------------------------------------------
(* gen                                                                      *)

\* The bodies after f's guard is removed and its own code is its whole body.
RemoveGuardChecks(f) == [body EXCEPT ![f] = "plain"]

\* One iteration of makeNewPatchableFuncsAsNonPatchable.  The functions behind
\* the guard and patch methods stay listed (vtables refer to them) and are
\* marked UNREACHABLE; here they are the absent guardMethod and patchMethod.
MakeNonPatchable(f) ==
  /\ phase = "unguard"
  /\ pair.guardParts # {}
  /\ f \in funcsToMakeNonPatchable
  /\ body[f] = "guarded"
  /\ body' = RemoveGuardChecks(f)
  /\ vars' = vars \ {Flag(f)}
  /\ guardMethod' = guardMethod \ {f}
  /\ patchMethod' = [patchMethod EXCEPT ![f] = "none"]
  /\ UNCHANGED <<pair, phase, toMark, markVars, reachVars, funcs, calls, imported,
                 varImported, gvi, initAccess, typeImported, next>>

\* Mutant: functions are imported before the changed bodies are moved.
ImportFirst == IF pair.hasSource THEN "importFuncs" ELSE "done"

\* Without a source version genPatch ends here.
AfterUnguard == IF pair.hasSource THEN "genPatches" ELSE "done"

UnguardEnd ==
  /\ phase = "unguard"
  /\ pair.guardParts # {} => \A f \in funcsToMakeNonPatchable : body[f] # "guarded"
  /\ phase' = AfterUnguard
  /\ UNCHANGED <<pair, toMark, markVars, reachVars, genVars>>

\* Iterations of genPatches: remove the guard; a package init stays where it
\* is, the body of any other function moves to its method in PatchImpl and
\* its flag is enabled at the end of the guard variables' initialiser.
PatchInit ==
  /\ phase = "genPatches"
  /\ next <= Len(patchables)
  /\ patchables[next] \in Inits
  /\ body' = RemoveGuardChecks(patchables[next])
  /\ next' = next + 1
  /\ UNCHANGED <<pair, phase, toMark, markVars, reachVars, funcs, calls, imported,
                 vars, varImported, guardMethod, patchMethod, gvi, initAccess,
                 typeImported>>

\* Mutants: the flag is not enabled; the store goes to a variable that is named
\* after the flag instead of the function.
EnableNoFlag(f) == UNCHANGED gvi
EnableFlagOfFlag(f) == gvi' = Append(gvi, Flag(Flag(f)))

EnableGuardVarFlag(f) == gvi' = Append(gvi, Flag(f))

PatchFunc ==
  /\ phase = "genPatches"
  /\ next <= Len(patchables)
  /\ LET f == patchables[next]
     IN /\ f \notin Inits
        /\ IF body[f] = "guarded" /\ Flag(f) \in vars /\ patchMethod[f] # "none"
             THEN /\ body' = [body EXCEPT ![f] = "none"]
                  /\ patchMethod' = [patchMethod EXCEPT ![f] = "patch"]
                  /\ EnableGuardVarFlag(f)
                  /\ next' = next + 1
                  /\ UNCHANGED phase
             ELSE Fail /\ UNCHANGED <<body, patchMethod, gvi, next>>
  /\ UNCHANGED <<pair, toMark, markVars, reachVars, funcs, calls, imported, vars,
                 varImported, guardMethod, initAccess, typeImported>>

InstantiatePatchClass == gvi' = Append(gvi, <<"some">>)

\* genPatches' end: the instance is stored when at least one body was moved.
GenPatchesEnd ==
  /\ phase = "genPatches"
  /\ next > Len(patchables)
  /\ IF PatchableSet \subseteq Inits THEN UNCHANGED gvi ELSE InstantiatePatchClass
  /\ phase' = "importFuncs"
  /\ UNCHANGED <<pair, toMark, markVars, reachVars, funcs, body, calls, imported,
                 vars, varImported, guardMethod, patchMethod, initAccess,
                 typeImported, next>>

ImportFuncs ==
  /\ phase = "importFuncs"
  /\ body' = [f \in Func |-> IF f \in funcsToImport THEN "none" ELSE body[f]]
  /\ imported' = imported \cup funcsToImport
  /\ phase' = "importVars"
  /\ UNCHANGED <<pair, toMark, markVars, reachVars, funcs, calls, vars, varImported,
                 guardMethod, patchMethod, gvi, initAccess, typeImported, next>>

ImportVars ==
  /\ phase = "importVars"
  /\ varImported' = varsToImport
  /\ phase' = "importTypes"
  /\ UNCHANGED <<pair, toMark, markVars, reachVars, funcs, body, calls, imported,
                 vars, guardMethod, patchMethod, gvi, initAccess, typeImported, next>>

ImportTypes ==
  /\ phase = "importTypes"
  /\ typeImported' = typesToImport
  /\ phase' = "removeRedundant"
  /\ UNCHANGED <<pair, toMark, markVars, reachVars, funcs, body, calls, imported,
                 vars, varImported, guardMethod, patchMethod, gvi, initAccess, next>>

EmptyInitializers ==
  {f \in pair.initializer \cap pair.empty \cap pair.internal :
     f \notin imported /\ body[f] # "none"}

\* removeRedundantFunctions: empty initialisers the package inits apply go,
\* with these calls; then the functions marked as deleted.
RemoveRedundant ==
  /\ phase = "removeRedundant"
  /\ LET removed == EmptyInitializers \cap (calls[PackageInit] \cup calls[LiteralInit])
     IN /\ calls' = [f \in Func |-> IF f \in Inits THEN calls[f] \ removed ELSE calls[f]]
        /\ funcs' = funcs \ (removed \cup funcsToDelete)
  /\ phase' = "updateInits"
  /\ UNCHANGED <<pair, toMark, markVars, reachVars, body, imported, vars,
                 varImported, guardMethod, patchMethod, gvi, initAccess,
                 typeImported, next>>

UpdatePackageInits ==
  /\ phase = "updateInits"
  /\ IF pair.initAccess
       THEN initAccess' = "accessors" /\ phase' = "done"
       ELSE Fail /\ UNCHANGED initAccess
  /\ UNCHANGED <<pair, toMark, markVars, reachVars, funcs, body, calls, imported,
                 vars, varImported, guardMethod, patchMethod, gvi, typeImported, next>>

Terminated == phase \in {"done", "error"} /\ UNCHANGED vars_

Mark ==
  \/ MarkPackage
  \/ MarkTypes
  \/ \E f \in Func : MarkFunc(f)
  \/ MarkFuncsEnd
  \/ MarkFuncsAsNonPatchable
  \/ MarkVars

Reach ==
  \/ ReachRoot
  \/ \E c \in Func : ReachApply(c)
  \/ ReachReturn
  \/ ReachEnd

Gen ==
  \/ \E f \in Func : MakeNonPatchable(f)
  \/ UnguardEnd
  \/ PatchInit
  \/ PatchFunc
  \/ GenPatchesEnd
  \/ ImportFuncs
  \/ ImportVars
  \/ ImportTypes
  \/ RemoveRedundant
  \/ UpdatePackageInits

Next == Construct \/ Mark \/ Reach \/ Gen \/ Terminated

Spec == Init /\ [][Next]_vars_

\* patch-gen is one thread that nothing blocks.
FairSpec == Spec /\ WF_vars_(Construct \/ Mark \/ Reach \/ Gen)

-----------------------------------------------------------------------------
(* Properties                                                               *)

TypeOK ==
  /\ pair \in PackagePair /\ WellFormed(pair)
  /\ phase \in Phases
  /\ toMark \subseteq Func
  /\ typesToImport \subseteq TypeDef
  /\ funcsToImport \subseteq Func
  /\ funcsToMakeNonPatchable \subseteq Func
  /\ funcsToDelete \subseteq Func
  /\ varsToImport \subseteq Var
  /\ patchables \in Seq(Func)
  /\ root \in Nat \ {0}
  /\ stack \in Seq([func : Func, todo : SUBSET Func])
  /\ visited \subseteq Func
  /\ funcs \subseteq Func
  /\ body \in [Func -> {"none", "plain", "guarded"}]
  /\ calls \in [Func -> SUBSET Func]
  /\ imported \subseteq Func
  /\ vars \subseteq Var
  /\ varImported \subseteq Var
  /\ guardMethod \subseteq Func
  /\ patchMethod \in [Func -> {"none", "stub", "patch"}]
  /\ gvi \in Seq({Flag(f) : f \in Func} \cup {<<"none">>, <<"some">>})
  /\ initAccess \in {"flags", "accessors"}
  /\ typeImported \subseteq TypeDef
  /\ next \in Nat \ {0}

\* The INTERNAL functions the patchables reach through INTERNAL callees: the
\* least set that contains the patchables' and is closed.
ClosedUnderCalls(S) == \A f \in PatchableSet \cup S : InternalCallees(f) \subseteq S
Reachable == {c \in Func : \A S \in SUBSET Func : ClosedUnderCalls(S) => c \in S}

\* The code of every INTERNAL function a patchable reaches is in the patch:
\* neither deleted nor imported, its body in place, unless it is patchable
\* itself (markInternalFuncAsNonImportedAreReachableFromPatchable).
ReachableCodeKept ==
  phase = "done" =>
    \A c \in Reachable :
      /\ c \in funcs \/ c \in pair.initializer \cap pair.empty
      /\ c \notin PatchableSet => c \notin imported /\ (c \in pair.patchedBody => body[c] # "none")

\* The comment on markInternalFuncAsNonImportedAreReachableFromPatchable claims
\* more: the code of INTERNAL functions reachable from patchables is saved.
\* A patchable also reaches functions through functions that are new in the
\* patch and not INTERNAL; they exist only there.
Callees(f) ==
  {c \in pair.calls[f] : c \in pair.internal \/ c \in pair.patchedBody \ pair.source}
ReachableThroughNewCode ==
  {c \in Func : \A S \in SUBSET Func :
     (\A f \in PatchableSet \cup S : Callees(f) \subseteq S) => c \in S}
ReachableThroughNewCodeKept ==
  phase = "done" =>
    \A c \in (ReachableThroughNewCode \cap pair.internal) \ PatchableSet :
      c \notin imported

\* The changed functions, which a patch has to replace.
Changed == {f \in pair.source \ pair.initializer : f \in pair.sourceBody \cap pair.differ}
EnabledFlags == {f \in Func : \E i \in 1..Len(gvi) : gvi[i] = Flag(f)}

\* A patch replaces exactly the changed functions: their flags, and no other,
\* are enabled; each flag is the base's own variable, tested by the guard of
\* the base's function, and its PatchImpl method has the new body and is not
\* the throwing stub.  The initialiser of the guard variables resets the guard
\* variable first and, when it enables a flag, stores the instance last.
FlagsMatchPatches ==
  phase = "done" /\ pair.hasSource =>
    /\ EnabledFlags = Changed
    /\ gvi[1] = <<"none">>
    /\ EnabledFlags # {} => gvi[Len(gvi)] = <<"some">>
    /\ \A i \in 2..Len(gvi) - 1 : gvi[i] \notin {<<"none">>, <<"some">>}
    /\ EnabledFlags = {f \in Func : patchMethod[f] = "patch"}
    /\ \A f \in EnabledFlags :
         /\ f \in pair.sourceGuarded
         /\ {Flag(f), GuardVar} \subseteq vars \cap varImported
         /\ f \in guardMethod

\* No function stays in the patch as its own code without a body ("we have
\* unimported F without body, so we want to avoid such situations").
NoBodilessFunction ==
  phase = "done" =>
    \A f \in (funcs \cap pair.patchedBody) \ imported : body[f] # "none"

\* Code that stays guarded in the patch finds the flag and the guard method
\* its guard uses; a patchable function of the patch only is guarded no more.
GuardsResolve ==
  phase = "done" =>
    \A f \in funcs \ (imported \cup Inits) :
      body[f] = "guarded" =>
        /\ f \in pair.source
        /\ Flag(f) \in vars
        /\ f \in guardMethod
        /\ patchMethod[f] = "stub"

\* A patch is refused exactly when it could not be applied: a function of the
\* base is gone, or changed without being patchable, or is no longer the same
\* kind of function; a type or a variable is gone; the inputs do not match.
CannotApply ==
  \/ pair.guardParts \notin {{}, GuardParts}
  \/ ~pair.exception
  \/ pair.guardParts # {} /\ ~pair.patchClass
  \/ /\ pair.hasSource
     /\ \/ ~pair.sameName \/ ~pair.initAccess
        \/ ~(pair.sourceType \cap pair.importable \subseteq pair.patchedType)
        \/ ~(pair.sourceVar \subseteq pair.patchedVar)
        \/ ~(pair.source \ pair.initializer \subseteq pair.patched)
        \/ ~(Changed \subseteq pair.sourceGuarded)
        \/ \E f \in pair.source \ pair.initializer :
             \/ f \in pair.sourceBody \cap pair.attrsDiffer
             \/ ~(f \in pair.sourceBody <=> f \in pair.patchedBody)
             \/ ~(f \in pair.sourceGuarded <=> f \in pair.patchedGuarded)

RefusedIffCannotApply ==
  /\ phase = "done" => ~CannotApply
  /\ phase = "error" => CannotApply

\* A body is dropped only when the base has that function, and a changed body
\* only after (or as) it was moved to PatchImpl: no step loses new code.
NewCodeNotLost ==
  [][\A f \in pair.patchedBody :
       body[f] # "none" /\ body'[f] = "none" =>
         /\ f \in pair.source
         /\ f \in Changed => patchMethod'[f] = "patch"]_vars_

\* patch-gen ends on every pair, recursive and mutually recursive functions
\* included.  No function is searched below itself, however the bodies call each
\* other, but the patchable a search starts from: the recursion of the search is at
\* most one deeper than the package has INTERNAL functions.
Termination ==
  /\ [](\A i, j \in 2..Len(stack) :
          stack[i].func \in pair.internal /\ (stack[i].func = stack[j].func => i = j))
  /\ <>(phase \in {"done", "error"})
=============================================================================
