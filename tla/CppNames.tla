----------------------------- MODULE CppNames -----------------------------
(***************************************************************************)
(* The names under which patch-gen looks for what cjc-plugin generated     *)
(* (PatchableName of PatchGen.h), written down independently of CjNames:   *)
(* the two programs share no code, only these names.                       *)
(***************************************************************************)
EXTENDS Tokens

CONSTANT TypeName(_)       \* ToCjQualifiedName

GuardClassSuffix == <<"$", "GC">>
GuardFuncSuffix  == <<"$", "GF">>

\* The suffixes, by what they name; those of package inits stand for themselves.
Suffix ==
  [ guardClass |-> <<"$", "Patch", "$", "GC">>,
    guardVar   |-> <<"$", "GV">>,
    guardVarFlag |-> <<"$", "GVF">> ]
PackageInitSuffix ==
  [ guardClass   |-> <<"$", "PackageInitPatch", "$", "GC">>,
    guardVar     |-> <<"$", "packageInit", "$", "GV">>,
    guardVarFlag |-> <<"$", "packageInit", "$", "GVF">>,
    initializer  |-> <<"$", "GVI">> ]

Insert(name, pos, part) == SubSeq(name, 1, pos) \o part \o SubSeq(name, pos + 1, Len(name))

ClassPart(n, classSuffix) ==
  IF n.class = <<>> THEN <<>> ELSE <<"$">> \o n.class[1] \o classSuffix

FuncPartWithoutParams(n) ==
  IF n.func = <<>> THEN <<>> ELSE <<"$">> \o n.func[1]

FuncPart(n) ==
  IF n.func = <<>> THEN <<>>
  ELSE <<"$">> \o n.func[1]
         \o (IF n.params = <<>> THEN <<>>
             ELSE <<"$", "$">> \o Joined([i \in DOMAIN n.params |-> TypeName(n.params[i])], <<"$", "_">>))

\* The parts of package inits are named after the package.
PackageOnly(n) == [package |-> n.package, class |-> <<>>, func |-> <<>>, params |-> <<>>]

GenName(n, classSuffix, suffix) ==
  <<"$">> \o n.package \o ClassPart(n, classSuffix) \o FuncPart(n) \o suffix

Part(n, part, forPackageInit) ==
  IF forPackageInit
    THEN GenName(PackageOnly(n), GuardClassSuffix, PackageInitSuffix[part])
    ELSE GenName(n, GuardClassSuffix, Suffix[part])

GenPatchClassName(n) ==
  IF n.class = <<>> THEN <<"$", "PatchImpl", "$", "GC">>
  ELSE Insert(n.class[1], Len(n.class[1]) - Len(GuardClassSuffix), <<"Impl">>)

GenSyntheticCtorName(n) == GenName(n, <<"$">>, <<"$", "CTOR">>)

GenPackageInitFlagAccessor(n, kind, isGetter) ==
  LET part == CASE kind = "packageInit" /\ isGetter         -> "packageInitGetter"
                [] kind = "packageInit" /\ ~isGetter        -> "packageInitSetter"
                [] kind = "packageLiteralInit" /\ isGetter  -> "packageLiteralInitGetter"
                [] kind = "packageLiteralInit" /\ ~isGetter -> "packageLiteralInitSetter"
  IN  GenName(n, <<>>, <<part>> \o GuardFuncSuffix)

GuardMethodPlain(n) ==
  Insert(GenName(n, GuardClassSuffix, GuardFuncSuffix), Len(n.package) + 1, Suffix.guardClass)

GenGuardMethodName(n, kind) ==
  LET ofInit(name) == GenName(PackageOnly(n),
                              GuardClassSuffix,
                              PackageInitSuffix.guardClass \o <<"$", name>> \o GuardFuncSuffix)
  IN  CASE kind = "Plain"              -> GuardMethodPlain(n)
        [] kind = "PackageInitCtor"    -> ofInit("<init>")
        [] kind = "PackageInit"        -> ofInit("packageInit")
        [] kind = "PackageLiteralInit" -> ofInit("packageLiteralInit")

GenGuardClassName(n, forPackageInit)   == Part(n, "guardClass", forPackageInit)
GenGuardVarName(n, forPackageInit)     == Part(n, "guardVar", forPackageInit)
GenGuardVarFlagName(n, forPackageInit) == Part(n, "guardVarFlag", forPackageInit)
GenGuardVarInitializedName(n)          == Part(n, "initializer", TRUE)
=============================================================================
