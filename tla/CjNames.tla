------------------------------ MODULE CjNames ------------------------------
(***************************************************************************)
(* The names that cjc-plugin generates (PatchableName of                   *)
(* plugin_context.cj).  A PatchableName is a record; its class and its     *)
(* function are there or not, <<c>> or <<>>.  The names of types come from *)
(* the compiler's library.                                                 *)
(***************************************************************************)
EXTENDS Tokens

CONSTANT TypeName(_)       \* Type.qualifiedName

D == <<"$">>
PARAM_START == <<"$", "$">>
AUX_DELIMITER == <<"$", "_">>

GUARD_CLASS_SUFFIX    == D \o <<"GC">>
GUARD_VAR_SUFFIX      == D \o <<"GV">>
GUARD_VAR_FLAG_SUFFIX == D \o <<"GVF">>
GUARD_FUNC_SUFFIX     == D \o <<"GF">>

GUARD_VARS_INITIALIZER_NAME == D \o <<"GVI">>
GUARD_CLASS_NAME == D \o <<"Patch">> \o GUARD_CLASS_SUFFIX
PACKAGE_INIT_GUARD_CLASS_NAME == D \o <<"PackageInitPatch">> \o GUARD_CLASS_SUFFIX
PACKAGE_INIT_GUARD_VAR_NAME   == D \o <<"packageInit">> \o GUARD_VAR_SUFFIX
PACKAGE_INIT_GUARD_VAR_FLAG_NAME == D \o <<"packageInit">> \o GUARD_VAR_FLAG_SUFFIX
PackageInitMethod(name) ==
  PACKAGE_INIT_GUARD_CLASS_NAME \o D \o <<name>> \o GUARD_FUNC_SUFFIX

Name(package, class, func, params) ==
  [package |-> package, class |-> class, func |-> func, params |-> params]
PackageName(package) == Name(package, <<>>, <<>>, <<>>)

QualifiedName(n) ==
  n.package \o (IF n.class = <<>> THEN <<>> ELSE <<".">> \o n.class[1])
            \o (IF n.func = <<>> THEN <<>> ELSE <<".">> \o n.func[1])

Params(params) ==
  IF params = <<>> THEN <<>>
  ELSE PARAM_START \o Joined([i \in DOMAIN params |-> TypeName(params[i])], AUX_DELIMITER)

GenNameWith(n, classSuffix, suffix) ==
  D \o n.package
    \o (IF n.class = <<>> THEN <<>> ELSE D \o n.class[1] \o classSuffix)
    \o (IF n.func = <<>> THEN <<>> ELSE D \o n.func[1] \o Params(n.params))
    \o suffix

OfPackage(n, suffix) == GenNameWith(PackageName(n.package), GUARD_CLASS_SUFFIX, suffix)
OfPatchable(n, suffix) == GenNameWith(n, GUARD_CLASS_SUFFIX, suffix)

GenPatchClassName(n) ==
  IF n.class = <<>> THEN D \o <<"PatchImpl">> \o GUARD_CLASS_SUFFIX
  ELSE LET pos == Len(n.class[1]) - Len(GUARD_CLASS_SUFFIX)
       IN  SubSeq(n.class[1], 1, pos) \o <<"Impl">> \o SubSeq(n.class[1], pos + 1, Len(n.class[1]))

GenSyntheticCtorName(n) == GenNameWith(n, D, D \o <<"CTOR">>)

Accessor == [ packageInit |-> <<"packageInitGetter", "packageInitSetter">>,
              packageLiteralInit |-> <<"packageLiteralInitGetter", "packageLiteralInitSetter">> ]

GenPackageInitFlagAccessor(n, kind, isGetter) ==
  GenNameWith(n, <<>>, <<Accessor[kind][IF isGetter THEN 1 ELSE 2]>> \o GUARD_FUNC_SUFFIX)

\* The name of the guard class goes behind the package.
GuardMethodPlain(n) ==
  LET name == OfPatchable(n, GUARD_FUNC_SUFFIX)
      pos  == Len(n.package) + 1
  IN  SubSeq(name, 1, pos) \o GUARD_CLASS_NAME \o SubSeq(name, pos + 1, Len(name))

GenGuardMethodName(n, kind) ==
  CASE kind = "Plain"              -> GuardMethodPlain(n)
    [] kind = "PackageInitCtor"    -> OfPackage(n, PackageInitMethod("<init>"))
    [] kind = "PackageInit"        -> OfPackage(n, PackageInitMethod("packageInit"))
    [] kind = "PackageLiteralInit" -> OfPackage(n, PackageInitMethod("packageLiteralInit"))

GenGuardClassName(n, forPackageInit) ==
  IF forPackageInit THEN OfPackage(n, PACKAGE_INIT_GUARD_CLASS_NAME)
                    ELSE OfPatchable(n, GUARD_CLASS_NAME)

GenGuardVarName(n, forPackageInit) ==
  IF forPackageInit THEN OfPackage(n, PACKAGE_INIT_GUARD_VAR_NAME)
                    ELSE OfPatchable(n, GUARD_VAR_SUFFIX)

FlagNameWithoutClass(n, forPackageInit) ==
  IF forPackageInit THEN OfPackage(n, PACKAGE_INIT_GUARD_VAR_FLAG_NAME)
                    ELSE GenNameWith([n EXCEPT !.class = <<>>], GUARD_CLASS_SUFFIX, GUARD_VAR_FLAG_SUFFIX)

GenGuardVarFlagName(n, forPackageInit) ==
  IF forPackageInit THEN OfPackage(n, PACKAGE_INIT_GUARD_VAR_FLAG_NAME)
                    ELSE OfPatchable(n, GUARD_VAR_FLAG_SUFFIX)

GenGuardVarInitializedName(n) == OfPackage(n, GUARD_VARS_INITIALIZER_NAME)

\* Patchable.sortKey: the qualified name and the names of the parameters' types.
SortKey(n) ==
  <<QualifiedName(n), Len(n.params), [i \in DOMAIN n.params |-> TypeName(n.params[i])]>>
=============================================================================
