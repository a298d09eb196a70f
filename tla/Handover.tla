------------------------------ MODULE Handover ------------------------------
(***************************************************************************)
(* What cjc-plugin made, as patch-gen finds it.  patch-gen gets the        *)
(* package in another process and knows only the names: it recognises a    *)
(* patchable function by the name of the flag its entry tests, and finds   *)
(* the flag, the classes, the methods and the accessors by asking for      *)
(* names it makes itself (CppNames).  Its model, PatchGen, takes for       *)
(* granted that each function has a flag, a method and the guard variable  *)
(* of its own; the properties here are what that rests on.                 *)
(***************************************************************************)
EXTENDS Plugin, SharedNames

CONSTANT None          \* nothing found: no position in a list

ASSUME NoneAssumption == None \notin Nat \ {0}

VARIABLES asked,       \* the function asked about
          parts,       \* PatchGen's constructor and updatePackageInits: what was found
          flag, patchMethod
          
lookup == <<asked, parts, flag, patchMethod>>

HandoverInitOn(s) == InitOn(s) /\ asked = None /\ parts = {} /\ flag = None /\ patchMethod = None

\* The first position of those with a name, as all of patch-gen's searches take it.
First(at) == IF at = {} THEN None ELSE Min(at)

Named(list, name) == First({i \in DOMAIN list : list[i].name = name})
FunctionNamed(name) == First({i \in DOMAIN functions : functions[i].name.func[1] = name})

PartNames ==
  [ guardVarsInitializer |-> FunctionNamed(Cpp!GenGuardVarInitializedName(Package)),
    guardClass |-> Named(classes, Cpp!GenGuardClassName(Package, FALSE)),
    guardVar   |-> Named(globals, Cpp!GenGuardVarName(Package, FALSE)),
    patchClass |-> Named(classes,
      Cpp!GenPatchClassName(Name(Pkg, <<Cpp!GenGuardClassName(Package, FALSE)>>, <<>>, <<>>))),
    initGetter |-> FunctionNamed(Cpp!GenPackageInitFlagAccessor(Package, "packageInit", TRUE)),
    initSetter |-> FunctionNamed(Cpp!GenPackageInitFlagAccessor(Package, "packageInit", FALSE)),
    literalGetter |-> FunctionNamed(Cpp!GenPackageInitFlagAccessor(Package, "packageLiteralInit", TRUE)),
    literalSetter |-> FunctionNamed(Cpp!GenPackageInitFlagAccessor(Package, "packageLiteralInit", FALSE)) ]

FindParts ==
  /\ phase = "done" /\ parts = {}
  /\ parts' = {p \in DOMAIN PartNames : PartNames[p] # None}
  /\ UNCHANGED <<vars, asked, flag, patchMethod>>

\* isPatchable: the entry tests a global of the flag's name.
IsPatchable(f) ==
  f.guard # <<>> /\ globals[f.guard[1]].name = Cpp!GenGuardVarFlagName(f.name, FALSE)

MethodNamedAnywhere(class, name) ==
  First({i \in DOMAIN functions : functions[i].name.func = <<name>>})

MethodNamed(class, name) ==
  First({i \in DOMAIN functions :
           functions[i].name.class = <<class>> /\ functions[i].name.func = <<name>>})

\* enableGuardVarFlag, removeGuardChecks and genPatches for one function.
AskFor(i) ==
  /\ parts # {} /\ asked = None /\ i \in DOMAIN source.functions /\ IsPatchable(functions[i])
  /\ asked' = i
  /\ flag' = Named(globals, Cpp!GenGuardVarFlagName(functions[i].name, FALSE))
  /\ patchMethod' = MethodNamed(PatchClass, Cpp!GenGuardMethodName(functions[i].name, "Plain"))
  /\ UNCHANGED <<vars, parts>>

Lookups == FindParts \/ \E i \in DOMAIN functions : AskFor(i)

-----------------------------------------------------------------------------
\* Properties

\* patch-gen accepts every package of the plugin: the guard parts are all there or
\* all missing (the check of its constructor), with the patch class, and so are the
\* accessors it replaces the package inits' flags by.  isPatchable recognises exactly
\* the functions that the plugin guarded, and of a function patch-gen finds the flag
\* that the function tests and the method that its guard calls: enabling a patch
\* redirects this function and no other.  A global packageInit() is left out: its
\* flag has the name of the package inits' flag.
OwnPartsFound ==
  /\ parts # {} =>
       /\ {"initGetter", "initSetter", "literalGetter", "literalSetter"} \subseteq parts
       /\ LET guards == {"guardVarsInitializer", "guardClass", "guardVar", "patchClass"}
          IN  guards \subseteq parts \/ guards \cap parts = {}
       /\ {"guardVar", "guardClass"} \cap parts # {} <=> GuardedFunctions # {}
  /\ phase = "done" => \A i \in DOMAIN functions : IsPatchable(functions[i]) <=> Guarded(i)
  /\ (asked # None /\ functions[asked].name # PackageInitName) =>
       /\ patchMethod # None
       /\ functions[patchMethod].name.class = <<PatchClass>>
       /\ functions[patchMethod].name.func = <<GuardOf(functions[asked]).method>>
       /\ flag = functions[asked].guard[1]
=============================================================================
