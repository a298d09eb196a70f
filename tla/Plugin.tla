------------------------------- MODULE Plugin -------------------------------
(***************************************************************************)
(* cjc-plugin on one package: the passes of EntryPoint.run, the lookups    *)
(* they start with (plugin_context.cj), the selection of patchables        *)
(* (patchable_finder.cj), what Patcher adds to the package (patcher.cj)    *)
(* and what the stub patcher of the tests does with it (patcher_stub.cj).  *)
(*                                                                         *)
(* The package is edited in place.  A failed lookup or check throws, run   *)
(* does not catch, and the compiler has no package to go on with: phase    *)
(* "failed".  What becomes of one body is in GuardChecks; here a body is   *)
(* the number of successors of its entry, whether it is guarded, by which  *)
(* flag and method, and whether it only throws.  Names are those of        *)
(* CjNames.                                                                *)
(***************************************************************************)
EXTENDS CjNames, FiniteSets

CONSTANTS Pkg          \* the name of the package, a sequence of tokens

ASSUME PackageAssumption == Pkg \in Seq(ToSet(Pkg))

\* What findPatchables skips: no body, imported or of another package,
\* initialiser, annotation factory, struct constructor, mut method.
Attr == {"none", "no body", "imported", "initializer", "annotation factory",
         "struct constructor", "mut"}
\* What a lookup may not find.
Lookup == {"Option", "String", "Object", "Exception", "Exception.init",
           "$has_applied_pkg_init_func", "packageInit shape", "literalInit",
           "literalInit shape", "has_invoked_pkg_init_literal", "println"}

\* A function as the compiler hands it over; a source record is
\* [functions, annotatedClasses, patchAll, throwStubs, stubTest, missing].
\* stub maps the patch method of a function to a function of the package, by its
\* index; 0 is no entry in the stub map, an index beyond the package a missing one.
Fn(class, func, params) ==
  [ class |-> class, func |-> << <<func>> >>, params |-> params, attr |-> "none", anno |-> FALSE,
    ctor |-> FALSE, successors |-> 1, unit |-> TRUE, stub |-> 0 ]

Own(f) ==
  [ name |-> Name(Pkg, f.class, f.func, f.params), attr |-> f.attr, anno |-> f.anno,
    ctor |-> f.ctor, successors |-> f.successors, unit |-> f.unit,
    made |-> FALSE, guard |-> <<>>, body |-> IF f.attr = "no body" THEN "none" ELSE "own" ]

\* What the compiler hands over has no generated names; a name is a sequence.
IsSource(s) ==
  /\ s.functions \in Seq(ToSet(s.functions))
  /\ \A f \in ToSet(s.functions) :
       /\ f.stub \in Nat /\ f.attr \in Attr
       /\ f.func[1] \in Seq(ToSet(f.func[1])) /\ "$" \notin ToSet(f.func[1])
       /\ f.class # <<>> => f.class[1] \in Seq(ToSet(f.class[1])) /\ "$" \notin ToSet(f.class[1])

\* A function that the plugin adds: its generated name is its source name.
Made(class, name, body) ==
  [ name |-> Name(Pkg, class, <<name>>, <<>>), attr |-> IF body = "none" THEN "no body" ELSE "none",
    anno |-> FALSE, ctor |-> FALSE, successors |-> 0, unit |-> TRUE,
    made |-> TRUE, guard |-> <<>>, body |-> body ]

VARIABLES source, phase,
          regexp,           \* the filter: is there one, and which names does it select?
          functions,        \* pkg.functions
          classes,          \* generated classes: name -> the names of their methods
          globals,          \* generated globals, in order: name and initial value
          initGuarded,      \* the package inits that are guarded
          index,            \* the loops' position
          collected, seen,  \* of findPatchables: indices of functions, sort keys
          gvi               \* stores of the guard variables' initialiser; <<>>: not made

package == <<functions, classes, globals, initGuarded, gvi>>
vars == <<source, phase, regexp, package, index, collected, seen>>

Package == PackageName(Pkg)

\* The compiler calls run with a package in an environment.
InitOn(s) ==
  /\ source = s
  /\ phase = "context" /\ regexp = [given |-> FALSE, selects |-> {}]
  /\ functions = [i \in DOMAIN source.functions |-> Own(source.functions[i])]
  /\ classes = <<>> /\ globals = <<>> /\ initGuarded = {} /\ gvi = <<>>
  /\ index = 1 /\ collected = <<>> /\ seen = {}

Missing(L) == source.missing \cap L # {}

CreateContext ==
  /\ phase = "context"
  /\ phase' = IF Missing({"Option", "String", "Object", "Exception", "Exception.init"})
                THEN "failed" ELSE "filter"
  /\ UNCHANGED <<source, regexp, package, index, collected, seen>>

\* The filter is what formFilterByTomlDirective returns (EntryPoint); it cannot fail.
TakeFilter(filter) ==
  /\ phase = "filter"
  /\ regexp' = filter
  /\ phase' = "construct"
  /\ UNCHANGED <<source, package, index, collected, seen>>

-----------------------------------------------------------------------------
\* Patcher's constructor: guard class, variable, flag and guards of the package
\* inits, and the accessors to the flags that say whether they ran.

InitMethods == [i \in 1 .. 3 |->
  GenGuardMethodName(Package, <<"PackageInit", "PackageLiteralInit", "PackageInitCtor">>[i])]
InitGuardClass == GenGuardClassName(Package, TRUE)

Accessors ==
  [i \in 1 .. 4 |-> GenPackageInitFlagAccessor(Package,
     IF i <= 2 THEN "packageInit" ELSE "packageLiteralInit", i \in {1, 3})]

ConstructPatcher ==
  /\ phase = "construct"
  /\ IF Missing({"$has_applied_pkg_init_func", "packageInit shape", "literalInit",
                 "literalInit shape", "has_invoked_pkg_init_literal"})
       THEN /\ phase' = "failed"
            /\ UNCHANGED package
       ELSE /\ phase' = "find"
            /\ functions' = functions
                 \o [i \in 1 .. 3 |-> Made(<<InitGuardClass>>, InitMethods[i], "own")]
                 \o [i \in 1 .. 4 |-> Made(<<>>, Accessors[i], "own")]
            /\ classes' = << [name |-> InitGuardClass, methods |-> InitMethods] >>
            /\ globals' = << [name |-> GenGuardVarName(Package, TRUE), value |-> "initializer"],
                             [name |-> GenGuardVarFlagName(Package, TRUE), value |-> "false"] >>
            /\ initGuarded' = {"packageInit", "literalInit"}
            /\ UNCHANGED gvi
  /\ UNCHANGED <<source, regexp, index, collected, seen>>

-----------------------------------------------------------------------------
\* findPatchables

MatchesFilter(name) ==
  IF regexp.given THEN QualifiedName(name) \in regexp.selects
                         ELSE source.patchAll

Selected(f) ==
  \/ f.anno \/ MatchesFilter(f.name)
  \/ /\ f.name.class # <<>>
     /\ \/ f.name.class[1] \in source.annotatedClasses
        \/ MatchesFilter(Name(Pkg, f.name.class, <<>>, <<>>))

PluginMadeAccessors(f) == f.name.class = <<InitGuardClass>>

PluginMade(f) ==
  \/ f.name.func[1] \in {Accessors[i] : i \in 1 .. 4}
                           \cup {<<"$mainInvoke">>, GenGuardVarInitializedName(Package)}
  \/ f.name.class = <<InitGuardClass>>

EligibleStructConstructors(f) ==
  f.attr \in {"none", "struct constructor"} /\ ~PluginMade(f)

Eligible(f) == f.attr = "none" /\ ~PluginMade(f)

\* One iteration; of functions with the same sort key the first is taken.
FindPatchable ==
  /\ phase = "find" /\ index <= Len(functions)
  /\ LET f   == functions[index]
         key == SortKey(f.name)
     IN  IF Eligible(f) /\ Selected(f) /\ key \notin seen
           THEN seen' = seen \cup {key} /\ collected' = Append(collected, index)
           ELSE UNCHANGED <<seen, collected>>
  /\ index' = index + 1
  /\ UNCHANGED <<source, regexp, phase, package>>

Found ==
  /\ phase = "find" /\ index > Len(functions)
  /\ phase' = "patch" /\ index' = 1
  /\ UNCHANGED <<source, regexp, package, collected, seen>>

-----------------------------------------------------------------------------
\* patch, with replaceBodyWithThrow before it if HOTFIX_GEN_THROW_STUBS is set

GuardClass == GenGuardClassName(Package, FALSE)

\* Made by the first call of patch: the guard variables' initialiser, whose body is
\* the store of None into the guard variable, the abstract guard class, the variable.
WithInitializer(fs) == Append(fs, Made(<<>>, GenGuardVarInitializedName(Package), "own"))
NoneStore == [to |-> GenGuardVarName(Package, FALSE), value |-> "None"]

AddMethod(cs, class, method) ==
  [i \in DOMAIN cs |-> IF cs[i].name = class
                         THEN [cs[i] EXCEPT !.methods = Append(@, method)] ELSE cs[i]]

GuardOf(f) == [ flag |-> GenGuardVarFlagName(f.name, FALSE),
                method |-> GenGuardMethodName(f.name, "Plain") ]

\* Functions with different sort keys have flags and guard methods of their own, and
\* only packageInit() has the flag of the package inits (the property
\* NamesFollowSortKeys of Names).
PackageInitName == Name(Pkg, <<>>, << <<"packageInit">> >>, <<>>)

NamesApart(s) ==
  LET own == {Own(f) : f \in ToSet(s.functions)}
  IN  \A f \in own :
        /\ \A h \in own : SortKey(f.name) # SortKey(h.name) =>
             GuardOf(f).flag # GuardOf(h).flag /\ GuardOf(f).method # GuardOf(h).method
        /\ f.name # PackageInitName =>
             GuardOf(f).flag \notin {GenGuardVarName(Package, TRUE), GenGuardVarName(Package, FALSE),
                                     GenGuardVarFlagName(Package, TRUE)}

\* The guarded function, which tests the global at position g, its abstract guard
\* method and, for a constructor, its twin.
Patched(fs, i, g) ==
  LET f == fs[i]
  IN  [fs EXCEPT ![i].guard = <<g>>,
                 ![i].body = IF source.throwStubs THEN "throws" ELSE @]
        \o <<Made(<<>>, GuardOf(f).method, "none")>>
        \o (IF f.ctor THEN <<Made(f.name.class, GenSyntheticCtorName(f.name), "own")>> ELSE <<>>)

PatchWithoutFlag ==
  /\ phase = "patch" /\ index <= Len(collected)
  /\ LET i   == collected[index]
         new == gvi = <<>>
         cs  == IF new THEN Append(classes, [name |-> GuardClass, methods |-> <<>>]) ELSE classes
         gs  == IF new THEN Append(globals, [name |-> GenGuardVarName(Package, FALSE),
                                             value |-> "initializer"]) ELSE globals
         fs  == IF new THEN WithInitializer(functions) ELSE functions
     IN  IF fs[i].successors # 1
           THEN phase' = "failed" /\ UNCHANGED <<package, index>>
           ELSE /\ functions' = Patched(fs, i, IF new THEN Len(gs) + 1 ELSE Len(gs))
                /\ classes' = AddMethod(cs, GuardClass, GuardOf(fs[i]).method)
                /\ globals' = IF new THEN Append(gs, [name |-> GuardOf(fs[i]).flag, value |-> "false"])
                                     ELSE globals
                /\ gvi' = IF new THEN <<NoneStore>> ELSE gvi
                /\ index' = index + 1
                /\ UNCHANGED <<phase, initGuarded>>
  /\ UNCHANGED <<source, regexp, collected, seen>>

Patch ==
  /\ phase = "patch" /\ index <= Len(collected)
  /\ LET i   == collected[index]
         new == gvi = <<>>
         cs  == IF new THEN Append(classes, [name |-> GuardClass, methods |-> <<>>]) ELSE classes
         gs  == IF new THEN Append(globals, [name |-> GenGuardVarName(Package, FALSE),
                                             value |-> "initializer"]) ELSE globals
         fs  == IF new THEN WithInitializer(functions) ELSE functions
     IN  \* genGuardChecks throws unless the entry has a single successor
         IF ~source.throwStubs /\ fs[i].successors # 1
           THEN phase' = "failed" /\ UNCHANGED <<package, index>>
           ELSE /\ functions' = Patched(fs, i, Len(gs) + 1)
                /\ classes' = AddMethod(cs, GuardClass, GuardOf(fs[i]).method)
                /\ globals' = Append(gs, [name |-> GuardOf(fs[i]).flag, value |-> "false"])
                /\ gvi' = IF new THEN <<NoneStore>> ELSE gvi
                /\ index' = index + 1
                /\ UNCHANGED <<phase, initGuarded>>
  /\ UNCHANGED <<source, regexp, collected, seen>>

\* The methods of the patch class override those of the guard class; all throw.
PatchClass == GenPatchClassName(Name(Pkg, <<GuardClass>>, <<>>, <<>>))
MethodsOf(class) ==
  LET i == CHOOSE k \in DOMAIN classes : classes[k].name = class
  IN  classes[i].methods

GenPatchClass ==
  /\ phase = "patch" /\ index > Len(collected)
  /\ IF gvi = <<>>
       THEN UNCHANGED <<functions, classes>>
       ELSE /\ classes' = Append(classes, [name |-> PatchClass, methods |-> MethodsOf(GuardClass)])
            /\ functions' = functions \o
                 [i \in DOMAIN MethodsOf(GuardClass) |->
                    [Made(<<PatchClass>>, MethodsOf(GuardClass)[i], "throws")
                       EXCEPT !.unit = source.functions[collected[i]].unit]]
  /\ phase' = IF source.stubTest THEN "stub" ELSE "done"
  /\ index' = 1
  /\ UNCHANGED <<source, regexp, globals, initGuarded, gvi, collected, seen>>

-----------------------------------------------------------------------------
\* PatcherStub, under HOTFIX_STUB_TEST

InstanceStore == [to |-> GenGuardVarName(Package, FALSE), value |-> "instance"]
FlagStore(f) == [to |-> GuardOf(f).flag, value |-> "true"]

ConstructStub ==
  /\ phase = "stub"
  /\ IF Missing({"println"})
       THEN phase' = "failed" /\ UNCHANGED gvi
       ELSE /\ phase' = "stub patch"
            /\ gvi' = IF gvi = <<>> THEN gvi ELSE Append(gvi, InstanceStore)
  /\ UNCHANGED <<source, regexp, functions, classes, globals, initGuarded, index, collected, seen>>

\* Packages of this name test the package init, which gets a print of its own.
OnlyPackageInit == Pkg = <<"package_init">>

PatchMethodOf(f) ==
  CHOOSE k \in DOMAIN functions :
    functions[k].name.class = <<PatchClass>> /\ functions[k].name.func = <<GuardOf(f).method>>

\* The stub that the map gives moves its body to the patch method: it can serve once.
StubFails(i) ==
  LET f == functions[i]   stub == source.functions[i].stub
  IN  \/ ~functions[PatchMethodOf(f)].unit
      \/ stub # 0 /\ (stub > Len(source.functions) \/ functions[stub].body = "none")

Stubbed(i) ==
  LET stub == source.functions[i].stub
      k == PatchMethodOf(functions[i])
  IN  IF stub = 0 THEN [functions EXCEPT ![k].body = "stub"]
      ELSE [functions EXCEPT ![k].body = functions[stub].body, ![stub].body = "none"]

SkippedByStub(f) == OnlyPackageInit \/ f.name.func[1] = <<"main">>

StubPatch ==
  /\ phase = "stub patch" /\ index <= Len(collected)
  /\ LET i == collected[index]
     IN  IF SkippedByStub(functions[i])
           THEN index' = index + 1 /\ UNCHANGED <<phase, functions, gvi>>
         ELSE IF StubFails(i)
           THEN phase' = "failed" /\ UNCHANGED <<index, functions, gvi>>
         ELSE /\ functions' = Stubbed(i)
              /\ gvi' = Append(gvi, FlagStore(functions[i]))
              /\ index' = index + 1
              /\ UNCHANGED phase
  /\ UNCHANGED <<source, regexp, classes, globals, initGuarded, collected, seen>>

Stubs ==
  /\ phase = "stub patch" /\ index > Len(collected)
  /\ phase' = "done"
  /\ UNCHANGED <<source, regexp, package, index, collected, seen>>

\* All steps but TakeFilter.
PluginNext ==
  \/ CreateContext \/ ConstructPatcher \/ FindPatchable \/ Found \/ Patch
  \/ GenPatchClass \/ ConstructStub \/ StubPatch \/ Stubs

-----------------------------------------------------------------------------
\* Properties

Guarded(i) == functions[i].guard # <<>>
GuardedFunctions == {i \in DOMAIN functions : Guarded(i)}
HasClass(class) == \E k \in DOMAIN classes : classes[k].name = class

TypeOK ==
  /\ phase \in {"context", "filter", "construct", "find", "patch", "stub", "stub patch", "done", "failed"}
  /\ \A i \in DOMAIN functions :
       /\ functions[i].attr \in Attr
       /\ functions[i].body \in {"none", "own", "throws", "stub"}
       /\ functions[i].guard \in {<<>>} \cup {<<g>> : g \in DOMAIN globals}
  /\ \A k \in DOMAIN classes :
       ToSet(classes[k].methods) \subseteq {functions[i].name.func[1] : i \in DOMAIN functions}
  /\ \A g \in DOMAIN globals : globals[g].value \in {"initializer", "false"}
  /\ initGuarded \subseteq {"packageInit", "literalInit"}
  /\ index \in Nat /\ collected \in Seq(Nat)
  /\ \A k \in DOMAIN gvi : gvi[k].value \in {"None", "instance", "true"}

FlagsComeLast ==
  \A k \in DOMAIN gvi : gvi[k].value = "true" =>
    /\ \E j \in 1 .. k - 1 : gvi[j] = InstanceStore
    /\ ~\E j \in k .. Len(gvi) : gvi[j] = NoneStore
    /\ ~source.throwStubs =>
         \E i \in GuardedFunctions :
           FlagStore(functions[i]) = gvi[k] /\ functions[PatchMethodOf(functions[i])].body # "throws"

\* What a guarded function relies on is there: its flag, off and tested by no other
\* function; its method in the abstract guard class and, overridden, in the patch
\* class; the initialiser, which starts with None.  Without one nothing is there.
\* The stub patcher leaves the initialiser in an order in which no call can reach
\* the throwing branch: None, the instance, and only then a flag, whose method has
\* a body that does not throw.
GuardsComplete ==
  /\ FlagsComeLast
  /\ phase = "done" =>
       /\ gvi = <<>> <=> GuardedFunctions = {}
       /\ HasClass(GuardClass) <=> gvi # <<>>
       /\ gvi # <<>> => Head(gvi) = NoneStore
       /\ \A i \in GuardedFunctions :
            LET own == GuardOf(functions[i])   flag == globals[functions[i].guard[1]]
            IN  /\ flag = [name |-> own.flag, value |-> "false"]
                /\ \A k \in GuardedFunctions \ {i} : functions[k].guard # functions[i].guard
                /\ \A class \in {GuardClass, PatchClass} :
                     Cardinality({m \in DOMAIN MethodsOf(class) : MethodsOf(class)[m] = own.method}) = 1
                /\ \E k \in DOMAIN functions : functions[k].name.class = <<PatchClass>>
                                             /\ functions[k].name.func = <<own.method>>

\* The plugin gives up only on a package of which a lookup misses something, whose
\* function has no single block to guard, or that the stubs do not fit: it never
\* trips over the functions it added itself (the skips of findPatchables).
RefusesWithReason ==
  phase = "failed" =>
    \/ Missing(Lookup)
    \/ \E i \in DOMAIN source.functions :
         LET f == source.functions[i]
         IN  f.successors # 1 \/ (source.stubTest /\ (~f.unit \/ f.stub # 0))
=============================================================================
