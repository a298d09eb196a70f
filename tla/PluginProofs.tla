---------------------------- MODULE PluginProofs ----------------------------
(***************************************************************************)
(* What the plugin made of a package: for every package, filter and set of *)
(* failing lookups, in every state of a compilation.                       *)
(*                                                                         *)
(* First the names: cjc-plugin and patch-gen make the same, for every      *)
(* function and however the compiler's library names types.  What the two  *)
(* write down differently are constants, put together token by token in    *)
(* CjNames and spelt out in CppNames.                                      *)
(*                                                                         *)
(* The invariant gives the package in closed form.  When Count of the      *)
(* collected functions are patched, the package has its own functions,     *)
(* the guards and accessors of the package inits, the initialiser, the     *)
(* methods and twins made so far and, from Base on, the methods of the     *)
(* patch class; the globals and the classes have a flag and a method for   *)
(* each patched function, in order.                                        *)
(*                                                                         *)
(* Then the lookups of patch-gen, and last what patching leaves alone and  *)
(* the types.                                                              *)
(***************************************************************************)
EXTENDS EntryPoint, NamePairs, SequenceTheorems, FiniteSetTheorems, TLAPS

-----------------------------------------------------------------------------
(***************************************************************************)
(* Short sequences.                                                        *)
(***************************************************************************)
LEMMA OneAndOne == ASSUME NEW a, NEW b PROVE <<a>> \o <<b>> = <<a, b>>
<1> DEFINE S == {a, b}
<1>1. <<a>> \in Seq(S) /\ <<b>> \in Seq(S) /\ <<a, b>> \in Seq(S)
  OBVIOUS
<1> HIDE DEF S
<1>2. /\ <<a>> \o <<b>> \in Seq(S) /\ Len(<<a>> \o <<b>>) = 2
      /\ \A i \in 1 .. 2 : (<<a>> \o <<b>>)[i] = IF i <= 1 THEN <<a>>[i] ELSE <<b>>[i - 1]
  BY <1>1, ConcatProperties
<1>3. \A i \in 1 .. 2 : (<<a>> \o <<b>>)[i] = <<a, b>>[i]
  BY <1>2
<1> QED  BY <1>1, <1>2, <1>3, SeqEqual

LEMMA TwoAndTwo == ASSUME NEW a, NEW b, NEW c, NEW d PROVE <<a, b>> \o <<c, d>> = <<a, b, c, d>>
<1> DEFINE S == {a, b, c, d}
<1>1. <<a, b>> \in Seq(S) /\ <<c, d>> \in Seq(S) /\ <<a, b, c, d>> \in Seq(S)
  OBVIOUS
<1> HIDE DEF S
<1>2. /\ <<a, b>> \o <<c, d>> \in Seq(S) /\ Len(<<a, b>> \o <<c, d>>) = 4
      /\ \A i \in 1 .. 4 : (<<a, b>> \o <<c, d>>)[i] = IF i <= 2 THEN <<a, b>>[i] ELSE <<c, d>>[i - 2]
  BY <1>1, ConcatProperties
<1>3. \A i \in 1 .. 4 : (<<a, b>> \o <<c, d>>)[i] = <<a, b, c, d>>[i]
  BY <1>2
<1> QED  BY <1>1, <1>2, <1>3, SeqEqual

-----------------------------------------------------------------------------
(***************************************************************************)
(* The suffixes.                                                           *)
(***************************************************************************)
LEMMA SuffixesSame ==
  /\ GUARD_CLASS_SUFFIX = Cpp!GuardClassSuffix
  /\ GUARD_FUNC_SUFFIX = Cpp!GuardFuncSuffix
  /\ GUARD_CLASS_NAME = Cpp!Suffix.guardClass
  /\ GUARD_VAR_SUFFIX = Cpp!Suffix.guardVar
  /\ GUARD_VAR_FLAG_SUFFIX = Cpp!Suffix.guardVarFlag
  /\ PACKAGE_INIT_GUARD_CLASS_NAME = Cpp!PackageInitSuffix.guardClass
  /\ PACKAGE_INIT_GUARD_VAR_NAME = Cpp!PackageInitSuffix.guardVar
  /\ PACKAGE_INIT_GUARD_VAR_FLAG_NAME = Cpp!PackageInitSuffix.guardVarFlag
  /\ GUARD_VARS_INITIALIZER_NAME = Cpp!PackageInitSuffix.initializer
<1>1. GUARD_CLASS_SUFFIX = <<"$", "GC">> /\ GUARD_FUNC_SUFFIX = <<"$", "GF">>
  BY OneAndOne DEF D, GUARD_CLASS_SUFFIX, GUARD_FUNC_SUFFIX
<1>2. GUARD_VAR_SUFFIX = <<"$", "GV">> /\ GUARD_VAR_FLAG_SUFFIX = <<"$", "GVF">>
  BY OneAndOne DEF D, GUARD_VAR_SUFFIX, GUARD_VAR_FLAG_SUFFIX
<1>3. GUARD_CLASS_NAME = <<"$", "Patch", "$", "GC">>
  <2>1. D \o <<"Patch">> = <<"$", "Patch">>
    BY OneAndOne DEF D
  <2> QED  BY <1>1, <2>1, TwoAndTwo DEF GUARD_CLASS_NAME
<1>4. PACKAGE_INIT_GUARD_CLASS_NAME = <<"$", "PackageInitPatch", "$", "GC">>
  <2>1. D \o <<"PackageInitPatch">> = <<"$", "PackageInitPatch">>
    BY OneAndOne DEF D
  <2> QED  BY <1>1, <2>1, TwoAndTwo DEF PACKAGE_INIT_GUARD_CLASS_NAME
<1>5. /\ PACKAGE_INIT_GUARD_VAR_NAME = <<"$", "packageInit", "$", "GV">>
      /\ PACKAGE_INIT_GUARD_VAR_FLAG_NAME = <<"$", "packageInit", "$", "GVF">>
  <2>1. D \o <<"packageInit">> = <<"$", "packageInit">>
    BY OneAndOne DEF D
  <2> QED  BY <1>2, <2>1, TwoAndTwo DEF PACKAGE_INIT_GUARD_VAR_NAME, PACKAGE_INIT_GUARD_VAR_FLAG_NAME
<1>6. GUARD_VARS_INITIALIZER_NAME = <<"$", "GVI">>
  BY OneAndOne DEF D, GUARD_VARS_INITIALIZER_NAME
<1> QED  BY <1>1, <1>2, <1>3, <1>4, <1>5, <1>6
         DEF Cpp!GuardClassSuffix, Cpp!GuardFuncSuffix, Cpp!Suffix, Cpp!PackageInitSuffix

LEMMA InitMethodSuffix ==
  ASSUME NEW name
  PROVE  PackageInitMethod(name) =
           Cpp!PackageInitSuffix.guardClass \o <<"$", name>> \o Cpp!GuardFuncSuffix
<1> DEFINE S == {"$", "PackageInitPatch", "GC", name}
           guardClass == <<"$", "PackageInitPatch", "$", "GC">>
<1>1. guardClass \in Seq(S) /\ <<"$">> \in Seq(S) /\ <<name>> \in Seq(S)
  OBVIOUS
<1>2. PACKAGE_INIT_GUARD_CLASS_NAME = guardClass /\ Cpp!PackageInitSuffix.guardClass = guardClass
  BY SuffixesSame DEF Cpp!PackageInitSuffix
<1>3. guardClass \o <<"$">> \o <<name>> = guardClass \o <<"$", name>>
  <2> HIDE DEF S, guardClass
  <2> QED  BY <1>1, ConcatAssociative, OneAndOne
<1> QED  BY <1>2, <1>3, SuffixesSame DEF PackageInitMethod, D

-----------------------------------------------------------------------------
(***************************************************************************)
(* A name, and what is made of it.                                         *)
(***************************************************************************)
LEMMA GenNameSame ==
  ASSUME NEW n, NEW classSuffix, NEW suffix
  PROVE  GenNameWith(n, classSuffix, suffix) = Cpp!GenName(n, classSuffix, suffix)
<1>1. \A names, delimiter : Joined(names, delimiter) = Cpp!Joined(names, delimiter)
  BY DEF Joined, Cpp!Joined, FlattenSeq, Cpp!FlattenSeq
<1> QED  BY <1>1
         DEF GenNameWith, D, Params, PARAM_START, AUX_DELIMITER, Cpp!GenName, Cpp!ClassPart, Cpp!FuncPart

LEMMA OfPackageSame ==
  ASSUME NEW n, NEW suffix
  PROVE  OfPackage(n, suffix) = Cpp!GenName(Cpp!PackageOnly(n), Cpp!GuardClassSuffix, suffix)
  BY GenNameSame, SuffixesSame DEF OfPackage, PackageName, Name, Cpp!PackageOnly

LEMMA OfPatchableSame ==
  ASSUME NEW n, NEW suffix
  PROVE  OfPatchable(n, suffix) = Cpp!GenName(n, Cpp!GuardClassSuffix, suffix)
  BY GenNameSame, SuffixesSame DEF OfPatchable

LEMMA PartsSame ==
  ASSUME NEW n, NEW forPackageInit \in BOOLEAN
  PROVE  /\ GenGuardVarFlagName(n, forPackageInit) = Cpp!GenGuardVarFlagName(n, forPackageInit)
         /\ GenGuardVarName(n, forPackageInit) = Cpp!GenGuardVarName(n, forPackageInit)
         /\ GenGuardClassName(n, forPackageInit) = Cpp!GenGuardClassName(n, forPackageInit)
         /\ GenGuardVarInitializedName(n) = Cpp!GenGuardVarInitializedName(n)
<1>1. \A part : Cpp!Part(n, part, TRUE) = OfPackage(n, Cpp!PackageInitSuffix[part])
  BY OfPackageSame DEF Cpp!Part
<1>2. \A part : Cpp!Part(n, part, FALSE) = OfPatchable(n, Cpp!Suffix[part])
  BY OfPatchableSame DEF Cpp!Part
<1>3. CASE forPackageInit
  BY <1>1, <1>3, SuffixesSame
  DEF GenGuardVarFlagName, Cpp!GenGuardVarFlagName, GenGuardVarName, Cpp!GenGuardVarName,
      GenGuardClassName, Cpp!GenGuardClassName, GenGuardVarInitializedName,
      Cpp!GenGuardVarInitializedName
<1>4. CASE ~forPackageInit
  BY <1>1, <1>2, <1>4, SuffixesSame
  DEF GenGuardVarFlagName, Cpp!GenGuardVarFlagName, GenGuardVarName, Cpp!GenGuardVarName,
      GenGuardClassName, Cpp!GenGuardClassName, GenGuardVarInitializedName,
      Cpp!GenGuardVarInitializedName
<1> QED  BY <1>3, <1>4

LEMMA MethodsSame ==
  ASSUME NEW n, NEW kind \in MethodKind
  PROVE  GenGuardMethodName(n, kind) = Cpp!GenGuardMethodName(n, kind)
<1>1. GuardMethodPlain(n) = Cpp!GuardMethodPlain(n)
  BY OfPatchableSame, SuffixesSame DEF GuardMethodPlain, Cpp!GuardMethodPlain, Cpp!Insert
<1>2. \A name : OfPackage(n, PackageInitMethod(name)) =
        Cpp!GenName(Cpp!PackageOnly(n), Cpp!GuardClassSuffix,
                    Cpp!PackageInitSuffix.guardClass \o <<"$", name>> \o Cpp!GuardFuncSuffix)
  BY OfPackageSame, InitMethodSuffix
<1> QED  BY <1>1, <1>2, Zenon DEF GenGuardMethodName, Cpp!GenGuardMethodName, MethodKind

LEMMA AccessorsSame ==
  ASSUME NEW n, NEW kind \in AccessorKind, NEW isGetter \in BOOLEAN
  PROVE  GenPackageInitFlagAccessor(n, kind, isGetter) = Cpp!GenPackageInitFlagAccessor(n, kind, isGetter)
<1>1. \A s : GenNameWith(n, <<>>, <<s>> \o GUARD_FUNC_SUFFIX) = Cpp!GenName(n, <<>>, <<s>> \o Cpp!GuardFuncSuffix)
  BY GenNameSame, SuffixesSame
<1> QED  BY <1>1 DEF GenPackageInitFlagAccessor, Cpp!GenPackageInitFlagAccessor, Accessor, AccessorKind

LEMMA PatchClassSame ==
  ASSUME NEW n, n.class # <<>>
  PROVE  GenPatchClassName(n) = Cpp!GenPatchClassName(n)
  BY SuffixesSame DEF GenPatchClassName, Cpp!GenPatchClassName, Cpp!Insert

LEMMA CtorSame ==
  ASSUME NEW n
  PROVE  GenSyntheticCtorName(n) = Cpp!GenSyntheticCtorName(n)
  BY GenNameSame, OneAndOne DEF GenSyntheticCtorName, Cpp!GenSyntheticCtorName, D

-----------------------------------------------------------------------------
\* For every function, and however types are named: the flag, the guard method, the
\* classes, the variable, its initialiser, the twin constructor and the accessors
\* that cjc-plugin makes have the names by which patch-gen asks for them.
THEOREM SameNamesAlways == PairsSpec => []SameNames
<1>1. SameNames
  <2> DEFINE p == PackageName(second.package)
             guardClass == Name(second.package, <<GenGuardClassName(p, FALSE)>>, <<>>, <<>>)
  <2>1. guardClass.class # <<>>
    BY DEF Name
  <2> HIDE DEF p, guardClass
  <2>2. /\ \A k \in MethodKind : GenGuardMethodName(second, k) = Cpp!GenGuardMethodName(second, k)
        /\ \A b \in BOOLEAN : GenGuardVarFlagName(second, b) = Cpp!GenGuardVarFlagName(second, b)
    BY MethodsSame, PartsSame
  <2>3. \A b \in BOOLEAN :
          /\ GenGuardVarName(p, b) = Cpp!GenGuardVarName(p, b)
          /\ GenGuardClassName(p, b) = Cpp!GenGuardClassName(p, b)
          /\ \A k \in AccessorKind :
               GenPackageInitFlagAccessor(p, k, b) = Cpp!GenPackageInitFlagAccessor(p, k, b)
    BY PartsSame, AccessorsSame
  <2>4. GenGuardVarInitializedName(p) = Cpp!GenGuardVarInitializedName(p)
    BY PartsSame
  <2>5. GenPatchClassName(guardClass) = Cpp!GenPatchClassName(guardClass)
    BY <2>1, PatchClassSame
  <2>6. GenSyntheticCtorName(second) = Cpp!GenSyntheticCtorName(second)
    BY CtorSame
  <2> QED  BY <2>2, <2>3, <2>4, <2>5, <2>6 DEF SameNames, p, guardClass
<1> QED  BY <1>1, PTL DEF PairsSpec

-----------------------------------------------------------------------------
(***************************************************************************)
(* Sequences, of whatever they have.                                       *)
(***************************************************************************)
IsSeq(s) == s \in Seq(ToSet(s))

LEMMA SeqOfAny == ASSUME NEW S, NEW s \in Seq(S) PROVE IsSeq(s)
<1>1. /\ Len(s) \in Nat /\ DOMAIN s = 1 .. Len(s) /\ s \in [1 .. Len(s) -> S]
  OBVIOUS
<1>2. \A i \in 1 .. Len(s) : s[i] \in ToSet(s)
  BY <1>1 DEF ToSet
<1>3. s \in [1 .. Len(s) -> ToSet(s)]
  BY <1>1, <1>2
<1> QED  BY <1>1, <1>3 DEF IsSeq

LEMMA SeqFacts ==
  ASSUME NEW s, IsSeq(s)
  PROVE  Len(s) \in Nat /\ DOMAIN s = 1 .. Len(s) /\ s = [i \in 1 .. Len(s) |-> s[i]]
  BY DEF IsSeq

LEMMA FunctionSeq ==
  ASSUME NEW k \in Nat, NEW f, f = [i \in 1 .. k |-> f[i]]
  PROVE  IsSeq(f) /\ Len(f) = k /\ DOMAIN f = 1 .. k
<1>1. DOMAIN f = 1 .. k
  OBVIOUS
<1>2. \A i \in 1 .. k : f[i] \in ToSet(f)
  BY <1>1 DEF ToSet
<1>3. f \in [1 .. k -> ToSet(f)]
  BY <1>2
<1> QED  BY <1>1, <1>3 DEF IsSeq

LEMMA SameSeq ==
  ASSUME NEW s, NEW t, IsSeq(s), IsSeq(t), Len(s) = Len(t), \A i \in 1 .. Len(s) : s[i] = t[i]
  PROVE  s = t
  BY SeqFacts

LEMMA SeqInUnion ==
  ASSUME NEW s, NEW t, IsSeq(s), IsSeq(t)
  PROVE  s \in Seq(ToSet(s) \cup ToSet(t)) /\ t \in Seq(ToSet(s) \cup ToSet(t))
  BY SeqMonotonic DEF IsSeq

\* u is s and then t.
IsConcat(u, s, t) ==
  /\ IsSeq(u) /\ Len(s) \in Nat /\ Len(t) \in Nat /\ Len(u) = Len(s) + Len(t)
  /\ \A i \in 1 .. Len(s) : u[i] = s[i]
  /\ \A i \in 1 .. Len(t) : u[Len(s) + i] = t[i]
  /\ \A i \in 1 .. Len(u) : i \in 1 .. Len(s) \/ \E k \in 1 .. Len(t) : i = Len(s) + k

LEMMA ConcatSeq == ASSUME NEW s, NEW t, IsSeq(s), IsSeq(t) PROVE IsConcat(s \o t, s, t)
<1> DEFINE u == s \o t
<1> DEFINE S == ToSet(s) \cup ToSet(t)
<1>1. s \in Seq(S) /\ t \in Seq(S)
  BY SeqInUnion
<1> HIDE DEF S
<1>2. /\ u \in Seq(S) /\ Len(u) = Len(s) + Len(t) /\ Len(s) \in Nat /\ Len(t) \in Nat
      /\ \A i \in 1 .. Len(s) + Len(t) : u[i] = IF i <= Len(s) THEN s[i] ELSE t[i - Len(s)]
  BY <1>1, ConcatProperties, LenProperties
<1>4. \A i \in 1 .. Len(s) + Len(t) : i \in 1 .. Len(s) \/ \E k \in 1 .. Len(t) : i = Len(s) + k
  <2> SUFFICES ASSUME NEW i \in 1 .. Len(s) + Len(t), i \notin 1 .. Len(s)
               PROVE  \E k \in 1 .. Len(t) : i = Len(s) + k
    OBVIOUS
  <2>1. i - Len(s) \in 1 .. Len(t) /\ i = Len(s) + (i - Len(s))
    BY <1>2
  <2> QED  BY <2>1
<1>5. \A i \in 1 .. Len(t) : u[Len(s) + i] = t[i]
  <2> SUFFICES ASSUME NEW i \in 1 .. Len(t) PROVE u[Len(s) + i] = t[i]
    OBVIOUS
  <2>1. Len(s) + i \in 1 .. Len(s) + Len(t) /\ ~(Len(s) + i <= Len(s)) /\ (Len(s) + i) - Len(s) = i
    BY <1>2
  <2> QED  BY <1>2, <2>1
<1>6. IsSeq(u)
  BY <1>2, SeqOfAny
<1> HIDE DEF u
<1>7. \A i \in 1 .. Len(s) : u[i] = s[i]
  BY <1>2
<1>8. IsConcat(u, s, t)
  BY <1>2, <1>4, <1>5, <1>6, <1>7 DEF IsConcat
<1> QED  BY <1>8 DEF u

LEMMA ConcatEmpty == ASSUME NEW s, IsSeq(s) PROVE s \o <<>> = s /\ <<>> \o s = s
  BY ConcatEmptySeq DEF IsSeq

\* u is s and then e.
IsAppend(u, s, e) ==
  /\ IsSeq(u) /\ Len(s) \in Nat /\ Len(u) = Len(s) + 1 /\ u[Len(s) + 1] = e
  /\ \A i \in 1 .. Len(s) : u[i] = s[i]

LEMMA AppendSeq == ASSUME NEW s, IsSeq(s), NEW e PROVE IsAppend(Append(s, e), s, e)
<1> DEFINE u == Append(s, e)
<1> DEFINE S == ToSet(s) \cup {e}
<1>1. s \in Seq(S) /\ e \in S
  BY SeqMonotonic DEF IsSeq
<1> HIDE DEF S
<1>2. u \in Seq(S) /\ Len(s) \in Nat
  BY <1>1
<1>3. IsSeq(u)
  BY <1>2, SeqOfAny
<1> QED  BY <1>1, <1>2, <1>3 DEF IsAppend

LEMMA ShortSeqs ==
  /\ IsSeq(<<>>) /\ Len(<<>>) = 0
  /\ \A a : IsSeq(<<a>>) /\ Len(<<a>>) = 1 /\ <<a>>[1] = a
  /\ \A a, b : IsSeq(<<a, b>>) /\ Len(<<a, b>>) = 2 /\ <<a, b>>[1] = a /\ <<a, b>>[2] = b
<1>1. IsSeq(<<>>)
  BY EmptySeq, SeqOfAny
<1>2. \A a : IsSeq(<<a>>)
  <2> SUFFICES ASSUME NEW a PROVE IsSeq(<<a>>)
    OBVIOUS
  <2>1. <<a>> \in Seq({a})
    OBVIOUS
  <2> QED  BY <2>1, SeqOfAny
<1>3. \A a, b : IsSeq(<<a, b>>)
  <2> SUFFICES ASSUME NEW a, NEW b PROVE IsSeq(<<a, b>>)
    OBVIOUS
  <2>1. <<a, b>> \in Seq({a, b})
    OBVIOUS
  <2> QED  BY <2>1, SeqOfAny
<1> QED  BY <1>1, <1>2, <1>3

LEMMA ExceptOfSeq ==
  ASSUME NEW s, IsSeq(s), NEW i \in DOMAIN s, NEW e
  PROVE  /\ IsSeq([s EXCEPT ![i] = e]) /\ Len([s EXCEPT ![i] = e]) = Len(s)
         /\ DOMAIN [s EXCEPT ![i] = e] = DOMAIN s
         /\ [s EXCEPT ![i] = e][i] = e
         /\ \A k \in DOMAIN s : k # i => [s EXCEPT ![i] = e][k] = s[k]
<1> DEFINE t == [s EXCEPT ![i] = e]
<1>1. t = [k \in 1 .. Len(s) |-> t[k]] /\ Len(s) \in Nat /\ DOMAIN s = 1 .. Len(s)
  BY SeqFacts
<1>2. t[i] = e /\ \A k \in DOMAIN s : k # i => t[k] = s[k]
  BY SeqFacts
<1> HIDE DEF t
<1>3. IsSeq(t) /\ Len(t) = Len(s) /\ DOMAIN t = DOMAIN s
  BY <1>1, FunctionSeq
<1> QED  BY <1>2, <1>3 DEF t

-----------------------------------------------------------------------------
(***************************************************************************)
(* The names of what the plugin makes.  They begin with "$", as no name of *)
(* the package does, and those of different things differ.                 *)
(***************************************************************************)
InitializerName == GenGuardVarInitializedName(Package)

LEMMA PairLengths ==
  ASSUME NEW s, NEW a, s = D \o <<a>>
  PROVE  IsSeq(s) /\ Len(s) = 2
<1>1. s = <<"$", a>>
  BY OneAndOne DEF D
<1> QED  BY <1>1, ShortSeqs

LEMMA SuffixLengths ==
  /\ IsSeq(D) /\ Len(D) = 1
  /\ IsSeq(GUARD_CLASS_SUFFIX) /\ Len(GUARD_CLASS_SUFFIX) = 2
  /\ IsSeq(GUARD_FUNC_SUFFIX) /\ Len(GUARD_FUNC_SUFFIX) = 2
  /\ IsSeq(GUARD_VAR_SUFFIX) /\ Len(GUARD_VAR_SUFFIX) = 2
  /\ IsSeq(GUARD_VAR_FLAG_SUFFIX) /\ Len(GUARD_VAR_FLAG_SUFFIX) = 2
  /\ IsSeq(GUARD_VARS_INITIALIZER_NAME) /\ Len(GUARD_VARS_INITIALIZER_NAME) = 2
<1>1. IsSeq(D) /\ Len(D) = 1
  BY ShortSeqs DEF D
<1> QED  BY <1>1, PairLengths
         DEF GUARD_CLASS_SUFFIX, GUARD_FUNC_SUFFIX, GUARD_VAR_SUFFIX, GUARD_VAR_FLAG_SUFFIX,
             GUARD_VARS_INITIALIZER_NAME

\* "$", a word and a suffix.
LEMMA WordLengths ==
  ASSUME NEW a, NEW suffix, IsSeq(suffix), Len(suffix) = 2
  PROVE  LET s == D \o <<a>> \o suffix IN IsSeq(s) /\ Len(s) = 4 /\ s[2] = a
<1> DEFINE t == <<"$", a>>
           s == t \o suffix
<1>1. D \o <<a>> = t
  BY OneAndOne DEF D
<1>2. IsSeq(t) /\ Len(t) = 2 /\ t[2] = a
  BY ShortSeqs
<1> HIDE DEF t
<1>3. IsConcat(s, t, suffix)
  BY <1>2, ConcatSeq
<1> HIDE DEF s
<1>4. IsSeq(s) /\ Len(s) = 4 /\ \A i \in 1 .. Len(t) : s[i] = t[i]
  BY <1>2, <1>3 DEF IsConcat
<1>5. 2 \in 1 .. Len(t)
  BY <1>2
<1>6. s[2] = a
  BY <1>2, <1>4, <1>5, Zenon
<1> QED  BY <1>1, <1>4, <1>6 DEF s

\* A name of the package's own things is "$", the package and a suffix.
LEMMA NameOfPackage ==
  ASSUME NEW classSuffix, NEW suffix, IsSeq(suffix), NEW s, s = GenNameWith(Package, classSuffix, suffix)
  PROVE  /\ IsSeq(s) /\ Len(Pkg) \in Nat /\ Len(s) = (1 + Len(Pkg)) + Len(suffix) /\ s[1] = "$"
         /\ \A i \in 1 .. Len(suffix) : s[(1 + Len(Pkg)) + i] = suffix[i]
<1>1. IsSeq(D) /\ Len(D) = 1 /\ D[1] = "$"
  BY ShortSeqs DEF D
<1>2. IsSeq(Pkg)
  BY PackageAssumption DEF IsSeq
<1>3. Package.package = Pkg /\ Package.class = <<>> /\ Package.func = <<>>
  BY DEF Package, PackageName, Name
<1> DEFINE p == D \o Pkg
<1>4. s = p \o <<>> \o <<>> \o suffix
  BY <1>3 DEF GenNameWith
<1>5. IsConcat(p, D, Pkg)
  BY <1>1, <1>2, ConcatSeq
<1> HIDE DEF p
<1>6. IsSeq(p) /\ Len(Pkg) \in Nat /\ Len(p) = 1 + Len(Pkg) /\ \A i \in 1 .. Len(D) : p[i] = D[i]
  BY <1>1, <1>5 DEF IsConcat
<1>7. s = p \o suffix
  BY <1>4, <1>6, ConcatEmpty
<1>8. IsConcat(s, p, suffix)
  BY <1>6, <1>7, ConcatSeq
<1>9. /\ IsSeq(s) /\ Len(s) = Len(p) + Len(suffix)
      /\ \A i \in 1 .. Len(p) : s[i] = p[i]
      /\ \A i \in 1 .. Len(suffix) : s[Len(p) + i] = suffix[i]
  BY <1>8 DEF IsConcat
<1>10. 1 \in 1 .. Len(D) /\ 1 \in 1 .. Len(p)
  BY <1>1, <1>6
<1>11. s[1] = "$"
  BY <1>1, <1>6, <1>9, <1>10, Zenon
<1> QED  BY <1>6, <1>9, <1>11

LEMMA MethodLengths ==
  ASSUME NEW a
  PROVE  IsSeq(PackageInitMethod(a)) /\ Len(PackageInitMethod(a)) = 8
<1> DEFINE g == PACKAGE_INIT_GUARD_CLASS_NAME
           x == <<a>>
           b == g \o D
           c == b \o x
           d == c \o GUARD_FUNC_SUFFIX
<1>1. IsSeq(g) /\ Len(g) = 4
  BY WordLengths, SuffixLengths DEF PACKAGE_INIT_GUARD_CLASS_NAME
<1>2. IsSeq(x) /\ Len(x) = 1
  BY ShortSeqs
<1>3. PackageInitMethod(a) = d
  BY DEF PackageInitMethod
<1> HIDE DEF g, x
<1>4. IsConcat(b, g, D)
  BY <1>1, SuffixLengths, ConcatSeq
<1> HIDE DEF b
<1>5. IsSeq(b) /\ Len(b) = 5
  BY <1>1, <1>4, SuffixLengths DEF IsConcat
<1>6. IsConcat(c, b, x)
  BY <1>2, <1>5, ConcatSeq
<1> HIDE DEF c
<1>7. IsSeq(c) /\ Len(c) = 6
  BY <1>2, <1>5, <1>6 DEF IsConcat
<1>8. IsConcat(d, c, GUARD_FUNC_SUFFIX)
  BY <1>7, SuffixLengths, ConcatSeq
<1> HIDE DEF d
<1>9. IsSeq(d) /\ Len(d) = 8
  BY <1>7, <1>8, SuffixLengths DEF IsConcat
<1> QED  BY <1>3, <1>9

\* Names of things of the package: their lengths tell most of them apart.
LEMMA PackageParts ==
  /\ \A n, s : IsSeq(s) /\ n = OfPackage(Package, s) =>
       IsSeq(n) /\ Len(n) = (1 + Len(Pkg)) + Len(s) /\ "$" \in ToSet(n)
  /\ \A n, s : IsSeq(s) /\ n = OfPatchable(Package, s) =>
       IsSeq(n) /\ Len(n) = (1 + Len(Pkg)) + Len(s) /\ "$" \in ToSet(n)
  /\ Len(Pkg) \in Nat
<1>1. \A n, c, s : IsSeq(s) /\ n = GenNameWith(Package, c, s) =>
        IsSeq(n) /\ Len(n) = (1 + Len(Pkg)) + Len(s) /\ "$" \in ToSet(n)
  <2> SUFFICES ASSUME NEW n, NEW c, NEW s, IsSeq(s), n = GenNameWith(Package, c, s)
               PROVE  IsSeq(n) /\ Len(n) = (1 + Len(Pkg)) + Len(s) /\ "$" \in ToSet(n)
    OBVIOUS
  <2>1. IsSeq(n) /\ Len(Pkg) \in Nat /\ Len(n) = (1 + Len(Pkg)) + Len(s) /\ n[1] = "$"
    BY NameOfPackage
  <2>2. Len(s) \in Nat /\ DOMAIN n = 1 .. Len(n)
    BY <2>1, SeqFacts
  <2>3. 1 \in DOMAIN n
    BY <2>1, <2>2
  <2> QED  BY <2>1, <2>3 DEF ToSet
<1>2. PackageName(Package.package) = Package
  BY DEF Package, PackageName, Name
<1>3. Len(Pkg) \in Nat
  BY PackageAssumption, SeqFacts DEF IsSeq
<1> QED  BY <1>1, <1>2, <1>3 DEF OfPackage, OfPatchable

LEMMA LongSuffixes ==
  /\ IsSeq(GUARD_CLASS_NAME) /\ Len(GUARD_CLASS_NAME) = 4 /\ GUARD_CLASS_NAME[2] = "Patch"
  /\ IsSeq(PACKAGE_INIT_GUARD_CLASS_NAME) /\ Len(PACKAGE_INIT_GUARD_CLASS_NAME) = 4
  /\ PACKAGE_INIT_GUARD_CLASS_NAME[2] = "PackageInitPatch"
  /\ IsSeq(PACKAGE_INIT_GUARD_VAR_NAME) /\ Len(PACKAGE_INIT_GUARD_VAR_NAME) = 4
  /\ IsSeq(PACKAGE_INIT_GUARD_VAR_FLAG_NAME) /\ Len(PACKAGE_INIT_GUARD_VAR_FLAG_NAME) = 4
  BY SuffixLengths, WordLengths
  DEF GUARD_CLASS_NAME, PACKAGE_INIT_GUARD_CLASS_NAME, PACKAGE_INIT_GUARD_VAR_NAME,
      PACKAGE_INIT_GUARD_VAR_FLAG_NAME

LEMMA ClassNames ==
  /\ IsSeq(GuardClass) /\ IsSeq(InitGuardClass)
  /\ Len(GuardClass) = (1 + Len(Pkg)) + 4 /\ Len(InitGuardClass) = (1 + Len(Pkg)) + 4
  /\ GuardClass # InitGuardClass
  /\ "$" \in ToSet(GuardClass) /\ "$" \in ToSet(InitGuardClass)
<1>1. GuardClass = OfPatchable(Package, GUARD_CLASS_NAME)
  BY DEF GuardClass, GenGuardClassName
<1>2. InitGuardClass = OfPackage(Package, PACKAGE_INIT_GUARD_CLASS_NAME)
  BY DEF InitGuardClass, GenGuardClassName
<1>3. /\ IsSeq(GuardClass) /\ Len(GuardClass) = (1 + Len(Pkg)) + Len(GUARD_CLASS_NAME)
      /\ "$" \in ToSet(GuardClass)
  BY <1>1, LongSuffixes, PackageParts
<1>4. /\ IsSeq(InitGuardClass) /\ "$" \in ToSet(InitGuardClass)
      /\ Len(InitGuardClass) = (1 + Len(Pkg)) + Len(PACKAGE_INIT_GUARD_CLASS_NAME)
  BY <1>2, LongSuffixes, PackageParts
<1>5. /\ GuardClass = GenNameWith(Package, GUARD_CLASS_SUFFIX, GUARD_CLASS_NAME)
      /\ InitGuardClass = GenNameWith(Package, GUARD_CLASS_SUFFIX, PACKAGE_INIT_GUARD_CLASS_NAME)
  BY <1>1, <1>2 DEF OfPatchable, OfPackage, Package, PackageName, Name
<1>6. GuardClass # InitGuardClass
  <2>a. IsSeq(GUARD_CLASS_NAME) /\ IsSeq(PACKAGE_INIT_GUARD_CLASS_NAME)
    BY LongSuffixes
  <2>1. /\ \A i \in 1 .. Len(GUARD_CLASS_NAME) : GuardClass[(1 + Len(Pkg)) + i] = GUARD_CLASS_NAME[i]
        /\ \A i \in 1 .. Len(PACKAGE_INIT_GUARD_CLASS_NAME) :
              InitGuardClass[(1 + Len(Pkg)) + i] = PACKAGE_INIT_GUARD_CLASS_NAME[i]
    BY <1>5, <2>a, NameOfPackage
  <2>2. 2 \in 1 .. Len(GUARD_CLASS_NAME) /\ 2 \in 1 .. Len(PACKAGE_INIT_GUARD_CLASS_NAME)
    BY LongSuffixes
  <2>3. GuardClass[(1 + Len(Pkg)) + 2] = "Patch" /\ InitGuardClass[(1 + Len(Pkg)) + 2] = "PackageInitPatch"
    BY <2>1, <2>2, LongSuffixes, Zenon
  <2> DEFINE k == (1 + Len(Pkg)) + 2
  <2>4. GuardClass[k] = "Patch" /\ InitGuardClass[k] = "PackageInitPatch"
    BY <2>3
  <2> HIDE DEF k
  <2>5. GuardClass[k] # InitGuardClass[k]
    BY <2>4
  <2> QED  BY <2>5
<1> QED  BY <1>3, <1>4, <1>6, LongSuffixes

\* The patch class is named after the guard class, with one more token.
LEMMA PatchClassNames ==
  PatchClass # GuardClass /\ PatchClass # InitGuardClass /\ "$" \in ToSet(PatchClass)
<1> DEFINE n == Name(Pkg, <<GuardClass>>, <<>>, <<>>)
           m == Len(GuardClass)
           k == m - Len(GUARD_CLASS_SUFFIX)
           a == SubSeq(GuardClass, 1, k)
           b == SubSeq(GuardClass, k + 1, m)
           c == <<"Impl">>
           d == a \o c
           e == d \o b
<1>1. n.class # <<>> /\ n.class[1] = GuardClass
  BY DEF Name
<1>2. PatchClass = e
  BY <1>1 DEF PatchClass, GenPatchClassName
<1>3. IsSeq(GuardClass) /\ Len(Pkg) \in Nat /\ m = (1 + Len(Pkg)) + 4 /\ Len(GUARD_CLASS_SUFFIX) = 2
  BY ClassNames, PackageParts, SuffixLengths
<1>4. k \in Nat /\ m \in Nat /\ k = (1 + Len(Pkg)) + 2 /\ m - k = 2
  BY <1>3
<1> HIDE DEF n, m, k
<1>5. IsSeq(a) /\ Len(a) = k /\ \A i \in 1 .. k : a[i] = GuardClass[i]
  <2>1. GuardClass \in Seq(ToSet(GuardClass)) /\ k <= Len(GuardClass)
    BY <1>3, <1>4 DEF IsSeq, m
  <2>2. a \in Seq(ToSet(GuardClass)) /\ Len(a) = k /\ \A i \in 1 .. k : a[i] = GuardClass[i]
    BY <2>1, <1>4
  <2> QED  BY <2>2, SeqOfAny
<1>6. IsSeq(b) /\ Len(b) = 2
  <2>1. GuardClass \in Seq(ToSet(GuardClass)) /\ m = Len(GuardClass)
    BY <1>3 DEF IsSeq, m
  <2>2. b \in Seq(ToSet(GuardClass)) /\ Len(b) = 2
    BY <2>1, <1>4
  <2> QED  BY <2>2, SeqOfAny
<1> HIDE DEF a, b
<1>7. IsSeq(c) /\ Len(c) = 1
  BY ShortSeqs
<1> HIDE DEF c
<1>8. IsConcat(d, a, c)
  BY <1>5, <1>7, ConcatSeq
<1> HIDE DEF d
<1>9. IsSeq(d) /\ Len(d) = k + 1 /\ \A i \in 1 .. k : d[i] = GuardClass[i]
  BY <1>4, <1>5, <1>7, <1>8 DEF IsConcat
<1>10. IsConcat(e, d, b)
  BY <1>6, <1>9, ConcatSeq
<1> HIDE DEF e
<1>11. IsSeq(e) /\ Len(e) = m + 1 /\ \A i \in 1 .. k : e[i] = GuardClass[i]
  BY <1>4, <1>6, <1>9, <1>10 DEF IsConcat
<1>12. "$" \in ToSet(e)
  <2>1. GuardClass[1] = "$"
    BY SuffixLengths, LongSuffixes, NameOfPackage DEF GuardClass, GenGuardClassName, OfPatchable
  <2>2. 1 \in 1 .. k /\ 1 \in 1 .. Len(e)
    BY <1>3, <1>4, <1>11
  <2>3. DOMAIN e = 1 .. Len(e)
    BY <1>11, SeqFacts
  <2>4. e[1] = "$"
    BY <1>11, <2>1, <2>2, Zenon
  <2> QED  BY <2>2, <2>3, <2>4 DEF ToSet
<1>13. Len(e) # Len(GuardClass) /\ Len(e) # Len(InitGuardClass)
  BY <1>4, <1>11, ClassNames DEF m
<1> QED  BY <1>2, <1>12, <1>13

LEMMA FunctionNames ==
  /\ "$" \in ToSet(InitializerName)
  /\ \A i \in 1 .. 3 : InitMethods[i] # InitializerName
  /\ \A i \in 1 .. 4 : Accessors[i] # InitializerName /\ "$" \in ToSet(Accessors[i])
<1>1. /\ IsSeq(InitializerName) /\ Len(InitializerName) = (1 + Len(Pkg)) + Len(GUARD_VARS_INITIALIZER_NAME)
      /\ "$" \in ToSet(InitializerName)
  BY SuffixLengths, PackageParts DEF InitializerName, GenGuardVarInitializedName
<1>2. \A a : Len(OfPackage(Package, PackageInitMethod(a))) = (1 + Len(Pkg)) + Len(PackageInitMethod(a))
  BY MethodLengths, PackageParts
<1>3. \A i \in 1 .. 3 : \E a : InitMethods[i] = OfPackage(Package, PackageInitMethod(a))
  <2>1. /\ GenGuardMethodName(Package, "PackageInit") = OfPackage(Package, PackageInitMethod("packageInit"))
        /\ GenGuardMethodName(Package, "PackageLiteralInit")
             = OfPackage(Package, PackageInitMethod("packageLiteralInit"))
        /\ GenGuardMethodName(Package, "PackageInitCtor") = OfPackage(Package, PackageInitMethod("<init>"))
    BY DEF GenGuardMethodName
  <2> QED  BY <2>1 DEF InitMethods
<1>4. \A i \in 1 .. 3 : Len(InitMethods[i]) # Len(InitializerName)
  <2>1. Len(Pkg) \in Nat /\ Len(InitializerName) = (1 + Len(Pkg)) + 2
    BY <1>1, SuffixLengths, PackageParts
  <2>2. \A a : Len(OfPackage(Package, PackageInitMethod(a))) = (1 + Len(Pkg)) + 8
    BY <1>2, MethodLengths
  <2>3. \A i \in 1 .. 3 : Len(InitMethods[i]) = (1 + Len(Pkg)) + 8
    BY <1>3, <2>2, Zenon
  <2> QED  BY <2>1, <2>3
<1>5. \A x : IsSeq(<<x>> \o GUARD_FUNC_SUFFIX) /\ Len(<<x>> \o GUARD_FUNC_SUFFIX) = 3
  <2> SUFFICES ASSUME NEW x PROVE IsSeq(<<x>> \o GUARD_FUNC_SUFFIX) /\ Len(<<x>> \o GUARD_FUNC_SUFFIX) = 3
    OBVIOUS
  <2> DEFINE y == <<x>>
             z == y \o GUARD_FUNC_SUFFIX
  <2>1. IsSeq(y) /\ Len(y) = 1
    BY ShortSeqs
  <2> HIDE DEF y
  <2>2. IsConcat(z, y, GUARD_FUNC_SUFFIX)
    BY <2>1, SuffixLengths, ConcatSeq
  <2> HIDE DEF z
  <2>3. IsSeq(z) /\ Len(z) = 3
    BY <2>1, <2>2, SuffixLengths DEF IsConcat
  <2> QED  BY <2>3 DEF y, z
<1>6. \A x : Len(GenNameWith(Package, <<>>, <<x>> \o GUARD_FUNC_SUFFIX))
               = (1 + Len(Pkg)) + Len(<<x>> \o GUARD_FUNC_SUFFIX)
  <2> SUFFICES ASSUME NEW s, IsSeq(s)
               PROVE  Len(GenNameWith(Package, <<>>, s)) = (1 + Len(Pkg)) + Len(s)
    BY <1>5
  <2> QED  BY NameOfPackage
<1>7. \A i \in 1 .. 4 : \E x : Accessors[i] = GenNameWith(Package, <<>>, <<x>> \o GUARD_FUNC_SUFFIX)
  BY DEF Accessors, GenPackageInitFlagAccessor
<1>8. \A i \in 1 .. 4 : Len(Accessors[i]) # Len(InitializerName)
  <2>1. Len(Pkg) \in Nat /\ Len(InitializerName) = (1 + Len(Pkg)) + 2
    BY <1>1, SuffixLengths, PackageParts
  <2>2. \A x : Len(GenNameWith(Package, <<>>, <<x>> \o GUARD_FUNC_SUFFIX)) = (1 + Len(Pkg)) + 3
    BY <1>5, <1>6
  <2>3. \A i \in 1 .. 4 : Len(Accessors[i]) = (1 + Len(Pkg)) + 3
    BY <1>7, <2>2, Zenon
  <2> QED  BY <2>1, <2>3
<1>9. ASSUME NEW i \in 1 .. 4 PROVE "$" \in ToSet(Accessors[i])
  <2>1. PICK x : Accessors[i] = GenNameWith(Package, <<>>, <<x>> \o GUARD_FUNC_SUFFIX)
    BY <1>7
  <2> DEFINE s == <<x>> \o GUARD_FUNC_SUFFIX
             n == GenNameWith(Package, <<>>, s)
  <2>2. IsSeq(s)
    BY <1>5
  <2> HIDE DEF s
  <2>3. IsSeq(n) /\ n[1] = "$" /\ Len(Pkg) \in Nat /\ Len(s) \in Nat /\ Len(n) = (1 + Len(Pkg)) + Len(s)
    BY <2>2, NameOfPackage, SeqFacts
  <2>4. Accessors[i] = n
    BY <2>1 DEF s
  <2> HIDE DEF n
  <2>5. 1 \in DOMAIN n
    BY <2>3, SeqFacts
  <2> QED  BY <2>3, <2>4, <2>5 DEF ToSet
<1> QED  BY <1>1, <1>4, <1>8, <1>9

\* The guard variables: the package's own and those of the package inits.
LEMMA VariableNames ==
  /\ GenGuardVarName(Package, FALSE) # GenGuardVarName(Package, TRUE)
  /\ GenGuardVarName(Package, FALSE) # GenGuardVarFlagName(Package, TRUE)
<1>1. Len(GenGuardVarName(Package, FALSE)) = (1 + Len(Pkg)) + Len(GUARD_VAR_SUFFIX)
  BY SuffixLengths, PackageParts DEF GenGuardVarName
<1>2. /\ Len(GenGuardVarName(Package, TRUE)) = (1 + Len(Pkg)) + Len(PACKAGE_INIT_GUARD_VAR_NAME)
      /\ Len(GenGuardVarFlagName(Package, TRUE)) = (1 + Len(Pkg)) + Len(PACKAGE_INIT_GUARD_VAR_FLAG_NAME)
  BY LongSuffixes, PackageParts DEF GenGuardVarName, GenGuardVarFlagName
<1>3. Len(Pkg) \in Nat /\ Len(GUARD_VAR_SUFFIX) = 2
  BY SuffixLengths, PackageParts
<1>4. Len(PACKAGE_INIT_GUARD_VAR_NAME) = 4 /\ Len(PACKAGE_INIT_GUARD_VAR_FLAG_NAME) = 4
  BY LongSuffixes
<1> DEFINE a == GenGuardVarName(Package, FALSE)
           b == GenGuardVarName(Package, TRUE)
           c == GenGuardVarFlagName(Package, TRUE)
<1> HIDE DEF a, b, c
<1>5. Len(a) = (1 + Len(Pkg)) + 2
  BY <1>1, <1>3 DEF a
<1>6. Len(b) = (1 + Len(Pkg)) + 4 /\ Len(c) = (1 + Len(Pkg)) + 4
  BY <1>2, <1>4 DEF b, c
<1>7. a # b /\ a # c
  BY <1>3, <1>5, <1>6
<1> QED  BY <1>7 DEF a, b, c

-----------------------------------------------------------------------------
(***************************************************************************)
(* The package in closed form.                                             *)
(***************************************************************************)

\* The functions of the package itself, and the collected ones in order.
Given == Len(source.functions)
Source(i) == Own(source.functions[i])
Chosen(j) == Source(collected[j])
Method(j) == GuardOf(Chosen(j)).method

\* How many of the collected functions are patched.
Count ==
  IF phase \in {"context", "filter", "construct", "find"} THEN 0
  ELSE IF phase = "patch" THEN index - 1 ELSE Len(collected)

Constructed == phase \in {"find", "patch", "stub", "stub patch", "done"}
HasPatchClass == phase \in {"stub", "stub patch", "done"}

\* Where the methods of the patch class start.
Base == IF HasPatchClass THEN Len(functions) - Count ELSE Len(functions)

\* A function has the fields that the plugin gives it.
IsFn(f) ==
  f = [ name |-> f.name, attr |-> f.attr, anno |-> f.anno, ctor |-> f.ctor,
        successors |-> f.successors, unit |-> f.unit, made |-> f.made, guard |-> f.guard, body |-> f.body ]

SourceOK == IsSource(source) /\ NamesApart(source)

\* Of functions with the same sort key one is collected.
CollectedOK ==
  /\ IsSeq(collected) /\ \A j \in 1 .. Len(collected) : collected[j] \in 1 .. Given
  /\ seen = {SortKey(Chosen(j).name) : j \in 1 .. Len(collected)}
  /\ \A j, l \in 1 .. Len(collected) : j # l => SortKey(Chosen(j).name) # SortKey(Chosen(l).name)
  /\ index \in Nat \ {0}
  /\ phase = "patch" => index <= Len(collected) + 1

Untouched ==
  /\ functions = [i \in 1 .. Given |-> Source(i)]
  /\ classes = <<>> /\ globals = <<>> /\ gvi = <<>> /\ collected = <<>> /\ seen = {} /\ index = 1

\* The function at position k: its name, and what of it the plugin leaves alone.
FunctionOK(k) ==
  LET f == functions[k]
  IN  /\ IsFn(f)
      /\ k <= Given => /\ f.name = Source(k).name
                       /\ f.successors = Source(k).successors /\ f.unit = Source(k).unit
      /\ k > Given => f.unit \/ k > Base
      /\ k \in Given + 1 .. Given + 3 => f.name = Name(Pkg, <<InitGuardClass>>, <<InitMethods[k - Given]>>, <<>>)
      /\ k \in Given + 4 .. Given + 7 => f.name = Name(Pkg, <<>>, <<Accessors[k - (Given + 3)]>>, <<>>)
      /\ k = Given + 8 /\ Count > 0 => f.name = Name(Pkg, <<>>, <<InitializerName>>, <<>>)
      /\ k <= Base => f.name.class # <<PatchClass>>
      /\ k > Base => /\ f.name = Name(Pkg, <<PatchClass>>, <<Method(k - Base)>>, <<>>)
                     /\ f.unit = Chosen(k - Base).unit

FunctionsOK ==
  /\ IsSeq(functions)
  /\ Base \in Nat /\ Base >= Given + 7
  /\ IF Count = 0 THEN Base = Given + 7 ELSE Base >= Given + 8
  /\ \A k \in 1 .. Len(functions) : FunctionOK(k)

GuardsOK ==
  /\ \A k \in 1 .. Len(functions) : functions[k].guard # <<>> => \E j \in 1 .. Count : k = collected[j]
  /\ \A j \in 1 .. Count : functions[collected[j]].guard = <<3 + j>>

\* Only the methods of the patch class throw.
BodiesOK == source.throwStubs \/ \A k \in 1 .. Base : functions[k].body # "throws"

GlobalsOK ==
  /\ IsSeq(globals) /\ Len(globals) = IF Count = 0 THEN 2 ELSE 3 + Count
  /\ \A g \in 1 .. Len(globals) :
       /\ g <= 2 => globals[g].name \in {GenGuardVarName(Package, TRUE), GenGuardVarFlagName(Package, TRUE)}
       /\ g = 3 => globals[g].name = GenGuardVarName(Package, FALSE)
       /\ g > 3 => globals[g] = [name |-> GuardOf(Chosen(g - 3)).flag, value |-> "false"]

Methods == [j \in 1 .. Count |-> Method(j)]
InitPart  == [name |-> InitGuardClass, methods |-> InitMethods]
GuardPart == [name |-> GuardClass, methods |-> Methods]
PatchPart == [name |-> PatchClass, methods |-> Methods]

ClassesOK ==
  classes = IF Count = 0 THEN <<InitPart>>
            ELSE IF HasPatchClass THEN <<InitPart, GuardPart, PatchPart>> ELSE <<InitPart, GuardPart>>

\* A flag is stored behind the instance, and its method has got a body.
StoreOK(k) ==
  \E j \in 1 .. Count : /\ gvi[k] = FlagStore(Chosen(j))
                        /\ source.throwStubs \/ functions[Base + j].body # "throws"

StoresOK ==
  /\ IsSeq(gvi) /\ (gvi = <<>> <=> Count = 0)
  /\ \A k \in 1 .. Len(gvi) : /\ k = 1 => gvi[k] = NoneStore
                              /\ k = 2 => gvi[k] = InstanceStore
                              /\ k > 2 => StoreOK(k)
  /\ phase \in {"find", "patch", "stub"} => Len(gvi) <= 1
  /\ phase = "stub patch" /\ Count > 0 => Len(gvi) >= 2
  /\ phase \in {"stub", "stub patch"} => source.stubTest

PackageOK == FunctionsOK /\ GuardsOK /\ BodiesOK /\ GlobalsOK /\ ClassesOK /\ StoresOK

PluginInv ==
  /\ SourceOK /\ CollectedOK
  /\ phase \in {"context", "filter", "construct", "find", "patch", "stub", "stub patch", "done", "failed"}
  /\ phase \in {"context", "filter", "construct"} => Untouched
  /\ Constructed => PackageOK
  /\ phase = "failed" => RefusesWithReason /\ FlagsComeLast

-----------------------------------------------------------------------------
(***************************************************************************)
(* Functions, and what the plugin does to one.                             *)
(***************************************************************************)
LEMMA OwnFn ==
  ASSUME NEW f
  PROVE  /\ IsFn(Own(f)) /\ Own(f).guard = <<>> /\ Own(f).body \in {"none", "own"}
         /\ Own(f).name = Name(Pkg, f.class, f.func, f.params)
         /\ Own(f).successors = f.successors /\ Own(f).unit = f.unit
  BY DEF Own, IsFn

LEMMA SourceFns ==
  \A k : IsFn(Source(k)) /\ Source(k).guard = <<>> /\ Source(k).body # "throws"
<1>1. \A k : IsFn(Source(k)) /\ Source(k).guard = <<>> /\ Source(k).body \in {"none", "own"}
  BY OwnFn DEF Source
<1> QED  BY <1>1

\* f is a function that the plugin added.
IsMade(f, class, name, body) ==
  /\ IsFn(f) /\ f.guard = <<>> /\ f.body = body /\ f.unit = TRUE
  /\ f.name = Name(Pkg, class, <<name>>, <<>>)

LEMMA MadeFn == ASSUME NEW c, NEW n, NEW b PROVE IsMade(Made(c, n, b), c, n, b)
  BY DEF Made, IsFn, IsMade

\* h is f but for its guard, its body or whether it returns Unit.
Alike(h, f) == IsFn(h) /\ h.name = f.name /\ h.successors = f.successors

EditedTo(h, f, guard, body, unit) ==
  Alike(h, f) /\ h.guard = guard /\ h.body = body /\ h.unit = unit

LEMMA EditedFn ==
  ASSUME NEW f, IsFn(f), NEW g, NEW b, NEW u
  PROVE  /\ EditedTo([f EXCEPT !.guard = g, !.body = b], f, g, b, f.unit)
         /\ EditedTo([f EXCEPT !.body = b], f, f.guard, b, f.unit)
         /\ EditedTo([f EXCEPT !.unit = u], f, f.guard, f.body, u)
<1>1. ASSUME NEW h, h = [f EXCEPT !.guard = g, !.body = b]
      PROVE  EditedTo(h, f, g, b, f.unit)
  BY <1>1 DEF EditedTo, Alike, IsFn
<1>2. ASSUME NEW h, h = [f EXCEPT !.body = b]
      PROVE  EditedTo(h, f, f.guard, b, f.unit)
  BY <1>2 DEF EditedTo, Alike, IsFn
<1>3. ASSUME NEW h, h = [f EXCEPT !.unit = u]
      PROVE  EditedTo(h, f, f.guard, f.body, u)
  BY <1>3 DEF EditedTo, Alike, IsFn
<1> QED  BY <1>1, <1>2, <1>3, Zenon

\* No name of the package contains "$".
LEMMA SourceNames ==
  ASSUME SourceOK
  PROVE  /\ IsSeq(source.functions) /\ Given \in Nat
         /\ \A i \in 1 .. Given :
              /\ source.functions[i].stub \in Nat
              /\ Source(i).name.class # <<PatchClass>> /\ Source(i).name.class # <<InitGuardClass>>
              /\ Source(i).name.func[1] # InitializerName
<1>1. IsSeq(source.functions) /\ Given \in Nat /\ DOMAIN source.functions = 1 .. Given
  BY SeqFacts DEF SourceOK, IsSource, IsSeq, Given
<1>2. \A i \in 1 .. Given : source.functions[i] \in ToSet(source.functions)
  BY <1>1 DEF ToSet
<1> SUFFICES ASSUME NEW i \in 1 .. Given
             PROVE  /\ source.functions[i].stub \in Nat
                    /\ Source(i).name.class # <<PatchClass>> /\ Source(i).name.class # <<InitGuardClass>>
                    /\ Source(i).name.func[1] # InitializerName
  BY <1>1
<1> DEFINE f == source.functions[i]
<1>3. f.stub \in Nat /\ "$" \notin ToSet(f.func[1]) /\ (f.class # <<>> => "$" \notin ToSet(f.class[1]))
  BY <1>2 DEF SourceOK, IsSource
<1>4. Source(i).name.class = f.class /\ Source(i).name.func = f.func
  <2>1. Source(i).name = Name(Pkg, f.class, f.func, f.params)
    BY OwnFn DEF Source
  <2> QED  BY <2>1 DEF Name
<1> HIDE DEF f
<1>5. \A c : "$" \in ToSet(c) => f.class # <<c>>
  BY <1>3
<1> QED  BY <1>3, <1>4, <1>5, PatchClassNames, ClassNames, FunctionNames DEF f

\* The collected functions have different flags and methods.
LEMMA ChosenApart ==
  ASSUME SourceOK, CollectedOK
  PROVE  /\ Len(collected) \in Nat
         /\ \A j, l \in 1 .. Len(collected) : j # l =>
              Method(j) # Method(l) /\ GuardOf(Chosen(j)).flag # GuardOf(Chosen(l)).flag
         /\ \A j \in 1 .. Len(collected) : Chosen(j).name # PackageInitName =>
              GuardOf(Chosen(j)).flag \notin
                {GenGuardVarName(Package, TRUE), GenGuardVarName(Package, FALSE),
                 GenGuardVarFlagName(Package, TRUE)}
<1>1. DOMAIN source.functions = 1 .. Given
  BY SourceNames, SeqFacts DEF Given
<1>2. \A i \in 1 .. Given : Source(i) \in {Own(f) : f \in ToSet(source.functions)}
  BY <1>1 DEF ToSet, Source
<1>3. \A j \in 1 .. Len(collected) : Chosen(j) \in {Own(f) : f \in ToSet(source.functions)}
  BY <1>2 DEF CollectedOK, Chosen
<1>4. Len(collected) \in Nat
  BY SeqFacts DEF CollectedOK
<1> QED  BY <1>3, <1>4 DEF SourceOK, NamesApart, CollectedOK, Method

\* r is the functions fs, of which the ith is guarded, and some that were added.
PatchedTo(r, fs, i, g) ==
  /\ IsSeq(r) /\ Len(fs) \in Nat /\ Len(r) \in Nat /\ Len(r) > Len(fs)
  /\ \A k \in 1 .. Len(fs) :
       /\ IsFn(r[k]) /\ r[k].name = fs[k].name /\ r[k].successors = fs[k].successors
       /\ r[k].unit = fs[k].unit
       /\ r[k].guard = IF k = i THEN <<g>> ELSE fs[k].guard
       /\ source.throwStubs \/ r[k].body = fs[k].body
  /\ \A k \in 1 .. Len(r) : k > Len(fs) =>
       /\ IsFn(r[k]) /\ r[k].name.class \in {<<>>, fs[i].name.class}
       /\ r[k].unit /\ r[k].guard = <<>> /\ r[k].body # "throws"

LEMMA PatchedFns ==
  ASSUME NEW fs, IsSeq(fs), \A k \in 1 .. Len(fs) : IsFn(fs[k]), NEW i \in 1 .. Len(fs), NEW g,
         NEW r, r = Patched(fs, i, g)
  PROVE  PatchedTo(r, fs, i, g)
<1> DEFINE f == fs[i]
           b == IF source.throwStubs THEN "throws" ELSE f.body
           h == [f EXCEPT !.guard = <<g>>, !.body = b]
           s == [fs EXCEPT ![i] = h]
           m == Made(<<>>, GuardOf(f).method, "none")
           c == Made(f.name.class, GenSyntheticCtorName(f.name), "own")
           t == <<m>>
           u == IF f.ctor THEN <<c>> ELSE <<>>
           p == s \o t
<1>1. Len(fs) \in Nat /\ DOMAIN fs = 1 .. Len(fs)
  BY SeqFacts
<1>2. r = p \o u
  <2>1. [fs EXCEPT ![i].guard = <<g>>, ![i].body = IF source.throwStubs THEN "throws" ELSE @] = s
    OBVIOUS
  <2> QED  BY <2>1 DEF Patched
<1>3. EditedTo(h, f, <<g>>, b, f.unit)
  <2>1. IsFn(f)
    OBVIOUS
  <2> HIDE DEF f, b
  <2> QED  BY <2>1, EditedFn
<1>4. IsSeq(t) /\ Len(t) = 1 /\ \A k \in 1 .. Len(t) : t[k] = m
  BY ShortSeqs
<1>5. IsSeq(u) /\ Len(u) \in Nat /\ \A k \in 1 .. Len(u) : u[k] = c
  BY ShortSeqs, SeqFacts
<1>6. /\ IsMade(m, <<>>, GuardOf(f).method, "none")
      /\ IsMade(c, f.name.class, GenSyntheticCtorName(f.name), "own")
  BY MadeFn
<1>7. /\ IsSeq(s) /\ Len(s) = Len(fs) /\ s[i] = h
      /\ \A k \in 1 .. Len(fs) : k # i => s[k] = fs[k]
  <2> HIDE DEF h
  <2>1. /\ IsSeq(s) /\ Len(s) = Len(fs) /\ s[i] = h
        /\ \A k \in DOMAIN fs : k # i => s[k] = fs[k]
    BY <1>1, ExceptOfSeq
  <2> QED  BY <1>1, <2>1
<1> HIDE DEF h, m, c, t, u, s, b
<1>8. IsConcat(p, s, t)
  BY <1>4, <1>7, ConcatSeq
<1> HIDE DEF p
<1>9. /\ IsSeq(p) /\ Len(p) = Len(fs) + 1 /\ (\A k \in 1 .. Len(fs) : p[k] = s[k])
      /\ \A k \in 1 .. Len(p) : k > Len(fs) => p[k] = m
  <2>1. /\ IsSeq(p) /\ Len(p) = Len(fs) + 1 /\ (\A k \in 1 .. Len(fs) : p[k] = s[k])
        /\ \A k \in 1 .. Len(t) : p[Len(fs) + k] = t[k]
        /\ \A k \in 1 .. Len(p) : k > Len(fs) => \E l \in 1 .. Len(t) : k = Len(fs) + l
    BY <1>1, <1>4, <1>7, <1>8 DEF IsConcat
  <2> QED  BY <1>4, <2>1
<1>10. IsConcat(r, p, u)
  BY <1>2, <1>5, <1>9, ConcatSeq
<1>11. /\ IsSeq(r) /\ Len(r) \in Nat /\ Len(r) >= Len(fs) + 1
       /\ \A k \in 1 .. Len(fs) : r[k] = s[k]
       /\ \A k \in 1 .. Len(r) : k > Len(fs) => r[k] \in {m, c}
  <2>1. /\ IsSeq(r) /\ Len(p) \in Nat /\ Len(r) = Len(p) + Len(u)
        /\ \A k \in 1 .. Len(p) : r[k] = p[k]
        /\ \A k \in 1 .. Len(u) : r[Len(p) + k] = u[k]
        /\ \A k \in 1 .. Len(r) : k \in 1 .. Len(p) \/ \E l \in 1 .. Len(u) : k = Len(p) + l
    BY <1>10 DEF IsConcat
  <2>2. Len(r) \in Nat /\ Len(r) >= Len(fs) + 1
    BY <1>1, <1>5, <1>9, <2>1
  <2>3. \A k \in 1 .. Len(fs) : r[k] = s[k]
    BY <1>1, <1>9, <2>1
  <2>4. \A k \in 1 .. Len(r) : k > Len(fs) => r[k] \in {m, c}
    BY <1>5, <1>9, <2>1
  <2> QED  BY <2>1, <2>2, <2>3, <2>4
<1>12. \A k \in 1 .. Len(fs) :
         /\ IsFn(r[k]) /\ r[k].name = fs[k].name /\ r[k].successors = fs[k].successors
         /\ r[k].unit = fs[k].unit
         /\ r[k].guard = IF k = i THEN <<g>> ELSE fs[k].guard
         /\ source.throwStubs \/ r[k].body = fs[k].body
  BY <1>3, <1>7, <1>11 DEF EditedTo, Alike, b
<1>13. /\ IsFn(m) /\ m.name.class = <<>> /\ m.unit /\ m.guard = <<>> /\ m.body # "throws"
       /\ IsFn(c) /\ c.name.class = f.name.class /\ c.unit /\ c.guard = <<>> /\ c.body # "throws"
  BY <1>6 DEF IsMade, Name
<1> QED  BY <1>1, <1>11, <1>12, <1>13 DEF PatchedTo

-----------------------------------------------------------------------------
(***************************************************************************)
(* The steps before a function is patched.                                 *)
(***************************************************************************)
LEMMA SameSource == ASSUME SourceOK, UNCHANGED source PROVE SourceOK'
  BY DEF SourceOK

LEMMA SameCollected ==
  ASSUME CollectedOK, UNCHANGED <<source, collected, seen>>, index' \in Nat \ {0},
         phase' = "patch" => index' <= Len(collected) + 1
  PROVE  CollectedOK'
  BY DEF CollectedOK, Given, Chosen, Source

LEMMA NoStores == ASSUME Len(gvi) \in Nat, Len(gvi) <= 1, IsSeq(gvi),
                         \A k \in 1 .. Len(gvi) : gvi[k] = NoneStore
                  PROVE  FlagsComeLast
<1>1. DOMAIN gvi = 1 .. Len(gvi)
  BY SeqFacts
<1>2. NoneStore.value = "None"
  BY DEF NoneStore
<1>3. \A k \in DOMAIN gvi : gvi[k].value = "None"
  BY <1>1, <1>2
<1> QED  BY <1>3 DEF FlagsComeLast

LEMMA SameFlagsComeLast ==
  ASSUME FlagsComeLast, UNCHANGED <<source, functions, gvi>> PROVE FlagsComeLast'
<1>1. GuardedFunctions' = GuardedFunctions
  BY DEF GuardedFunctions, Guarded
<1>2. \A f : PatchMethodOf(f)' = PatchMethodOf(f)
  BY DEF PatchMethodOf
<1>3. InstanceStore' = InstanceStore /\ NoneStore' = NoneStore /\ \A f : FlagStore(f)' = FlagStore(f)
  BY DEF InstanceStore, NoneStore, FlagStore
<1> QED  BY <1>1, <1>2, <1>3 DEF FlagsComeLast

LEMMA InitPlugin == EntryPointInit => PluginInv
<1> SUFFICES ASSUME NEW c \in Compilation, InitOn(c.source) PROVE PluginInv
  BY DEF EntryPointInit, HandoverInitOn
<1>1. SourceOK
  BY EntryPointAssumption DEF InitOn, SourceOK
<1>2. DOMAIN source.functions = 1 .. Given
  BY <1>1, SourceNames, SeqFacts DEF Given
<1>3. Untouched
  BY <1>2 DEF InitOn, Untouched, Source
<1>4. CollectedOK
  BY <1>3, ShortSeqs DEF Untouched, CollectedOK, InitOn
<1> QED  BY <1>1, <1>3, <1>4 DEF InitOn, PluginInv, Constructed

LEMMA UntouchedHas == ASSUME Untouched PROVE FlagsComeLast
<1>1. IsSeq(gvi) /\ Len(gvi) = 0
  BY ShortSeqs DEF Untouched
<1> QED  BY <1>1, NoStores

LEMMA CreateStep == ASSUME PluginInv, CreateContext PROVE PluginInv'
<1>1. /\ phase = "context" /\ phase' \in {"failed", "filter"}
      /\ phase' = "failed" => Missing(Lookup)
      /\ UNCHANGED <<source, functions, classes, globals, gvi, index, collected, seen>>
  BY DEF CreateContext, Missing, Lookup, package
<1>2. SourceOK' /\ CollectedOK'
  BY <1>1, SameSource, SameCollected DEF PluginInv, CollectedOK
<1>3. Untouched /\ FlagsComeLast
  BY <1>1, UntouchedHas DEF PluginInv
<1>4. Untouched'
  BY <1>1, <1>3 DEF Untouched, Given, Source
<1>5. phase' = "failed" => RefusesWithReason' /\ FlagsComeLast'
  <2>1. FlagsComeLast'
    BY <1>1, <1>3, SameFlagsComeLast
  <2> QED  BY <1>1, <2>1 DEF RefusesWithReason, Missing
<1> QED  BY <1>1, <1>2, <1>4, <1>5 DEF PluginInv, Constructed

LEMMA FilterStep == ASSUME PluginInv, NEW f, TakeFilter(f) PROVE PluginInv'
<1>1. /\ phase = "filter" /\ phase' = "construct"
      /\ UNCHANGED <<source, functions, classes, globals, gvi, index, collected, seen>>
  BY DEF TakeFilter, package
<1>2. SourceOK' /\ CollectedOK'
  BY <1>1, SameSource, SameCollected DEF PluginInv, CollectedOK
<1>3. Untouched'
  BY <1>1 DEF PluginInv, Untouched, Given, Source
<1> QED  BY <1>1, <1>2, <1>3 DEF PluginInv, Constructed

\* The package as Patcher's constructor leaves it.
LEMMA ConstructedFns ==
  ASSUME SourceOK, functions = [i \in 1 .. Given |-> Source(i)],
         NEW fs, fs = functions \o [i \in 1 .. 3 |-> Made(<<InitGuardClass>>, InitMethods[i], "own")]
                                \o [i \in 1 .. 4 |-> Made(<<>>, Accessors[i], "own")]
  PROVE  /\ IsSeq(fs) /\ Len(fs) = Given + 7
         /\ \A k \in 1 .. Given : fs[k] = Source(k)
         /\ \A k \in Given + 1 .. Given + 3 : IsMade(fs[k], <<InitGuardClass>>, InitMethods[k - Given], "own")
         /\ \A k \in Given + 4 .. Given + 7 : IsMade(fs[k], <<>>, Accessors[k - (Given + 3)], "own")
<1> DEFINE x == [i \in 1 .. 3 |-> Made(<<InitGuardClass>>, InitMethods[i], "own")]
           y == [i \in 1 .. 4 |-> Made(<<>>, Accessors[i], "own")]
           p == functions \o x
<1>1. Given \in Nat
  BY SourceNames
<1>2. IsSeq(functions) /\ Len(functions) = Given /\ \A k \in 1 .. Given : functions[k] = Source(k)
  <2>1. functions = [i \in 1 .. Given |-> functions[i]]
    OBVIOUS
  <2> QED  BY <1>1, <2>1, FunctionSeq
<1>3. \A i \in 1 .. 3 : IsMade(x[i], <<InitGuardClass>>, InitMethods[i], "own")
  BY MadeFn
<1>4. \A i \in 1 .. 4 : IsMade(y[i], <<>>, Accessors[i], "own")
  BY MadeFn
<1>5. IsSeq(x) /\ Len(x) = 3
  <2>1. x = [i \in 1 .. 3 |-> x[i]]
    OBVIOUS
  <2> HIDE DEF x
  <2> QED  BY <2>1, FunctionSeq
<1>6. IsSeq(y) /\ Len(y) = 4
  <2>1. y = [i \in 1 .. 4 |-> y[i]]
    OBVIOUS
  <2> HIDE DEF y
  <2> QED  BY <2>1, FunctionSeq
<1>7. fs = p \o y
  OBVIOUS
<1> HIDE DEF x, y
<1>8. IsConcat(p, functions, x)
  BY <1>2, <1>5, ConcatSeq
<1> HIDE DEF p
<1>9. /\ IsSeq(p) /\ Len(p) = Given + 3 /\ \A k \in 1 .. Given : p[k] = functions[k]
      /\ \A i \in 1 .. Len(x) : p[Given + i] = x[i]
  BY <1>1, <1>2, <1>5, <1>8 DEF IsConcat
<1>10. IsConcat(fs, p, y)
  BY <1>6, <1>7, <1>9, ConcatSeq
<1>11. /\ IsSeq(fs) /\ Len(fs) = (Given + 3) + 4 /\ \A k \in 1 .. Given + 3 : fs[k] = p[k]
       /\ \A i \in 1 .. Len(y) : fs[(Given + 3) + i] = y[i]
  BY <1>1, <1>6, <1>9, <1>10 DEF IsConcat
<1>12. \A k \in Given + 1 .. Given + 3 : IsMade(fs[k], <<InitGuardClass>>, InitMethods[k - Given], "own")
  <2> SUFFICES ASSUME NEW k \in Given + 1 .. Given + 3
               PROVE  IsMade(fs[k], <<InitGuardClass>>, InitMethods[k - Given], "own")
    OBVIOUS
  <2> DEFINE i == k - Given
  <2>1. i \in 1 .. Len(x) /\ i \in 1 .. 3 /\ k = Given + i /\ k \in 1 .. Given + 3
    BY <1>1, <1>5
  <2> HIDE DEF i
  <2>2. fs[k] = x[i]
    BY <1>9, <1>11, <2>1
  <2> QED  BY <1>3, <2>1, <2>2 DEF i
<1>13. \A k \in Given + 4 .. Given + 7 : IsMade(fs[k], <<>>, Accessors[k - (Given + 3)], "own")
  <2> SUFFICES ASSUME NEW k \in Given + 4 .. Given + 7
               PROVE  IsMade(fs[k], <<>>, Accessors[k - (Given + 3)], "own")
    OBVIOUS
  <2> DEFINE i == k - (Given + 3)
  <2>1. i \in 1 .. Len(y) /\ i \in 1 .. 4 /\ k = (Given + 3) + i
    BY <1>1, <1>6
  <2> HIDE DEF i
  <2>2. fs[k] = y[i]
    BY <1>11, <2>1
  <2> QED  BY <1>4, <2>1, <2>2 DEF i
<1>14. Len(fs) = Given + 7
  BY <1>1, <1>11
<1>15. \A k \in 1 .. Given : fs[k] = Source(k)
  BY <1>1, <1>2, <1>9, <1>11
<1> QED  BY <1>11, <1>12, <1>13, <1>14, <1>15

LEMMA ConstructStep == ASSUME PluginInv, ConstructPatcher PROVE PluginInv'
<1>1. /\ phase = "construct" /\ UNCHANGED <<source, index, collected, seen>>
      /\ SourceOK /\ CollectedOK /\ Untouched /\ index = 1
  BY DEF ConstructPatcher, PluginInv, Untouched
<1>2. SourceOK' /\ (index' = 1 => CollectedOK')
  BY <1>1, SameSource, SameCollected DEF PluginInv
<1>3. CASE phase' = "failed"
  <2>1. Missing(Lookup) /\ UNCHANGED <<functions, classes, globals, gvi>>
    BY <1>1, <1>3 DEF ConstructPatcher, Missing, Lookup, package
  <2>2. FlagsComeLast'
    BY <1>1, <2>1, UntouchedHas, SameFlagsComeLast
  <2>3. RefusesWithReason'
    BY <1>1, <2>1 DEF RefusesWithReason, Missing
  <2> QED  BY <1>1, <1>2, <1>3, <2>2, <2>3 DEF PluginInv, Constructed
<1>4. CASE phase' # "failed"
  <2>1. /\ phase' = "find" /\ gvi' = gvi
        /\ functions' = functions
             \o [i \in 1 .. 3 |-> Made(<<InitGuardClass>>, InitMethods[i], "own")]
             \o [i \in 1 .. 4 |-> Made(<<>>, Accessors[i], "own")]
        /\ classes' = << [name |-> InitGuardClass, methods |-> InitMethods] >>
        /\ globals' = << [name |-> GenGuardVarName(Package, TRUE), value |-> "initializer"],
                         [name |-> GenGuardVarFlagName(Package, TRUE), value |-> "false"] >>
    BY <1>4 DEF ConstructPatcher
  <2>2. /\ Count' = 0 /\ Base' = Len(functions') /\ Given' = Given /\ Given \in Nat
        /\ \A k : Source(k)' = Source(k)
    BY <1>1, <2>1, SourceNames DEF Count, Base, HasPatchClass, Given, Source
  <2>3. /\ IsSeq(functions') /\ Len(functions') = Given + 7
        /\ \A k \in 1 .. Given : functions'[k] = Source(k)
        /\ \A k \in Given + 1 .. Given + 3 :
             IsMade(functions'[k], <<InitGuardClass>>, InitMethods[k - Given], "own")
        /\ \A k \in Given + 4 .. Given + 7 : IsMade(functions'[k], <<>>, Accessors[k - (Given + 3)], "own")
    BY <1>1, <2>1, ConstructedFns DEF Untouched
  <2>4. \A k \in 1 .. Given + 7 : k \in 1 .. Given \/ k \in Given + 1 .. Given + 3 \/ k \in Given + 4 .. Given + 7
    BY <2>2
  <2>5. \A k \in 1 .. Given + 7 : functions'[k].guard = <<>> /\ functions'[k].body # "throws"
    <3>1. ASSUME NEW k \in 1 .. Given PROVE functions'[k].guard = <<>> /\ functions'[k].body # "throws"
      <4>1. functions'[k] = Source(k)
        BY <2>3, <3>1, Zenon
      <4> QED BY <4>1, SourceFns, Zenon
    <3>2. ASSUME NEW k \in Given + 1 .. Given + 3 PROVE functions'[k].guard = <<>> /\ functions'[k].body # "throws"
      <4>1. IsMade(functions'[k], <<InitGuardClass>>, InitMethods[k - Given], "own")
        BY <2>3, <3>2, Zenon
      <4>2. "own" # "throws"
        OBVIOUS
      <4> QED BY <4>1, <4>2, Zenon DEF IsMade
    <3>3. ASSUME NEW k \in Given + 4 .. Given + 7 PROVE functions'[k].guard = <<>> /\ functions'[k].body # "throws"
      <4>1. IsMade(functions'[k], <<>>, Accessors[k - (Given + 3)], "own")
        BY <2>3, <3>3, Zenon
      <4>2. "own" # "throws"
        OBVIOUS
      <4> QED BY <4>1, <4>2, Zenon DEF IsMade
    <3> QED BY <2>4, <3>1, <3>2, <3>3, Zenon
  <2>6. \A k \in 1 .. Given + 7 : FunctionOK(k)'
    <3>1. ASSUME NEW k \in 1 .. Given PROVE FunctionOK(k)'
      <4>1. /\ k <= Given /\ ~(k > Given) /\ k \notin Given + 1 .. Given + 3
            /\ k \notin Given + 4 .. Given + 7 /\ ~(k > Base')
        BY <2>2, <2>3
      <4>2. functions'[k] = Source(k) /\ IsFn(Source(k)) /\ Source(k).name.class # <<PatchClass>>
        BY <1>1, <2>3, SourceFns, SourceNames
      <4> QED  BY <2>2, <4>1, <4>2 DEF FunctionOK
    <3>2. ASSUME NEW k \in Given + 1 .. Given + 3 PROVE FunctionOK(k)'
      BY <2>2, <2>3, PatchClassNames DEF FunctionOK, IsMade, Name
    <3>3. ASSUME NEW k \in Given + 4 .. Given + 7 PROVE FunctionOK(k)'
      <4>1. /\ ~(k <= Given) /\ k \notin Given + 1 .. Given + 3 /\ ~(k > Base')
        BY <2>2, <2>3
      <4>2. /\ IsFn(functions'[k]) /\ functions'[k].unit
            /\ functions'[k].name = Name(Pkg, <<>>, <<Accessors[k - (Given + 3)]>>, <<>>)
        BY <2>3 DEF IsMade
      <4>3. functions'[k].name.class # <<PatchClass>>
        BY <4>2 DEF Name
      <4>4. (k - (Given + 3))' = k - (Given + 3) /\ k # Given + 8
        BY <2>2
      <4> QED  BY <2>2, <4>1, <4>2, <4>3, <4>4 DEF FunctionOK
    <3> QED  BY <2>4, <3>1, <3>2, <3>3
  <2>7. FunctionsOK'
    BY <2>2, <2>3, <2>6 DEF FunctionsOK
  <2>8. GuardsOK' /\ BodiesOK'
    BY <2>2, <2>3, <2>5 DEF GuardsOK, BodiesOK
  <2>9. GlobalsOK'
    <3> DEFINE a == [name |-> GenGuardVarName(Package, TRUE), value |-> "initializer"]
               b == [name |-> GenGuardVarFlagName(Package, TRUE), value |-> "false"]
    <3>1. a.name = GenGuardVarName(Package, TRUE) /\ b.name = GenGuardVarFlagName(Package, TRUE)
      OBVIOUS
    <3>2. globals' = <<a, b>>
      BY <2>1
    <3> HIDE DEF a, b
    <3>3. IsSeq(globals') /\ Len(globals') = 2 /\ \A g \in 1 .. 2 : globals'[g] \in {a, b}
      BY <3>2, ShortSeqs
    <3>4. \A g \in 1 .. 2 : g <= 2 /\ g # 3 /\ ~(g > 3)
      OBVIOUS
    <3>5. \A g \in 1 .. 2 :
            globals'[g].name \in {GenGuardVarName(Package, TRUE), GenGuardVarFlagName(Package, TRUE)}
      BY <3>1, <3>3
    <3> QED  BY <2>2, <3>3, <3>4, <3>5 DEF GlobalsOK
  <2>10. ClassesOK' /\ StoresOK'
    BY <1>1, <2>1, <2>2, ShortSeqs DEF ClassesOK, StoresOK, InitPart, Untouched
  <2> QED  BY <1>1, <1>2, <2>1, <2>7, <2>8, <2>9, <2>10 DEF PluginInv, PackageOK, Constructed
<1> QED  BY <1>3, <1>4

\* Selecting functions leaves the package alone.
LEMMA NothingPatchedYet ==
  ASSUME PackageOK, Given \in Nat, UNCHANGED <<source, functions, classes, globals, gvi>>,
         phase \in {"find", "patch"}, phase' \in {"find", "patch"}, Count = 0, Count' = 0
  PROVE  PackageOK'
<1>1. /\ ~HasPatchClass /\ ~HasPatchClass' /\ Base = Len(functions) /\ Base' = Base /\ Given' = Given
      /\ \A k : Source(k)' = Source(k)
  BY DEF HasPatchClass, Base, Given, Source
<1>2. Base = Given + 7
  BY DEF PackageOK, FunctionsOK
<1>3. FunctionsOK'
  <2>1. \A k \in 1 .. Len(functions) : FunctionOK(k) /\ ~(k > Base)
    BY <1>1, <1>2 DEF PackageOK, FunctionsOK
  <2>2. \A k \in 1 .. Len(functions) : FunctionOK(k)'
    BY <1>1, <2>1 DEF FunctionOK
  <2> QED  BY <1>1, <2>2 DEF PackageOK, FunctionsOK
<1>4. GuardsOK' /\ BodiesOK'
  BY <1>1, <1>2 DEF PackageOK, GuardsOK, BodiesOK
<1>5. GlobalsOK'
  <2>1. \A g \in 1 .. Len(globals) : ~(g > 3)
    BY DEF PackageOK, GlobalsOK
  <2> QED  BY <2>1 DEF PackageOK, GlobalsOK
<1>6. ClassesOK'
  BY DEF PackageOK, ClassesOK, InitPart
<1>7. StoresOK'
  <2>1. IsSeq(gvi) /\ gvi = <<>> /\ Len(gvi) = 0
    BY ShortSeqs DEF PackageOK, StoresOK
  <2>2. \A k : k \notin 1 .. Len(gvi)
    BY <2>1
  <2>3. IsSeq(gvi') /\ gvi' = <<>> /\ Len(gvi') = 0 /\ \A k : k \notin 1 .. Len(gvi')
    BY <2>1, <2>2
  <2>4. phase' # "stub" /\ phase' # "stub patch"
    OBVIOUS
  <2>5. (Count = 0)'
    OBVIOUS
  <2>6. gvi' = <<>> <=> Count' = 0
    BY <2>3, <2>5
  <2>7. \A k \in 1 .. Len(gvi') : FALSE
    BY <2>3
  <2>8. Len(gvi') <= 1
    BY <2>3
  <2>9. (phase = "stub patch" /\ Count > 0 => Len(gvi) >= 2)'
    BY <2>4
  <2>10. (phase \in {"stub", "stub patch"} => source.stubTest)'
    BY <2>4
  <2> QED  BY <2>3, <2>6, <2>7, <2>8, <2>9, <2>10, Zenon DEF StoresOK
<1> QED  BY <1>3, <1>4, <1>5, <1>6, <1>7 DEF PackageOK

\* Only functions of the package itself are eligible.
LEMMA EligibleAreGiven ==
  ASSUME PluginInv, phase = "find", NEW k \in 1 .. Len(functions), Eligible(functions[k])
  PROVE  k \in 1 .. Given /\ functions[k].name = Source(k).name
<1>1. /\ Given \in Nat /\ Len(functions) = Given + 7 /\ FunctionOK(k)
  BY SourceNames DEF PluginInv, Constructed, PackageOK, FunctionsOK, Base, Count, HasPatchClass
<1>2. ~PluginMade(functions[k])
  BY DEF Eligible
<1>3. k \notin Given + 1 .. Given + 3
  <2>1. k \in Given + 1 .. Given + 3 => functions[k].name.class = <<InitGuardClass>>
    BY <1>1 DEF FunctionOK, Name
  <2> QED  BY <1>2, <2>1 DEF PluginMade
<1>4. k \notin Given + 4 .. Given + 7
  <2>1. SUFFICES ASSUME k \in Given + 4 .. Given + 7 PROVE FALSE
    OBVIOUS
  <2>2. functions[k].name = Name(Pkg, <<>>, <<Accessors[k - (Given + 3)]>>, <<>>) /\ k - (Given + 3) \in 1 .. 4
    BY <1>1, <2>1 DEF FunctionOK
  <2>3. functions[k].name.func[1] = Accessors[k - (Given + 3)]
    BY <2>2 DEF Name
  <2> QED  BY <1>2, <2>2, <2>3 DEF PluginMade
<1>5. k \in 1 .. Given
  BY <1>1, <1>3, <1>4
<1> QED  BY <1>1, <1>5 DEF FunctionOK

LEMMA FindStep == ASSUME PluginInv, FindPatchable PROVE PluginInv'
<1> DEFINE key == SortKey(functions[index].name)
<1>1. /\ phase = "find" /\ phase' = "find" /\ index' = index + 1 /\ index <= Len(functions)
      /\ UNCHANGED <<source, functions, classes, globals, gvi>>
      /\ SourceOK /\ CollectedOK /\ PackageOK /\ Count = 0 /\ Count' = 0 /\ Given \in Nat
      /\ Given' = Given /\ \A k : Source(k)' = Source(k)
  BY SourceNames DEF FindPatchable, PluginInv, package, Constructed, Count, Given, Source
<1>2. SourceOK' /\ PackageOK'
  BY <1>1, SameSource, NothingPatchedYet
<1>3. index \in 1 .. Len(functions) /\ index' \in Nat \ {0}
  BY <1>1, SeqFacts DEF CollectedOK, PackageOK, FunctionsOK
<1>4. CASE UNCHANGED <<seen, collected>>
  <2>1. CollectedOK'
    BY <1>1, <1>3, <1>4, SameCollected
  <2> QED  BY <1>1, <1>2, <2>1 DEF PluginInv, Constructed
<1>5. CASE ~UNCHANGED <<seen, collected>>
  <2>1. /\ Eligible(functions[index]) /\ key \notin seen
        /\ seen' = seen \cup {key} /\ collected' = Append(collected, index)
    BY <1>1, <1>5 DEF FindPatchable
  <2>2. index \in 1 .. Given /\ functions[index].name = Source(index).name
    BY <1>1, <1>3, <2>1, EligibleAreGiven
  <2>n. PICK n : n = Len(collected)
    OBVIOUS
  <2>3. IsAppend(collected', collected, index)
    BY <1>1, <2>1, AppendSeq DEF CollectedOK
  <2>4. /\ IsSeq(collected') /\ n \in Nat /\ Len(collected') = n + 1 /\ collected'[n + 1] = index
        /\ \A j \in 1 .. n : collected'[j] = collected[j]
    BY <2>n, <2>3 DEF IsAppend
  <2>5. /\ \A j \in 1 .. n : Chosen(j)' = Chosen(j) /\ collected'[j] \in 1 .. Given
        /\ Chosen(n + 1)' = Source(index)
    <3>1. \A j : Chosen(j)' = Source(collected'[j])
      BY <1>1 DEF Chosen, Source
    <3>2. \A j \in 1 .. n : collected[j] \in 1 .. Given /\ Chosen(j) = Source(collected[j])
      BY <1>1, <2>n DEF Chosen, CollectedOK
    <3>3. n + 1 \in Nat /\ Chosen(n + 1)' = Source(index)
      BY <2>4, <3>1
    <3>4. \A j \in 1 .. n : collected'[j] = collected[j]
      BY <2>4
    <3> QED  BY <3>1, <3>2, <3>3, <3>4
  <2> DEFINE Key(c) == SortKey(c.name)
  <2>6. /\ key = Key(Source(index)) /\ seen = {Key(Chosen(j)) : j \in 1 .. n}
        /\ \A j, l \in 1 .. n : j # l => Key(Chosen(j)) # Key(Chosen(l))
    BY <1>1, <2>n, <2>2 DEF CollectedOK
  <2> HIDE DEF Key, key
  <2>7. \A j \in 1 .. n + 1 : j \in 1 .. n \/ j = n + 1
    BY <2>4
  <2>8. seen' = {Key(Chosen(j)') : j \in 1 .. n + 1}
    <3>1. \A j \in 1 .. n : j \in 1 .. n + 1
      BY <2>4
    <3>2. n + 1 \in 1 .. n + 1
      BY <2>4
    <3>3. \A j \in 1 .. n : Key(Chosen(j)') = Key(Chosen(j))
      BY <2>5
    <3>4. Key(Chosen(n + 1)') = key
      BY <2>5, <2>6
    <3> DEFINE K(j) == Key(Chosen(j))   L(j) == Key(Chosen(j)')
    <3>5. /\ seen' = seen \cup {key} /\ seen = {K(j) : j \in 1 .. n}
          /\ \A j \in 1 .. n : L(j) = K(j)
          /\ L(n + 1) = key
      BY <2>1, <2>6, <3>3, <3>4
    <3> HIDE DEF K, L
    <3>6. seen' = {L(j) : j \in 1 .. n + 1}
      BY <2>7, <3>1, <3>2, <3>5
    <3> QED  BY <3>6 DEF L
  <2>9. \A j, l \in 1 .. n + 1 : j # l => Key(Chosen(j)') # Key(Chosen(l)')
    <3>1. \A j \in 1 .. n : Key(Chosen(j)) # key
      BY <2>1, <2>6
    <3> DEFINE K(j) == Key(Chosen(j))   L(j) == Key(Chosen(j)')
    <3>2. /\ \A j \in 1 .. n : L(j) = K(j) /\ K(j) # key
          /\ \A j, l \in 1 .. n : j # l => K(j) # K(l)
          /\ L(n + 1) = key
      BY <2>5, <2>6, <3>1
    <3> HIDE DEF K, L
    <3>3. \A j, l \in 1 .. n + 1 : j # l => L(j) # L(l)
      BY <2>7, <3>2
    <3> QED  BY <3>3 DEF L
  <2>10. \A j \in 1 .. n + 1 : collected'[j] \in 1 .. Given
    BY <2>2, <2>4, <2>5, <2>7
  <2>11. CollectedOK'
    BY <1>1, <1>3, <2>4, <2>8, <2>9, <2>10 DEF CollectedOK, Key
  <2> QED  BY <1>1, <1>2, <2>11 DEF PluginInv, Constructed
<1> QED  BY <1>4, <1>5

LEMMA FoundStep == ASSUME PluginInv, Found PROVE PluginInv'
<1>1. /\ phase = "find" /\ phase' = "patch" /\ index' = 1
      /\ UNCHANGED <<source, functions, classes, globals, gvi, collected, seen>>
      /\ SourceOK /\ CollectedOK /\ PackageOK /\ Count = 0 /\ Count' = 0 /\ Given \in Nat
  BY SourceNames DEF Found, PluginInv, package, Constructed, Count
<1>2. Len(collected) \in Nat
  BY <1>1, SeqFacts DEF CollectedOK
<1>3. SourceOK' /\ PackageOK' /\ CollectedOK'
  BY <1>1, <1>2, SameSource, NothingPatchedYet, SameCollected
<1> QED  BY <1>1, <1>3 DEF PluginInv, Constructed

-----------------------------------------------------------------------------
(***************************************************************************)
(* Patching one function.                                                  *)
(***************************************************************************)
LEMMA AppendShort ==
  ASSUME NEW a, NEW b, NEW c
  PROVE  Append(<<a>>, b) = <<a, b>> /\ Append(<<a, b>>, c) = <<a, b, c>>
<1>1. \A s, x, t : IsSeq(s) /\ IsSeq(t) /\ Len(t) = Len(s) + 1 /\ (\A i \in 1 .. Len(s) : t[i] = s[i])
        /\ t[Len(s) + 1] = x => Append(s, x) = t
  <2> SUFFICES ASSUME NEW s, NEW x, NEW t, IsSeq(s), IsSeq(t), Len(t) = Len(s) + 1,
                      \A i \in 1 .. Len(s) : t[i] = s[i], t[Len(s) + 1] = x
               PROVE  Append(s, x) = t
    OBVIOUS
  <2> DEFINE u == Append(s, x)
  <2>1. IsAppend(u, s, x)
    BY AppendSeq
  <2> HIDE DEF u
  <2>2. /\ IsSeq(u) /\ Len(s) \in Nat /\ Len(u) = Len(t)
        /\ \A i \in 1 .. Len(u) : i \in 1 .. Len(s) \/ i = Len(s) + 1
    BY <2>1 DEF IsAppend
  <2>3. \A i \in 1 .. Len(u) : u[i] = t[i]
    BY <2>1, <2>2 DEF IsAppend
  <2>4. u = t
    BY <2>2, <2>3, SameSeq
  <2> QED  BY <2>4 DEF u
<1>2. Append(<<a>>, b) = <<a, b>>
  <2>1. /\ IsSeq(<<a>>) /\ IsSeq(<<a, b>>) /\ Len(<<a, b>>) = Len(<<a>>) + 1
        /\ \A i \in 1 .. Len(<<a>>) : <<a, b>>[i] = <<a>>[i]
        /\ <<a, b>>[Len(<<a>>) + 1] = b
    BY ShortSeqs
  <2> QED  BY <1>1, <2>1
<1>3. Append(<<a, b>>, c) = <<a, b, c>>
  <2>1. IsSeq(<<a, b, c>>)
    <3>1. <<a, b, c>> \in Seq({a, b, c})
      OBVIOUS
    <3> QED  BY <3>1, SeqOfAny
  <2>2. /\ IsSeq(<<a, b>>) /\ Len(<<a, b, c>>) = Len(<<a, b>>) + 1
        /\ \A i \in 1 .. Len(<<a, b>>) : <<a, b, c>>[i] = <<a, b>>[i]
        /\ <<a, b, c>>[Len(<<a, b>>) + 1] = c
    BY ShortSeqs
  <2> QED  BY <1>1, <2>1, <2>2
<1> QED  BY <1>2, <1>3

LEMMA AddToLast ==
  ASSUME NEW a, NEW class, NEW ms, NEW m, a.name # class
  PROVE  AddMethod(<<a, [name |-> class, methods |-> ms]>>, class, m)
           = <<a, [name |-> class, methods |-> Append(ms, m)]>>
<1> DEFINE b == [name |-> class, methods |-> ms]
           c == [name |-> class, methods |-> Append(ms, m)]
           cs == <<a, b>>
           r == AddMethod(cs, class, m)
<1>1. [b EXCEPT !.methods = Append(@, m)] = c /\ b.name = class
  OBVIOUS
<1> HIDE DEF b, c
<1>2. DOMAIN cs = 1 .. 2 /\ cs[1] = a /\ cs[2] = b
  OBVIOUS
<1>3. r = [i \in 1 .. 2 |-> r[i]] /\ r[1] = a /\ r[2] = c
  BY <1>1, <1>2 DEF AddMethod
<1> HIDE DEF r
<1>4. IsSeq(r) /\ Len(r) = 2
  BY <1>3, FunctionSeq
<1>5. r = <<a, c>>
  BY <1>3, <1>4
<1> QED  BY <1>5 DEF b, c, r

LEMMA ExtendedFns ==
  ASSUME PackageOK, Given \in Nat, phase = "patch", Count \in Nat,
         NEW fs, fs = IF gvi = <<>> THEN WithInitializer(functions) ELSE functions
  PROVE  /\ IsSeq(functions) /\ IsSeq(fs) /\ Base = Len(functions) /\ Base \in Nat /\ Base >= Given + 7
         /\ Len(fs) = IF Count = 0 THEN Base + 1 ELSE Base
         /\ Len(fs) \in Nat /\ Len(fs) >= Given + 8
         /\ \A k \in 1 .. Base : fs[k] = functions[k] /\ FunctionOK(k)
         /\ Count = 0 => Base = Given + 7
         /\ \A k \in 1 .. Len(fs) : k > Base => Count = 0 /\ IsMade(fs[k], <<>>, InitializerName, "own")
         /\ \A k \in 1 .. Len(fs) : IsFn(fs[k])
<1>1. /\ IsSeq(functions) /\ Base = Len(functions) /\ Base \in Nat /\ Base >= Given + 7
      /\ IF Count = 0 THEN Base = Given + 7 ELSE Base >= Given + 8
      /\ \A k \in 1 .. Base : FunctionOK(k)
  BY DEF PackageOK, FunctionsOK, Base, HasPatchClass
<1>2. \A k \in 1 .. Base : IsFn(functions[k])
  BY <1>1 DEF FunctionOK
<1>3. gvi = <<>> <=> Count = 0
  BY DEF PackageOK, StoresOK
<1>4. CASE Count # 0
  <2>1. fs = functions
    BY <1>3, <1>4
  <2> QED  BY <1>1, <1>2, <1>4, <2>1
<1>5. CASE Count = 0
  <2> DEFINE m == Made(<<>>, InitializerName, "own")
  <2>1. IsMade(m, <<>>, InitializerName, "own")
    BY MadeFn
  <2>2. fs = Append(functions, m)
    BY <1>3, <1>5 DEF WithInitializer, InitializerName
  <2> HIDE DEF m
  <2>3. IsAppend(fs, functions, m)
    BY <1>1, <2>2, AppendSeq
  <2>4. /\ IsSeq(fs) /\ Len(fs) = Base + 1 /\ fs[Base + 1] = m
        /\ \A k \in 1 .. Base : fs[k] = functions[k]
    BY <1>1, <2>3 DEF IsAppend
  <2>5. \A k \in 1 .. Len(fs) : k \in 1 .. Base \/ k = Base + 1
    BY <1>1, <2>4
  <2>6. IsFn(m)
    BY <2>1 DEF IsMade
  <2>7. \A k \in 1 .. Len(fs) : IsFn(fs[k])
    BY <1>2, <2>4, <2>5, <2>6
  <2>8. \A k \in 1 .. Len(fs) : k > Base => IsMade(fs[k], <<>>, InitializerName, "own")
    BY <1>1, <2>1, <2>4, <2>5
  <2> QED  BY <1>1, <1>5, <2>4, <2>7, <2>8
<1> QED  BY <1>4, <1>5

LEMMA PatchFails == ASSUME PluginInv, Patch, phase' = "failed" PROVE PluginInv'
<1>1. /\ phase = "patch" /\ index \in 1 .. Len(collected)
      /\ UNCHANGED <<source, functions, classes, globals, gvi, index, collected, seen>>
      /\ SourceOK /\ CollectedOK /\ PackageOK /\ Given \in Nat
  BY SourceNames, SeqFacts DEF Patch, PluginInv, package, Constructed, CollectedOK
<1>2. PICK i : i = collected[index] /\ i \in 1 .. Given
  BY <1>1 DEF CollectedOK
<1>3. PICK fs : fs = IF gvi = <<>> THEN WithInitializer(functions) ELSE functions
  OBVIOUS
<1>4. fs[i].successors # 1
  BY <1>1, <1>2, <1>3 DEF Patch
<1>5. Count \in Nat
  BY <1>1 DEF Count, CollectedOK
<1>6. i \in 1 .. Base /\ fs[i] = functions[i] /\ FunctionOK(i)
  BY <1>1, <1>2, <1>3, <1>5, ExtendedFns
<1>7. functions[i].successors = source.functions[i].successors
  BY <1>1, <1>2, <1>6, OwnFn DEF FunctionOK, Source
<1>8. i \in DOMAIN source.functions
  BY <1>1, <1>2, SourceNames, SeqFacts DEF Given
<1>9. RefusesWithReason'
  BY <1>1, <1>4, <1>6, <1>7, <1>8 DEF RefusesWithReason
<1>10. FlagsComeLast'
  <2>1. FlagsComeLast
    BY <1>1, SeqFacts, NoStores DEF PackageOK, StoresOK
  <2> QED  BY <1>1, <2>1, SameFlagsComeLast
<1>11. SourceOK' /\ CollectedOK'
  BY <1>1, SameSource, SameCollected DEF CollectedOK
<1> QED  BY <1>9, <1>10, <1>11 DEF PluginInv, Constructed

\* The parts of a step that patches function i, the Count + 1st.
PatchedAt(i, fs, g) ==
  /\ phase = "patch" /\ phase' = "patch" /\ index \in 1 .. Len(collected) /\ index' = index + 1
  /\ UNCHANGED <<source, collected, seen>>
  /\ SourceOK /\ CollectedOK /\ PackageOK /\ Given \in Nat
  /\ Count \in Nat /\ index = Count + 1 /\ Count' = Count + 1
  /\ i = collected[index] /\ i \in 1 .. Given
  /\ fs = (IF gvi = <<>> THEN WithInitializer(functions) ELSE functions)
  /\ g = 3 + (Count + 1)
  /\ functions' = Patched(fs, i, g)
  /\ GuardOf(fs[i]) = GuardOf(Chosen(index))
  /\ gvi' = IF gvi = <<>> THEN <<NoneStore>> ELSE gvi
  /\ gvi = <<>> <=> Count = 0
  /\ ~HasPatchClass /\ ~HasPatchClass' /\ Base = Len(functions) /\ Base' = Len(functions')
  /\ Given' = Given /\ \A k : Source(k)' = Source(k) /\ Chosen(k)' = Chosen(k) /\ Method(k)' = Method(k)

LEMMA PatchSucceeds ==
  ASSUME PluginInv, Patch, phase' # "failed"
  PROVE  \E i, fs, g :
           /\ PatchedAt(i, fs, g)
           /\ classes' = AddMethod(IF Count = 0 THEN Append(classes, [name |-> GuardClass, methods |-> <<>>])
                                   ELSE classes, GuardClass, Method(index))
           /\ globals' = Append(IF Count = 0 THEN Append(globals, [name |-> GenGuardVarName(Package, FALSE),
                                                                  value |-> "initializer"])
                                ELSE globals, [name |-> GuardOf(Chosen(index)).flag, value |-> "false"])
<1>1. /\ phase = "patch" /\ index \in 1 .. Len(collected)
      /\ UNCHANGED <<source, collected, seen>>
      /\ SourceOK /\ CollectedOK /\ PackageOK /\ Given \in Nat
  BY SourceNames, SeqFacts DEF Patch, PluginInv, Constructed, CollectedOK
<1>2. PICK i : i = collected[index] /\ i \in 1 .. Given
  BY <1>1 DEF CollectedOK
<1>3. PICK fs : fs = IF gvi = <<>> THEN WithInitializer(functions) ELSE functions
  OBVIOUS
<1>4. PICK gs : gs = IF gvi = <<>> THEN Append(globals, [name |-> GenGuardVarName(Package, FALSE),
                                                         value |-> "initializer"]) ELSE globals
  OBVIOUS
<1>5. PICK cs : cs = IF gvi = <<>> THEN Append(classes, [name |-> GuardClass, methods |-> <<>>]) ELSE classes
  OBVIOUS
<1>6. /\ phase' = "patch" /\ index' = index + 1
      /\ functions' = Patched(fs, i, Len(gs) + 1)
      /\ classes' = AddMethod(cs, GuardClass, GuardOf(fs[i]).method)
      /\ globals' = Append(gs, [name |-> GuardOf(fs[i]).flag, value |-> "false"])
      /\ gvi' = IF gvi = <<>> THEN <<NoneStore>> ELSE gvi
  BY <1>1, <1>2, <1>3, <1>4, <1>5 DEF Patch
<1>7. Count \in Nat /\ index = Count + 1 /\ Count' = Count + 1
  BY <1>1, <1>6 DEF Count, CollectedOK
<1>8. gvi = <<>> <=> Count = 0
  BY <1>1 DEF PackageOK, StoresOK
<1>9. Len(gs) + 1 = 3 + (Count + 1)
  <2>1. IsSeq(globals) /\ Len(globals) = IF Count = 0 THEN 2 ELSE 3 + Count
    BY <1>1 DEF PackageOK, GlobalsOK
  <2>2. CASE Count = 0
    <3> DEFINE e == [name |-> GenGuardVarName(Package, FALSE), value |-> "initializer"]
    <3>1. gs = Append(globals, e)
      BY <1>4, <1>8, <2>2
    <3> HIDE DEF e
    <3>2. IsAppend(gs, globals, e)
      BY <2>1, <3>1, AppendSeq
    <3> QED  BY <2>1, <2>2, <3>2 DEF IsAppend
  <2>3. CASE Count # 0
    BY <1>4, <1>7, <1>8, <2>1, <2>3
  <2> QED  BY <2>2, <2>3
<1>10. fs[i].name = Chosen(index).name
  <2>1. fs[i] = functions[i] /\ FunctionOK(i) /\ i <= Given
    BY <1>1, <1>2, <1>3, <1>7, ExtendedFns
  <2> QED  BY <1>2, <2>1 DEF FunctionOK, Chosen
<1>11. GuardOf(fs[i]) = GuardOf(Chosen(index)) /\ GuardOf(fs[i]).method = Method(index)
  BY <1>10 DEF GuardOf, Method
<1>12. /\ Given' = Given
       /\ \A k : Source(k)' = Source(k) /\ Chosen(k)' = Chosen(k) /\ Method(k)' = Method(k)
  BY <1>1 DEF Given, Source, Chosen, Method
<1>13. ~HasPatchClass /\ ~HasPatchClass' /\ Base = Len(functions) /\ Base' = Len(functions')
  BY <1>1, <1>6 DEF HasPatchClass, Base
<1>14. PatchedAt(i, fs, 3 + (Count + 1))
  BY <1>1, <1>2, <1>3, <1>6, <1>7, <1>8, <1>9, <1>11, <1>12, <1>13 DEF PatchedAt
<1>15. /\ classes' = AddMethod(IF Count = 0 THEN Append(classes, [name |-> GuardClass, methods |-> <<>>])
                                   ELSE classes, GuardClass, Method(index))
       /\ globals' = Append(IF Count = 0 THEN Append(globals, [name |-> GenGuardVarName(Package, FALSE),
                                                               value |-> "initializer"])
                            ELSE globals, [name |-> GuardOf(Chosen(index)).flag, value |-> "false"])
  BY <1>4, <1>5, <1>6, <1>8, <1>11
<1> QED  BY <1>14, <1>15

LEMMA PatchedFunctionsOK ==
  ASSUME NEW i, NEW fs, NEW g, PatchedAt(i, fs, g)
  PROVE  /\ FunctionsOK' /\ Base' \in Nat /\ Base' > Base /\ Base \in Nat /\ Base >= Given + 7
         /\ IsSeq(functions') /\ Len(functions') = Base'
         /\ \A k \in 1 .. Base : k # i => functions'[k].guard = functions[k].guard
         /\ \A k \in 1 .. Base' : k > Base =>
              functions'[k].guard = <<>> /\ (source.throwStubs \/ functions'[k].body # "throws")
         /\ functions'[i].guard = <<g>>
         /\ \A k \in 1 .. Base : source.throwStubs \/ functions'[k].body = functions[k].body
<1>1. /\ IsSeq(functions) /\ IsSeq(fs) /\ Base \in Nat /\ Base >= Given + 7
      /\ Len(fs) = IF Count = 0 THEN Base + 1 ELSE Base
      /\ Len(fs) \in Nat /\ Len(fs) >= Given + 8
      /\ \A k \in 1 .. Base : fs[k] = functions[k] /\ FunctionOK(k)
      /\ Count = 0 => Base = Given + 7
      /\ \A k \in 1 .. Len(fs) : k > Base => Count = 0 /\ IsMade(fs[k], <<>>, InitializerName, "own")
      /\ \A k \in 1 .. Len(fs) : IsFn(fs[k])
  BY ExtendedFns DEF PatchedAt
<1>2. i \in 1 .. Len(fs) /\ i \in 1 .. Base /\ i \in 1 .. Given /\ Given \in Nat
  BY <1>1 DEF PatchedAt
<1>3. /\ IsSeq(functions') /\ Len(functions') \in Nat /\ Len(functions') > Len(fs)
      /\ \A k \in 1 .. Len(fs) :
           /\ IsFn(functions'[k]) /\ functions'[k].name = fs[k].name
           /\ functions'[k].successors = fs[k].successors /\ functions'[k].unit = fs[k].unit
           /\ functions'[k].guard = IF k = i THEN <<g>> ELSE fs[k].guard
           /\ source.throwStubs \/ functions'[k].body = fs[k].body
      /\ \A k \in 1 .. Len(functions') : k > Len(fs) =>
           /\ IsFn(functions'[k]) /\ functions'[k].name.class \in {<<>>, fs[i].name.class}
           /\ functions'[k].unit /\ functions'[k].guard = <<>> /\ functions'[k].body # "throws"
  <2>1. /\ IsSeq(fs) /\ (\A k \in 1 .. Len(fs) : IsFn(fs[k])) /\ i \in 1 .. Len(fs)
        /\ functions' = Patched(fs, i, g)
    BY <1>1, <1>2 DEF PatchedAt
  <2>2. PatchedTo(functions', fs, i, g)
    BY <2>1, PatchedFns
  <2> QED  BY <2>2 DEF PatchedTo
<1>4. Base' = Len(functions') /\ Given' = Given /\ Count' = Count + 1 /\ Count \in Nat
  BY DEF PatchedAt
<1>5. \A k \in 1 .. Base' : k \in 1 .. Base \/ (k > Base /\ k \in 1 .. Len(fs)) \/ k > Len(fs)
  BY <1>1, <1>3, <1>4
<1>6. ASSUME NEW k \in 1 .. Base PROVE FunctionOK(k)'
  <2>1. /\ k \in 1 .. Len(fs) /\ fs[k] = functions[k] /\ FunctionOK(k) /\ ~(k > Base) /\ ~(k > Base')
        /\ k = Given + 8 => Count > 0
    <3>1. Base <= Len(fs) /\ Base <= Base' /\ Base' \in Nat
      BY <1>1, <1>3, <1>4
    <3>2. k \in 1 .. Len(fs) /\ ~(k > Base) /\ ~(k > Base')
      BY <1>1, <3>1
    <3>3. k = Given + 8 => Count > 0
      BY <1>1, <1>2, <1>4
    <3> QED  BY <1>1, <3>2, <3>3
  <2>2. /\ IsFn(functions'[k]) /\ functions'[k].name = functions[k].name
        /\ functions'[k].successors = functions[k].successors /\ functions'[k].unit = functions[k].unit
    BY <1>3, <2>1
  <2>3. Source(k)' = Source(k)
    BY DEF PatchedAt
  <2> QED  BY <1>4, <2>1, <2>2, <2>3 DEF FunctionOK
<1>7. ASSUME NEW k \in 1 .. Base', k > Base PROVE FunctionOK(k)'
  <2>1. /\ ~(k <= Given) /\ k \notin Given + 1 .. Given + 3 /\ k \notin Given + 4 .. Given + 7 /\ ~(k > Base')
    <3>1. k > Given + 7 /\ k <= Base' /\ k \in Nat
      BY <1>1, <1>2, <1>4, <1>7
    <3> QED  BY <1>2, <1>3, <1>4, <3>1
  <2>2. /\ IsFn(functions'[k]) /\ functions'[k].unit /\ functions'[k].name.class # <<PatchClass>>
        /\ k = Given + 8 => functions'[k].name = Name(Pkg, <<>>, <<InitializerName>>, <<>>)
    <3>1. CASE k \in 1 .. Len(fs)
      <4>1. IsMade(fs[k], <<>>, InitializerName, "own")
        BY <1>1, <1>7, <3>1
      <4>2. fs[k].unit /\ fs[k].name = Name(Pkg, <<>>, <<InitializerName>>, <<>>) /\ fs[k].name.class # <<PatchClass>>
        BY <4>1 DEF IsMade, Name
      <4> QED  BY <1>3, <3>1, <4>2
    <3>2. CASE k > Len(fs)
      <4>1. functions'[k].unit /\ IsFn(functions'[k]) /\ functions'[k].name.class \in {<<>>, fs[i].name.class}
        BY <1>3, <1>4, <3>2
      <4>2. fs[i].name.class # <<PatchClass>>
        <5>1. fs[i].name = Source(i).name
          <6>1. fs[i] = functions[i] /\ FunctionOK(i) /\ i <= Given
            BY <1>1, <1>2
          <6> QED  BY <6>1 DEF FunctionOK
        <5> QED  BY <1>2, <5>1, SourceNames DEF PatchedAt
      <4>3. k # Given + 8
        BY <1>1, <1>2, <3>2
      <4>4. functions'[k].name.class # <<PatchClass>>
        <5>1. <<>> # <<PatchClass>>
          OBVIOUS
        <5> QED BY <4>1, <4>2, <5>1, Zenon
      <4> QED  BY <4>1, <4>3, <4>4, Zenon
    <3> QED  BY <1>5, <1>7, <3>1, <3>2
  <2> QED  BY <1>4, <2>1, <2>2 DEF FunctionOK
<1>8. FunctionsOK'
  <2>1. \A k \in 1 .. Len(functions') : FunctionOK(k)'
    BY <1>1, <1>4, <1>5, <1>6, <1>7
  <2>2. Base' \in Nat /\ Base' >= Given + 8 /\ Base' >= Given + 7 /\ Count' # 0
    BY <1>1, <1>2, <1>3, <1>4
  <2> QED  BY <1>3, <1>4, <2>1, <2>2 DEF FunctionsOK
<1>9. \A k \in 1 .. Base' : k > Base =>
        functions'[k].guard = <<>> /\ (source.throwStubs \/ functions'[k].body # "throws")
  <2>1. ASSUME NEW k \in 1 .. Base', k > Base, k \in 1 .. Len(fs)
        PROVE  functions'[k].guard = <<>> /\ (source.throwStubs \/ functions'[k].body # "throws")
    <3>1. IsMade(fs[k], <<>>, InitializerName, "own") /\ k # i
      BY <1>1, <1>2, <2>1
    <3>2. fs[k].guard = <<>> /\ fs[k].body = "own"
      BY <3>1 DEF IsMade
    <3> QED  BY <1>3, <2>1, <3>1, <3>2
  <2> QED  BY <1>3, <1>4, <1>5, <2>1
<1>10. Base' > Base /\ Base' \in Nat
  BY <1>1, <1>3, <1>4
<1> QED  BY <1>1, <1>2, <1>3, <1>4, <1>8, <1>9, <1>10

LEMMA PatchedGuardsOK ==
  ASSUME NEW i, NEW fs, NEW g, PatchedAt(i, fs, g) PROVE GuardsOK' /\ BodiesOK'
<1>1. /\ Base' \in Nat /\ Base' > Base /\ Base \in Nat /\ Base >= Given + 7 /\ Given \in Nat
      /\ Len(functions') = Base' /\ Len(functions) = Base /\ Count \in Nat /\ Count' = Count + 1
      /\ index = Count + 1 /\ i = collected[index] /\ i \in 1 .. Base /\ collected' = collected
      /\ index \in 1 .. Len(collected)
  BY PatchedFunctionsOK DEF PatchedAt
<1>2. /\ \A k \in 1 .. Base : k # i => functions'[k].guard = functions[k].guard
      /\ \A k \in 1 .. Base' : k > Base =>
           functions'[k].guard = <<>> /\ (source.throwStubs \/ functions'[k].body # "throws")
      /\ functions'[i].guard = <<3 + (Count + 1)>>
      /\ \A k \in 1 .. Base : source.throwStubs \/ functions'[k].body = functions[k].body
  BY PatchedFunctionsOK DEF PatchedAt
<1>3. /\ \A k \in 1 .. Base : functions[k].guard # <<>> => \E j \in 1 .. Count : k = collected[j]
      /\ \A j \in 1 .. Count : functions[collected[j]].guard = <<3 + j>>
      /\ source.throwStubs \/ \A k \in 1 .. Base : functions[k].body # "throws"
      /\ source' = source
  BY <1>1 DEF PatchedAt, PackageOK, GuardsOK, BodiesOK
<1>4. \A j \in 1 .. Count : collected[j] \in 1 .. Base /\ collected[j] # i
  <2>1. ASSUME NEW j \in 1 .. Count PROVE collected[j] \in 1 .. Base /\ collected[j] # i
    <3>1. j \in 1 .. Len(collected) /\ j # index
      BY <1>1
    <3>2. collected[j] \in 1 .. Given /\ SortKey(Chosen(j).name) # SortKey(Chosen(index).name)
      BY <1>1, <3>1 DEF CollectedOK, PatchedAt
    <3>3. collected[j] # i
      BY <1>1, <3>2 DEF Chosen
    <3> QED  BY <1>1, <3>2, <3>3
  <2> QED  BY <2>1
<1>5. \A j \in 1 .. Count + 1 : j \in 1 .. Count \/ j = Count + 1
  BY <1>1
<1>6. Count + 1 \in 1 .. Count + 1 /\ \A j \in 1 .. Count : j \in 1 .. Count + 1
  BY <1>1
<1>7. \A k \in 1 .. Base' : functions'[k].guard # <<>> => \E j \in 1 .. Count + 1 : k = collected[j]
  <2>1. ASSUME NEW k \in 1 .. Base', functions'[k].guard # <<>>
        PROVE  \E j \in 1 .. Count + 1 : k = collected[j]
    <3>1. k \in 1 .. Base
      BY <1>1, <1>2, <2>1
    <3>2. CASE k = i
      BY <1>1, <1>6, <3>2
    <3>3. CASE k # i
      BY <1>2, <1>3, <1>6, <2>1, <3>1, <3>3
    <3> QED  BY <3>2, <3>3
  <2> QED  BY <2>1
<1>8. \A j \in 1 .. Count + 1 : functions'[collected[j]].guard = <<3 + j>>
  <2>1. \A j \in 1 .. Count : functions'[collected[j]].guard = <<3 + j>>
    <3>1. SUFFICES ASSUME NEW j \in 1 .. Count PROVE functions'[collected[j]].guard = <<3 + j>>
      OBVIOUS
    <3>2. collected[j] \in 1 .. Base /\ collected[j] # i /\ functions[collected[j]].guard = <<3 + j>>
      BY <1>3, <1>4
    <3> QED  BY <1>2, <3>2
  <2> QED  BY <1>1, <1>2, <1>5, <2>1
<1>9. GuardsOK'
  BY <1>1, <1>7, <1>8 DEF GuardsOK
<1>10. BodiesOK'
  <2>1. source.throwStubs \/ \A k \in 1 .. Base' : functions'[k].body # "throws"
    <3>1. SUFFICES ASSUME ~source.throwStubs, NEW k \in 1 .. Base' PROVE functions'[k].body # "throws"
      OBVIOUS
    <3>2. CASE k \in 1 .. Base
      BY <1>2, <1>3, <3>1, <3>2
    <3>3. CASE k > Base
      BY <1>2, <3>1, <3>3
    <3> QED  BY <1>1, <3>2, <3>3
  <2> QED  BY <1>3, <2>1 DEF BodiesOK
<1> QED  BY <1>9, <1>10

LEMMA MoreMethods ==
  ASSUME NEW i, NEW fs, NEW g, PatchedAt(i, fs, g)
  PROVE  Append(Methods, Method(index)) = Methods' /\ (Count = 0 => Methods = <<>>)
<1>1. Count \in Nat /\ index = Count + 1 /\ Count' = Count + 1 /\ \A j : Method(j)' = Method(j)
  BY DEF PatchedAt
<1>n. PICK n \in Nat : n = Count
  BY <1>1
<1> DEFINE x == [j \in 1 .. n |-> Method(j)]
           y == [j \in 1 .. n + 1 |-> Method(j)]
           m == Method(n + 1)
<1>2. Methods = x /\ Methods' = y /\ Method(index) = m
  BY <1>1, <1>n DEF Methods
<1>3. IsSeq(x) /\ Len(x) = n /\ IsSeq(y) /\ Len(y) = n + 1
  <2>1. x = [j \in 1 .. n |-> x[j]] /\ y = [j \in 1 .. n + 1 |-> y[j]] /\ n + 1 \in Nat
    OBVIOUS
  <2> HIDE DEF x, y
  <2> QED  BY <2>1, FunctionSeq
<1>4. y[n + 1] = m /\ \A j \in 1 .. n : y[j] = x[j]
  OBVIOUS
<1> HIDE DEF x, y, m
<1> DEFINE u == Append(x, m)
<1>5. IsAppend(u, x, m)
  BY <1>3, AppendSeq
<1> HIDE DEF u
<1>6. IsSeq(u) /\ Len(u) = n + 1 /\ u[n + 1] = m /\ \A j \in 1 .. n : u[j] = x[j]
  BY <1>3, <1>5 DEF IsAppend
<1>7. \A j \in 1 .. Len(u) : u[j] = y[j]
  <2>1. \A j \in 1 .. Len(u) : j \in 1 .. n \/ j = n + 1
    BY <1>6
  <2> QED  BY <1>4, <1>6, <2>1
<1>8. u = y
  BY <1>3, <1>6, <1>7, SameSeq
<1>9. n = 0 => x = <<>>
  BY <1>3, EmptySeq DEF IsSeq
<1> QED  BY <1>n, <1>2, <1>8, <1>9 DEF u

LEMMA PatchedClassesOK ==
  ASSUME NEW i, NEW fs, NEW g, PatchedAt(i, fs, g),
         classes' = AddMethod(IF Count = 0 THEN Append(classes, [name |-> GuardClass, methods |-> <<>>])
                              ELSE classes, GuardClass, Method(index))
  PROVE  ClassesOK'
<1>1. Append(Methods, Method(index)) = Methods' /\ (Count = 0 => Methods = <<>>)
  BY MoreMethods
<1> DEFINE cs == IF Count = 0 THEN Append(classes, [name |-> GuardClass, methods |-> <<>>]) ELSE classes
<1>2. cs = <<InitPart, [name |-> GuardClass, methods |-> Methods]>>
  <2>1. CASE Count = 0
    <3>1. classes = <<InitPart>>
      BY <2>1 DEF PatchedAt, PackageOK, ClassesOK
    <3> DEFINE e == [name |-> GuardClass, methods |-> Methods]
    <3>2. cs = Append(classes, e)
      BY <1>1, <2>1
    <3> HIDE DEF e, cs
    <3>3. cs = <<InitPart, e>>
      BY <3>1, <3>2, AppendShort
    <3> QED  BY <3>3 DEF e
  <2>2. CASE Count # 0
    BY <2>2 DEF PatchedAt, PackageOK, ClassesOK, GuardPart
  <2> QED  BY <2>1, <2>2
<1>3. InitPart.name # GuardClass
  BY ClassNames DEF InitPart
<1>4. classes' = <<InitPart, [name |-> GuardClass, methods |-> Append(Methods, Method(index))]>>
  <2>1. classes' = AddMethod(cs, GuardClass, Method(index))
    OBVIOUS
  <2> HIDE DEF cs
  <2> QED  BY <1>2, <1>3, <2>1, AddToLast
<1>5. classes' = <<InitPart, GuardPart'>>
  BY <1>1, <1>4 DEF GuardPart
<1>6. InitPart' = InitPart /\ Count' # 0 /\ ~HasPatchClass'
  BY DEF InitPart, PatchedAt
<1> QED  BY <1>5, <1>6 DEF ClassesOK

LEMMA PatchedGlobalsOK ==
  ASSUME NEW i, NEW fs, NEW g, PatchedAt(i, fs, g),
         globals' = Append(IF Count = 0 THEN Append(globals, [name |-> GenGuardVarName(Package, FALSE),
                                                             value |-> "initializer"])
                           ELSE globals, [name |-> GuardOf(Chosen(index)).flag, value |-> "false"])
  PROVE  GlobalsOK'
<1> DEFINE e == [name |-> GenGuardVarName(Package, FALSE), value |-> "initializer"]
           Flag(j) == [name |-> GuardOf(Chosen(j)).flag, value |-> "false"]
           gs == IF Count = 0 THEN Append(globals, e) ELSE globals
           InitNames == {GenGuardVarName(Package, TRUE), GenGuardVarFlagName(Package, TRUE)}
<1>1. Count \in Nat /\ index = Count + 1 /\ Count' = Count + 1 /\ \A j : Chosen(j)' = Chosen(j)
  BY DEF PatchedAt
<1>2. globals' = Append(gs, Flag(index))
  OBVIOUS
<1>3. e.name = GenGuardVarName(Package, FALSE)
  OBVIOUS
<1>4. /\ IsSeq(globals) /\ Len(globals) = IF Count = 0 THEN 2 ELSE 3 + Count
      /\ \A k \in 1 .. Len(globals) : /\ k <= 2 => globals[k].name \in InitNames
                                      /\ k = 3 => globals[k].name = GenGuardVarName(Package, FALSE)
                                      /\ k > 3 => globals[k] = Flag(k - 3)
  BY DEF PatchedAt, PackageOK, GlobalsOK
<1> HIDE DEF Flag, InitNames
<1>5. /\ IsSeq(gs) /\ Len(gs) = 3 + Count
      /\ \A k \in 1 .. Len(gs) : /\ k <= 2 => gs[k].name \in InitNames
                                 /\ k = 3 => gs[k].name = GenGuardVarName(Package, FALSE)
                                 /\ k > 3 => gs[k] = Flag(k - 3)
  <2>1. CASE Count = 0
    <3> HIDE DEF e
    <3>1. gs = Append(globals, e)
      BY <2>1
    <3> HIDE DEF gs
    <3>2. IsAppend(gs, globals, e)
      BY <1>4, <3>1, AppendSeq
    <3>3. /\ IsSeq(gs) /\ Len(globals) = 2 /\ Len(gs) = 3 /\ gs[3] = e
          /\ \A k \in 1 .. Len(globals) : gs[k] = globals[k]
      BY <1>4, <2>1, <3>2 DEF IsAppend
    <3>4. \A k \in 1 .. Len(gs) : (k \in 1 .. Len(globals) /\ k <= 2) \/ k = 3
      BY <3>3
    <3>5. \A k \in 1 .. Len(globals) : k <= 2 => gs[k].name \in InitNames
      BY <1>4, <3>3
    <3>6. gs[3].name = GenGuardVarName(Package, FALSE)
      BY <1>3, <3>3
    <3>7. SUFFICES ASSUME NEW k \in 1 .. Len(gs)
                   PROVE  /\ k <= 2 => gs[k].name \in InitNames
                          /\ k = 3 => gs[k].name = GenGuardVarName(Package, FALSE)
                          /\ k > 3 => gs[k] = Flag(k - 3)
      <4>1. IsSeq(gs) /\ Len(gs) = 3 + Count
        BY <2>1, <3>3
      <4> QED  BY <4>1
    <3>8. CASE k = 3
      <4>1. gs[k].name = GenGuardVarName(Package, FALSE)
        BY <3>6, <3>8, Zenon
      <4>2. ~(k <= 2) /\ ~(k > 3)
        BY <3>8
      <4> QED  BY <4>1, <4>2
    <3>9. CASE k # 3
      <4>1. k \in 1 .. Len(globals) /\ k <= 2 /\ ~(k > 3)
        BY <3>4, <3>9
      <4> QED  BY <3>5, <3>9, <4>1
    <3> QED  BY <3>8, <3>9
  <2>2. CASE Count # 0
    BY <1>4, <2>2
  <2> QED  BY <2>1, <2>2
<1> HIDE DEF gs, e
<1>6. IsAppend(globals', gs, Flag(index))
  BY <1>2, <1>5, AppendSeq
<1>7. /\ IsSeq(globals') /\ Len(globals') = (3 + Count) + 1 /\ globals'[(3 + Count) + 1] = Flag(index)
      /\ \A k \in 1 .. Len(gs) : globals'[k] = gs[k]
  BY <1>5, <1>6 DEF IsAppend
<1>8. \A k \in 1 .. Len(globals') : k \in 1 .. Len(gs) \/ k = (3 + Count) + 1
  BY <1>1, <1>5, <1>7
<1>9. \A k \in 1 .. Len(globals') : /\ k <= 2 => globals'[k].name \in InitNames
                                    /\ k = 3 => globals'[k].name = GenGuardVarName(Package, FALSE)
                                    /\ k > 3 => globals'[k] = Flag(k - 3)
  <2>1. \A k \in 1 .. Len(gs) : /\ k <= 2 => globals'[k].name \in InitNames
                                /\ k = 3 => globals'[k].name = GenGuardVarName(Package, FALSE)
                                /\ k > 3 => globals'[k] = Flag(k - 3)
    BY <1>5, <1>7
  <2>2. ((3 + Count) + 1) - 3 = index /\ ~((3 + Count) + 1 <= 2) /\ (3 + Count) + 1 # 3
    BY <1>1
  <2>3. globals'[(3 + Count) + 1] = Flag(((3 + Count) + 1) - 3)
    BY <1>7, <2>2
  <2> QED  BY <1>8, <2>1, <2>2, <2>3
<1>10. \A j : Flag(j)' = Flag(j)
  BY <1>1 DEF Flag
<1>11. Len(globals') = 3 + (Count + 1) /\ Count + 1 # 0
  BY <1>1, <1>7
<1> QED  BY <1>1, <1>7, <1>9, <1>10, <1>11 DEF GlobalsOK, Flag, InitNames

LEMMA PatchedStoresOK ==
  ASSUME NEW i, NEW fs, NEW g, PatchedAt(i, fs, g) PROVE StoresOK'
<1>1. /\ phase = "patch" /\ phase' = "patch" /\ Count \in Nat /\ Count' = Count + 1
      /\ gvi' = (IF gvi = <<>> THEN <<NoneStore>> ELSE gvi) /\ StoresOK
  BY DEF PatchedAt, PackageOK
<1>2. IsSeq(gvi') /\ gvi' # <<>> /\ Len(gvi') \in Nat /\ Len(gvi') <= 1 /\ \A k \in 1 .. Len(gvi') : gvi'[k] = NoneStore
  <2>1. CASE gvi = <<>>
    <3>1. gvi' = <<NoneStore>>
      BY <1>1, <2>1
    <3> HIDE DEF NoneStore
    <3> QED  BY <3>1, ShortSeqs
  <2>2. CASE gvi # <<>>
    <3>1. gvi' = gvi /\ IsSeq(gvi) /\ Len(gvi) <= 1
      BY <1>1, <2>2 DEF StoresOK
    <3>2. \A k \in 1 .. Len(gvi) : gvi[k] = NoneStore
      <4>1. \A k \in 1 .. Len(gvi) : k = 1
        BY <3>1, SeqFacts
      <4> QED  BY <1>1, <4>1 DEF StoresOK
    <3> QED  BY <2>2, <3>1, <3>2, SeqFacts
  <2> QED  BY <2>1, <2>2
<1>3. \A k \in 1 .. Len(gvi') : k = 1
  BY <1>2
<1>4. NoneStore' = NoneStore
  BY DEF NoneStore
<1>5. (\A k \in 1 .. Len(gvi) : /\ k = 1 => gvi[k] = NoneStore
                                /\ k = 2 => gvi[k] = InstanceStore
                                /\ k > 2 => StoreOK(k))'
  BY <1>2, <1>3, <1>4
<1>6. (gvi = <<>> <=> Count = 0)'
  BY <1>1, <1>2
<1>7. (phase = "stub patch" /\ Count > 0 => Len(gvi) >= 2)'
  BY <1>1
<1>8. (phase \in {"stub", "stub patch"} => source.stubTest)'
  BY <1>1
<1>9. (phase \in {"find", "patch", "stub"} => Len(gvi) <= 1)'
  BY <1>2
<1>10. IsSeq(gvi')
  BY <1>2
<1> QED  BY <1>5, <1>6, <1>7, <1>8, <1>9, <1>10, Zenon DEF StoresOK

LEMMA PatchStep == ASSUME PluginInv, Patch PROVE PluginInv'
<1>1. CASE phase' = "failed"
  BY <1>1, PatchFails
<1>2. CASE phase' # "failed"
  <2>1. PICK i, fs, g :
          /\ PatchedAt(i, fs, g)
          /\ classes' = AddMethod(IF Count = 0 THEN Append(classes, [name |-> GuardClass, methods |-> <<>>])
                                  ELSE classes, GuardClass, Method(index))
          /\ globals' = Append(IF Count = 0 THEN Append(globals, [name |-> GenGuardVarName(Package, FALSE),
                                                                 value |-> "initializer"])
                               ELSE globals, [name |-> GuardOf(Chosen(index)).flag, value |-> "false"])
    BY <1>2, PatchSucceeds
  <2>2. FunctionsOK'
    BY <2>1, PatchedFunctionsOK
  <2>3. GuardsOK' /\ BodiesOK'
    BY <2>1, PatchedGuardsOK
  <2>4. ClassesOK' /\ GlobalsOK' /\ StoresOK'
    BY <2>1, PatchedClassesOK, PatchedGlobalsOK, PatchedStoresOK
  <2>5. SourceOK' /\ CollectedOK'
    <3>1. /\ UNCHANGED <<source, collected, seen>> /\ SourceOK /\ CollectedOK
          /\ index' \in Nat \ {0} /\ index' <= Len(collected) + 1
      BY <2>1, SeqFacts DEF PatchedAt, CollectedOK
    <3> QED  BY <3>1, SameSource, SameCollected
  <2>6. phase' = "patch"
    BY <2>1 DEF PatchedAt
  <2> QED  BY <2>2, <2>3, <2>4, <2>5, <2>6 DEF PluginInv, PackageOK, Constructed
<1> QED  BY <1>1, <1>2

-----------------------------------------------------------------------------
(***************************************************************************)
(* The patch class, and the stubs.                                         *)
(***************************************************************************)
LEMMA MethodsOfClasses ==
  ASSUME ClassesOK, Count # 0
  PROVE  /\ MethodsOf(GuardClass) = Methods /\ HasClass(GuardClass)
         /\ HasPatchClass => MethodsOf(PatchClass) = Methods /\ HasClass(PatchClass)
<1>1. /\ InitPart.name = InitGuardClass /\ GuardPart.name = GuardClass /\ PatchPart.name = PatchClass
      /\ GuardPart.methods = Methods /\ PatchPart.methods = Methods
  BY DEF InitPart, GuardPart, PatchPart
<1>2. InitGuardClass # GuardClass /\ PatchClass # GuardClass /\ PatchClass # InitGuardClass
  BY ClassNames, PatchClassNames
<1>3. CASE HasPatchClass
  <2>1. classes = <<InitPart, GuardPart, PatchPart>>
    BY <1>3 DEF ClassesOK
  <2>2. DOMAIN classes = 1 .. 3 /\ classes[1] = InitPart /\ classes[2] = GuardPart /\ classes[3] = PatchPart
    BY <2>1
  <2>3. \A k \in DOMAIN classes : k = 1 \/ k = 2 \/ k = 3
    BY <2>2
  <2>4. 2 \in DOMAIN classes /\ 3 \in DOMAIN classes
    BY <2>2
  <2>5. \A k \in DOMAIN classes : classes[k].name = GuardClass <=> k = 2
    BY <1>1, <1>2, <2>2, <2>3
  <2>6. \A k \in DOMAIN classes : classes[k].name = PatchClass <=> k = 3
    BY <1>1, <1>2, <2>2, <2>3
  <2>7. (CHOOSE k \in DOMAIN classes : classes[k].name = GuardClass) = 2
    BY <2>4, <2>5
  <2>8. (CHOOSE k \in DOMAIN classes : classes[k].name = PatchClass) = 3
    BY <2>4, <2>6
  <2>9. MethodsOf(GuardClass) = Methods /\ MethodsOf(PatchClass) = Methods
    BY <1>1, <2>2, <2>7, <2>8 DEF MethodsOf
  <2> QED  BY <2>4, <2>5, <2>6, <2>9 DEF HasClass
<1>4. CASE ~HasPatchClass
  <2>1. classes = <<InitPart, GuardPart>>
    BY <1>4 DEF ClassesOK
  <2>2. DOMAIN classes = 1 .. 2 /\ classes[1] = InitPart /\ classes[2] = GuardPart
    BY <2>1
  <2>3. \A k \in DOMAIN classes : k = 1 \/ k = 2
    BY <2>2
  <2>4. 2 \in DOMAIN classes
    BY <2>2
  <2>5. \A k \in DOMAIN classes : classes[k].name = GuardClass <=> k = 2
    BY <1>1, <1>2, <2>2, <2>3
  <2>6. (CHOOSE k \in DOMAIN classes : classes[k].name = GuardClass) = 2
    BY <2>4, <2>5
  <2>7. MethodsOf(GuardClass) = Methods
    BY <1>1, <2>2, <2>6 DEF MethodsOf
  <2> QED  BY <1>4, <2>4, <2>5, <2>7 DEF HasClass
<1> QED  BY <1>3, <1>4

\* What stays when the methods of the patch class are added.
LEMMA PatchClassFns ==
  ASSUME PluginInv, GenPatchClass, gvi # <<>>
  PROVE  /\ phase = "patch" /\ index' = 1
         /\ IsSeq(functions') /\ Base \in Nat /\ Len(functions) = Base /\ Count \in Nat
         /\ Len(functions') = Base + Count
         /\ Count = Len(collected)
         /\ \A k \in 1 .. Base : functions'[k] = functions[k]
         /\ \A j \in 1 .. Count :
              LET f == functions'[Base + j]
              IN  /\ IsFn(f) /\ f.guard = <<>> /\ f.unit = Chosen(j).unit
                  /\ f.name = Name(Pkg, <<PatchClass>>, <<Method(j)>>, <<>>)
         /\ classes' = <<InitPart, GuardPart, PatchPart>>
<1>1. /\ phase = "patch" /\ index' = 1 /\ index > Len(collected) /\ SourceOK /\ CollectedOK /\ PackageOK
  BY DEF GenPatchClass, PluginInv, Constructed
<1>2. Count = Len(collected) /\ Count \in Nat /\ Count # 0 /\ ~HasPatchClass
  <2>1. Len(collected) \in Nat /\ index = Len(collected) + 1
    BY <1>1, SeqFacts DEF CollectedOK, PluginInv
  <2> QED  BY <1>1, <2>1 DEF Count, PackageOK, StoresOK, HasPatchClass
<1>3. Base \in Nat /\ Len(functions) = Base /\ IsSeq(functions)
  BY <1>1, <1>2 DEF PackageOK, FunctionsOK, Base
<1>4. MethodsOf(GuardClass) = Methods
  BY <1>1, <1>2, MethodsOfClasses DEF PackageOK
<1> DEFINE New(j) == [Made(<<PatchClass>>, Methods[j], "throws") EXCEPT !.unit = source.functions[collected[j]].unit]
           new == [j \in DOMAIN Methods |-> New(j)]
<1>5. functions' = functions \o new /\ classes' = Append(classes, [name |-> PatchClass, methods |-> Methods])
  BY <1>4 DEF GenPatchClass
<1>6. DOMAIN Methods = 1 .. Count /\ \A j \in 1 .. Count : Methods[j] = Method(j)
  BY DEF Methods
<1>7. \A j \in 1 .. Count : EditedTo(New(j), Made(<<PatchClass>>, Method(j), "throws"),
                                     <<>>, "throws", source.functions[collected[j]].unit)
  <2>1. SUFFICES ASSUME NEW j \in 1 .. Count
                 PROVE  EditedTo(New(j), Made(<<PatchClass>>, Method(j), "throws"),
                                 <<>>, "throws", source.functions[collected[j]].unit)
    OBVIOUS
  <2> DEFINE m == Made(<<PatchClass>>, Method(j), "throws")
             u == source.functions[collected[j]].unit
  <2>2. IsMade(m, <<PatchClass>>, Method(j), "throws")
    BY MadeFn
  <2>3. New(j) = [m EXCEPT !.unit = u]
    BY <1>6
  <2> HIDE DEF m, u
  <2>4. IsFn(m) /\ m.guard = <<>> /\ m.body = "throws"
    BY <2>2 DEF IsMade
  <2>5. EditedTo(New(j), m, m.guard, m.body, u)
    <3> HIDE DEF New
    <3> QED  BY <2>3, <2>4, EditedFn
  <2> QED  BY <2>4, <2>5 DEF m, u
<1> HIDE DEF New
<1>8. IsSeq(new) /\ Len(new) = Count /\ \A j \in 1 .. Count : new[j] = New(j)
  <2>1. new = [j \in 1 .. Count |-> new[j]] /\ \A j \in 1 .. Count : new[j] = New(j)
    BY <1>6
  <2> HIDE DEF new
  <2> QED  BY <1>2, <2>1, FunctionSeq
<1> HIDE DEF new
<1>9. IsConcat(functions', functions, new)
  BY <1>3, <1>5, <1>8, ConcatSeq
<1>10. /\ IsSeq(functions') /\ Len(functions') = Base + Count
       /\ \A k \in 1 .. Base : functions'[k] = functions[k]
       /\ \A j \in 1 .. Count : functions'[Base + j] = new[j]
  BY <1>3, <1>8, <1>9 DEF IsConcat
<1>11. ASSUME NEW j \in 1 .. Count
       PROVE  LET f == functions'[Base + j]
              IN  /\ IsFn(f) /\ f.guard = <<>> /\ f.unit = Chosen(j).unit
                  /\ f.name = Name(Pkg, <<PatchClass>>, <<Method(j)>>, <<>>)
  <2> DEFINE f == functions'[Base + j]
             m == Made(<<PatchClass>>, Method(j), "throws")
  <2>1. EditedTo(f, m, <<>>, "throws", source.functions[collected[j]].unit)
    BY <1>7, <1>8, <1>10
  <2>2. IsMade(m, <<PatchClass>>, Method(j), "throws")
    BY MadeFn
  <2>3. Chosen(j).unit = source.functions[collected[j]].unit
    BY OwnFn DEF Chosen, Source
  <2> HIDE DEF f, m
  <2>4. /\ IsFn(f) /\ f.guard = <<>> /\ f.unit = Chosen(j).unit
        /\ f.name = Name(Pkg, <<PatchClass>>, <<Method(j)>>, <<>>)
    BY <2>1, <2>2, <2>3 DEF EditedTo, Alike, IsMade
  <2> QED  BY <2>4 DEF f
<1>12. classes' = <<InitPart, GuardPart, PatchPart>>
  <2>1. classes = <<InitPart, GuardPart>>
    BY <1>1, <1>2 DEF PackageOK, ClassesOK
  <2>2. classes' = Append(classes, PatchPart)
    BY <1>5 DEF PatchPart
  <2> QED  BY <2>1, <2>2, AppendShort
<1> QED  BY <1>1, <1>2, <1>3, <1>10, <1>11, <1>12

LEMMA GenPatchClassStep == ASSUME PluginInv, GenPatchClass PROVE PluginInv'
<1>1. /\ phase = "patch" /\ phase' \in {"stub", "done"} /\ (phase' = "stub" => source.stubTest) /\ index' = 1
      /\ index > Len(collected) /\ SourceOK /\ CollectedOK /\ PackageOK /\ Given \in Nat
      /\ UNCHANGED <<source, collected, seen, globals, gvi>>
  BY SourceNames DEF GenPatchClass, PluginInv, Constructed
<1>2. Count = Len(collected) /\ Count \in Nat /\ ~HasPatchClass /\ Base = Len(functions) /\ Base \in Nat
  <2>1. Len(collected) \in Nat /\ index = Len(collected) + 1
    BY <1>1, SeqFacts DEF CollectedOK, PluginInv
  <2> QED  BY <1>1, <2>1 DEF Count, HasPatchClass, Base, PackageOK, FunctionsOK
<1>3. Count' = Count /\ HasPatchClass' /\ Base' = Len(functions') - Count
  BY <1>1, <1>2 DEF Count, HasPatchClass, Base
<1>4. Given' = Given /\ \A k : Source(k)' = Source(k) /\ Chosen(k)' = Chosen(k) /\ Method(k)' = Method(k)
  BY <1>1 DEF Given, Source, Chosen, Method
<1>5. gvi = <<>> <=> Count = 0
  BY <1>1 DEF PackageOK, StoresOK
<1>6. /\ IsSeq(functions') /\ Len(functions') = Base + Count
      /\ \A k \in 1 .. Base : functions'[k] = functions[k]
      /\ \A j \in 1 .. Count :
           LET f == functions'[Base + j]
           IN  /\ IsFn(f) /\ f.guard = <<>> /\ f.unit = Chosen(j).unit
               /\ f.name = Name(Pkg, <<PatchClass>>, <<Method(j)>>, <<>>)
  <2>1. CASE gvi = <<>>
    <3>1. functions' = functions /\ IsSeq(functions)
      BY <1>1, <2>1 DEF GenPatchClass, PackageOK, FunctionsOK
    <3> QED  BY <1>2, <1>5, <2>1, <3>1
  <2>2. CASE gvi # <<>>
    BY <2>2, PatchClassFns
  <2> QED  BY <2>1, <2>2
<1>7. Base' = Base
  BY <1>2, <1>3, <1>6
<1>8. \A k \in 1 .. Len(functions') : k \in 1 .. Base \/ \E j \in 1 .. Count : k = Base + j
  <2>1. SUFFICES ASSUME NEW k \in 1 .. Len(functions'), k \notin 1 .. Base
                 PROVE  \E j \in 1 .. Count : k = Base + j
    OBVIOUS
  <2>2. k - Base \in 1 .. Count /\ k = Base + (k - Base)
    BY <1>2, <1>6, <2>1
  <2> QED  BY <2>2
<1>9. /\ \A k \in 1 .. Base : FunctionOK(k)
      /\ Base >= Given + 7
      /\ IF Count = 0 THEN Base = Given + 7 ELSE Base >= Given + 8
  BY <1>1, <1>2 DEF PackageOK, FunctionsOK
<1>10. ASSUME NEW k \in 1 .. Base PROVE FunctionOK(k)'
  <2>1. FunctionOK(k) /\ functions'[k] = functions[k] /\ ~(k > Base) /\ ~(k > Base')
    BY <1>2, <1>6, <1>7, <1>9
  <2> QED  BY <1>3, <1>4, <1>7, <2>1 DEF FunctionOK
<1>11. ASSUME NEW j \in 1 .. Count PROVE FunctionOK(Base + j)'
  <2>n. PICK k : k = Base + j /\ k \in Nat
    BY <1>2
  <2>1. /\ ~(k <= Given) /\ k \notin Given + 1 .. Given + 3 /\ k \notin Given + 4 .. Given + 7
        /\ ~(k = Given + 8 /\ Count > 0) /\ k > Base /\ ~(k <= Base) /\ k - Base = j
    BY <1>1, <1>2, <1>9, <2>n
  <2>2. /\ IsFn(functions'[k]) /\ functions'[k].unit = Chosen(j).unit
        /\ functions'[k].name = Name(Pkg, <<PatchClass>>, <<Method(j)>>, <<>>)
    BY <1>6, <2>n
  <2>3. k - Base' = j /\ k > Base' /\ ~(k <= Base')
    BY <1>7, <2>1
  <2>4. FunctionOK(k)'
    BY <1>3, <1>4, <2>1, <2>2, <2>3 DEF FunctionOK
  <2>5. k = (Base + j)'
    BY <1>7, <2>n
  <2> QED  BY <2>4, <2>5
<1>12. FunctionsOK'
  <2>1. \A k \in 1 .. Len(functions') : FunctionOK(k)'
    <3>1. SUFFICES ASSUME NEW k \in 1 .. Len(functions') PROVE FunctionOK(k)'
      OBVIOUS
    <3>2. CASE k \in 1 .. Base
      BY <1>10, <3>2
    <3>3. CASE \E j \in 1 .. Count : k = Base + j
      <4>1. PICK j \in 1 .. Count : k = Base + j
        BY <3>3
      <4>2. FunctionOK(Base + j)' /\ k = (Base + j)'
        BY <1>7, <1>11, <4>1
      <4> QED  BY <4>2
    <3> QED  BY <1>8, <3>2, <3>3
  <2> QED  BY <1>2, <1>3, <1>4, <1>6, <1>7, <1>9, <2>1 DEF FunctionsOK
<1>13. GuardsOK'
  <2>1. /\ \A k \in 1 .. Len(functions) : functions[k].guard # <<>> => \E j \in 1 .. Count : k = collected[j]
        /\ \A j \in 1 .. Count : functions[collected[j]].guard = <<3 + j>>
    BY <1>1 DEF PackageOK, GuardsOK
  <2>2. \A j \in 1 .. Count : collected[j] \in 1 .. Base
    BY <1>1, <1>2, <1>9 DEF CollectedOK
  <2>3. \A j \in 1 .. Count : functions'[collected[j]].guard = <<3 + j>>
    BY <1>6, <2>1, <2>2
  <2>4. \A k \in 1 .. Len(functions') : functions'[k].guard # <<>> => \E j \in 1 .. Count : k = collected[j]
    <3>1. SUFFICES ASSUME NEW k \in 1 .. Len(functions'), functions'[k].guard # <<>>
                   PROVE  \E j \in 1 .. Count : k = collected[j]
      OBVIOUS
    <3>2. k \in 1 .. Base
      BY <1>6, <1>8, <3>1
    <3> QED  BY <1>2, <1>6, <2>1, <3>1, <3>2
  <2> QED  BY <1>1, <1>3, <2>3, <2>4 DEF GuardsOK
<1>14. BodiesOK'
  BY <1>1, <1>2, <1>6, <1>7 DEF PackageOK, BodiesOK
<1>15. GlobalsOK'
  BY <1>1, <1>3, <1>4 DEF PackageOK, GlobalsOK
<1>16. ClassesOK'
  <2>1. InitPart' = InitPart /\ GuardPart' = GuardPart /\ PatchPart' = PatchPart
    <3>1. Methods' = Methods
      BY <1>3, <1>4 DEF Methods
    <3> QED  BY <3>1 DEF InitPart, GuardPart, PatchPart
  <2>2. CASE gvi = <<>>
    <3>1. classes' = classes /\ classes = <<InitPart>>
      BY <1>1, <1>5, <2>2 DEF GenPatchClass, PackageOK, ClassesOK
    <3> QED  BY <1>3, <1>5, <2>1, <2>2, <3>1 DEF ClassesOK
  <2>3. CASE gvi # <<>>
    <3>1. classes' = <<InitPart, GuardPart, PatchPart>>
      BY <2>3, PatchClassFns
    <3> QED  BY <1>3, <1>5, <2>1, <2>3, <3>1 DEF ClassesOK
  <2> QED  BY <2>2, <2>3
<1>17. StoresOK'
  <2>1. /\ IsSeq(gvi) /\ Len(gvi) \in Nat /\ Len(gvi) <= 1 /\ NoneStore' = NoneStore
        /\ \A k \in 1 .. Len(gvi) : k = 1 /\ gvi[k] = NoneStore
    <3>1. IsSeq(gvi) /\ Len(gvi) \in Nat /\ Len(gvi) <= 1 /\ NoneStore' = NoneStore
      BY <1>1, SeqFacts DEF PackageOK, StoresOK, NoneStore
    <3>2. \A k \in 1 .. Len(gvi) : k = 1
      BY <3>1
    <3> QED  BY <1>1, <3>1, <3>2 DEF PackageOK, StoresOK
  <2>2. \A k \in 1 .. Len(gvi') : /\ k = 1 => gvi'[k] = NoneStore'
                                  /\ k # 2 /\ ~(k > 2)
    BY <1>1, <2>1
  <2>3. (\A k \in 1 .. Len(gvi) : /\ k = 1 => gvi[k] = NoneStore
                                  /\ k = 2 => gvi[k] = InstanceStore
                                  /\ k > 2 => StoreOK(k))'
    BY <2>2
  <2>4. (gvi = <<>> <=> Count = 0)'
    BY <1>1, <1>3, <1>5
  <2>5. (phase = "stub patch" /\ Count > 0 => Len(gvi) >= 2)'
    BY <1>1
  <2>6. (phase \in {"stub", "stub patch"} => source.stubTest)'
    BY <1>1
  <2>7. (phase \in {"find", "patch", "stub"} => Len(gvi) <= 1)' /\ IsSeq(gvi')
    BY <1>1, <2>1
  <2> QED  BY <2>3, <2>4, <2>5, <2>6, <2>7, Zenon DEF StoresOK
<1>18. SourceOK' /\ CollectedOK'
  BY <1>1, SameSource, SameCollected
<1> QED  BY <1>1, <1>12, <1>13, <1>14, <1>15, <1>16, <1>17, <1>18 DEF PluginInv, PackageOK, Constructed

LEMMA PatchMethods ==
  ASSUME SourceOK, CollectedOK, PackageOK, HasPatchClass, NEW j \in 1 .. Count
  PROVE  /\ Base \in Nat /\ Base >= Given + 8 /\ Count \in Nat /\ Given \in Nat /\ j \in 1 .. Len(collected)
         /\ Len(functions) = Base + Count
         /\ collected[j] \in 1 .. Given /\ Base + j \in 1 .. Len(functions) /\ FunctionOK(Base + j)
         /\ FunctionOK(collected[j]) /\ functions[collected[j]].name = Chosen(j).name
         /\ functions[Base + j].unit = Chosen(j).unit
         /\ PatchMethodOf(functions[collected[j]]) = Base + j
<1>1. Count = Len(collected) /\ Count \in Nat /\ Given \in Nat /\ j \in Nat /\ Count # 0
  <2>1. Count = Len(collected)
    BY DEF Count, HasPatchClass
  <2> QED  BY <2>1, ChosenApart, SourceNames
<1>2. /\ IsSeq(functions) /\ Base \in Nat /\ Base >= Given + 8 /\ \A k \in 1 .. Len(functions) : FunctionOK(k)
  BY <1>1 DEF PackageOK, FunctionsOK
<1>3. Len(functions) \in Nat /\ Len(functions) = Base + Count /\ DOMAIN functions = 1 .. Len(functions)
  BY <1>1, <1>2, SeqFacts DEF Base
<1>4. collected[j] \in 1 .. Given /\ collected[j] \in 1 .. Len(functions) /\ Base + j \in 1 .. Len(functions)
  BY <1>1, <1>2, <1>3 DEF CollectedOK
<1>5. FunctionOK(collected[j]) /\ functions[collected[j]].name = Chosen(j).name
  <2>1. FunctionOK(collected[j]) /\ collected[j] <= Given
    BY <1>2, <1>4
  <2>2. functions[collected[j]].name = Source(collected[j]).name
    BY <2>1 DEF FunctionOK
  <2> QED  BY <2>1, <2>2 DEF Chosen
<1>6. \A k \in 1 .. Len(functions) : k > Base =>
        /\ k - Base \in 1 .. Count
        /\ functions[k].name = Name(Pkg, <<PatchClass>>, <<Method(k - Base)>>, <<>>)
        /\ functions[k].unit = Chosen(k - Base).unit
  <2>1. SUFFICES ASSUME NEW k \in 1 .. Len(functions), k > Base
                 PROVE  /\ k - Base \in 1 .. Count
                        /\ functions[k].name = Name(Pkg, <<PatchClass>>, <<Method(k - Base)>>, <<>>)
                        /\ functions[k].unit = Chosen(k - Base).unit
    OBVIOUS
  <2>2. k - Base \in 1 .. Count
    BY <1>1, <1>2, <1>3, <2>1
  <2>3. FunctionOK(k)
    BY <1>2
  <2>4. /\ functions[k].name = Name(Pkg, <<PatchClass>>, <<Method(k - Base)>>, <<>>)
        /\ functions[k].unit = Chosen(k - Base).unit
    BY <2>1, <2>3 DEF FunctionOK
  <2> QED  BY <2>2, <2>4
<1>7. \A k \in 1 .. Len(functions) : functions[k].name.class = <<PatchClass>> => k > Base
  <2>1. SUFFICES ASSUME NEW k \in 1 .. Len(functions), functions[k].name.class = <<PatchClass>>
                 PROVE  k > Base
    OBVIOUS
  <2>2. FunctionOK(k)
    BY <1>2
  <2>3. ~(k <= Base)
    BY <2>1, <2>2 DEF FunctionOK
  <2> QED  BY <1>2, <2>3
<1>8. GuardOf(functions[collected[j]]).method = Method(j)
  BY <1>5 DEF GuardOf, Method
<1>9. \A k \in 1 .. Len(functions) :
        (functions[k].name.class = <<PatchClass>> /\ functions[k].name.func = <<Method(j)>>) <=> k = Base + j
  <2>1. SUFFICES ASSUME NEW k \in 1 .. Len(functions)
                 PROVE  (functions[k].name.class = <<PatchClass>> /\ functions[k].name.func = <<Method(j)>>)
                          <=> k = Base + j
    OBVIOUS
  <2>2. CASE k > Base
    <3>0. functions[k].name = Name(Pkg, <<PatchClass>>, <<Method(k - Base)>>, <<>>)
      BY <1>6, <2>2
    <3>1. functions[k].name.class = <<PatchClass>> /\ functions[k].name.func = <<Method(k - Base)>>
      BY <3>0 DEF Name
    <3>2. k - Base \in 1 .. Len(collected)
      BY <1>1, <1>6, <2>2
    <3>3. Method(k - Base) = Method(j) <=> k - Base = j
      BY <1>1, <3>2, ChosenApart
    <3>4. k - Base = j <=> k = Base + j
      BY <1>1, <1>2
    <3> QED  BY <3>1, <3>3, <3>4
  <2>3. CASE ~(k > Base)
    <3>1. k # Base + j
      BY <1>1, <1>2, <2>3
    <3> QED  BY <1>7, <2>3, <3>1
  <2> QED  BY <2>2, <2>3
<1>10. PatchMethodOf(functions[collected[j]]) = Base + j
  <2>1. PatchMethodOf(functions[collected[j]]) =
          CHOOSE k \in DOMAIN functions :
            functions[k].name.class = <<PatchClass>> /\ functions[k].name.func = <<Method(j)>>
    BY <1>8 DEF PatchMethodOf
  <2> QED  BY <1>3, <1>4, <1>9, <2>1
<1>11. functions[Base + j].unit = Chosen(j).unit
  <2>1. Base + j > Base /\ (Base + j) - Base = j
    BY <1>1, <1>2
  <2> QED  BY <1>4, <1>6, <2>1
<1> QED  BY <1>1, <1>2, <1>3, <1>4, <1>5, <1>10, <1>11

\* The order of the stores, and the bodies behind the flags.
LEMMA StoresInPlace ==
  ASSUME SourceOK, CollectedOK, PackageOK, Constructed PROVE FlagsComeLast
<1>1. /\ IsSeq(gvi) /\ Len(gvi) \in Nat /\ DOMAIN gvi = 1 .. Len(gvi)
      /\ \A k \in 1 .. Len(gvi) : /\ k = 1 => gvi[k] = NoneStore
                                  /\ k = 2 => gvi[k] = InstanceStore
                                  /\ k > 2 => StoreOK(k)
  BY SeqFacts DEF PackageOK, StoresOK
<1>2. NoneStore.value = "None" /\ InstanceStore.value = "instance" /\ \A f : FlagStore(f).value = "true"
  BY DEF NoneStore, InstanceStore, FlagStore
<1>3. \A k \in 1 .. Len(gvi) : k > 2 => gvi[k].value = "true"
  BY <1>1, <1>2 DEF StoreOK
<1>4. CASE Len(gvi) <= 2
  <2>1. \A k \in 1 .. Len(gvi) : k = 1 \/ k = 2
    BY <1>1, <1>4
  <2>2. \A k \in 1 .. Len(gvi) : gvi[k].value # "true"
    BY <1>1, <1>2, <2>1
  <2> QED  BY <1>1, <2>2 DEF FlagsComeLast
<1>5. CASE Len(gvi) > 2
  <2>1. HasPatchClass
    <3>1. phase \in {"find", "patch", "stub"} => Len(gvi) <= 1
      BY DEF PackageOK, StoresOK
    <3>2. phase \notin {"find", "patch", "stub"}
      BY <1>1, <1>5, <3>1
    <3> QED  BY <3>2 DEF Constructed, HasPatchClass
  <2>2. gvi[2] = InstanceStore
    BY <1>1, <1>5
  <2>3. \A k \in 1 .. Len(gvi) : gvi[k].value = "true" => k > 2
    <3>1. \A k \in 1 .. Len(gvi) : k = 1 \/ k = 2 \/ k > 2
      OBVIOUS
    <3> QED  BY <1>1, <1>2, <3>1
  <2>4. SUFFICES ASSUME NEW k \in 1 .. Len(gvi), k > 2
                 PROVE  /\ \E j \in 1 .. k - 1 : gvi[j] = InstanceStore
                        /\ ~\E j \in k .. Len(gvi) : gvi[j] = NoneStore
                        /\ ~source.throwStubs =>
                             \E i \in GuardedFunctions :
                               /\ FlagStore(functions[i]) = gvi[k]
                               /\ functions[PatchMethodOf(functions[i])].body # "throws"
    BY <1>1, <2>3 DEF FlagsComeLast
  <2>5. \E j \in 1 .. k - 1 : gvi[j] = InstanceStore
    <3>1. 2 \in 1 .. k - 1
      BY <2>4
    <3> QED  BY <2>2, <3>1
  <2>6. ~\E j \in k .. Len(gvi) : gvi[j] = NoneStore
    <3>1. \A j \in k .. Len(gvi) : j \in 1 .. Len(gvi) /\ j > 2
      BY <1>1, <2>4
    <3> QED  BY <1>2, <1>3, <3>1
  <2>7. PICK j \in 1 .. Count : /\ gvi[k] = FlagStore(Chosen(j))
                                /\ source.throwStubs \/ functions[Base + j].body # "throws"
    BY <1>1, <2>4 DEF StoreOK
  <2>8. /\ collected[j] \in 1 .. Given /\ collected[j] \in DOMAIN functions
        /\ functions[collected[j]].name = Chosen(j).name
        /\ PatchMethodOf(functions[collected[j]]) = Base + j
    <3>1. IsSeq(functions) /\ DOMAIN functions = 1 .. Len(functions)
      BY SeqFacts DEF PackageOK, FunctionsOK
    <3>2. /\ Base \in Nat /\ Base >= Given + 8 /\ Count \in Nat /\ Given \in Nat
          /\ Len(functions) = Base + Count /\ collected[j] \in 1 .. Given
      BY <2>1, PatchMethods
    <3> QED  BY <2>1, <3>1, <3>2, PatchMethods
  <2>9. functions[collected[j]].guard # <<>>
    BY DEF PackageOK, GuardsOK
  <2>10. FlagStore(functions[collected[j]]) = gvi[k]
    BY <2>7, <2>8 DEF FlagStore, GuardOf
  <2>11. collected[j] \in GuardedFunctions
    BY <2>8, <2>9 DEF GuardedFunctions, Guarded
  <2> QED  BY <2>5, <2>6, <2>7, <2>8, <2>10, <2>11
<1> QED  BY <1>1, <1>4, <1>5

\* A step that gives some functions another body, and none one that throws.
Rebodied ==
  /\ SourceOK /\ CollectedOK /\ PackageOK /\ HasPatchClass /\ HasPatchClass'
  /\ UNCHANGED <<source, collected, seen, classes, globals>>
  /\ IsSeq(functions') /\ Len(functions') = Len(functions)
  /\ \A k \in 1 .. Len(functions) :
       /\ IsFn(functions'[k]) /\ functions'[k].name = functions[k].name
       /\ functions'[k].successors = functions[k].successors
       /\ functions'[k].unit = functions[k].unit /\ functions'[k].guard = functions[k].guard
       /\ source.throwStubs \/ (functions'[k].body = "throws" => functions[k].body = "throws")

LEMMA RebodiedSame ==
  ASSUME Rebodied
  PROVE  /\ Count = Len(collected) /\ Count \in Nat /\ Given \in Nat /\ Base \in Nat /\ Base >= Given + 7
         /\ Len(functions) = Base + Count
         /\ Count' = Count /\ Given' = Given /\ Base' = Base
         /\ \A k : Source(k)' = Source(k) /\ Chosen(k)' = Chosen(k) /\ Method(k)' = Method(k)
<1>1. Count = Len(collected) /\ Count' = Len(collected)
  BY DEF Rebodied, Count, HasPatchClass
<1>2. Len(collected) \in Nat /\ Given \in Nat
  BY ChosenApart, SourceNames DEF Rebodied
<1>3. Base \in Nat /\ Base >= Given + 7 /\ Base = Len(functions) - Count /\ Len(functions) \in Nat
  BY SeqFacts DEF Rebodied, PackageOK, FunctionsOK, Base
<1>4. Base' = Len(functions) - Count
  BY <1>1 DEF Rebodied, Base
<1>5. Given' = Given /\ \A k : Source(k)' = Source(k) /\ Chosen(k)' = Chosen(k) /\ Method(k)' = Method(k)
  BY DEF Rebodied, Given, Source, Chosen, Method
<1> QED  BY <1>1, <1>2, <1>3, <1>4, <1>5

LEMMA RebodiedOK ==
  ASSUME Rebodied
  PROVE  FunctionsOK' /\ GuardsOK' /\ BodiesOK' /\ GlobalsOK' /\ ClassesOK'
<1>1. /\ SourceOK /\ CollectedOK /\ FunctionsOK /\ GuardsOK /\ BodiesOK /\ GlobalsOK /\ ClassesOK
      /\ HasPatchClass /\ HasPatchClass'
      /\ UNCHANGED <<source, collected, seen, classes, globals>>
      /\ IsSeq(functions') /\ Len(functions') = Len(functions)
  BY DEF Rebodied, PackageOK
<1>2. \A k \in 1 .. Len(functions) :
        /\ IsFn(functions'[k]) /\ functions'[k].name = functions[k].name
        /\ functions'[k].successors = functions[k].successors
        /\ functions'[k].unit = functions[k].unit /\ functions'[k].guard = functions[k].guard
        /\ source.throwStubs \/ (functions'[k].body = "throws" => functions[k].body = "throws")
  BY DEF Rebodied
<1>3. /\ Count = Len(collected) /\ Count \in Nat /\ Given \in Nat /\ Base \in Nat /\ Base >= Given + 7
      /\ Len(functions) = Base + Count /\ Count' = Count /\ Given' = Given /\ Base' = Base
      /\ \A k : Source(k)' = Source(k) /\ Chosen(k)' = Chosen(k) /\ Method(k)' = Method(k)
  BY RebodiedSame
<1>4. FunctionsOK'
  <2>1. ASSUME NEW k \in 1 .. Len(functions) PROVE FunctionOK(k)'
    <3>1. FunctionOK(k)
      BY <1>1 DEF FunctionsOK
    <3>2. /\ IsFn(functions'[k]) /\ functions'[k].name = functions[k].name
          /\ functions'[k].successors = functions[k].successors
          /\ functions'[k].unit = functions[k].unit
      BY <1>2
    <3> QED  BY <1>3, <3>1, <3>2 DEF FunctionOK
  <2>2. Base \in Nat /\ Base >= Given + 7 /\ IF Count = 0 THEN Base = Given + 7 ELSE Base >= Given + 8
    BY <1>1 DEF FunctionsOK
  <2>3. (\A k \in 1 .. Len(functions) : FunctionOK(k))'
    BY <1>1, <2>1
  <2>4. (Base \in Nat /\ Base >= Given + 7 /\ IF Count = 0 THEN Base = Given + 7 ELSE Base >= Given + 8)'
    BY <1>3, <2>2
  <2>5. IsSeq(functions')
    BY <1>1
  <2> QED  BY <2>3, <2>4, <2>5, Zenon DEF FunctionsOK
<1>5. GuardsOK'
  <2>1. /\ \A k \in 1 .. Len(functions) : functions[k].guard # <<>> => \E j \in 1 .. Count : k = collected[j]
        /\ \A j \in 1 .. Count : functions[collected[j]].guard = <<3 + j>>
    BY <1>1 DEF GuardsOK
  <2>2. \A j \in 1 .. Count : collected[j] \in 1 .. Len(functions)
    BY <1>1, <1>3 DEF CollectedOK
  <2>3. \A j \in 1 .. Count : functions'[collected[j]].guard = <<3 + j>>
    BY <1>2, <2>1, <2>2
  <2> QED  BY <1>1, <1>2, <1>3, <2>1, <2>3 DEF GuardsOK
<1>6. BodiesOK'
  <2>1. SUFFICES ASSUME ~source.throwStubs, NEW k \in 1 .. Base PROVE functions'[k].body # "throws"
    BY <1>1, <1>3 DEF BodiesOK
  <2>2. functions[k].body # "throws" /\ k \in 1 .. Len(functions)
    BY <1>1, <1>3, <2>1 DEF BodiesOK
  <2> QED  BY <1>2, <2>1, <2>2
<1>7. GlobalsOK'
  BY <1>1, <1>3 DEF GlobalsOK
<1>8. ClassesOK'
  <2>1. Methods' = Methods
    BY <1>3 DEF Methods
  <2>2. InitPart' = InitPart /\ GuardPart' = GuardPart /\ PatchPart' = PatchPart
    BY <2>1 DEF InitPart, GuardPart, PatchPart
  <2> QED  BY <1>1, <1>3, <2>2 DEF ClassesOK
<1> QED  BY <1>4, <1>5, <1>6, <1>7, <1>8

LEMMA RebodiedStores ==
  ASSUME Rebodied, NEW k, StoreOK(k), gvi'[k] = gvi[k] PROVE StoreOK(k)'
<1>1. PICK j \in 1 .. Count : /\ gvi[k] = FlagStore(Chosen(j))
                              /\ source.throwStubs \/ functions[Base + j].body # "throws"
  BY DEF StoreOK
<1>2. /\ Count' = Count /\ Base' = Base /\ Base \in Nat /\ Count \in Nat /\ Len(functions) = Base + Count
      /\ Chosen(j)' = Chosen(j) /\ source' = source
  BY RebodiedSame DEF Rebodied
<1>3. Base + j \in 1 .. Len(functions)
  BY <1>2
<1>4. source.throwStubs \/ functions'[Base + j].body # "throws"
  BY <1>1, <1>3 DEF Rebodied
<1>5. FlagStore(Chosen(j))' = FlagStore(Chosen(j))
  BY <1>2 DEF FlagStore
<1> QED  BY <1>1, <1>2, <1>4, <1>5 DEF StoreOK

\* The stores behind gvi and one more.
AnotherStore(e) ==
  /\ Rebodied /\ gvi # <<>> /\ gvi' = Append(gvi, e) /\ source.stubTest
  /\ phase' \in {"stub patch", "done"}
  /\ Len(gvi) = 1 => e = InstanceStore
  /\ Len(gvi) # 1 => \E j \in 1 .. Count : /\ e = FlagStore(Chosen(j))
                                           /\ source.throwStubs \/ functions'[Base + j].body # "throws"

LEMMA RebodiedStoresOK == ASSUME NEW e, AnotherStore(e) PROVE StoresOK'
<1>1. /\ Count' = Count /\ Base' = Base /\ source' = source
      /\ \A k : Chosen(k)' = Chosen(k)
  BY RebodiedSame DEF AnotherStore, Rebodied
<1>2. /\ IsSeq(gvi) /\ (gvi = <<>> <=> Count = 0)
      /\ \A k \in 1 .. Len(gvi) : /\ k = 1 => gvi[k] = NoneStore
                                  /\ k = 2 => gvi[k] = InstanceStore
                                  /\ k > 2 => StoreOK(k)
  BY DEF AnotherStore, Rebodied, PackageOK, StoresOK
<1>3. IsAppend(gvi', gvi, e)
  BY <1>2, AppendSeq DEF AnotherStore
<1>n. PICK n \in Nat : n = Len(gvi)
  BY <1>3 DEF IsAppend
<1>4. /\ IsSeq(gvi') /\ gvi'[n + 1] = e
      /\ \A k \in 1 .. n : gvi'[k] = gvi[k]
  BY <1>3, <1>n DEF IsAppend
<1>l. Len(gvi') = n + 1
  BY <1>3, <1>n DEF IsAppend
<1>5. n # 0 /\ gvi' # <<>> /\ Count # 0
  <2>1. n # 0
    BY <1>2, <1>n, EmptySeq DEF AnotherStore, IsSeq
  <2>2. gvi' # <<>>
    BY <1>l, <1>n, ShortSeqs
  <2> QED  BY <1>2, <2>1, <2>2 DEF AnotherStore
<1>6. NoneStore' = NoneStore /\ InstanceStore' = InstanceStore /\ \A f : FlagStore(f)' = FlagStore(f)
  BY DEF NoneStore, InstanceStore, FlagStore
<1>7. \A k \in 1 .. n : /\ k = 1 => gvi'[k] = NoneStore
                        /\ k = 2 => gvi'[k] = InstanceStore
                        /\ k > 2 => StoreOK(k)'
  BY <1>2, <1>4, <1>n, RebodiedStores DEF AnotherStore
<1>8. /\ n + 1 = 2 => gvi'[n + 1] = InstanceStore
      /\ n + 1 > 2 => StoreOK(n + 1)'
  <2>1. CASE n = 1
    <3>0. e = InstanceStore
      BY <1>n, <2>1 DEF AnotherStore
    <3>1. e = InstanceStore /\ ~(n + 1 > 2)
      BY <2>1, <3>0
    <3> QED  BY <1>4, <3>1
  <2>2. CASE n # 1
    <3>1. PICK j \in 1 .. Count : /\ e = FlagStore(Chosen(j))
                                  /\ source.throwStubs \/ functions'[Base + j].body # "throws"
      BY <1>n, <2>2 DEF AnotherStore
    <3>2. gvi'[n + 1] = FlagStore(Chosen(j))'
      BY <1>1, <1>4, <1>6, <3>1
    <3>3. (source.throwStubs \/ functions[Base + j].body # "throws")' /\ j \in 1 .. Count'
      BY <1>1, <3>1
    <3>4. StoreOK(n + 1)'
      BY <3>2, <3>3 DEF StoreOK
    <3>5. n + 1 # 2
      BY <1>n, <2>2
    <3> QED  BY <3>4, <3>5
  <2> QED  BY <2>1, <2>2
<1>9. \A k \in 1 .. n + 1 : k \in 1 .. n \/ k = n + 1
  BY <1>n
<1>10. (\A k \in 1 .. Len(gvi) : /\ k = 1 => gvi[k] = NoneStore
                                 /\ k = 2 => gvi[k] = InstanceStore
                                 /\ k > 2 => StoreOK(k))'
  <2>1. \A k \in 1 .. n + 1 : /\ k = 1 => gvi'[k] = NoneStore
                              /\ k = 2 => gvi'[k] = InstanceStore
                              /\ k > 2 => StoreOK(k)'
    <3>1. SUFFICES ASSUME NEW k \in 1 .. n + 1
                   PROVE  /\ k = 1 => gvi'[k] = NoneStore
                          /\ k = 2 => gvi'[k] = InstanceStore
                          /\ k > 2 => StoreOK(k)'
      OBVIOUS
    <3>2. CASE k \in 1 .. n
      BY <1>7, <3>2
    <3>3. CASE k = n + 1
      <4>1. k # 1
        BY <1>5, <1>n, <3>3
      <4> QED  BY <1>8, <3>3, <4>1
    <3> QED  BY <1>9, <3>2, <3>3
  <2> QED  BY <1>6, <1>l, <2>1
<1>11. (phase = "stub patch" /\ Count > 0 => Len(gvi) >= 2)'
  <2>1. n # 0
    BY <1>5
  <2>2. n + 1 >= 2
    BY <1>n, <2>1
  <2> QED  BY <1>l, <2>2
<1>12. (phase \in {"find", "patch", "stub"} => Len(gvi) <= 1)'
  BY DEF AnotherStore
<1>13. (gvi = <<>> <=> Count = 0)' /\ (phase \in {"stub", "stub patch"} => source.stubTest)' /\ IsSeq(gvi')
  BY <1>1, <1>4, <1>5 DEF AnotherStore
<1> QED  BY <1>10, <1>11, <1>12, <1>13, Zenon DEF StoresOK
-----------------------------------------------------------------------------
(***************************************************************************)
(* The steps of the stub patcher.                                          *)
(***************************************************************************)
LEMMA AroundOne == \A n \in Nat : (n <= 1 /\ n # 0 => n = 1) /\ (n >= 2 => n # 1)
  OBVIOUS

LEMMA ConstructStubStep == ASSUME PluginInv, ConstructStub PROVE PluginInv'
<1>1. /\ phase = "stub" /\ phase' \in {"failed", "stub patch"}
      /\ phase' = "failed" => Missing({"println"}) /\ gvi' = gvi
      /\ phase' = "stub patch" => gvi' = IF gvi = <<>> THEN gvi ELSE Append(gvi, InstanceStore)
      /\ UNCHANGED <<source, functions, classes, globals, index, collected, seen>>
      /\ SourceOK /\ CollectedOK /\ PackageOK
  BY DEF ConstructStub, PluginInv, Constructed
<1>2. SourceOK' /\ CollectedOK'
  BY <1>1, SameSource, SameCollected DEF CollectedOK
<1>3. CASE phase' = "failed"
  <2>1. FlagsComeLast'
    BY <1>1, <1>3, StoresInPlace, SameFlagsComeLast DEF Constructed
  <2>2. RefusesWithReason'
    BY <1>1, <1>3 DEF RefusesWithReason, Missing, Lookup
  <2> QED  BY <1>2, <1>3, <2>1, <2>2 DEF PluginInv, Constructed
<1>4. CASE phase' = "stub patch"
  <2>1. HasPatchClass /\ HasPatchClass'
    BY <1>1, <1>4 DEF HasPatchClass
  <2>2. Rebodied
    <3>1. IsSeq(functions) /\ \A k \in 1 .. Len(functions) : IsFn(functions[k])
      BY <1>1 DEF PackageOK, FunctionsOK, FunctionOK
    <3> QED  BY <1>1, <2>1, <3>1 DEF Rebodied
  <2>3. source.stubTest
    BY <1>1 DEF PackageOK, StoresOK
  <2>4. StoresOK'
    <3>1. CASE gvi = <<>>
      <4>1. gvi' = <<>> /\ Count' = Count /\ (gvi = <<>> <=> Count = 0) /\ Count = 0
        BY <1>1, <1>4, <2>2, <3>1, RebodiedSame DEF PackageOK, StoresOK
      <4>2. IsSeq(<<>>) /\ Len(<<>>) = 0
        BY ShortSeqs
      <4>3. (\A k \in 1 .. Len(gvi) : /\ k = 1 => gvi[k] = NoneStore
                                      /\ k = 2 => gvi[k] = InstanceStore
                                      /\ k > 2 => StoreOK(k))'
        <5>1. \A k \in 1 .. Len(gvi') : FALSE
          BY <4>1, <4>2
        <5> QED  BY <5>1
      <4>4. (gvi = <<>> <=> Count = 0)' /\ IsSeq(gvi')
        BY <4>1, <4>2
      <4>5. ~(Count' > 0)
        BY <4>1
      <4>6. (phase \in {"find", "patch", "stub"} => Len(gvi) <= 1)'
        BY <1>4
      <4>7. (phase \in {"stub", "stub patch"} => source.stubTest)'
        BY <1>1, <2>3
      <4> QED  BY <4>3, <4>4, <4>5, <4>6, <4>7, Zenon DEF StoresOK
    <3>2. CASE gvi # <<>>
      <4>1. Len(gvi) = 1
        <5>1. IsSeq(gvi) /\ Len(gvi) <= 1
          BY <1>1 DEF PackageOK, StoresOK
        <5>2. Len(gvi) # 0
          BY <3>2, <5>1, EmptySeq DEF IsSeq
        <5>3. Len(gvi) \in Nat
          BY <5>1, SeqFacts
        <5>4. Len(gvi) <= 1
          BY <5>1
        <5> QED  BY <5>2, <5>3, <5>4, AroundOne, Zenon
      <4>2. AnotherStore(InstanceStore)
        BY <1>1, <1>4, <2>2, <2>3, <3>2, <4>1 DEF AnotherStore
      <4> QED  BY <4>2, RebodiedStoresOK
    <3> QED  BY <3>1, <3>2
  <2> QED  BY <1>2, <1>4, <2>2, <2>4, RebodiedOK DEF PluginInv, PackageOK, Constructed
<1> QED  BY <1>1, <1>3, <1>4

\* The step of the stub patcher that takes the jth of the collected functions.
StubAt(j) ==
  /\ phase = "stub patch" /\ j = index /\ j \in 1 .. Len(collected) /\ Count = Len(collected)
  /\ SourceOK /\ CollectedOK /\ PackageOK /\ HasPatchClass /\ source.stubTest
  /\ UNCHANGED <<source, classes, globals, collected, seen>>

LEMMA StubbedAt ==
  ASSUME PluginInv, StubPatch
  PROVE  \E j : /\ StubAt(j)
                /\ \/ UNCHANGED <<phase, functions, gvi>> /\ index' = index + 1
                   \/ StubFails(collected[j]) /\ phase' = "failed" /\ UNCHANGED <<index, functions, gvi>>
                   \/ /\ ~StubFails(collected[j]) /\ functions' = Stubbed(collected[j])
                      /\ gvi' = Append(gvi, FlagStore(functions[collected[j]]))
                      /\ index' = index + 1 /\ UNCHANGED phase
<1>1. /\ phase = "stub patch" /\ SourceOK /\ CollectedOK /\ PackageOK /\ HasPatchClass
      /\ Count = Len(collected) /\ UNCHANGED <<source, classes, globals, collected, seen>>
  BY DEF StubPatch, PluginInv, Constructed, HasPatchClass, Count
<1>2. source.stubTest
  BY <1>1 DEF PackageOK, StoresOK
<1>3. index \in 1 .. Len(collected)
  <2>1. index \in Nat \ {0} /\ index <= Len(collected) /\ IsSeq(collected)
    BY <1>1 DEF StubPatch, CollectedOK
  <2>2. Len(collected) \in Nat
    BY <2>1, SeqFacts
  <2> QED  BY <2>1, <2>2
<1>4. StubAt(index)
  BY <1>1, <1>2, <1>3 DEF StubAt
<1> QED  BY <1>4 DEF StubPatch

LEMMA StubFailsReason ==
  ASSUME NEW j, StubAt(j), StubFails(collected[j]), phase' = "failed", UNCHANGED <<functions, gvi, index>>
  PROVE  PluginInv'
<1>1. /\ SourceOK /\ CollectedOK /\ PackageOK /\ HasPatchClass /\ source.stubTest /\ j \in 1 .. Count
      /\ UNCHANGED <<source, classes, globals, collected, seen>> /\ Constructed
  BY DEF StubAt, Constructed
<1>2. /\ collected[j] \in 1 .. Given /\ PatchMethodOf(functions[collected[j]]) = Base + j
      /\ functions[Base + j].unit = Chosen(j).unit
  BY <1>1, PatchMethods
<1>3. Chosen(j).unit = source.functions[collected[j]].unit
  BY OwnFn DEF Chosen, Source
<1>4. collected[j] \in DOMAIN source.functions
  BY <1>1, <1>2, SourceNames, SeqFacts DEF Given
<1>5. ~source.functions[collected[j]].unit \/ source.functions[collected[j]].stub # 0
  BY <1>2, <1>3 DEF StubFails
<1>6. RefusesWithReason'
  BY <1>1, <1>4, <1>5 DEF RefusesWithReason
<1>7. FlagsComeLast'
  BY <1>1, StoresInPlace, SameFlagsComeLast
<1>8. SourceOK' /\ CollectedOK'
  BY <1>1, SameSource, SameCollected DEF CollectedOK
<1> QED  BY <1>6, <1>7, <1>8 DEF PluginInv, Constructed

\* r is fs, but the kth function has the body b.
IsRebodied(r, fs, k, b) ==
  /\ IsSeq(r) /\ Len(r) = Len(fs)
  /\ \A n \in 1 .. Len(fs) :
       EditedTo(r[n], fs[n], fs[n].guard, IF n = k THEN b ELSE fs[n].body, fs[n].unit)

LEMMA RebodiedFns ==
  ASSUME NEW fs, IsSeq(fs), \A n \in 1 .. Len(fs) : IsFn(fs[n]), NEW k \in 1 .. Len(fs), NEW b,
         NEW r, r = [fs EXCEPT ![k].body = b]
  PROVE  IsRebodied(r, fs, k, b)
<1> DEFINE h == [fs[k] EXCEPT !.body = b]
<1>1. DOMAIN fs = 1 .. Len(fs)
  BY SeqFacts
<1>2. r = [fs EXCEPT ![k] = h]
  OBVIOUS
<1>3. EditedTo(h, fs[k], fs[k].guard, b, fs[k].unit)
  <2>1. IsFn(fs[k])
    OBVIOUS
  <2> QED  BY <2>1, EditedFn
<1> HIDE DEF h
<1>4. IsSeq(r) /\ Len(r) = Len(fs) /\ r[k] = h /\ \A n \in 1 .. Len(fs) : n # k => r[n] = fs[n]
  <2>1. IsSeq(r) /\ Len(r) = Len(fs) /\ r[k] = h /\ \A n \in DOMAIN fs : n # k => r[n] = fs[n]
    <3> DEFINE t == [fs EXCEPT ![k] = h]
    <3>1. k \in DOMAIN fs
      BY <1>1
    <3>2. IsSeq(t) /\ Len(t) = Len(fs) /\ t[k] = h /\ \A n \in DOMAIN fs : n # k => t[n] = fs[n]
      BY <3>1, ExceptOfSeq
    <3>3. r = t
      BY <1>2
    <3> HIDE DEF t
    <3> QED  BY <3>2, <3>3
  <2> QED  BY <1>1, <2>1
<1>5. \A n \in 1 .. Len(fs) : n # k => EditedTo(r[n], fs[n], fs[n].guard, fs[n].body, fs[n].unit)
  BY <1>4 DEF EditedTo, Alike
<1> QED  BY <1>3, <1>4, <1>5 DEF IsRebodied

LEMMA StubSucceeds ==
  ASSUME NEW j, StubAt(j), ~StubFails(collected[j]), functions' = Stubbed(collected[j]), UNCHANGED phase
  PROVE  Rebodied /\ (source.throwStubs \/ functions'[Base + j].body # "throws")
<1> DEFINE i == collected[j]
           stub == source.functions[i].stub
<1>1. /\ SourceOK /\ CollectedOK /\ PackageOK /\ HasPatchClass /\ HasPatchClass' /\ j \in 1 .. Count
      /\ UNCHANGED <<source, classes, globals, collected, seen>>
  BY DEF StubAt, HasPatchClass
<1>2. /\ Base \in Nat /\ Base >= Given + 8 /\ Count \in Nat /\ Given \in Nat
      /\ Len(functions) = Base + Count /\ i \in 1 .. Given /\ PatchMethodOf(functions[i]) = Base + j
  BY <1>1, PatchMethods
<1>3. PICK k : k = Base + j
  OBVIOUS
<1>4. k \in 1 .. Len(functions) /\ k > Base
  BY <1>1, <1>2, <1>3
<1>5. IsSeq(functions) /\ (\A n \in 1 .. Len(functions) : IsFn(functions[n]))
  BY <1>1 DEF PackageOK, FunctionsOK, FunctionOK
<1>6. source.throwStubs \/ \A n \in 1 .. Base : functions[n].body # "throws"
  BY <1>1 DEF PackageOK, BodiesOK
<1>7. stub \in Nat
  BY <1>1, <1>2, SourceNames
<1>8. stub # 0 => ~(stub > Len(source.functions))
  BY DEF StubFails
<1>9. functions' = IF stub = 0 THEN [functions EXCEPT ![k].body = "stub"]
                   ELSE [functions EXCEPT ![k].body = functions[stub].body, ![stub].body = "none"]
  BY <1>2, <1>3 DEF Stubbed
<1> HIDE DEF i, stub
<1>10. ASSUME NEW r, r = functions'
       PROVE  /\ IsSeq(r) /\ Len(r) = Len(functions)
              /\ \A n \in 1 .. Len(functions) :
                   /\ IsFn(r[n]) /\ r[n].name = functions[n].name
                   /\ r[n].successors = functions[n].successors
                   /\ r[n].unit = functions[n].unit /\ r[n].guard = functions[n].guard
                   /\ source.throwStubs \/ (r[n].body = "throws" => functions[n].body = "throws")
              /\ source.throwStubs \/ r[k].body # "throws"
  <2>1. CASE stub = 0
    <3>1. r = [functions EXCEPT ![k].body = "stub"]
      BY <1>9, <1>10, <2>1
    <3>2. IsRebodied(r, functions, k, "stub")
      BY <1>4, <1>5, <3>1, RebodiedFns
    <3> QED  BY <1>4, <3>2 DEF IsRebodied, EditedTo, Alike
  <2>2. CASE stub # 0
    <3> DEFINE b == functions[stub].body
               s == [functions EXCEPT ![k].body = b]
    <3>1. stub \in 1 .. Base /\ stub \in 1 .. Len(functions) /\ stub # k
      <4>1. stub <= Given
        BY <1>2, <1>7, <1>8, <2>2 DEF Given
      <4> QED  BY <1>2, <1>4, <1>7, <2>2, <4>1
    <3>2. r = [s EXCEPT ![stub].body = "none"]
      BY <1>9, <1>10, <2>2
    <3>3. source.throwStubs \/ b # "throws"
      BY <1>6, <3>1
    <3> HIDE DEF b
    <3>4. IsRebodied(s, functions, k, b)
      BY <1>4, <1>5, RebodiedFns
    <3> HIDE DEF s
    <3>5. IsSeq(s) /\ Len(s) = Len(functions) /\ \A n \in 1 .. Len(s) : IsFn(s[n])
      BY <3>4 DEF IsRebodied, EditedTo, Alike
    <3>6. IsRebodied(r, s, stub, "none")
      BY <3>1, <3>2, <3>5, RebodiedFns
    <3> QED  BY <1>4, <3>1, <3>3, <3>4, <3>5, <3>6 DEF IsRebodied, EditedTo, Alike
  <2> QED  BY <2>1, <2>2
<1>11. source.throwStubs \/ functions'[Base + j].body # "throws"
  BY <1>3, <1>10
<1> QED  BY <1>1, <1>10, <1>11 DEF Rebodied

LEMMA StubPatchStep == ASSUME PluginInv, StubPatch PROVE PluginInv'
<1>1. PICK j : /\ StubAt(j)
               /\ \/ UNCHANGED <<phase, functions, gvi>> /\ index' = index + 1
                  \/ StubFails(collected[j]) /\ phase' = "failed" /\ UNCHANGED <<index, functions, gvi>>
                  \/ /\ ~StubFails(collected[j]) /\ functions' = Stubbed(collected[j])
                     /\ gvi' = Append(gvi, FlagStore(functions[collected[j]]))
                     /\ index' = index + 1 /\ UNCHANGED phase
  BY StubbedAt
<1>2. /\ phase = "stub patch" /\ SourceOK /\ CollectedOK /\ PackageOK /\ HasPatchClass /\ source.stubTest
      /\ UNCHANGED <<source, classes, globals, collected, seen>> /\ j \in 1 .. Count
  BY <1>1 DEF StubAt
<1>3. index' = index + 1 /\ phase' = phase => SourceOK' /\ CollectedOK'
  <2>1. SUFFICES ASSUME index' = index + 1, phase' = phase PROVE SourceOK' /\ CollectedOK'
    OBVIOUS
  <2>2. index \in Nat \ {0}
    BY <1>2 DEF CollectedOK
  <2>3. index' \in Nat \ {0}
    BY <2>1, <2>2
  <2> QED  BY <1>2, <2>1, <2>3, SameSource, SameCollected
<1>4. CASE UNCHANGED <<phase, functions, gvi>> /\ index' = index + 1
  <2>1. Given' = Given /\ Count' = Count /\ Base' = Base /\ (HasPatchClass' <=> HasPatchClass)
    BY <1>2, <1>4 DEF Given, Count, Base, HasPatchClass
  <2>2. \A k : Source(k)' = Source(k) /\ Chosen(k)' = Chosen(k) /\ Method(k)' = Method(k)
    BY <1>2 DEF Source, Chosen, Method
  <2>3. Rebodied
    <3>1. IsSeq(functions) /\ \A k \in 1 .. Len(functions) : IsFn(functions[k])
      BY <1>2 DEF PackageOK, FunctionsOK, FunctionOK
    <3> QED  BY <1>2, <1>4, <2>1, <3>1 DEF Rebodied
  <2>4. StoresOK'
    <3>1. \A k : StoreOK(k)' <=> StoreOK(k)
      BY <1>2, <1>4, <2>1, <2>2 DEF StoreOK, FlagStore
    <3>2. NoneStore' = NoneStore /\ InstanceStore' = InstanceStore
      BY DEF NoneStore, InstanceStore
    <3> QED  BY <1>2, <1>4, <2>1, <3>1, <3>2 DEF PackageOK, StoresOK
  <2> QED  BY <1>2, <1>3, <1>4, <2>3, <2>4, RebodiedOK DEF PluginInv, PackageOK, Constructed
<1>5. CASE StubFails(collected[j]) /\ phase' = "failed" /\ UNCHANGED <<index, functions, gvi>>
  BY <1>1, <1>5, StubFailsReason
<1>6. CASE /\ ~StubFails(collected[j]) /\ functions' = Stubbed(collected[j])
           /\ gvi' = Append(gvi, FlagStore(functions[collected[j]]))
           /\ index' = index + 1 /\ UNCHANGED phase
  <2>1. Rebodied /\ (source.throwStubs \/ functions'[Base + j].body # "throws")
    BY <1>1, <1>6, StubSucceeds
  <2>2. FlagStore(functions[collected[j]]) = FlagStore(Chosen(j))
    <3>1. functions[collected[j]].name = Chosen(j).name
      BY <1>2, PatchMethods
    <3> QED  BY <3>1 DEF FlagStore, GuardOf
  <2>3. Count \in Nat /\ Count > 0 /\ Count # 0
    <3>1. Count \in Nat
      BY <2>1, RebodiedSame
    <3>2. j \in 1 .. Count
      BY <1>2
    <3> QED  BY <3>1, <3>2
  <2>4. gvi # <<>> /\ Len(gvi) # 1
    <3>1. gvi # <<>> /\ Len(gvi) >= 2
      BY <1>2, <2>3 DEF PackageOK, StoresOK
    <3>2. IsSeq(gvi)
      BY <1>2 DEF PackageOK, StoresOK
    <3>3. Len(gvi) \in Nat
      BY <3>2, SeqFacts
    <3>4. Len(gvi) >= 2
      BY <3>1
    <3>5. Len(gvi) # 1
      BY <3>3, <3>4, AroundOne, Zenon
    <3> QED  BY <3>1, <3>5
  <2>5. AnotherStore(FlagStore(functions[collected[j]]))
    BY <1>2, <1>6, <2>1, <2>2, <2>4 DEF AnotherStore
  <2> QED  BY <1>2, <1>3, <1>6, <2>1, <2>5, RebodiedOK, RebodiedStoresOK DEF PluginInv, PackageOK, Constructed
<1> QED  BY <1>1, <1>4, <1>5, <1>6

LEMMA StubsStep == ASSUME PluginInv, Stubs PROVE PluginInv'
<1>1. /\ phase = "stub patch" /\ phase' = "done" /\ SourceOK /\ CollectedOK /\ PackageOK
      /\ UNCHANGED <<source, functions, classes, globals, gvi, collected, seen, index>>
  BY DEF Stubs, PluginInv, Constructed, package
<1>2. SourceOK' /\ CollectedOK'
  BY <1>1, SameSource, SameCollected DEF CollectedOK
<1>3. HasPatchClass /\ HasPatchClass'
  BY <1>1 DEF HasPatchClass
<1>4. Rebodied
  <2>1. IsSeq(functions) /\ \A k \in 1 .. Len(functions) : IsFn(functions[k])
    BY <1>1 DEF PackageOK, FunctionsOK, FunctionOK
  <2> QED  BY <1>1, <1>3, <2>1 DEF Rebodied
<1>5. StoresOK'
  <2>1. \A k : StoreOK(k)' <=> StoreOK(k)
    BY <1>1, <1>4, RebodiedSame DEF StoreOK, FlagStore
  <2>2. NoneStore' = NoneStore /\ InstanceStore' = InstanceStore
    BY DEF NoneStore, InstanceStore
  <2>3. Count' = Count
    BY <1>4, RebodiedSame
  <2> QED  BY <1>1, <2>1, <2>2, <2>3 DEF PackageOK, StoresOK
<1> QED  BY <1>1, <1>2, <1>4, <1>5, RebodiedOK DEF PluginInv, PackageOK, Constructed
-----------------------------------------------------------------------------
(***************************************************************************)
(* The theorem of the invariant, and what it says when a compilation ends. *)
(***************************************************************************)
LEMMA FrameStep == ASSUME PluginInv, UNCHANGED vars PROVE PluginInv'
<1>1. UNCHANGED <<source, phase, functions, classes, globals, gvi, index, collected, seen>>
  BY DEF vars, package
<1>2. /\ UNCHANGED <<Given, Count, Base>> /\ (HasPatchClass' <=> HasPatchClass) /\ (Constructed' <=> Constructed)
      /\ \A k : Source(k)' = Source(k) /\ Chosen(k)' = Chosen(k) /\ Method(k)' = Method(k)
  BY <1>1 DEF Given, Count, Base, HasPatchClass, Constructed, Source, Chosen, Method
<1>3. SourceOK' <=> SourceOK
  BY <1>1 DEF SourceOK
<1>4. CollectedOK' <=> CollectedOK
  BY <1>1, <1>2 DEF CollectedOK
<1>5. Untouched' <=> Untouched
  BY <1>1, <1>2 DEF Untouched
<1>6. PackageOK' <=> PackageOK
  <2>1. \A k : FunctionOK(k)' <=> FunctionOK(k)
    BY <1>1, <1>2 DEF FunctionOK
  <2>2. FunctionsOK' <=> FunctionsOK
    BY <1>1, <1>2, <2>1 DEF FunctionsOK
  <2>3. (GuardsOK' <=> GuardsOK) /\ (BodiesOK' <=> BodiesOK) /\ (GlobalsOK' <=> GlobalsOK)
    BY <1>1, <1>2 DEF GuardsOK, BodiesOK, GlobalsOK
  <2>4. UNCHANGED <<InitPart, GuardPart, PatchPart>>
    BY <1>2 DEF InitPart, GuardPart, PatchPart, Methods
  <2>5. ClassesOK' <=> ClassesOK
    BY <1>1, <1>2, <2>4 DEF ClassesOK
  <2>6. \A k : StoreOK(k)' <=> StoreOK(k)
    BY <1>1, <1>2 DEF StoreOK, FlagStore
  <2>7. UNCHANGED <<NoneStore, InstanceStore>>
    BY DEF NoneStore, InstanceStore
  <2>8. StoresOK' <=> StoresOK
    BY <1>1, <1>2, <2>6, <2>7 DEF StoresOK
  <2> QED  BY <2>2, <2>3, <2>5, <2>8 DEF PackageOK
<1>7. phase = "failed" => (RefusesWithReason' <=> RefusesWithReason) /\ (FlagsComeLast => FlagsComeLast')
  BY <1>1, SameFlagsComeLast DEF RefusesWithReason, Missing
<1> QED  BY <1>1, <1>2, <1>3, <1>4, <1>5, <1>6, <1>7 DEF PluginInv

LEMMA PluginStep == ASSUME PluginInv, [Next]_<<plugin, toml, filter>> PROVE PluginInv'
<1>1. CASE PluginNext
  BY <1>1, CreateStep, ConstructStep, FindStep, FoundStep, PatchStep, GenPatchClassStep,
     ConstructStubStep, StubPatchStep, StubsStep DEF PluginNext
<1>2. CASE UseRegex
  BY <1>2, FilterStep DEF UseRegex
<1>3. CASE ReadDirective \/ FormRegex \/ BuildRegex \/ Lookups \/ UNCHANGED plugin
  <2>1. UNCHANGED vars
    BY <1>3 DEF ReadDirective, FormRegex, BuildRegex, Lookups, FindParts, AskFor, plugin
  <2> QED  BY <2>1, FrameStep
<1> QED  BY <1>1, <1>2, <1>3 DEF Next

\* In every state of a compilation the package has the closed form above.
THEOREM PackageInClosedForm == Spec => []PluginInv
<1>1. EntryPointInit => PluginInv
  BY InitPlugin
<1>2. PluginInv /\ [Next]_<<plugin, toml, filter>> => PluginInv'
  BY PluginStep
<1> QED  BY <1>1, <1>2, PTL DEF Spec

\* The plugin gives up only with a reason: something is missing in the library, a
\* function does not begin with one block to guard, or a stub does not fit
\* (PatchableFinder skips what the plugin added, so it never trips over that).
THEOREM PluginRefusesWithReason == Spec => []RefusesWithReason
<1>1. PluginInv => RefusesWithReason
  BY DEF PluginInv, RefusesWithReason
<1> QED  BY <1>1, PackageInClosedForm, PTL

\* The guarded functions are the patched ones, and what belongs to the jth.
LEMMA GuardedAre ==
  ASSUME SourceOK, CollectedOK, PackageOK
  PROVE  /\ Count \in Nat /\ Given \in Nat /\ Base \in Nat /\ Base >= Given + 7
         /\ Len(functions) \in Nat /\ Base <= Len(functions)
         /\ \A i \in GuardedFunctions : \E j \in 1 .. Count : i = collected[j]
         /\ \A j \in 1 .. Count :
              /\ j \in 1 .. Len(collected) /\ collected[j] \in 1 .. Given /\ collected[j] \in 1 .. Base
              /\ collected[j] \in GuardedFunctions
              /\ functions[collected[j]].guard = <<3 + j>>
              /\ functions[collected[j]].name = Chosen(j).name
<1>1. /\ IsSeq(functions) /\ Base \in Nat /\ Base >= Given + 7 /\ Given \in Nat
      /\ \A k \in 1 .. Len(functions) : FunctionOK(k)
  BY SourceNames DEF PackageOK, FunctionsOK
<1>2. /\ \A k \in 1 .. Len(functions) : functions[k].guard # <<>> => \E j \in 1 .. Count : k = collected[j]
      /\ \A j \in 1 .. Count : functions[collected[j]].guard = <<3 + j>>
  BY DEF PackageOK, GuardsOK
<1>3. DOMAIN functions = 1 .. Len(functions) /\ Len(functions) \in Nat
  BY <1>1, SeqFacts
<1>4. Count \in Nat /\ Count <= Len(collected) /\ Base <= Len(functions) /\ Len(collected) \in Nat
  <2>1. Len(collected) \in Nat
    BY SeqFacts DEF CollectedOK
  <2>2. index \in Nat \ {0} /\ (phase = "patch" => index <= Len(collected) + 1)
    BY DEF CollectedOK
  <2>3. Count \in Nat /\ Count <= Len(collected)
    <3>1. index - 1 \in Nat /\ (phase = "patch" => index - 1 <= Len(collected))
      BY <2>1, <2>2
    <3>2. 0 <= Len(collected) /\ Len(collected) <= Len(collected)
      BY <2>1
    <3> QED  BY <2>1, <3>1, <3>2 DEF Count
  <2>4. Base <= Len(functions)
    BY <1>3, <2>3 DEF Base
  <2> QED  BY <2>1, <2>3, <2>4
<1>5. \A i \in GuardedFunctions : \E j \in 1 .. Count : i = collected[j]
  BY <1>2, <1>3 DEF GuardedFunctions, Guarded
<1>6. ASSUME NEW j \in 1 .. Count
      PROVE  /\ j \in 1 .. Len(collected) /\ collected[j] \in 1 .. Given /\ collected[j] \in 1 .. Base
             /\ collected[j] \in GuardedFunctions
             /\ functions[collected[j]].name = Chosen(j).name
  <2>1. j \in 1 .. Len(collected)
    BY <1>4
  <2>2. collected[j] \in 1 .. Given
    BY <2>1 DEF CollectedOK
  <2>3. collected[j] \in 1 .. Base /\ collected[j] \in 1 .. Len(functions) /\ collected[j] <= Given
    BY <1>1, <1>3, <1>4, <2>2
  <2>4. FunctionOK(collected[j])
    BY <1>1, <2>3
  <2>5. functions[collected[j]].name = Chosen(j).name
    BY <2>3, <2>4 DEF FunctionOK, Chosen
  <2>6. functions[collected[j]].guard # <<>>
    BY <1>2
  <2>7. collected[j] \in GuardedFunctions
    BY <1>3, <2>3, <2>6 DEF GuardedFunctions, Guarded
  <2> QED  BY <2>1, <2>2, <2>3, <2>5, <2>7
<1> QED  BY <1>1, <1>2, <1>3, <1>4, <1>5, <1>6

LEMMA FlagsAlwaysLast == ASSUME PluginInv PROVE FlagsComeLast
<1>1. CASE phase \in {"context", "filter", "construct"}
  BY <1>1, UntouchedHas DEF PluginInv
<1>2. CASE Constructed
  BY <1>2, StoresInPlace DEF PluginInv
<1>3. CASE phase = "failed"
  BY <1>3 DEF PluginInv
<1> QED  BY <1>1, <1>2, <1>3 DEF PluginInv, Constructed

\* The flag of the jth patched function is the one it tests.
LEMMA FlagOfJth ==
  ASSUME CollectedOK, PackageOK, Count \in Nat, NEW j \in 1 .. Count
  PROVE  /\ 3 + j \in 1 .. Len(globals)
         /\ globals[3 + j] = [name |-> GuardOf(Chosen(j)).flag, value |-> "false"]
<1>1. Len(globals) = 3 + Count
  <2>1. Count # 0
    OBVIOUS
  <2> QED  BY <2>1 DEF PackageOK, GlobalsOK
<1>2. 3 + j \in 1 .. 3 + Count /\ 3 + j > 3 /\ (3 + j) - 3 = j
  OBVIOUS
<1>3. \A g \in 1 .. Len(globals) :
        g > 3 => globals[g] = [name |-> GuardOf(Chosen(g - 3)).flag, value |-> "false"]
  BY DEF PackageOK, GlobalsOK
<1> QED  BY <1>1, <1>2, <1>3

LEMMA OneMethodOnly ==
  ASSUME SourceOK, CollectedOK, Count \in Nat, Count <= Len(collected), NEW j \in 1 .. Count
  PROVE  Cardinality({m \in DOMAIN Methods : Methods[m] = Method(j)}) = 1
<1>1. \A m \in 1 .. Count : Method(m) = Method(j) <=> m = j
  <2>1. \A m \in 1 .. Count : m \in 1 .. Len(collected)
    BY ChosenApart
  <2> QED  BY <2>1, ChosenApart
<1>2. DOMAIN Methods = 1 .. Count /\ \A m \in 1 .. Count : Methods[m] = Method(m)
  BY DEF Methods
<1>3. {m \in DOMAIN Methods : Methods[m] = Method(j)} = {j}
  BY <1>1, <1>2
<1> QED  BY <1>3, FS_Singleton

\* What a guarded function relies on is there and its own, for every package and
\* every selection: its flag, off; its method in the abstract guard class and, as an
\* override, in the patch class (Patcher.patch, genPatchClass); the initialiser
\* begins with None, and a flag is stored behind the instance (PatcherStub).
THEOREM GuardsAlwaysComplete == Spec => []GuardsComplete
<1>1. ASSUME PluginInv PROVE GuardsComplete
  <2>1. FlagsComeLast
    BY <1>1, FlagsAlwaysLast
  <2>2. ASSUME phase = "done"
        PROVE  /\ gvi = <<>> <=> GuardedFunctions = {}
               /\ HasClass(GuardClass) <=> gvi # <<>>
               /\ gvi # <<>> => Head(gvi) = NoneStore
               /\ \A i \in GuardedFunctions :
                    LET own == GuardOf(functions[i])   flag_ == globals[functions[i].guard[1]]
                    IN  /\ flag_ = [name |-> own.flag, value |-> "false"]
                        /\ \A k \in GuardedFunctions \ {i} : functions[k].guard # functions[i].guard
                        /\ \A class \in {GuardClass, PatchClass} :
                             Cardinality({m \in DOMAIN MethodsOf(class) : MethodsOf(class)[m] = own.method}) = 1
                        /\ \E k \in DOMAIN functions : functions[k].name.class = <<PatchClass>>
                                                     /\ functions[k].name.func = <<own.method>>
    <3>1. SourceOK /\ CollectedOK /\ PackageOK /\ HasPatchClass /\ Count = Len(collected) /\ Constructed
      BY <1>1, <2>2 DEF PluginInv, Constructed, HasPatchClass, Count
    <3>2. Count \in Nat /\ (gvi = <<>> <=> Count = 0) /\ Count <= Len(collected)
      <4>1. Count \in Nat /\ (gvi = <<>> <=> Count = 0)
        BY <3>1, GuardedAre DEF PackageOK, StoresOK
      <4>2. Count <= Count
        BY <4>1
      <4> QED  BY <3>1, <4>1, <4>2
    <3>3. gvi = <<>> <=> GuardedFunctions = {}
      <4>1. ASSUME Count # 0 PROVE GuardedFunctions # {}
        <5>1. 1 \in 1 .. Count
          BY <3>2, <4>1
        <5> QED  BY <3>1, <5>1, GuardedAre
      <4>2. ASSUME Count = 0 PROVE GuardedFunctions = {}
        <5>1. 1 .. Count = {}
          BY <4>2
        <5> QED  BY <3>1, <5>1, GuardedAre
      <4> QED  BY <3>2, <4>1, <4>2
    <3>4. HasClass(GuardClass) <=> gvi # <<>>
      <4>1. CASE Count = 0
        <5>1. classes = <<InitPart>> /\ InitPart.name # GuardClass
          BY <3>1, <4>1, ClassNames DEF PackageOK, ClassesOK, InitPart
        <5>2. \A k \in DOMAIN classes : k = 1 /\ classes[k] = InitPart
          BY <5>1
        <5> QED  BY <3>2, <4>1, <5>1, <5>2 DEF HasClass
      <4>2. CASE Count # 0
        BY <3>1, <3>2, <4>2, MethodsOfClasses DEF PackageOK
      <4> QED  BY <4>1, <4>2
    <3>5. ASSUME gvi # <<>> PROVE Head(gvi) = NoneStore
      <4>1. IsSeq(gvi) /\ \A k \in 1 .. Len(gvi) : k = 1 => gvi[k] = NoneStore
        BY <3>1 DEF PackageOK, StoresOK
      <4>2. gvi \in Seq(ToSet(gvi))
        BY <4>1 DEF IsSeq
      <4>3. Head(gvi) = gvi[1] /\ 1 \in 1 .. Len(gvi)
        BY <3>5, <4>2
      <4> QED  BY <4>1, <4>3
    <3>6. ASSUME NEW i \in GuardedFunctions
          PROVE  LET own == GuardOf(functions[i])   flag_ == globals[functions[i].guard[1]]
                 IN  /\ flag_ = [name |-> own.flag, value |-> "false"]
                     /\ \A k \in GuardedFunctions \ {i} : functions[k].guard # functions[i].guard
                     /\ \A class \in {GuardClass, PatchClass} :
                          Cardinality({m \in DOMAIN MethodsOf(class) : MethodsOf(class)[m] = own.method}) = 1
                     /\ \E k \in DOMAIN functions : functions[k].name.class = <<PatchClass>>
                                                  /\ functions[k].name.func = <<own.method>>
      <4>1. PICK j \in 1 .. Count : i = collected[j]
        BY <3>1, GuardedAre
      <4>2. functions[i].guard = <<3 + j>> /\ functions[i].name = Chosen(j).name
        BY <3>1, <4>1, GuardedAre
      <4>3. GuardOf(functions[i]).flag = GuardOf(Chosen(j)).flag /\ GuardOf(functions[i]).method = Method(j)
        BY <4>2 DEF GuardOf, Method
      <4>4. globals[functions[i].guard[1]] = [name |-> GuardOf(functions[i]).flag, value |-> "false"]
        <5>1. functions[i].guard[1] = 3 + j
          BY <4>2
        <5>2. globals[3 + j] = [name |-> GuardOf(Chosen(j)).flag, value |-> "false"]
          BY <3>1, <3>2, FlagOfJth
        <5> QED  BY <4>3, <5>1, <5>2
      <4>5. ASSUME NEW k \in GuardedFunctions \ {i} PROVE functions[k].guard # functions[i].guard
        <5>1. PICK l \in 1 .. Count : k = collected[l]
          BY <3>1, GuardedAre
        <5>2. functions[k].guard = <<3 + l>>
          BY <3>1, <5>1, GuardedAre
        <5>3. l # j
          BY <4>1, <4>5, <5>1
        <5>4. 3 + l # 3 + j
          BY <3>2, <5>3
        <5> DEFINE a == 3 + l
                   b == 3 + j
        <5> HIDE DEF a, b
        <5>5. a # b
          BY <5>4 DEF a, b
        <5>6. functions[k].guard = <<a>> /\ functions[i].guard = <<b>>
          BY <4>2, <5>2 DEF a, b
        <5> QED  BY <5>5, <5>6
      <4>6. \A class \in {GuardClass, PatchClass} : MethodsOf(class) = Methods
        <5>1. Count # 0
          BY <3>2
        <5> QED  BY <3>1, <5>1, MethodsOfClasses DEF PackageOK
      <4>7. Cardinality({m \in DOMAIN Methods : Methods[m] = Method(j)}) = 1
        BY <3>1, <3>2, OneMethodOnly
      <4>8. \E k \in DOMAIN functions : functions[k].name.class = <<PatchClass>>
                                      /\ functions[k].name.func = <<Method(j)>>
        <5>1. /\ Base + j \in 1 .. Len(functions) /\ FunctionOK(Base + j) /\ Base \in Nat /\ IsSeq(functions)
          BY <3>1, PatchMethods DEF PackageOK, FunctionsOK
        <5>2. PICK k : k = Base + j
          OBVIOUS
        <5>3. k > Base /\ k - Base = j
          BY <3>2, <5>1, <5>2
        <5>4. functions[k].name = Name(Pkg, <<PatchClass>>, <<Method(j)>>, <<>>)
          BY <5>1, <5>2, <5>3 DEF FunctionOK
        <5>5. k \in DOMAIN functions
          BY <5>1, <5>2, SeqFacts
        <5> QED  BY <5>4, <5>5 DEF Name
      <4> QED  BY <4>3, <4>4, <4>5, <4>6, <4>7, <4>8
    <3> QED  BY <3>3, <3>4, <3>5, <3>6
  <2> QED  BY <2>1, <2>2 DEF GuardsComplete
<1> QED  BY <1>1, PackageInClosedForm, PTL

-----------------------------------------------------------------------------
(***************************************************************************)
(* What patch-gen finds.                                                   *)
(***************************************************************************)

\* A search takes the first position, and there is one.
LEMMA SmallestIsThere ==
  ASSUME NEW n \in Nat, NEW T \in SUBSET (1 .. n), T # {}
  PROVE  Min(T) \in T /\ \A y \in T : Min(T) <= y
<1> DEFINE upto(x) == {y \in T : y <= x}
           F == {upto(x) : x \in T}
           N == 1 .. n
<1>1. IsWellFoundedOn(StrictSubsetOrdering(N), FiniteSubsetsOf(N))
  BY FS_StrictSubsetOrderingWellFounded
<1>2. IsFiniteSet(N)
  BY FS_Interval
<1>3. F \subseteq FiniteSubsetsOf(N) /\ F # {}
  <2>1. \A x \in T : upto(x) \in SUBSET N
    OBVIOUS
  <2>2. \A x \in T : IsFiniteSet(upto(x))
    BY <1>2, <2>1, FS_Subset
  <2> HIDE DEF N, upto
  <2> QED  BY <2>1, <2>2 DEF FiniteSubsetsOf
<1>4. \E A \in F : \A B \in F : ~(<<B, A>> \in StrictSubsetOrdering(N))
  <2> HIDE DEF F, N
  <2> QED  BY <1>1, <1>3, WFMin
<1>5. PICK x \in T : \A B \in F : ~(<<B, upto(x)>> \in StrictSubsetOrdering(N))
  BY <1>4
<1>6. \A y \in T : x <= y
  <2>1. SUFFICES ASSUME NEW y \in T, ~(x <= y) PROVE FALSE
    OBVIOUS
  <2>2. upto(y) \subseteq upto(x) /\ x \in upto(x) /\ x \notin upto(y)
    <3>1. \A z \in T : z \in Nat
      OBVIOUS
    <3>2. \A z \in T : z <= y => z <= x
      BY <2>1, <3>1
    <3>3. x <= x /\ ~(x <= y)
      BY <2>1, <3>1
    <3> QED  BY <3>2, <3>3
  <2>3. upto(y) \in SUBSET N /\ upto(x) \in SUBSET N /\ upto(y) # upto(x)
    BY <2>2
  <2>4. upto(y) \in F
    OBVIOUS
  <2> HIDE DEF upto, F, N
  <2>5. <<upto(y), upto(x)>> \in StrictSubsetOrdering(N)
    BY <2>2, <2>3 DEF StrictSubsetOrdering
  <2> QED  BY <1>5, <2>4, <2>5
<1> QED  BY <1>6 DEF Min

LEMMA FirstOf ==
  ASSUME NEW n \in Nat, NEW T \in SUBSET (1 .. n)
  PROVE  (T = {} <=> First(T) = None) /\ (T # {} => First(T) \in T)
<1>1. ASSUME T # {} PROVE First(T) \in T /\ First(T) # None
  <2>1. First(T) = Min(T)
    BY <1>1 DEF First
  <2>2. Min(T) \in T
    BY <1>1, SmallestIsThere
  <2>3. Min(T) \in Nat \ {0}
    <3>1. \A x \in T : x \in Nat \ {0}
      OBVIOUS
    <3> QED  BY <2>2, <3>1, Zenon
  <2> QED  BY <2>1, <2>2, <2>3, NoneAssumption
<1>2. T = {} => First(T) = None
  BY DEF First
<1> QED  BY <1>1, <1>2

PartsFound == {p \in DOMAIN PartNames : PartNames[p] # None}

\* The lookups begin when the package is done, and it stays as it is.
LookupInv ==
  /\ phase # "done" => parts = {} /\ asked = None
  /\ parts # {} => parts = PartsFound
  /\ asked # None =>
       /\ asked \in DOMAIN source.functions /\ IsPatchable(functions[asked])
       /\ flag = Named(globals, Cpp!GenGuardVarFlagName(functions[asked].name, FALSE))
       /\ patchMethod = MethodNamed(PatchClass, Cpp!GenGuardMethodName(functions[asked].name, "Plain"))

LEMMA SameLookups ==
  ASSUME UNCHANGED vars
  PROVE  /\ \A name : /\ FunctionNamed(name)' = FunctionNamed(name)
                      /\ Named(classes, name)' = Named(classes, name)
                      /\ Named(globals, name)' = Named(globals, name)
                      /\ MethodNamed(PatchClass, name)' = MethodNamed(PatchClass, name)
         /\ PartsFound' = PartsFound
         /\ \A i : IsPatchable(functions[i])' <=> IsPatchable(functions[i])
<1>1. UNCHANGED <<functions, classes, globals>>
  BY DEF vars, package
<1>2. \A name : /\ FunctionNamed(name)' = FunctionNamed(name)
                /\ Named(classes, name)' = Named(classes, name)
                /\ Named(globals, name)' = Named(globals, name)
                /\ MethodNamed(PatchClass, name)' = MethodNamed(PatchClass, name)
  BY <1>1 DEF FunctionNamed, Named, MethodNamed
<1>3. \A i : IsPatchable(functions[i])' <=> IsPatchable(functions[i])
  BY <1>1 DEF IsPatchable
<1>4. PartNames' = PartNames
  BY <1>2 DEF PartNames
<1> QED  BY <1>2, <1>3, <1>4 DEF PartsFound

LEMMA LookupStep == ASSUME LookupInv, [Next]_<<plugin, toml, filter>> PROVE LookupInv'
<1>1. CASE phase # "done"
  <2>1. parts = {} /\ asked = None
    BY <1>1 DEF LookupInv
  <2>2. ~FindParts /\ \A i : ~AskFor(i)
    BY <1>1, <2>1 DEF FindParts, AskFor
  <2>3. UNCHANGED lookup
    BY <2>2 DEF Next, UseRegex, ReadDirective, FormRegex, BuildRegex, Lookups, plugin
  <2> QED  BY <2>1, <2>3 DEF LookupInv, lookup
<1>2. CASE phase = "done"
  <2>1. UNCHANGED vars /\ (UNCHANGED lookup \/ Lookups)
    <3>1. ~PluginNext
      BY <1>2 DEF PluginNext, CreateContext, ConstructPatcher, FindPatchable, Found, Patch,
                  GenPatchClass, ConstructStub, StubPatch, Stubs
    <3>2. ~UseRegex
      BY <1>2 DEF UseRegex, TakeFilter
    <3>3. Lookups => UNCHANGED vars
      BY DEF Lookups, FindParts, AskFor
    <3>4. ReadDirective \/ FormRegex \/ BuildRegex \/ UNCHANGED plugin => UNCHANGED vars /\ UNCHANGED lookup
      BY DEF ReadDirective, FormRegex, BuildRegex, plugin
    <3> QED  BY <3>1, <3>2, <3>3, <3>4 DEF Next
  <2>2. phase' = phase /\ UNCHANGED <<source, functions>>
    BY <2>1 DEF vars, package
  <2>3. CASE UNCHANGED lookup
    BY <1>2, <2>1, <2>2, <2>3, SameLookups DEF LookupInv, lookup
  <2>4. CASE FindParts
    <3>1. parts' = PartsFound /\ UNCHANGED <<asked, flag, patchMethod>>
      BY <2>4 DEF FindParts, PartsFound
    <3> QED  BY <1>2, <2>1, <2>2, <3>1, SameLookups DEF LookupInv
  <2>5. ASSUME NEW i, AskFor(i) PROVE LookupInv'
    <3>1. /\ parts # {} /\ UNCHANGED parts /\ asked' = i /\ i \in DOMAIN source.functions
          /\ IsPatchable(functions[i])
          /\ flag' = Named(globals, Cpp!GenGuardVarFlagName(functions[i].name, FALSE))
          /\ patchMethod' = MethodNamed(PatchClass, Cpp!GenGuardMethodName(functions[i].name, "Plain"))
      BY <2>5 DEF AskFor
    <3> QED  BY <1>2, <2>1, <2>2, <3>1, SameLookups DEF LookupInv
  <2> QED  BY <2>1, <2>3, <2>4, <2>5 DEF Lookups
<1> QED  BY <1>1, <1>2

\* Whatever patch-gen has found, it found in the package as the plugin left it.
THEOREM LookupsOfAFinishedPackage == Spec => []LookupInv
<1>1. EntryPointInit => LookupInv
  BY DEF EntryPointInit, HandoverInitOn, LookupInv
<1>2. LookupInv /\ [Next]_<<plugin, toml, filter>> => LookupInv'
  BY LookupStep
<1> QED  BY <1>1, <1>2, PTL DEF Spec

\* patch-gen asks for what the plugin calls it.
LEMMA AskedByTheSameName ==
  /\ PartNames = [ guardVarsInitializer |-> FunctionNamed(InitializerName),
                   guardClass |-> Named(classes, GuardClass),
                   guardVar   |-> Named(globals, GenGuardVarName(Package, FALSE)),
                   patchClass |-> Named(classes, PatchClass),
                   initGetter |-> FunctionNamed(Accessors[1]),
                   initSetter |-> FunctionNamed(Accessors[2]),
                   literalGetter |-> FunctionNamed(Accessors[3]),
                   literalSetter |-> FunctionNamed(Accessors[4]) ]
  /\ \A n : Cpp!GenGuardVarFlagName(n, FALSE) = GenGuardVarFlagName(n, FALSE)
  /\ \A n : Cpp!GenGuardMethodName(n, "Plain") = GenGuardMethodName(n, "Plain")
<1>1. /\ Cpp!GenGuardVarInitializedName(Package) = InitializerName
      /\ Cpp!GenGuardClassName(Package, FALSE) = GuardClass
      /\ Cpp!GenGuardVarName(Package, FALSE) = GenGuardVarName(Package, FALSE)
  BY PartsSame DEF InitializerName, GuardClass
<1>2. Cpp!GenPatchClassName(Name(Pkg, <<GuardClass>>, <<>>, <<>>)) = PatchClass
  <2>1. Name(Pkg, <<GuardClass>>, <<>>, <<>>).class # <<>>
    BY DEF Name
  <2> QED  BY <2>1, PatchClassSame DEF PatchClass
<1>3. /\ Cpp!GenPackageInitFlagAccessor(Package, "packageInit", TRUE) = Accessors[1]
      /\ Cpp!GenPackageInitFlagAccessor(Package, "packageInit", FALSE) = Accessors[2]
      /\ Cpp!GenPackageInitFlagAccessor(Package, "packageLiteralInit", TRUE) = Accessors[3]
      /\ Cpp!GenPackageInitFlagAccessor(Package, "packageLiteralInit", FALSE) = Accessors[4]
  <2>1. "packageInit" \in AccessorKind /\ "packageLiteralInit" \in AccessorKind
    BY DEF AccessorKind
  <2>2. /\ Accessors[1] = GenPackageInitFlagAccessor(Package, "packageInit", TRUE)
        /\ Accessors[2] = GenPackageInitFlagAccessor(Package, "packageInit", FALSE)
        /\ Accessors[3] = GenPackageInitFlagAccessor(Package, "packageLiteralInit", TRUE)
        /\ Accessors[4] = GenPackageInitFlagAccessor(Package, "packageLiteralInit", FALSE)
    <3>1. (1 \in {1, 3}) = TRUE /\ (2 \in {1, 3}) = FALSE /\ (3 \in {1, 3}) = TRUE /\ (4 \in {1, 3}) = FALSE
      OBVIOUS
    <3>2. 1 <= 2 /\ 2 <= 2 /\ ~(3 <= 2) /\ ~(4 <= 2)
      OBVIOUS
    <3>3. \A i \in 1 .. 4 : Accessors[i] = GenPackageInitFlagAccessor(Package,
                               IF i <= 2 THEN "packageInit" ELSE "packageLiteralInit", i \in {1, 3})
      BY DEF Accessors
    <3>4. 1 \in 1 .. 4 /\ 2 \in 1 .. 4 /\ 3 \in 1 .. 4 /\ 4 \in 1 .. 4
      OBVIOUS
    <3>5. Accessors[1] = GenPackageInitFlagAccessor(Package, "packageInit", TRUE)
      BY <3>1, <3>2, <3>3, <3>4, Zenon
    <3>6. Accessors[2] = GenPackageInitFlagAccessor(Package, "packageInit", FALSE)
      BY <3>1, <3>2, <3>3, <3>4, Zenon
    <3>7. Accessors[3] = GenPackageInitFlagAccessor(Package, "packageLiteralInit", TRUE)
      BY <3>1, <3>2, <3>3, <3>4, Zenon
    <3>8. Accessors[4] = GenPackageInitFlagAccessor(Package, "packageLiteralInit", FALSE)
      BY <3>1, <3>2, <3>3, <3>4, Zenon
    <3> QED  BY <3>5, <3>6, <3>7, <3>8
  <2> QED  BY <2>1, <2>2, AccessorsSame
<1>4. \A n : Cpp!GenGuardVarFlagName(n, FALSE) = GenGuardVarFlagName(n, FALSE)
  BY PartsSame
<1>5. \A n : Cpp!GenGuardMethodName(n, "Plain") = GenGuardMethodName(n, "Plain")
  BY MethodsSame DEF MethodKind
<1> QED  BY <1>1, <1>2, <1>3, <1>4, <1>5 DEF PartNames

\* A search in a list finds what is there.
LEMMA FindsNamed ==
  ASSUME NEW list, IsSeq(list), NEW name
  PROVE  /\ Named(list, name) # None <=> \E i \in 1 .. Len(list) : list[i].name = name
         /\ Named(list, name) # None => /\ Named(list, name) \in 1 .. Len(list)
                                        /\ list[Named(list, name)].name = name
<1> DEFINE T == {i \in DOMAIN list : list[i].name = name}
<1>1. Len(list) \in Nat /\ DOMAIN list = 1 .. Len(list)
  BY SeqFacts
<1>2. (T = {} <=> First(T) = None) /\ (T # {} => First(T) \in T)
  BY <1>1, FirstOf
<1>3. Named(list, name) = First(T)
  BY DEF Named
<1> QED  BY <1>1, <1>2, <1>3

LEMMA FindsFunction ==
  ASSUME IsSeq(functions), NEW name
  PROVE  FunctionNamed(name) # None <=> \E i \in 1 .. Len(functions) : functions[i].name.func[1] = name
<1> DEFINE T == {i \in DOMAIN functions : functions[i].name.func[1] = name}
<1>1. Len(functions) \in Nat /\ DOMAIN functions = 1 .. Len(functions)
  BY SeqFacts
<1>2. T = {} <=> First(T) = None
  BY <1>1, FirstOf
<1>3. FunctionNamed(name) = First(T)
  BY DEF FunctionNamed
<1> QED  BY <1>1, <1>2, <1>3

\* The functions of a finished package by position.
LEMMA FunctionAt ==
  ASSUME SourceOK, CollectedOK, PackageOK, NEW k \in 1 .. Len(functions)
  PROVE  /\ k <= Given => functions[k].name = Source(k).name
         /\ k \in Given + 1 .. Given + 3 => functions[k].name.func[1] = InitMethods[k - Given]
         /\ k \in Given + 4 .. Given + 7 => functions[k].name.func[1] = Accessors[k - (Given + 3)]
         /\ k = Given + 8 /\ Count > 0 => functions[k].name.func[1] = InitializerName
<1>1. FunctionOK(k)
  BY DEF PackageOK, FunctionsOK
<1>2. \A c, m : Name(Pkg, c, <<m>>, <<>>).func[1] = m
  BY DEF Name
<1> QED  BY <1>1, <1>2 DEF FunctionOK

\* The accessors follow the package's own functions and the guards of the inits.
LEMMA AccessorsFound ==
  ASSUME SourceOK, CollectedOK, PackageOK, NEW a \in 1 .. 4
  PROVE  FunctionNamed(Accessors[a]) # None
<1>1. /\ Base \in Nat /\ Base >= Given + 7 /\ Given \in Nat
      /\ Len(functions) \in Nat /\ Base <= Len(functions)
  BY GuardedAre
<1>2. PICK k : k = (Given + 3) + a
  OBVIOUS
<1>3. k \in 1 .. Len(functions) /\ k \in Given + 4 .. Given + 7 /\ k - (Given + 3) = a
  BY <1>1, <1>2
<1>4. functions[k].name.func[1] = Accessors[a]
  BY <1>3, FunctionAt
<1>5. IsSeq(functions)
  BY DEF PackageOK, FunctionsOK
<1> QED  BY <1>3, <1>4, <1>5, FindsFunction

LEMMA InitializerFound ==
  ASSUME SourceOK, CollectedOK, PackageOK, HasPatchClass
  PROVE  FunctionNamed(InitializerName) # None <=> Count # 0
<1>1. /\ Base \in Nat /\ Base >= Given + 7 /\ Given \in Nat /\ Count \in Nat
      /\ Len(functions) \in Nat /\ Base <= Len(functions) /\ IsSeq(functions)
      /\ IF Count = 0 THEN Base = Given + 7 ELSE Base >= Given + 8
      /\ Base = Len(functions) - Count
  BY GuardedAre DEF PackageOK, FunctionsOK, Base
<1>2. ASSUME Count # 0 PROVE FunctionNamed(InitializerName) # None
  <2>1. PICK k : k = Given + 8
    OBVIOUS
  <2>2. k \in 1 .. Len(functions) /\ Count > 0
    BY <1>1, <1>2, <2>1
  <2>3. functions[k].name.func[1] = InitializerName
    BY <2>1, <2>2, FunctionAt
  <2> QED  BY <1>1, <2>2, <2>3, FindsFunction
<1>3. ASSUME Count = 0, NEW k \in 1 .. Len(functions) PROVE functions[k].name.func[1] # InitializerName
  <2>1. \/ k <= Given /\ k \in 1 .. Given
        \/ k \in Given + 1 .. Given + 3 /\ k - Given \in 1 .. 3
        \/ k \in Given + 4 .. Given + 7 /\ k - (Given + 3) \in 1 .. 4
    <3>1. Len(functions) = Given + 7
      BY <1>1, <1>3
    <3> QED  BY <1>1, <3>1
  <2>2. CASE k <= Given /\ k \in 1 .. Given
    BY <2>2, FunctionAt, SourceNames
  <2>3. CASE k \in Given + 1 .. Given + 3 /\ k - Given \in 1 .. 3
    BY <2>3, FunctionAt, FunctionNames
  <2>4. CASE k \in Given + 4 .. Given + 7 /\ k - (Given + 3) \in 1 .. 4
    BY <2>4, FunctionAt, FunctionNames
  <2> QED  BY <2>1, <2>2, <2>3, <2>4
<1>4. Count = 0 => ~(FunctionNamed(InitializerName) # None)
  BY <1>1, <1>3, FindsFunction
<1> QED  BY <1>2, <1>4

LEMMA GuardPartsFound ==
  ASSUME SourceOK, CollectedOK, PackageOK, HasPatchClass
  PROVE  /\ Named(classes, GuardClass) # None <=> Count # 0
         /\ Named(classes, PatchClass) # None <=> Count # 0
         /\ Named(globals, GenGuardVarName(Package, FALSE)) # None <=> Count # 0
<1>0. /\ InitPart.name = InitGuardClass /\ GuardPart.name = GuardClass /\ PatchPart.name = PatchClass
      /\ InitGuardClass # GuardClass /\ PatchClass # InitGuardClass
  BY ClassNames, PatchClassNames DEF InitPart, GuardPart, PatchPart
<1>1. CASE Count # 0
  <2>1. classes = <<InitPart, GuardPart, PatchPart>>
    BY <1>1 DEF PackageOK, ClassesOK
  <2>2. IsSeq(classes) /\ Len(classes) = 3 /\ classes[2] = GuardPart /\ classes[3] = PatchPart
    <3>1. Len(classes) = 3 /\ classes[2] = GuardPart /\ classes[3] = PatchPart
      BY <2>1
    <3>2. classes \in Seq({InitPart, GuardPart, PatchPart})
      BY <2>1
    <3> QED  BY <3>1, <3>2, SeqOfAny
  <2>3. 2 \in 1 .. Len(classes) /\ 3 \in 1 .. Len(classes)
    BY <2>2
  <2>4. Named(classes, GuardClass) # None /\ Named(classes, PatchClass) # None
    BY <1>0, <2>2, <2>3, FindsNamed, Zenon
  <2>5. IsSeq(globals) /\ Len(globals) = 3 + Count /\ Count \in Nat
    BY <1>1, GuardedAre DEF PackageOK, GlobalsOK
  <2>6. 3 \in 1 .. Len(globals)
    BY <1>1, <2>5
  <2>7. globals[3].name = GenGuardVarName(Package, FALSE)
    BY <2>6 DEF PackageOK, GlobalsOK
  <2>8. Named(globals, GenGuardVarName(Package, FALSE)) # None
    BY <2>5, <2>6, <2>7, FindsNamed, Zenon
  <2> QED  BY <1>1, <2>4, <2>8
<1>2. CASE Count = 0
  <2>1. classes = <<InitPart>>
    BY <1>2 DEF PackageOK, ClassesOK
  <2>2. IsSeq(classes) /\ Len(classes) = 1 /\ classes[1] = InitPart
    <3> HIDE DEF InitPart
    <3> QED  BY <2>1, ShortSeqs
  <2>3. \A k \in 1 .. Len(classes) : classes[k] = InitPart
    <3>1. \A k \in 1 .. Len(classes) : k = 1
      BY <2>2
    <3> QED  BY <2>2, <3>1
  <2>4. ~(Named(classes, GuardClass) # None) /\ ~(Named(classes, PatchClass) # None)
    <3>1. /\ ~\E k \in 1 .. Len(classes) : classes[k].name = GuardClass
          /\ ~\E k \in 1 .. Len(classes) : classes[k].name = PatchClass
      BY <1>0, <2>3
    <3>2. IsSeq(classes)
      BY <2>2
    <3> QED  BY <3>1, <3>2, FindsNamed
  <2>5. IsSeq(globals) /\ Len(globals) = 2
    BY <1>2 DEF PackageOK, GlobalsOK
  <2>6. \A g \in 1 .. Len(globals) : g <= 2
    BY <2>5
  <2>7. \A g \in 1 .. Len(globals) : globals[g].name # GenGuardVarName(Package, FALSE)
    BY <2>6, VariableNames DEF PackageOK, GlobalsOK
  <2>8. ~(Named(globals, GenGuardVarName(Package, FALSE)) # None)
    <3>1. ~\E g \in 1 .. Len(globals) : globals[g].name = GenGuardVarName(Package, FALSE)
      BY <2>7
    <3>2. IsSeq(globals)
      BY <2>5
    <3> QED  BY <3>1, <3>2, FindsNamed
  <2> QED  BY <1>2, <2>4, <2>8
<1> QED  BY <1>1, <1>2

\* The parts that patch-gen finds are complete.
LEMMA PartsComplete ==
  ASSUME SourceOK, CollectedOK, PackageOK, HasPatchClass, parts = PartsFound
  PROVE  /\ {"initGetter", "initSetter", "literalGetter", "literalSetter"} \subseteq parts
         /\ LET guards == {"guardVarsInitializer", "guardClass", "guardVar", "patchClass"}
            IN  guards \subseteq parts \/ guards \cap parts = {}
         /\ {"guardVar", "guardClass"} \cap parts # {} <=> GuardedFunctions # {}
<1>1. PartNames = [ guardVarsInitializer |-> FunctionNamed(InitializerName),
                    guardClass |-> Named(classes, GuardClass),
                    guardVar   |-> Named(globals, GenGuardVarName(Package, FALSE)),
                    patchClass |-> Named(classes, PatchClass),
                    initGetter |-> FunctionNamed(Accessors[1]),
                    initSetter |-> FunctionNamed(Accessors[2]),
                    literalGetter |-> FunctionNamed(Accessors[3]),
                    literalSetter |-> FunctionNamed(Accessors[4]) ]
  BY AskedByTheSameName
<1>2. /\ "guardVarsInitializer" \in parts <=> FunctionNamed(InitializerName) # None
      /\ "guardClass" \in parts <=> Named(classes, GuardClass) # None
      /\ "guardVar" \in parts <=> Named(globals, GenGuardVarName(Package, FALSE)) # None
      /\ "patchClass" \in parts <=> Named(classes, PatchClass) # None
      /\ "initGetter" \in parts <=> FunctionNamed(Accessors[1]) # None
      /\ "initSetter" \in parts <=> FunctionNamed(Accessors[2]) # None
      /\ "literalGetter" \in parts <=> FunctionNamed(Accessors[3]) # None
      /\ "literalSetter" \in parts <=> FunctionNamed(Accessors[4]) # None
  <2>1. DOMAIN PartNames = {"guardVarsInitializer", "guardClass", "guardVar", "patchClass",
                            "initGetter", "initSetter", "literalGetter", "literalSetter"}
    BY DEF PartNames
  <2>2. \A p : p \in parts <=> p \in DOMAIN PartNames /\ PartNames[p] # None
    BY DEF PartsFound
  <2>3. /\ PartNames["guardVarsInitializer"] = FunctionNamed(InitializerName)
        /\ PartNames["guardClass"] = Named(classes, GuardClass)
        /\ PartNames["guardVar"] = Named(globals, GenGuardVarName(Package, FALSE))
        /\ PartNames["patchClass"] = Named(classes, PatchClass)
        /\ PartNames["initGetter"] = FunctionNamed(Accessors[1])
        /\ PartNames["initSetter"] = FunctionNamed(Accessors[2])
        /\ PartNames["literalGetter"] = FunctionNamed(Accessors[3])
        /\ PartNames["literalSetter"] = FunctionNamed(Accessors[4])
    BY <1>1
  <2> QED  BY <2>1, <2>2, <2>3
<1>3. /\ FunctionNamed(Accessors[1]) # None /\ FunctionNamed(Accessors[2]) # None
      /\ FunctionNamed(Accessors[3]) # None /\ FunctionNamed(Accessors[4]) # None
  <2>1. 1 \in 1 .. 4 /\ 2 \in 1 .. 4 /\ 3 \in 1 .. 4 /\ 4 \in 1 .. 4
    OBVIOUS
  <2> QED  BY <2>1, AccessorsFound
<1>4. /\ FunctionNamed(InitializerName) # None <=> Count # 0
      /\ Named(classes, GuardClass) # None <=> Count # 0
      /\ Named(classes, PatchClass) # None <=> Count # 0
      /\ Named(globals, GenGuardVarName(Package, FALSE)) # None <=> Count # 0
  BY InitializerFound, GuardPartsFound
<1>5. Count # 0 <=> GuardedFunctions # {}
  <2>1. ASSUME Count # 0 PROVE GuardedFunctions # {}
    <3>1. Count \in Nat
      BY GuardedAre
    <3>2. 1 \in 1 .. Count
      BY <2>1, <3>1
    <3> QED  BY <3>2, GuardedAre
  <2>2. ASSUME Count = 0 PROVE GuardedFunctions = {}
    <3>1. 1 .. Count = {}
      BY <2>2
    <3> QED  BY <3>1, GuardedAre
  <2> QED  BY <2>1, <2>2
<1>6. {"initGetter", "initSetter", "literalGetter", "literalSetter"} \subseteq parts
  BY <1>2, <1>3
<1>7. /\ "guardVarsInitializer" \in parts <=> Count # 0
      /\ "guardClass" \in parts <=> Count # 0
      /\ "guardVar" \in parts <=> Count # 0
      /\ "patchClass" \in parts <=> Count # 0
  BY <1>2, <1>4, Zenon
<1> QED  BY <1>5, <1>6, <1>7

\* isPatchable recognises the guarded functions, and no others.
LEMMA RecognisedAreGuarded ==
  ASSUME SourceOK, CollectedOK, PackageOK, NEW i \in DOMAIN functions
  PROVE  IsPatchable(functions[i]) <=> Guarded(i)
<1>1. ASSUME Guarded(i) PROVE IsPatchable(functions[i])
  <2>1. PICK j \in 1 .. Count : i = collected[j]
    BY <1>1, GuardedAre DEF GuardedFunctions
  <2>2. functions[i].guard = <<3 + j>> /\ functions[i].name = Chosen(j).name /\ Count \in Nat
    BY <2>1, GuardedAre
  <2>3. globals[3 + j] = [name |-> GuardOf(Chosen(j)).flag, value |-> "false"]
    BY <2>2, FlagOfJth
  <2>4. functions[i].guard[1] = 3 + j
    BY <2>2
  <2>5. globals[3 + j].name = GenGuardVarFlagName(functions[i].name, FALSE)
    BY <2>2, <2>3 DEF GuardOf
  <2>6. Cpp!GenGuardVarFlagName(functions[i].name, FALSE) = GenGuardVarFlagName(functions[i].name, FALSE)
    BY AskedByTheSameName
  <2>7. functions[i].guard # <<>>
    BY <1>1 DEF Guarded
  <2> QED  BY <2>4, <2>5, <2>6, <2>7 DEF IsPatchable
<1>2. IsPatchable(functions[i]) => Guarded(i)
  BY DEF IsPatchable, Guarded
<1> QED  BY <1>1, <1>2

\* Of the global variables only its own flag has the name of a function's flag.
LEMMA FlagFound ==
  ASSUME SourceOK, CollectedOK, PackageOK, NEW j \in 1 .. Count, Chosen(j).name # PackageInitName
  PROVE  Named(globals, GuardOf(Chosen(j)).flag) = 3 + j
<1> DEFINE f == GuardOf(Chosen(j)).flag
<1>1. Count \in Nat /\ Count # 0 /\ j \in 1 .. Len(collected)
  BY GuardedAre
<1>2. IsSeq(globals) /\ Len(globals) = 3 + Count
  BY <1>1 DEF PackageOK, GlobalsOK
<1>3. 3 + j \in 1 .. Len(globals) /\ globals[3 + j].name = f
  <2>1. 3 + j \in 1 .. Len(globals) /\ globals[3 + j] = [name |-> f, value |-> "false"]
    BY <1>1, FlagOfJth
  <2> HIDE DEF f
  <2>2. globals[3 + j].name = f
    BY <2>1
  <2> QED  BY <2>1, <2>2
<1>4. f \notin {GenGuardVarName(Package, TRUE), GenGuardVarName(Package, FALSE), GenGuardVarFlagName(Package, TRUE)}
  BY <1>1, ChosenApart
<1> HIDE DEF f
<1>5. ASSUME NEW g \in 1 .. Len(globals), globals[g].name = f PROVE g = 3 + j
  <2>1. /\ g <= 2 => globals[g].name \in {GenGuardVarName(Package, TRUE), GenGuardVarFlagName(Package, TRUE)}
        /\ g = 3 => globals[g].name = GenGuardVarName(Package, FALSE)
        /\ g > 3 => globals[g] = [name |-> GuardOf(Chosen(g - 3)).flag, value |-> "false"]
    BY DEF PackageOK, GlobalsOK
  <2>2. ~(g <= 2) /\ g # 3
    BY <1>4, <1>5, <2>1
  <2>3. g > 3
    BY <2>2
  <2>4. g - 3 \in 1 .. Count
    BY <1>1, <1>2, <2>3
  <2>5. GuardOf(Chosen(g - 3)).flag = f
    BY <1>5, <2>1, <2>3
  <2>6. g - 3 \in 1 .. Len(collected)
    BY <2>4, GuardedAre
  <2>7. g - 3 = j
    BY <1>1, <2>5, <2>6, ChosenApart DEF f
  <2> QED  BY <1>1, <2>7
<1>6. Named(globals, f) \in 1 .. Len(globals) /\ globals[Named(globals, f)].name = f
  BY <1>2, <1>3, FindsNamed
<1> QED  BY <1>5, <1>6 DEF f

\* The method found in the patch class overrides the one that the guard calls.
LEMMA MethodFound ==
  ASSUME SourceOK, CollectedOK, PackageOK, HasPatchClass, NEW j \in 1 .. Count, NEW k,
         k = MethodNamed(PatchClass, Method(j))
  PROVE  k # None /\ functions[k].name.class = <<PatchClass>> /\ functions[k].name.func = <<Method(j)>>
<1> DEFINE T == {i \in DOMAIN functions :
                   functions[i].name.class = <<PatchClass>> /\ functions[i].name.func = <<Method(j)>>}
<1>1. IsSeq(functions)
  BY DEF PackageOK, FunctionsOK
<1>2. DOMAIN functions = 1 .. Len(functions) /\ Len(functions) \in Nat
  BY <1>1, SeqFacts
<1>3. Base + j \in 1 .. Len(functions) /\ FunctionOK(Base + j) /\ Base \in Nat /\ Count \in Nat
  BY PatchMethods
<1>4. PICK l : l = Base + j
  OBVIOUS
<1>5. l > Base /\ l - Base = j
  BY <1>3, <1>4
<1>6. functions[l].name = Name(Pkg, <<PatchClass>>, <<Method(j)>>, <<>>)
  BY <1>3, <1>4, <1>5 DEF FunctionOK
<1>7. l \in T
  BY <1>2, <1>3, <1>4, <1>6 DEF Name
<1>8. (T = {} <=> First(T) = None) /\ (T # {} => First(T) \in T)
  BY <1>2, FirstOf
<1>9. k = First(T)
  BY DEF MethodNamed
<1> QED  BY <1>7, <1>8, <1>9

\* patch-gen finds what the plugin made, for every package and every selection:
\* the parts are all there or all missing (the check of PatchGen's constructor), it
\* takes exactly the guarded functions for patchable, and of such a function it finds
\* the flag that the function tests and the method that its guard calls.
THEOREM OwnPartsAlwaysFound == Spec => []OwnPartsFound
<1>1. ASSUME PluginInv, LookupInv PROVE OwnPartsFound
  <2>1. phase = "done" => SourceOK /\ CollectedOK /\ PackageOK /\ HasPatchClass
    BY <1>1 DEF PluginInv, Constructed, HasPatchClass
  <2>2. ASSUME parts # {}
        PROVE  /\ {"initGetter", "initSetter", "literalGetter", "literalSetter"} \subseteq parts
               /\ LET guards == {"guardVarsInitializer", "guardClass", "guardVar", "patchClass"}
                  IN  guards \subseteq parts \/ guards \cap parts = {}
               /\ {"guardVar", "guardClass"} \cap parts # {} <=> GuardedFunctions # {}
    <3>1. phase = "done" /\ parts = PartsFound
      BY <1>1, <2>2 DEF LookupInv
    <3> QED  BY <2>1, <3>1, PartsComplete
  <2>3. phase = "done" => \A i \in DOMAIN functions : IsPatchable(functions[i]) <=> Guarded(i)
    BY <2>1, RecognisedAreGuarded
  <2>4. ASSUME asked # None, functions[asked].name # PackageInitName
        PROVE  /\ patchMethod # None
               /\ functions[patchMethod].name.class = <<PatchClass>>
               /\ functions[patchMethod].name.func = <<GuardOf(functions[asked]).method>>
               /\ flag = functions[asked].guard[1]
    <3>1. SourceOK /\ CollectedOK /\ PackageOK /\ HasPatchClass
      BY <1>1, <2>1, <2>4 DEF LookupInv
    <3>2. /\ asked \in DOMAIN source.functions /\ functions[asked].guard # <<>>
          /\ flag = Named(globals, GenGuardVarFlagName(functions[asked].name, FALSE))
          /\ patchMethod = MethodNamed(PatchClass, GenGuardMethodName(functions[asked].name, "Plain"))
      BY <1>1, <2>4, AskedByTheSameName DEF LookupInv, IsPatchable
    <3>3. asked \in DOMAIN functions
      <4>1. /\ IsSeq(functions) /\ Given \in Nat /\ Base \in Nat /\ Base >= Given + 7
            /\ Len(functions) \in Nat /\ Base <= Len(functions)
        BY <3>1, GuardedAre DEF PackageOK, FunctionsOK
      <4>2. asked \in 1 .. Given
        BY <3>1, <3>2, SourceNames, SeqFacts DEF Given
      <4>3. asked \in 1 .. Len(functions)
        BY <4>1, <4>2
      <4> QED  BY <4>1, <4>3, SeqFacts
    <3>4. PICK j \in 1 .. Count : asked = collected[j]
      BY <3>1, <3>2, <3>3, GuardedAre DEF GuardedFunctions, Guarded
    <3>5. functions[asked].guard = <<3 + j>> /\ functions[asked].name = Chosen(j).name
      BY <3>1, <3>4, GuardedAre
    <3>6. flag = Named(globals, GuardOf(Chosen(j)).flag) /\ patchMethod = MethodNamed(PatchClass, Method(j))
      BY <3>2, <3>5 DEF GuardOf, Method
    <3>7. flag = 3 + j
      BY <2>4, <3>1, <3>5, <3>6, FlagFound
    <3>8. GuardOf(functions[asked]).method = Method(j)
      BY <3>5 DEF GuardOf, Method
    <3>9. /\ patchMethod # None /\ functions[patchMethod].name.class = <<PatchClass>>
          /\ functions[patchMethod].name.func = <<Method(j)>>
      BY <3>1, <3>6, MethodFound
    <3>10. functions[asked].guard[1] = 3 + j
      BY <3>5
    <3> QED  BY <3>7, <3>8, <3>9, <3>10
  <2> QED  BY <2>2, <2>3, <2>4 DEF OwnPartsFound
<1> QED  BY <1>1, PackageInClosedForm, LookupsOfAFinishedPackage, PTL

-----------------------------------------------------------------------------
(***************************************************************************)
(* What patching leaves alone of a function, and who made it.              *)
(***************************************************************************)
SameKind(h, f) == h.attr = f.attr /\ h.anno = f.anno /\ h.made = f.made

KeptOK ==
  Constructed => \A k \in 1 .. Len(functions) :
    IF k <= Given THEN SameKind(functions[k], Source(k)) ELSE functions[k].made = TRUE

\* fs is functions of which some have another guard or body, and some that were added.
Grown(r, fs) ==
  /\ IsSeq(r) /\ Len(fs) \in Nat /\ Len(r) >= Len(fs)
  /\ \A k \in 1 .. Len(fs) : SameKind(r[k], fs[k])
  /\ \A k \in 1 .. Len(r) : k > Len(fs) => r[k].made = TRUE

LEMMA GrownTwice ==
  ASSUME NEW r, NEW s, NEW t, Grown(s, r), Grown(t, s) PROVE Grown(t, r)
<1>1. /\ IsSeq(t) /\ Len(r) \in Nat /\ Len(s) \in Nat /\ Len(t) \in Nat /\ Len(s) >= Len(r) /\ Len(t) >= Len(s)
  BY SeqFacts DEF Grown
<1>2. ASSUME NEW k \in 1 .. Len(r) PROVE SameKind(t[k], r[k])
  <2>1. k \in 1 .. Len(s)
    BY <1>1
  <2> QED BY <2>1 DEF Grown, SameKind
<1>3. ASSUME NEW k \in 1 .. Len(t), k > Len(r) PROVE t[k].made = TRUE
  <2>1. CASE k > Len(s)
    BY <1>3, <2>1 DEF Grown
  <2>2. CASE ~(k > Len(s))
    <3>1. k \in 1 .. Len(s)
      BY <1>1, <2>2
    <3> QED BY <1>3, <3>1 DEF Grown, SameKind
  <2> QED BY <2>1, <2>2
<1>4. Len(t) >= Len(r)
  BY <1>1
<1>5. \A k \in 1 .. Len(r) : SameKind(t[k], r[k])
  BY <1>2
<1>6. \A k \in 1 .. Len(t) : k > Len(r) => t[k].made = TRUE
  BY <1>3
<1> QED BY <1>1, <1>4, <1>5, <1>6 DEF Grown

LEMMA MadeKind == ASSUME NEW c, NEW n, NEW b PROVE IsFn(Made(c, n, b)) /\ Made(c, n, b).made = TRUE
  BY DEF Made, IsFn

LEMMA EditedKind ==
  ASSUME NEW f, IsFn(f), NEW g, NEW b, NEW u
  PROVE  /\ SameKind([f EXCEPT !.guard = g, !.body = b], f)
         /\ SameKind([f EXCEPT !.body = b], f)
         /\ SameKind([f EXCEPT !.unit = u], f)
<1>1. ASSUME NEW h, h = [f EXCEPT !.guard = g, !.body = b] PROVE SameKind(h, f)
  BY <1>1 DEF SameKind, IsFn
<1>2. ASSUME NEW h, h = [f EXCEPT !.body = b] PROVE SameKind(h, f)
  BY <1>2 DEF SameKind, IsFn
<1>3. ASSUME NEW h, h = [f EXCEPT !.unit = u] PROVE SameKind(h, f)
  BY <1>3 DEF SameKind, IsFn
<1> QED BY <1>1, <1>2, <1>3, Zenon

LEMMA GrownByEdit ==
  ASSUME NEW fs, IsSeq(fs), NEW k \in 1 .. Len(fs), NEW h, SameKind(h, fs[k])
  PROVE  Grown([fs EXCEPT ![k] = h], fs)
<1> DEFINE t == [fs EXCEPT ![k] = h]
<1>1. DOMAIN fs = 1 .. Len(fs) /\ Len(fs) \in Nat
  BY SeqFacts
<1>2. IsSeq(t) /\ Len(t) = Len(fs) /\ t[k] = h /\ \A n \in 1 .. Len(fs) : n # k => t[n] = fs[n]
  BY <1>1, ExceptOfSeq
<1> HIDE DEF t
<1>3. \A n \in 1 .. Len(fs) : SameKind(t[n], fs[n])
  <2> SUFFICES ASSUME NEW n \in 1 .. Len(fs) PROVE SameKind(t[n], fs[n])
    OBVIOUS
  <2>1. CASE n = k
    BY <1>2, <2>1
  <2>2. CASE n # k
    BY <1>2, <2>2 DEF SameKind
  <2> QED BY <2>1, <2>2
<1> QED BY <1>1, <1>2, <1>3 DEF Grown, t

LEMMA GrownByConcat ==
  ASSUME NEW fs, IsSeq(fs), NEW t, IsSeq(t), \A k \in 1 .. Len(t) : t[k].made = TRUE
  PROVE  Grown(fs \o t, fs)
<1> DEFINE u == fs \o t
<1>1. IsConcat(u, fs, t)
  BY ConcatSeq
<1> HIDE DEF u
<1>2. IsSeq(u) /\ Len(fs) \in Nat /\ Len(t) \in Nat /\ Len(u) = Len(fs) + Len(t)
  BY <1>1 DEF IsConcat
<1>3. \A k \in 1 .. Len(fs) : SameKind(u[k], fs[k])
  BY <1>1 DEF IsConcat, SameKind
<1>4. ASSUME NEW k \in 1 .. Len(u), k > Len(fs) PROVE u[k].made = TRUE
  <2>1. PICK n \in 1 .. Len(t) : k = Len(fs) + n
    BY <1>1, <1>2, <1>4 DEF IsConcat
  <2> QED BY <1>1, <2>1 DEF IsConcat
<1> QED BY <1>2, <1>3, <1>4 DEF Grown, u

LEMMA NothingGrown == ASSUME NEW fs, IsSeq(fs) PROVE Grown(fs, fs)
<1>1. Len(fs) \in Nat
  BY SeqFacts
<1> QED BY <1>1 DEF Grown, SameKind

LEMMA KeptAs ==
  ASSUME KeptOK, Constructed, SourceOK, CollectedOK, PackageOK, UNCHANGED source, Grown(functions', functions)
  PROVE  KeptOK'
<1>1. Given \in Nat /\ Given' = Given /\ \A k : Source(k)' = Source(k)
  BY SourceNames DEF Given, Source
<1>2. Len(functions) \in Nat /\ Given <= Len(functions) /\ IsSeq(functions')
  <2>1. IsSeq(functions) /\ Base \in Nat /\ Base >= Given + 7
    BY DEF PackageOK, FunctionsOK
  <2>2. Len(functions) \in Nat
    BY <2>1, SeqFacts
  <2>3. Base <= Len(functions)
    BY GuardedAre
  <2> QED BY <1>1, <2>1, <2>2, <2>3 DEF Grown
<1>3. Len(functions') \in Nat
  BY <1>2, SeqFacts
<1>4. ASSUME NEW k \in 1 .. Len(functions')
      PROVE  IF k <= Given THEN SameKind(functions'[k], Source(k)) ELSE functions'[k].made = TRUE
  <2>1. CASE k > Len(functions)
    BY <1>1, <1>2, <2>1 DEF Grown
  <2>2. CASE ~(k > Len(functions))
    <3>1. k \in 1 .. Len(functions)
      BY <1>2, <2>2
    <3>2. IF k <= Given THEN SameKind(functions[k], Source(k)) ELSE functions[k].made = TRUE
      BY <3>1 DEF KeptOK
    <3>3. SameKind(functions'[k], functions[k])
      BY <3>1 DEF Grown
    <3> QED BY <3>2, <3>3 DEF SameKind
  <2> QED BY <2>1, <2>2
<1> QED BY <1>1, <1>4 DEF KeptOK

LEMMA ConstructKept == ASSUME PluginInv, ConstructPatcher PROVE KeptOK'
<1> DEFINE m(i) == Made(<<InitGuardClass>>, InitMethods[i], "own")
           a(i) == Made(<<>>, Accessors[i], "own")
           x == [i \in 1 .. 3 |-> m(i)]
           y == [i \in 1 .. 4 |-> a(i)]
           s == functions \o x
<1>1. /\ UNCHANGED source /\ SourceOK /\ functions = [i \in 1 .. Given |-> Source(i)]
      /\ phase' = "failed" \/ functions' = s \o y
  BY DEF ConstructPatcher, PluginInv, Untouched
<1>2. CASE phase' = "failed"
  BY <1>2 DEF KeptOK, Constructed
<1>3. CASE phase' # "failed"
  <2>1. Given \in Nat /\ Given' = Given /\ \A k : Source(k)' = Source(k)
    BY <1>1, SourceNames DEF Given, Source
  <2>2. IsSeq(functions) /\ Len(functions) = Given /\ \A k \in 1 .. Given : functions[k] = Source(k)
    <3>1. functions = [i \in 1 .. Given |-> functions[i]] /\ \A k \in 1 .. Given : functions[k] = Source(k)
      BY <1>1
    <3> QED BY <2>1, <3>1, FunctionSeq
  <2>3. (\A i : m(i).made = TRUE) /\ \A i : a(i).made = TRUE
    BY MadeKind
  <2> HIDE DEF m, a
  <2>4. IsSeq(x) /\ \A k \in 1 .. Len(x) : x[k].made = TRUE
    <3>1. x = [k \in 1 .. 3 |-> x[k]] /\ \A k \in 1 .. 3 : x[k].made = TRUE
      BY <2>3
    <3> HIDE DEF x
    <3>2. 3 \in Nat
      OBVIOUS
    <3>3. IsSeq(x) /\ Len(x) = 3
      BY <3>1, <3>2, FunctionSeq
    <3> QED BY <3>1, <3>3
  <2>5. IsSeq(y) /\ \A k \in 1 .. Len(y) : y[k].made = TRUE
    <3>1. y = [k \in 1 .. 4 |-> y[k]] /\ \A k \in 1 .. 4 : y[k].made = TRUE
      BY <2>3
    <3> HIDE DEF y
    <3>2. 4 \in Nat
      OBVIOUS
    <3>3. IsSeq(y) /\ Len(y) = 4
      BY <3>1, <3>2, FunctionSeq
    <3> QED BY <3>1, <3>3
  <2> HIDE DEF x, y
  <2>6. Grown(s, functions)
    BY <2>2, <2>4, GrownByConcat
  <2>7. Grown(s \o y, s)
    <3>1. IsSeq(s)
      BY <2>6 DEF Grown
    <3> HIDE DEF s
    <3> QED BY <2>5, <3>1, GrownByConcat
  <2>8. functions' = s \o y
    BY <1>1, <1>3
  <2> HIDE DEF s
  <2>9. Grown(functions', functions)
    BY <2>6, <2>7, <2>8, GrownTwice
  <2>10. \A k \in 1 .. Len(functions') :
           IF k <= Given THEN SameKind(functions'[k], Source(k)) ELSE functions'[k].made = TRUE
    <3> SUFFICES ASSUME NEW k \in 1 .. Len(functions')
                 PROVE  IF k <= Given THEN SameKind(functions'[k], Source(k)) ELSE functions'[k].made = TRUE
      OBVIOUS
    <3>1. CASE k <= Given
      <4>1. k \in 1 .. Given
        BY <2>1, <3>1
      <4> QED BY <2>2, <2>9, <3>1, <4>1 DEF Grown
    <3>2. CASE ~(k <= Given)
      <4>1. k > Given
        BY <2>1, <3>2
      <4> QED BY <2>2, <2>9, <3>2, <4>1 DEF Grown
    <3> QED BY <3>1, <3>2
  <2> QED BY <2>1, <2>10 DEF KeptOK
<1> QED BY <1>2, <1>3

LEMMA PatchedGrown ==
  ASSUME NEW fs, IsSeq(fs), NEW i \in 1 .. Len(fs), IsFn(fs[i]), NEW g
  PROVE  Grown(Patched(fs, i, g), fs)
<1> DEFINE f == fs[i]
           b == IF source.throwStubs THEN "throws" ELSE f.body
           h == [f EXCEPT !.guard = <<g>>, !.body = b]
           s == [fs EXCEPT ![i] = h]
           m == Made(<<>>, GuardOf(f).method, "none")
           c == Made(f.name.class, GenSyntheticCtorName(f.name), "own")
           t == <<m>>
           u == IF f.ctor THEN <<c>> ELSE <<>>
           p == s \o t
<1>1. Patched(fs, i, g) = p \o u
  <2>1. [fs EXCEPT ![i].guard = <<g>>, ![i].body = IF source.throwStubs THEN "throws" ELSE @] = s
    OBVIOUS
  <2> QED BY <2>1 DEF Patched
<1>2. SameKind(h, f)
  <2>1. IsFn(f)
    OBVIOUS
  <2> HIDE DEF f, b
  <2> QED BY <2>1, EditedKind
<1>3. m.made = TRUE /\ c.made = TRUE
  BY MadeKind
<1> HIDE DEF h, m, c
<1>4. IsSeq(t) /\ \A k \in 1 .. Len(t) : t[k].made = TRUE
  BY <1>3, ShortSeqs
<1>5. IsSeq(u) /\ \A k \in 1 .. Len(u) : u[k].made = TRUE
  BY <1>3, ShortSeqs
<1>6. Grown(s, fs)
  BY <1>2, GrownByEdit
<1> HIDE DEF s, t, u
<1>7. Grown(p, s)
  BY <1>4, <1>6, GrownByConcat DEF Grown
<1> HIDE DEF p
<1>8. Grown(p \o u, p)
  BY <1>5, <1>7, GrownByConcat DEF Grown
<1> QED BY <1>1, <1>6, <1>7, <1>8, GrownTwice

LEMMA PatchKept == ASSUME PluginInv, Patch, KeptOK PROVE KeptOK'
<1>1. CASE phase' = "failed"
  BY <1>1 DEF KeptOK, Constructed
<1>2. CASE phase' # "failed"
  <2>1. PICK i, fs, g : PatchedAt(i, fs, g)
    BY <1>2, PatchSucceeds
  <2>2. /\ SourceOK /\ CollectedOK /\ PackageOK /\ UNCHANGED source /\ phase = "patch" /\ Given \in Nat /\ Count \in Nat
        /\ fs = (IF gvi = <<>> THEN WithInitializer(functions) ELSE functions)
        /\ functions' = Patched(fs, i, g) /\ i \in 1 .. Given
    BY <2>1 DEF PatchedAt
  <2>3. /\ IsSeq(functions) /\ IsSeq(fs) /\ Len(fs) \in Nat /\ Len(fs) >= Given + 8
        /\ \A k \in 1 .. Len(fs) : IsFn(fs[k])
    BY <2>2, ExtendedFns
  <2>4. Grown(fs, functions)
    <3>1. CASE gvi = <<>>
      <4> DEFINE m == Made(<<>>, GenGuardVarInitializedName(Package), "own")
      <4>1. m.made = TRUE
        BY MadeKind
      <4>2. fs = Append(functions, m)
        BY <2>2, <3>1 DEF WithInitializer
      <4> HIDE DEF m
      <4>3. IsAppend(fs, functions, m)
        BY <2>3, <4>2, AppendSeq
      <4> QED BY <4>1, <4>3 DEF IsAppend, Grown, SameKind
    <3>2. CASE gvi # <<>>
      BY <2>2, <2>3, <3>2, NothingGrown
    <3> QED BY <3>1, <3>2
  <2>5. i \in 1 .. Len(fs)
    BY <2>2, <2>3
  <2>6. Grown(functions', fs)
    BY <2>2, <2>3, <2>5, PatchedGrown
  <2>7. Grown(functions', functions)
    BY <2>4, <2>6, GrownTwice
  <2>8. Constructed
    BY <2>2 DEF Constructed
  <2> QED BY <2>2, <2>7, <2>8, KeptAs
<1> QED BY <1>1, <1>2

LEMMA PatchClassKept == ASSUME PluginInv, GenPatchClass, KeptOK PROVE KeptOK'
<1>1. /\ SourceOK /\ CollectedOK /\ PackageOK /\ Constructed /\ UNCHANGED source
  BY DEF GenPatchClass, PluginInv, Constructed
<1>2. IsSeq(functions)
  BY <1>1 DEF PackageOK, FunctionsOK
<1>3. CASE gvi = <<>>
  <2>1. functions' = functions
    BY <1>3 DEF GenPatchClass
  <2> QED BY <1>1, <1>2, <2>1, NothingGrown, KeptAs
<1>4. CASE gvi # <<>>
  <2> DEFINE Made2(j) == Made(<<PatchClass>>, Methods[j], "throws")
             New(j) == [Made2(j) EXCEPT !.unit = source.functions[collected[j]].unit]
             new == [j \in DOMAIN Methods |-> New(j)]
  <2>1. Count # 0 /\ Count \in Nat
    BY <1>1, <1>4, GuardedAre DEF PackageOK, StoresOK
  <2>2. MethodsOf(GuardClass) = Methods
    BY <1>1, <2>1, MethodsOfClasses DEF PackageOK
  <2>3. functions' = functions \o new
    BY <1>4, <2>2 DEF GenPatchClass
  <2>4. DOMAIN Methods = 1 .. Count
    BY DEF Methods
  <2>5. ASSUME NEW j PROVE New(j).made = TRUE
    <3> DEFINE f == Made2(j)
               w == source.functions[collected[j]].unit
    <3>1. IsFn(f) /\ f.made = TRUE
      BY MadeKind
    <3> HIDE DEF f, w
    <3>2. SameKind([f EXCEPT !.unit = w], f)
      BY <3>1, EditedKind
    <3>3. [f EXCEPT !.unit = w].made = TRUE
      BY <3>1, <3>2 DEF SameKind
    <3> QED BY <3>3 DEF f, w
  <2> HIDE DEF New
  <2>6. new = [j \in 1 .. Count |-> new[j]] /\ \A j \in 1 .. Count : new[j] = New(j)
    BY <2>4
  <2> HIDE DEF new
  <2>7. IsSeq(new) /\ Len(new) = Count
    BY <2>1, <2>6, FunctionSeq
  <2>8. \A j \in 1 .. Len(new) : new[j].made = TRUE
    BY <2>5, <2>6, <2>7
  <2>9. Grown(functions', functions)
    BY <1>2, <2>3, <2>7, <2>8, GrownByConcat
  <2> QED BY <1>1, <2>9, KeptAs
<1> QED BY <1>3, <1>4

LEMMA RebodiedGrown ==
  ASSUME NEW fs, IsSeq(fs), \A n \in 1 .. Len(fs) : IsFn(fs[n]), NEW k \in 1 .. Len(fs), NEW b
  PROVE  Grown([fs EXCEPT ![k].body = b], fs)
<1> DEFINE f == fs[k]
           h == [f EXCEPT !.body = b]
<1>1. [fs EXCEPT ![k].body = b] = [fs EXCEPT ![k] = h]
  OBVIOUS
<1>2. SameKind(h, f)
  <2>1. IsFn(f)
    OBVIOUS
  <2> HIDE DEF f
  <2> QED BY <2>1, EditedKind
<1> HIDE DEF h
<1> QED BY <1>1, <1>2, GrownByEdit

LEMMA StubKept == ASSUME PluginInv, StubPatch, KeptOK PROVE KeptOK'
<1>1. PICK j : /\ StubAt(j)
               /\ \/ UNCHANGED functions
                  \/ ~StubFails(collected[j]) /\ functions' = Stubbed(collected[j])
  BY StubbedAt
<1> DEFINE i == collected[j]
           stub == source.functions[i].stub
<1>2. /\ SourceOK /\ CollectedOK /\ PackageOK /\ HasPatchClass /\ j \in 1 .. Count
      /\ UNCHANGED source /\ Constructed
  BY <1>1 DEF StubAt, Constructed
<1>3. IsSeq(functions) /\ (\A n \in 1 .. Len(functions) : IsFn(functions[n]))
  BY <1>2 DEF PackageOK, FunctionsOK, FunctionOK
<1>4. CASE UNCHANGED functions
  BY <1>2, <1>3, <1>4, NothingGrown, KeptAs
<1>5. CASE ~StubFails(i) /\ functions' = Stubbed(i)
  <2>1. /\ Base \in Nat /\ Base >= Given + 8 /\ Count \in Nat /\ Given \in Nat
        /\ Len(functions) = Base + Count /\ i \in 1 .. Given /\ PatchMethodOf(functions[i]) = Base + j
        /\ Base + j \in 1 .. Len(functions)
    BY <1>2, PatchMethods
  <2>2. PICK k : k = Base + j
    OBVIOUS
  <2>3. stub \in Nat
    BY <1>2, <2>1, SourceNames
  <2>4. stub # 0 => ~(stub > Len(source.functions))
    BY <1>5 DEF StubFails
  <2>5. functions' = IF stub = 0 THEN [functions EXCEPT ![k].body = "stub"]
                     ELSE [functions EXCEPT ![k].body = functions[stub].body, ![stub].body = "none"]
    BY <1>5, <2>1, <2>2 DEF Stubbed
  <2> HIDE DEF i, stub
  <2>6. CASE stub = 0
    <3>1. Grown(functions', functions)
      BY <1>3, <2>1, <2>2, <2>5, <2>6, RebodiedGrown
    <3> QED BY <1>2, <3>1, KeptAs
  <2>7. CASE stub # 0
    <3> DEFINE b == functions[stub].body
               s == [functions EXCEPT ![k].body = b]
    <3>1. stub \in 1 .. Len(functions)
      <4>1. stub <= Given
        BY <2>1, <2>3, <2>4, <2>7 DEF Given
      <4> QED BY <2>1, <2>3, <2>7, <4>1
    <3>2. functions' = [s EXCEPT ![stub].body = "none"]
      BY <2>5, <2>7
    <3> HIDE DEF b
    <3>3. k \in 1 .. Len(functions)
      BY <2>1, <2>2
    <3>4. IsRebodied(s, functions, k, b)
      BY <1>3, <3>3, RebodiedFns
    <3>5. Grown(s, functions)
      BY <1>3, <3>3, RebodiedGrown
    <3> HIDE DEF s
    <3>6. IsSeq(s) /\ Len(s) = Len(functions) /\ \A n \in 1 .. Len(s) : IsFn(s[n])
      BY <3>4 DEF IsRebodied, EditedTo, Alike
    <3>7. Grown([s EXCEPT ![stub].body = "none"], s)
      BY <3>1, <3>6, RebodiedGrown
    <3>8. Grown(functions', functions)
      BY <3>2, <3>5, <3>7, GrownTwice
    <3> QED BY <1>2, <3>8, KeptAs
  <2> QED BY <2>6, <2>7
<1> QED BY <1>1, <1>4, <1>5

LEMMA SameKept ==
  ASSUME KeptOK, UNCHANGED <<source, functions>>, Constructed' => Constructed PROVE KeptOK'
<1>1. Given' = Given /\ \A k : Source(k)' = Source(k)
  BY DEF Given, Source
<1> QED BY <1>1 DEF KeptOK

LEMMA KeptStep == ASSUME PluginInv, KeptOK, [Next]_<<plugin, toml, filter>> PROVE KeptOK'
<1>1. CASE ConstructPatcher
  BY <1>1, ConstructKept
<1>2. CASE Patch \/ GenPatchClass \/ StubPatch
  BY <1>2, PatchKept, PatchClassKept, StubKept
<1>3. CASE CreateContext
  BY <1>3 DEF CreateContext, KeptOK, Constructed
<1>4. CASE UseRegex
  BY <1>4 DEF UseRegex, TakeFilter, KeptOK, Constructed
<1>5. CASE FindPatchable \/ Found \/ ConstructStub \/ Stubs
  <2>1. UNCHANGED <<source, functions>> /\ Constructed
    BY <1>5 DEF FindPatchable, Found, ConstructStub, Stubs, package, Constructed
  <2> QED BY <2>1, SameKept
<1>6. CASE ReadDirective \/ FormRegex \/ BuildRegex \/ Lookups \/ UNCHANGED plugin
  <2>1. UNCHANGED vars
    BY <1>6 DEF ReadDirective, FormRegex, BuildRegex, Lookups, FindParts, AskFor, plugin
  <2>2. UNCHANGED <<source, functions, phase>>
    BY <2>1 DEF vars, package
  <2> QED BY <2>2, SameKept DEF Constructed
<1> QED BY <1>1, <1>2, <1>3, <1>4, <1>5, <1>6 DEF Next, PluginNext

-----------------------------------------------------------------------------
(***************************************************************************)
(* The type invariant of the plugin.                                       *)
(***************************************************************************)
Bodies == {"none", "own", "throws", "stub"}
Typed(f) == IsFn(f) /\ f.attr \in Attr /\ f.body \in Bodies
AllTyped(fs) == IsSeq(fs) /\ \A k \in 1 .. Len(fs) : Typed(fs[k])

Values(gs) == \A g \in DOMAIN gs : gs[g].value \in {"initializer", "false"}

\* While functions are patched, each abstract guard method is one of the functions.
MethodsMade ==
  phase = "patch" => \A j \in 1 .. Count : \E k \in 1 .. Len(functions) : functions[k].name.func[1] = Method(j)

\* What one part of the package says of another.
PartsFit ==
  /\ \A i \in DOMAIN functions : functions[i].guard \in {<<>>} \cup {<<g>> : g \in DOMAIN globals}
  /\ \A k \in DOMAIN classes :
       ToSet(classes[k].methods) \subseteq {functions[i].name.func[1] : i \in DOMAIN functions}
  /\ \A k \in DOMAIN gvi : gvi[k].value \in {"None", "instance", "true"}

TypesOK ==
  /\ AllTyped(functions) /\ Values(globals)
  /\ initGuarded \subseteq {"packageInit", "literalInit"}
  /\ MethodsMade
  /\ phase = "failed" => PartsFit

LEMMA MadeTyped == ASSUME NEW c, NEW n, NEW b \in Bodies PROVE Typed(Made(c, n, b))
<1>1. Made(c, n, b).attr \in {"none", "no body"} /\ Made(c, n, b).body = b /\ IsFn(Made(c, n, b))
  BY DEF Made, IsFn
<1> QED BY <1>1 DEF Typed, Attr

LEMMA EditedTyped ==
  ASSUME NEW f, Typed(f), NEW g, NEW b \in Bodies, NEW u
  PROVE  /\ Typed([f EXCEPT !.guard = g, !.body = b])
         /\ Typed([f EXCEPT !.body = b])
         /\ Typed([f EXCEPT !.unit = u])
<1>1. ASSUME NEW h, h = [f EXCEPT !.guard = g, !.body = b] PROVE Typed(h)
  BY <1>1 DEF Typed, IsFn
<1>2. ASSUME NEW h, h = [f EXCEPT !.body = b] PROVE Typed(h)
  BY <1>2 DEF Typed, IsFn
<1>3. ASSUME NEW h, h = [f EXCEPT !.unit = u] PROVE Typed(h)
  BY <1>3 DEF Typed, IsFn
<1> QED BY <1>1, <1>2, <1>3, Zenon

LEMMA TypedByEdit ==
  ASSUME NEW fs, AllTyped(fs), NEW k \in 1 .. Len(fs), NEW h, Typed(h)
  PROVE  AllTyped([fs EXCEPT ![k] = h])
<1> DEFINE t == [fs EXCEPT ![k] = h]
<1>1. IsSeq(fs) /\ DOMAIN fs = 1 .. Len(fs)
  BY SeqFacts DEF AllTyped
<1>2. IsSeq(t) /\ Len(t) = Len(fs) /\ t[k] = h /\ \A n \in 1 .. Len(fs) : n # k => t[n] = fs[n]
  BY <1>1, ExceptOfSeq
<1> HIDE DEF t
<1>3. \A n \in 1 .. Len(fs) : Typed(t[n])
  BY <1>2 DEF AllTyped
<1> QED BY <1>2, <1>3 DEF AllTyped, t

LEMMA TypedByConcat ==
  ASSUME NEW fs, AllTyped(fs), NEW t, AllTyped(t) PROVE AllTyped(fs \o t)
<1> DEFINE u == fs \o t
<1>1. IsConcat(u, fs, t)
  BY ConcatSeq DEF AllTyped
<1> HIDE DEF u
<1>2. ASSUME NEW k \in 1 .. Len(u) PROVE Typed(u[k])
  <2>1. CASE k \in 1 .. Len(fs)
    BY <1>1, <2>1 DEF IsConcat, AllTyped
  <2>2. CASE \E n \in 1 .. Len(t) : k = Len(fs) + n
    BY <1>1, <2>2 DEF IsConcat, AllTyped
  <2> QED BY <1>1, <2>1, <2>2 DEF IsConcat
<1> QED BY <1>1, <1>2 DEF IsConcat, AllTyped, u

LEMMA TypedList ==
  ASSUME NEW n \in Nat, NEW s, s = [k \in 1 .. n |-> s[k]], \A k \in 1 .. n : Typed(s[k]) PROVE AllTyped(s)
<1>1. IsSeq(s) /\ Len(s) = n
  BY FunctionSeq
<1> QED BY <1>1 DEF AllTyped

LEMMA TypedShort == AllTyped(<<>>) /\ \A h : Typed(h) => AllTyped(<<h>>)
<1>1. AllTyped(<<>>)
  BY ShortSeqs DEF AllTyped
<1>2. ASSUME NEW h, Typed(h) PROVE AllTyped(<<h>>)
  <2> DEFINE t == <<h>>
  <2>1. IsSeq(t) /\ Len(t) = 1 /\ t[1] = h
    BY ShortSeqs
  <2> HIDE DEF t
  <2>2. \A k \in 1 .. Len(t) : k = 1
    BY <2>1
  <2> QED BY <1>2, <2>1, <2>2 DEF AllTyped, t
<1> QED BY <1>1, <1>2

LEMMA PatchedTyped ==
  ASSUME NEW fs, AllTyped(fs), NEW i \in 1 .. Len(fs), NEW g PROVE AllTyped(Patched(fs, i, g))
<1> DEFINE f == fs[i]
           b == IF source.throwStubs THEN "throws" ELSE f.body
           h == [f EXCEPT !.guard = <<g>>, !.body = b]
           s == [fs EXCEPT ![i] = h]
           m == Made(<<>>, GuardOf(f).method, "none")
           c == Made(f.name.class, GenSyntheticCtorName(f.name), "own")
           t == <<m>>
           u == IF f.ctor THEN <<c>> ELSE <<>>
           p == s \o t
<1>1. Patched(fs, i, g) = p \o u
  <2>1. [fs EXCEPT ![i].guard = <<g>>, ![i].body = IF source.throwStubs THEN "throws" ELSE @] = s
    OBVIOUS
  <2> QED BY <2>1 DEF Patched
<1>2. Typed(f) /\ b \in Bodies
  BY DEF AllTyped, Typed, Bodies
<1>3. Typed(h)
  <2> HIDE DEF f, b
  <2> QED BY <1>2, EditedTyped
<1>4. Typed(m) /\ Typed(c)
  BY MadeTyped DEF Bodies
<1> HIDE DEF h, m, c
<1>5. AllTyped(t) /\ AllTyped(u)
  BY <1>4, TypedShort
<1>6. AllTyped(s)
  BY <1>3, TypedByEdit
<1> HIDE DEF s, t, u
<1>7. AllTyped(p)
  BY <1>5, <1>6, TypedByConcat
<1> HIDE DEF p
<1> QED BY <1>1, <1>5, <1>7, TypedByConcat

\* The first function that patching adds is the abstract guard method.
LEMMA PatchedMethod ==
  ASSUME NEW fs, IsSeq(fs), NEW i \in 1 .. Len(fs), NEW g, NEW r, r = Patched(fs, i, g)
  PROVE  Len(fs) + 1 \in 1 .. Len(r) /\ r[Len(fs) + 1].name.func[1] = GuardOf(fs[i]).method
<1> DEFINE f == fs[i]
           b == IF source.throwStubs THEN "throws" ELSE f.body
           h == [f EXCEPT !.guard = <<g>>, !.body = b]
           s == [fs EXCEPT ![i] = h]
           m == Made(<<>>, GuardOf(f).method, "none")
           c == Made(f.name.class, GenSyntheticCtorName(f.name), "own")
           t == <<m>>
           u == IF f.ctor THEN <<c>> ELSE <<>>
           p == s \o t
<1>1. r = p \o u
  <2>1. [fs EXCEPT ![i].guard = <<g>>, ![i].body = IF source.throwStubs THEN "throws" ELSE @] = s
    OBVIOUS
  <2> QED BY <2>1 DEF Patched
<1>2. IsSeq(s) /\ Len(s) = Len(fs)
  BY SeqFacts, ExceptOfSeq
<1>3. IsSeq(t) /\ Len(t) = 1 /\ t[1] = m /\ IsSeq(u)
  BY ShortSeqs
<1>4. m.name.func[1] = GuardOf(f).method
  BY DEF Made, Name
<1> HIDE DEF s, t, u, m, f
<1>5. IsConcat(p, s, t)
  BY <1>2, <1>3, ConcatSeq
<1> HIDE DEF p
<1>6. IsSeq(p) /\ Len(fs) \in Nat /\ Len(p) = Len(fs) + 1 /\ p[Len(fs) + 1] = m
  <2>1. 1 \in 1 .. Len(t)
    BY <1>3
  <2> QED BY <1>2, <1>3, <1>5, <2>1 DEF IsConcat
<1>7. IsConcat(r, p, u)
  BY <1>1, <1>3, <1>6, ConcatSeq
<1>8. Len(r) \in Nat /\ Len(r) >= Len(p)
  BY <1>7 DEF IsConcat
<1>9. Len(fs) + 1 \in 1 .. Len(p) /\ Len(fs) + 1 \in 1 .. Len(r)
  BY <1>6, <1>8
<1>10. r[Len(fs) + 1] = m
  BY <1>6, <1>7, <1>9 DEF IsConcat
<1> QED BY <1>4, <1>9, <1>10 DEF f

\* What holds of the parts where they are made: guards, classes and stores.
LEMMA GuardsFit ==
  ASSUME PluginInv, Constructed
  PROVE  \A i \in DOMAIN functions : functions[i].guard \in {<<>>} \cup {<<g>> : g \in DOMAIN globals}
<1>1. SourceOK /\ CollectedOK /\ PackageOK
  BY DEF PluginInv
<1>2. /\ DOMAIN functions = 1 .. Len(functions) /\ Count \in Nat /\ DOMAIN globals = 1 .. Len(globals)
      /\ Len(globals) = IF Count = 0 THEN 2 ELSE 3 + Count
  BY <1>1, GuardedAre, SeqFacts DEF PackageOK, FunctionsOK, GlobalsOK
<1>3. ASSUME NEW i \in 1 .. Len(functions), functions[i].guard # <<>>
      PROVE  \E g \in DOMAIN globals : functions[i].guard = <<g>>
  <2>1. PICK j \in 1 .. Count : i = collected[j]
    BY <1>1, <1>3 DEF PackageOK, GuardsOK
  <2>2. functions[i].guard = <<3 + j>>
    BY <1>1, <2>1 DEF PackageOK, GuardsOK
  <2>3. 3 + j \in DOMAIN globals
    BY <1>2, <2>1
  <2> QED BY <2>2, <2>3
<1> QED BY <1>2, <1>3

LEMMA StoresFit ==
  ASSUME PluginInv, Constructed PROVE \A k \in DOMAIN gvi : gvi[k].value \in {"None", "instance", "true"}
<1>1. StoresOK
  BY DEF PluginInv, PackageOK
<1>2. DOMAIN gvi = 1 .. Len(gvi) /\ Len(gvi) \in Nat
  BY <1>1, SeqFacts DEF StoresOK
<1>3. NoneStore.value = "None" /\ InstanceStore.value = "instance" /\ \A f : FlagStore(f).value = "true"
  BY DEF NoneStore, InstanceStore, FlagStore
<1>4. ASSUME NEW k \in 1 .. Len(gvi) PROVE gvi[k].value \in {"None", "instance", "true"}
  <2>1. k = 1 \/ k = 2 \/ k > 2
    BY <1>2
  <2>2. CASE k > 2
    <3>1. PICK f : gvi[k] = FlagStore(f)
      BY <1>1, <2>2 DEF StoresOK, StoreOK
    <3> QED BY <1>3, <3>1
  <2>3. CASE k = 1 \/ k = 2
    <3>1. gvi[k] = NoneStore \/ gvi[k] = InstanceStore
      BY <1>1, <2>3 DEF StoresOK
    <3> QED BY <1>3, <3>1
  <2> QED BY <2>1, <2>2, <2>3
<1> QED BY <1>2, <1>4

LEMMA ClassesFit ==
  ASSUME PluginInv, MethodsMade, Constructed
  PROVE  \A k \in DOMAIN classes :
           ToSet(classes[k].methods) \subseteq {functions[i].name.func[1] : i \in DOMAIN functions}
<1> DEFINE names == {functions[i].name.func[1] : i \in DOMAIN functions}
<1>1. SourceOK /\ CollectedOK /\ PackageOK
  BY DEF PluginInv
<1>2. /\ DOMAIN functions = 1 .. Len(functions) /\ Len(functions) \in Nat /\ Count \in Nat
      /\ Given \in Nat /\ Base \in Nat /\ Base >= Given + 7 /\ Base <= Len(functions)
  BY <1>1, GuardedAre, SeqFacts DEF PackageOK, FunctionsOK
<1>3. ASSUME NEW i \in 1 .. 3 PROVE InitMethods[i] \in names
  <2> DEFINE k == Given + i
  <2>1. k \in 1 .. Len(functions) /\ k \in Given + 1 .. Given + 3 /\ k - Given = i
    BY <1>2
  <2> HIDE DEF k
  <2>2. functions[k].name = Name(Pkg, <<InitGuardClass>>, <<InitMethods[i]>>, <<>>)
    BY <1>1, <2>1 DEF PackageOK, FunctionsOK, FunctionOK
  <2>3. functions[k].name.func[1] = InitMethods[i]
    BY <2>2 DEF Name
  <2> QED BY <1>2, <2>1, <2>3
<1>4. ASSUME NEW j \in 1 .. Count PROVE Method(j) \in names
  <2>1. CASE phase = "patch"
    BY <1>2, <2>1 DEF MethodsMade
  <2>2. CASE HasPatchClass
    <3>1. Base + j \in 1 .. Len(functions) /\ FunctionOK(Base + j)
      BY <1>1, <2>2, PatchMethods
    <3> DEFINE k == Base + j
    <3>2. k > Base /\ k - Base = j
      BY <1>2
    <3>3. functions[k].name = Name(Pkg, <<PatchClass>>, <<Method(k - Base)>>, <<>>)
      BY <3>1, <3>2 DEF FunctionOK
    <3>4. k \in DOMAIN functions
      BY <1>2, <3>1
    <3> HIDE DEF k
    <3>5. functions[k].name.func[1] = Method(j)
      BY <3>2, <3>3 DEF Name
    <3> QED BY <3>4, <3>5
  <2>3. phase = "patch" \/ HasPatchClass
    <3>1. phase # "find"
      <4>1. Count # 0
        OBVIOUS
      <4> QED BY <4>1 DEF Count
    <3> QED BY <3>1 DEF Constructed, HasPatchClass
  <2> QED BY <2>1, <2>2, <2>3
<1> HIDE DEF names
<1>5. ToSet(InitMethods) \subseteq names
  <2>1. DOMAIN InitMethods = 1 .. 3
    BY DEF InitMethods
  <2> QED BY <1>3, <2>1 DEF ToSet
<1>6. ToSet(Methods) \subseteq names
  <2>1. DOMAIN Methods = 1 .. Count /\ \A j \in 1 .. Count : Methods[j] = Method(j)
    BY DEF Methods
  <2> QED BY <1>4, <2>1 DEF ToSet
<1>7. ASSUME NEW k \in DOMAIN classes PROVE classes[k].methods \in {InitMethods, Methods}
  <2>1. /\ InitPart.methods = InitMethods /\ GuardPart.methods = Methods /\ PatchPart.methods = Methods
    BY DEF InitPart, GuardPart, PatchPart
  <2>2. classes \in {<<InitPart>>, <<InitPart, GuardPart>>, <<InitPart, GuardPart, PatchPart>>}
    BY <1>1 DEF PackageOK, ClassesOK
  <2>3. classes[k] \in {InitPart, GuardPart, PatchPart}
    BY <2>2
  <2> QED BY <2>1, <2>3
<1> QED BY <1>5, <1>6, <1>7 DEF names

LEMMA PartsAlwaysFit == ASSUME PluginInv, TypesOK PROVE PartsFit
<1>1. CASE phase = "failed"
  BY <1>1 DEF TypesOK
<1>2. CASE Constructed
  BY <1>2, GuardsFit, ClassesFit, StoresFit DEF TypesOK, PartsFit
<1>3. CASE phase \in {"context", "filter", "construct"}
  <2>1. Untouched /\ SourceOK
    BY <1>3 DEF PluginInv
  <2>2. DOMAIN classes = {} /\ DOMAIN gvi = {}
    BY <2>1 DEF Untouched
  <2>3. \A i \in DOMAIN functions : functions[i].guard = <<>>
    BY <2>1, SourceFns DEF Untouched
  <2> QED BY <2>2, <2>3 DEF PartsFit
<1> QED BY <1>1, <1>2, <1>3 DEF PluginInv, Constructed

LEMMA PluginTypes == ASSUME PluginInv, TypesOK PROVE TypeOK
<1>1. PartsFit
  BY PartsAlwaysFit
<1>2. \A i \in DOMAIN functions : functions[i].attr \in Attr /\ functions[i].body \in Bodies
  <2>1. DOMAIN functions = 1 .. Len(functions)
    BY SeqFacts DEF TypesOK, AllTyped
  <2> QED BY <2>1 DEF TypesOK, AllTyped, Typed
<1>3. index \in Nat /\ collected \in Seq(Nat)
  <2>1. IsSeq(collected) /\ Given \in Nat /\ \A j \in 1 .. Len(collected) : collected[j] \in 1 .. Given
    BY SourceNames DEF PluginInv, CollectedOK
  <2>2. collected = [j \in 1 .. Len(collected) |-> collected[j]] /\ Len(collected) \in Nat
    BY <2>1, SeqFacts
  <2>3. \A j \in 1 .. Len(collected) : collected[j] \in Nat
    BY <2>1
  <2>4. collected \in [1 .. Len(collected) -> Nat]
    BY <2>2, <2>3
  <2>5. collected \in Seq(Nat)
    <3> DEFINE n == Len(collected)
    <3>1. n \in Nat /\ collected \in [1 .. n -> Nat]
      BY <2>2, <2>4
    <3> HIDE DEF n
    <3> QED BY <3>1
  <2>6. index \in Nat
    BY DEF PluginInv, CollectedOK
  <2> QED BY <2>5, <2>6
<1> QED BY <1>1, <1>2, <1>3 DEF TypeOK, TypesOK, PartsFit, Values, PluginInv, Bodies

\* The steps, those first that make functions or globals.
LEMMA TypesStart == EntryPointInit => TypesOK
<1> SUFFICES ASSUME NEW c \in Compilation, InitOn(c.source), EntryPointInit PROVE TypesOK
  BY DEF EntryPointInit, HandoverInitOn
<1>1. SourceOK
  BY EntryPointAssumption DEF InitOn, SourceOK
<1>2. DOMAIN source.functions = 1 .. Given /\ Given \in Nat
  BY <1>1, SourceNames, SeqFacts DEF Given
<1>3. functions = [i \in 1 .. Given |-> Source(i)]
  BY <1>2 DEF InitOn, Source
<1>4. ASSUME NEW i \in 1 .. Given PROVE Typed(Source(i))
  <2> DEFINE f == source.functions[i]
  <2>1. f \in ToSet(source.functions)
    BY <1>2 DEF ToSet
  <2>2. f.attr \in Attr
    BY <1>1, <2>1 DEF SourceOK, IsSource
  <2>3. Source(i).attr = f.attr /\ Source(i).body \in {"none", "own"} /\ IsFn(Source(i))
    BY DEF Source, Own, IsFn
  <2> QED BY <2>2, <2>3 DEF Typed, Bodies
<1>5. functions = [i \in 1 .. Given |-> functions[i]] /\ \A i \in 1 .. Given : Typed(functions[i])
  BY <1>3, <1>4
<1>6. AllTyped(functions)
  BY <1>2, <1>5, TypedList
<1> QED BY <1>6 DEF InitOn, TypesOK, Values, MethodsMade

LEMMA ConstructTypes == ASSUME PluginInv, TypesOK, ConstructPatcher PROVE TypesOK'
<1> DEFINE m(i) == Made(<<InitGuardClass>>, InitMethods[i], "own")
           a(i) == Made(<<>>, Accessors[i], "own")
           x == [i \in 1 .. 3 |-> m(i)]
           y == [i \in 1 .. 4 |-> a(i)]
           s == functions \o x
<1>1. CASE phase' = "failed"
  <2>1. UNCHANGED package
    BY <1>1 DEF ConstructPatcher
  <2>2. PartsFit
    BY PartsAlwaysFit
  <2> QED BY <1>1, <2>1, <2>2 DEF package, TypesOK, AllTyped, Values, MethodsMade, PartsFit
<1>2. CASE phase' # "failed"
  <2>1. /\ phase' = "find" /\ functions' = s \o y /\ initGuarded' = {"packageInit", "literalInit"}
        /\ globals' = << [name |-> GenGuardVarName(Package, TRUE), value |-> "initializer"],
                         [name |-> GenGuardVarFlagName(Package, TRUE), value |-> "false"] >>
    BY <1>2 DEF ConstructPatcher
  <2>2. Values(globals')
    BY <2>1 DEF Values
  <2>3. (\A i : Typed(m(i))) /\ \A i : Typed(a(i))
    BY MadeTyped DEF Bodies
  <2> HIDE DEF m, a
  <2>4. x = [k \in 1 .. 3 |-> x[k]] /\ (\A k \in 1 .. 3 : Typed(x[k])) /\ 3 \in Nat
    BY <2>3
  <2>5. y = [k \in 1 .. 4 |-> y[k]] /\ (\A k \in 1 .. 4 : Typed(y[k])) /\ 4 \in Nat
    BY <2>3
  <2> HIDE DEF x, y
  <2>6. AllTyped(x) /\ AllTyped(y)
    BY <2>4, <2>5, TypedList
  <2>7. AllTyped(s)
    BY <2>6, TypedByConcat DEF TypesOK
  <2> HIDE DEF s
  <2>8. AllTyped(s \o y)
    BY <2>6, <2>7, TypedByConcat
  <2>9. AllTyped(functions)'
    BY <2>1, <2>8 DEF AllTyped
  <2> QED BY <2>1, <2>2, <2>9 DEF TypesOK, Values, MethodsMade
<1> QED BY <1>1, <1>2

LEMMA MoreValues ==
  ASSUME NEW gs, IsSeq(gs), Values(gs), NEW n, NEW v \in {"initializer", "false"}
  PROVE  IsSeq(Append(gs, [name |-> n, value |-> v])) /\ Values(Append(gs, [name |-> n, value |-> v]))
<1> DEFINE e == [name |-> n, value |-> v]
           u == Append(gs, e)
<1>1. e.value = v
  OBVIOUS
<1> HIDE DEF e
<1>2. IsAppend(u, gs, e)
  BY AppendSeq
<1> HIDE DEF u
<1>3. DOMAIN u = 1 .. Len(u) /\ DOMAIN gs = 1 .. Len(gs) /\ Len(gs) \in Nat /\ Len(u) = Len(gs) + 1
  BY <1>2, SeqFacts DEF IsAppend
<1>4. \A k \in 1 .. Len(u) : k \in 1 .. Len(gs) \/ k = Len(gs) + 1
  BY <1>3
<1>5. Values(u)
  BY <1>1, <1>2, <1>3, <1>4 DEF IsAppend, Values
<1>6. IsSeq(u)
  BY <1>2 DEF IsAppend
<1> QED BY <1>5, <1>6 DEF u, e

LEMMA PatchTypes == ASSUME PluginInv, TypesOK, Patch PROVE TypesOK'
<1>1. CASE phase' = "failed"
  <2>1. UNCHANGED package
    BY <1>1 DEF Patch
  <2>2. PartsFit
    BY PartsAlwaysFit
  <2> QED BY <1>1, <2>1, <2>2 DEF package, TypesOK, AllTyped, Values, MethodsMade, PartsFit
<1>2. CASE phase' # "failed"
  <2> DEFINE gs == IF Count = 0 THEN Append(globals, [name |-> GenGuardVarName(Package, FALSE),
                                                     value |-> "initializer"])
                   ELSE globals
  <2>1. PICK i, fs, g : PatchedAt(i, fs, g) /\ globals' = Append(gs, [name |-> GuardOf(Chosen(index)).flag,
                                                                      value |-> "false"])
    BY <1>2, PatchSucceeds
  <2>2. /\ SourceOK /\ CollectedOK /\ PackageOK /\ phase = "patch" /\ phase' = "patch" /\ Given \in Nat /\ Count \in Nat
        /\ fs = (IF gvi = <<>> THEN WithInitializer(functions) ELSE functions)
        /\ functions' = Patched(fs, i, g) /\ i \in 1 .. Given
        /\ index = Count + 1 /\ Count' = Count + 1 /\ GuardOf(fs[i]) = GuardOf(Chosen(index))
        /\ \A k : Method(k)' = Method(k)
    BY <2>1 DEF PatchedAt
  <2>3. /\ IsSeq(functions) /\ IsSeq(fs) /\ Len(fs) \in Nat /\ Len(fs) >= Given + 8
        /\ Len(fs) >= Len(functions) /\ Len(functions) \in Nat
        /\ \A k \in 1 .. Len(functions) : fs[k] = functions[k]
    BY <2>2, ExtendedFns
  <2>4. AllTyped(fs)
    <3>1. CASE gvi = <<>>
      <4> DEFINE h == Made(<<>>, GenGuardVarInitializedName(Package), "own")
      <4>1. Typed(h)
        BY MadeTyped DEF Bodies
      <4>2. fs = Append(functions, h)
        BY <2>2, <3>1 DEF WithInitializer
      <4> HIDE DEF h
      <4>3. IsAppend(fs, functions, h)
        BY <2>3, <4>2, AppendSeq
      <4>4. \A k \in 1 .. Len(fs) : k \in 1 .. Len(functions) \/ k = Len(functions) + 1
        BY <2>3, <4>3 DEF IsAppend
      <4> QED BY <2>3, <4>1, <4>3, <4>4 DEF IsAppend, TypesOK, AllTyped
    <3>2. CASE gvi # <<>>
      BY <2>2, <3>2 DEF TypesOK
    <3> QED BY <3>1, <3>2
  <2>5. i \in 1 .. Len(fs)
    BY <2>2, <2>3
  <2>6. AllTyped(functions)'
    <3>1. AllTyped(Patched(fs, i, g))
      BY <2>4, <2>5, PatchedTyped
    <3> QED BY <2>2, <3>1 DEF AllTyped
  <2>7. Values(globals)'
    <3>1. IsSeq(gs) /\ Values(gs)
      BY <2>2, MoreValues DEF PackageOK, GlobalsOK, TypesOK
    <3> HIDE DEF gs
    <3>2. Values(globals')
      BY <2>1, <3>1, MoreValues
    <3> QED BY <3>2 DEF Values
  <2>8. UNCHANGED initGuarded
    BY <1>2 DEF Patch
  <2>9. ASSUME NEW j \in 1 .. Count + 1 PROVE \E k \in 1 .. Len(functions') : functions'[k].name.func[1] = Method(j)
    <3>1. /\ Len(fs) + 1 \in 1 .. Len(functions')
          /\ functions'[Len(fs) + 1].name.func[1] = GuardOf(fs[i]).method
      BY <2>2, <2>3, <2>5, PatchedMethod
    <3>2. CASE j = Count + 1
      <4>1. GuardOf(fs[i]).method = Method(j)
        BY <2>2, <3>2 DEF Method
      <4> QED BY <3>1, <4>1
    <3>3. CASE j \in 1 .. Count
      <4>1. PICK k \in 1 .. Len(functions) : functions[k].name.func[1] = Method(j)
        BY <2>2, <3>3 DEF TypesOK, MethodsMade
      <4>2. k \in 1 .. Len(fs)
        BY <2>3
      <4>3. PatchedTo(functions', fs, i, g)
        <5>1. \A n \in 1 .. Len(fs) : IsFn(fs[n])
          BY <2>4 DEF AllTyped, Typed
        <5> QED BY <2>2, <2>3, <2>5, <5>1, PatchedFns
      <4>4. functions'[k].name = functions[k].name /\ k \in 1 .. Len(functions')
        BY <2>3, <4>2, <4>3 DEF PatchedTo
      <4> QED BY <4>1, <4>4
    <3> QED BY <2>2, <3>2, <3>3
  <2>10. MethodsMade'
    BY <2>2, <2>9 DEF MethodsMade
  <2> QED BY <2>2, <2>6, <2>7, <2>8, <2>10 DEF TypesOK
<1> QED BY <1>1, <1>2

LEMMA PatchClassTypes == ASSUME PluginInv, TypesOK, GenPatchClass PROVE TypesOK'
<1>1. /\ SourceOK /\ CollectedOK /\ PackageOK /\ phase = "patch" /\ phase' \in {"stub", "done"}
      /\ UNCHANGED <<globals, initGuarded>>
  BY DEF GenPatchClass, PluginInv, Constructed
<1>2. AllTyped(functions)'
  <2>1. CASE gvi = <<>>
    <3>1. functions' = functions
      BY <2>1 DEF GenPatchClass
    <3> QED BY <3>1 DEF TypesOK, AllTyped
  <2>2. CASE gvi # <<>>
    <3> DEFINE h(j) == Made(<<PatchClass>>, Methods[j], "throws")
               n(j) == [h(j) EXCEPT !.unit = source.functions[collected[j]].unit]
               new == [j \in DOMAIN Methods |-> n(j)]
    <3>1. Count # 0 /\ Count \in Nat /\ DOMAIN Methods = 1 .. Count
      BY <1>1, <2>2, GuardedAre DEF PackageOK, StoresOK, Methods
    <3>2. MethodsOf(GuardClass) = Methods
      BY <1>1, <3>1, MethodsOfClasses DEF PackageOK
    <3>3. functions' = functions \o new
      BY <2>2, <3>2 DEF GenPatchClass
    <3>4. ASSUME NEW j PROVE Typed(n(j))
      <4> DEFINE f == h(j)
                 w == source.functions[collected[j]].unit
      <4>1. Typed(f)
        BY MadeTyped DEF Bodies
      <4> HIDE DEF f, w
      <4>2. Typed([f EXCEPT !.unit = w])
        <5>1. "own" \in Bodies
          BY DEF Bodies
        <5> QED BY <4>1, <5>1, EditedTyped
      <4> QED BY <4>2 DEF f, w
    <3> HIDE DEF n
    <3>5. new = [j \in 1 .. Count |-> new[j]] /\ \A j \in 1 .. Count : Typed(new[j])
      BY <3>1, <3>4
    <3> HIDE DEF new
    <3>6. AllTyped(new)
      BY <3>1, <3>5, TypedList
    <3>7. AllTyped(functions \o new)
      BY <3>6, TypedByConcat DEF TypesOK
    <3> QED BY <3>3, <3>7 DEF AllTyped
  <2> QED BY <2>1, <2>2
<1> QED BY <1>1, <1>2 DEF TypesOK, Values, MethodsMade

LEMMA SameFit == ASSUME PartsFit, UNCHANGED <<functions, globals, classes, gvi>> PROVE PartsFit'
BY DEF PartsFit

LEMMA RebodiedTyped ==
  ASSUME NEW fs, AllTyped(fs), NEW k \in 1 .. Len(fs), NEW b \in Bodies PROVE AllTyped([fs EXCEPT ![k].body = b])
<1> DEFINE f == fs[k]
           h == [f EXCEPT !.body = b]
<1>1. [fs EXCEPT ![k].body = b] = [fs EXCEPT ![k] = h]
  OBVIOUS
<1>2. Typed(h)
  <2>1. Typed(f)
    BY DEF AllTyped
  <2> HIDE DEF f
  <2> QED BY <2>1, EditedTyped
<1> HIDE DEF h
<1> QED BY <1>1, <1>2, TypedByEdit

LEMMA StubTypes == ASSUME PluginInv, TypesOK, StubPatch PROVE TypesOK'
<1>1. PICK j : /\ StubAt(j)
               /\ \/ UNCHANGED <<phase, functions, gvi>>
                  \/ phase' = "failed" /\ UNCHANGED <<functions, gvi>>
                  \/ ~StubFails(collected[j]) /\ functions' = Stubbed(collected[j]) /\ UNCHANGED phase
  BY StubbedAt
<1> DEFINE i == collected[j]
           stub == source.functions[i].stub
<1>2. /\ SourceOK /\ CollectedOK /\ PackageOK /\ HasPatchClass /\ j \in 1 .. Count
      /\ UNCHANGED <<globals, classes>> /\ phase = "stub patch"
  BY <1>1 DEF StubAt
<1>3. UNCHANGED initGuarded
  BY DEF StubPatch
<1>4. CASE UNCHANGED <<phase, functions, gvi>>
  BY <1>2, <1>3, <1>4 DEF TypesOK, AllTyped, Values, MethodsMade
<1>5. CASE phase' = "failed" /\ UNCHANGED <<functions, gvi>>
  <2>1. PartsFit
    BY PartsAlwaysFit
  <2>2. UNCHANGED <<functions, globals, classes, gvi>>
    BY <1>2, <1>5
  <2>3. PartsFit'
    BY <2>1, <2>2, SameFit
  <2>4. AllTyped(functions)' /\ Values(globals)' /\ MethodsMade'
    BY <1>5, <2>2 DEF TypesOK, AllTyped, Values, MethodsMade
  <2> QED BY <1>3, <2>3, <2>4 DEF TypesOK
<1>6. CASE ~StubFails(i) /\ functions' = Stubbed(i) /\ UNCHANGED phase
  <2>1. /\ Base \in Nat /\ Given \in Nat /\ Len(functions) = Base + Count /\ Count \in Nat /\ i \in 1 .. Given
        /\ Base >= Given + 8
        /\ PatchMethodOf(functions[i]) = Base + j /\ Base + j \in 1 .. Len(functions)
    BY <1>2, PatchMethods
  <2>2. PICK k : k = Base + j
    OBVIOUS
  <2>3. stub \in Nat
    BY <1>2, <2>1, SourceNames
  <2>4. stub # 0 => ~(stub > Len(source.functions))
    BY <1>6 DEF StubFails
  <2>5. functions' = IF stub = 0 THEN [functions EXCEPT ![k].body = "stub"]
                     ELSE [functions EXCEPT ![k].body = functions[stub].body, ![stub].body = "none"]
    BY <1>6, <2>1, <2>2 DEF Stubbed
  <2> HIDE DEF i, stub
  <2>6. AllTyped(functions) /\ k \in 1 .. Len(functions) /\ "stub" \in Bodies /\ "none" \in Bodies
    BY <2>1, <2>2 DEF TypesOK, Bodies
  <2>7. \E r : functions' = r /\ AllTyped(r)
    <3>1. CASE stub = 0
      BY <2>5, <2>6, <3>1, RebodiedTyped
    <3>2. CASE stub # 0
      <4> DEFINE b == functions[stub].body
                 s == [functions EXCEPT ![k].body = b]
      <4>1. stub \in 1 .. Len(functions)
        <5>1. stub <= Given
          BY <2>1, <2>3, <2>4, <3>2 DEF Given
        <5> QED BY <2>1, <2>3, <3>2, <5>1
      <4>2. b \in Bodies
        BY <2>6, <4>1 DEF AllTyped, Typed
      <4>3. functions' = [s EXCEPT ![stub].body = "none"]
        BY <2>5, <3>2
      <4> HIDE DEF b
      <4>4. AllTyped(s)
        BY <2>6, <4>2, RebodiedTyped
      <4>5. Len(s) = Len(functions)
        <5>1. IsSeq(functions) /\ \A n \in 1 .. Len(functions) : IsFn(functions[n])
          BY <2>6 DEF AllTyped, Typed
        <5>2. IsRebodied(s, functions, k, b)
          BY <2>6, <5>1, RebodiedFns
        <5> QED BY <5>2 DEF IsRebodied
      <4> HIDE DEF s
      <4>6. AllTyped([s EXCEPT ![stub].body = "none"])
        BY <2>6, <4>1, <4>4, <4>5, RebodiedTyped
      <4> QED BY <4>3, <4>6
    <3> QED BY <3>1, <3>2
  <2>8. AllTyped(functions)'
    BY <2>7 DEF AllTyped
  <2>9. phase' = "stub patch"
    BY <1>2, <1>6
  <2> QED BY <1>2, <1>3, <2>8, <2>9 DEF TypesOK, Values, MethodsMade
<1> QED BY <1>1, <1>4, <1>5, <1>6

LEMMA SameTypes ==
  ASSUME PluginInv, TypesOK, UNCHANGED <<functions, globals, classes, initGuarded>>,
         phase' = "failed" => UNCHANGED gvi, MethodsMade'
  PROVE  TypesOK'
<1>1. PartsFit
  BY PartsAlwaysFit
<1> QED BY <1>1 DEF TypesOK, AllTyped, Values, PartsFit

LEMMA TypesStep == ASSUME PluginInv, TypesOK, [Next]_<<plugin, toml, filter>> PROVE TypesOK'
<1>1. CASE ConstructPatcher
  BY <1>1, ConstructTypes
<1>2. CASE Patch \/ GenPatchClass \/ StubPatch
  BY <1>2, PatchTypes, PatchClassTypes, StubTypes
<1>3. CASE Found
  <2>1. phase' = "patch" /\ index' = 1 /\ UNCHANGED package
    BY <1>3 DEF Found
  <2>2. Count' = 0
    BY <2>1 DEF Count
  <2>3. MethodsMade'
    BY <2>2 DEF MethodsMade
  <2> QED BY <2>1, <2>3, SameTypes DEF package
<1>4. CASE CreateContext \/ UseRegex \/ FindPatchable \/ ConstructStub \/ Stubs
  <2>1. phase' # "patch" /\ UNCHANGED <<functions, globals, classes, initGuarded>> /\ (phase' = "failed" => UNCHANGED gvi)
    BY <1>4 DEF CreateContext, UseRegex, TakeFilter, FindPatchable, ConstructStub, Stubs, package
  <2> QED BY <2>1, SameTypes DEF MethodsMade
<1>5. CASE ReadDirective \/ FormRegex \/ BuildRegex \/ Lookups \/ UNCHANGED plugin
  <2>1. UNCHANGED vars
    BY <1>5 DEF ReadDirective, FormRegex, BuildRegex, Lookups, FindParts, AskFor, plugin
  <2>2. UNCHANGED <<source, phase, functions, globals, classes, initGuarded, gvi, index, collected>>
    BY <2>1 DEF vars, package
  <2>3. MethodsMade'
    <3>1. Count' = Count /\ \A k : Method(k)' = Method(k)
      BY <2>2 DEF Count, Method, Chosen, Source
    <3> QED BY <2>2, <3>1 DEF MethodsMade, TypesOK
  <2> QED BY <2>2, <2>3, SameTypes
<1> QED BY <1>1, <1>2, <1>3, <1>4, <1>5 DEF Next, PluginNext
=============================================================================
