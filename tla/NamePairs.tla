----------------------------- MODULE NamePairs -----------------------------
(***************************************************************************)
(* Do the names of the two programs agree?  A state is a pair of functions *)
(* of one package: patch-gen looks for what the plugin made for the first  *)
(* one, among what it made for both; and it looks for the first one, of    *)
(* the base version, among the fixed version's.                            *)
(***************************************************************************)
EXTENDS SharedNames

CONSTANT Function          \* PatchableNames of functions

VARIABLES first, second

PairsInit == first \in Function /\ second = first
Another == second = first /\ second' \in Function /\ UNCHANGED first
PairsSpec == PairsInit /\ [][Another]_<<first, second>>

-----------------------------------------------------------------------------
\* Property

\* The two programs, which share no code, make the same names: every lookup of
\* patch-gen asks for what the plugin called it (plugin_context.cj, PatchGen.h).
SameNames ==
  LET p == PackageName(second.package)
      guardClass == Name(second.package, <<GenGuardClassName(p, FALSE)>>, <<>>, <<>>)
  IN  /\ \A k \in MethodKind : GenGuardMethodName(second, k) = Cpp!GenGuardMethodName(second, k)
      /\ \A b \in BOOLEAN :
           /\ GenGuardVarFlagName(second, b) = Cpp!GenGuardVarFlagName(second, b)
           /\ GenGuardVarName(p, b) = Cpp!GenGuardVarName(p, b)
           /\ GenGuardClassName(p, b) = Cpp!GenGuardClassName(p, b)
           /\ \A k \in AccessorKind :
                GenPackageInitFlagAccessor(p, k, b) = Cpp!GenPackageInitFlagAccessor(p, k, b)
      /\ GenGuardVarInitializedName(p) = Cpp!GenGuardVarInitializedName(p)
      /\ GenPatchClassName(guardClass) = Cpp!GenPatchClassName(guardClass)
      /\ second.class # <<>> => GenSyntheticCtorName(second) = Cpp!GenSyntheticCtorName(second)
=============================================================================
