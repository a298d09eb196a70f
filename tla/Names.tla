------------------------------- MODULE Names -------------------------------
(***************************************************************************)
(* Are the names of two functions apart, and do they go with what          *)
(* patch-gen takes for the same function in two versions (Identity)?       *)
(***************************************************************************)
EXTENDS NamePairs, TypeNames

Id == INSTANCE Identity

\* What the plugin names after a function, and after its package.
FunctionNames(n) ==
  [ flag   |-> GenGuardVarFlagName(n, FALSE),
    method |-> GenGuardMethodName(n, "Plain"),
    ctor   |-> IF n.class = <<>> THEN <<>> ELSE GenSyntheticCtorName(n) ]

PackageNames(n) ==
  LET p == PackageName(n.package)
  IN  { GenGuardClassName(p, b) : b \in BOOLEAN } \cup { GenGuardVarName(p, b) : b \in BOOLEAN }
        \cup { GenGuardMethodName(p, k) : k \in MethodKind \ {"Plain"} }
        \cup { GenPackageInitFlagAccessor(p, k, b) : k \in AccessorKind, b \in BOOLEAN }
        \cup { GenGuardVarFlagName(p, TRUE), GenGuardVarInitializedName(p) }

-----------------------------------------------------------------------------
\* Properties

\* Functions that differ in their generated names and functions that the plugin
\* tells apart by their sort keys are the same: whoever is selected has a flag, a
\* method and a constructor of its own.  Only what Erased drops is confused.  Nor are
\* they the names of another kind of thing, if the function is not called packageInit.
Same(n, m) ==
  /\ n.class = m.class /\ n.func = m.func /\ Len(n.params) = Len(m.params)
  /\ \A i \in DOMAIN n.params : Erased(n.params[i]) = Erased(m.params[i])

NamesFollowSortKeys ==
  LET a == FunctionNames(first)   b == FunctionNames(second)
      apart == ~Same(first, second)
  IN  /\ (SortKey(first) = SortKey(second)) <=> ~apart
      /\ apart => /\ a.flag # b.flag /\ a.method # b.method
                  /\ (a.ctor # <<>> => a.ctor # b.ctor)
      /\ a.flag \notin {b.method, b.ctor} /\ a.method # b.ctor
      /\ {a.method, a.ctor} \cap PackageNames(second) = {}
      /\ first.func # << <<"packageInit">> >> => a.flag \notin PackageNames(second)

\* What patch-gen pairs across two versions has the same names in both, and what
\* has not the same names does not pair: the guard of a changed function is that
\* of its counterpart.  Equality overlooks only the sizes of VArrays, names only
\* what Erased drops.  The flags of two functions pair if their functions do.  The
\* sets of counterparts rest on more: equality does not depend on which of two is
\* asked, and equals have the same hash.  The comparison has an answer, except where
\* a function outside types meets a function of a type that has its name, parameters
\* and identifier: then it dereferences a null definition, and only identifiers that
\* tell the type keep it from that.
RECURSIVE Sizeless(_)
Sizeless(t) ==
  [t EXCEPT !.name = IF t.kind = "varray" THEN "" ELSE @, !.of = [i \in DOMAIN t.of |-> Sizeless(t.of[i])]]

Pairing(n, m, id) == Id!FunctionEquality(Id!ChirFunction(n, id), Id!ChirFunction(m, id))
Flag(n) == Id!GlobalVar(n.package, FunctionNames(n).flag)

SameSignature(n, m) ==
  /\ n.func = m.func /\ Len(n.params) = Len(m.params)
  /\ \A i \in DOMAIN n.params : Sizeless(n.params[i]) = Sizeless(m.params[i])

PairsAreNamedAlike ==
  LET sameFlag == Id!GlobalVarEquality(Flag(first), Flag(second))
  IN /\ \A id \in Id!Identifier :
          LET answer == Pairing(first, second, id)
              a == Id!ChirFunction(first, id)  b == Id!ChirFunction(second, id)
          IN /\ answer = "equal" <=> first.class = second.class /\ SameSignature(first, second)
             /\ answer = "crash" <=> /\ id = "name" /\ SameSignature(first, second)
                                     /\ (first.class = <<>>) # (second.class = <<>>)
             /\ answer = Pairing(second, first, id)
             /\ answer = "equal" => Id!FunctionHasher(a) = Id!FunctionHasher(b)
             /\ Id!CustomDefEquality(a.parent, b.parent) = "equal"
                  => Id!CustomDefHasher(a.parent) = Id!CustomDefHasher(b.parent)
     /\ sameFlag <=> Same(first, second)
     /\ sameFlag => Id!GlobalVarHasher(Flag(first)) = Id!GlobalVarHasher(Flag(second))
=============================================================================
