------------------------------ MODULE Identity ------------------------------
(***************************************************************************)
(* What patch-gen takes for the same type, definition, function or global  *)
(* variable in two versions of a package (Equality.cpp): the equality and  *)
(* the hash of the sets in which it looks for the counterparts.            *)
(*                                                                         *)
(* A function of CHIR is made from a name n of TypeNames.  Its identifier  *)
(* is external (the compiler's mangling); it may repeat the source name or *)
(* also tell the type that the function is in (Identifier), and what rests *)
(* on the second is seen in the difference.                                *)
(*                                                                         *)
(* The answer of a comparison is "equal", "different" or "crash": a null   *)
(* definition is not the same pointer as another, and is dereferenced.     *)
(***************************************************************************)
EXTENDS Naturals, Sequences, TypeNames

(***************************************************************************)
(* Types.                                                                  *)
(***************************************************************************)
\* Which visitor compares a type: wrap sees a raw array as any other type.
Visitor(t) == IF t.kind \in {"custom", "func", "generic"} THEN t.kind ELSE "type"

TypeKind(t) == IF t.kind = "primitive" THEN t.name ELSE t.kind

DefOf(t) == [kind |-> "def", package |-> <<"pkg">>, identifier |-> t.name, src |-> t.name]

\* The definition of a function outside a type: a null pointer.
NoDef == [kind |-> "null", package |-> <<>>, identifier |-> "", src |-> ""]

Answer(equal) == IF equal THEN "equal" ELSE "different"

\* The pointers are compared first, and not tested for null.
CustomDefEquality(l, r) ==
  IF l # r /\ NoDef \in {l, r} THEN "crash"
  ELSE Answer(/\ l.kind = r.kind /\ l.package = r.package
              /\ l.identifier = r.identifier /\ l.src = r.src)

\* The hash of a null definition is 0, and so is looked up like any other.
CustomDefHasher(d) == IF d = NoDef THEN <<>> ELSE <<d.package, d.identifier, d.src>>

\* The size of a VArray is no type argument and is not compared.  The name of
\* a function type says whether it is a C function and has variable arguments.
RECURSIVE TypeEquality(_, _)
TypeEquality(l, r) ==
  LET args == Len(l.of) = Len(r.of) /\ \A i \in DOMAIN l.of : TypeEquality(l.of[i], r.of[i])
  IN /\ Visitor(l) = Visitor(r)
     /\ CASE Visitor(l) = "custom"  -> CustomDefEquality(DefOf(l), DefOf(r)) = "equal" /\ args
          [] Visitor(l) = "func"    -> l.name = r.name /\ args
          [] Visitor(l) = "generic" -> l.name = r.name
          [] OTHER                  -> TypeKind(l) = TypeKind(r) /\ args

(***************************************************************************)
(* Functions and global variables.                                         *)
(***************************************************************************)
Identifier == {"name", "nameAndType"}

ChirFunction(n, identifier) ==
  [ package |-> n.package, src |-> n.func[1], body |-> TRUE, imported |-> FALSE,
    identifier |-> IF identifier = "name" THEN n.func ELSE n.class \o n.func,
    type |-> Ty("func", "", Append(n.params, Ty("primitive", "Unit", <<>>))),
    parent |-> IF n.class = <<>> THEN NoDef ELSE DefOf([name |-> n.class[1]]) ]

\* Mutant: overloads are taken for the same function.
FunctionEqualityByName(l, r) ==
  IF /\ l.package = r.package /\ l.identifier = r.identifier /\ l.src = r.src
  THEN CustomDefEquality(l.parent, r.parent)
  ELSE "different"

\* The definitions are compared last, and only if nothing else differs.
FunctionEquality(l, r) ==
  IF /\ l.body = r.body /\ l.imported = r.imported
     /\ l.package = r.package /\ l.identifier = r.identifier /\ l.src = r.src
     /\ TypeEquality(l.type, r.type)
  THEN CustomDefEquality(l.parent, r.parent)
  ELSE "different"

FunctionHasher(f) == <<f.body, f.imported, f.package, f.identifier, f.src>>

GlobalVar(package, name) == [package |-> package, identifier |-> name, src |-> name]

GlobalVarEquality(l, r) == l.identifier = r.identifier /\ l.src = r.src /\ l.package = r.package

GlobalVarHasher(v) == <<v.identifier, v.src, v.package>>
=============================================================================
