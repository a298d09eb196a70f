----------------------------- MODULE TypeNames -----------------------------
(***************************************************************************)
(* The names of types that the tools put into the names they generate      *)
(* (ToCjQualifiedName of PatchGen.h; cjc-plugin takes Type.qualifiedName   *)
(* of the compiler's library, which patch-gen reproduces).                 *)
(*                                                                         *)
(* A type is a term: its kind, its name and the types it is made of.  A    *)
(* name is a sequence of tokens.                                           *)
(***************************************************************************)
EXTENDS Tokens

Ty(kind, name, of) == [kind |-> kind, name |-> name, of |-> of]

Wrapper == [raw |-> "RawArray", cpointer |-> "CPointer", box |-> "Box"]

RECURSIVE ToCjQualifiedName(_)

JoinCjQualifiedNames(types, delimiter) ==
  Joined([i \in DOMAIN types |-> ToCjQualifiedName(types[i])], delimiter)

\* A function type's last component is what it returns; a varray's name is its size.
ToCjQualifiedName(t) ==
  CASE t.kind \in DOMAIN Wrapper ->
         <<Wrapper[t.kind], "<">> \o ToCjQualifiedName(t.of[1]) \o <<">">>
    [] t.kind = "ref"    -> ToCjQualifiedName(t.of[1])
    [] t.kind = "varray" -> <<"VArray", "<">> \o ToCjQualifiedName(t.of[1]) \o <<",", t.name, ">">>
    [] t.kind = "tuple"  -> <<"Tuple", "<">> \o JoinCjQualifiedNames(t.of, <<",">>) \o <<">">>
    [] t.kind = "func"   ->
         <<"(">> \o JoinCjQualifiedNames(Front(t.of), <<",">>) \o <<")", "->">>
           \o ToCjQualifiedName(Last(t.of))
    [] t.kind = "custom" -> <<"pkg", ".", t.name>>
    [] OTHER             -> <<t.name>>          \* generic parameters, primitive types

\* What the names leave out of a type: references, and the type arguments of custom
\* types.
RECURSIVE Erased(_)
Erased(t) ==
  CASE t.kind = "ref"    -> Erased(t.of[1])
    [] t.kind = "custom" -> [t EXCEPT !.of = <<>>]
    [] OTHER             -> [t EXCEPT !.of = [i \in DOMAIN t.of |-> Erased(t.of[i])]]
=============================================================================
