------------------------------ MODULE MCNames ------------------------------
(***************************************************************************)
(* Functions with up to two parameters, in a class or not, among whose     *)
(* identifiers are the words the tools use themselves.  The types nest     *)
(* twice and come in every kind; two parameters range over the kinds whose *)
(* names contain delimiters.                                               *)
(***************************************************************************)
EXTENDS Names

Ident == {"f", "packageInit", "Patch"}
Class == {<<>>, << <<"C">> >>, << <<"Patch">> >>}

I   == Ty("primitive", "Int64", <<>>)
T   == Ty("generic", "T", <<>>)
C   == Ty("custom", "C", <<>>)
CofInt == Ty("custom", "C", <<I>>)

Simple == {I, T, C, CofInt}
Wrapped(t) ==
  { Ty("ref", "", <<t>>), Ty("raw", "", <<t>>), Ty("varray", "3", <<t>>), Ty("cpointer", "", <<t>>),
    Ty("box", "", <<t>>) }
Pairs(S) == { Ty(k, "", <<t, u>>) : k \in {"tuple", "func"}, t \in S, u \in S }

Level1 == Simple \cup { Ty("varray", "4", <<I>>), Ty("custom", "C", <<Ty("varray", "4", <<I>>)>>),
                        Ty("custom", "C", <<Ty("varray", "3", <<I>>)>>) } \cup UNION {Wrapped(t) : t \in Simple} \cup Pairs({I, C})
Level2 == Level1 \cup {Ty("func", "", <<t, u>>) : t \in Pairs({I, C}), u \in {I, C}}
                 \cup {Ty("func", "", <<u, t>>) : t \in Pairs({I, C}), u \in {I, C}}
                 \cup {Ty("tuple", "", <<t, u>>) : t \in Pairs({I}), u \in {I}}
                 \cup {Ty("tuple", "", <<u, t>>) : t \in Pairs({I}), u \in {I}}

Fn(c, f, p) == [package |-> <<"pkg">>, class |-> c, func |-> << <<f>> >>, params |-> p]

MCFunction ==
  {Fn(c, f, <<>>) : c \in Class, f \in Ident}
    \cup {Fn(c, "f", <<t>>) : c \in {<<>>, << <<"C">> >>}, t \in Level2}
    \cup {Fn(<<>>, "f", <<t, u>>) : t \in Pairs({I, C}) \cup {I, C}, u \in Pairs({I, C}) \cup {I, C}}
=============================================================================
