---------------------------- MODULE MovedBodies ----------------------------
(***************************************************************************)
(* The bodies that PatchBody moves, as the compiler makes them.            *)
(*                                                                         *)
(* A body is the sequence of its expressions in the order in which the     *)
(* compiler's visitor comes to them; the entry block's are the first.  A   *)
(* value is the result of an expression or a parameter, by its identifier. *)
(* A type is the sequence of the names in it, outermost first; the type    *)
(* that a body was written in counts as one name.                          *)
(***************************************************************************)
EXTENDS Integers, Sequences

CONSTANT Patchable   \* records [kind, params, parent, returns, code]

Value == [is : {"result", "parameter"}, of : Nat]

Expression ==
  [ terminator : BOOLEAN, result : BOOLEAN, debug : BOOLEAN, entry : BOOLEAN,
    operands : Seq(Value), thisType : Seq(STRING) ]

StructConstructor == {"struct constructor", "primary struct constructor"}

NonTerminators(p) == {k \in DOMAIN p.code : p.code[k].entry /\ ~p.code[k].terminator}

\* A parameter of a lambda is a parameter too: its identifier is past the
\* function's and, a guess about the compiler, not that of the patch method's last.
Identifiers(p) == 0 .. p.params - 1

\* Operands are results of expressions that have one; a return value is allocated
\* in the entry; a class constructor has none.
ASSUME PatchableAssumption ==
  \A p \in Patchable :
    /\ p.code \in Seq(Expression) /\ p.params \in Nat /\ p.parent \in STRING \ {"This"}
    /\ p.returns = 0 \/ p.returns \in NonTerminators(p)
    /\ p.kind = "class constructor" => p.returns = 0
    /\ \A k \in DOMAIN p.code : \A i \in DOMAIN p.code[k].operands :
         LET v == p.code[k].operands[i]
         IN  IF v.is = "result" THEN v.of \in DOMAIN p.code /\ p.code[v.of].result
             ELSE v.of # p.params
=============================================================================
