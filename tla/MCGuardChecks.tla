--------------------------- MODULE MCGuardChecks ---------------------------
(***************************************************************************)
(* All bodies of the blocks Entry, First and Second whose terminators have *)
(* at most two successors, entries with predecessors and loops included;   *)
(* of two entries that differ in the names of the other blocks one is      *)
(* kept.  Every block has an expression of its own.                        *)
(*                                                                         *)
(* Beside it, bodies that are moved to PatchImpl: three expressions of all *)
(* roles, whose operands are parameters, of the function or of a lambda,   *)
(* and results of the others, earlier and later.                           *)
(***************************************************************************)
EXTENDS GuardChecks, MovedBodies

CONSTANTS Entry, First, Second

Terminator == UNION {[1 .. n -> Block] : n \in 0 .. 2}
EntryTerminator ==
  { <<>>, <<First>>, <<First, Second>>, <<First, First>>, <<First, Entry>>, <<Entry, First>> }

MCSource ==
  { [ entry |-> Entry,
      block |-> [l \in Block |-> Seg(<< <<"op", l>> >>, t[l])] ] :
    t \in {u \in [Block -> Terminator] : u[Entry] \in EntryTerminator} }

MCOp == {<<"op", l>> : l \in Block}

VARIABLES patchable, step, retValIdx, operands, thisType, returnValue, clonedTerminators

moveVars == <<patchable, step, retValIdx, operands, thisType, returnValue, clonedTerminators>>

Res(k) == [is |-> "result", of |-> k]
Par(i) == [is |-> "parameter", of |-> i]

\* A terminator, the last of its block, may have a result: that of a call that throws.
Expr(role, entry, args, type) ==
  [ terminator |-> role \in {"branch", "throwing call"}, result |-> role # "branch",
    debug |-> role = "debug", entry |-> entry, operands |-> args, thisType |-> type ]

Kinds == {"function", "class constructor", "struct constructor", "primary struct constructor"}

\* With two parameters; the identifier 3 is a lambda's.
MCPatchable ==
  { [ kind |-> k, params |-> 2, parent |-> parent,
      returns |-> IF k = "function" /\ r[1] = "op" THEN 1 ELSE 0,
      code |-> << Expr(r[1], TRUE, a, <<>>), Expr(r[2], r[1] = "op", b, type), Expr(r[3], FALSE, c, <<>>) >> ] :
    k \in Kinds, parent \in {"none", "Owner"},
    r \in {"op", "throwing call"} \X {"op", "debug", "throwing call"} \X {"op", "branch"},
    a \in {<<>>, <<Par(0)>>, <<Res(2)>>}, b \in {<<Par(0)>>, <<Res(1), Par(1)>>, <<Res(3)>>},
    c \in {<<Res(1)>>, <<Par(0), Res(2)>>, <<Par(1), Par(3)>>}, type \in {<<>>, <<"This">>, <<"Map", "This", "Owner">>} }

MCMoved ==
  { p \in MCPatchable :
      /\ p.parent = "none" => p.kind = "function" /\ p.code[2].thisType = <<>>
      /\ p.code[2].debug => p.code[2].thisType = <<>>
      /\ Res(3) \in {p.code[2].operands[i] : i \in DOMAIN p.code[2].operands} => p.code[3].result }

Move == INSTANCE PatchBody

CONSTANT NotMoving

Idle == CHOOSE b \in MCSource : TRUE

MCInit ==
  \/ /\ Init
     /\ patchable = NotMoving /\ step = 0 /\ retValIdx = 0 /\ operands = <<>> /\ thisType = <<>>
     /\ returnValue = Move!Nothing /\ clonedTerminators = {}
  \/ /\ Move!Init
     /\ kind = "function" /\ plain = Idle
     /\ body = plain /\ stage = "source" /\ flag = FALSE /\ guardVar = None
     /\ at = "idle" /\ loaded = None /\ receiver = None

GuardNext == patchable = NotMoving /\ Next /\ UNCHANGED moveVars
MoveNext  == patchable # NotMoving /\ Move!Next /\ UNCHANGED vars

\* The fairness is that of GuardChecks.
MCSpec ==
  /\ MCInit /\ [][GuardNext \/ MoveNext]_<<vars, moveVars>>
  /\ WF_<<vars, moveVars>>(patchable = NotMoving /\ Continue /\ UNCHANGED moveVars)

MovedFaithfully == patchable # NotMoving => Move!MovedFaithfully
=============================================================================
