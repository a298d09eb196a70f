----------------------------- MODULE PatchBody ------------------------------
(***************************************************************************)
(* How patch-gen moves a changed body to its method of PatchImpl           *)
(* (genPatches): every expression is cloned where it stands, parameters    *)
(* are shifted past the receiver, a struct constructor gets a struct to    *)
(* initialise, a class constructor a unit to return, and calls on "This"   *)
(* are bound to the type they were written in.                             *)
(* The results of clones and the parameters of the patch method are values *)
(* beside those of the body (MovedBodies).                                 *)
(***************************************************************************)
EXTENDS MovedBodies

VARIABLES patchable, step, retValIdx, operands, thisType, returnValue, clonedTerminators

mvars == <<patchable, step, retValIdx, operands, thisType, returnValue, clonedTerminators>>

Clone(k)    == [is |-> "clone", of |-> k]
Patched(i)  == [is |-> "patched parameter", of |-> i]
Alloc(type) == [is |-> type, of |-> 0]
Nothing     == [is |-> "nothing", of |-> 0]

Code == patchable.code
Terminator(k) == Code[k].terminator
IsStructCtor == patchable.kind \in StructConstructor

Init ==
  /\ patchable \in Patchable
  /\ step = 0 /\ retValIdx = 0
  /\ operands = [k \in DOMAIN Code |-> Code[k].operands]
  /\ thisType = [k \in DOMAIN Code |-> Code[k].thisType]
  /\ returnValue = Nothing /\ clonedTerminators = {}

\* The place of the return value in the entry block is remembered while the body
\* is still the patchable's; then the body is moved.
ReplaceBody ==
  /\ step = 0 /\ step' = 1
  /\ retValIdx' = IF patchable.returns \in NonTerminators(patchable) THEN patchable.returns ELSE 0
  /\ UNCHANGED <<patchable, operands, thisType, returnValue, clonedTerminators>>

\* ReplaceWith gives all users of an expression the clone; a terminator is removed
\* and its users keep the old result until they are visited.
Replaced(v) == IF v.is = "result" /\ v.of = step /\ ~Terminator(step) THEN Clone(step) ELSE v

\* Mutant: the receiver of PatchImpl is not counted.
Unshifted(i) == Patched(i)

Shifted(i) == Patched(IF IsStructCtor THEN i ELSE i + 1)

\* An operand of a clone: a parameter is looked up by its identifier, the result of
\* a terminator among those that were cloned so far.
NewOperand(v) ==
  IF v.is = "parameter" /\ v.of \in Identifiers(patchable) THEN Shifted(v.of)
  ELSE IF v.is = "result" /\ v.of \in clonedTerminators THEN Clone(v.of) ELSE v

VisitExpression ==
  /\ step \in DOMAIN Code /\ step' = step + 1
  /\ operands' = [k \in DOMAIN operands |-> [i \in DOMAIN operands[k] |->
                    IF k = step THEN NewOperand(Replaced(operands[k][i])) ELSE Replaced(operands[k][i])]]
  /\ clonedTerminators' = IF Terminator(step) /\ Code[step].result
                          THEN clonedTerminators \cup {step} ELSE clonedTerminators
  /\ UNCHANGED <<patchable, retValIdx, thisType, returnValue>>

Visited == step = Len(Code) + 1

\* A struct is allocated, initialised in place of the receiver, and returned; only
\* what the debugger shows keeps the receiver.
AllocateStruct ==
  /\ Visited /\ IsStructCtor /\ step' = step + 1
  /\ returnValue' = Alloc("struct")
  /\ operands' = [k \in DOMAIN operands |-> [i \in DOMAIN operands[k] |->
                    IF operands[k][i] = Patched(0) /\ ~Code[k].debug THEN Alloc("struct") ELSE operands[k][i]]]
  /\ UNCHANGED <<patchable, retValIdx, thisType, clonedTerminators>>

\* Primary class constructors are not asked for: primary struct constructors, which
\* do not come here, are.
AllocateUnit == patchable.kind \in {"class constructor", "primary struct constructor"}

SetReturnValue ==
  /\ Visited /\ ~IsStructCtor /\ step' = step + 1
  /\ returnValue' = IF retValIdx > 0 THEN Clone(retValIdx)
                    ELSE IF AllocateUnit THEN Alloc("unit") ELSE returnValue
  /\ UNCHANGED <<patchable, retValIdx, operands, thisType, clonedTerminators>>

BindThisType(t) == [i \in DOMAIN t |-> IF t[i] = "This" THEN patchable.parent ELSE t[i]]

BindThisTypes ==
  /\ step = Len(Code) + 2 /\ step' = step + 1
  /\ thisType' = IF patchable.parent = "none" THEN thisType
                 ELSE [k \in DOMAIN thisType |-> BindThisType(thisType[k])]
  /\ UNCHANGED <<patchable, retValIdx, operands, returnValue, clonedTerminators>>

Next == ReplaceBody \/ VisitExpression \/ AllocateStruct \/ SetReturnValue \/ BindThisTypes

Spec == Init /\ [][Next]_mvars

(***************************************************************************)
(* Properties.                                                             *)
(***************************************************************************)
\* The parameters of the patch method that stand for the patchable's: its own
\* receiver comes first, in a struct constructor the new struct in its place.
Receiver(v) == IsStructCtor /\ v.of = 0
Own(v) == IF IsStructCtor THEN Patched(v.of) ELSE Patched(v.of + 1)

Meant(v, debug) ==
  IF v.is = "result" THEN Clone(v.of)
  ELSE IF v.of \notin Identifiers(patchable) THEN v
  ELSE IF Receiver(v) /\ ~debug THEN Alloc("struct") ELSE Own(v)

OperandsMeant ==
  \A k \in DOMAIN Code : \A i \in DOMAIN Code[k].operands :
    LET v == Code[k].operands[i]
    IN  (v.is = "result" /\ Terminator(v.of) => v.of < k) => operands[k][i] = Meant(v, Code[k].debug)

ValueReturned ==
  returnValue = IF IsStructCtor THEN Alloc("struct")
                ELSE IF patchable.returns # 0 THEN Clone(patchable.returns)
                ELSE IF patchable.kind = "class constructor" THEN Alloc("unit") ELSE Nothing

ThisBound ==
  \A k \in DOMAIN Code : \A i \in DOMAIN Code[k].thisType :
    thisType[k][i] = IF Code[k].thisType[i] = "This" /\ patchable.parent # "none"
                     THEN patchable.parent ELSE Code[k].thisType[i]

\* The moved body computes what the patchable's did: every operand, in whatever
\* order the blocks are visited, is the clone of what it was, or the parameter
\* that stands for it; nothing refers to the body that is gone.  The method returns
\* the clone of the return value, the struct it made, or unit, and calls on "This"
\* go where they went.  Left out: primary class constructors (AllocateUnit), and
\* results of terminators that are used by expressions visited earlier.
MovedFaithfully ==
  step = Len(Code) + 3 => OperandsMeant /\ ValueReturned /\ ThisBound
=============================================================================
