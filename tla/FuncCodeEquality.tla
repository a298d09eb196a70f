------------------------ MODULE FuncCodeEquality ------------------------
(***************************************************************************)
(* FuncCodeEquality (patch-gen/src/Equality.cpp): does a function that may *)
(* not be patched have the same code in the base and in the fixed version? *)
(*                                                                         *)
(* Code is the graph of CHIR values hanging from a body.  The comparison   *)
(* is recursive C++; all its conjunctions are cut short by the first       *)
(* difference, so its recursion is the stack "todo" of the pairs of values *)
(* still to be compared, and one step compares or drops the top pair.      *)
(* An expression is compared wherever it is met, so it belongs to the      *)
(* value it is met in: "what" stands for everything compared in place      *)
(* (kinds, attributes, identifiers, literals, types, the number of         *)
(* operands of every expression), "call" for the receiver type and the     *)
(* type arguments of a direct call, and "kids" for the values it leads to: *)
(* a block's and a local's operands, a group's blocks, a parameter's       *)
(* owners (one of them Null).                                              *)
(***************************************************************************)
EXTENDS Naturals, Sequences

CONSTANTS Value, Null,
          What,        \* what is compared of a value in place
          CallType,    \* what a direct call is instantiated with
          CodePair     \* the pairs of bodies considered

Code == [ root : Value,
          what : [Value -> What],
          call : [Value -> CallType],
          kids : [Value -> Seq(Value \cup {Null})] ]

ASSUME NullAssumption == Null \notin Value
ASSUME CodeAssumption ==
  \A p \in CodePair : p \in [source : Code, patched : Code]

VARIABLES pair,     \* the two bodies, fixed by Init
          todo,     \* pairs to compare, the next one first
          matched,  \* pairs compared: their first components are visitedValues
          skipped,  \* history: pairs dropped since the first value was visited
          answer

vars == <<pair, todo, matched, skipped, answer>>

-----------------------------------------------------------------------------
Init ==
  /\ pair \in CodePair
  /\ todo = << <<pair.source.root, pair.patched.root>> >>
  /\ matched = {} /\ skipped = {}
  /\ answer = "running"

AlikeIfSameObject(p) ==
  /\ p[1] # Null /\ p[1] = p[2]
  /\ Len(pair.source.kids[p[1]]) = Len(pair.patched.kids[p[2]])

\* The values look alike: whatever is compared without following a value.
\* The visitor of Apply compares l with l, so "call" does not take part.
Alike(p) ==
  /\ p[1] # Null /\ p[2] # Null
  /\ pair.source.what[p[1]] = pair.patched.what[p[2]]
  /\ Len(pair.source.kids[p[1]]) = Len(pair.patched.kids[p[2]])

KidPairsButLast(p) ==
  [i \in 1 .. Len(pair.source.kids[p[1]]) - 1 |->
     <<pair.source.kids[p[1]][i], pair.patched.kids[p[2]][i]>>]

KidPairs(p) ==
  [i \in 1 .. Len(pair.source.kids[p[1]]) |->
     <<pair.source.kids[p[1]][i], pair.patched.kids[p[2]][i]>>]

NeverVisited(v) == FALSE

Visited(v) == \E p \in matched : p[1] = v

\* Two values are the same object in the two versions only if both are null.
SameObject(p) == p = <<Null, Null>>

Running == answer = "running" /\ todo # <<>>

DropSameObject ==
  /\ Running /\ SameObject(Head(todo))
  /\ todo' = Tail(todo)
  /\ UNCHANGED <<pair, matched, skipped, answer>>

\* visitedValues holds values of the first version only: a value met again is
\* taken to be equal to whatever it is paired with.
DropVisited ==
  /\ Running /\ ~SameObject(Head(todo)) /\ Visited(Head(todo)[1])
  /\ todo' = Tail(todo)
  /\ skipped' = skipped \cup {Head(todo)}
  /\ UNCHANGED <<pair, matched, answer>>

Compare ==
  /\ Running /\ ~SameObject(Head(todo)) /\ ~Visited(Head(todo)[1])
  /\ Alike(Head(todo))
  /\ matched' = matched \cup {Head(todo)}
  /\ todo' = KidPairs(Head(todo)) \o Tail(todo)
  /\ UNCHANGED <<pair, skipped, answer>>

Differ ==
  /\ Running /\ ~SameObject(Head(todo)) /\ ~Visited(Head(todo)[1])
  /\ ~Alike(Head(todo))
  /\ answer' = "different"
  /\ UNCHANGED <<pair, todo, matched, skipped>>

Finish ==
  /\ answer = "running" /\ todo = <<>>
  /\ answer' = "equal"
  /\ UNCHANGED <<pair, todo, matched, skipped>>

Next == DropSameObject \/ DropVisited \/ Compare \/ Differ \/ Finish

Spec == Init /\ [][Next]_vars
FairSpec == Spec /\ WF_vars(Next)

-----------------------------------------------------------------------------
MaybeNull == Value \cup {Null}

\* Types; visitedValues only ever holds values that were compared, each of them
\* with one value only.
TypeOK ==
  /\ pair \in CodePair
  /\ todo \in Seq(MaybeNull \X MaybeNull)
  /\ matched \subseteq Value \X Value
  /\ \A p, q \in matched : p[1] = q[1] => p = q
  /\ skipped \subseteq Value \X MaybeNull
  /\ answer \in {"running", "equal", "different"}

\* The reference: two bodies are the same code iff some relation between their
\* values holds of the roots, relates only values that look alike, and leads
\* from related values to related values.
LooksSame(p) ==
  /\ pair.source.what[p[1]] = pair.patched.what[p[2]]
  /\ Len(pair.source.kids[p[1]]) = Len(pair.patched.kids[p[2]])

Bisimulation(R) ==
  \A p \in R :
    /\ LooksSame(p)
    /\ \A i \in 1 .. Len(pair.source.kids[p[1]]) :
         <<pair.source.kids[p[1]][i], pair.patched.kids[p[2]][i]>>
           \in R \cup {<<Null, Null>>}

Roots == <<pair.source.root, pair.patched.root>>

SameShape ==
  \E R \in SUBSET {p \in Value \X Value : LooksSame(p)} :
    Roots \in R /\ Bisimulation(R)

\* ... and every direct call in them is instantiated alike.
SameCode ==
  \E R \in SUBSET {p \in Value \X Value : LooksSame(p)} :
    /\ Roots \in R /\ Bisimulation(R)
    /\ \A p \in R : pair.source.call[p[1]] = pair.patched.call[p[2]]

\* Unchanged code is never reported as changed, however it shares values or
\* loops: patch-gen does not refuse a package for a function nobody touched
\* (PatchGen.cpp:237-241).
NeverRejectsSame == answer = "different" => ~SameShape

\* The answer "equal" is right, up to the instantiation of calls, unless a
\* value met again was paired with another value than the first time: the memo
\* of visited values is an optimisation only of such code.
EqualUnlessRepaired ==
  answer = "equal" /\ skipped \subseteq matched => SameShape

\* Code may loop through its blocks; the comparison ends nevertheless.
Termination == <>(answer # "running")

\* What the check in PatchGen.cpp:206-242 relies on: "Implementation of
\* non-patchable function ... must stay unchanged in patched version".
EqualOnlyIfSame == answer = "equal" => SameCode

=============================================================================
