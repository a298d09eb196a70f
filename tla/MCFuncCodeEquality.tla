----------------------- MODULE MCFuncCodeEquality -----------------------
(***************************************************************************)
(* Bodies of a block r and two values a, b, for TLC.                       *)
(***************************************************************************)
EXTENDS FuncCodeEquality, TLC

CONSTANTS r, a, b, w1, w2, t1, t2,
          Family        \* which pairs of bodies

\* A block uses one or two values, and may jump to itself.
BlockKids == {<<a>>, <<a, b>>, <<a, a>>, <<b, a>>, <<a, r>>}
\* A local's operand, a parameter's null owner, a jump back.
ValueKids == {<<>>, <<b>>, <<r>>, <<Null>>}

Body(k, ka, kb, wa, wb, ta) ==
  [root |-> r,
   what |-> (r :> w1 @@ a :> wa @@ b :> wb),
   call |-> (r :> t1 @@ a :> ta @@ b :> t1),
   kids |-> (r :> k @@ a :> ka @@ b :> kb)]

\* Sharing and loops: any values, met any number of times; no calls.
Graphs ==
  {[source  |-> Body(k, ka, kb, w1, wb, t1), patched |-> Body(l, la, lb, xa, xb, t1)] :
     k \in BlockKids, ka \in ValueKids, kb \in {<<>>, <<a>>, <<r>>}, wb \in {w1, w2},
     l \in BlockKids, la \in ValueKids, lb \in {<<>>, <<a>>}, xa \in {w1, w2},
     xb \in {w1, w2}}

\* No value is met twice: straight-line code over fresh values, with a call.
Trees ==
  {[source  |-> Body(<<a, b>>, <<>>, ka, w1, w2, ta),
    patched |-> Body(l, <<>>, <<>>, xa, xb, xt)] :
     ka \in {<<>>, <<Null>>}, ta \in {t1, t2}, l \in {<<a>>, <<a, b>>},
     xa \in {w1, w2}, xb \in {w1, w2}, xt \in {t1, t2}}

\* A callee a called twice; in the patched version the second call is of b.
Repeated ==
  {[source  |-> Body(<<a, a>>, <<>>, <<>>, w1, w2, t1),
    patched |-> Body(l, <<>>, <<>>, w1, w2, t1)] : l \in {<<a, a>>, <<a, b>>, <<b, a>>}}

MCCodePair ==
  CASE Family = "graphs"   -> Graphs
    [] Family = "trees"    -> Trees
    [] Family = "repeated" -> Repeated

=============================================================================
