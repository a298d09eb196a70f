---------------------------- MODULE MCTypeFilter ----------------------------
(***************************************************************************)
(* Every glob of up to Long symbols alone, every pair of globs of up to    *)
(* Short symbols, and every name of up to Long symbols, well-formed or     *)
(* not.                                                                    *)
(***************************************************************************)
EXTENDS TypeFilter

CONSTANTS A, B, Long, Short

MCName == BoundedSeq({A, B, Dot}, Long)
MCFilter ==
  LET globs(n) == BoundedSeq({A, Dot, Star}, n)
  IN  {<<>>} \cup {<<g>> : g \in globs(Long)}
        \cup {<<g, h>> : g \in globs(Short), h \in globs(Short)}
=============================================================================
