------------------------------- MODULE Tokens -------------------------------
(***************************************************************************)
(* Names are sequences of tokens, of which "$" is the one that no          *)
(* identifier contains.  Both programs join the names of types.            *)
(***************************************************************************)
EXTENDS Naturals, Sequences, SequencesExt

\* The names, with a delimiter between each two.
Joined(names, delimiter) ==
  FlattenSeq([i \in DOMAIN names |-> names[i] \o (IF i < Len(names) THEN delimiter ELSE <<>>)])
=============================================================================
