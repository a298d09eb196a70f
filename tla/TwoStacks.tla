----------------------------- MODULE TwoStacks ------------------------------
(***************************************************************************)
(* What vector_downward and its owners promise: every builder has two      *)
(* stacks of its own, the data and the scratch pad, whose storage may grow,*)
(* move and change hands without a trace; finished data that has been      *)
(* handed to a holder stays as it was.                                     *)
(***************************************************************************)
EXTENDS Integers, Sequences

CONSTANTS Object, Holder, Byte

VARIABLES data, scratch, kept

svars == <<data, scratch, kept>>

Init ==
  /\ data = [o \in Object |-> <<>>] /\ scratch = [o \in Object |-> <<>>]
  /\ kept = [h \in Holder |-> <<>>]

Write(o) ==
  /\ \E b \in Byte : data' = [data EXCEPT ![o] = <<b>> \o @]
  /\ UNCHANGED <<scratch, kept>>

Remove(o) ==
  /\ data[o] # <<>> /\ data' = [data EXCEPT ![o] = Tail(@)]
  /\ UNCHANGED <<scratch, kept>>

Note(o) ==
  /\ \E b \in Byte : scratch' = [scratch EXCEPT ![o] = Append(@, b)]
  /\ UNCHANGED <<data, kept>>

\* The last write of a buffer; the scratch pad is given up with it.
Complete(o) ==
  /\ \E b \in Byte : data' = [data EXCEPT ![o] = <<b>> \o @]
  /\ scratch' = [scratch EXCEPT ![o] = <<>>]
  /\ UNCHANGED kept

Empty(o) ==
  /\ data' = [data EXCEPT ![o] = <<>>] /\ scratch' = [scratch EXCEPT ![o] = <<>>]
  /\ UNCHANGED kept

Exchange(o, p) ==
  /\ data' = [data EXCEPT ![o] = data[p], ![p] = data[o]]
  /\ scratch' = [scratch EXCEPT ![o] = scratch[p], ![p] = scratch[o]]
  /\ UNCHANGED kept

\* Everything of p is now o's, and what o had is gone.
Become(o, p) ==
  /\ data' = [data EXCEPT ![p] = <<>>, ![o] = data[p]]
  /\ scratch' = [scratch EXCEPT ![p] = <<>>, ![o] = scratch[p]]
  /\ UNCHANGED kept

HandOver(o, h) ==
  /\ kept' = [kept EXCEPT ![h] = data[o]]
  /\ \/ UNCHANGED <<data, scratch>>
     \/ data' = [data EXCEPT ![o] = <<>>] /\ scratch' = [scratch EXCEPT ![o] = <<>>]

Pass(h, g) == kept' = [kept EXCEPT ![g] = <<>>, ![h] = kept[g]] /\ UNCHANGED <<data, scratch>>
Drop(h) == kept' = [kept EXCEPT ![h] = <<>>] /\ UNCHANGED <<data, scratch>>

Next ==
  \/ \E o \in Object : Write(o) \/ Remove(o) \/ Note(o) \/ Complete(o) \/ Empty(o)
  \/ \E o, p \in Object : Exchange(o, p) \/ Become(o, p)
  \/ \E o \in Object, h \in Holder : HandOver(o, h)
  \/ \E h, g \in Holder : Pass(h, g)
  \/ \E h \in Holder : Drop(h)

Spec == Init /\ [][Next]_svars
=============================================================================
