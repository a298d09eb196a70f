--------------------------- MODULE SelectionProofs --------------------------
(***************************************************************************)
(* What selects the functions to guard, for every document and every name. *)
(*                                                                         *)
(* First the directive: what the reader has come to before each line of a  *)
(* document of any length.                                                 *)
(*                                                                         *)
(* Then the type filter.  The text of the expression is a translation of   *)
(* the globs, symbol by symbol; an expression reads its own text back into *)
(* alternatives and tokens.  The invariant says at which places of the     *)
(* text the tokens of each glob lie, and where they lie so, the            *)
(* alternatives accept what the globs mean.                                *)
(*                                                                         *)
(* Last the guards: the finder takes the first candidate of each sort key, *)
(* and the filter it asks tells what the globs of the directive mean.      *)
(***************************************************************************)
EXTENDS PluginProofs

-----------------------------------------------------------------------------
(***************************************************************************)
(* Concatenations of many sequences, by induction on their number.         *)
(***************************************************************************)

\* What holds of zero and of the successor of a number it holds of, holds of all.
LEMMA ByInduction ==
  ASSUME NEW S, 0 \in S, \A n \in Nat : n \in S => n + 1 \in S
  PROVE  \A n \in Nat : n \in S
<1> SUFFICES ASSUME NEW m \in Nat, m \notin S PROVE FALSE
  OBVIOUS
<1> DEFINE T == {x \in 1 .. m : x \notin S}
<1>1. m \in T
  OBVIOUS
<1>2. Min(T) \in T /\ \A y \in T : Min(T) <= y
  <2>1. T \in SUBSET (1 .. m) /\ T # {}
    BY <1>1
  <2> HIDE DEF T
  <2> QED BY <2>1, SmallestIsThere
<1> DEFINE x == Min(T)
<1>4. x \in 1 .. m /\ x \notin S
  BY <1>2
<1>5. x - 1 \in Nat /\ x - 1 \notin T
  BY <1>2, <1>4
<1>6. x - 1 \in S
  <2>1. x - 1 = 0 \/ x - 1 \in 1 .. m
    BY <1>4
  <2> QED BY <2>1, <1>5
<1>7. (x - 1) + 1 \in S
  BY <1>5, <1>6
<1> QED BY <1>4, <1>7

IsFlatten(f, s) == f = [i \in 1 .. Len(s) |-> IF i = 1 THEN s[i] ELSE f[i - 1] \o s[i]]

LEMMA FlattenExists ==
  ASSUME NEW X, NEW s \in Seq(Seq(X)), NEW n \in 1 .. Len(s)
  PROVE  \E f : IsFlatten(f, SubSeq(s, 1, n))
<1> DEFINE P(m) == \E f : f = [i \in 1 .. m |-> IF i = 1 THEN s[i] ELSE f[i - 1] \o s[i]]
           S == {m \in Nat : P(m)}
<1>1. 0 \in S
  <2> DEFINE f == [i \in 1 .. 0 |-> <<>>]
  <2>1. f = [i \in 1 .. 0 |-> IF i = 1 THEN s[i] ELSE f[i - 1] \o s[i]]
    OBVIOUS
  <2> QED BY <2>1
<1>2. ASSUME NEW m \in Nat, m \in S PROVE m + 1 \in S
  <2>1. PICK f : f = [i \in 1 .. m |-> IF i = 1 THEN s[i] ELSE f[i - 1] \o s[i]]
    BY <1>2
  <2> DEFINE g == [i \in 1 .. m + 1 |-> IF i = m + 1 THEN (IF i = 1 THEN s[i] ELSE f[i - 1] \o s[i]) ELSE f[i]]
  <2>2. \A i \in 1 .. m : f[i] = IF i = 1 THEN s[i] ELSE f[i - 1] \o s[i]
    BY <2>1
  <2>3. \A i \in 1 .. m + 1 : g[i] = IF i = 1 THEN s[i] ELSE g[i - 1] \o s[i]
    <3>1. \A i \in 1 .. m : g[i] = f[i]
      OBVIOUS
    <3>2. g[m + 1] = IF m + 1 = 1 THEN s[m + 1] ELSE f[m] \o s[m + 1]
      OBVIOUS
    <3>3. \A i \in 1 .. m + 1 : i = m + 1 \/ i \in 1 .. m
      OBVIOUS
    <3>4. \A i \in 1 .. m : i = 1 \/ i - 1 \in 1 .. m
      OBVIOUS
    <3> HIDE DEF g
    <3> QED BY <2>2, <3>1, <3>2, <3>3, <3>4
  <2>4. g = [i \in 1 .. m + 1 |-> IF i = 1 THEN s[i] ELSE g[i - 1] \o s[i]]
    <3>1. g = [i \in 1 .. m + 1 |-> g[i]]
      OBVIOUS
    <3> HIDE DEF g
    <3> QED BY <2>3, <3>1
  <2>5. P(m + 1)
    <3> HIDE DEF g
    <3> QED BY <2>4
  <2>6. m + 1 \in Nat
    OBVIOUS
  <2> HIDE DEF P
  <2> QED BY <2>5, <2>6
<1>3. P(n)
  <2>1. \A k \in Nat : k \in S
    <3> HIDE DEF S
    <3> QED BY <1>1, <1>2, ByInduction
  <2>2. n \in Nat
    OBVIOUS
  <2>3. n \in S
    <3> HIDE DEF S
    <3> QED BY <2>1, <2>2
  <2> HIDE DEF P
  <2> QED BY <2>3
<1>4. PICK f : f = [i \in 1 .. n |-> IF i = 1 THEN s[i] ELSE f[i - 1] \o s[i]]
  BY <1>3
<1>5. Len(SubSeq(s, 1, n)) = n /\ \A i \in 1 .. n : SubSeq(s, 1, n)[i] = s[i]
  OBVIOUS
<1>6. f = [i \in 1 .. n |-> IF i = 1 THEN SubSeq(s, 1, n)[i] ELSE f[i - 1] \o SubSeq(s, 1, n)[i]]
  <2>1. [i \in 1 .. n |-> IF i = 1 THEN SubSeq(s, 1, n)[i] ELSE f[i - 1] \o SubSeq(s, 1, n)[i]]
        = [i \in 1 .. n |-> IF i = 1 THEN s[i] ELSE f[i - 1] \o s[i]]
    BY <1>5, Zenon
  <2> QED BY <1>4, <2>1, Zenon
<1> QED BY <1>5, <1>6 DEF IsFlatten

LEMMA FlattenIs ==
  ASSUME NEW X, NEW s \in Seq(Seq(X)), s # <<>>
  PROVE  \E f : IsFlatten(f, s) /\ FlattenSeq(s) = f[Len(s)]
<1> DEFINE g == CHOOSE f : IsFlatten(f, s)
<1>1. Len(s) # 0 /\ Len(s) \in 1 .. Len(s) /\ SubSeq(s, 1, Len(s)) = s
  OBVIOUS
<1>2. IsFlatten(g, s)
  BY <1>1, FlattenExists
<1>3. FlattenSeq(s) = g[Len(s)]
  BY <1>1 DEF FlattenSeq, IsFlatten
<1> QED BY <1>2, <1>3

\* FlattenSeq, one sequence after the other.
LEMMA FlattenMore ==
  ASSUME NEW X, NEW s \in Seq(Seq(X)), NEW n \in 0 .. Len(s) - 1
  PROVE  FlattenSeq(SubSeq(s, 1, n + 1)) = FlattenSeq(SubSeq(s, 1, n)) \o s[n + 1]
<1> DEFINE a == SubSeq(s, 1, n)
           b == SubSeq(s, 1, n + 1)
           Y == Seq(X)
<1>1. /\ a \in Seq(Y) /\ b \in Seq(Y) /\ Len(a) = n /\ Len(b) = n + 1 /\ b # <<>>
      /\ (\A i \in 1 .. n : a[i] = b[i]) /\ b[n + 1] = s[n + 1] /\ s[n + 1] \in Y /\ n \in Nat
  <2>1. s \in Seq(Y) /\ n \in Nat /\ n + 1 <= Len(s)
    OBVIOUS
  <2> HIDE DEF Y
  <2>2. a \in Seq(Y) /\ Len(a) = n /\ \A i \in 1 .. n : a[i] = s[i]
    <3>1. \A i \in 1 .. n : s[i] \in Y
      BY <2>1
    <3> QED BY <2>1, <3>1, SubSeqProperties
  <2>3. b \in Seq(Y) /\ Len(b) = n + 1 /\ \A i \in 1 .. n + 1 : b[i] = s[i]
    <3>1. \A i \in 1 .. n + 1 : s[i] \in Y
      BY <2>1
    <3> QED BY <2>1, <3>1, SubSeqProperties
  <2>4. s[n + 1] \in Y
    BY <2>1
  <2> HIDE DEF a, b
  <2>5. b # <<>>
    BY <2>1, <2>3
  <2>6. (\A i \in 1 .. n : a[i] = b[i]) /\ b[n + 1] = s[n + 1]
    <3>1. n + 1 \in 1 .. n + 1 /\ \A i \in 1 .. n : i \in 1 .. n + 1
      BY <2>1
    <3> QED BY <3>1, <2>2, <2>3, Zenon
  <2> QED BY <2>1, <2>2, <2>3, <2>4, <2>5, <2>6
<1> HIDE DEF a, b
<1>2. PICK g : IsFlatten(g, b) /\ FlattenSeq(b) = g[n + 1]
  BY <1>1, FlattenIs
<1>3. g[n + 1] = IF n + 1 = 1 THEN b[n + 1] ELSE g[n] \o b[n + 1]
  <2>1. \A i \in 1 .. n + 1 : g[i] = IF i = 1 THEN b[i] ELSE g[i - 1] \o b[i]
    BY <1>1, <1>2 DEF IsFlatten
  <2>2. n + 1 \in 1 .. n + 1 /\ (n + 1) - 1 = n
    OBVIOUS
  <2> QED BY <2>1, <2>2
<1>4. CASE n = 0
  <2>1. a = <<>>
    BY <1>1, <1>4
  <2>2. FlattenSeq(a) = <<>>
    BY <2>1 DEF FlattenSeq
  <2>3. <<>> \o s[n + 1] = s[n + 1]
    BY <1>1
  <2>4. FlattenSeq(b) = FlattenSeq(a) \o s[n + 1]
    <3>1. n + 1 = 1
      BY <1>4
    <3> QED BY <1>1, <1>2, <1>3, <3>1, <2>2, <2>3
  <2> QED BY <2>4 DEF a, b
<1>5. CASE n # 0
  <2>1. a # <<>>
    BY <1>1, <1>5
  <2>2. PICK f : IsFlatten(f, a) /\ FlattenSeq(a) = f[n]
    BY <1>1, <2>1, FlattenIs
  <2>3. f[n] = g[n]
    <3> DEFINE S == {m \in Nat : m \in 1 .. n => f[m] = g[m]}
    <3>1. /\ \A i \in 1 .. n : f[i] = IF i = 1 THEN a[i] ELSE f[i - 1] \o a[i]
          /\ \A i \in 1 .. n + 1 : g[i] = IF i = 1 THEN b[i] ELSE g[i - 1] \o b[i]
      BY <1>1, <1>2, <2>2 DEF IsFlatten
    <3>2. ASSUME NEW m \in Nat, m \in S PROVE m + 1 \in S
      <4> SUFFICES ASSUME m + 1 \in 1 .. n PROVE f[m + 1] = g[m + 1]
        OBVIOUS
      <4>1. m + 1 \in 1 .. n + 1 /\ (m + 1) - 1 = m /\ a[m + 1] = b[m + 1]
        BY <1>1
      <4>2. m = 0 \/ f[m] = g[m]
        BY <3>2, <1>1
      <4>3. m = 0 => m + 1 = 1
        OBVIOUS
      <4>4. m # 0 => m + 1 # 1
        OBVIOUS
      <4> QED BY <3>1, <4>1, <4>2, <4>3, <4>4
    <3>3. \A m \in Nat : m \in S
      <4>1. 0 \in S
        OBVIOUS
      <4> HIDE DEF S
      <4> QED BY <3>2, <4>1, ByInduction
    <3>4. n \in 1 .. n
      BY <1>1, <1>5
    <3> QED BY <1>1, <3>3, <3>4
  <2>4. FlattenSeq(b) = FlattenSeq(a) \o s[n + 1]
    <3>1. n + 1 # 1
      BY <1>1, <1>5
    <3> QED BY <1>1, <1>2, <1>3, <3>1, <2>2, <2>3
  <2> QED BY <2>4 DEF a, b
<1> QED BY <1>4, <1>5

LEMMA FlattenAll ==
  ASSUME NEW X, NEW s \in Seq(Seq(X))
  PROVE  /\ FlattenSeq(<<>>) = <<>> /\ FlattenSeq(s) \in Seq(X)
         /\ SubSeq(s, 1, 0) = <<>> /\ SubSeq(s, 1, Len(s)) = s
<1>1. FlattenSeq(<<>>) = <<>> /\ SubSeq(s, 1, 0) = <<>> /\ SubSeq(s, 1, Len(s)) = s
  <2>1. FlattenSeq(<<>>) = <<>>
    BY DEF FlattenSeq
  <2> QED BY <2>1
<1> DEFINE S == {m \in Nat : m <= Len(s) => FlattenSeq(SubSeq(s, 1, m)) \in Seq(X)}
<1>2. 0 \in S
  <2>1. FlattenSeq(SubSeq(s, 1, 0)) \in Seq(X)
    <3>1. <<>> \in Seq(X)
      OBVIOUS
    <3> QED BY <1>1, <3>1, Zenon
  <2> QED BY <2>1
<1>3. ASSUME NEW m \in Nat, m \in S PROVE m + 1 \in S
  <2> SUFFICES ASSUME m + 1 <= Len(s) PROVE FlattenSeq(SubSeq(s, 1, m + 1)) \in Seq(X)
    OBVIOUS
  <2>1. m \in 0 .. Len(s) - 1 /\ s[m + 1] \in Seq(X) /\ FlattenSeq(SubSeq(s, 1, m)) \in Seq(X)
    BY <1>3
  <2>2. FlattenSeq(SubSeq(s, 1, m + 1)) = FlattenSeq(SubSeq(s, 1, m)) \o s[m + 1]
    BY <2>1, FlattenMore
  <2> DEFINE p == FlattenSeq(SubSeq(s, 1, m))
  <2>3. p \o s[m + 1] \in Seq(X)
    <3>1. p \in Seq(X) /\ s[m + 1] \in Seq(X)
      BY <2>1
    <3> HIDE DEF p
    <3> QED BY <3>1, ConcatProperties
  <2> QED BY <2>2, <2>3, Zenon
<1>4. Len(s) \in S
  <2>1. Len(s) \in Nat
    OBVIOUS
  <2> HIDE DEF S
  <2> QED BY <1>2, <1>3, <2>1, ByInduction
<1>5. FlattenSeq(SubSeq(s, 1, Len(s))) \in Seq(X)
  BY <1>4
<1> QED BY <1>1, <1>5

LEMMA SameFlatten == \A s : Toml!FlattenSeq(s) = FlattenSeq(s) /\ Toml!ToSet(s) = ToSet(s)
BY Zenon DEF Toml!FlattenSeq, FlattenSeq, Toml!ToSet, ToSet

-----------------------------------------------------------------------------
(***************************************************************************)
(* Lines, and the strings between their quotes.                            *)
(***************************************************************************)
Lexeme == Symbol \cup Toml!Header \cup Toml!Key \cup Toml!Mark

\* The i-th string of S is between the quotes at o[i] and c[i]; there are no others.
QuotesAt(L, S, o, c) ==
  /\ \A i \in 1 .. Len(S) :
       /\ o[i] \in 1 .. Len(L) /\ c[i] \in 1 .. Len(L) /\ o[i] < c[i]
       /\ L[o[i]] = Toml!Quote /\ L[c[i]] = Toml!Quote
       /\ Len(S[i]) = c[i] - o[i] - 1 /\ \A k \in 1 .. Len(S[i]) : L[o[i] + k] = S[i][k]
  /\ \A i, k \in 1 .. Len(S) : i < k => c[i] < o[k]
  /\ \A p \in 1 .. Len(L) : L[p] = Toml!Quote => \E i \in 1 .. Len(S) : p = o[i] \/ p = c[i]

Holds(L, S) == L \in Seq(Lexeme) /\ S \in Seq(Seq(Symbol)) /\ \E o, c : QuotesAt(L, S, o, c)

LEMMA HoldsNone ==
  ASSUME NEW L \in Seq(Lexeme), \A p \in 1 .. Len(L) : L[p] # Toml!Quote
  PROVE  Holds(L, <<>>)
<1>1. QuotesAt(L, <<>>, <<>>, <<>>)
  BY DEF QuotesAt
<1>2. <<>> \in Seq(Seq(Symbol))
  OBVIOUS
<1> QED BY <1>1, <1>2 DEF Holds

\* Names for the two operations that the provers do not unfold.
Glued(s, t) == s \o t
Extended(s, e) == Append(s, e)

LEMMA GluedTwice ==
  ASSUME NEW Y, NEW s \in Seq(Y), NEW t \in Seq(Y), NEW u \in Seq(Y)
  PROVE  Glued(Glued(s, t), u) = Glued(s, Glued(t, u))
BY DEF Glued

LEMMA NoQuoteInText == Toml!Quote \notin Symbol /\ Toml!Quote \in Lexeme
<1>1. Toml!Quote \in Toml!Mark
  BY DEF Toml!Mark
<1>2. Symbol \cap (Toml!Header \cup Toml!Key \cup Toml!Mark) = {}
  BY EntryPointAssumption DEF Toml!TextAssumption
<1> QED BY <1>1, <1>2 DEF Lexeme

LEMMA HoldsQuoted ==
  ASSUME NEW s \in Seq(Symbol)
  PROVE  Holds(Toml!Quoted(s), <<s>>)
<1> DEFINE q == Toml!Quote
           L == Toml!Quoted(s)
           X == Lexeme
<1>1. q \notin Symbol /\ q \in X /\ Symbol \subseteq X
  BY NoQuoteInText DEF Lexeme
<1>2. s \in Seq(X) /\ <<q>> \in Seq(X) /\ <<q>> \o s \in Seq(X) /\ L = (<<q>> \o s) \o <<q>>
  BY <1>1 DEF Toml!Quoted
<1> HIDE DEF q, X
<1>3. L \in Seq(X)
  BY <1>2
<1>4. Len(L) = Len(s) + 2 /\ L[1] = q /\ L[Len(s) + 2] = q /\ \A k \in 1 .. Len(s) : L[1 + k] = s[k]
  BY <1>2
<1> DEFINE o == <<1>>
           c == <<Len(s) + 2>>
<1>5. \A p \in 1 .. Len(L) : L[p] = q => p = 1 \/ p = Len(s) + 2
  <2>1. \A p \in 1 .. Len(s) + 2 : p = 1 \/ p = Len(s) + 2 \/ \E k \in 1 .. Len(s) : p = 1 + k
    <3>1. \A p \in 1 .. Len(s) + 2 : p = 1 \/ p = Len(s) + 2 \/ (p - 1 \in 1 .. Len(s) /\ p = 1 + (p - 1))
      OBVIOUS
    <3> QED BY <3>1
  <2>2. \A k \in 1 .. Len(s) : s[k] # q
    BY <1>1
  <2> HIDE DEF L
  <2> QED BY <1>4, <2>1, <2>2
<1>6. QuotesAt(L, <<s>>, o, c)
  <2>1. Len(<<s>>) = 1 /\ <<s>>[1] = s /\ o[1] = 1 /\ c[1] = Len(s) + 2 /\ Len(s) \in Nat
    OBVIOUS
  <2>2. \A i \in 1 .. 1 : i = 1
    OBVIOUS
  <2> HIDE DEF L, o, c
  <2>3. /\ 1 \in 1 .. Len(L) /\ Len(s) + 2 \in 1 .. Len(L) /\ 1 < Len(s) + 2
        /\ Len(s) = (Len(s) + 2) - 1 - 1
    BY <1>4, <2>1
  <2> QED BY <1>4, <1>5, <2>1, <2>2, <2>3 DEF QuotesAt, q
<1>7. <<s>> \in Seq(Seq(Symbol))
  OBVIOUS
<1> QED BY <1>3, <1>6, <1>7 DEF Holds, X

LEMMA HoldsConcat ==
  ASSUME NEW A, NEW S, Holds(A, S), NEW B, NEW T, Holds(B, T)
  PROVE  Holds(A \o B, S \o T)
<1> DEFINE X == Lexeme
           Y == Seq(Symbol)
           q == Toml!Quote
           L == A \o B
           U == S \o T
           n == Len(A)
           m == Len(S)
<1>1. A \in Seq(X) /\ B \in Seq(X) /\ S \in Seq(Y) /\ T \in Seq(Y)
  BY DEF Holds
<1> HIDE DEF X, Y, q
<1>2. /\ L \in Seq(X) /\ Len(L) = n + Len(B) /\ n \in Nat /\ Len(B) \in Nat
      /\ (\A p \in 1 .. n : L[p] = A[p]) /\ \A p \in 1 .. Len(B) : L[n + p] = B[p]
  BY <1>1
<1>3. /\ U \in Seq(Y) /\ Len(U) = m + Len(T) /\ m \in Nat /\ Len(T) \in Nat
      /\ (\A p \in 1 .. m : U[p] = S[p]) /\ \A p \in 1 .. Len(T) : U[m + p] = T[p]
  BY <1>1
<1>4. PICK oa, ca : QuotesAt(A, S, oa, ca)
  BY DEF Holds
<1>5. PICK ob, cb : QuotesAt(B, T, ob, cb)
  BY DEF Holds
<1> DEFINE o == [i \in 1 .. m + Len(T) |-> IF i <= m THEN oa[i] ELSE n + ob[i - m]]
           c == [i \in 1 .. m + Len(T) |-> IF i <= m THEN ca[i] ELSE n + cb[i - m]]
<1>6. /\ \A i \in 1 .. m : i \in 1 .. m + Len(T) /\ o[i] = oa[i] /\ c[i] = ca[i]
      /\ \A i \in 1 .. Len(T) : m + i \in 1 .. m + Len(T) /\ o[m + i] = n + ob[i] /\ c[m + i] = n + cb[i]
  <2>1. \A i \in 1 .. m : i \in 1 .. m + Len(T) /\ i <= m
    BY <1>3
  <2>2. \A i \in 1 .. Len(T) : m + i \in 1 .. m + Len(T) /\ ~(m + i <= m) /\ (m + i) - m = i
    BY <1>3
  <2> QED BY <2>1, <2>2
<1> HIDE DEF o, c, L, U, n, m
<1>7. \A i \in 1 .. m + Len(T) : i \in 1 .. m \/ \E k \in 1 .. Len(T) : i = m + k
  <2>1. \A i \in 1 .. m + Len(T) : i \in 1 .. m \/ (i - m \in 1 .. Len(T) /\ i = m + (i - m))
    BY <1>3
  <2> QED BY <2>1
<1>8. \A i \in 1 .. m :
        /\ oa[i] \in 1 .. n /\ ca[i] \in 1 .. n /\ oa[i] < ca[i] /\ A[oa[i]] = q /\ A[ca[i]] = q
        /\ Len(S[i]) = ca[i] - oa[i] - 1 /\ \A k \in 1 .. Len(S[i]) : A[oa[i] + k] = S[i][k]
  BY <1>4 DEF QuotesAt, n, m, q
<1>9. \A i \in 1 .. Len(T) :
        /\ ob[i] \in 1 .. Len(B) /\ cb[i] \in 1 .. Len(B) /\ ob[i] < cb[i] /\ B[ob[i]] = q /\ B[cb[i]] = q
        /\ Len(T[i]) = cb[i] - ob[i] - 1 /\ \A k \in 1 .. Len(T[i]) : B[ob[i] + k] = T[i][k]
  BY <1>5 DEF QuotesAt, q
<1>10. \A i \in 1 .. m + Len(T) :
         /\ o[i] \in 1 .. Len(L) /\ c[i] \in 1 .. Len(L) /\ o[i] < c[i] /\ L[o[i]] = q /\ L[c[i]] = q
         /\ Len(U[i]) = c[i] - o[i] - 1 /\ \A k \in 1 .. Len(U[i]) : L[o[i] + k] = U[i][k]
  <2>1. ASSUME NEW i \in 1 .. m
        PROVE  /\ o[i] \in 1 .. Len(L) /\ c[i] \in 1 .. Len(L) /\ o[i] < c[i] /\ L[o[i]] = q /\ L[c[i]] = q
               /\ Len(U[i]) = c[i] - o[i] - 1 /\ \A k \in 1 .. Len(U[i]) : L[o[i] + k] = U[i][k]
    <3>1. oa[i] \in 1 .. n /\ ca[i] \in 1 .. n /\ oa[i] < ca[i] /\ o[i] = oa[i] /\ c[i] = ca[i] /\ U[i] = S[i]
      BY <1>3, <1>6, <1>8
    <3>2. Len(S[i]) = ca[i] - oa[i] - 1
      BY <1>8
    <3>3. ASSUME NEW k \in 1 .. Len(S[i]) PROVE L[oa[i] + k] = S[i][k]
      <4>1. oa[i] + k \in 1 .. n
        BY <1>2, <3>1, <3>2
      <4> QED BY <1>2, <1>8, <4>1
    <3>4. oa[i] \in 1 .. Len(L) /\ ca[i] \in 1 .. Len(L) /\ L[oa[i]] = q /\ L[ca[i]] = q
      BY <1>2, <1>8, <3>1
    <3> QED BY <3>1, <3>2, <3>3, <3>4
  <2>2. ASSUME NEW i \in 1 .. Len(T)
        PROVE  LET x == m + i IN
               /\ o[x] \in 1 .. Len(L) /\ c[x] \in 1 .. Len(L) /\ o[x] < c[x] /\ L[o[x]] = q /\ L[c[x]] = q
               /\ Len(U[x]) = c[x] - o[x] - 1 /\ \A k \in 1 .. Len(U[x]) : L[o[x] + k] = U[x][k]
    <3> DEFINE x == m + i
    <3>1. /\ ob[i] \in 1 .. Len(B) /\ cb[i] \in 1 .. Len(B) /\ ob[i] < cb[i]
          /\ o[x] = n + ob[i] /\ c[x] = n + cb[i] /\ U[x] = T[i]
      BY <1>3, <1>6, <1>9
    <3>2. Len(T[i]) = cb[i] - ob[i] - 1
      BY <1>9
    <3> HIDE DEF x
    <3>3. ASSUME NEW k \in 1 .. Len(T[i]) PROVE L[o[x] + k] = T[i][k]
      <4> DEFINE y == ob[i]
                 z == cb[i]
                 w == o[x]
                 above == Len(B)
                 long == Len(T[i])
      <4>1. ob[i] + k \in 1 .. Len(B) /\ o[x] + k = n + (ob[i] + k)
        <5>1. /\ y \in 1 .. above /\ z \in 1 .. above /\ y < z /\ w = n + y /\ long = z - y - 1
              /\ k \in 1 .. long /\ n \in Nat /\ above \in Nat
          BY <1>2, <3>1, <3>2
        <5> HIDE DEF y, z, w, above, long
        <5>2. y + k \in 1 .. above /\ w + k = n + (y + k)
          BY <5>1
        <5> QED BY <5>2 DEF y, w, above
      <4>2. B[ob[i] + k] = T[i][k]
        BY <1>9
      <4> QED BY <1>2, <4>1, <4>2
    <3>4. o[x] \in 1 .. Len(L) /\ c[x] \in 1 .. Len(L) /\ L[o[x]] = q /\ L[c[x]] = q
      <4>1. B[ob[i]] = q /\ B[cb[i]] = q
        BY <1>9
      <4>2. L[n + ob[i]] = q /\ L[n + cb[i]] = q
        BY <1>2, <3>1, <4>1
      <4>3. n + ob[i] \in 1 .. Len(L) /\ n + cb[i] \in 1 .. Len(L)
        BY <1>2, <3>1
      <4> QED BY <3>1, <4>2, <4>3
    <3>5. o[x] < c[x] /\ Len(U[x]) = c[x] - o[x] - 1
      BY <1>2, <3>1, <3>2
    <3>6. \A k \in 1 .. Len(U[x]) : L[o[x] + k] = U[x][k]
      BY <3>1, <3>3
    <3> QED BY <3>4, <3>5, <3>6 DEF x
  <2> SUFFICES ASSUME NEW i \in 1 .. m + Len(T)
               PROVE  /\ o[i] \in 1 .. Len(L) /\ c[i] \in 1 .. Len(L) /\ o[i] < c[i] /\ L[o[i]] = q /\ L[c[i]] = q
                      /\ Len(U[i]) = c[i] - o[i] - 1 /\ \A k \in 1 .. Len(U[i]) : L[o[i] + k] = U[i][k]
    BY Zenon
  <2>3. CASE i \in 1 .. m
    BY <2>1, <2>3, Zenon
  <2>4. CASE \E k \in 1 .. Len(T) : i = m + k
    <3>1. PICK k \in 1 .. Len(T) : i = m + k
      BY <2>4
    <3> QED BY <2>2, <3>1, Zenon
  <2> QED BY <1>7, <2>3, <2>4, Zenon
<1>11. \A i, k \in 1 .. m + Len(T) : i < k => c[i] < o[k]
  <2>1. \A i, k \in 1 .. m : i < k => c[i] < o[k]
    BY <1>4, <1>6 DEF QuotesAt, m
  <2>2. \A i, k \in 1 .. Len(T) : i < k => c[m + i] < o[m + k]
    <3>1. \A i, k \in 1 .. Len(T) : i < k => cb[i] < ob[k]
      BY <1>5 DEF QuotesAt
    <3>2. \A i \in 1 .. Len(T) : ob[i] \in Int /\ cb[i] \in Int
      BY <1>9
    <3> SUFFICES ASSUME NEW i \in 1 .. Len(T), NEW k \in 1 .. Len(T), i < k PROVE c[m + i] < o[m + k]
      OBVIOUS
    <3>3. cb[i] < ob[k] /\ c[m + i] = n + cb[i] /\ o[m + k] = n + ob[k]
      BY <1>6, <3>1
    <3> QED BY <1>2, <3>2, <3>3
  <2>3. ASSUME NEW i \in 1 .. m, NEW k \in 1 .. Len(T) PROVE c[i] < o[m + k]
    <3>1. ca[i] \in 1 .. n /\ ob[k] \in 1 .. Len(B)
      BY <1>8, <1>9
    <3>2. c[i] = ca[i] /\ o[m + k] = n + ob[k]
      BY <1>6
    <3> QED BY <1>2, <3>1, <3>2
  <2>4. \A i, k \in 1 .. Len(T) : m + i < m + k => i < k
    BY <1>3
  <2>5. \A k \in 1 .. m : \A i \in 1 .. Len(T) : ~(m + i < k)
    BY <1>3
  <2> QED BY <1>7, <2>1, <2>2, <2>3, <2>4, <2>5
<1>12. \A p \in 1 .. Len(L) : L[p] = q => \E i \in 1 .. m + Len(T) : p = o[i] \/ p = c[i]
  <2>1. \A p \in 1 .. n : A[p] = q => \E i \in 1 .. m : p = oa[i] \/ p = ca[i]
    BY <1>4 DEF QuotesAt, q, n, m
  <2>2. \A p \in 1 .. Len(B) : B[p] = q => \E i \in 1 .. Len(T) : p = ob[i] \/ p = cb[i]
    BY <1>5 DEF QuotesAt, q
  <2>3. \A p \in 1 .. Len(L) : p \in 1 .. n \/ (p - n \in 1 .. Len(B) /\ p = n + (p - n))
    BY <1>2
  <2> SUFFICES ASSUME NEW p \in 1 .. Len(L), L[p] = q
               PROVE  \E i \in 1 .. m + Len(T) : p = o[i] \/ p = c[i]
    OBVIOUS
  <2>4. CASE p \in 1 .. n
    BY <1>2, <1>6, <2>1, <2>4
  <2>5. CASE p - n \in 1 .. Len(B) /\ p = n + (p - n)
    <3>1. B[p - n] = q
      BY <1>2, <2>5
    <3>2. PICK i \in 1 .. Len(T) : p - n = ob[i] \/ p - n = cb[i]
      BY <2>2, <2>5, <3>1
    <3>3. p = n + ob[i] \/ p = n + cb[i]
      BY <2>5, <3>2
    <3> QED BY <1>6, <3>3
  <2> QED BY <2>3, <2>4, <2>5
<1>13. QuotesAt(L, U, o, c)
  BY <1>3, <1>10, <1>11, <1>12 DEF QuotesAt, q
<1> QED BY <1>2, <1>3, <1>13 DEF Holds, L, U, X, Y

\* The strings of a list are what is between its quotes.
ListOf(strings) == FlattenSeq([i \in DOMAIN strings |-> Toml!Quoted(strings[i]) \o <<",">>])

\* A list that is not empty starts with a quote.
Started(L) == L = <<>> \/ Head(L) = Toml!Quote

LEMMA StartedMore ==
  ASSUME NEW A \in Seq(Lexeme), NEW B \in Seq(Lexeme), A # <<>>, Started(A)
  PROVE  A \o B \in Seq(Lexeme) /\ A \o B # <<>> /\ Started(A \o B)
<1> DEFINE X == Lexeme
           q == Toml!Quote
           C == A \o B
<1>0. A \in Seq(X) /\ B \in Seq(X) /\ Head(A) = q
  BY DEF Started
<1> HIDE DEF X, q
<1>1. A[1] = q /\ Len(A) >= 1 /\ Len(A) \in Nat /\ Len(B) \in Nat
  BY <1>0
<1>2. (A \o B)[1] = A[1] /\ Len(A \o B) >= 1 /\ A \o B \in Seq(X)
  <2>1. 1 \in 1 .. Len(A) + Len(B)
    BY <1>1
  <2> QED BY <1>0, <1>1, <2>1, ConcatProperties
<1> HIDE DEF C
<1>3. C[1] = q /\ Len(C) >= 1 /\ C \in Seq(X)
  BY <1>1, <1>2 DEF C
<1>4. Head(C) = q /\ C # <<>>
  BY <1>3
<1> QED BY <1>3, <1>4 DEF Started, C, q, X

LEMMA StartedConcat ==
  ASSUME NEW A \in Seq(Lexeme), NEW B \in Seq(Lexeme), Started(A), Started(B)
  PROVE  Started(A \o B)
<1>1. CASE A = <<>>
  <2>1. A \o B = B
    BY <1>1
  <2> QED BY <2>1, Zenon
<1>2. CASE A # <<>>
  BY <1>2, StartedMore
<1> QED BY <1>1, <1>2

LEMMA Single == ASSUME NEW X, NEW x \in X PROVE <<x>> \in Seq(X)
OBVIOUS

LEMMA StartedMember ==
  ASSUME NEW s \in Seq(Symbol)
  PROVE  Started(Toml!Quoted(s) \o <<",">>)
<1> DEFINE q == Toml!Quote
           a == <<q>>
           k == <<",">>
<1>1. q \in Lexeme /\ Symbol \subseteq Lexeme
  BY NoQuoteInText DEF Lexeme
<1>2. s \in Seq(Lexeme)
  <2> DEFINE X == Lexeme
  <2>1. Symbol \subseteq X
    BY <1>1
  <2> HIDE DEF X
  <2>2. s \in Seq(X)
    BY <2>1
  <2> QED BY <2>2 DEF X
<1>3. a \in Seq(Lexeme) /\ a # <<>> /\ Head(a) = q
  <2> HIDE DEF q
  <2> QED BY <1>1
<1>4. k \in Seq(Lexeme)
  <2>1. "," \in Lexeme
    BY DEF Lexeme, Toml!Mark
  <2> QED BY <2>1, Single
<1>5. Toml!Quoted(s) = (a \o s) \o a
  BY DEF Toml!Quoted
<1> HIDE DEF a, k
<1>6. a \o s \in Seq(Lexeme) /\ a \o s # <<>> /\ Started(a \o s)
  BY <1>2, <1>3, StartedMore DEF Started
<1>7. (a \o s) \o a \in Seq(Lexeme) /\ (a \o s) \o a # <<>> /\ Started((a \o s) \o a)
  BY <1>3, <1>6, StartedMore
<1>8. Started(((a \o s) \o a) \o k)
  BY <1>4, <1>7, StartedMore
<1> QED BY <1>5, <1>8 DEF k

LEMMA HoldsMember ==
  ASSUME NEW s \in Seq(Symbol)
  PROVE  Holds(Toml!Quoted(s) \o <<",">>, <<s>>)
<1>1. Holds(<<",">>, <<>>)
  <2>1. <<",">> \in Seq(Lexeme)
    BY DEF Lexeme, Toml!Mark
  <2>2. \A p \in 1 .. Len(<<",">>) : <<",">>[p] # Toml!Quote
    <3>1. Len(<<",">>) = 1 /\ <<",">>[1] = "," /\ \A p \in 1 .. 1 : p = 1
      OBVIOUS
    <3>2. "," # Toml!Quote
      BY DEF Toml!Quote
    <3> QED BY <3>1, <3>2
  <2> QED BY <2>1, <2>2, HoldsNone
<1>2. <<s>> \o <<>> = <<s>>
  OBVIOUS
<1>3. Holds(Toml!Quoted(s) \o <<",">>, <<s>> \o <<>>)
  BY <1>1, HoldsQuoted, HoldsConcat
<1> QED BY <1>2, <1>3

LEMMA HoldsList ==
  ASSUME NEW strings \in Seq(Seq(Symbol))
  PROVE  Holds(ListOf(strings), strings) /\ Started(ListOf(strings))
<1> DEFINE X == Lexeme
           Y == Seq(Symbol)
           s == [i \in DOMAIN strings |-> Toml!Quoted(strings[i]) \o <<",">>]
           n == Len(strings)
           P(m) == Holds(FlattenSeq(SubSeq(s, 1, m)), SubSeq(strings, 1, m)) /\ Started(FlattenSeq(SubSeq(s, 1, m)))
           S == {m \in Nat : m <= n => P(m)}
<1>0. DOMAIN strings = 1 .. n /\ n \in Nat
  <2>1. strings \in Seq(Y)
    OBVIOUS
  <2> HIDE DEF Y
  <2> QED BY <2>1
<1>1. \A i \in 1 .. n : strings[i] \in Y
  OBVIOUS
<1>2. \A i \in 1 .. n : Holds(s[i], <<strings[i]>>) /\ Started(s[i])
  <2> SUFFICES ASSUME NEW i \in 1 .. n PROVE Holds(s[i], <<strings[i]>>) /\ Started(s[i])
    OBVIOUS
  <2>1. Holds(Toml!Quoted(strings[i]) \o <<",">>, <<strings[i]>>) /\ Started(Toml!Quoted(strings[i]) \o <<",">>)
    BY <1>1, HoldsMember, StartedMember
  <2>2. s[i] = Toml!Quoted(strings[i]) \o <<",">>
    BY <1>0, Zenon
  <2> QED BY <2>1, <2>2, Zenon
<1>3. s \in Seq(Seq(X)) /\ Len(s) = n /\ n \in Nat
  <2>1. \A i \in 1 .. n : s[i] \in Seq(X)
    BY <1>2 DEF Holds
  <2>2. s = [i \in 1 .. n |-> s[i]] /\ n \in Nat
    BY <1>0, Zenon
  <2> HIDE DEF s, X, n
  <2> QED BY <2>1, <2>2
<1>4. strings \in Seq(Y)
  OBVIOUS
<1> HIDE DEF s, X, Y
<1>5. 0 \in S
  <2>1. FlattenSeq(SubSeq(s, 1, 0)) = <<>>
    BY <1>3, FlattenAll, Zenon
  <2>2. SubSeq(strings, 1, 0) = <<>>
    BY <1>4
  <2>3. Holds(<<>>, <<>>) /\ Started(<<>>)
    <3>1. <<>> \in Seq(Lexeme) /\ \A p \in 1 .. Len(<<>>) : <<>>[p] # Toml!Quote
      OBVIOUS
    <3> QED BY <3>1, HoldsNone DEF Started
  <2>4. P(0)
    BY <2>1, <2>2, <2>3, Zenon
  <2> HIDE DEF P
  <2> QED BY <2>4
<1>6. ASSUME NEW m \in Nat, m \in S PROVE m + 1 \in S
  <2> SUFFICES ASSUME m + 1 <= n PROVE P(m + 1)
    <3> HIDE DEF P
    <3> QED OBVIOUS
  <2>1. P(m) /\ m \in 0 .. Len(s) - 1 /\ m + 1 \in 1 .. n
    <3> HIDE DEF P
    <3> QED BY <1>3, <1>6
  <2>2. FlattenSeq(SubSeq(s, 1, m + 1)) = FlattenSeq(SubSeq(s, 1, m)) \o s[m + 1]
    BY <1>3, <2>1, FlattenMore
  <2>3. SubSeq(strings, 1, m + 1) = SubSeq(strings, 1, m) \o <<strings[m + 1]>>
    BY <1>4, <2>1
  <2>4. Holds(FlattenSeq(SubSeq(s, 1, m)) \o s[m + 1], SubSeq(strings, 1, m) \o <<strings[m + 1]>>)
    BY <1>2, <2>1, HoldsConcat
  <2>5. Started(FlattenSeq(SubSeq(s, 1, m)) \o s[m + 1])
    <3>1. FlattenSeq(SubSeq(s, 1, m)) \in Seq(Lexeme) /\ s[m + 1] \in Seq(Lexeme)
      BY <1>2, <2>1 DEF Holds
    <3> QED BY <1>2, <2>1, <3>1, StartedConcat
  <2> QED BY <2>2, <2>3, <2>4, <2>5, Zenon
<1>7. P(n)
  <2>1. n \in S
    <3>1. n \in Nat
      OBVIOUS
    <3> HIDE DEF S, n
    <3> QED BY <1>5, <1>6, <3>1, ByInduction
  <2> HIDE DEF P
  <2> QED BY <2>1
<1>8. SubSeq(s, 1, n) = s /\ SubSeq(strings, 1, n) = strings
  BY <1>3, <1>4, FlattenAll
<1> QED BY <1>7, <1>8, Zenon DEF ListOf, s

-----------------------------------------------------------------------------
(***************************************************************************)
(* What the reader makes of lines.                                         *)
(***************************************************************************)
Begins(line, S) == line # <<>> /\ Head(line) \in S
HeaderStart == Toml!Header \cup {"["}
DirectiveStart == {"app-patchable", "app-patchable-tests"}

\* A line takes the reader from h, in the hotfix table or not, and the result g
\* to k and f.
LineRead(line, h, g, k, f) ==
  \/ Begins(line, HeaderStart) /\ k = (line = <<"[hotfix]">>) /\ f = g
  \/ /\ ~Begins(line, HeaderStart) /\ k = h
     /\ \/ ~(h /\ Begins(line, DirectiveStart)) /\ f = g
        \/ h /\ Begins(line, DirectiveStart) /\ \E S : Holds(line, S) /\ f = g \o S

\* So the lines of T take it from b to R and d; hot[r] and got[r] are what it has
\* come to before the r-th line.
ReadBy(T, b, R, d, hot, got) ==
  /\ hot[1] = b /\ got[1] = <<>> /\ hot[Len(T) + 1] = d /\ got[Len(T) + 1] = R
  /\ \A r \in 1 .. Len(T) + 1 :
       hot[r] \in BOOLEAN /\ got[r] \in Seq(Seq(Symbol)) /\ ToSet(got[r]) \subseteq ToSet(R)
  /\ \A r \in 1 .. Len(T) : LineRead(T[r], hot[r], got[r], hot[r + 1], got[r + 1])

Reads(T, b, R, d) == T \in Seq(Seq(Lexeme)) /\ \E hot, got : ReadBy(T, b, R, d, hot, got)

LEMMA ReadsTypes ==
  ASSUME NEW T, NEW b, NEW R, NEW d, Reads(T, b, R, d)
  PROVE  T \in Seq(Seq(Lexeme)) /\ R \in Seq(Seq(Symbol)) /\ b \in BOOLEAN /\ d \in BOOLEAN
<1>1. PICK hot, got : ReadBy(T, b, R, d, hot, got)
  BY DEF Reads
<1>2. T \in Seq(Seq(Lexeme))
  BY DEF Reads
<1>3. 1 \in 1 .. Len(T) + 1 /\ Len(T) + 1 \in 1 .. Len(T) + 1
  <2>1. Len(T) \in Nat
    BY <1>2, LenProperties
  <2> QED BY <2>1
<1> QED BY <1>1, <1>2, <1>3, Zenon DEF ReadBy

LEMMA ToSetConcat ==
  ASSUME NEW X, NEW s \in Seq(X), NEW t \in Seq(X)
  PROVE  ToSet(s \o t) = ToSet(s) \cup ToSet(t)
<1>1. /\ s \o t \in Seq(X) /\ Len(s \o t) = Len(s) + Len(t) /\ Len(s) \in Nat /\ Len(t) \in Nat
      /\ (\A i \in 1 .. Len(s) : (s \o t)[i] = s[i]) /\ \A i \in 1 .. Len(t) : (s \o t)[Len(s) + i] = t[i]
  OBVIOUS
<1>2. DOMAIN s = 1 .. Len(s) /\ DOMAIN t = 1 .. Len(t) /\ DOMAIN (s \o t) = 1 .. Len(s) + Len(t)
  BY <1>1
<1> DEFINE u == s \o t
<1> HIDE DEF u
<1>3. ASSUME NEW i \in 1 .. Len(s) + Len(t) PROVE i \in 1 .. Len(s) \/ \E k \in 1 .. Len(t) : i = Len(s) + k
  <2>1. i \in 1 .. Len(s) \/ (i - Len(s) \in 1 .. Len(t) /\ i = Len(s) + (i - Len(s)))
    BY <1>1
  <2> QED BY <2>1
<1>4. /\ \A i \in 1 .. Len(s) : i \in 1 .. Len(s) + Len(t)
      /\ \A i \in 1 .. Len(t) : Len(s) + i \in 1 .. Len(s) + Len(t)
  BY <1>1
<1>5. /\ DOMAIN u = 1 .. Len(s) + Len(t) /\ (\A i \in 1 .. Len(s) : u[i] = s[i])
      /\ \A i \in 1 .. Len(t) : u[Len(s) + i] = t[i]
  BY <1>1, <1>2 DEF u
<1>6. ToSet(u) = ToSet(s) \cup ToSet(t)
  <2>1. /\ ToSet(u) = {u[i] : i \in 1 .. Len(s) + Len(t)}
        /\ ToSet(s) = {s[i] : i \in 1 .. Len(s)} /\ ToSet(t) = {t[i] : i \in 1 .. Len(t)}
    BY <1>2, <1>5 DEF ToSet
  <2>2. ASSUME NEW x \in ToSet(u) PROVE x \in ToSet(s) \cup ToSet(t)
    <3>1. PICK i \in 1 .. Len(s) + Len(t) : x = u[i]
      BY <2>1, <2>2
    <3>2. CASE i \in 1 .. Len(s)
      BY <1>5, <2>1, <3>1, <3>2
    <3>3. CASE \E k \in 1 .. Len(t) : i = Len(s) + k
      BY <1>5, <2>1, <3>1, <3>3
    <3> QED BY <1>3, <3>2, <3>3
  <2>3. ASSUME NEW x \in ToSet(s) PROVE x \in ToSet(u)
    BY <1>4, <1>5, <2>1, <2>3
  <2>4. ASSUME NEW x \in ToSet(t) PROVE x \in ToSet(u)
    BY <1>4, <1>5, <2>1, <2>4
  <2> QED BY <2>2, <2>3, <2>4
<1> QED BY <1>6 DEF u

\* No line, one line.
LEMMA ReadsNothing ==
  ASSUME NEW b \in BOOLEAN
  PROVE  Reads(<<>>, b, <<>>, b)
<1>1. ReadBy(<<>>, b, <<>>, b, <<b>>, << <<>> >>)
  <2>1. Len(<<>>) = 0 /\ <<b>>[1] = b /\ << <<>> >>[1] = <<>> /\ 0 + 1 = 1
    OBVIOUS
  <2>2. <<>> \in Seq(Seq(Symbol)) /\ (\A r \in 1 .. 1 : r = 1) /\ \A r \in 1 .. 0 : FALSE
    OBVIOUS
  <2> QED BY <2>1, <2>2 DEF ReadBy
<1>2. <<>> \in Seq(Seq(Lexeme))
  OBVIOUS
<1> QED BY <1>1, <1>2 DEF Reads

LEMMA ReadsLine ==
  ASSUME NEW line \in Seq(Lexeme), NEW b \in BOOLEAN, NEW R \in Seq(Seq(Symbol)), NEW d \in BOOLEAN,
         LineRead(line, b, <<>>, d, R)
  PROVE  Reads(<<line>>, b, R, d)
<1> DEFINE hot == <<b, d>>
           got == << <<>>, R >>
<1>1. /\ hot[1] = b /\ hot[2] = d /\ got[1] = <<>> /\ got[2] = R
      /\ Len(<<line>>) = 1 /\ <<line>>[1] = line /\ 1 + 1 = 2
      /\ (\A r \in 1 .. 1 : r = 1) /\ \A r \in 1 .. 2 : r = 1 \/ r = 2
  OBVIOUS
<1>2. <<>> \in Seq(Seq(Symbol)) /\ ToSet(<<>>) \subseteq ToSet(R) /\ <<line>> \in Seq(Seq(Lexeme))
  BY DEF ToSet
<1> HIDE DEF hot, got
<1>3. ReadBy(<<line>>, b, R, d, hot, got)
  BY <1>1, <1>2 DEF ReadBy
<1> QED BY <1>2, <1>3 DEF Reads

\* Lines, and then other lines.
LEMMA ReadsConcat ==
  ASSUME NEW A, NEW a, NEW R, NEW b, Reads(A, a, R, b), NEW B, NEW Q, NEW d, Reads(B, b, Q, d)
  PROVE  Reads(A \o B, a, R \o Q, d)
<1> DEFINE X == Seq(Lexeme)
           Y == Seq(Symbol)
           T == A \o B
           U == R \o Q
           n == Len(A)
           m == Len(B)
<1>1. A \in Seq(X) /\ B \in Seq(X) /\ R \in Seq(Y) /\ Q \in Seq(Y)
  BY ReadsTypes
<1>2. PICK hotA, gotA : ReadBy(A, a, R, b, hotA, gotA)
  BY DEF Reads
<1>3. PICK hotB, gotB : ReadBy(B, b, Q, d, hotB, gotB)
  BY DEF Reads
<1> HIDE DEF X, Y
<1>4. /\ T \in Seq(X) /\ Len(T) = n + m /\ n \in Nat /\ m \in Nat
      /\ (\A r \in 1 .. n : T[r] = A[r]) /\ \A r \in 1 .. m : T[n + r] = B[r]
  BY <1>1
<1>5. U \in Seq(Y) /\ ToSet(U) = ToSet(R) \cup ToSet(Q)
  BY <1>1, ToSetConcat, ConcatProperties
<1> DEFINE hot == [r \in 1 .. n + m + 1 |-> IF r <= n THEN hotA[r] ELSE hotB[r - n]]
           got == [r \in 1 .. n + m + 1 |-> IF r <= n THEN gotA[r] ELSE R \o gotB[r - n]]
<1>6. /\ \A r \in 1 .. n : r \in 1 .. n + m + 1 /\ hot[r] = hotA[r] /\ got[r] = gotA[r]
      /\ \A r \in 1 .. m + 1 : n + r \in 1 .. n + m + 1 /\ hot[n + r] = hotB[r] /\ got[n + r] = R \o gotB[r]
  <2>1. \A r \in 1 .. n : r \in 1 .. n + m + 1 /\ r <= n
    BY <1>4
  <2>2. \A r \in 1 .. m + 1 : n + r \in 1 .. n + m + 1 /\ ~(n + r <= n) /\ (n + r) - n = r
    BY <1>4
  <2> HIDE DEF n, m
  <2> QED BY <2>1, <2>2
<1> HIDE DEF hot, got, n, m, T, U
<1>7. /\ hotA[1] = a /\ gotA[1] = <<>> /\ hotA[n + 1] = b /\ gotA[n + 1] = R
      /\ \A r \in 1 .. n + 1 : hotA[r] \in BOOLEAN /\ gotA[r] \in Seq(Y) /\ ToSet(gotA[r]) \subseteq ToSet(R)
      /\ \A r \in 1 .. n : LineRead(A[r], hotA[r], gotA[r], hotA[r + 1], gotA[r + 1])
  BY <1>2 DEF ReadBy, n, Y
<1>8. /\ hotB[1] = b /\ gotB[1] = <<>> /\ hotB[m + 1] = d /\ gotB[m + 1] = Q
      /\ \A r \in 1 .. m + 1 : hotB[r] \in BOOLEAN /\ gotB[r] \in Seq(Y) /\ ToSet(gotB[r]) \subseteq ToSet(Q)
      /\ \A r \in 1 .. m : LineRead(B[r], hotB[r], gotB[r], hotB[r + 1], gotB[r + 1])
  BY <1>3 DEF ReadBy, m, Y
\* Where the two meet they agree.
<1>9. \A r \in 1 .. n + 1 : hot[r] = hotA[r] /\ got[r] = gotA[r]
  <2>1. 1 \in 1 .. m + 1 /\ \A r \in 1 .. n + 1 : r \in 1 .. n \/ r = n + 1
    BY <1>4
  <2>2. R \o <<>> = R
    BY <1>1
  <2>3. hot[n + 1] = hotA[n + 1] /\ got[n + 1] = gotA[n + 1]
    BY <1>6, <1>7, <1>8, <2>1, <2>2
  <2> QED BY <1>6, <2>1, <2>3
<1>10. \A r \in 1 .. n + m + 1 : r \in 1 .. n \/ \E k \in 1 .. m + 1 : r = n + k
  <2>1. \A r \in 1 .. n + m + 1 : r \in 1 .. n \/ (r - n \in 1 .. m + 1 /\ r = n + (r - n))
    BY <1>4
  <2> QED BY <2>1
<1>11. hot[1] = a /\ got[1] = <<>> /\ hot[n + m + 1] = d /\ got[n + m + 1] = U
  <2>1. 1 \in 1 .. n + 1 /\ m + 1 \in 1 .. m + 1 /\ n + (m + 1) = n + m + 1
    BY <1>4
  <2>2. hot[1] = a /\ got[1] = <<>>
    BY <1>7, <1>9, <2>1
  <2>3. hot[n + (m + 1)] = d /\ got[n + (m + 1)] = R \o Q
    BY <1>6, <1>8, <2>1
  <2> QED BY <2>1, <2>2, <2>3 DEF U
<1>12. \A r \in 1 .. n + m + 1 : hot[r] \in BOOLEAN /\ got[r] \in Seq(Y) /\ ToSet(got[r]) \subseteq ToSet(U)
  <2>1. \A r \in 1 .. n : hot[r] \in BOOLEAN /\ got[r] \in Seq(Y) /\ ToSet(got[r]) \subseteq ToSet(U)
    <3>1. \A r \in 1 .. n : r \in 1 .. n + 1
      BY <1>4
    <3> QED BY <1>5, <1>6, <1>7, <3>1
  <2>2. ASSUME NEW r \in 1 .. m + 1
        PROVE  hot[n + r] \in BOOLEAN /\ got[n + r] \in Seq(Y) /\ ToSet(got[n + r]) \subseteq ToSet(U)
    <3>1. /\ hotB[r] \in BOOLEAN /\ gotB[r] \in Seq(Y) /\ ToSet(gotB[r]) \subseteq ToSet(Q)
          /\ hot[n + r] = hotB[r] /\ got[n + r] = R \o gotB[r]
      BY <1>6, <1>8
    <3>2. R \o gotB[r] \in Seq(Y) /\ ToSet(R \o gotB[r]) = ToSet(R) \cup ToSet(gotB[r])
      BY <1>1, <3>1, ToSetConcat, ConcatProperties
    <3> QED BY <1>5, <3>1, <3>2
  <2> QED BY <1>10, <2>1, <2>2
<1>13. \A r \in 1 .. n + m : LineRead(T[r], hot[r], got[r], hot[r + 1], got[r + 1])
  <2>1. ASSUME NEW r \in 1 .. n PROVE LineRead(T[r], hot[r], got[r], hot[r + 1], got[r + 1])
    <3>1. r \in 1 .. n + 1 /\ r + 1 \in 1 .. n + 1
      BY <1>4
    <3>2. /\ T[r] = A[r] /\ hot[r] = hotA[r] /\ got[r] = gotA[r] /\ hot[r + 1] = hotA[r + 1] /\ got[r + 1] = gotA[r + 1]
          /\ LineRead(A[r], hotA[r], gotA[r], hotA[r + 1], gotA[r + 1])
      BY <1>4, <1>7, <1>9, <3>1
    <3> QED BY <3>2, Zenon
  <2>2. ASSUME NEW r \in 1 .. m
        PROVE  LineRead(T[n + r], hot[n + r], got[n + r], hot[n + (r + 1)], got[n + (r + 1)])
    <3>1. r \in 1 .. m + 1 /\ r + 1 \in 1 .. m + 1
      BY <1>4
    <3>2. /\ T[n + r] = B[r] /\ hot[n + r] = hotB[r] /\ got[n + r] = R \o gotB[r]
          /\ hot[n + (r + 1)] = hotB[r + 1] /\ got[n + (r + 1)] = R \o gotB[r + 1]
          /\ LineRead(B[r], hotB[r], gotB[r], hotB[r + 1], gotB[r + 1]) /\ gotB[r] \in Seq(Y)
      BY <1>4, <1>6, <1>8, <3>1
    <3>3. \A S \in Seq(Y) : R \o (gotB[r] \o S) = (R \o gotB[r]) \o S
      <4> SUFFICES ASSUME NEW S \in Seq(Y) PROVE R \o (gotB[r] \o S) = (R \o gotB[r]) \o S
        OBVIOUS
      <4> DEFINE w == gotB[r]
      <4>1. w \in Seq(Y)
        BY <3>2
      <4> HIDE DEF w
      <4>2. Glued(R, Glued(w, S)) = Glued(Glued(R, w), S)
        BY <1>1, <4>1, GluedTwice
      <4> QED BY <4>2 DEF Glued, w
    <3>4. \A line, S : Holds(line, S) => S \in Seq(Y)
      BY DEF Holds, Y
    <3>5. LineRead(B[r], hotB[r], R \o gotB[r], hotB[r + 1], R \o gotB[r + 1])
      BY <3>2, <3>3, <3>4 DEF LineRead
    <3> QED BY <3>2, <3>5, Zenon
  <2>3. ASSUME NEW r \in 1 .. n + m PROVE r \in 1 .. n \/ \E k \in 1 .. m : r = n + k /\ r + 1 = n + (k + 1)
    <3>1. r \in 1 .. n \/ (r - n \in 1 .. m /\ r = n + (r - n) /\ r + 1 = n + ((r - n) + 1))
      BY <1>4
    <3> QED BY <3>1
  <2> SUFFICES ASSUME NEW r \in 1 .. n + m PROVE LineRead(T[r], hot[r], got[r], hot[r + 1], got[r + 1])
    OBVIOUS
  <2>4. CASE r \in 1 .. n
    BY <2>1, <2>4
  <2>5. CASE \E k \in 1 .. m : r = n + k /\ r + 1 = n + (k + 1)
    <3>1. PICK k \in 1 .. m : r = n + k /\ r + 1 = n + (k + 1)
      BY <2>5
    <3>2. LineRead(T[n + k], hot[n + k], got[n + k], hot[n + (k + 1)], got[n + (k + 1)])
      BY <2>2
    <3> QED BY <3>1, <3>2, Zenon
  <2> QED BY <2>3, <2>4, <2>5
<1>14. ReadBy(T, a, U, d, hot, got)
  BY <1>4, <1>11, <1>12, <1>13 DEF ReadBy, Y
<1> QED BY <1>4, <1>14 DEF Reads, T, U, X

-----------------------------------------------------------------------------
(***************************************************************************)
(* What the reader makes of entries, tables and documents.                 *)
(***************************************************************************)
LEMMA LexemesAreApart ==
  /\ Toml!Header \subseteq Lexeme /\ Toml!Key \subseteq Lexeme /\ Toml!Mark \subseteq Lexeme /\ Symbol \subseteq Lexeme
  /\ \A x \in Toml!Header \cup Toml!Key \cup {"[", "]", ",", "=", "#"} : x # Toml!Quote
  /\ \A x \in Toml!Key \cup {"]", Toml!Quote} : x \notin HeaderStart
  /\ DirectiveStart \cap Toml!Key = {"app-patchable", "app-patchable-tests"}
  /\ Toml!Quote \notin DirectiveStart /\ "]" \notin DirectiveStart
BY DEF Lexeme, Toml!Header, Toml!Key, Toml!Mark, Toml!Quote, HeaderStart, DirectiveStart

\* The lines of an entry: the reader takes strings of the directive's keys only,
\* and only from the line of the key.
FirstPart(e) == <<e.key, "=", "[">>

LEMMA EntryParts ==
  ASSUME NEW e \in Toml!Entry
  PROVE  /\ e.key \in Toml!Key /\ e.strings \in Seq(Seq(Symbol))
         /\ e.layout \in {"one line", "several lines", "comment"}
         /\ Holds(FirstPart(e), <<>>) /\ Holds(<<"]">>, <<>>) /\ Holds(<<"]", "#">>, <<>>)
         /\ Holds(ListOf(e.strings), e.strings)
<1>1. e.key \in Toml!Key /\ e.strings \in Seq(Seq(Symbol)) /\ e.layout \in {"one line", "several lines", "comment"}
  BY DEF Toml!Entry, Toml!Layout
<1>2. {"[", "]", "=", "#"} \subseteq Lexeme
  BY DEF Lexeme, Toml!Mark
<1>3. Holds(FirstPart(e), <<>>)
  <2>1. FirstPart(e) \in Seq(Lexeme)
    <3>1. e.key \in Lexeme /\ "=" \in Lexeme /\ "[" \in Lexeme
      BY <1>1, <1>2, LexemesAreApart
    <3> QED BY <3>1 DEF FirstPart
  <2>2. \A p \in 1 .. 3 : FirstPart(e)[p] # Toml!Quote
    <3>1. \A p \in 1 .. 3 : p = 1 \/ p = 2 \/ p = 3
      OBVIOUS
    <3>2. FirstPart(e)[1] = e.key /\ FirstPart(e)[2] = "=" /\ FirstPart(e)[3] = "["
      BY DEF FirstPart
    <3>3. e.key # Toml!Quote /\ "=" # Toml!Quote /\ "[" # Toml!Quote
      BY <1>1, LexemesAreApart
    <3> QED BY <3>1, <3>2, <3>3
  <2>3. Len(FirstPart(e)) = 3
    BY DEF FirstPart
  <2> QED BY <2>1, <2>2, <2>3, HoldsNone
<1>4. Holds(<<"]">>, <<>>) /\ Holds(<<"]", "#">>, <<>>)
  <2>1. <<"]">> \in Seq(Lexeme) /\ <<"]", "#">> \in Seq(Lexeme)
    BY <1>2
  <2>2. /\ Len(<<"]">>) = 1 /\ Len(<<"]", "#">>) = 2
        /\ (\A p \in 1 .. 1 : <<"]">>[p] = "]") /\ \A p \in 1 .. 2 : <<"]", "#">>[p] \in {"]", "#"}
    OBVIOUS
  <2>3. "]" # Toml!Quote /\ "#" # Toml!Quote
    BY DEF Toml!Quote
  <2> QED BY <2>1, <2>2, <2>3, HoldsNone
<1>5. Holds(ListOf(e.strings), e.strings)
  BY <1>1, HoldsList
<1> QED BY <1>1, <1>3, <1>4, <1>5

\* The strings the reader takes from an entry, in the hotfix table or not.
Junk == <<CHOOSE t \in Symbol : TRUE>>
Taken(e, h) ==
  IF ~h \/ e.key = "name" \/ e.layout = "several lines" THEN <<>>
  ELSE IF e.layout = "comment" THEN e.strings \o <<Junk>> ELSE e.strings

LEMMA SymbolsThere == Junk \in Seq(Symbol)
<1>1. "." \in Symbol
  BY DEF Symbol
<1>2. (CHOOSE t \in Symbol : TRUE) \in Symbol
  BY <1>1
<1> QED BY <1>2 DEF Junk

\* A line that begins with the entry's key, and holds S.
LEMMA KeyLine ==
  ASSUME NEW e \in Toml!Entry, NEW h \in BOOLEAN, NEW rest, NEW S,
         rest \in Seq(Lexeme), Holds(FirstPart(e) \o rest, S)
  PROVE  Reads(<<FirstPart(e) \o rest>>, h, IF h /\ e.key # "name" THEN S ELSE <<>>, h)
<1> DEFINE line == FirstPart(e) \o rest
           R == IF h /\ e.key # "name" THEN S ELSE <<>>
<1>1. line \in Seq(Lexeme) /\ S \in Seq(Seq(Symbol)) /\ R \in Seq(Seq(Symbol))
  <2>1. line \in Seq(Lexeme) /\ S \in Seq(Seq(Symbol))
    BY DEF Holds
  <2> QED BY <2>1
<1>2. e.key \in Toml!Key /\ FirstPart(e) \in Seq(Lexeme)
  BY EntryParts DEF Holds
<1>3. line # <<>> /\ Head(line) = e.key
  <2>1. Len(FirstPart(e)) = 3 /\ FirstPart(e)[1] = e.key
    BY DEF FirstPart
  <2>2. Len(line) = 3 + Len(rest) /\ line[1] = e.key /\ Len(rest) \in Nat
    <3> DEFINE f == FirstPart(e)
    <3>1. f \in Seq(Lexeme) /\ Len(f) = 3 /\ f[1] = e.key
      BY <1>2, <2>1
    <3> HIDE DEF f
    <3>2. Len(f \o rest) = 3 + Len(rest) /\ (f \o rest)[1] = e.key /\ Len(rest) \in Nat
      <4> DEFINE X == Lexeme
      <4>1. f \in Seq(X) /\ rest \in Seq(X)
        BY <3>1
      <4> HIDE DEF X
      <4>2. Len(rest) \in Nat /\ 1 \in 1 .. Len(f) + Len(rest) /\ 1 <= Len(f)
        BY <3>1, <4>1
      <4>3. /\ Len(f \o rest) = Len(f) + Len(rest)
            /\ \A i \in 1 .. Len(f) + Len(rest) : (f \o rest)[i] = IF i <= Len(f) THEN f[i] ELSE rest[i - Len(f)]
        BY <4>1, ConcatProperties
      <4> QED BY <3>1, <4>2, <4>3
    <3> QED BY <3>2 DEF f
  <2> HIDE DEF line
  <2> QED BY <1>1, <2>2
<1> HIDE DEF line, R
<1>4. ~Begins(line, HeaderStart)
  BY <1>2, <1>3, LexemesAreApart DEF Begins
<1>5. Begins(line, DirectiveStart) <=> e.key # "name"
  BY <1>2, <1>3 DEF Begins, DirectiveStart, Toml!Key
<1>6. LineRead(line, h, <<>>, h, R)
  <2>1. S = <<>> \o S
    BY <1>1
  <2> QED BY <1>4, <1>5, <2>1 DEF LineRead, R, line
<1>7. Reads(<<line>>, h, R, h)
  BY <1>1, <1>6, ReadsLine
<1> QED BY <1>7 DEF line, R

LEMMA TwoAndOne == ASSUME NEW a, NEW b, NEW c PROVE <<a, b>> \o <<c>> = <<a, b, c>>
<1> DEFINE S == {a, b, c}
<1>1. <<a, b>> \in Seq(S) /\ <<c>> \in Seq(S) /\ <<a, b, c>> \in Seq(S)
  OBVIOUS
<1> HIDE DEF S
<1>2. /\ <<a, b>> \o <<c>> \in Seq(S) /\ Len(<<a, b>> \o <<c>>) = 3
      /\ \A i \in 1 .. 3 : (<<a, b>> \o <<c>>)[i] = IF i <= 2 THEN <<a, b>>[i] ELSE <<c>>[i - 2]
  BY <1>1, ConcatProperties
<1>3. \A i \in 1 .. 3 : (<<a, b>> \o <<c>>)[i] = <<a, b, c>>[i]
  BY <1>2
<1> QED  BY <1>1, <1>2, <1>3, SeqEqual

LEMMA EntryLinesAre ==
  ASSUME NEW e
  PROVE  /\ e.layout = "one line" => Toml!EntryLines(e) = <<(FirstPart(e) \o ListOf(e.strings)) \o <<"]">> >>
         /\ e.layout = "comment" =>
              Toml!EntryLines(e) = <<((FirstPart(e) \o ListOf(e.strings)) \o <<"]", "#">>) \o Toml!Quoted(Junk)>>
         /\ e.layout = "several lines" => Toml!EntryLines(e) = <<FirstPart(e), ListOf(e.strings), <<"]">> >>
<1> DEFINE list == Toml!FlattenSeq([i \in DOMAIN e.strings |-> Toml!Quoted(e.strings[i]) \o <<",">>])
           a == <<(<<e.key, "=", "[">> \o list) \o <<"]">> >>
           b == <<((<<e.key, "=", "[">> \o list) \o <<"]", "#">>) \o Toml!Quoted(<<CHOOSE t \in Symbol : TRUE>>)>>
           c == << <<e.key, "=", "[">>, list, <<"]">> >>
<1>1. /\ e.layout = "one line" => Toml!EntryLines(e) = a
      /\ e.layout = "comment" => Toml!EntryLines(e) = b
      /\ e.layout = "several lines" => Toml!EntryLines(e) = c
  <2>1. ASSUME e.layout = "one line" PROVE Toml!EntryLines(e) = a
    BY <2>1, Zenon DEF Toml!EntryLines
  <2>2. ASSUME e.layout = "comment" PROVE Toml!EntryLines(e) = b
    BY <2>2, Zenon DEF Toml!EntryLines
  <2>3. ASSUME e.layout = "several lines" PROVE Toml!EntryLines(e) = c
    BY <2>3, Zenon DEF Toml!EntryLines
  <2> HIDE DEF a, b, c
  <2> QED BY <2>1, <2>2, <2>3
<1>2. list = ListOf(e.strings)
  BY SameFlatten, Zenon DEF ListOf
<1> HIDE DEF list
<1>3. /\ a = <<(FirstPart(e) \o ListOf(e.strings)) \o <<"]">> >>
      /\ b = <<((FirstPart(e) \o ListOf(e.strings)) \o <<"]", "#">>) \o Toml!Quoted(Junk)>>
      /\ c = <<FirstPart(e), ListOf(e.strings), <<"]">> >>
  BY <1>2, Zenon DEF FirstPart, Junk
<1> HIDE DEF a, b, c
<1> QED BY <1>1, <1>3

LEMMA ReadsEntry ==
  ASSUME NEW e \in Toml!Entry, NEW h \in BOOLEAN
  PROVE  Reads(Toml!EntryLines(e), h, Taken(e, h), h)
<1> DEFINE list == ListOf(e.strings)
           opening == FirstPart(e)
           s == e.strings
<1>1. /\ s \in Seq(Seq(Symbol)) /\ Holds(opening, <<>>) /\ Holds(<<"]">>, <<>>) /\ Holds(<<"]", "#">>, <<>>)
      /\ Holds(list, s) /\ e.layout \in {"one line", "several lines", "comment"} /\ e.key \in Toml!Key
  BY EntryParts
<1>2. opening \in Seq(Lexeme) /\ list \in Seq(Lexeme) /\ <<"]">> \in Seq(Lexeme) /\ <<"]", "#">> \in Seq(Lexeme)
  BY <1>1 DEF Holds
<1>3. \A A, S, B, T, C, U : Holds(A, S) /\ Holds(B, T) /\ Holds(C, U) =>
        B \o C \in Seq(Lexeme) /\ Holds(A \o (B \o C), S \o (T \o U))
  <2> SUFFICES ASSUME NEW A, NEW S, NEW B, NEW T, NEW C, NEW U, Holds(A, S), Holds(B, T), Holds(C, U)
               PROVE  B \o C \in Seq(Lexeme) /\ Holds(A \o (B \o C), S \o (T \o U))
    OBVIOUS
  <2>1. Holds(B \o C, T \o U)
    BY HoldsConcat
  <2>2. Holds(A \o (B \o C), S \o (T \o U))
    BY <2>1, HoldsConcat
  <2> QED BY <2>1, <2>2 DEF Holds
<1>4. /\ <<>> \o (s \o <<>>) = s
      /\ opening \o (list \o <<"]">>) = (opening \o list) \o <<"]">>
  <2>1. <<>> \o (s \o <<>>) = s
    <3> DEFINE Y == Seq(Symbol)
    <3>1. s \in Seq(Y)
      BY <1>1
    <3> HIDE DEF s, Y
    <3> QED BY <3>1
  <2> HIDE DEF opening, list
  <2>2. opening \o (list \o <<"]">>) = (opening \o list) \o <<"]">>
    <3> DEFINE end == <<"]">>
    <3>1. end \in Seq(Lexeme)
      BY <1>2
    <3> HIDE DEF end
    <3>2. Glued(opening, Glued(list, end)) = Glued(Glued(opening, list), end)
      BY <1>2, <3>1, GluedTwice
    <3> QED BY <3>2 DEF Glued, end
  <2> QED BY <2>1, <2>2
<1>5. ASSUME e.layout = "one line" PROVE Reads(Toml!EntryLines(e), h, Taken(e, h), h)
  <2>1. Toml!EntryLines(e) = <<opening \o (list \o <<"]">>)>>
    BY <1>4, <1>5, EntryLinesAre
  <2>2. list \o <<"]">> \in Seq(Lexeme) /\ Holds(opening \o (list \o <<"]">>), s)
    BY <1>1, <1>3, <1>4
  <2>3. Reads(<<opening \o (list \o <<"]">>)>>, h, IF h /\ e.key # "name" THEN s ELSE <<>>, h)
    BY <2>2, KeyLine
  <2>4. Taken(e, h) = IF h /\ e.key # "name" THEN s ELSE <<>>
    BY <1>5 DEF Taken
  <2> QED BY <2>1, <2>3, <2>4, Zenon
<1>6. ASSUME e.layout = "comment" PROVE Reads(Toml!EntryLines(e), h, Taken(e, h), h)
  <2> DEFINE q == Toml!Quoted(Junk)
             end == <<"]", "#">>
  <2>1. Holds(q, <<Junk>>)
    BY SymbolsThere, HoldsQuoted
  <2>2. end \o q \in Seq(Lexeme) /\ Holds(end \o q, <<>> \o <<Junk>>)
    BY <1>1, <2>1, HoldsConcat DEF Holds
  <2>3. <<>> \o <<Junk>> = <<Junk>> /\ <<>> \o (s \o <<Junk>>) = s \o <<Junk>>
    <3> DEFINE Y == Seq(Symbol)
               j == Junk
    <3>1. s \in Seq(Y) /\ j \in Y
      BY <1>1, SymbolsThere
    <3> HIDE DEF s, Y, j
    <3>2. <<>> \o <<j>> = <<j>> /\ <<>> \o (s \o <<j>>) = s \o <<j>>
      BY <3>1
    <3> QED BY <3>2 DEF j
  <2>4. list \o (end \o q) \in Seq(Lexeme) /\ Holds(opening \o (list \o (end \o q)), s \o <<Junk>>)
    BY <1>1, <1>3, <2>2, <2>3
  <2>5. opening \o (list \o (end \o q)) = ((opening \o list) \o end) \o q
    <3>1. q \in Seq(Lexeme) /\ end \in Seq(Lexeme)
      BY <1>2, <2>1 DEF Holds
    <3> HIDE DEF opening, list, q, end
    <3>2. Glued(end, q) \in Seq(Lexeme) /\ Glued(opening, list) \in Seq(Lexeme)
      BY <1>2, <3>1, ConcatProperties DEF Glued
    <3>3. Glued(Glued(opening, list), Glued(end, q)) = Glued(opening, Glued(list, Glued(end, q)))
      BY <1>2, <3>2, GluedTwice
    <3>4. Glued(Glued(Glued(opening, list), end), q) = Glued(Glued(opening, list), Glued(end, q))
      BY <3>1, <3>2, GluedTwice
    <3> QED BY <3>3, <3>4 DEF Glued
  <2>6. Toml!EntryLines(e) = <<opening \o (list \o (end \o q))>>
    BY <1>6, <2>5, EntryLinesAre
  <2>7. Reads(<<opening \o (list \o (end \o q))>>, h, IF h /\ e.key # "name" THEN s \o <<Junk>> ELSE <<>>, h)
    BY <2>4, KeyLine
  <2>8. Taken(e, h) = IF h /\ e.key # "name" THEN s \o <<Junk>> ELSE <<>>
    BY <1>6 DEF Taken
  <2> QED BY <2>6, <2>7, <2>8, Zenon
\* A list on a line of its own starts no entry, nor does the line that closes it.
<1>7. ASSUME e.layout = "several lines" PROVE Reads(Toml!EntryLines(e), h, Taken(e, h), h)
  <2>1. Toml!EntryLines(e) = <<opening, list, <<"]">> >>
    BY <1>7, EntryLinesAre
  <2>2. Reads(<<opening>>, h, <<>>, h)
    <3>1. opening \o <<>> = opening /\ <<>> \in Seq(Lexeme)
      BY <1>2
    <3>2. Reads(<<opening \o <<>> >>, h, IF h /\ e.key # "name" THEN <<>> ELSE <<>>, h)
      BY <1>1, <3>1, KeyLine
    <3> QED BY <3>1, <3>2, Zenon
  <2>3. \A line \in Seq(Lexeme) : ~Begins(line, HeaderStart) /\ ~Begins(line, DirectiveStart) => Reads(<<line>>, h, <<>>, h)
    <3>1. <<>> \in Seq(Seq(Symbol))
      OBVIOUS
    <3>2. \A line : ~Begins(line, HeaderStart) /\ ~Begins(line, DirectiveStart) => LineRead(line, h, <<>>, h, <<>>)
      BY DEF LineRead
    <3> QED BY <3>1, <3>2, ReadsLine
  <2>4. ~Begins(list, HeaderStart) /\ ~Begins(list, DirectiveStart)
    <3>1. list = <<>> \/ Head(list) = Toml!Quote
      BY <1>1, HoldsList DEF Started
    <3> HIDE DEF list
    <3> QED BY <3>1, LexemesAreApart DEF Begins
  <2>5. ~Begins(<<"]">>, HeaderStart) /\ ~Begins(<<"]">>, DirectiveStart)
    <3>1. Head(<<"]">>) = "]"
      OBVIOUS
    <3> QED BY <3>1, LexemesAreApart DEF Begins
  <2>6. Reads(<<list>>, h, <<>>, h) /\ Reads(<< <<"]">> >>, h, <<>>, h)
    BY <1>2, <2>3, <2>4, <2>5
  <2>7. <<>> \o <<>> = <<>>
    OBVIOUS
  <2>8. Reads(<<opening>> \o <<list>>, h, <<>>, h)
    <3>1. Reads(<<opening>> \o <<list>>, h, <<>> \o <<>>, h)
      BY <2>2, <2>6, ReadsConcat
    <3> QED BY <2>7, <3>1, Zenon
  <2>9. Reads((<<opening>> \o <<list>>) \o << <<"]">> >>, h, <<>>, h)
    <3>1. Reads((<<opening>> \o <<list>>) \o << <<"]">> >>, h, <<>> \o <<>>, h)
      BY <2>6, <2>8, ReadsConcat
    <3> QED BY <2>7, <3>1, Zenon
  <2>10. (<<opening>> \o <<list>>) \o << <<"]">> >> = <<opening, list, <<"]">> >>
    <3> DEFINE z == <<"]">>
    <3>1. <<opening>> \o <<list>> = <<opening, list>>
      BY OneAndOne
    <3> HIDE DEF opening, list, z
    <3>2. <<opening, list>> \o <<z>> = <<opening, list, z>>
      BY TwoAndOne
    <3> QED BY <3>1, <3>2 DEF z
  <2>11. Taken(e, h) = <<>>
    BY <1>7 DEF Taken
  <2> QED BY <2>1, <2>9, <2>10, <2>11, Zenon
<1> QED BY <1>1, <1>5, <1>6, <1>7

\* What the author means by a table.
StringsOf(e) == IF e.key = "app-patchable" THEN e.strings ELSE <<>>
MeantOf(t) ==
  IF t.header = "[hotfix]" THEN FlattenSeq([i \in DOMAIN t.entries |-> StringsOf(t.entries[i])]) ELSE <<>>

PlainEntry(e) == e.layout # "comment" /\ e.key # "app-patchable-tests"
OneLineEntry(e) == e.layout = "one line" /\ e.key # "app-patchable-tests"

\* What is taken from one entry.
LEMMA TakenOfEntry ==
  ASSUME NEW e \in Toml!Entry, NEW h \in BOOLEAN
  PROVE  /\ Taken(e, h) \in Seq(Seq(Symbol)) /\ StringsOf(e) \in Seq(Seq(Symbol))
         /\ ~h => Taken(e, h) = <<>>
         /\ PlainEntry(e) => ToSet(Taken(e, h)) \subseteq ToSet(StringsOf(e))
         /\ h /\ OneLineEntry(e) => Taken(e, h) = StringsOf(e)
<1>1. e.key \in Toml!Key /\ e.strings \in Seq(Seq(Symbol)) /\ e.layout \in {"one line", "several lines", "comment"}
  BY EntryParts
<1>2. Taken(e, h) \in Seq(Seq(Symbol)) /\ h \in BOOLEAN
  BY ReadsEntry, ReadsTypes
<1>3. <<>> \in Seq(Seq(Symbol)) /\ ToSet(<<>>) = {}
  BY DEF ToSet
<1>4. StringsOf(e) \in Seq(Seq(Symbol))
  BY <1>1, <1>3 DEF StringsOf
<1>5. ~h => Taken(e, h) = <<>>
  BY DEF Taken
<1>6. PlainEntry(e) => Taken(e, h) = <<>> \/ Taken(e, h) = StringsOf(e)
  BY <1>1 DEF PlainEntry, Taken, StringsOf, Toml!Key
<1>7. h /\ OneLineEntry(e) => Taken(e, h) = StringsOf(e)
  BY <1>1 DEF OneLineEntry, Taken, StringsOf, Toml!Key
<1> QED BY <1>2, <1>3, <1>4, <1>5, <1>6, <1>7

LEMMA FunctionIsSequence ==
  ASSUME NEW Z, NEW n \in Nat, NEW f, f = [i \in 1 .. n |-> f[i]], \A i \in 1 .. n : f[i] \in Z
  PROVE  f \in Seq(Z) /\ Len(f) = n
OBVIOUS

\* What is taken from entries.
LEMMA ReadsEntries ==
  ASSUME NEW entries \in Seq(Toml!Entry), NEW h \in BOOLEAN
  PROVE  LET lines == FlattenSeq([i \in DOMAIN entries |-> Toml!EntryLines(entries[i])])
             meant == FlattenSeq([i \in DOMAIN entries |-> StringsOf(entries[i])])
         IN  \E R : /\ Reads(lines, h, R, h) /\ (~h => R = <<>>) /\ meant \in Seq(Seq(Symbol))
                    /\ (\A i \in DOMAIN entries : PlainEntry(entries[i])) => ToSet(R) \subseteq ToSet(meant)
                    /\ h /\ (\A i \in DOMAIN entries : OneLineEntry(entries[i])) => R = meant
<1> DEFINE X == Seq(Lexeme)
           Y == Seq(Symbol)
           n == Len(entries)
           l == [i \in DOMAIN entries |-> Toml!EntryLines(entries[i])]
           s == [i \in DOMAIN entries |-> StringsOf(entries[i])]
           L(m) == FlattenSeq(SubSeq(l, 1, m))
           M(m) == FlattenSeq(SubSeq(s, 1, m))
           Fits(R, m) == /\ Reads(L(m), h, R, h) /\ (~h => R = <<>>) /\ M(m) \in Seq(Y)
                         /\ (\A i \in 1 .. n : PlainEntry(entries[i])) => ToSet(R) \subseteq ToSet(M(m))
                         /\ h /\ (\A i \in 1 .. n : OneLineEntry(entries[i])) => R = M(m)
           P(m) == \E R : Fits(R, m)
           S == {m \in Nat : m <= n => P(m)}
<1>1. n \in Nat /\ DOMAIN entries = 1 .. n /\ \A i \in 1 .. n : entries[i] \in Toml!Entry
  OBVIOUS
<1>2. ASSUME NEW i \in 1 .. n
      PROVE  /\ l[i] \in Seq(X) /\ s[i] \in Seq(Y) /\ Reads(l[i], h, Taken(entries[i], h), h)
             /\ Taken(entries[i], h) \in Seq(Y) /\ (~h => Taken(entries[i], h) = <<>>)
             /\ PlainEntry(entries[i]) => ToSet(Taken(entries[i], h)) \subseteq ToSet(s[i])
             /\ h /\ OneLineEntry(entries[i]) => Taken(entries[i], h) = s[i]
  <2> DEFINE e == entries[i]
  <2>1. l[i] = Toml!EntryLines(e) /\ s[i] = StringsOf(e)
    BY <1>1, Zenon
  <2>2. e \in Toml!Entry
    BY <1>1
  <2> HIDE DEF l, s, e
  <2>3. Reads(Toml!EntryLines(e), h, Taken(e, h), h) /\ Toml!EntryLines(e) \in Seq(X)
    BY <2>2, ReadsEntry DEF Reads
  <2>4. /\ Taken(e, h) \in Seq(Y) /\ StringsOf(e) \in Seq(Y) /\ (~h => Taken(e, h) = <<>>)
        /\ PlainEntry(e) => ToSet(Taken(e, h)) \subseteq ToSet(StringsOf(e))
        /\ h /\ OneLineEntry(e) => Taken(e, h) = StringsOf(e)
    BY <2>2, TakenOfEntry
  <2>5. /\ l[i] \in Seq(X) /\ s[i] \in Seq(Y) /\ Reads(l[i], h, Taken(e, h), h)
        /\ Taken(e, h) \in Seq(Y) /\ (~h => Taken(e, h) = <<>>)
        /\ PlainEntry(e) => ToSet(Taken(e, h)) \subseteq ToSet(s[i])
        /\ h /\ OneLineEntry(e) => Taken(e, h) = s[i]
    BY <2>1, <2>3, <2>4, Zenon
  <2> QED BY <2>5, Zenon DEF e
<1>3. l \in Seq(Seq(X)) /\ s \in Seq(Seq(Y)) /\ Len(l) = n /\ Len(s) = n
  <2>1. l = [i \in 1 .. n |-> l[i]] /\ s = [i \in 1 .. n |-> s[i]]
    BY <1>1, Zenon
  <2> HIDE DEF l, s, X, Y, n
  <2>2. \A i \in 1 .. n : l[i] \in Seq(X) /\ s[i] \in Seq(Y)
    BY <1>2
  <2>3. n \in Nat
    BY <1>1
  <2>4. l \in Seq(Seq(X)) /\ Len(l) = n
    BY <2>1, <2>2, <2>3, FunctionIsSequence
  <2>5. s \in Seq(Seq(Y)) /\ Len(s) = n
    BY <2>1, <2>2, <2>3, FunctionIsSequence
  <2> QED BY <2>4, <2>5
<1>4. 0 \in S
  <2>1. L(0) = <<>> /\ M(0) = <<>>
    <3> HIDE DEF l, s, X, Y
    <3> QED BY <1>3, FlattenAll, Zenon
  <2>2. Reads(<<>>, h, <<>>, h) /\ <<>> \in Seq(Y)
    BY ReadsNothing
  <2>3. Fits(<<>>, 0)
    <3> HIDE DEF L, M, X, Y
    <3> QED BY <2>1, <2>2, Zenon
  <2> HIDE DEF Fits
  <2> QED BY <2>3
<1>5. ASSUME NEW m \in Nat, m \in S PROVE m + 1 \in S
  <2> SUFFICES ASSUME m + 1 <= n PROVE P(m + 1)
    <3> HIDE DEF P
    <3> QED OBVIOUS
  <2>1. P(m) /\ m \in 0 .. n - 1 /\ m + 1 \in 1 .. n
    <3> HIDE DEF P
    <3> QED BY <1>1, <1>5
  <2>2. PICK R : Fits(R, m)
    BY <2>1
  <2> DEFINE T == Taken(entries[m + 1], h)
  <2>3. L(m + 1) = L(m) \o l[m + 1] /\ M(m + 1) = M(m) \o s[m + 1]
    <3> HIDE DEF l, s, X, Y, n
    <3> QED BY <1>3, <2>1, FlattenMore
  <2>4. /\ s[m + 1] \in Seq(Y) /\ Reads(l[m + 1], h, T, h) /\ T \in Seq(Y) /\ (~h => T = <<>>)
        /\ PlainEntry(entries[m + 1]) => ToSet(T) \subseteq ToSet(s[m + 1])
        /\ h /\ OneLineEntry(entries[m + 1]) => T = s[m + 1]
    <3> HIDE DEF l, s, X, Y, n
    <3> QED BY <1>2, <2>1
  <2>5. /\ Reads(L(m), h, R, h) /\ (~h => R = <<>>) /\ M(m) \in Seq(Y) /\ R \in Seq(Y)
        /\ (\A i \in 1 .. n : PlainEntry(entries[i])) => ToSet(R) \subseteq ToSet(M(m))
        /\ h /\ (\A i \in 1 .. n : OneLineEntry(entries[i])) => R = M(m)
    <3>1. Reads(L(m), h, R, h)
      BY <2>2
    <3>2. R \in Seq(Y)
      <4> HIDE DEF L
      <4> QED BY <3>1, ReadsTypes
    <3> QED BY <2>2, <3>2
  <2> HIDE DEF L, M, T, l, s, n
  <2>6. Reads(L(m) \o l[m + 1], h, R \o T, h)
    BY <2>4, <2>5, ReadsConcat
  <2> HIDE DEF X, Y
  <2>7. /\ ToSet(R \o T) = ToSet(R) \cup ToSet(T) /\ ToSet(M(m) \o s[m + 1]) = ToSet(M(m)) \cup ToSet(s[m + 1])
        /\ M(m) \o s[m + 1] \in Seq(Y) /\ (R = <<>> /\ T = <<>> => R \o T = <<>>)
    <3> DEFINE a == M(m)
               b == s[m + 1]
    <3>1. a \in Seq(Y) /\ b \in Seq(Y) /\ R \in Seq(Y) /\ T \in Seq(Y)
      BY <2>4, <2>5
    <3> HIDE DEF a, b
    <3>2. ToSet(R \o T) = ToSet(R) \cup ToSet(T) /\ ToSet(a \o b) = ToSet(a) \cup ToSet(b) /\ a \o b \in Seq(Y)
      BY <3>1, ToSetConcat, ConcatProperties
    <3>3. R = <<>> /\ T = <<>> => R \o T = <<>>
      BY <3>1
    <3> QED BY <3>2, <3>3 DEF a, b
  <2>8. Fits(R \o T, m + 1)
    <3>1. Reads(L(m + 1), h, R \o T, h) /\ M(m + 1) \in Seq(Y) /\ (~h => R \o T = <<>>)
      BY <2>3, <2>4, <2>5, <2>6, <2>7, Zenon
    <3>2. (\A i \in 1 .. n : PlainEntry(entries[i])) => ToSet(R \o T) \subseteq ToSet(M(m + 1))
      BY <2>1, <2>3, <2>4, <2>5, <2>7
    <3>3. h /\ (\A i \in 1 .. n : OneLineEntry(entries[i])) => R \o T = M(m + 1)
      BY <2>1, <2>3, <2>4, <2>5, Zenon
    <3> QED BY <3>1, <3>2, <3>3
  <2> HIDE DEF Fits
  <2> QED BY <2>8
<1>6. P(n)
  <2>1. n \in S
    <3> HIDE DEF S, n
    <3> QED BY <1>1, <1>4, <1>5, ByInduction
  <2> HIDE DEF P
  <2> QED BY <1>1, <2>1
<1>7. SubSeq(l, 1, n) = l /\ SubSeq(s, 1, n) = s
  <2> HIDE DEF l, s, X, Y, n
  <2> QED BY <1>3, FlattenAll
<1>8. PICK R : Fits(R, n)
  BY <1>6
<1>9. L(n) = FlattenSeq(l) /\ M(n) = FlattenSeq(s)
  <2> HIDE DEF l, s
  <2> QED BY <1>7, Zenon
<1>10. /\ Reads(FlattenSeq(l), h, R, h) /\ (~h => R = <<>>) /\ FlattenSeq(s) \in Seq(Seq(Symbol))
       /\ (\A i \in DOMAIN entries : PlainEntry(entries[i])) => ToSet(R) \subseteq ToSet(FlattenSeq(s))
       /\ h /\ (\A i \in DOMAIN entries : OneLineEntry(entries[i])) => R = FlattenSeq(s)
  <2> HIDE DEF L, M, l, s, n
  <2> QED BY <1>1, <1>8, <1>9, Zenon
<1> QED BY <1>10, Zenon

\* The lines of a table; the reader takes up a header of the hotfix table if nothing
\* else is on its line.
LEMMA ReadsTable ==
  ASSUME NEW t \in Toml!Table, NEW b \in BOOLEAN
  PROVE  \E R, d : /\ Reads(Toml!TableLines(t), b, R, d) /\ MeantOf(t) \in Seq(Seq(Symbol))
                   /\ (\A i \in DOMAIN t.entries : PlainEntry(t.entries[i])) => ToSet(R) \subseteq ToSet(MeantOf(t))
                   /\ ~t.comment /\ (\A i \in DOMAIN t.entries : OneLineEntry(t.entries[i])) => R = MeantOf(t)
<1> DEFINE e == t.entries
           h == t.header = "[hotfix]" /\ ~t.comment
           line == <<t.header>> \o (IF t.comment THEN <<"#">> ELSE <<>>)
           lines == FlattenSeq([i \in DOMAIN e |-> Toml!EntryLines(e[i])])
           meant == FlattenSeq([i \in DOMAIN e |-> StringsOf(e[i])])
<1>1. t.header \in Toml!Header /\ t.comment \in BOOLEAN /\ e \in Seq(Toml!Entry)
  BY DEF Toml!Table
<1>2. Toml!TableLines(t) = <<line>> \o lines
  BY SameFlatten, Zenon DEF Toml!TableLines
<1>3. MeantOf(t) = IF t.header = "[hotfix]" THEN meant ELSE <<>>
  BY DEF MeantOf
<1>4. PICK R : /\ Reads(lines, h, R, h) /\ (~h => R = <<>>) /\ meant \in Seq(Seq(Symbol))
               /\ (\A i \in DOMAIN e : PlainEntry(e[i])) => ToSet(R) \subseteq ToSet(meant)
               /\ h /\ (\A i \in DOMAIN e : OneLineEntry(e[i])) => R = meant
  <2>1. h \in BOOLEAN
    OBVIOUS
  <2> HIDE DEF h
  <2> QED BY <1>1, <2>1, ReadsEntries
<1>5. line = IF t.comment THEN <<t.header, "#">> ELSE <<t.header>>
  <2>1. <<t.header>> \o <<"#">> = <<t.header, "#">>
    BY OneAndOne
  <2>2. <<t.header>> \o <<>> = <<t.header>>
    OBVIOUS
  <2> QED BY <2>1, <2>2, Zenon
<1>6. line \in Seq(Lexeme) /\ line # <<>> /\ Head(line) = t.header
  <2>1. t.header \in Lexeme /\ "#" \in Lexeme
    BY <1>1, LexemesAreApart DEF Toml!Mark
  <2>2. CASE t.comment
    <3>1. line = <<t.header, "#">>
      BY <1>5, <2>2
    <3> HIDE DEF line
    <3> QED BY <2>1, <3>1
  <2>3. CASE ~t.comment
    <3>1. line = <<t.header>>
      BY <1>5, <2>3
    <3> HIDE DEF line
    <3> QED BY <2>1, <3>1
  <2> QED BY <2>2, <2>3
<1>7. h <=> (line = <<"[hotfix]">>)
  <2>1. CASE t.comment
    <3>1. line = <<t.header, "#">>
      BY <1>5, <2>1
    <3>2. <<t.header, "#">> # <<"[hotfix]">>
      OBVIOUS
    <3> HIDE DEF line
    <3> QED BY <2>1, <3>1, <3>2
  <2>2. CASE ~t.comment
    <3>1. line = <<t.header>>
      BY <1>5, <2>2
    <3>2. <<t.header>> = <<"[hotfix]">> <=> t.header = "[hotfix]"
      OBVIOUS
    <3> HIDE DEF line
    <3> QED BY <2>2, <3>1, <3>2
  <2> QED BY <2>1, <2>2
<1>8. Begins(line, HeaderStart)
  BY <1>1, <1>6 DEF Begins, HeaderStart
<1> HIDE DEF h, line, lines, meant, e
<1>9. Reads(<<line>>, b, <<>>, h)
  <2>1. LineRead(line, b, <<>>, h, <<>>)
    BY <1>7, <1>8, Zenon DEF LineRead, h
  <2>2. <<>> \in Seq(Seq(Symbol)) /\ h \in BOOLEAN
    BY DEF h
  <2> QED BY <1>6, <2>1, <2>2, ReadsLine
<1>10. Reads(<<line>> \o lines, b, R, h)
  <2>1. Reads(<<line>> \o lines, b, <<>> \o R, h)
    BY <1>4, <1>9, ReadsConcat
  <2>2. <<>> \o R = R
    <3> DEFINE Y == Seq(Symbol)
    <3>1. R \in Seq(Y)
      BY <1>4, ReadsTypes
    <3> HIDE DEF Y
    <3> QED BY <3>1
  <2> QED BY <2>1, <2>2, Zenon
<1>11. MeantOf(t) \in Seq(Seq(Symbol))
  <2>1. <<>> \in Seq(Seq(Symbol))
    OBVIOUS
  <2> QED BY <1>3, <1>4, <2>1, Zenon
<1>12. ASSUME \A i \in DOMAIN e : PlainEntry(e[i]) PROVE ToSet(R) \subseteq ToSet(MeantOf(t))
  <2>1. CASE h
    <3>1. MeantOf(t) = meant
      BY <1>3, <2>1 DEF h
    <3> QED BY <1>4, <1>12, <3>1
  <2>2. CASE ~h
    <3>1. R = <<>> /\ ToSet(<<>>) = {}
      BY <1>4, <2>2 DEF ToSet
    <3> QED BY <3>1
  <2> QED BY <2>1, <2>2
<1>13. ASSUME ~t.comment, \A i \in DOMAIN e : OneLineEntry(e[i]) PROVE R = MeantOf(t)
  <2>1. CASE h
    <3>1. MeantOf(t) = meant
      BY <1>3, <2>1 DEF h
    <3> QED BY <1>4, <1>13, <2>1, <3>1, Zenon
  <2>2. CASE ~h
    <3>1. R = <<>> /\ t.header # "[hotfix]"
      BY <1>4, <1>13, <2>2 DEF h
    <3> QED BY <1>3, <3>1
  <2> QED BY <2>1, <2>2
<1>14. Reads(Toml!TableLines(t), b, R, h)
  BY <1>2, <1>10, Zenon
<1> QED BY <1>11, <1>12, <1>13, <1>14, Zenon DEF e

\* The lines of a document.
MeantBy(d) == FlattenSeq([i \in DOMAIN d |-> MeantOf(d[i])])
PlainDocument(d) == \A i \in DOMAIN d : \A k \in DOMAIN d[i].entries : PlainEntry(d[i].entries[k])
OneLineDocument(d) ==
  \A i \in DOMAIN d : ~d[i].comment /\ \A k \in DOMAIN d[i].entries : OneLineEntry(d[i].entries[k])

LEMMA ReadsDocument ==
  ASSUME NEW d \in Seq(Toml!Table)
  PROVE  \E R, b : /\ Reads(Toml!Lines(d), FALSE, R, b)
                   /\ PlainDocument(d) => ToSet(R) \subseteq ToSet(MeantBy(d))
                   /\ OneLineDocument(d) => R = MeantBy(d)
<1> DEFINE X == Seq(Lexeme)
           Y == Seq(Symbol)
           n == Len(d)
           l == [i \in DOMAIN d |-> Toml!TableLines(d[i])]
           s == [i \in DOMAIN d |-> MeantOf(d[i])]
           L(m) == FlattenSeq(SubSeq(l, 1, m))
           M(m) == FlattenSeq(SubSeq(s, 1, m))
           Fits(R, b, m) == /\ Reads(L(m), FALSE, R, b) /\ M(m) \in Seq(Y)
                            /\ PlainDocument(d) => ToSet(R) \subseteq ToSet(M(m))
                            /\ OneLineDocument(d) => R = M(m)
           P(m) == \E R, b : Fits(R, b, m)
           S == {m \in Nat : m <= n => P(m)}
<1>1. n \in Nat /\ DOMAIN d = 1 .. n /\ \A i \in 1 .. n : d[i] \in Toml!Table
  OBVIOUS
<1>2. ASSUME NEW i \in 1 .. n, NEW b \in BOOLEAN
      PROVE  \E R, c : /\ l[i] \in Seq(X) /\ s[i] \in Seq(Y) /\ Reads(l[i], b, R, c)
                       /\ PlainDocument(d) => ToSet(R) \subseteq ToSet(s[i])
                       /\ OneLineDocument(d) => R = s[i]
  <2> DEFINE t == d[i]
  <2>1. l[i] = Toml!TableLines(t) /\ s[i] = MeantOf(t)
    BY <1>1, Zenon
  <2>2. t \in Toml!Table /\ i \in DOMAIN d
    BY <1>1
  <2>3. /\ PlainDocument(d) => \A k \in DOMAIN t.entries : PlainEntry(t.entries[k])
        /\ OneLineDocument(d) => ~t.comment /\ \A k \in DOMAIN t.entries : OneLineEntry(t.entries[k])
    BY <2>2, Zenon DEF PlainDocument, OneLineDocument
  <2> HIDE DEF l, s, t
  <2>4. PICK R, c : /\ Reads(Toml!TableLines(t), b, R, c) /\ MeantOf(t) \in Seq(Y)
                    /\ (\A k \in DOMAIN t.entries : PlainEntry(t.entries[k])) => ToSet(R) \subseteq ToSet(MeantOf(t))
                    /\ ~t.comment /\ (\A k \in DOMAIN t.entries : OneLineEntry(t.entries[k])) => R = MeantOf(t)
    BY <2>2, ReadsTable
  <2>5. Toml!TableLines(t) \in Seq(X)
    BY <2>4 DEF Reads
  <2> QED BY <2>1, <2>3, <2>4, <2>5, Zenon
<1>3. l \in Seq(Seq(X)) /\ s \in Seq(Seq(Y)) /\ Len(l) = n /\ Len(s) = n
  <2>1. l = [i \in 1 .. n |-> l[i]] /\ s = [i \in 1 .. n |-> s[i]]
    BY <1>1, Zenon
  <2> HIDE DEF l, s, X, Y, n
  <2>2. TRUE \in BOOLEAN
    OBVIOUS
  <2>3. \A i \in 1 .. n : l[i] \in Seq(X) /\ s[i] \in Seq(Y)
    BY <1>2, <2>2, Zenon
  <2>4. n \in Nat
    BY <1>1
  <2>5. l \in Seq(Seq(X)) /\ Len(l) = n
    BY <2>1, <2>3, <2>4, FunctionIsSequence
  <2>6. s \in Seq(Seq(Y)) /\ Len(s) = n
    BY <2>1, <2>3, <2>4, FunctionIsSequence
  <2> QED BY <2>5, <2>6
<1>4. 0 \in S
  <2>1. L(0) = <<>> /\ M(0) = <<>>
    <3> HIDE DEF l, s, X, Y
    <3> QED BY <1>3, FlattenAll, Zenon
  <2>2. Reads(<<>>, FALSE, <<>>, FALSE) /\ <<>> \in Seq(Y)
    <3>1. \A x \in BOOLEAN : Reads(<<>>, x, <<>>, x)
      BY ReadsNothing
    <3>2. <<>> \in Seq(Y)
      OBVIOUS
    <3> QED BY <3>1, <3>2, ZenonT(30)
  <2>3. Fits(<<>>, FALSE, 0)
    <3> HIDE DEF L, M, X, Y
    <3> QED BY <2>1, <2>2, Zenon
  <2> HIDE DEF Fits
  <2> QED BY <2>3
<1>5. ASSUME NEW m \in Nat, m \in S PROVE m + 1 \in S
  <2> SUFFICES ASSUME m + 1 <= n PROVE P(m + 1)
    <3> HIDE DEF P
    <3> QED OBVIOUS
  <2>1. P(m) /\ m \in 0 .. n - 1 /\ m + 1 \in 1 .. n
    <3> HIDE DEF P
    <3> QED BY <1>1, <1>5
  <2>2. PICK R, b : Fits(R, b, m)
    BY <2>1
  <2>3. L(m + 1) = L(m) \o l[m + 1] /\ M(m + 1) = M(m) \o s[m + 1]
    <3> HIDE DEF l, s, X, Y, n
    <3> QED BY <1>3, <2>1, FlattenMore
  <2>4. /\ Reads(L(m), FALSE, R, b) /\ M(m) \in Seq(Y) /\ R \in Seq(Y) /\ b \in BOOLEAN
        /\ PlainDocument(d) => ToSet(R) \subseteq ToSet(M(m))
        /\ OneLineDocument(d) => R = M(m)
    <3>1. Reads(L(m), FALSE, R, b)
      BY <2>2
    <3>2. R \in Seq(Y) /\ b \in BOOLEAN
      <4> HIDE DEF L
      <4> QED BY <3>1, ReadsTypes
    <3> QED BY <2>2, <3>2
  <2>5. PICK T, c : /\ l[m + 1] \in Seq(X) /\ s[m + 1] \in Seq(Y) /\ Reads(l[m + 1], b, T, c)
                    /\ PlainDocument(d) => ToSet(T) \subseteq ToSet(s[m + 1])
                    /\ OneLineDocument(d) => T = s[m + 1]
    <3> HIDE DEF l, s, X, Y, n, L, M
    <3> QED BY <1>2, <2>1, <2>4
  <2> HIDE DEF L, M, l, s, n
  <2>6. Reads(L(m) \o l[m + 1], FALSE, R \o T, c) /\ T \in Seq(Y)
    <3>1. Reads(L(m) \o l[m + 1], FALSE, R \o T, c)
      BY <2>4, <2>5, ReadsConcat, ZenonT(30)
    <3>2. T \in Seq(Y)
      BY <2>5, ReadsTypes, ZenonT(30)
    <3> QED BY <3>1, <3>2
  <2> HIDE DEF X, Y
  <2>7. /\ ToSet(R \o T) = ToSet(R) \cup ToSet(T) /\ ToSet(M(m) \o s[m + 1]) = ToSet(M(m)) \cup ToSet(s[m + 1])
        /\ M(m) \o s[m + 1] \in Seq(Y)
    <3> DEFINE u == M(m)
               v == s[m + 1]
    <3>1. u \in Seq(Y) /\ v \in Seq(Y) /\ R \in Seq(Y) /\ T \in Seq(Y)
      BY <2>4, <2>5, <2>6
    <3> HIDE DEF u, v
    <3>2. ToSet(R \o T) = ToSet(R) \cup ToSet(T) /\ ToSet(u \o v) = ToSet(u) \cup ToSet(v) /\ u \o v \in Seq(Y)
      BY <3>1, ToSetConcat, ConcatProperties
    <3> QED BY <3>2 DEF u, v
  <2>8. Fits(R \o T, c, m + 1)
    <3>1. Reads(L(m + 1), FALSE, R \o T, c) /\ M(m + 1) \in Seq(Y)
      BY <2>3, <2>6, <2>7, Zenon
    <3>2. PlainDocument(d) => ToSet(R \o T) \subseteq ToSet(M(m + 1))
      BY <2>3, <2>4, <2>5, <2>7
    <3>3. OneLineDocument(d) => R \o T = M(m + 1)
      BY <2>3, <2>4, <2>5, Zenon
    <3> QED BY <3>1, <3>2, <3>3
  <2> HIDE DEF Fits
  <2> QED BY <2>8
<1>6. P(n)
  <2>1. n \in S
    <3> HIDE DEF S, n
    <3> QED BY <1>1, <1>4, <1>5, ByInduction
  <2> HIDE DEF P
  <2> QED BY <1>1, <2>1
<1>7. SubSeq(l, 1, n) = l /\ SubSeq(s, 1, n) = s
  <2> HIDE DEF l, s, X, Y, n
  <2> QED BY <1>3, FlattenAll
<1>8. PICK R, b : Fits(R, b, n)
  BY <1>6
<1>9. L(n) = FlattenSeq(l) /\ M(n) = FlattenSeq(s)
  <2> HIDE DEF l, s
  <2> QED BY <1>7, Zenon
<1>10. Toml!Lines(d) = FlattenSeq(l) /\ MeantBy(d) = FlattenSeq(s)
  BY SameFlatten, Zenon DEF Toml!Lines, MeantBy
<1>11. /\ Reads(Toml!Lines(d), FALSE, R, b)
       /\ PlainDocument(d) => ToSet(R) \subseteq ToSet(MeantBy(d))
       /\ OneLineDocument(d) => R = MeantBy(d)
  <2> HIDE DEF L, M, l, s, n
  <2> QED BY <1>8, <1>9, <1>10, Zenon
<1> QED BY <1>11

-----------------------------------------------------------------------------
(***************************************************************************)
(* Reading: at every moment the reader has come to what its lines say.     *)
(***************************************************************************)

\* In a line that holds S the scan is before the p-th lexeme; j strings are done.
ScanAt(line, S, o, c, j, p, u) ==
  /\ line \in Seq(Lexeme) /\ S \in Seq(Seq(Symbol)) /\ QuotesAt(line, S, o, c)
  /\ j \in 0 .. Len(S) /\ p \in 1 .. Len(line) + 1 /\ u \in Seq(Symbol)
  /\ \A i \in 1 .. j : c[i] < p

\* In the next string, of which it has u; or outside strings.
Inside(line, S, o, c, j, p, u) ==
  /\ ScanAt(line, S, o, c, j, p, u)
  /\ j + 1 \in 1 .. Len(S) /\ o[j + 1] < p /\ p <= c[j + 1]
  /\ Len(u) = p - o[j + 1] - 1 /\ \A k \in 1 .. Len(u) : u[k] = S[j + 1][k]
Outside(line, S, o, c, j, p, u) ==
  /\ ScanAt(line, S, o, c, j, p, u)
  /\ u = <<>> /\ \A i \in j + 1 .. Len(S) : o[i] >= p

LEMMA ElementOf == ASSUME NEW Y, NEW S \in Seq(Y), NEW i \in 1 .. Len(S) PROVE S[i] \in Y
OBVIOUS

LEMMA StringAt ==
  ASSUME NEW line \in Seq(Lexeme), NEW S \in Seq(Seq(Symbol)), NEW o, NEW c, QuotesAt(line, S, o, c),
         NEW i \in 1 .. Len(S)
  PROVE  /\ o[i] \in 1 .. Len(line) /\ c[i] \in 1 .. Len(line) /\ o[i] \in Nat /\ c[i] \in Nat /\ o[i] < c[i]
         /\ S[i] \in Seq(Symbol) /\ Len(S[i]) = c[i] - o[i] - 1
         /\ line[o[i]] = Toml!Quote /\ line[c[i]] = Toml!Quote
         /\ \A k \in 1 .. Len(S[i]) : line[o[i] + k] = S[i][k]
<1>1. /\ o[i] \in 1 .. Len(line) /\ c[i] \in 1 .. Len(line) /\ o[i] < c[i] /\ Len(S[i]) = c[i] - o[i] - 1
      /\ line[o[i]] = Toml!Quote /\ line[c[i]] = Toml!Quote
      /\ \A k \in 1 .. Len(S[i]) : line[o[i] + k] = S[i][k]
  BY Zenon DEF QuotesAt
<1> DEFINE Y == Seq(Symbol)
<1>2. S[i] \in Y
  <2>1. S \in Seq(Y)
    OBVIOUS
  <2> HIDE DEF Y
  <2> QED BY <2>1, ElementOf
<1>3. Len(line) \in Nat
  BY LenProperties
<1>4. o[i] \in Nat /\ c[i] \in Nat
  BY <1>1, <1>3
<1> QED BY <1>1, <1>2, <1>4, Zenon

NextString(line, S, o, c, j, p, u, a, b, w) ==
  /\ a \in Nat /\ b \in Nat /\ w \in Seq(Symbol)
  /\ a = o[j + 1] /\ b = c[j + 1] /\ w = S[j + 1] /\ a < p /\ p <= b
  /\ Len(w) = b - a - 1 /\ Len(u) = p - a - 1 /\ \A k \in 1 .. Len(u) : u[k] = w[k]
  /\ p \in Nat /\ j \in Nat /\ Len(line) \in Nat /\ Len(S) \in Nat /\ j + 1 <= Len(S)
  /\ line[b] = Toml!Quote /\ \A k \in 1 .. Len(w) : line[a + k] = w[k]

\* Between the quotes of the string after the j strings that are done.
LEMMA BetweenQuotes ==
  ASSUME NEW line, NEW S, NEW o, NEW c, NEW j, NEW p, NEW u,
         Inside(line, S, o, c, j, p, u), p <= Len(line)
  PROVE  \E a, b, w : NextString(line, S, o, c, j, p, u, a, b, w)
<1>1. /\ line \in Seq(Lexeme) /\ S \in Seq(Seq(Symbol)) /\ QuotesAt(line, S, o, c)
      /\ j \in 0 .. Len(S) /\ p \in 1 .. Len(line) + 1
      /\ j + 1 \in 1 .. Len(S) /\ o[j + 1] < p /\ p <= c[j + 1]
      /\ Len(u) = p - o[j + 1] - 1 /\ \A k \in 1 .. Len(u) : u[k] = S[j + 1][k]
  BY DEF Inside, Outside, ScanAt
<1>2. Len(line) \in Nat /\ Len(S) \in Nat
  BY <1>1, LenProperties
<1>3. j \in Nat /\ p \in Nat /\ j + 1 <= Len(S)
  BY <1>1, <1>2
<1> DEFINE i == j + 1
<1>4. i \in 1 .. Len(S)
  BY <1>1
<1> HIDE DEF i
<1>5. /\ o[i] \in Nat /\ c[i] \in Nat /\ S[i] \in Seq(Symbol) /\ Len(S[i]) = c[i] - o[i] - 1
      /\ line[c[i]] = Toml!Quote /\ \A k \in 1 .. Len(S[i]) : line[o[i] + k] = S[i][k]
  BY <1>1, <1>4, StringAt
<1>6. o[i] < p /\ p <= c[i] /\ Len(u) = p - o[i] - 1 /\ \A k \in 1 .. Len(u) : u[k] = S[i][k]
  BY <1>1 DEF i
<1>7. NextString(line, S, o, c, j, p, u, o[i], c[i], S[i])
  BY <1>2, <1>3, <1>5, <1>6, Zenon DEF i, NextString
<1> QED BY <1>7, Zenon

LEMMA ScanStart ==
  ASSUME NEW line, NEW S, Holds(line, S)
  PROVE  \E o, c : Outside(line, S, o, c, 0, 1, <<>>)
<1>1. PICK o, c : QuotesAt(line, S, o, c)
  BY DEF Holds
<1>2. line \in Seq(Lexeme) /\ S \in Seq(Seq(Symbol)) /\ <<>> \in Seq(Symbol)
  BY DEF Holds
<1>3. Len(line) \in Nat /\ Len(S) \in Nat
  BY <1>2, LenProperties
<1>4. \A i \in 1 .. Len(S) : o[i] \in 1 .. Len(line)
  BY <1>1 DEF QuotesAt
<1>5. /\ 0 \in 0 .. Len(S) /\ 1 \in 1 .. Len(line) + 1 /\ (\A i \in 1 .. 0 : c[i] < 1)
      /\ \A i \in 0 + 1 .. Len(S) : o[i] >= 1
  BY <1>3, <1>4
<1> QED BY <1>1, <1>2, <1>5, ZenonT(30) DEF Inside, Outside, ScanAt

\* A quote opens, at o[j + 1], or closes, at c[j + 1]; everything else is kept if quoted.
LEMMA ScanOpen ==
  ASSUME NEW line, NEW S, NEW o, NEW c, NEW j, NEW p, NEW u,
         Outside(line, S, o, c, j, p, u), p <= Len(line), line[p] = Toml!Quote
  PROVE  Inside(line, S, o, c, j, p + 1, u)
<1>1. /\ line \in Seq(Lexeme) /\ S \in Seq(Seq(Symbol)) /\ QuotesAt(line, S, o, c)
      /\ j \in 0 .. Len(S) /\ p \in 1 .. Len(line) + 1 /\ u = <<>> /\ u \in Seq(Symbol)
      /\ (\A i \in 1 .. j : c[i] < p) /\ \A i \in j + 1 .. Len(S) : o[i] >= p
  BY DEF Inside, Outside, ScanAt
<1>2. Len(line) \in Nat /\ Len(S) \in Nat
  BY <1>1, LenProperties
<1>3. \A i \in 1 .. Len(S) : o[i] \in Nat /\ c[i] \in Nat /\ o[i] < c[i]
  BY <1>1, StringAt
<1>4. PICK i \in 1 .. Len(S) : p = o[i] \/ p = c[i]
  <2>1. p \in 1 .. Len(line)
    BY <1>1, <1>2
  <2> QED BY <1>1, <2>1 DEF QuotesAt
<1>5. i > j
  <2>1. CASE i <= j
    <3>1. c[i] < p /\ o[i] < c[i]
      BY <1>1, <1>3, <2>1
    <3> QED BY <1>1, <1>3, <1>4, <3>1
  <2> QED BY <1>1, <1>2, <2>1
<1>6. p = o[i]
  <2>1. o[i] >= p
    BY <1>1, <1>2, <1>5
  <2> QED BY <1>1, <1>3, <1>4, <2>1
<1>7. i = j + 1
  <2>1. CASE i > j + 1
    <3>1. j + 1 \in 1 .. Len(S) /\ j + 1 < i
      BY <1>1, <1>2, <2>1
    <3>2. c[j + 1] < o[i]
      BY <1>1, <3>1 DEF QuotesAt
    <3>3. o[j + 1] >= p /\ o[j + 1] < c[j + 1] /\ o[j + 1] \in Nat /\ c[j + 1] \in Nat
      BY <1>1, <1>2, <1>3, <3>1
    <3> QED BY <1>1, <1>3, <1>6, <3>2, <3>3
  <2> QED BY <1>1, <1>2, <1>5, <2>1
<1>8. p = o[j + 1] /\ p < c[j + 1] /\ j + 1 \in 1 .. Len(S) /\ c[j + 1] \in Nat
  BY <1>3, <1>6, <1>7
<1>9. Len(u) = 0 /\ p \in Nat
  BY <1>1, <1>2
<1>10. /\ p + 1 \in 1 .. Len(line) + 1 /\ (\A x \in 1 .. j : c[x] < p + 1)
       /\ o[j + 1] < p + 1 /\ p + 1 <= c[j + 1] /\ Len(u) = (p + 1) - o[j + 1] - 1
       /\ \A k \in 1 .. Len(u) : u[k] = S[j + 1][k]
  <2>1. \A x \in 1 .. j : c[x] \in Nat /\ c[x] < p
    BY <1>1, <1>2, <1>3
  <2>2. p + 1 \in 1 .. Len(line) + 1 /\ \A x \in 1 .. j : c[x] < p + 1
    BY <1>2, <1>9, <2>1
  <2>3. o[j + 1] < p + 1 /\ p + 1 <= c[j + 1] /\ (p + 1) - o[j + 1] - 1 = 0
    BY <1>8, <1>9
  <2>4. \A k \in 1 .. 0 : FALSE
    OBVIOUS
  <2> QED BY <1>9, <2>2, <2>3, <2>4, Zenon
<1>11. /\ line \in Seq(Lexeme) /\ S \in Seq(Seq(Symbol)) /\ QuotesAt(line, S, o, c) /\ j \in 0 .. Len(S)
       /\ u \in Seq(Symbol)
  BY <1>1, Zenon
<1>12. j + 1 \in 1 .. Len(S)
  BY <1>8
<1>13. ScanAt(line, S, o, c, j, p + 1, u)
  BY <1>10, <1>11, Zenon DEF ScanAt
<1> QED BY <1>10, <1>12, <1>13, Zenon DEF Inside

LEMMA ScanClose ==
  ASSUME NEW line, NEW S, NEW o, NEW c, NEW j, NEW p, NEW u,
         Inside(line, S, o, c, j, p, u), p <= Len(line), line[p] = Toml!Quote
  PROVE  Outside(line, S, o, c, j + 1, p + 1, <<>>) /\ j + 1 \in 1 .. Len(S) /\ u = S[j + 1]
<1>1. /\ line \in Seq(Lexeme) /\ S \in Seq(Seq(Symbol)) /\ QuotesAt(line, S, o, c)
      /\ j \in 0 .. Len(S) /\ p \in 1 .. Len(line) + 1 /\ u \in Seq(Symbol)
      /\ (\A i \in 1 .. j : c[i] < p) /\ j + 1 \in 1 .. Len(S)
  BY DEF Inside, Outside, ScanAt
<1>2. PICK a, b, w : NextString(line, S, o, c, j, p, u, a, b, w)
  BY BetweenQuotes, Zenon
<1>3. /\ a \in Nat /\ b \in Nat /\ w \in Seq(Symbol)
      /\ a = o[j + 1] /\ b = c[j + 1] /\ w = S[j + 1] /\ a < p /\ p <= b
      /\ Len(w) = b - a - 1 /\ Len(u) = p - a - 1 /\ \A k \in 1 .. Len(u) : u[k] = w[k]
      /\ p \in Nat /\ j \in Nat /\ Len(line) \in Nat /\ Len(S) \in Nat /\ j + 1 <= Len(S)
      /\ line[b] = Toml!Quote /\ \A k \in 1 .. Len(w) : line[a + k] = w[k]
  BY <1>2 DEF NextString
<1>4. /\ a \in Nat /\ b \in Nat /\ w \in Seq(Symbol)
      /\ a < p /\ p <= b /\ Len(w) = b - a - 1 /\ Len(u) = p - a - 1 /\ p \in Nat /\ Len(line) \in Nat
      /\ j \in Nat /\ Len(S) \in Nat /\ j + 1 <= Len(S)
  BY <1>3, Zenon
<1>5. p = b
  <2>1. CASE p < b
    <3>1. p - a \in 1 .. Len(w) /\ p = a + (p - a)
      BY <1>4, <2>1
    <3>2. line[p] = w[p - a]
      BY <1>3, <3>1
    <3>3. w[p - a] \in Symbol
      BY <1>4, <3>1
    <3> QED BY <3>2, <3>3, NoQuoteInText
  <2> QED BY <1>4, <2>1
<1>6. u = w
  <2>1. Len(w) = Len(u)
    BY <1>3, <1>5
  <2> QED BY <1>1, <1>3, <2>1, SeqEqual
<1>7. ASSUME NEW i \in j + 2 .. Len(S) PROVE o[i] >= p + 1
  <2>1. i \in 1 .. Len(S) /\ j + 1 < i
    BY <1>3
  <2>2. c[j + 1] < o[i]
    BY <1>1, <2>1, Zenon DEF QuotesAt
  <2>3. o[i] \in Nat
    BY <1>1, <2>1, StringAt
  <2> QED BY <1>3, <1>5, <2>2, <2>3
<1>8. ASSUME NEW i \in 1 .. j + 1 PROVE c[i] < p + 1
  <2>1. CASE i = j + 1
    BY <1>3, <1>5, <2>1
  <2>2. CASE i \in 1 .. j
    <3>1. c[i] < p /\ i \in 1 .. Len(S)
      BY <1>1, <1>4, <2>2
    <3>2. c[i] \in Nat
      BY <1>1, <3>1, StringAt
    <3> QED BY <1>4, <3>1, <3>2
  <2> QED BY <1>4, <2>1, <2>2
<1>9. (j + 1) + 1 = j + 2 /\ j + 1 \in 0 .. Len(S) /\ p + 1 \in 1 .. Len(line) + 1
  BY <1>4
<1>10. \A i \in (j + 1) + 1 .. Len(S) : o[i] >= p + 1
  BY <1>7, <1>9, Zenon
<1>11. <<>> \in Seq(Symbol)
  OBVIOUS
<1>12. Outside(line, S, o, c, j + 1, p + 1, <<>>)
  BY <1>1, <1>8, <1>9, <1>10, <1>11, ZenonT(30) DEF Inside, Outside, ScanAt
<1> QED BY <1>1, <1>3, <1>6, <1>12, Zenon

LEMMA ScanQuoted ==
  ASSUME NEW line, NEW S, NEW o, NEW c, NEW j, NEW p, NEW u,
         Inside(line, S, o, c, j, p, u), p <= Len(line), line[p] # Toml!Quote
  PROVE  Inside(line, S, o, c, j, p + 1, Append(u, line[p]))
<1>1. /\ line \in Seq(Lexeme) /\ S \in Seq(Seq(Symbol)) /\ QuotesAt(line, S, o, c)
      /\ j \in 0 .. Len(S) /\ p \in 1 .. Len(line) + 1 /\ u \in Seq(Symbol)
      /\ (\A i \in 1 .. j : c[i] < p) /\ j + 1 \in 1 .. Len(S)
  BY DEF Inside, Outside, ScanAt
<1>2. PICK a, b, w : NextString(line, S, o, c, j, p, u, a, b, w)
  BY BetweenQuotes, Zenon
<1>3. /\ a \in Nat /\ b \in Nat /\ w \in Seq(Symbol)
      /\ a = o[j + 1] /\ b = c[j + 1] /\ w = S[j + 1] /\ a < p /\ p <= b
      /\ Len(w) = b - a - 1 /\ Len(u) = p - a - 1 /\ \A k \in 1 .. Len(u) : u[k] = w[k]
      /\ p \in Nat /\ j \in Nat /\ Len(line) \in Nat /\ Len(S) \in Nat /\ j + 1 <= Len(S)
      /\ line[b] = Toml!Quote /\ \A k \in 1 .. Len(w) : line[a + k] = w[k]
  BY <1>2 DEF NextString
<1>4. /\ a \in Nat /\ b \in Nat /\ w \in Seq(Symbol)
      /\ a < p /\ p <= b /\ Len(w) = b - a - 1 /\ Len(u) = p - a - 1 /\ p \in Nat /\ Len(line) \in Nat
      /\ j \in Nat /\ Len(S) \in Nat /\ j + 1 <= Len(S)
  BY <1>3, Zenon
<1>5. p < b
  <2>1. p # b
    BY <1>3, Zenon
  <2> QED BY <1>4, <2>1
<1> DEFINE k == p - a
<1>6. k \in 1 .. Len(w) /\ p = a + k /\ k = Len(u) + 1
  BY <1>4, <1>5
<1> HIDE DEF k
<1>7. line[p] = w[k] /\ w[k] \in Symbol
  <2>1. w[k] \in Symbol
    BY <1>4, <1>6
  <2>2. line[a + k] = w[k]
    BY <1>3, <1>6, Zenon
  <2> QED BY <1>6, <2>1, <2>2, Zenon
<1> DEFINE v == Append(u, line[p])
<1>8. v \in Seq(Symbol) /\ Len(v) = Len(u) + 1 /\ (\A x \in 1 .. Len(u) : v[x] = u[x]) /\ v[Len(u) + 1] = line[p]
  BY <1>1, <1>7
<1> HIDE DEF v
<1>9. ASSUME NEW x \in 1 .. Len(v) PROVE v[x] = w[x]
  <2>1. CASE x = Len(u) + 1
    BY <1>6, <1>7, <1>8, <2>1
  <2>2. CASE x \in 1 .. Len(u)
    BY <1>3, <1>8, <2>2
  <2>3. Len(u) \in Nat
    BY <1>1
  <2> QED BY <1>8, <2>1, <2>2, <2>3
<1>10. ASSUME NEW i \in 1 .. j PROVE c[i] < p + 1
  <2>1. c[i] < p /\ i \in 1 .. Len(S)
    BY <1>4, <1>1
  <2>2. c[i] \in Nat
    BY <1>1, <2>1, StringAt
  <2> QED BY <1>4, <2>1, <2>2
<1>11. p + 1 \in 1 .. Len(line) + 1 /\ a < p + 1 /\ p + 1 <= b /\ Len(v) = (p + 1) - a - 1
  BY <1>4, <1>5, <1>8
<1>12. /\ o[j + 1] < p + 1 /\ p + 1 <= c[j + 1] /\ Len(v) = (p + 1) - o[j + 1] - 1
       /\ \A x \in 1 .. Len(v) : v[x] = S[j + 1][x]
  BY <1>3, <1>9, <1>11, Zenon
<1>13. Inside(line, S, o, c, j, p + 1, v)
  BY <1>1, <1>8, <1>10, <1>11, <1>12, ZenonT(30) DEF Inside, Outside, ScanAt
<1> QED BY <1>13 DEF v

LEMMA ScanOther ==
  ASSUME NEW line, NEW S, NEW o, NEW c, NEW j, NEW p, NEW u,
         Outside(line, S, o, c, j, p, u), p <= Len(line), line[p] # Toml!Quote
  PROVE  Outside(line, S, o, c, j, p + 1, u)
<1>1. /\ line \in Seq(Lexeme) /\ S \in Seq(Seq(Symbol)) /\ QuotesAt(line, S, o, c)
      /\ j \in 0 .. Len(S) /\ p \in 1 .. Len(line) + 1 /\ u = <<>> /\ u \in Seq(Symbol)
      /\ (\A i \in 1 .. j : c[i] < p) /\ \A i \in j + 1 .. Len(S) : o[i] >= p
  BY DEF Inside, Outside, ScanAt
<1>2. Len(line) \in Nat /\ Len(S) \in Nat /\ j \in Nat /\ p \in Nat
  BY <1>1, LenProperties
<1>3. \A i \in 1 .. Len(S) : o[i] \in Nat /\ c[i] \in Nat /\ line[o[i]] = Toml!Quote
  BY <1>1 DEF QuotesAt
<1>4. \A i \in j + 1 .. Len(S) : o[i] >= p + 1
  <2>1. ASSUME NEW i \in j + 1 .. Len(S) PROVE o[i] >= p + 1
    <3>1. i \in 1 .. Len(S) /\ o[i] >= p /\ o[i] # p /\ o[i] \in Nat
      BY <1>1, <1>2, <1>3
    <3> QED BY <1>2, <3>1
  <2> QED BY <2>1
<1>5. \A i \in 1 .. j : c[i] < p + 1
  <2>1. \A i \in 1 .. j : c[i] \in Nat /\ c[i] < p
    BY <1>1, <1>2, <1>3
  <2> QED BY <1>2, <2>1
<1>6. p + 1 \in 1 .. Len(line) + 1
  BY <1>2
<1> QED BY <1>1, <1>4, <1>5, <1>6, ZenonT(30) DEF Inside, Outside, ScanAt

LEMMA ScanEnd ==
  ASSUME NEW line, NEW S, NEW o, NEW c, NEW j, NEW p, NEW u,
         Inside(line, S, o, c, j, p, u) \/ Outside(line, S, o, c, j, p, u), p > Len(line)
  PROVE  j = Len(S) /\ Outside(line, S, o, c, j, p, u)
<1>1. /\ line \in Seq(Lexeme) /\ S \in Seq(Seq(Symbol)) /\ QuotesAt(line, S, o, c)
      /\ j \in 0 .. Len(S) /\ p \in 1 .. Len(line) + 1
  BY DEF Inside, Outside, ScanAt
<1>2. Len(line) \in Nat /\ Len(S) \in Nat /\ j \in Nat /\ p \in Nat
  BY <1>1, LenProperties
<1>3. \A i \in 1 .. Len(S) : o[i] \in 1 .. Len(line) /\ c[i] \in 1 .. Len(line)
  BY <1>1 DEF QuotesAt
<1>4. ~Inside(line, S, o, c, j, p, u)
  <2>1. SUFFICES ASSUME j + 1 \in 1 .. Len(S), p <= c[j + 1] PROVE FALSE
    BY DEF Inside
  <2> QED BY <1>1, <1>2, <1>3, <2>1
<1>5. CASE j < Len(S)
  <2>1. j + 1 \in 1 .. Len(S) /\ j + 1 \in j + 1 .. Len(S)
    BY <1>2, <1>5
  <2>2. o[j + 1] >= p
    BY <1>4, <2>1 DEF Outside
  <2> QED BY <1>1, <1>2, <1>3, <2>1, <2>2
<1> QED BY <1>1, <1>2, <1>4, <1>5

LEMMA SubSeqEmptyOf == ASSUME NEW Y, NEW S \in Seq(Y) PROVE SubSeq(S, 1, 0) = <<>>
OBVIOUS

LEMMA WholeSubSeq == ASSUME NEW Y, NEW S \in Seq(Y) PROVE SubSeq(S, 1, Len(S)) = S
OBVIOUS

LEMMA SubSeqGrows ==
  ASSUME NEW Y, NEW S \in Seq(Y), NEW j \in 0 .. Len(S), j + 1 \in 1 .. Len(S)
  PROVE  SubSeq(S, 1, j) \in Seq(Y) /\ S[j + 1] \in Y /\ SubSeq(S, 1, j + 1) = Append(SubSeq(S, 1, j), S[j + 1])
OBVIOUS

LEMMA ExtendedLast ==
  ASSUME NEW Y, NEW s \in Seq(Y), NEW t \in Seq(Y), NEW e \in Y
  PROVE  Extended(Glued(s, t), e) = Glued(s, Extended(t, e))
BY DEF Extended, Glued

LEMMA AppendedMore ==
  ASSUME NEW Y, NEW g \in Seq(Y), NEW S \in Seq(Y), NEW j \in 0 .. Len(S), j + 1 \in 1 .. Len(S)
  PROVE  Append(g \o SubSeq(S, 1, j), S[j + 1]) = g \o SubSeq(S, 1, j + 1)
<1> DEFINE P == SubSeq(S, 1, j)
           T == SubSeq(S, 1, j + 1)
           w == S[j + 1]
<1>1. P \in Seq(Y) /\ w \in Y
  BY SubSeqGrows
<1>2. T = Extended(P, w)
  BY SubSeqGrows DEF Extended
<1> HIDE DEF P, T, w
<1>3. Extended(Glued(g, P), w) = Glued(g, Extended(P, w))
  BY <1>1, ExtendedLast
<1>4. Extended(Glued(g, P), w) = Glued(g, T)
  BY <1>2, <1>3
<1> QED BY <1>4 DEF Extended, Glued, P, T, w

\* Within a line that takes the result from g to f, in a string or outside; res is the
\* result by now.
MidIn(line, g, f, p, u, res) ==
  \E S, o, c, j : /\ S \in Seq(Seq(Symbol)) /\ j \in 0 .. Len(S) /\ f = g \o S /\ res = g \o SubSeq(S, 1, j)
                  /\ Inside(line, S, o, c, j, p, u)
MidOut(line, g, f, p, u, res) ==
  \E S, o, c, j : /\ S \in Seq(Seq(Symbol)) /\ j \in 0 .. Len(S) /\ f = g \o S /\ res = g \o SubSeq(S, 1, j)
                  /\ Outside(line, S, o, c, j, p, u)
MidLine(line, g, f, p, q, u, res) == IF q THEN MidIn(line, g, f, p, u, res) ELSE MidOut(line, g, f, p, u, res)

LEMMA MidStart ==
  ASSUME NEW line, NEW S, Holds(line, S), NEW g \in Seq(Seq(Symbol)), NEW u, u = <<>>
  PROVE  MidOut(line, g, g \o S, 1, u, g)
<1>1. PICK o, c : Outside(line, S, o, c, 0, 1, <<>>)
  BY ScanStart
<1>2. S \in Seq(Seq(Symbol))
  BY DEF Holds
<1>3. 0 \in 0 .. Len(S)
  BY <1>2, LenProperties
<1>4. g = g \o SubSeq(S, 1, 0)
  <2> DEFINE Y == Seq(Symbol)
  <2>1. g \in Seq(Y) /\ S \in Seq(Y)
    BY <1>2
  <2> HIDE DEF Y
  <2>2. SubSeq(S, 1, 0) = <<>>
    BY <2>1, SubSeqEmptyOf
  <2>3. g \o <<>> = g
    BY <2>1
  <2> QED BY <2>2, <2>3
<1>5. Outside(line, S, o, c, 0, 1, u)
  BY <1>1
<1> QED BY <1>2, <1>3, <1>4, <1>5, Zenon DEF MidOut

LEMMA MidTypes ==
  ASSUME NEW line, NEW g \in Seq(Seq(Symbol)), NEW f, NEW p, NEW u, NEW res, MidIn(line, g, f, p, u, res) \/ MidOut(line, g, f, p, u, res)
  PROVE  p \in Nat \ {0} /\ u \in Seq(Symbol) /\ res \in Seq(Seq(Symbol)) /\ ToSet(res) \subseteq ToSet(f)
<1>1. PICK S, o, c, j :
        /\ S \in Seq(Seq(Symbol)) /\ j \in 0 .. Len(S) /\ f = g \o S /\ res = g \o SubSeq(S, 1, j)
        /\ Inside(line, S, o, c, j, p, u) \/ Outside(line, S, o, c, j, p, u)
  BY Zenon DEF MidIn, MidOut
<1>2. ScanAt(line, S, o, c, j, p, u)
  BY <1>1, Zenon DEF Inside, Outside
<1>3. line \in Seq(Lexeme) /\ p \in 1 .. Len(line) + 1 /\ u \in Seq(Symbol)
  BY <1>2, Zenon DEF ScanAt
<1>4. p \in Nat \ {0}
  BY <1>3, LenProperties
<1> DEFINE Y == Seq(Symbol)
           P == SubSeq(S, 1, j)
<1>5. g \in Seq(Y) /\ S \in Seq(Y) /\ j \in 0 .. Len(S)
  BY <1>1
<1> HIDE DEF Y
<1>6. P \in Seq(Y) /\ ToSet(P) \subseteq ToSet(S)
  <2>1. /\ P \in Seq(Y) /\ Len(P) = j /\ Len(S) \in Nat /\ DOMAIN P = 1 .. j /\ DOMAIN S = 1 .. Len(S)
        /\ \A i \in 1 .. j : i \in 1 .. Len(S) /\ P[i] = S[i]
    BY <1>5
  <2> QED BY <2>1 DEF ToSet
<1> HIDE DEF P
<1>7. /\ g \o P \in Seq(Y) /\ ToSet(g \o P) = ToSet(g) \cup ToSet(P)
      /\ ToSet(g \o S) = ToSet(g) \cup ToSet(S)
  BY <1>5, <1>6, ToSetConcat, ConcatProperties
<1>8. res = g \o P /\ f = g \o S
  BY <1>1 DEF P
<1>9. res \in Seq(Y) /\ ToSet(res) \subseteq ToSet(f)
  BY <1>6, <1>7, <1>8
<1> QED BY <1>3, <1>4, <1>9 DEF Y

\* Past the next lexeme of a line.
LEMMA MidOpen ==
  ASSUME NEW line, NEW g, NEW f, NEW p, NEW u, NEW res, MidOut(line, g, f, p, u, res),
         p <= Len(line), line[p] = Toml!Quote
  PROVE  MidIn(line, g, f, p + 1, u, res)
<1>1. PICK S, o, c, j :
        /\ S \in Seq(Seq(Symbol)) /\ j \in 0 .. Len(S) /\ f = g \o S /\ res = g \o SubSeq(S, 1, j)
        /\ Outside(line, S, o, c, j, p, u)
  BY Zenon DEF MidOut
<1>2. Inside(line, S, o, c, j, p + 1, u)
  BY <1>1, ScanOpen, Zenon
<1> QED BY <1>1, <1>2, Zenon DEF MidIn

LEMMA MidClose ==
  ASSUME NEW line, NEW g \in Seq(Seq(Symbol)), NEW f, NEW p, NEW u, NEW res, MidIn(line, g, f, p, u, res),
         p <= Len(line), line[p] = Toml!Quote, NEW v, v = <<>>
  PROVE  MidOut(line, g, f, p + 1, v, Append(res, u))
<1>1. PICK S, o, c, j :
        /\ S \in Seq(Seq(Symbol)) /\ j \in 0 .. Len(S) /\ f = g \o S /\ res = g \o SubSeq(S, 1, j)
        /\ Inside(line, S, o, c, j, p, u)
  BY Zenon DEF MidIn
<1>2. Outside(line, S, o, c, j + 1, p + 1, <<>>) /\ j + 1 \in 1 .. Len(S) /\ u = S[j + 1]
  <2>1. Inside(line, S, o, c, j, p, u)
    BY <1>1
  <2> QED BY <2>1, ScanClose
<1>3. j + 1 \in 0 .. Len(S)
  <2>1. Len(S) \in Nat
    BY <1>1, LenProperties
  <2> QED BY <1>2, <2>1
<1>4. Append(res, u) = g \o SubSeq(S, 1, j + 1)
  <2> DEFINE Y == Seq(Symbol)
  <2>1. g \in Seq(Y) /\ S \in Seq(Y) /\ j \in 0 .. Len(S) /\ j + 1 \in 1 .. Len(S)
    BY <1>1, <1>2
  <2> HIDE DEF Y
  <2>2. Append(g \o SubSeq(S, 1, j), S[j + 1]) = g \o SubSeq(S, 1, j + 1)
    BY <2>1, AppendedMore
  <2>3. res = g \o SubSeq(S, 1, j) /\ u = S[j + 1]
    BY <1>1, <1>2
  <2> QED BY <2>2, <2>3, Zenon
<1>5. Outside(line, S, o, c, j + 1, p + 1, v)
  BY <1>2
<1> QED BY <1>1, <1>3, <1>4, <1>5, Zenon DEF MidOut

LEMMA MidQuoted ==
  ASSUME NEW line, NEW g, NEW f, NEW p, NEW u, NEW res, MidIn(line, g, f, p, u, res),
         p <= Len(line), line[p] # Toml!Quote
  PROVE  MidIn(line, g, f, p + 1, Append(u, line[p]), res)
<1>1. PICK S, o, c, j :
        /\ S \in Seq(Seq(Symbol)) /\ j \in 0 .. Len(S) /\ f = g \o S /\ res = g \o SubSeq(S, 1, j)
        /\ Inside(line, S, o, c, j, p, u)
  BY Zenon DEF MidIn
<1>2. Inside(line, S, o, c, j, p + 1, Append(u, line[p]))
  BY <1>1, ScanQuoted, Zenon
<1> QED BY <1>1, <1>2, Zenon DEF MidIn

LEMMA MidOther ==
  ASSUME NEW line, NEW g, NEW f, NEW p, NEW u, NEW res, MidOut(line, g, f, p, u, res),
         p <= Len(line), line[p] # Toml!Quote
  PROVE  MidOut(line, g, f, p + 1, u, res)
<1>1. PICK S, o, c, j :
        /\ S \in Seq(Seq(Symbol)) /\ j \in 0 .. Len(S) /\ f = g \o S /\ res = g \o SubSeq(S, 1, j)
        /\ Outside(line, S, o, c, j, p, u)
  BY Zenon DEF MidOut
<1>2. Outside(line, S, o, c, j, p + 1, u)
  BY <1>1, ScanOther, Zenon
<1> QED BY <1>1, <1>2, Zenon DEF MidOut

LEMMA MidEnd ==
  ASSUME NEW line, NEW g, NEW f, NEW p, NEW u, NEW res, MidIn(line, g, f, p, u, res) \/ MidOut(line, g, f, p, u, res), p > Len(line)
  PROVE  res = f
<1>1. PICK S, o, c, j :
        /\ S \in Seq(Seq(Symbol)) /\ j \in 0 .. Len(S) /\ f = g \o S /\ res = g \o SubSeq(S, 1, j)
        /\ Inside(line, S, o, c, j, p, u) \/ Outside(line, S, o, c, j, p, u)
  BY Zenon DEF MidIn, MidOut
<1>2. j = Len(S)
  BY <1>1, ScanEnd, Zenon
<1>3. SubSeq(S, 1, Len(S)) = S
  <2> DEFINE Y == Seq(Symbol)
  <2>1. S \in Seq(Y)
    BY <1>1
  <2> HIDE DEF Y
  <2> QED BY <2>1, WholeSubSeq
<1> QED BY <1>1, <1>2, <1>3, Zenon

-----------------------------------------------------------------------------
\* The lines say what the author means: hot[r] and got[r] are what the reader has come
\* to before the r-th line.
Meaning(T, d, readable, hot, got) ==
  /\ T \in Seq(Seq(Lexeme))
  /\ \E R, b : /\ ReadBy(T, FALSE, R, b, hot, got)
               /\ PlainDocument(d) => ToSet(R) \subseteq ToSet(MeantBy(d))
               /\ readable /\ OneLineDocument(d) => R = MeantBy(d)

\* The reader is before or within the r-th line.
ReaderAt(T, hot, got, r, p, h, q, u, res) ==
  /\ r \in 1 .. Len(T) + 1 /\ h = hot[r]
  /\ \/ p = 0 /\ res = got[r]
     \/ p # 0 /\ r <= Len(T) /\ hot[r + 1] = hot[r] /\ MidLine(T[r], got[r], got[r + 1], p, q, u, res)

ReadingInv ==
  /\ document \in Seq(Toml!Table) /\ found \in BOOLEAN
  /\ inQuote \in BOOLEAN /\ cur \in Seq(Symbol)
  /\ \E hot, got : /\ Meaning(text, document, found, hot, got)
                   /\ ReaderAt(text, hot, got, row, col, inHotfix, inQuote, cur, result)

LEMMA LastLineMeans ==
  ASSUME NEW T, NEW d, NEW readable, NEW hot, NEW got, Meaning(T, d, readable, hot, got)
  PROVE  readable /\ OneLineDocument(d) => got[Len(T) + 1] = MeantBy(d)
<1>1. PICK R, b : /\ ReadBy(T, FALSE, R, b, hot, got)
                  /\ readable /\ OneLineDocument(d) => R = MeantBy(d)
  BY Zenon DEF Meaning
<1>2. got[Len(T) + 1] = R
  BY <1>1, Zenon DEF ReadBy
<1> QED BY <1>1, <1>2, Zenon

LEMMA LinesMean ==
  ASSUME NEW T, NEW d, NEW readable, NEW hot, NEW got, Meaning(T, d, readable, hot, got)
  PROVE  /\ T \in Seq(Seq(Lexeme)) /\ Len(T) \in Nat
         /\ \A r \in 1 .. Len(T) + 1 :
              /\ hot[r] \in BOOLEAN /\ got[r] \in Seq(Seq(Symbol))
              /\ PlainDocument(d) => ToSet(got[r]) \subseteq ToSet(MeantBy(d))
         /\ \A r \in 1 .. Len(T) : LineRead(T[r], hot[r], got[r], hot[r + 1], got[r + 1])
         /\ readable /\ OneLineDocument(d) => got[Len(T) + 1] = MeantBy(d)
<1>1. T \in Seq(Seq(Lexeme))
  BY Zenon DEF Meaning
<1>2. PICK R, b : /\ ReadBy(T, FALSE, R, b, hot, got)
                  /\ PlainDocument(d) => ToSet(R) \subseteq ToSet(MeantBy(d))
                  /\ readable /\ OneLineDocument(d) => R = MeantBy(d)
  BY Zenon DEF Meaning
<1>3. /\ got[Len(T) + 1] = R
      /\ \A r \in 1 .. Len(T) + 1 :
           hot[r] \in BOOLEAN /\ got[r] \in Seq(Seq(Symbol)) /\ ToSet(got[r]) \subseteq ToSet(R)
      /\ \A r \in 1 .. Len(T) : LineRead(T[r], hot[r], got[r], hot[r + 1], got[r + 1])
  BY <1>2, Zenon DEF ReadBy
<1>4. Len(T) \in Nat
  BY <1>1, LenProperties
<1>5. PlainDocument(d) => \A r \in 1 .. Len(T) + 1 : ToSet(got[r]) \subseteq ToSet(MeantBy(d))
  <2>1. SUFFICES ASSUME PlainDocument(d), NEW r \in 1 .. Len(T) + 1 PROVE ToSet(got[r]) \subseteq ToSet(MeantBy(d))
    OBVIOUS
  <2>2. ToSet(got[r]) \subseteq ToSet(R) /\ ToSet(R) \subseteq ToSet(MeantBy(d))
    BY <1>2, <1>3, <2>1, Zenon
  <2> QED BY <2>2
<1>6. readable /\ OneLineDocument(d) => got[Len(T) + 1] = MeantBy(d)
  BY <1>2, <1>3, Zenon
<1> QED BY <1>1, <1>3, <1>4, <1>5, <1>6, Zenon

LEMMA ReadingStarts == EntryPointInit => ReadingInv
<1>1. SUFFICES ASSUME EntryPointInit PROVE ReadingInv
  OBVIOUS
<1>2. PICK c \in Compilation : Toml!InitOn(c.document, c.found)
  BY <1>1 DEF EntryPointInit
<1>3. /\ document \in Seq(Toml!Table) /\ found \in BOOLEAN /\ text = Toml!ReadFileText(document)
      /\ row = 1 /\ col = 0 /\ inHotfix = FALSE /\ inQuote = FALSE /\ cur = <<>> /\ result = <<>>
  BY <1>2, EntryPointAssumption DEF Toml!InitOn
<1>4. \E hot, got : Meaning(text, document, found, hot, got) /\ hot[1] = FALSE /\ got[1] = <<>>
  <2>1. CASE found
    <3>1. PICK R, b : /\ Reads(Toml!Lines(document), FALSE, R, b)
                      /\ PlainDocument(document) => ToSet(R) \subseteq ToSet(MeantBy(document))
                      /\ OneLineDocument(document) => R = MeantBy(document)
      BY <1>3, ReadsDocument
    <3>2. text = Toml!Lines(document)
      BY <1>3, <2>1 DEF Toml!ReadFileText
    <3>3. text \in Seq(Seq(Lexeme)) /\ \E hot, got : ReadBy(text, FALSE, R, b, hot, got)
      BY <3>1, <3>2 DEF Reads
    <3>4. PICK hot, got : ReadBy(text, FALSE, R, b, hot, got)
      BY <3>3
    <3>5. hot[1] = FALSE /\ got[1] = <<>>
      BY <3>4 DEF ReadBy
    <3>6. Meaning(text, document, found, hot, got)
      BY <3>1, <3>3, <3>4 DEF Meaning
    <3> QED BY <3>5, <3>6
  <2>2. CASE ~found
    <3>1. Reads(<<>>, FALSE, <<>>, FALSE)
      BY ReadsNothing
    <3>2. text = <<>>
      BY <1>3, <2>2 DEF Toml!ReadFileText
    <3>3. text \in Seq(Seq(Lexeme)) /\ \E hot, got : ReadBy(text, FALSE, <<>>, FALSE, hot, got)
      BY <3>1, <3>2 DEF Reads
    <3>4. PICK hot, got : ReadBy(text, FALSE, <<>>, FALSE, hot, got)
      BY <3>3
    <3>5. hot[1] = FALSE /\ got[1] = <<>>
      BY <3>4 DEF ReadBy
    <3>6. ToSet(<<>>) = {}
      BY DEF ToSet
    <3>7. Meaning(text, document, found, hot, got)
      BY <2>2, <3>3, <3>4, <3>6 DEF Meaning
    <3> QED BY <3>5, <3>7
  <2> QED BY <1>3, <2>1, <2>2
<1>5. PICK hot, got : Meaning(text, document, found, hot, got) /\ hot[1] = FALSE /\ got[1] = <<>>
  BY <1>4
<1>6. Len(text) \in Nat
  BY <1>5, LinesMean
<1>7. 1 \in 1 .. Len(text) + 1
  BY <1>6
<1>8. ReaderAt(text, hot, got, row, col, inHotfix, inQuote, cur, result)
  BY <1>3, <1>5, <1>7 DEF ReaderAt
<1>9. cur \in Seq(Symbol) /\ inQuote \in BOOLEAN
  <2>1. <<>> \in Seq(Symbol) /\ FALSE \in BOOLEAN
    OBVIOUS
  <2> QED BY <1>3, <2>1, Zenon
<1> QED BY <1>3, <1>5, <1>8, <1>9 DEF ReadingInv

\* Each step of the reader, by what it does with a line.
LEMMA ReadingOn ==
  ASSUME ReadingInv, UNCHANGED <<document, found, text>>, inQuote' \in BOOLEAN, cur' \in Seq(Symbol),
         NEW hot, NEW got, Meaning(text, document, found, hot, got),
         ReaderAt(text, hot, got, row', col', inHotfix', inQuote', cur', result')
  PROVE  ReadingInv'
<1>1. document' \in Seq(Toml!Table) /\ found' \in BOOLEAN
  BY DEF ReadingInv
<1>2. text' = text /\ document' = document /\ found' = found
  OBVIOUS
<1>3. /\ Meaning(text', document', found', hot, got)
      /\ ReaderAt(text', hot, got, row', col', inHotfix', inQuote', cur', result')
  BY <1>2
<1> QED BY <1>1, <1>3 DEF ReadingInv

LEMMA ReadingAtLine ==
  ASSUME NEW hot, NEW got, Meaning(text, document, found, hot, got), Toml!AtLine,
         ReaderAt(text, hot, got, row, col, inHotfix, inQuote, cur, result)
  PROVE  /\ row \in 1 .. Len(text) /\ row \in Nat /\ Len(text) \in Nat /\ text[row] \in Seq(Lexeme)
         /\ inHotfix = hot[row] /\ result = got[row] /\ row + 1 \in 1 .. Len(text) + 1
         /\ got[row] \in Seq(Seq(Symbol)) /\ inHotfix \in BOOLEAN
         /\ LineRead(text[row], hot[row], got[row], hot[row + 1], got[row + 1])
<1>1. /\ text \in Seq(Seq(Lexeme)) /\ Len(text) \in Nat
      /\ \A r \in 1 .. Len(text) + 1 : hot[r] \in BOOLEAN /\ got[r] \in Seq(Seq(Symbol))
      /\ \A r \in 1 .. Len(text) : LineRead(text[r], hot[r], got[r], hot[r + 1], got[r + 1])
  BY LinesMean, Zenon
<1>2. row \in 1 .. Len(text) + 1 /\ inHotfix = hot[row] /\ row <= Len(text) /\ result = got[row]
  BY DEF ReaderAt, Toml!AtLine
<1>3. row \in 1 .. Len(text) /\ row \in Nat /\ row + 1 \in 1 .. Len(text) + 1
  BY <1>1, <1>2
<1>4. text[row] \in Seq(Lexeme)
  <2> DEFINE Y == Seq(Lexeme)
  <2>1. text \in Seq(Y)
    BY <1>1
  <2> HIDE DEF Y
  <2>2. text[row] \in Y
    BY <1>3, <2>1, ElementOf
  <2> QED BY <2>2 DEF Y
<1> QED BY <1>1, <1>2, <1>3, <1>4, Zenon

LEMMA HeaderLineStep == ASSUME ReadingInv, Toml!HeaderLine PROVE ReadingInv'
<1>1. PICK hot, got : /\ Meaning(text, document, found, hot, got)
                      /\ ReaderAt(text, hot, got, row, col, inHotfix, inQuote, cur, result)
  BY DEF ReadingInv
<1>2. /\ Toml!AtLine /\ Begins(text[row], HeaderStart) /\ inHotfix' = (text[row] = <<"[hotfix]">>) /\ row' = row + 1
      /\ UNCHANGED <<document, found, text, col, inQuote, cur, result>>
  BY DEF Toml!HeaderLine, Toml!IsHeader, Toml!StartsWith, Toml!Line, Begins, HeaderStart
<1>3. /\ row + 1 \in 1 .. Len(text) + 1 /\ result = got[row]
      /\ LineRead(text[row], hot[row], got[row], hot[row + 1], got[row + 1])
  BY <1>1, <1>2, ReadingAtLine
<1>4. hot[row + 1] = (text[row] = <<"[hotfix]">>) /\ got[row + 1] = got[row]
  BY <1>2, <1>3, Zenon DEF LineRead
<1>5. col = 0
  BY <1>2 DEF Toml!AtLine
<1>6. row' \in 1 .. Len(text) + 1 /\ inHotfix' = hot[row'] /\ col' = 0 /\ result' = got[row']
  <2>1. row' \in 1 .. Len(text) + 1 /\ col' = 0
    BY <1>2, <1>3, <1>5
  <2>2. inHotfix' = hot[row + 1]
    BY <1>2, <1>4, Zenon
  <2>3. result' = got[row + 1]
    BY <1>2, <1>3, <1>4, Zenon
  <2> QED BY <1>2, <2>1, <2>2, <2>3, Zenon
<1>7. ReaderAt(text, hot, got, row', col', inHotfix', inQuote', cur', result')
  BY <1>6, Zenon DEF ReaderAt
<1>8. inQuote' \in BOOLEAN /\ cur' \in Seq(Symbol) /\ UNCHANGED <<document, found, text>>
  BY <1>2 DEF ReadingInv
<1> QED BY <1>1, <1>7, <1>8, ReadingOn

LEMMA OtherLineStep == ASSUME ReadingInv, Toml!OtherLine PROVE ReadingInv'
<1>1. PICK hot, got : /\ Meaning(text, document, found, hot, got)
                      /\ ReaderAt(text, hot, got, row, col, inHotfix, inQuote, cur, result)
  BY DEF ReadingInv
<1>2. /\ Toml!AtLine /\ ~Begins(text[row], HeaderStart) /\ ~(inHotfix /\ Begins(text[row], DirectiveStart))
      /\ row' = row + 1 /\ UNCHANGED <<document, found, text, col, inHotfix, inQuote, cur, result>>
  BY DEF Toml!OtherLine, Toml!IsHeader, Toml!IsDirective, Toml!StartsWith, Toml!Line, Begins, HeaderStart, DirectiveStart
<1>3. /\ row + 1 \in 1 .. Len(text) + 1 /\ result = got[row] /\ inHotfix = hot[row]
      /\ LineRead(text[row], hot[row], got[row], hot[row + 1], got[row + 1])
  BY <1>1, <1>2, ReadingAtLine
<1>4. hot[row + 1] = hot[row] /\ got[row + 1] = got[row]
  BY <1>2, <1>3, Zenon DEF LineRead
<1>5. row' \in 1 .. Len(text) + 1 /\ inHotfix' = hot[row'] /\ col' = 0 /\ result' = got[row']
  BY <1>2, <1>3, <1>4 DEF Toml!AtLine
<1>6. ReaderAt(text, hot, got, row', col', inHotfix', inQuote', cur', result')
  BY <1>5, Zenon DEF ReaderAt
<1>7. inQuote' \in BOOLEAN /\ cur' \in Seq(Symbol) /\ UNCHANGED <<document, found, text>>
  BY <1>2 DEF ReadingInv
<1> QED BY <1>1, <1>6, <1>7, ReadingOn

LEMMA DirectiveLineStep == ASSUME ReadingInv, Toml!DirectiveLine PROVE ReadingInv'
<1>1. PICK hot, got : /\ Meaning(text, document, found, hot, got)
                      /\ ReaderAt(text, hot, got, row, col, inHotfix, inQuote, cur, result)
  BY DEF ReadingInv
<1>2. /\ Toml!AtLine /\ ~Begins(text[row], HeaderStart) /\ inHotfix /\ Begins(text[row], DirectiveStart)
      /\ col' = 1 /\ ~inQuote' /\ inQuote' = FALSE /\ cur' = <<>>
      /\ UNCHANGED <<document, found, text, row, inHotfix, result>>
  BY DEF Toml!DirectiveLine, Toml!IsHeader, Toml!IsDirective, Toml!StartsWith, Toml!Line, Begins, HeaderStart, DirectiveStart
<1>3. /\ row \in 1 .. Len(text) /\ row \in Nat /\ Len(text) \in Nat /\ result = got[row] /\ inHotfix = hot[row]
      /\ got[row] \in Seq(Seq(Symbol))
      /\ LineRead(text[row], hot[row], got[row], hot[row + 1], got[row + 1])
  BY <1>1, <1>2, ReadingAtLine
<1>4. hot[row + 1] = hot[row] /\ \E S : Holds(text[row], S) /\ got[row + 1] = got[row] \o S
  BY <1>2, <1>3, Zenon DEF LineRead
<1>5. PICK S : Holds(text[row], S) /\ got[row + 1] = got[row] \o S
  BY <1>4
<1>6. MidOut(text[row], got[row], got[row] \o S, 1, cur', got[row])
  BY <1>2, <1>3, <1>5, MidStart
<1>7. MidLine(text[row], got[row], got[row + 1], col', inQuote', cur', result')
  BY <1>2, <1>3, <1>5, <1>6 DEF MidLine
<1>8. row \in 1 .. Len(text) + 1 /\ row <= Len(text) /\ col' # 0
  BY <1>2, <1>3
<1>9. ReaderAt(text, hot, got, row, col', inHotfix, inQuote', cur', result')
  BY <1>3, <1>4, <1>7, <1>8, Zenon DEF ReaderAt
<1>10. ReaderAt(text, hot, got, row', col', inHotfix', inQuote', cur', result')
  BY <1>2, <1>9
<1>11. inQuote' \in BOOLEAN /\ cur' \in Seq(Symbol) /\ UNCHANGED <<document, found, text>>
  <2>1. <<>> \in Seq(Symbol) /\ FALSE \in BOOLEAN
    OBVIOUS
  <2>2. UNCHANGED <<document, found, text>>
    BY <1>2
  <2> QED BY <1>2, <2>1, <2>2, Zenon
<1> QED BY <1>1, <1>10, <1>11, ReadingOn

\* Within a line.
LEMMA ReadingAtRune ==
  ASSUME NEW hot, NEW got, Meaning(text, document, found, hot, got), col > 0,
         ReaderAt(text, hot, got, row, col, inHotfix, inQuote, cur, result)
  PROVE  /\ row \in 1 .. Len(text) /\ row + 1 \in 1 .. Len(text) + 1 /\ col \in Nat \ {0}
         /\ inHotfix = hot[row] /\ hot[row + 1] = hot[row] /\ got[row] \in Seq(Seq(Symbol))
         /\ MidLine(text[row], got[row], got[row + 1], col, inQuote, cur, result)
<1>1. /\ Len(text) \in Nat /\ \A r \in 1 .. Len(text) + 1 : got[r] \in Seq(Seq(Symbol))
  BY LinesMean, Zenon
<1>2. col # 0
  OBVIOUS
<1>3. /\ row \in 1 .. Len(text) + 1 /\ inHotfix = hot[row] /\ row <= Len(text) /\ hot[row + 1] = hot[row]
      /\ MidLine(text[row], got[row], got[row + 1], col, inQuote, cur, result)
  BY <1>2, Zenon DEF ReaderAt
<1>4. row \in 1 .. Len(text) /\ row + 1 \in 1 .. Len(text) + 1
  BY <1>1, <1>3
<1>5. got[row] \in Seq(Seq(Symbol))
  BY <1>1, <1>3
<1>6. col \in Nat \ {0}
  BY <1>3, <1>5, MidTypes DEF MidLine
<1> QED BY <1>3, <1>4, <1>5, <1>6, Zenon

LEMMA MovedOn ==
  ASSUME ReadingInv, UNCHANGED <<document, found, text, row, inHotfix>>, inQuote' \in BOOLEAN, col' \in Nat \ {0},
         NEW hot, NEW got, Meaning(text, document, found, hot, got), row \in 1 .. Len(text),
         inHotfix = hot[row], hot[row + 1] = hot[row], got[row] \in Seq(Seq(Symbol)),
         MidLine(text[row], got[row], got[row + 1], col', inQuote', cur', result')
  PROVE  ReadingInv'
<1>1. Len(text) \in Nat
  BY LinesMean
<1>2. row \in 1 .. Len(text) + 1 /\ row <= Len(text) /\ col' # 0
  BY <1>1
<1>3. ReaderAt(text, hot, got, row, col', inHotfix, inQuote', cur', result')
  BY <1>2, Zenon DEF ReaderAt
<1>4. row' = row /\ inHotfix' = inHotfix
  OBVIOUS
<1>5. ReaderAt(text, hot, got, row', col', inHotfix', inQuote', cur', result')
  BY <1>3, <1>4
<1>6. cur' \in Seq(Symbol)
  BY MidTypes DEF MidLine
<1> QED BY <1>5, <1>6, ReadingOn

LEMMA RuneStep ==
  ASSUME ReadingInv, Toml!OpenQuote \/ Toml!CloseQuote \/ Toml!QuotedRune \/ Toml!OtherRune
  PROVE  ReadingInv'
<1>1. PICK hot, got : /\ Meaning(text, document, found, hot, got)
                      /\ ReaderAt(text, hot, got, row, col, inHotfix, inQuote, cur, result)
  BY DEF ReadingInv
<1>2. /\ col > 0 /\ col <= Len(text[row]) /\ col' = col + 1
      /\ UNCHANGED <<document, found, text, row, inHotfix>>
  BY DEF Toml!OpenQuote, Toml!CloseQuote, Toml!QuotedRune, Toml!OtherRune, Toml!AtRune, Toml!Line, Toml!Scanned
<1>3. /\ row \in 1 .. Len(text) /\ col \in Nat \ {0}
      /\ inHotfix = hot[row] /\ hot[row + 1] = hot[row] /\ got[row] \in Seq(Seq(Symbol))
      /\ MidLine(text[row], got[row], got[row + 1], col, inQuote, cur, result)
  BY <1>1, <1>2, ReadingAtRune
<1>4. col' \in Nat \ {0}
  BY <1>2, <1>3
<1>5. inQuote' \in BOOLEAN /\ MidLine(text[row], got[row], got[row + 1], col + 1, inQuote', cur', result')
  <2> DEFINE line == text[row]
             g == got[row]
             f == got[row + 1]
  <2>0. g \in Seq(Seq(Symbol)) /\ col <= Len(line) /\ (inQuote => MidIn(line, g, f, col, cur, result))
        /\ (~inQuote => MidOut(line, g, f, col, cur, result)) /\ inQuote \in BOOLEAN
    BY <1>2, <1>3 DEF MidLine, ReadingInv
  <2>1. CASE Toml!OpenQuote
    <3>1. line[col] = Toml!Quote /\ ~inQuote /\ inQuote' = TRUE /\ cur' = cur /\ result' = result
      BY <2>1 DEF Toml!OpenQuote, Toml!AtRune, Toml!Rune, Toml!Line
    <3> HIDE DEF line, g, f
    <3>2. MidIn(line, g, f, col + 1, cur, result)
      BY <2>0, <3>1, MidOpen
    <3> QED BY <3>1, <3>2 DEF MidLine, line, g, f
  <2>2. CASE Toml!CloseQuote
    <3>1. line[col] = Toml!Quote /\ inQuote /\ inQuote' = FALSE /\ cur' = <<>> /\ result' = Append(result, cur)
      BY <2>2 DEF Toml!CloseQuote, Toml!AtRune, Toml!Rune, Toml!Line
    <3> HIDE DEF line, g, f
    <3>2. MidOut(line, g, f, col + 1, cur', Append(result, cur))
      BY <2>0, <3>1, MidClose
    <3> QED BY <3>1, <3>2 DEF MidLine, line, g, f
  <2>3. CASE Toml!QuotedRune
    <3>1. /\ line[col] # Toml!Quote /\ inQuote /\ inQuote' = inQuote
          /\ cur' = Append(cur, line[col]) /\ result' = result
      BY <2>3 DEF Toml!QuotedRune, Toml!AtRune, Toml!Rune, Toml!Line
    <3> HIDE DEF line, g, f
    <3>2. MidIn(line, g, f, col + 1, Append(cur, line[col]), result)
      BY <2>0, <3>1, MidQuoted
    <3> QED BY <2>0, <3>1, <3>2 DEF MidLine, line, g, f
  <2>4. CASE Toml!OtherRune
    <3>1. line[col] # Toml!Quote /\ ~inQuote /\ inQuote' = inQuote /\ cur' = cur /\ result' = result
      BY <2>4 DEF Toml!OtherRune, Toml!AtRune, Toml!Rune, Toml!Line
    <3> HIDE DEF line, g, f
    <3>2. MidOut(line, g, f, col + 1, cur, result)
      BY <2>0, <3>1, MidOther
    <3> QED BY <2>0, <3>1, <3>2 DEF MidLine, line, g, f
  <2> QED BY <2>1, <2>2, <2>3, <2>4
<1>6. MidLine(text[row], got[row], got[row + 1], col', inQuote', cur', result')
  BY <1>2, <1>5
<1> QED BY <1>1, <1>2, <1>3, <1>4, <1>5, <1>6, MovedOn

LEMMA EndOfLineStep == ASSUME ReadingInv, Toml!EndOfLine PROVE ReadingInv'
<1>1. PICK hot, got : /\ Meaning(text, document, found, hot, got)
                      /\ ReaderAt(text, hot, got, row, col, inHotfix, inQuote, cur, result)
  BY DEF ReadingInv
<1>2. /\ col > 0 /\ col > Len(text[row]) /\ row' = row + 1 /\ col' = 0
      /\ UNCHANGED <<document, found, text, inHotfix, inQuote, cur, result>>
  BY DEF Toml!EndOfLine, Toml!Line
<1>3. /\ row + 1 \in 1 .. Len(text) + 1 /\ inHotfix = hot[row] /\ hot[row + 1] = hot[row]
      /\ MidLine(text[row], got[row], got[row + 1], col, inQuote, cur, result)
  BY <1>1, <1>2, ReadingAtRune
<1>4. result = got[row + 1]
  BY <1>2, <1>3, MidEnd DEF MidLine
<1>5. row' \in 1 .. Len(text) + 1 /\ inHotfix' = hot[row'] /\ col' = 0 /\ result' = got[row']
  BY <1>2, <1>3, <1>4
<1>6. ReaderAt(text, hot, got, row', col', inHotfix', inQuote', cur', result')
  BY <1>5, Zenon DEF ReaderAt
<1>7. inQuote' \in BOOLEAN /\ cur' \in Seq(Symbol) /\ UNCHANGED <<document, found, text>>
  BY <1>2 DEF ReadingInv
<1> QED BY <1>1, <1>6, <1>7, ReadingOn

LEMMA ReadingStep == ASSUME ReadingInv, [Next]_<<plugin, toml, filter>> PROVE ReadingInv'
<1>1. CASE ReadDirective
  BY <1>1, HeaderLineStep, OtherLineStep, DirectiveLineStep, RuneStep, EndOfLineStep DEF ReadDirective, Toml!Next
<1>2. CASE UNCHANGED toml
  <2>1. UNCHANGED <<document, found, text, row, col, inHotfix, inQuote, cur, result>>
    BY <1>2 DEF toml
  <2>2. PICK hot, got : /\ Meaning(text, document, found, hot, got)
                        /\ ReaderAt(text, hot, got, row, col, inHotfix, inQuote, cur, result)
    BY DEF ReadingInv
  <2>3. ReaderAt(text, hot, got, row', col', inHotfix', inQuote', cur', result')
    BY <2>1, <2>2
  <2>4. inQuote' \in BOOLEAN /\ cur' \in Seq(Symbol)
    BY <2>1 DEF ReadingInv
  <2> QED BY <2>1, <2>2, <2>3, <2>4, ReadingOn
<1>3. Next => ReadDirective \/ UNCHANGED toml
  BY Zenon DEF Next, FormRegex, BuildRegex, UseRegex
<1>4. UNCHANGED <<plugin, toml, filter>> => UNCHANGED toml
  OBVIOUS
<1> QED BY <1>1, <1>2, <1>3, <1>4

\* What the reader has at the end, and on the way.
LEMMA ReadsWhatIsMeant ==
  ASSUME ReadingInv
  PROVE  /\ Toml!Finished /\ found /\ OneLineDocument(document) => result = MeantBy(document)
         /\ PlainDocument(document) => ToSet(result) \subseteq ToSet(MeantBy(document))
<1>1. PICK hot, got : /\ Meaning(text, document, found, hot, got)
                      /\ ReaderAt(text, hot, got, row, col, inHotfix, inQuote, cur, result)
  BY DEF ReadingInv
<1>2. /\ Len(text) \in Nat
      /\ \A r \in 1 .. Len(text) + 1 :
           got[r] \in Seq(Seq(Symbol)) /\ (PlainDocument(document) => ToSet(got[r]) \subseteq ToSet(MeantBy(document)))
      /\ found /\ OneLineDocument(document) => got[Len(text) + 1] = MeantBy(document)
  <2>1. Meaning(text, document, found, hot, got)
    BY <1>1
  <2>2. Len(text) \in Nat
    BY <2>1, LinesMean, Zenon
  <2>3. \A r \in 1 .. Len(text) + 1 :
          got[r] \in Seq(Seq(Symbol)) /\ (PlainDocument(document) => ToSet(got[r]) \subseteq ToSet(MeantBy(document)))
    <3> SUFFICES ASSUME NEW r \in 1 .. Len(text) + 1
                 PROVE  /\ got[r] \in Seq(Seq(Symbol))
                        /\ PlainDocument(document) => ToSet(got[r]) \subseteq ToSet(MeantBy(document))
      BY Zenon
    <3>1. /\ got[r] \in Seq(Seq(Symbol))
          /\ PlainDocument(document) => ToSet(got[r]) \subseteq ToSet(MeantBy(document))
      BY <2>1, LinesMean, Zenon
    <3> QED BY <3>1, Zenon
  <2>4. found /\ OneLineDocument(document) => got[Len(text) + 1] = MeantBy(document)
    BY <2>1, LastLineMeans, Zenon
  <2> QED BY <2>2, <2>3, <2>4
<1>3. row \in 1 .. Len(text) + 1 /\ got[row] \in Seq(Seq(Symbol))
  BY <1>1, <1>2, Zenon DEF ReaderAt
<1>4. Toml!Finished => result = got[Len(text) + 1]
  <2>1. SUFFICES ASSUME row > Len(text) PROVE result = got[Len(text) + 1]
    BY DEF Toml!Finished
  <2>2. row = Len(text) + 1 /\ ~(row <= Len(text))
    BY <1>2, <1>3, <2>1
  <2>3. result = got[row]
    BY <1>1, <2>2, Zenon DEF ReaderAt
  <2> QED BY <2>2, <2>3
<1>5. CASE result = got[row]
  BY <1>2, <1>3, <1>4, <1>5
<1>6. CASE row <= Len(text) /\ MidLine(text[row], got[row], got[row + 1], col, inQuote, cur, result)
  <2>1. row + 1 \in 1 .. Len(text) + 1
    BY <1>2, <1>3, <1>6
  <2>2. ToSet(result) \subseteq ToSet(got[row + 1])
    BY <1>3, <1>6, MidTypes DEF MidLine
  <2>3. PlainDocument(document) => ToSet(got[row + 1]) \subseteq ToSet(MeantBy(document))
    BY <1>2, <2>1
  <2> QED BY <1>2, <1>4, <2>2, <2>3
<1> QED BY <1>1, <1>5, <1>6, Zenon DEF ReaderAt

\* The globs of the directive are read as they are written, whatever the document:
\* with each entry in one line exactly those, in order; in other layouts never one
\* from another table or another key (formFilterByTomlDirective, extractQuotedStrings).
THEOREM DirectiveAlwaysRead == Spec => []ReadsTheDirective
<1>1. ReadingInv => ReadsTheDirective
  <2>1. Toml!Meant = MeantBy(document)
    BY SameFlatten, Zenon DEF Toml!Meant, MeantBy, MeantOf, StringsOf
  <2>2. Toml!SingleLine => OneLineDocument(document)
    BY Zenon DEF Toml!SingleLine, Toml!EveryEntry, OneLineDocument, OneLineEntry
  <2>3. PlainDocument(document)
          <=> \A i \in DOMAIN document : \A k \in DOMAIN document[i].entries :
                /\ document[i].entries[k].layout # "comment"
                /\ document[i].entries[k].key # "app-patchable-tests"
    BY Zenon DEF PlainDocument, PlainEntry
  <2> QED BY ReadsWhatIsMeant, SameFlatten, <2>1, <2>2, <2>3, Zenon
        DEF ReadsTheDirective, Toml!ReadsTheDirective, Toml!EveryEntry
<1>2. EntryPointInit => ReadingInv
  BY ReadingStarts
<1>3. ReadingInv /\ [Next]_<<plugin, toml, filter>> => ReadingInv'
  BY ReadingStep
<1> QED BY <1>1, <1>2, <1>3, PTL DEF Spec

-----------------------------------------------------------------------------
(***************************************************************************)
(* Searching for an expression, and meaning a glob, as sets of places: the *)
(* recursive functions of the type filter, by induction over their rows.   *)
(***************************************************************************)

\* What F must hold at row i and column p: it is a place to end at, or R leads on from
\* it to a place of F in a later row.
LeadsOn(F, B, R, N, n, i, p) ==
  <<i, p>> \in B \/ \E j \in i + 1 .. N, q \in 0 .. n : <<i, p, j, q>> \in R /\ <<j, q>> \in F

LEMMA LeadsOnSame ==
  ASSUME NEW F, NEW G, NEW B, NEW R, NEW N \in Nat, NEW n \in Nat, NEW i \in 1 .. N, NEW p \in 0 .. n,
         \A j \in i + 1 .. N, q \in 0 .. n : <<j, q>> \in F <=> <<j, q>> \in G
  PROVE  LeadsOn(F, B, R, N, n, i, p) <=> LeadsOn(G, B, R, N, n, i, p)
BY Zenon DEF LeadsOn

LEMMA PlacesExist ==
  ASSUME NEW N \in Nat, NEW n \in Nat, NEW B, NEW R
  PROVE  \E F : \A i \in 1 .. N, p \in 0 .. n : <<i, p>> \in F <=> LeadsOn(F, B, R, N, n, i, p)
<1> DEFINE Good(F, k) == \A i \in 1 .. N, p \in 0 .. n :
                           i > N - k => (<<i, p>> \in F <=> LeadsOn(F, B, R, N, n, i, p))
           P(k) == \E F : Good(F, k)
           S == {k \in Nat : P(k)}
<1>1. 0 \in S
  <2>1. Good({}, 0)
    OBVIOUS
  <2> HIDE DEF Good
  <2>2. P(0)
    BY <2>1
  <2> QED BY <2>2
<1>2. ASSUME NEW k \in Nat, k \in S PROVE k + 1 \in S
  <2>1. PICK F : Good(F, k)
    BY <1>2
  <2> DEFINE here == N - k
             new == {<<here, p>> : p \in {x \in 0 .. n : LeadsOn(F, B, R, N, n, here, x)}}
             old == {x \in F : \E i \in Int, p \in 0 .. n : i > here /\ x = <<i, p>>}
             G == old \cup new
  <2>2. here \in Int /\ here - 1 = N - (k + 1)
    OBVIOUS
  <2>3. \A i \in 1 .. N, p \in 0 .. n : i > here => (<<i, p>> \in G <=> <<i, p>> \in F)
    <3> SUFFICES ASSUME NEW i \in 1 .. N, NEW p \in 0 .. n, i > here
                 PROVE  <<i, p>> \in G <=> <<i, p>> \in F
      OBVIOUS
    <3>1. <<i, p>> \notin new
      OBVIOUS
    <3>2. <<i, p>> \in old <=> <<i, p>> \in F
      OBVIOUS
    <3> HIDE DEF old, new
    <3> QED BY <3>1, <3>2
  <2>4. \A p \in 0 .. n : <<here, p>> \in G <=> LeadsOn(F, B, R, N, n, here, p)
    <3> SUFFICES ASSUME NEW p \in 0 .. n PROVE <<here, p>> \in G <=> LeadsOn(F, B, R, N, n, here, p)
      OBVIOUS
    <3>1. <<here, p>> \notin old
      OBVIOUS
    <3>2. <<here, p>> \in new <=> LeadsOn(F, B, R, N, n, here, p)
      OBVIOUS
    <3> HIDE DEF old, new
    <3> QED BY <3>1, <3>2
  <2> HIDE DEF G, here, old, new
  <2>5. ASSUME NEW i \in 1 .. N, NEW p \in 0 .. n, i > N - (k + 1)
        PROVE  <<i, p>> \in G <=> LeadsOn(G, B, R, N, n, i, p)
    <3>1. \A j \in i + 1 .. N, q \in 0 .. n : <<j, q>> \in F <=> <<j, q>> \in G
      <4> SUFFICES ASSUME NEW j \in i + 1 .. N, NEW q \in 0 .. n PROVE <<j, q>> \in F <=> <<j, q>> \in G
        OBVIOUS
      <4>1. j \in 1 .. N /\ j > here
        BY <2>2, <2>5
      <4> QED BY <2>3, <4>1
    <3>2. LeadsOn(F, B, R, N, n, i, p) <=> LeadsOn(G, B, R, N, n, i, p)
      BY <3>1, LeadsOnSame
    <3>3. CASE i = here
      BY <2>4, <3>2, <3>3
    <3>4. CASE i # here
      <4>1. i > here
        BY <2>2, <2>5, <3>4
      <4>2. <<i, p>> \in F <=> LeadsOn(F, B, R, N, n, i, p)
        BY <2>1, <4>1 DEF here
      <4> QED BY <2>3, <3>2, <4>1, <4>2
    <3> QED BY <3>3, <3>4
  <2>6. Good(G, k + 1)
    BY <2>5
  <2> HIDE DEF Good
  <2>7. P(k + 1)
    BY <2>6
  <2> HIDE DEF P
  <2> QED BY <2>7
<1>3. N \in S
  <2> HIDE DEF S
  <2> QED BY <1>1, <1>2, ByInduction
<1>4. PICK F : Good(F, N)
  BY <1>3
<1>5. \A i \in 1 .. N : i > N - N
  OBVIOUS
<1> QED BY <1>4, <1>5

\* The function that Search defines by recursion.
SearchBody(e, name, f, i, p) ==
  \/ i = Len(e) + 1
  \/ /\ i <= Len(e)
     /\ \/ e[i] = "^" /\ p = 0 /\ f[<<i + 1, p>>]
        \/ e[i] = "$" /\ p = Len(name) /\ f[<<i + 1, p>>]
        \/ /\ e[i] = Glob!NotDots
           /\ \E q \in p + 1 .. Len(name) : Glob!NoDot(name, p, q) /\ f[<<i + 1, q>>]
        \/ e[i] = Glob!Anything /\ \E q \in p + 1 .. Len(name) : f[<<i + 1, q>>]
        \/ /\ e[i] \in Letter \cup {Glob!Dot}
           /\ p < Len(name) /\ name[p + 1] = e[i] /\ f[<<i + 1, p + 1>>]

SearchFits(e, name, f) ==
  f = [at \in (1 .. Len(e) + 1) \X (0 .. Len(name)) |-> SearchBody(e, name, f, at[1], at[2])]

\* A token leads from p to q in a name.
Moves(token, name, p, q) ==
  \/ token = "^" /\ p = 0 /\ q = p
  \/ token = "$" /\ p = Len(name) /\ q = p
  \/ token = Glob!NotDots /\ q \in p + 1 .. Len(name) /\ Glob!NoDot(name, p, q)
  \/ token = Glob!Anything /\ q \in p + 1 .. Len(name)
  \/ token \in Letter \cup {Glob!Dot} /\ p < Len(name) /\ name[p + 1] = token /\ q = p + 1

\* F holds the places from which the rest of the alternative matches.
SearchPlaces(e, name, F) ==
  /\ \A p \in 0 .. Len(name) : <<Len(e) + 1, p>> \in F
  /\ \A i \in 1 .. Len(e), p \in 0 .. Len(name) :
       <<i, p>> \in F <=> \E q \in 0 .. Len(name) : Moves(e[i], name, p, q) /\ <<i + 1, q>> \in F

LEMMA SearchPlacesExist ==
  ASSUME NEW e, NEW name, Len(e) \in Nat, Len(name) \in Nat
  PROVE  \E F : SearchPlaces(e, name, F)
<1> DEFINE L == Len(e)
           n == Len(name)
           B == {<<i, p>> : i \in {L + 1}, p \in 0 .. n}
           R == {w \in (1 .. L) \X (0 .. n) \X (2 .. L + 1) \X (0 .. n) :
                   w[3] = w[1] + 1 /\ Moves(e[w[1]], name, w[2], w[4])}
<1>1. PICK F : \A i \in 1 .. L + 1, p \in 0 .. n : <<i, p>> \in F <=> LeadsOn(F, B, R, L + 1, n, i, p)
  <2>1. L + 1 \in Nat /\ n \in Nat
    OBVIOUS
  <2> HIDE DEF B, R, L, n
  <2> QED BY <2>1, PlacesExist
<1>2. \A p \in 0 .. n : <<L + 1, p>> \in F
  <2>1. \A p \in 0 .. n : <<L + 1, p>> \in B
    OBVIOUS
  <2>2. L + 1 \in 1 .. L + 1
    OBVIOUS
  <2> HIDE DEF B, R, L, n
  <2> QED BY <1>1, <2>1, <2>2 DEF LeadsOn
<1>3. ASSUME NEW i \in 1 .. L, NEW p \in 0 .. n
      PROVE  <<i, p>> \in F <=> \E q \in 0 .. n : Moves(e[i], name, p, q) /\ <<i + 1, q>> \in F
  <2>1. <<i, p>> \notin B /\ i \in 1 .. L + 1 /\ i + 1 \in i + 1 .. L + 1
    OBVIOUS
  <2>2. \A j \in i + 1 .. L + 1, q \in 0 .. n :
          <<i, p, j, q>> \in R <=> j = i + 1 /\ Moves(e[i], name, p, q)
    <3> SUFFICES ASSUME NEW j \in i + 1 .. L + 1, NEW q \in 0 .. n
                 PROVE  <<i, p, j, q>> \in R <=> j = i + 1 /\ Moves(e[i], name, p, q)
      OBVIOUS
    <3>1. j \in 2 .. L + 1
      OBVIOUS
    <3> HIDE DEF L, n
    <3> QED BY <3>1
  <2> HIDE DEF B, R, L, n
  <2>3. <<i, p>> \in F <=> LeadsOn(F, B, R, L + 1, n, i, p)
    BY <1>1, <2>1
  <2> QED BY <2>1, <2>2, <2>3, Zenon DEF LeadsOn
<1> QED BY <1>2, <1>3 DEF SearchPlaces

LEMMA BodyMoves ==
  ASSUME NEW e, NEW name, NEW f, Len(e) \in Nat, Len(name) \in Nat, NEW i \in 1 .. Len(e), NEW p \in 0 .. Len(name)
  PROVE  SearchBody(e, name, f, i, p)
           <=> \E q \in 0 .. Len(name) : Moves(e[i], name, p, q) /\ f[<<i + 1, q>>]
<1> DEFINE n == Len(name)
<1>1. i # Len(e) + 1 /\ i <= Len(e)
  OBVIOUS
<1>2. /\ \A q \in p + 1 .. n : q \in 0 .. n
      /\ p < n => p + 1 \in 0 .. n
  OBVIOUS
<1> HIDE DEF n
<1>3. ASSUME NEW q \in 0 .. n, Moves(e[i], name, p, q), f[<<i + 1, q>>] PROVE SearchBody(e, name, f, i, p)
  BY <1>1, <1>3, Zenon DEF SearchBody, Moves, n
<1>4. ASSUME SearchBody(e, name, f, i, p) PROVE \E q \in 0 .. n : Moves(e[i], name, p, q) /\ f[<<i + 1, q>>]
  <2>1. CASE e[i] = "^" /\ p = 0 /\ f[<<i + 1, p>>]
    BY <2>1, Zenon DEF Moves, n
  <2>2. CASE e[i] = "$" /\ p = Len(name) /\ f[<<i + 1, p>>]
    BY <2>2, Zenon DEF Moves, n
  <2>3. CASE e[i] = Glob!NotDots /\ \E q \in p + 1 .. Len(name) : Glob!NoDot(name, p, q) /\ f[<<i + 1, q>>]
    BY <1>2, <2>3, Zenon DEF Moves, n
  <2>4. CASE e[i] = Glob!Anything /\ \E q \in p + 1 .. Len(name) : f[<<i + 1, q>>]
    BY <1>2, <2>4, Zenon DEF Moves, n
  <2>5. CASE e[i] \in Letter \cup {Glob!Dot} /\ p < Len(name) /\ name[p + 1] = e[i] /\ f[<<i + 1, p + 1>>]
    BY <1>2, <2>5, Zenon DEF Moves, n
  <2> QED BY <1>1, <1>4, <2>1, <2>2, <2>3, <2>4, <2>5, Zenon DEF SearchBody
<1> QED BY <1>3, <1>4 DEF n

LEMMA SearchIs ==
  ASSUME NEW e, NEW name, Len(e) \in Nat, Len(name) \in Nat
  PROVE  \E F : /\ SearchPlaces(e, name, F)
                /\ Glob!Search(e, name) <=> \E p \in 0 .. Len(name) : <<1, p>> \in F
<1> DEFINE L == Len(e)
           n == Len(name)
           g == CHOOSE f : SearchFits(e, name, f)
<1>1. Glob!Search(e, name) = \E p \in 0 .. Len(name) : g[<<1, p>>]
  BY Zenon DEF Glob!Search, SearchFits, SearchBody
<1>2. \E f : SearchFits(e, name, f)
  <2>0. PICK F : SearchPlaces(e, name, F)
    BY SearchPlacesExist
  <2> DEFINE f == [at \in (1 .. L + 1) \X (0 .. n) |-> at \in F]
  <2>1. \A i \in 1 .. L + 1, p \in 0 .. n : f[<<i, p>>] = (<<i, p>> \in F)
    OBVIOUS
  <2>2. ASSUME NEW i \in 1 .. L + 1, NEW p \in 0 .. n PROVE (<<i, p>> \in F) = SearchBody(e, name, f, i, p)
    <3> HIDE DEF f
    <3>1. CASE i = L + 1
      BY <2>0, <3>1 DEF SearchPlaces, SearchBody
    <3>2. CASE i # L + 1
      <4>1. i \in 1 .. L /\ i <= L /\ i + 1 \in 1 .. L + 1
        BY <3>2
      <4>2. <<i, p>> \in F <=> \E q \in 0 .. n : Moves(e[i], name, p, q) /\ <<i + 1, q>> \in F
        BY <2>0, <4>1 DEF SearchPlaces
      <4>3. \A q \in 0 .. n : f[<<i + 1, q>>] = (<<i + 1, q>> \in F)
        BY <2>1, <4>1
      <4>4. /\ \A q \in p + 1 .. n : q \in 0 .. n
            /\ p < n => p + 1 \in 0 .. n
        OBVIOUS
      <4> HIDE DEF L, n
      <4>5. SearchBody(e, name, f, i, p) <=> \E q \in 0 .. n : Moves(e[i], name, p, q) /\ f[<<i + 1, q>>]
        BY <4>1, <4>4, BodyMoves DEF L, n
      <4>6. (<<i, p>> \in F) <=> SearchBody(e, name, f, i, p)
        BY <4>2, <4>3, <4>5
      <4> DEFINE x == <<i, p>> \in F
                 y == SearchBody(e, name, f, i, p)
      <4>7. x \in BOOLEAN /\ y \in BOOLEAN /\ (x <=> y)
        BY <4>6 DEF SearchBody
      <4>8. x = y
        <5> HIDE DEF x, y
        <5> QED BY <4>7
      <4> QED BY <4>8
    <3> QED BY <3>1, <3>2
  <2>3. f = [at \in (1 .. L + 1) \X (0 .. n) |-> SearchBody(e, name, f, at[1], at[2])]
    <3>1. \A at \in (1 .. L + 1) \X (0 .. n) : (at \in F) = SearchBody(e, name, f, at[1], at[2])
      <4> SUFFICES ASSUME NEW at \in (1 .. L + 1) \X (0 .. n)
                   PROVE  (at \in F) = SearchBody(e, name, f, at[1], at[2])
        OBVIOUS
      <4>1. at[1] \in 1 .. L + 1 /\ at[2] \in 0 .. n /\ at = <<at[1], at[2]>>
        OBVIOUS
      <4> HIDE DEF f, L, n
      <4> QED BY <2>2, <4>1, Zenon
    <3> QED BY <3>1
  <2>4. SearchFits(e, name, f)
    <3> HIDE DEF f
    <3> QED BY <2>3, Zenon DEF SearchFits, L, n
  <2> HIDE DEF f
  <2> QED BY <2>4
<1>3. SearchFits(e, name, g)
  BY <1>2
<1> HIDE DEF g
<1> DEFINE F == {at \in (1 .. L + 1) \X (0 .. n) : g[at]}
<1>4. ASSUME NEW i \in 1 .. L + 1, NEW p \in 0 .. n
      PROVE  (<<i, p>> \in F <=> g[<<i, p>>]) /\ (g[<<i, p>>] <=> SearchBody(e, name, g, i, p))
  BY <1>3 DEF SearchFits
<1>5. SearchPlaces(e, name, F)
  <2> HIDE DEF F
  <2>1. ASSUME NEW p \in 0 .. n PROVE <<L + 1, p>> \in F
    <3>1. L + 1 \in 1 .. L + 1
      OBVIOUS
    <3> QED BY <1>4, <3>1 DEF SearchBody
  <2>2. ASSUME NEW i \in 1 .. L, NEW p \in 0 .. n
        PROVE  <<i, p>> \in F <=> \E q \in 0 .. n : Moves(e[i], name, p, q) /\ <<i + 1, q>> \in F
    <3>1. i \in 1 .. L + 1 /\ i + 1 \in 1 .. L + 1 /\ i # L + 1 /\ i <= L
      OBVIOUS
    <3>2. \A q \in 0 .. n : g[<<i + 1, q>>] <=> <<i + 1, q>> \in F
      BY <1>4, <3>1
    <3>3. /\ \A q \in p + 1 .. n : q \in 0 .. n
          /\ p < n => p + 1 \in 0 .. n
      OBVIOUS
    <3>4. <<i, p>> \in F <=> SearchBody(e, name, g, i, p)
      BY <1>4, <3>1
    <3> HIDE DEF L, n
    <3>5. SearchBody(e, name, g, i, p) <=> \E q \in 0 .. n : Moves(e[i], name, p, q) /\ g[<<i + 1, q>>]
      BY <3>1, <3>3, BodyMoves DEF L, n
    <3> QED BY <3>2, <3>4, <3>5
  <2> QED BY <2>1, <2>2 DEF SearchPlaces
<1>6. Glob!Search(e, name) <=> \E p \in 0 .. Len(name) : <<1, p>> \in F
  <2>1. 1 \in 1 .. L + 1
    OBVIOUS
  <2> HIDE DEF F
  <2> QED BY <1>1, <1>4, <2>1
<1> QED BY <1>5, <1>6

\* The function that GlobMatches defines by recursion.
TwoStars(g, i) == i < Len(g) /\ g[i] = Glob!Star /\ g[i + 1] = Glob!Star

GlobBody(g, name, f, i, p) ==
  IF i > Len(g) THEN p = Len(name)
  ELSE IF TwoStars(g, i)
    THEN p < Len(name) /\ name[p + 1] # Glob!Dot /\ \E q \in p + 2 .. Len(name) : f[<<i + 2, q>>]
  ELSE IF g[i] = Glob!Star
    THEN \E q \in p + 1 .. Len(name) : Glob!NoDot(name, p, q) /\ f[<<i + 1, q>>]
  ELSE p < Len(name) /\ name[p + 1] = g[i] /\ f[<<i + 1, p + 1>>]

GlobFits(g, name, f) ==
  f = [at \in (1 .. Len(g) + 1) \X (0 .. Len(name)) |-> GlobBody(g, name, f, at[1], at[2])]

\* What stands at i in a glob leads from p to q in a name, and on to j in the glob.
GlobMoves(g, name, i, p, j, q) ==
  \/ TwoStars(g, i) /\ j = i + 2 /\ p < Len(name) /\ name[p + 1] # Glob!Dot /\ q \in p + 2 .. Len(name)
  \/ ~TwoStars(g, i) /\ g[i] = Glob!Star /\ j = i + 1 /\ q \in p + 1 .. Len(name) /\ Glob!NoDot(name, p, q)
  \/ g[i] # Glob!Star /\ j = i + 1 /\ p < Len(name) /\ name[p + 1] = g[i] /\ q = p + 1

GlobPlaces(g, name, F) ==
  /\ \A p \in 0 .. Len(name) : <<Len(g) + 1, p>> \in F <=> p = Len(name)
  /\ \A i \in 1 .. Len(g), p \in 0 .. Len(name) :
       <<i, p>> \in F <=> \E j \in i + 1 .. Len(g) + 1, q \in 0 .. Len(name) :
                            GlobMoves(g, name, i, p, j, q) /\ <<j, q>> \in F

LEMMA GlobPlacesExist ==
  ASSUME NEW g, NEW name, Len(g) \in Nat, Len(name) \in Nat
  PROVE  \E F : GlobPlaces(g, name, F)
<1> DEFINE L == Len(g)
           n == Len(name)
           B == {<<L + 1, n>>}
           R == {w \in (1 .. L) \X (0 .. n) \X (2 .. L + 1) \X (0 .. n) :
                   GlobMoves(g, name, w[1], w[2], w[3], w[4])}
<1>1. PICK F : \A i \in 1 .. L + 1, p \in 0 .. n : <<i, p>> \in F <=> LeadsOn(F, B, R, L + 1, n, i, p)
  <2>1. L + 1 \in Nat /\ n \in Nat
    OBVIOUS
  <2> HIDE DEF B, R, L, n
  <2> QED BY <2>1, PlacesExist
<1>2. ASSUME NEW p \in 0 .. n PROVE <<L + 1, p>> \in F <=> p = n
  <2>1. <<L + 1, p>> \in B <=> p = n
    OBVIOUS
  <2>2. L + 1 \in 1 .. L + 1 /\ ~\E j \in (L + 1) + 1 .. L + 1 : TRUE
    OBVIOUS
  <2> HIDE DEF B, R, L, n
  <2>3. <<L + 1, p>> \in F <=> LeadsOn(F, B, R, L + 1, n, L + 1, p)
    BY <1>1, <2>2
  <2> QED BY <2>1, <2>2, <2>3, Zenon DEF LeadsOn
<1>3. ASSUME NEW i \in 1 .. L, NEW p \in 0 .. n
      PROVE  <<i, p>> \in F <=> \E j \in i + 1 .. L + 1, q \in 0 .. n :
                                  GlobMoves(g, name, i, p, j, q) /\ <<j, q>> \in F
  <2>1. <<i, p>> \notin B /\ i \in 1 .. L + 1
    OBVIOUS
  <2>2. \A j \in i + 1 .. L + 1, q \in 0 .. n :
          <<i, p, j, q>> \in R <=> GlobMoves(g, name, i, p, j, q)
    <3> SUFFICES ASSUME NEW j \in i + 1 .. L + 1, NEW q \in 0 .. n
                 PROVE  <<i, p, j, q>> \in R <=> GlobMoves(g, name, i, p, j, q)
      OBVIOUS
    <3>1. j \in 2 .. L + 1
      OBVIOUS
    <3> HIDE DEF L, n
    <3> QED BY <3>1
  <2> HIDE DEF B, R, L, n
  <2>3. <<i, p>> \in F <=> LeadsOn(F, B, R, L + 1, n, i, p)
    BY <1>1, <2>1
  <2> QED BY <2>1, <2>2, <2>3, Zenon DEF LeadsOn
<1> QED BY <1>2, <1>3 DEF GlobPlaces

LEMMA GlobBodyMoves ==
  ASSUME NEW g, NEW name, NEW f, Len(g) \in Nat, Len(name) \in Nat, NEW i \in 1 .. Len(g), NEW p \in 0 .. Len(name)
  PROVE  GlobBody(g, name, f, i, p)
           <=> \E j \in i + 1 .. Len(g) + 1, q \in 0 .. Len(name) :
                 GlobMoves(g, name, i, p, j, q) /\ f[<<j, q>>]
<1> DEFINE n == Len(name)
           J == i + 1 .. Len(g) + 1
<1>1. ~(i > Len(g)) /\ i + 1 \in J
  OBVIOUS
<1>2. /\ \A q \in p + 1 .. n : q \in 0 .. n
      /\ \A q \in p + 2 .. n : q \in 0 .. n
      /\ p < n => p + 1 \in 0 .. n
  OBVIOUS
<1>3. TwoStars(g, i) => i + 2 \in J /\ g[i] = Glob!Star
  BY DEF TwoStars
<1> HIDE DEF n, J
<1>4. ASSUME NEW j \in J, NEW q \in 0 .. n, GlobMoves(g, name, i, p, j, q), f[<<j, q>>]
      PROVE  GlobBody(g, name, f, i, p)
  BY <1>1, <1>3, <1>4, Zenon DEF GlobBody, GlobMoves, n
<1>5. ASSUME GlobBody(g, name, f, i, p)
      PROVE  \E j \in J, q \in 0 .. n : GlobMoves(g, name, i, p, j, q) /\ f[<<j, q>>]
  <2>1. CASE TwoStars(g, i)
    BY <1>1, <1>2, <1>3, <1>5, <2>1, Zenon DEF GlobBody, GlobMoves, n
  <2>2. CASE ~TwoStars(g, i) /\ g[i] = Glob!Star
    BY <1>1, <1>2, <1>5, <2>2, Zenon DEF GlobBody, GlobMoves, n
  <2>3. CASE ~TwoStars(g, i) /\ g[i] # Glob!Star
    BY <1>1, <1>2, <1>5, <2>3, Zenon DEF GlobBody, GlobMoves, n
  <2> QED BY <2>1, <2>2, <2>3
<1> QED BY <1>4, <1>5 DEF n, J

LEMMA BodyIsBoolean ==
  ASSUME NEW g, NEW name, NEW f, NEW i, NEW p
  PROVE  GlobBody(g, name, f, i, p) \in BOOLEAN
<1>1. CASE i > Len(g)
  BY <1>1 DEF GlobBody
<1>2. CASE ~(i > Len(g)) /\ TwoStars(g, i)
  BY <1>2 DEF GlobBody
<1>3. CASE ~(i > Len(g)) /\ ~TwoStars(g, i) /\ g[i] = Glob!Star
  BY <1>3 DEF GlobBody
<1>4. CASE ~(i > Len(g)) /\ ~TwoStars(g, i) /\ g[i] # Glob!Star
  BY <1>4 DEF GlobBody
<1> QED BY <1>1, <1>2, <1>3, <1>4

LEMMA GlobMatchesIs ==
  ASSUME NEW g, NEW name, Len(g) \in Nat, Len(name) \in Nat
  PROVE  \E F : GlobPlaces(g, name, F) /\ (Glob!GlobMatches(g, name) <=> <<1, 0>> \in F)
<1> DEFINE L == Len(g)
           n == Len(name)
           h == CHOOSE f : GlobFits(g, name, f)
<1>1. Glob!GlobMatches(g, name) = h[<<1, 0>>]
  BY Zenon DEF Glob!GlobMatches, GlobFits, GlobBody, TwoStars
<1>2. \E f : GlobFits(g, name, f)
  <2>0. PICK F : GlobPlaces(g, name, F)
    BY GlobPlacesExist
  <2> DEFINE f == [at \in (1 .. L + 1) \X (0 .. n) |-> at \in F]
  <2>1. \A i \in 1 .. L + 1, p \in 0 .. n : f[<<i, p>>] = (<<i, p>> \in F)
    OBVIOUS
  <2>2. ASSUME NEW i \in 1 .. L + 1, NEW p \in 0 .. n PROVE (<<i, p>> \in F) = GlobBody(g, name, f, i, p)
    <3> HIDE DEF f
    <3> DEFINE x == <<i, p>> \in F
               y == GlobBody(g, name, f, i, p)
    <3>1. ASSUME i = L + 1 PROVE x <=> y
      <4>1. x <=> p = n
        BY <2>0, <3>1 DEF GlobPlaces
      <4>2. i > Len(g)
        BY <3>1
      <4>3. y <=> p = n
        BY <4>2, Zenon DEF GlobBody
      <4> QED BY <4>1, <4>3
    <3>2. ASSUME i # L + 1 PROVE x <=> y
      <4>1. i \in 1 .. L /\ \A j \in i + 1 .. L + 1 : j \in 1 .. L + 1
        BY <3>2
      <4>2. x <=> \E j \in i + 1 .. L + 1, q \in 0 .. n : GlobMoves(g, name, i, p, j, q) /\ <<j, q>> \in F
        BY <2>0, <4>1 DEF GlobPlaces
      <4>3. \A j \in i + 1 .. L + 1, q \in 0 .. n : f[<<j, q>>] = (<<j, q>> \in F)
        BY <2>1, <4>1
      <4>4. y <=> \E j \in i + 1 .. L + 1, q \in 0 .. n : GlobMoves(g, name, i, p, j, q) /\ f[<<j, q>>]
        BY <4>1, GlobBodyMoves
      <4> HIDE DEF y, L, n
      <4> QED BY <4>2, <4>3, <4>4
    <3>3. x <=> y
      BY <3>1, <3>2
    <3>4. x \in BOOLEAN
      OBVIOUS
    <3>5. y \in BOOLEAN
      BY BodyIsBoolean
    <3>6. x = y
      <4> HIDE DEF x, y
      <4> QED BY <3>3, <3>4, <3>5
    <3> QED BY <3>6
  <2>3. f = [at \in (1 .. L + 1) \X (0 .. n) |-> GlobBody(g, name, f, at[1], at[2])]
    <3>1. \A at \in (1 .. L + 1) \X (0 .. n) : (at \in F) = GlobBody(g, name, f, at[1], at[2])
      <4> SUFFICES ASSUME NEW at \in (1 .. L + 1) \X (0 .. n)
                   PROVE  (at \in F) = GlobBody(g, name, f, at[1], at[2])
        OBVIOUS
      <4>1. at[1] \in 1 .. L + 1 /\ at[2] \in 0 .. n /\ at = <<at[1], at[2]>>
        OBVIOUS
      <4> HIDE DEF f, L, n
      <4> QED BY <2>2, <4>1, Zenon
    <3> QED BY <3>1
  <2>4. GlobFits(g, name, f)
    <3> HIDE DEF f
    <3> QED BY <2>3, Zenon DEF GlobFits, L, n
  <2> HIDE DEF f
  <2> QED BY <2>4
<1>3. GlobFits(g, name, h)
  BY <1>2
<1> HIDE DEF h
<1> DEFINE F == {at \in (1 .. L + 1) \X (0 .. n) : h[at]}
<1>4. ASSUME NEW i \in 1 .. L + 1, NEW p \in 0 .. n
      PROVE  (<<i, p>> \in F <=> h[<<i, p>>]) /\ (h[<<i, p>>] <=> GlobBody(g, name, h, i, p))
  BY <1>3 DEF GlobFits
<1>5. GlobPlaces(g, name, F)
  <2> HIDE DEF F
  <2>1. ASSUME NEW p \in 0 .. n PROVE <<L + 1, p>> \in F <=> p = n
    <3>1. L + 1 \in 1 .. L + 1 /\ L + 1 > L
      OBVIOUS
    <3> QED BY <1>4, <3>1 DEF GlobBody
  <2>2. ASSUME NEW i \in 1 .. L, NEW p \in 0 .. n
        PROVE  <<i, p>> \in F <=> \E j \in i + 1 .. L + 1, q \in 0 .. n :
                                    GlobMoves(g, name, i, p, j, q) /\ <<j, q>> \in F
    <3>1. i \in 1 .. L + 1 /\ \A j \in i + 1 .. L + 1 : j \in 1 .. L + 1
      OBVIOUS
    <3>2. \A j \in i + 1 .. L + 1, q \in 0 .. n : h[<<j, q>>] <=> <<j, q>> \in F
      BY <1>4, <3>1
    <3>3. <<i, p>> \in F <=> GlobBody(g, name, h, i, p)
      BY <1>4, <3>1
    <3>4. GlobBody(g, name, h, i, p)
            <=> \E j \in i + 1 .. L + 1, q \in 0 .. n : GlobMoves(g, name, i, p, j, q) /\ h[<<j, q>>]
      BY GlobBodyMoves
    <3> HIDE DEF L, n
    <3> QED BY <3>2, <3>3, <3>4
  <2> QED BY <2>1, <2>2 DEF GlobPlaces
<1>6. Glob!GlobMatches(g, name) <=> <<1, 0>> \in F
  <2>1. 1 \in 1 .. L + 1 /\ 0 \in 0 .. n
    OBVIOUS
  <2> HIDE DEF F
  <2> QED BY <1>1, <1>4, <2>1
<1> QED BY <1>5, <1>6

-----------------------------------------------------------------------------
(***************************************************************************)
(* What one alternative of the expression matches, and what its glob       *)
(* means: the places of the two, from the end of the glob to its start.    *)
(***************************************************************************)
Char == Letter \cup {Glob!Dot}

LEMMA TokensApart ==
  /\ Glob!NotDots \notin Char /\ Glob!Anything \notin Char /\ "^" \notin Char /\ "$" \notin Char
  /\ "(" \notin Char /\ ")" \notin Char /\ "|" \notin Char /\ Glob!Star \notin Char
  /\ Glob!NotDots # Glob!Anything
  /\ \A t \in {"^", "$", "(", ")", "|"} : t # Glob!NotDots /\ t # Glob!Anything
  /\ "^" # "$" /\ "(" # ")" /\ "(" # "|" /\ ")" # "|" /\ "^" # "(" /\ "^" # ")" /\ "^" # "|"
  /\ "$" # "(" /\ "$" # ")" /\ "$" # "|"
BY EntryPointAssumption DEF Glob!LetterAssumption, Char, Glob!NotDots, Glob!Anything, Glob!Dot, Glob!Star

LEMMA MovesBy ==
  ASSUME NEW name, NEW p, NEW q
  PROVE  /\ Moves("^", name, p, q) <=> p = 0 /\ q = p
         /\ Moves("$", name, p, q) <=> p = Len(name) /\ q = p
         /\ Moves(Glob!NotDots, name, p, q) <=> q \in p + 1 .. Len(name) /\ Glob!NoDot(name, p, q)
         /\ Moves(Glob!Anything, name, p, q) <=> q \in p + 1 .. Len(name)
         /\ \A c \in Char : Moves(c, name, p, q) <=> p < Len(name) /\ name[p + 1] = c /\ q = p + 1
<1>1. Moves("^", name, p, q) <=> p = 0 /\ q = p
  BY TokensApart, Zenon DEF Moves, Char
<1>2. Moves("$", name, p, q) <=> p = Len(name) /\ q = p
  BY TokensApart, Zenon DEF Moves, Char
<1>3. Moves(Glob!NotDots, name, p, q) <=> q \in p + 1 .. Len(name) /\ Glob!NoDot(name, p, q)
  BY TokensApart, Zenon DEF Moves, Char
<1>4. Moves(Glob!Anything, name, p, q) <=> q \in p + 1 .. Len(name)
  BY TokensApart, Zenon DEF Moves, Char
<1>5. ASSUME NEW c \in Char
      PROVE  Moves(c, name, p, q) <=> p < Len(name) /\ name[p + 1] = c /\ q = p + 1
  <2>1. c # "^" /\ c # "$" /\ c # Glob!NotDots /\ c # Glob!Anything
    BY TokensApart, Zenon
  <2> QED BY <2>1, Zenon DEF Moves, Char
<1> QED BY <1>1, <1>2, <1>3, <1>4, <1>5

\* a is the alternative of the glob g: a star is the first or the second half of a
\* pair, the first of all a first half.
TokensOf(g, a, i) ==
  /\ g[i] # Glob!Star => a[i + 1] = g[i]
  /\ g[i] = Glob!Star => a[i + 1] \in {Glob!NotDots, Glob!Anything}
  /\ g[i] = Glob!Star /\ (\A k \in 1 .. i - 1 : g[k] # Glob!Star) => a[i + 1] = Glob!NotDots
  /\ g[i] = Glob!Star /\ i > 1 /\ g[i - 1] = Glob!Star => a[i + 1] # a[i]

IsAlternative(a, g) ==
  /\ g \in Seq(Symbol) /\ Len(a) = Len(g) + 2 /\ a[1] = "^" /\ a[Len(g) + 2] = "$"
  /\ \A i \in 1 .. Len(g) : TokensOf(g, a, i)

\* The second of two stars.
SecondStar(g, i) == i > 1 /\ i <= Len(g) /\ g[i - 1] = Glob!Star /\ g[i] = Glob!Star

LEMMA CharOf ==
  ASSUME NEW g \in Seq(Symbol), NEW i \in 1 .. Len(g), g[i] # Glob!Star PROVE g[i] \in Char
<1>1. g[i] \in Symbol
  BY ElementOf
<1> QED BY <1>1 DEF Symbol, Char, Glob!Star, Glob!Dot

\* One symbol, or one star: the same step in both, unless the star has become "anything".
LEMMA OneStep ==
  ASSUME NEW g, NEW a, IsAlternative(a, g), NEW i \in 1 .. Len(g), ~TwoStars(g, i),
         NEW name, NEW p, NEW q
  PROVE  /\ GlobMoves(g, name, i, p, i + 1, q) => Moves(a[i + 1], name, p, q)
         /\ (g[i] = Glob!Star => a[i + 1] = Glob!NotDots)
              => (Moves(a[i + 1], name, p, q) => GlobMoves(g, name, i, p, i + 1, q))
<1>1. TokensOf(g, a, i) /\ g \in Seq(Symbol)
  BY DEF IsAlternative
<1>2. CASE g[i] = Glob!Star
  <2>1. GlobMoves(g, name, i, p, i + 1, q) <=> q \in p + 1 .. Len(name) /\ Glob!NoDot(name, p, q)
    BY <1>2, Zenon DEF GlobMoves
  <2>2. CASE a[i + 1] = Glob!NotDots
    BY <2>1, <2>2, MovesBy, Zenon
  <2>3. CASE a[i + 1] = Glob!Anything
    BY <2>1, <2>3, MovesBy, TokensApart, <1>2, Zenon
  <2> QED BY <1>1, <1>2, <2>2, <2>3, Zenon DEF TokensOf
<1>3. CASE g[i] # Glob!Star
  <2>1. a[i + 1] = g[i] /\ g[i] \in Char
    BY <1>1, <1>3, CharOf DEF TokensOf
  <2>2. GlobMoves(g, name, i, p, i + 1, q) <=> p < Len(name) /\ name[p + 1] = g[i] /\ q = p + 1
    BY <1>3, Zenon DEF GlobMoves
  <2> QED BY <2>1, <2>2, MovesBy, Zenon
<1> QED BY <1>2, <1>3

Compared(g, a, name, S, F) ==
  /\ IsAlternative(a, g) /\ Len(g) \in Nat /\ Len(name) \in Nat /\ ~Glob!Tripled(g)
  /\ SearchPlaces(a, name, S) /\ GlobPlaces(g, name, F)

LEMMA RowOfSearch ==
  ASSUME NEW g, NEW a, NEW name, NEW S, NEW F, Compared(g, a, name, S, F),
         NEW i \in 1 .. Len(g) + 2, NEW p \in 0 .. Len(name)
  PROVE  <<i, p>> \in S <=> \E q \in 0 .. Len(name) : Moves(a[i], name, p, q) /\ <<i + 1, q>> \in S
BY DEF Compared, SearchPlaces, IsAlternative

LEMMA LastRows ==
  ASSUME NEW g, NEW a, NEW name, NEW S, NEW F, Compared(g, a, name, S, F), NEW p \in 0 .. Len(name)
  PROVE  (<<Len(g) + 2, p>> \in S <=> p = Len(name)) /\ (<<Len(g) + 1, p>> \in F <=> p = Len(name))
<1>1. Len(g) \in Nat /\ Len(name) \in Nat /\ a[Len(g) + 2] = "$" /\ Len(a) = Len(g) + 2
  BY DEF Compared, IsAlternative
<1>2. Len(g) + 2 \in 1 .. Len(g) + 2 /\ (Len(g) + 2) + 1 = Len(a) + 1
  BY <1>1
<1>3. <<Len(g) + 2, p>> \in S
        <=> \E q \in 0 .. Len(name) : Moves("$", name, p, q) /\ <<Len(a) + 1, q>> \in S
  BY <1>1, <1>2, RowOfSearch
<1>4. \A q \in 0 .. Len(name) : <<Len(a) + 1, q>> \in S
  BY DEF Compared, SearchPlaces
<1>5. <<Len(g) + 2, p>> \in S <=> p = Len(name)
  BY <1>3, <1>4, MovesBy, Zenon
<1>6. <<Len(g) + 1, p>> \in F <=> p = Len(name)
  BY DEF Compared, GlobPlaces
<1> QED BY <1>5, <1>6

LEMMA RowOfOne ==
  ASSUME NEW g, NEW a, NEW name, NEW S, NEW F, Compared(g, a, name, S, F),
         NEW i \in 1 .. Len(g), ~TwoStars(g, i), NEW p \in 0 .. Len(name)
  PROVE  <<i, p>> \in F <=> \E q \in 0 .. Len(name) : GlobMoves(g, name, i, p, i + 1, q) /\ <<i + 1, q>> \in F
<1>1. <<i, p>> \in F <=> \E j \in i + 1 .. Len(g) + 1, q \in 0 .. Len(name) :
                           GlobMoves(g, name, i, p, j, q) /\ <<j, q>> \in F
  BY DEF Compared, GlobPlaces
<1>2. i + 1 \in i + 1 .. Len(g) + 1
  BY DEF Compared
<1>3. \A j, q : GlobMoves(g, name, i, p, j, q) => j = i + 1
  BY Zenon DEF GlobMoves
<1> QED BY <1>1, <1>2, <1>3, Zenon

LEMMA RowOfTwo ==
  ASSUME NEW g, NEW a, NEW name, NEW S, NEW F, Compared(g, a, name, S, F),
         NEW i \in 1 .. Len(g), TwoStars(g, i), NEW p \in 0 .. Len(name)
  PROVE  <<i, p>> \in F <=> /\ p < Len(name) /\ name[p + 1] # Glob!Dot
                            /\ \E q \in p + 2 .. Len(name) : <<i + 2, q>> \in F
<1>1. <<i, p>> \in F <=> \E j \in i + 1 .. Len(g) + 1, q \in 0 .. Len(name) :
                           GlobMoves(g, name, i, p, j, q) /\ <<j, q>> \in F
  BY DEF Compared, GlobPlaces
<1>2. i + 2 \in i + 1 .. Len(g) + 1 /\ g[i] = Glob!Star
  BY DEF Compared, TwoStars
<1>3. \A j, q : GlobMoves(g, name, i, p, j, q)
                  <=> j = i + 2 /\ p < Len(name) /\ name[p + 1] # Glob!Dot /\ q \in p + 2 .. Len(name)
  BY <1>2, Zenon DEF GlobMoves
<1>4. \A q \in p + 2 .. Len(name) : q \in 0 .. Len(name)
  BY DEF Compared
<1> QED BY <1>1, <1>2, <1>3, <1>4, Zenon

\* After a star or two, or a symbol, no second star follows.
LEMMA AfterStars ==
  ASSUME NEW g, Len(g) \in Nat, ~Glob!Tripled(g), g \in Seq(Symbol), NEW i \in 1 .. Len(g)
  PROVE  /\ ~TwoStars(g, i) => i + 1 \in 1 .. Len(g) + 1 /\ ~SecondStar(g, i + 1)
         /\ TwoStars(g, i) => i + 2 \in 1 .. Len(g) + 1 /\ ~SecondStar(g, i + 2)
<1>1. ~TwoStars(g, i) => i + 1 \in 1 .. Len(g) + 1 /\ ~SecondStar(g, i + 1)
  BY DEF TwoStars, SecondStar
<1>2. ASSUME TwoStars(g, i), SecondStar(g, i + 2) PROVE FALSE
  <2>1. i \in DOMAIN g /\ i + 2 \in DOMAIN g
    BY <1>2 DEF SecondStar
  <2>2. g[i] = Glob!Star /\ g[i + 1] = Glob!Star /\ g[i + 2] = Glob!Star
    BY <1>2 DEF SecondStar, TwoStars
  <2>3. \A k \in 0 .. 2 : g[i + k] = Glob!Star
    BY <2>2
  <2> QED BY <2>1, <2>3, Zenon DEF Glob!Tripled
<1>3. TwoStars(g, i) => i + 2 \in 1 .. Len(g) + 1
  BY DEF TwoStars
<1> QED BY <1>1, <1>2, <1>3

SameRow(S, F, n, i) == \A p \in 0 .. n : <<i + 1, p>> \in S <=> <<i, p>> \in F
WithinRow(S, F, n, i) == \A p \in 0 .. n : <<i, p>> \in F => <<i + 1, p>> \in S

LEMMA SameOne ==
  ASSUME NEW g, NEW a, NEW name, NEW S, NEW F, Compared(g, a, name, S, F),
         NEW i \in 1 .. Len(g), ~TwoStars(g, i)
  PROVE  /\ WithinRow(S, F, Len(name), i + 1) => WithinRow(S, F, Len(name), i)
         /\ (g[i] = Glob!Star => a[i + 1] = Glob!NotDots) /\ SameRow(S, F, Len(name), i + 1)
              => SameRow(S, F, Len(name), i)
<1>1. IsAlternative(a, g) /\ Len(g) \in Nat
  BY DEF Compared
<1>2. i + 1 \in 1 .. Len(g) + 2
  BY <1>1
<1>3. ASSUME NEW p \in 0 .. Len(name)
      PROVE  <<i, p>> \in F <=> \E q \in 0 .. Len(name) : GlobMoves(g, name, i, p, i + 1, q) /\ <<i + 1, q>> \in F
  BY RowOfOne
<1>4. ASSUME NEW p \in 0 .. Len(name)
      PROVE  <<i + 1, p>> \in S <=> \E q \in 0 .. Len(name) : Moves(a[i + 1], name, p, q) /\ <<(i + 1) + 1, q>> \in S
  BY <1>2, RowOfSearch
<1>5. \A p, q : GlobMoves(g, name, i, p, i + 1, q) => Moves(a[i + 1], name, p, q)
  BY <1>1, OneStep, Zenon
<1>6. ASSUME g[i] = Glob!Star => a[i + 1] = Glob!NotDots
      PROVE  \A p, q : Moves(a[i + 1], name, p, q) => GlobMoves(g, name, i, p, i + 1, q)
  BY <1>1, <1>6, OneStep, Zenon
<1>7. WithinRow(S, F, Len(name), i + 1) => WithinRow(S, F, Len(name), i)
  BY <1>3, <1>4, <1>5, Zenon DEF WithinRow
<1>8. (g[i] = Glob!Star => a[i + 1] = Glob!NotDots) /\ SameRow(S, F, Len(name), i + 1)
        => SameRow(S, F, Len(name), i)
  BY <1>3, <1>4, <1>5, <1>6, Zenon DEF SameRow
<1> QED BY <1>7, <1>8

LEMMA SameTwo ==
  ASSUME NEW g, NEW a, NEW name, NEW S, NEW F, Compared(g, a, name, S, F),
         NEW i \in 1 .. Len(g), TwoStars(g, i), a[i + 1] = Glob!NotDots,
         SameRow(S, F, Len(name), i + 2)
  PROVE  SameRow(S, F, Len(name), i)
<1> DEFINE n == Len(name)
<1>1. IsAlternative(a, g) /\ Len(g) \in Nat /\ n \in Nat
  BY DEF Compared
<1>2. i + 1 \in 1 .. Len(g) /\ i + 1 > 1 /\ (i + 1) - 1 = i /\ (i + 1) + 1 = i + 2 /\ (i + 2) + 1 = i + 3
  BY <1>1 DEF TwoStars
<1>3. a[i + 2] = Glob!Anything
  <2>1. TokensOf(g, a, i + 1)
    BY <1>1, <1>2, Zenon DEF IsAlternative
  <2>2. g[i] = Glob!Star /\ g[i + 1] = Glob!Star
    BY DEF TwoStars
  <2> QED BY <1>2, <2>1, <2>2 DEF TokensOf
<1>4. i + 1 \in 1 .. Len(g) + 2 /\ i + 2 \in 1 .. Len(g) + 2
  BY <1>1, <1>2
<1> SUFFICES ASSUME NEW p \in 0 .. n PROVE <<i + 1, p>> \in S <=> <<i, p>> \in F
  BY Zenon DEF SameRow
<1>5. \A q \in 0 .. n : <<i + 3, q>> \in S <=> <<i + 2, q>> \in F
  BY <1>2 DEF SameRow
<1>6. <<i + 1, p>> \in S <=> \E q \in 0 .. n : q \in p + 1 .. n /\ Glob!NoDot(name, p, q) /\ <<i + 2, q>> \in S
  <2>1. <<i + 1, p>> \in S <=> \E q \in 0 .. n : Moves(a[i + 1], name, p, q) /\ <<(i + 1) + 1, q>> \in S
    BY <1>4, RowOfSearch
  <2>2. (i + 1) + 1 = i + 2
    BY <1>2
  <2> QED BY <2>1, <2>2, MovesBy, Zenon
<1>7. \A r \in 0 .. n : <<i + 2, r>> \in S <=> \E q \in 0 .. n : q \in r + 1 .. n /\ <<i + 3, q>> \in S
  <2>1. ASSUME NEW r \in 0 .. n
        PROVE  <<i + 2, r>> \in S <=> \E q \in 0 .. n : Moves(a[i + 2], name, r, q) /\ <<(i + 2) + 1, q>> \in S
    BY <1>4, RowOfSearch
  <2>2. (i + 2) + 1 = i + 3
    BY <1>2
  <2> QED BY <1>3, <2>1, <2>2, MovesBy, Zenon
<1>8. <<i, p>> \in F <=> p < n /\ name[p + 1] # Glob!Dot /\ \E q \in p + 2 .. n : <<i + 2, q>> \in F
  BY RowOfTwo, Zenon
<1> HIDE DEF n
<1>9. ASSUME <<i + 1, p>> \in S PROVE <<i, p>> \in F
  <2>1. PICK r \in 0 .. n : r \in p + 1 .. n /\ Glob!NoDot(name, p, r) /\ <<i + 2, r>> \in S
    BY <1>6, <1>9
  <2>2. PICK q \in 0 .. n : q \in r + 1 .. n /\ <<i + 3, q>> \in S
    BY <1>7, <2>1
  <2>3. p < n /\ p + 1 \in p + 1 .. r /\ q \in p + 2 .. n
    BY <1>1, <2>1, <2>2
  <2>4. name[p + 1] # Glob!Dot
    BY <2>1, <2>3, Zenon DEF Glob!NoDot
  <2> QED BY <1>5, <1>8, <2>2, <2>3, <2>4, Zenon
<1>10. ASSUME <<i, p>> \in F PROVE <<i + 1, p>> \in S
  <2>1. PICK q \in p + 2 .. n : <<i + 2, q>> \in F /\ p < n /\ name[p + 1] # Glob!Dot
    BY <1>8, <1>10
  <2>2. q \in 0 .. n /\ q \in (p + 1) + 1 .. n /\ p + 1 \in 0 .. n /\ p + 1 \in p + 1 .. n
        /\ \A k \in p + 1 .. p + 1 : k = p + 1
    BY <1>1, <2>1
  <2>3. Glob!NoDot(name, p, p + 1)
    BY <2>1, <2>2, Zenon DEF Glob!NoDot
  <2>4. <<i + 2, p + 1>> \in S
    BY <1>5, <1>7, <2>1, <2>2, Zenon
  <2> QED BY <1>6, <2>2, <2>3, <2>4, Zenon
<1> QED BY <1>9, <1>10

\* What a double star that is a whole segment takes does not end with a dot.
LEMMA EndsSegment ==
  ASSUME NEW g, NEW a, NEW name, NEW S, NEW F, Compared(g, a, name, S, F), DOMAIN name = 1 .. Len(name),
         Glob!StarsAreSegments(g), Glob!WellFormedName(name),
         NEW i \in 1 .. Len(g), TwoStars(g, i), NEW q \in 1 .. Len(name), <<i + 2, q>> \in F
  PROVE  name[q] # Glob!Dot
<1> DEFINE n == Len(name)
<1>1. n \in Nat /\ Len(g) \in Nat /\ g \in Seq(Symbol) /\ ~Glob!Tripled(g)
  BY DEF Compared, IsAlternative
<1>2. \A k \in 1 .. n : name[k] = Glob!Dot => ~Glob!Boundary(name, k - 1) /\ ~Glob!Boundary(name, k + 1)
  BY DEF Glob!WellFormedName
<1>3. CASE i + 2 = Len(g) + 1
  <2>1. q = n
    <3>1. q \in 0 .. Len(name)
      BY <1>1
    <3>2. <<Len(g) + 1, q>> \in F <=> q = Len(name)
      BY <3>1, LastRows
    <3> QED BY <1>3, <3>2
  <2>2. Glob!Boundary(name, n + 1)
    <3>1. n + 1 \notin DOMAIN name
      BY <1>1
    <3> QED BY <3>1, Zenon DEF Glob!Boundary
  <2> QED BY <1>2, <2>1, <2>2, Zenon
<1>4. CASE i + 2 # Len(g) + 1
  <2>1. i + 1 \in DOMAIN g /\ i + 2 \in 1 .. Len(g) /\ (i + 1) + 1 = i + 2 /\ (i + 2) - 1 = i + 1 /\ i + 2 > 1
        /\ i + 2 <= Len(g)
    BY <1>1, <1>4 DEF TwoStars
  <2>2. g[i + 1] = Glob!Star /\ ~SecondStar(g, i + 2)
    BY <1>1, AfterStars DEF TwoStars
  <2>3. g[i + 2] # Glob!Star
    BY <2>1, <2>2, Zenon DEF SecondStar
  <2>4. Glob!Boundary(g, i + 2)
    BY <2>1, <2>2, <2>3, Zenon DEF Glob!StarsAreSegments
  <2>5. g[i + 2] = Glob!Dot
    <3>1. i + 2 \in DOMAIN g
      BY <1>1, <2>1
    <3> QED BY <2>4, <3>1, Zenon DEF Glob!Boundary
  <2>6. ~TwoStars(g, i + 2) /\ q \in 0 .. Len(name)
    BY <1>1, <2>3 DEF TwoStars
  <2>7. PICK r \in 0 .. n : GlobMoves(g, name, i + 2, q, (i + 2) + 1, r)
    <3>1. <<i + 2, q>> \in F <=> \E r \in 0 .. Len(name) :
             GlobMoves(g, name, i + 2, q, (i + 2) + 1, r) /\ <<(i + 2) + 1, r>> \in F
      BY <2>1, <2>6, RowOfOne
    <3> QED BY <3>1
  <2>8. q < n /\ name[q + 1] = Glob!Dot
    BY <2>3, <2>5, <2>6, <2>7, Zenon DEF GlobMoves
  <2>9. q + 1 \in 1 .. n /\ (q + 1) - 1 = q
    BY <1>1, <2>8
  <2>10. ~Glob!Boundary(name, q)
    BY <1>2, <2>8, <2>9
  <2> QED BY <2>10, Zenon DEF Glob!Boundary
<1> QED BY <1>3, <1>4

LEMMA RowAfterNext ==
  ASSUME NEW g, NEW a, NEW name, NEW S, NEW F, Compared(g, a, name, S, F),
         NEW i \in 1 .. Len(g), NEW r \in 0 .. Len(name)
  PROVE  <<i + 2, r>> \in S <=> \E x \in 0 .. Len(name) : Moves(a[i + 2], name, r, x) /\ <<(i + 2) + 1, x>> \in S
<1> DEFINE j == i + 2
<1>1. j \in 1 .. Len(g) + 2
  BY DEF Compared
<1> HIDE DEF j
<1>2. <<j, r>> \in S <=> \E x \in 0 .. Len(name) : Moves(a[j], name, r, x) /\ <<j + 1, x>> \in S
  BY <1>1, RowOfSearch
<1> QED BY <1>2 DEF j

LEMMA WithinTwo ==
  ASSUME NEW g, NEW a, NEW name, NEW S, NEW F, Compared(g, a, name, S, F), DOMAIN name = 1 .. Len(name),
         Glob!StarsAreSegments(g), Glob!WellFormedName(name),
         NEW i \in 1 .. Len(g), TwoStars(g, i), WithinRow(S, F, Len(name), i + 2)
  PROVE  WithinRow(S, F, Len(name), i)
<1> DEFINE n == Len(name)
<1>1. IsAlternative(a, g) /\ Len(g) \in Nat /\ n \in Nat
  BY DEF Compared
<1>2. i + 1 \in 1 .. Len(g) /\ i + 1 > 1 /\ (i + 1) - 1 = i /\ (i + 1) + 1 = i + 2 /\ (i + 2) + 1 = i + 3
      /\ i + 1 \in 1 .. Len(g) + 2 /\ i + 2 \in 1 .. Len(g) + 2
  BY <1>1 DEF TwoStars
<1>3. \/ a[i + 1] = Glob!NotDots /\ a[i + 2] = Glob!Anything
      \/ a[i + 1] = Glob!Anything /\ a[i + 2] = Glob!NotDots
  <2>1. TokensOf(g, a, i + 1) /\ TokensOf(g, a, i)
    BY <1>1, <1>2, Zenon DEF IsAlternative
  <2>2. g[i] = Glob!Star /\ g[i + 1] = Glob!Star
    BY DEF TwoStars
  <2>3. a[i + 1] \in {Glob!NotDots, Glob!Anything} /\ a[(i + 1) + 1] \in {Glob!NotDots, Glob!Anything}
        /\ a[(i + 1) + 1] # a[i + 1]
    BY <1>2, <2>1, <2>2, Zenon DEF TokensOf
  <2> QED BY <1>2, <2>3
<1> SUFFICES ASSUME NEW p \in 0 .. n, <<i, p>> \in F PROVE <<i + 1, p>> \in S
  BY Zenon DEF WithinRow
<1>4. PICK q \in p + 2 .. n : <<i + 2, q>> \in F /\ p < n /\ name[p + 1] # Glob!Dot
  BY RowOfTwo
<1>5. q \in 0 .. n /\ q \in 1 .. n /\ q \in (p + 1) + 1 .. n /\ p + 1 \in 0 .. n /\ p + 1 \in p + 1 .. n
      /\ q - 1 \in 0 .. n /\ q - 1 \in p + 1 .. n /\ q \in (q - 1) + 1 .. n
      /\ (\A k \in p + 1 .. p + 1 : k = p + 1) /\ \A k \in (q - 1) + 1 .. q : k = q
  BY <1>1, <1>4
<1>6. <<i + 3, q>> \in S
  BY <1>2, <1>4, <1>5 DEF WithinRow
<1>7. ASSUME NEW r \in 0 .. Len(name)
      PROVE  <<i + 2, r>> \in S <=> \E x \in 0 .. Len(name) : Moves(a[i + 2], name, r, x) /\ <<(i + 2) + 1, x>> \in S
  BY RowAfterNext
<1>8. ASSUME NEW r \in 0 .. n, Moves(a[i + 1], name, p, r), Moves(a[i + 2], name, r, q)
      PROVE  <<i + 1, p>> \in S
  <2>1. <<i + 1, p>> \in S <=> \E x \in 0 .. n : Moves(a[i + 1], name, p, x) /\ <<(i + 1) + 1, x>> \in S
    BY <1>2, RowOfSearch
  <2>2. <<i + 2, r>> \in S <=> \E x \in 0 .. n : Moves(a[i + 2], name, r, x) /\ <<(i + 2) + 1, x>> \in S
    BY <1>7
  <2>3. <<i + 2, r>> \in S
    BY <1>2, <1>5, <1>6, <1>8, <2>2, Zenon
  <2> QED BY <1>2, <1>8, <2>1, <2>3, Zenon
<1>9. CASE a[i + 1] = Glob!NotDots /\ a[i + 2] = Glob!Anything
  <2>1. Glob!NoDot(name, p, p + 1)
    BY <1>4, <1>5, Zenon DEF Glob!NoDot
  <2>2. Moves(a[i + 1], name, p, p + 1) /\ Moves(a[i + 2], name, p + 1, q)
    BY <1>5, <1>9, <2>1, MovesBy, Zenon
  <2> QED BY <1>5, <1>8, <2>2
<1>10. CASE a[i + 1] = Glob!Anything /\ a[i + 2] = Glob!NotDots
  <2>1. name[q] # Glob!Dot
    BY <1>4, <1>5, EndsSegment
  <2>2. Glob!NoDot(name, q - 1, q)
    BY <1>5, <2>1, Zenon DEF Glob!NoDot
  <2>3. Moves(a[i + 1], name, p, q - 1) /\ Moves(a[i + 2], name, q - 1, q)
    BY <1>5, <1>10, <2>2, MovesBy, Zenon
  <2> QED BY <1>5, <1>8, <2>3
<1> QED BY <1>3, <1>9, <1>10

\* From the end of the glob to its start.
LEMMA BackToStart ==
  ASSUME NEW L \in Nat, NEW P, L + 1 \in P,
         \A i \in 1 .. L : (\A j \in i + 1 .. L + 1 : j \in P) => i \in P
  PROVE  \A i \in 1 .. L + 1 : i \in P
<1> DEFINE S == {k \in Nat : \A i \in 1 .. L + 1 : i >= (L + 1) - k => i \in P}
<1>1. 0 \in S
  OBVIOUS
<1>2. ASSUME NEW k \in Nat, k \in S PROVE k + 1 \in S
  <2>1. SUFFICES ASSUME NEW i \in 1 .. L + 1, i >= (L + 1) - (k + 1) PROVE i \in P
    OBVIOUS
  <2>2. \A j \in i + 1 .. L + 1 : j \in P
    <3>1. \A j \in i + 1 .. L + 1 : j \in 1 .. L + 1 /\ j >= (L + 1) - k
      BY <2>1
    <3> QED BY <1>2, <3>1
  <2>3. i = L + 1 \/ i \in 1 .. L
    OBVIOUS
  <2> QED BY <2>2, <2>3
<1>3. L + 1 \in S
  <2> HIDE DEF S
  <2>1. L + 1 \in Nat
    OBVIOUS
  <2> QED BY <1>1, <1>2, <2>1, ByInduction
<1>4. \A i \in 1 .. L + 1 : i >= (L + 1) - (L + 1)
  OBVIOUS
<1> QED BY <1>3, <1>4

LEMMA SameAtStart ==
  ASSUME NEW g, NEW a, NEW name, NEW S, NEW F, Compared(g, a, name, S, F),
         \A i \in 1 .. Len(g) : g[i] = Glob!Star /\ ~SecondStar(g, i) => a[i + 1] = Glob!NotDots
  PROVE  SameRow(S, F, Len(name), 1)
<1> DEFINE L == Len(g)
           P == {i \in 1 .. L + 1 : SecondStar(g, i) \/ SameRow(S, F, Len(name), i)}
<1>1. L \in Nat /\ g \in Seq(Symbol) /\ ~Glob!Tripled(g)
  BY DEF Compared, IsAlternative
<1>2. L + 1 \in P
  <2>1. L + 1 \in 1 .. L + 1 /\ (L + 1) + 1 = L + 2
    BY <1>1
  <2>2. \A p \in 0 .. Len(name) : <<L + 2, p>> \in S <=> <<L + 1, p>> \in F
    BY LastRows
  <2>3. SameRow(S, F, Len(name), L + 1)
    BY <2>1, <2>2 DEF SameRow
  <2> QED BY <2>1, <2>3
<1>3. ASSUME NEW i \in 1 .. L, \A j \in i + 1 .. L + 1 : j \in P PROVE i \in P
  <2>1. SUFFICES ASSUME ~SecondStar(g, i) PROVE SameRow(S, F, Len(name), i)
    OBVIOUS
  <2>2. CASE TwoStars(g, i)
    <3>1. i + 2 \in i + 1 .. L + 1 /\ ~SecondStar(g, i + 2)
      BY <1>1, <2>2, AfterStars
    <3>2. SameRow(S, F, Len(name), i + 2)
      BY <1>3, <3>1
    <3>3. a[i + 1] = Glob!NotDots
      BY <2>1, <2>2 DEF TwoStars
    <3> QED BY <2>2, <3>2, <3>3, SameTwo
  <2>3. CASE ~TwoStars(g, i)
    <3>1. i + 1 \in i + 1 .. L + 1 /\ ~SecondStar(g, i + 1)
      BY <1>1, <2>3, AfterStars
    <3>2. SameRow(S, F, Len(name), i + 1)
      BY <1>3, <3>1
    <3>3. g[i] = Glob!Star => a[i + 1] = Glob!NotDots
      BY <2>1
    <3> QED BY <2>3, <3>2, <3>3, SameOne
  <2> QED BY <2>2, <2>3
<1>4. 1 \in 1 .. L + 1 /\ ~SecondStar(g, 1)
  BY <1>1 DEF SecondStar
<1>5. 1 \in P
  <2> HIDE DEF P, L
  <2> QED BY <1>1, <1>2, <1>3, <1>4, BackToStart
<1> QED BY <1>4, <1>5

LEMMA WithinAtStart ==
  ASSUME NEW g, NEW a, NEW name, NEW S, NEW F, Compared(g, a, name, S, F), DOMAIN name = 1 .. Len(name),
         Glob!StarsAreSegments(g), Glob!WellFormedName(name)
  PROVE  WithinRow(S, F, Len(name), 1)
<1> DEFINE L == Len(g)
           P == {i \in 1 .. L + 1 : SecondStar(g, i) \/ WithinRow(S, F, Len(name), i)}
<1>1. L \in Nat /\ g \in Seq(Symbol) /\ ~Glob!Tripled(g)
  BY DEF Compared, IsAlternative
<1>2. L + 1 \in P
  <2>1. L + 1 \in 1 .. L + 1 /\ (L + 1) + 1 = L + 2
    BY <1>1
  <2>2. \A p \in 0 .. Len(name) : <<L + 2, p>> \in S <=> <<L + 1, p>> \in F
    BY LastRows
  <2>3. WithinRow(S, F, Len(name), L + 1)
    BY <2>1, <2>2 DEF WithinRow
  <2> QED BY <2>1, <2>3
<1>3. ASSUME NEW i \in 1 .. L, \A j \in i + 1 .. L + 1 : j \in P PROVE i \in P
  <2>1. SUFFICES ASSUME ~SecondStar(g, i) PROVE WithinRow(S, F, Len(name), i)
    OBVIOUS
  <2>2. CASE TwoStars(g, i)
    <3>1. i + 2 \in i + 1 .. L + 1 /\ ~SecondStar(g, i + 2)
      BY <1>1, <2>2, AfterStars
    <3>2. WithinRow(S, F, Len(name), i + 2)
      BY <1>3, <3>1
    <3> QED BY <2>2, <3>2, WithinTwo
  <2>3. CASE ~TwoStars(g, i)
    <3>1. i + 1 \in i + 1 .. L + 1 /\ ~SecondStar(g, i + 1)
      BY <1>1, <2>3, AfterStars
    <3>2. WithinRow(S, F, Len(name), i + 1)
      BY <1>3, <3>1
    <3> QED BY <2>3, <3>2, SameOne
  <2> QED BY <2>2, <2>3
<1>4. 1 \in 1 .. L + 1 /\ ~SecondStar(g, 1)
  BY <1>1 DEF SecondStar
<1>5. 1 \in P
  <2> HIDE DEF P, L
  <2> QED BY <1>1, <1>2, <1>3, <1>4, BackToStart
<1> QED BY <1>4, <1>5

LEMMA OnlyOne ==
  ASSUME NEW T, IsFiniteSet(T), Cardinality(T) <= 1, NEW x \in T, NEW y \in T
  PROVE  x = y
<1> SUFFICES ASSUME x # y PROVE FALSE
  OBVIOUS
<1>1. Cardinality({x}) = 1 /\ IsFiniteSet({x})
  BY FS_Singleton
<1>2. IsFiniteSet({x} \cup {y}) /\ Cardinality({x} \cup {y}) = 2
  <2> DEFINE X == {x}
  <2>1. IsFiniteSet(X) /\ Cardinality(X) = 1 /\ y \notin X
    BY <1>1
  <2> HIDE DEF X
  <2>2. IsFiniteSet(X \cup {y}) /\ Cardinality(X \cup {y}) = Cardinality(X) + 1
    BY <2>1, FS_AddElement
  <2>3. IsFiniteSet(X \cup {y}) /\ Cardinality(X \cup {y}) = 2
    BY <2>1, <2>2
  <2> QED BY <2>3 DEF X
<1>3. Cardinality({x} \cup {y}) <= Cardinality(T)
  <2>1. {x} \cup {y} \subseteq T
    OBVIOUS
  <2> QED BY <2>1, FS_Subset
<1>4. Cardinality(T) \in Nat
  BY FS_CardinalityType
<1> QED BY <1>2, <1>3, <1>4

\* With one run of stars, no star comes before the first one of that run.
LEMMA OneRun ==
  ASSUME NEW g \in Seq(Symbol), Cardinality(Glob!StarRuns(g)) <= 1,
         NEW i \in 1 .. Len(g), g[i] = Glob!Star, ~SecondStar(g, i), NEW k \in 1 .. i - 1
  PROVE  g[k] # Glob!Star
<1> SUFFICES ASSUME g[k] = Glob!Star PROVE FALSE
  OBVIOUS
<1> DEFINE L == Len(g)
           T == {j \in 1 .. L : j < i /\ g[j] = Glob!Star}
           m == Min(T)
<1>1. L \in Nat /\ DOMAIN g = 1 .. L
  OBVIOUS
<1>2. m \in T /\ \A y \in T : m <= y
  <2>1. T \in SUBSET (1 .. L) /\ k \in T
    BY <1>1
  <2> HIDE DEF T, L
  <2> QED BY <1>1, <2>1, SmallestIsThere
<1> HIDE DEF m
<1>3. m \in 1 .. L /\ m < i /\ g[m] = Glob!Star
  BY <1>2
<1>4. m = 1 \/ g[m - 1] # Glob!Star
  <2>1. SUFFICES ASSUME m # 1, g[m - 1] = Glob!Star PROVE FALSE
    OBVIOUS
  <2>2. m - 1 \in T
    BY <1>1, <1>3, <2>1
  <2>3. ~(m <= m - 1)
    BY <1>3
  <2> QED BY <1>2, <2>2, <2>3
<1>5. m \in Glob!StarRuns(g)
  BY <1>1, <1>3, <1>4 DEF Glob!StarRuns
<1>6. i \in Glob!StarRuns(g)
  <2>1. i = 1 \/ g[i - 1] # Glob!Star
    BY DEF SecondStar
  <2> QED BY <1>1, <2>1 DEF Glob!StarRuns
<1>7. IsFiniteSet(Glob!StarRuns(g))
  <2>1. Glob!StarRuns(g) \subseteq 1 .. L
    BY <1>1 DEF Glob!StarRuns
  <2>2. IsFiniteSet(1 .. L)
    BY <1>1, FS_Interval
  <2> QED BY <2>1, <2>2, FS_Subset
<1>8. m = i
  BY <1>5, <1>6, <1>7, OnlyOne
<1> QED BY <1>3, <1>8

LEMMA AtStart ==
  ASSUME NEW g, NEW a, NEW name, NEW S, NEW F, Compared(g, a, name, S, F)
  PROVE  (\E p \in 0 .. Len(name) : <<1, p>> \in S) <=> <<2, 0>> \in S
<1>1. Len(g) \in Nat /\ Len(name) \in Nat /\ a[1] = "^"
  BY DEF Compared, IsAlternative
<1>2. 1 \in 1 .. Len(g) + 2 /\ 1 + 1 = 2 /\ 0 \in 0 .. Len(name)
  BY <1>1
<1>3. ASSUME NEW p \in 0 .. Len(name)
      PROVE  <<1, p>> \in S <=> \E q \in 0 .. Len(name) : Moves("^", name, p, q) /\ <<1 + 1, q>> \in S
  BY <1>1, <1>2, RowOfSearch
<1>4. \A p, q : Moves("^", name, p, q) <=> p = 0 /\ q = p
  BY MovesBy, Zenon
<1>5. \A p \in 0 .. Len(name) : <<1, p>> \in S <=> p = 0 /\ <<2, 0>> \in S
  <2> SUFFICES ASSUME NEW p \in 0 .. Len(name) PROVE <<1, p>> \in S <=> p = 0 /\ <<2, 0>> \in S
    OBVIOUS
  <2>1. <<1, p>> \in S <=> \E q \in 0 .. Len(name) : p = 0 /\ q = p /\ <<1 + 1, q>> \in S
    BY <1>3, <1>4
  <2> QED BY <1>2, <2>1
<1> QED BY <1>2, <1>5, Zenon

LEMMA AlternativeIsMeant ==
  ASSUME NEW g, NEW a, NEW name, IsAlternative(a, g), Len(name) \in Nat, ~Glob!Tripled(g),
         Cardinality(Glob!StarRuns(g)) <= 1
  PROVE  Glob!Search(a, name) <=> Glob!GlobMatches(g, name)
<1>1. g \in Seq(Symbol) /\ Len(g) \in Nat /\ Len(a) \in Nat
  BY LenProperties DEF IsAlternative
<1>2. PICK S : SearchPlaces(a, name, S) /\ (Glob!Search(a, name) <=> \E p \in 0 .. Len(name) : <<1, p>> \in S)
  BY <1>1, SearchIs
<1>3. PICK F : GlobPlaces(g, name, F) /\ (Glob!GlobMatches(g, name) <=> <<1, 0>> \in F)
  BY <1>1, GlobMatchesIs
<1>4. Compared(g, a, name, S, F)
  BY <1>1, <1>2, <1>3 DEF Compared
<1>5. ASSUME NEW i \in 1 .. Len(g), g[i] = Glob!Star, ~SecondStar(g, i) PROVE a[i + 1] = Glob!NotDots
  <2>1. \A k \in 1 .. i - 1 : g[k] # Glob!Star
    BY <1>1, <1>5, OneRun
  <2>2. TokensOf(g, a, i)
    BY DEF IsAlternative
  <2> QED BY <1>5, <2>1, <2>2, Zenon DEF TokensOf
<1>6. SameRow(S, F, Len(name), 1)
  BY <1>4, <1>5, SameAtStart
<1>7. <<2, 0>> \in S <=> <<1, 0>> \in F
  BY <1>6 DEF SameRow
<1>8. (\E p \in 0 .. Len(name) : <<1, p>> \in S) <=> <<2, 0>> \in S
  BY <1>4, AtStart
<1> QED BY <1>2, <1>3, <1>7, <1>8

LEMMA AlternativeFindsMeant ==
  ASSUME NEW g, NEW a, NEW name, IsAlternative(a, g), Len(name) \in Nat, DOMAIN name = 1 .. Len(name),
         ~Glob!Tripled(g), Glob!StarsAreSegments(g), Glob!WellFormedName(name),
         Glob!GlobMatches(g, name)
  PROVE  Glob!Search(a, name)
<1>1. g \in Seq(Symbol) /\ Len(g) \in Nat /\ Len(a) \in Nat
  BY LenProperties DEF IsAlternative
<1>2. PICK S : SearchPlaces(a, name, S) /\ (Glob!Search(a, name) <=> \E p \in 0 .. Len(name) : <<1, p>> \in S)
  BY <1>1, SearchIs
<1>3. PICK F : GlobPlaces(g, name, F) /\ (Glob!GlobMatches(g, name) <=> <<1, 0>> \in F)
  BY <1>1, GlobMatchesIs
<1>4. Compared(g, a, name, S, F)
  BY <1>1, <1>2, <1>3 DEF Compared
<1>5. WithinRow(S, F, Len(name), 1)
  BY <1>4, WithinAtStart
<1>6. <<1, 0>> \in F => <<2, 0>> \in S
  BY <1>5 DEF WithinRow
<1>7. (\E p \in 0 .. Len(name) : <<1, p>> \in S) <=> <<2, 0>> \in S
  BY <1>4, AtStart
<1> QED BY <1>2, <1>3, <1>6, <1>7

-----------------------------------------------------------------------------
(***************************************************************************)
(* The alternatives of an expression are those of its globs, one each.     *)
(***************************************************************************)
Rises(s, N) == (\A k \in 1 .. N + 1 : s[k] \in Nat) /\ \A k \in 1 .. N : s[k] < s[k + 1]

LEMMA Rising ==
  ASSUME NEW N \in Nat, NEW s, Rises(s, N), NEW j \in 1 .. N + 1, NEW k \in 1 .. N + 1, j < k
  PROVE  s[j] < s[k]
<1> DEFINE S == {d \in Nat : j + d \in 1 .. N + 1 => s[j] + d <= s[j + d]}
<1>1. 0 \in S
  <2>1. s[j] \in Nat /\ j + 0 = j
    BY DEF Rises
  <2> QED BY <2>1
<1>2. ASSUME NEW d \in Nat, d \in S PROVE d + 1 \in S
  <2>1. SUFFICES ASSUME j + (d + 1) \in 1 .. N + 1 PROVE s[j] + (d + 1) <= s[j + (d + 1)]
    OBVIOUS
  <2> DEFINE x == j + d
  <2>2. x \in 1 .. N /\ x \in 1 .. N + 1 /\ x + 1 \in 1 .. N + 1 /\ j + (d + 1) = x + 1
    BY <2>1
  <2>3. s[j] + d <= s[x]
    BY <1>2, <2>2
  <2> HIDE DEF x
  <2>4. s[x] < s[x + 1] /\ s[x] \in Nat /\ s[x + 1] \in Nat /\ s[j] \in Nat
    BY <2>2 DEF Rises
  <2>5. s[j] + (d + 1) <= s[x + 1]
    BY <2>3, <2>4
  <2> QED BY <2>2, <2>5
<1>3. \A d \in Nat : d \in S
  <2> HIDE DEF S
  <2> QED BY <1>1, <1>2, ByInduction
<1>4. k - j \in Nat /\ j + (k - j) = k /\ k - j > 0
  OBVIOUS
<1>5. s[j] + (k - j) <= s[k]
  BY <1>3, <1>4
<1>6. s[j] \in Nat /\ s[k] \in Nat
  BY DEF Rises
<1> QED BY <1>4, <1>5, <1>6

\* i is at one of the places, or between two.
AtPlace(s, N, i) == \E k \in 1 .. N + 1 : i = s[k]
BetweenPlaces(s, N, i) == \E k \in 1 .. N : s[k] < i /\ i < s[k + 1]

LEMMA Covered ==
  ASSUME NEW N \in Nat, NEW s, Rises(s, N), NEW i \in Nat, s[1] <= i, i <= s[N + 1]
  PROVE  AtPlace(s, N, i) \/ BetweenPlaces(s, N, i)
<1> DEFINE C == AtPlace(s, N, i) \/ BetweenPlaces(s, N, i)
           S == {d \in Nat : d <= N /\ i <= s[1 + d] => C}
<1>1. 0 \in S
  <2>1. 1 \in 1 .. N + 1 /\ s[1] \in Nat /\ 1 + 0 = 1
    BY DEF Rises
  <2>2. i <= s[1] => i = s[1]
    BY <2>1
  <2>3. i <= s[1] => AtPlace(s, N, i)
    BY <2>1, <2>2 DEF AtPlace
  <2> QED BY <2>1, <2>3
<1>2. ASSUME NEW d \in Nat, d \in S PROVE d + 1 \in S
  <2>1. SUFFICES ASSUME d + 1 <= N, i <= s[1 + (d + 1)] PROVE C
    OBVIOUS
  <2> DEFINE x == 1 + d
  <2>2. x \in 1 .. N /\ x + 1 \in 1 .. N + 1 /\ x + 1 = 1 + (d + 1) /\ d <= N /\ x \in 1 .. N + 1
    BY <2>1
  <2>3. s[x] \in Nat /\ s[x + 1] \in Nat
    BY <2>2 DEF Rises
  <2>4. CASE i <= s[x]
    BY <1>2, <2>2, <2>4
  <2>5. CASE i = s[x + 1]
    BY <2>2, <2>5 DEF AtPlace
  <2>6. CASE ~(i <= s[x]) /\ i # s[x + 1]
    <3>1. s[x] < i /\ i < s[x + 1]
      BY <2>1, <2>2, <2>3, <2>6
    <3> QED BY <2>2, <3>1 DEF BetweenPlaces
  <2> QED BY <2>4, <2>5, <2>6
<1>3. N \in S
  <2> HIDE DEF S
  <2> QED BY <1>1, <1>2, ByInduction
<1>4. 1 + N = N + 1
  OBVIOUS
<1> QED BY <1>3, <1>4

Neighbours(C) == {c \in C \X C : c[1] < c[2] /\ ~\E x \in C : c[1] < x /\ x < c[2]}

LEMMA NeighboursAre ==
  ASSUME NEW N \in Nat, NEW s, Rises(s, N), NEW C, C = {s[k] : k \in 1 .. N + 1}
  PROVE  Neighbours(C) = {<<s[k], s[k + 1]>> : k \in 1 .. N}
<1> DEFINE W == Neighbours(C)
<1>1. \A k \in 1 .. N + 1 : s[k] \in Nat
  BY DEF Rises
<1>2. ASSUME NEW c \in W PROVE \E k \in 1 .. N : c = <<s[k], s[k + 1]>>
  <2>1. c = <<c[1], c[2]>> /\ c[1] \in C /\ c[2] \in C /\ c[1] < c[2] /\ ~\E x \in C : c[1] < x /\ x < c[2]
    BY DEF Neighbours
  <2>2. PICK j \in 1 .. N + 1, k \in 1 .. N + 1 : c[1] = s[j] /\ c[2] = s[k]
    BY <2>1
  <2>3. j < k
    <3>1. CASE j = k
      BY <1>1, <2>1, <2>2, <3>1
    <3>2. CASE k < j
      <4>1. s[k] < s[j]
        BY <3>2, Rising
      <4> QED BY <1>1, <2>1, <2>2, <4>1
    <3> QED BY <3>1, <3>2
  <2>4. j \in 1 .. N /\ j + 1 \in 1 .. N + 1
    BY <2>3
  <2>5. k = j + 1
    <3>1. SUFFICES ASSUME j + 1 < k PROVE FALSE
      BY <2>3
    <3>2. s[j] < s[j + 1] /\ s[j + 1] < s[k]
      BY <2>4, <3>1, Rising DEF Rises
    <3>3. s[j + 1] \in C
      BY <2>4
    <3> QED BY <2>1, <2>2, <3>2, <3>3
  <2> QED BY <2>1, <2>2, <2>4, <2>5
<1>3. ASSUME NEW k \in 1 .. N PROVE <<s[k], s[k + 1]>> \in W
  <2>1. k \in 1 .. N + 1 /\ k + 1 \in 1 .. N + 1 /\ s[k] < s[k + 1]
    BY DEF Rises
  <2>2. s[k] \in C /\ s[k + 1] \in C
    BY <2>1
  <2>3. ASSUME NEW x \in C, s[k] < x, x < s[k + 1] PROVE FALSE
    <3>1. PICK j \in 1 .. N + 1 : x = s[j]
      OBVIOUS
    <3>2. CASE j < k
      <4>1. s[j] < s[k]
        BY <2>1, <3>2, Rising
      <4> QED BY <1>1, <2>1, <2>3, <3>1, <4>1
    <3>3. CASE j > k + 1
      <4>1. s[k + 1] < s[j]
        BY <2>1, <3>3, Rising
      <4> QED BY <1>1, <2>1, <2>3, <3>1, <4>1
    <3>4. CASE j = k \/ j = k + 1
      BY <1>1, <2>1, <2>3, <3>1, <3>4
    <3> QED BY <3>2, <3>3, <3>4
  <2> DEFINE c == <<s[k], s[k + 1]>>
  <2>4. c \in C \X C /\ c[1] = s[k] /\ c[2] = s[k + 1]
    BY <2>2
  <2> HIDE DEF c
  <2>5. c \in W
    BY <2>1, <2>3, <2>4 DEF Neighbours
  <2> QED BY <2>5 DEF c
<1> HIDE DEF W
<1>4. W = {<<s[k], s[k + 1]>> : k \in 1 .. N}
  BY <1>2, <1>3
<1> QED BY <1>4 DEF W

Part(s, m, n) == SubSeq(s, m, n)

\* The bars of e stand at the places of s that are not its first or last.
BarsAre(e, s, N) == \A i \in 1 .. Len(e) : e[i] = "|" <=> \E k \in 2 .. N : i = s[k]
PartsOf(e, s, N) == {Part(e, s[k] + 1, s[k + 1] - 1) : k \in 1 .. N}

LEMMA SplitOf ==
  ASSUME NEW e, Len(e) \in Nat, DOMAIN e = 1 .. Len(e), NEW N \in Nat, N >= 1, NEW s, Rises(s, N),
         s[1] = 0, s[N + 1] = Len(e) + 1,
         BarsAre(e, s, N)
  PROVE  Glob!Split(e) = PartsOf(e, s, N)
<1> DEFINE C == Glob!Bars(e) \cup {0, Len(e) + 1}
           Places == {s[k] : k \in 1 .. N + 1}
           W == Neighbours(C)
<1>1. C = Places
  <2>1. ASSUME NEW x \in Glob!Bars(e) PROVE x \in Places
    <3>1. x \in 1 .. Len(e) /\ e[x] = "|"
      BY DEF Glob!Bars
    <3>2. PICK k \in 2 .. N : x = s[k]
      BY <3>1 DEF BarsAre
    <3>3. k \in 1 .. N + 1
      OBVIOUS
    <3> QED BY <3>2, <3>3
  <2>2. 0 \in Places /\ Len(e) + 1 \in Places
    <3>1. 1 \in 1 .. N + 1 /\ N + 1 \in 1 .. N + 1
      OBVIOUS
    <3> QED BY <3>1
  <2>3. ASSUME NEW k \in 1 .. N + 1 PROVE s[k] \in C
    <3>1. CASE k = 1 \/ k = N + 1
      BY <3>1
    <3>2. CASE k # 1 /\ k # N + 1
      <4>1. k \in 2 .. N /\ 1 \in 1 .. N + 1 /\ N + 1 \in 1 .. N + 1 /\ 1 < k /\ k < N + 1
        BY <3>2
      <4>2. s[1] < s[k] /\ s[k] < s[N + 1] /\ s[k] \in Nat
        BY <4>1, Rising DEF Rises
      <4>3. s[k] \in 1 .. Len(e)
        BY <4>2
      <4>4. e[s[k]] = "|"
        BY <4>1, <4>3 DEF BarsAre
      <4> QED BY <4>3, <4>4 DEF Glob!Bars
    <3> QED BY <3>1, <3>2
  <2> HIDE DEF C
  <2>4. \A x \in C : x \in Places
    BY <2>1, <2>2 DEF C
  <2> QED BY <2>3, <2>4
<1>2. W = {<<s[k], s[k + 1]>> : k \in 1 .. N}
  <2>1. C = {s[k] : k \in 1 .. N + 1}
    BY <1>1
  <2> HIDE DEF C
  <2> QED BY <2>1, NeighboursAre
<1>3. Glob!Split(e) = {SubSeq(e, c[1] + 1, c[2] - 1) : c \in W}
  BY Zenon DEF Glob!Split, Neighbours
<1> HIDE DEF W, C, Places
<1>4. \A k \in 1 .. N : <<s[k], s[k + 1]>>[1] = s[k] /\ <<s[k], s[k + 1]>>[2] = s[k + 1]
  OBVIOUS
<1> DEFINE part(x, y) == Part(e, x + 1, y - 1)
<1>5. Glob!Split(e) = {part(c[1], c[2]) : c \in W}
  BY <1>3 DEF Part
<1> HIDE DEF part
<1>6. {part(c[1], c[2]) : c \in W} = {part(s[k], s[k + 1]) : k \in 1 .. N}
  <2>1. ASSUME NEW c \in W PROVE \E k \in 1 .. N : part(c[1], c[2]) = part(s[k], s[k + 1])
    <3>1. PICK k \in 1 .. N : c = <<s[k], s[k + 1]>>
      BY <1>2
    <3> QED BY <3>1
  <2>2. ASSUME NEW k \in 1 .. N PROVE \E c \in W : part(s[k], s[k + 1]) = part(c[1], c[2])
    <3> DEFINE c == <<s[k], s[k + 1]>>
    <3>1. c \in W /\ c[1] = s[k] /\ c[2] = s[k + 1]
      BY <1>2
    <3> HIDE DEF c
    <3> QED BY <3>1
  <2> QED BY <2>1, <2>2
<1> QED BY <1>5, <1>6 DEF part, PartsOf

\* The tokens of a glob, after the place o of an expression.
TokensAt(g, e, o, i) ==
  /\ g[i] # Glob!Star => e[o + i] = g[i]
  /\ g[i] = Glob!Star => e[o + i] \in {Glob!NotDots, Glob!Anything}
  /\ g[i] = Glob!Star /\ (\A k \in 1 .. i - 1 : g[k] # Glob!Star) => e[o + i] = Glob!NotDots
  /\ g[i] = Glob!Star /\ i > 1 /\ g[i - 1] = Glob!Star => e[o + i] # e[o + (i - 1)]

LEMMA TokensMoved ==
  ASSUME NEW g, NEW e, NEW o, NEW i, TokensAt(g, e, o, i), NEW a, a[i + 1] = e[o + i],
         i > 1 => a[i] = e[o + (i - 1)]
  PROVE  TokensOf(g, a, i)
BY Zenon DEF TokensAt, TokensOf

LEMMA TokensPlain ==
  ASSUME NEW g \in Seq(Symbol), NEW i \in 1 .. Len(g), NEW e, NEW o, TokensAt(g, e, o, i)
  PROVE  e[o + i] # "(" /\ e[o + i] # ")" /\ e[o + i] # "|"
<1>1. CASE g[i] # Glob!Star
  <2>1. e[o + i] \in Char
    BY <1>1, CharOf DEF TokensAt
  <2> QED BY <2>1, TokensApart, Zenon
<1>2. CASE g[i] = Glob!Star
  <2>1. e[o + i] = Glob!NotDots \/ e[o + i] = Glob!Anything
    BY <1>2 DEF TokensAt
  <2> QED BY <2>1, TokensApart
<1> QED BY <1>1, <1>2

\* e is the expression of the globs gs: s[k] is the place before the tokens of the k-th
\* glob, and the last of s the place after those of the last.
Laid(e, gs, s) ==
  /\ gs \in Seq(Seq(Symbol)) /\ Len(gs) >= 1 /\ e \in Seq(Glob!Token)
  /\ \A k \in 1 .. Len(gs) + 1 : s[k] \in Nat
  /\ \A k \in 1 .. Len(gs) : s[k + 1] = (s[k] + Len(gs[k])) + 1
  /\ \A k \in 1 .. Len(gs) : \A i \in 1 .. Len(gs[k]) : TokensAt(gs[k], e, s[k], i)
  /\ e[1] = "^" /\ e[Len(e)] = "$"
  /\ Len(gs) = 1 => s[1] = 1 /\ Len(e) = s[2]
  /\ Len(gs) > 1 => /\ s[1] = 2 /\ e[2] = "(" /\ Len(e) = s[Len(gs) + 1] + 1 /\ e[s[Len(gs) + 1]] = ")"
                    /\ \A k \in 2 .. Len(gs) : e[s[k]] = "|"

LEMMA LaidTypes ==
  ASSUME NEW e, NEW gs, NEW s, Laid(e, gs, s)
  PROVE  /\ Len(gs) \in Nat /\ Len(gs) >= 1 /\ Len(e) \in Nat /\ DOMAIN e = 1 .. Len(e)
         /\ \A k \in 1 .. Len(gs) : gs[k] \in Seq(Symbol) /\ Len(gs[k]) \in Nat
         /\ Rises(s, Len(gs))
<1>1. gs \in Seq(Seq(Symbol)) /\ e \in Seq(Glob!Token) /\ Len(gs) >= 1
  BY DEF Laid
<1>2. Len(gs) \in Nat /\ Len(e) \in Nat /\ DOMAIN e = 1 .. Len(e)
  BY <1>1, LenProperties
<1>3. \A k \in 1 .. Len(gs) : gs[k] \in Seq(Symbol)
  <2> DEFINE Y == Seq(Symbol)
  <2>1. gs \in Seq(Y)
    BY <1>1
  <2> HIDE DEF Y
  <2>2. \A k \in 1 .. Len(gs) : gs[k] \in Y
    BY <2>1, ElementOf
  <2> QED BY <2>2 DEF Y
<1>4. \A k \in 1 .. Len(gs) : Len(gs[k]) \in Nat
  BY <1>3, LenProperties
<1>5. Rises(s, Len(gs))
  <2>1. ASSUME NEW k \in 1 .. Len(gs) PROVE s[k] < s[k + 1]
    <3>1. s[k] \in Nat /\ s[k + 1] = (s[k] + Len(gs[k])) + 1 /\ Len(gs[k]) \in Nat
      BY <1>2, <1>4 DEF Laid
    <3> QED BY <3>1
  <2>2. \A k \in 1 .. Len(gs) + 1 : s[k] \in Nat
    BY DEF Laid
  <2> QED BY <2>1, <2>2 DEF Rises
<1> QED BY <1>1, <1>2, <1>3, <1>4, <1>5

LEMMA PartOf ==
  ASSUME NEW Y, NEW s \in Seq(Y), NEW m \in Nat, NEW n \in Nat, m >= 1, n <= Len(s), m <= n + 1
  PROVE  /\ Part(s, m, n) \in Seq(Y)
         /\ Len(Part(s, m, n)) = (n + 1) - m
         /\ \A i \in 1 .. (n + 1) - m : Part(s, m, n)[i] = s[(m + i) - 1]
<1>1. \A i \in m .. n : s[i] \in Y
  BY ElementOf
<1>2. /\ SubSeq(s, m, n) \in Seq(Y)
      /\ Len(SubSeq(s, m, n)) = IF m <= n THEN n - m + 1 ELSE 0
      /\ \A i \in 1 .. n - m + 1 : SubSeq(s, m, n)[i] = s[m + i - 1]
  BY <1>1, SubSeqProperties
<1> HIDE DEF Part
<1>3. Part(s, m, n) = SubSeq(s, m, n)
  BY DEF Part
<1>4. (n + 1) - m = n - m + 1 /\ (m > n => n - m + 1 = 0)
  OBVIOUS
<1>5. \A i \in Nat : m + i - 1 = (m + i) - 1
  OBVIOUS
<1> QED BY <1>2, <1>3, <1>4, <1>5

LEMMA GluedOf ==
  ASSUME NEW Y, NEW s \in Seq(Y), NEW t \in Seq(Y)
  PROVE  /\ Glued(s, t) \in Seq(Y)
         /\ Len(Glued(s, t)) = Len(s) + Len(t)
         /\ \A i \in 1 .. Len(s) : Glued(s, t)[i] = s[i]
         /\ \A i \in 1 .. Len(t) : Glued(s, t)[Len(s) + i] = t[i]
<1>1. Len(s) \in Nat /\ Len(t) \in Nat
  BY LenProperties
<1>2. /\ s \o t \in Seq(Y) /\ Len(s \o t) = Len(s) + Len(t)
      /\ \A i \in 1 .. Len(s) + Len(t) : (s \o t)[i] = IF i <= Len(s) THEN s[i] ELSE t[i - Len(s)]
  BY ConcatProperties
<1> DEFINE w == Glued(s, t)
<1>3. /\ w \in Seq(Y) /\ Len(w) = Len(s) + Len(t)
      /\ \A i \in 1 .. Len(s) + Len(t) : w[i] = IF i <= Len(s) THEN s[i] ELSE t[i - Len(s)]
  BY <1>2 DEF Glued
<1> HIDE DEF w
<1>4. ASSUME NEW i \in 1 .. Len(s) PROVE w[i] = s[i]
  BY <1>1, <1>3
<1>5. ASSUME NEW i \in 1 .. Len(t) PROVE w[Len(s) + i] = t[i]
  <2>1. Len(s) + i \in 1 .. Len(s) + Len(t) /\ ~(Len(s) + i <= Len(s)) /\ (Len(s) + i) - Len(s) = i
    BY <1>1
  <2> QED BY <1>3, <2>1
<1> QED BY <1>3, <1>4, <1>5 DEF w

LEMMA PartLen ==
  ASSUME NEW Y, NEW s \in Seq(Y), NEW m \in Nat, NEW n \in Nat, m >= 1, n <= Len(s), m <= n + 1
  PROVE  Part(s, m, n) \in Seq(Y) /\ Len(Part(s, m, n)) = (n + 1) - m
BY PartOf

LEMMA PartAt ==
  ASSUME NEW Y, NEW s \in Seq(Y), NEW m \in Nat, NEW n \in Nat, m >= 1, n <= Len(s), m <= n + 1,
         NEW i \in 1 .. (n + 1) - m
  PROVE  Part(s, m, n)[i] = s[(m + i) - 1]
BY PartOf

LEMMA PartOne ==
  ASSUME NEW Y, NEW s \in Seq(Y), NEW m \in 1 .. Len(s)
  PROVE  Part(s, m, m) \in Seq(Y) /\ Len(Part(s, m, m)) = 1 /\ Part(s, m, m)[1] = s[m]
<1> DEFINE u == 1
<1>1. m \in Nat /\ m >= 1 /\ m <= Len(s) /\ m <= m + 1 /\ (m + 1) - m = 1 /\ (m + u) - 1 = m
      /\ u \in 1 .. (m + 1) - m /\ u = 1
  BY LenProperties
<1> HIDE DEF u
<1>2. Part(s, m, m) \in Seq(Y) /\ Len(Part(s, m, m)) = (m + 1) - m
  BY <1>1, PartLen
<1>3. Part(s, m, m)[u] = s[(m + u) - 1]
  BY <1>1, PartAt
<1> QED BY <1>1, <1>2, <1>3

LEMMA GluedLen ==
  ASSUME NEW Y, NEW s \in Seq(Y), NEW t \in Seq(Y)
  PROVE  Glued(s, t) \in Seq(Y) /\ Len(Glued(s, t)) = Len(s) + Len(t)
BY GluedOf

LEMMA GluedFirst ==
  ASSUME NEW Y, NEW s \in Seq(Y), NEW t \in Seq(Y), NEW i \in 1 .. Len(s)
  PROVE  Glued(s, t)[i] = s[i]
BY GluedOf

LEMMA GluedSecond ==
  ASSUME NEW Y, NEW s \in Seq(Y), NEW t \in Seq(Y), NEW i \in 1 .. Len(t)
  PROVE  Glued(s, t)[Len(s) + i] = t[i]
BY GluedOf

LEMMA Enclosed ==
  ASSUME NEW Y, NEW opening \in Seq(Y), NEW x \in Seq(Y), NEW last \in Seq(Y), Len(opening) = 1, Len(last) = 1
  PROVE  LET a == Glued(Glued(opening, x), last)
         IN  /\ Len(a) = Len(x) + 2 /\ a[1] = opening[1] /\ a[Len(x) + 2] = last[1]
             /\ \A j \in 1 .. Len(x) : a[j + 1] = x[j]
<1> DEFINE y == Glued(opening, x)
           a == Glued(y, last)
<1>1. Len(x) \in Nat
  BY LenProperties
<1>2. y \in Seq(Y) /\ Len(y) = 1 + Len(x)
  <2>1. y \in Seq(Y) /\ Len(y) = Len(opening) + Len(x)
    BY GluedLen
  <2> QED BY <2>1
<1>3. y[1] = opening[1]
  <2>1. 1 \in 1 .. Len(opening)
    OBVIOUS
  <2> QED BY <2>1, GluedFirst
<1>4. ASSUME NEW j \in 1 .. Len(x) PROVE y[1 + j] = x[j]
  <2>1. y[Len(opening) + j] = x[j]
    BY GluedSecond
  <2> QED BY <2>1
<1> HIDE DEF y
<1>5. Len(a) = Len(x) + 2
  <2>1. Len(a) = Len(y) + Len(last)
    BY <1>2, GluedLen
  <2> HIDE DEF a
  <2> QED BY <1>1, <1>2, <2>1
<1>6. ASSUME NEW i \in 1 .. Len(y) PROVE a[i] = y[i]
  BY <1>2, GluedFirst
<1>7. a[Len(y) + 1] = last[1]
  <2> DEFINE i == 1
  <2>1. i \in 1 .. Len(last)
    OBVIOUS
  <2>2. i = 1
    OBVIOUS
  <2>3. y \in Seq(Y)
    BY <1>2
  <2> HIDE DEF i
  <2>4. Glued(y, last)[Len(y) + i] = last[i]
    BY <2>1, <2>3, GluedSecond
  <2> QED BY <2>2, <2>4
<1> HIDE DEF a
<1>8. Len(y) + 1 = Len(x) + 2 /\ 1 \in 1 .. Len(y)
  BY <1>1, <1>2
<1>9. ASSUME NEW j \in 1 .. Len(x) PROVE a[j + 1] = x[j]
  <2>1. j + 1 \in 1 .. Len(y) /\ j + 1 = 1 + j
    BY <1>1, <1>2
  <2> QED BY <1>4, <1>6, <2>1
<1> QED BY <1>3, <1>5, <1>6, <1>7, <1>8, <1>9 DEF a, y

\* What stands where in an expression of several globs.
LEMMA WhereTokens ==
  ASSUME NEW e, NEW gs, NEW s, Laid(e, gs, s), Len(gs) > 1, NEW i \in 1 .. Len(e)
  PROVE  /\ e[i] = "(" <=> i = 2
         /\ e[i] = ")" <=> i = s[Len(gs) + 1]
         /\ e[i] = "|" <=> \E k \in 2 .. Len(gs) : i = s[k]
<1> DEFINE N == Len(gs)
<1>1. N \in Nat /\ N > 1 /\ Rises(s, N) /\ Len(e) \in Nat
  BY LaidTypes
<1>2. /\ s[1] = 2 /\ e[1] = "^" /\ e[2] = "(" /\ Len(e) = s[N + 1] + 1 /\ e[s[N + 1]] = ")"
      /\ e[Len(e)] = "$" /\ \A k \in 2 .. N : e[s[k]] = "|"
  BY DEF Laid
<1>3. \A k \in 1 .. N : \A j \in 1 .. Len(gs[k]) : TokensAt(gs[k], e, s[k], j)
  BY DEF Laid
<1>4. \A k \in 1 .. N : gs[k] \in Seq(Symbol) /\ Len(gs[k]) \in Nat /\ s[k + 1] = (s[k] + Len(gs[k])) + 1
  BY LaidTypes DEF Laid
<1> HIDE DEF N
<1>5. \A k \in 1 .. N + 1 : s[k] \in Nat
  BY <1>1 DEF Rises
<1>6. \A k \in 2 .. N + 1 : 2 < s[k]
  <2>1. ASSUME NEW k \in 2 .. N + 1 PROVE 2 < s[k]
    <3>1. k \in 1 .. N + 1 /\ 1 \in 1 .. N + 1 /\ 1 < k
      BY <1>1
    <3> QED BY <1>1, <1>2, <3>1, Rising
  <2> QED BY <2>1
<1>7. \A k \in 1 .. N : s[k] < s[N + 1]
  <2>1. ASSUME NEW k \in 1 .. N PROVE s[k] < s[N + 1]
    <3>1. k \in 1 .. N + 1 /\ N + 1 \in 1 .. N + 1 /\ k < N + 1
      BY <1>1
    <3> QED BY <1>1, <3>1, Rising
  <2> QED BY <2>1
<1>8. s[N + 1] \in Nat /\ 2 < s[N + 1] /\ i \in Nat
  <2>1. N + 1 \in 2 .. N + 1
    BY <1>1
  <2> QED BY <1>1, <1>5, <1>6, <2>1
<1>9. CASE i = 1
  <2>1. e[i] = "^" /\ i # 2 /\ i # s[N + 1] /\ \A k \in 2 .. N : i # s[k]
    BY <1>2, <1>6, <1>8, <1>9
  <2> QED BY <2>1, TokensApart DEF N
<1>10. CASE i = Len(e)
  <2>1. e[i] = "$" /\ i # 2 /\ i # s[N + 1] /\ \A k \in 2 .. N : i # s[k]
    BY <1>1, <1>2, <1>5, <1>7, <1>8, <1>10
  <2> QED BY <2>1, TokensApart DEF N
<1>11. CASE 2 <= i /\ i <= s[N + 1] /\ AtPlace(s, N, i)
  <2>1. PICK k \in 1 .. N + 1 : i = s[k]
    BY <1>11 DEF AtPlace
  <2>2. CASE k = 1
    <3>1. e[i] = "(" /\ i = 2 /\ i # s[N + 1] /\ \A m \in 2 .. N : i # s[m]
      BY <1>2, <1>6, <1>8, <2>1, <2>2
    <3> QED BY <3>1, TokensApart DEF N
  <2>3. CASE k = N + 1
    <3>1. e[i] = ")" /\ i # 2 /\ i = s[N + 1] /\ \A m \in 2 .. N : i # s[m]
      BY <1>1, <1>2, <1>5, <1>7, <1>8, <2>1, <2>3
    <3> QED BY <3>1, TokensApart DEF N
  <2>4. CASE k \in 2 .. N
    <3>1. e[i] = "|" /\ i # 2 /\ i # s[N + 1]
      BY <1>1, <1>2, <1>5, <1>6, <1>7, <2>1, <2>4
    <3> QED BY <2>1, <2>4, <3>1, TokensApart DEF N
  <2> QED BY <1>1, <2>2, <2>3, <2>4
<1>12. CASE 2 <= i /\ i <= s[N + 1] /\ BetweenPlaces(s, N, i)
  <2>1. PICK k \in 1 .. N : s[k] < i /\ i < s[k + 1]
    BY <1>12 DEF BetweenPlaces
  <2>2. s[k] \in Nat /\ k \in Nat
    BY <1>1, <1>5
  <2> DEFINE j == i - s[k]
  <2>3. j \in 1 .. Len(gs[k]) /\ i = s[k] + j
    <3>1. Len(gs[k]) \in Nat /\ s[k + 1] = (s[k] + Len(gs[k])) + 1
      BY <1>4
    <3> QED BY <1>8, <2>1, <2>2, <3>1
  <2> HIDE DEF j
  <2>4. e[s[k] + j] # "(" /\ e[s[k] + j] # ")" /\ e[s[k] + j] # "|"
    BY <1>3, <1>4, <2>3, TokensPlain
  <2>5. ASSUME NEW m \in 1 .. N + 1 PROVE i # s[m]
    <3>1. CASE m <= k
      <4>1. s[m] <= s[k]
        <5>1. CASE m = k
          BY <2>2, <5>1
        <5>2. CASE m < k
          BY <1>1, <1>5, <2>2, <5>2, Rising
        <5> QED BY <2>2, <3>1, <5>1, <5>2
      <4> QED BY <1>5, <1>8, <2>1, <2>2, <4>1
    <3>2. CASE k + 1 <= m
      <4>1. k + 1 \in 1 .. N + 1 /\ s[k + 1] \in Nat /\ s[m] \in Nat
        BY <1>1, <1>5
      <4>2. s[k + 1] <= s[m]
        <5>1. CASE m = k + 1
          BY <4>1, <5>1
        <5>2. CASE k + 1 < m
          BY <1>1, <4>1, <5>2, Rising
        <5> QED BY <2>2, <3>2, <5>1, <5>2
      <4> QED BY <1>8, <2>1, <4>1, <4>2
    <3> QED BY <1>1, <2>2, <3>1, <3>2
  <2>6. i # 2 /\ i # s[N + 1] /\ \A m \in 2 .. N : i # s[m]
    <3>1. 1 \in 1 .. N + 1 /\ N + 1 \in 1 .. N + 1 /\ \A m \in 2 .. N : m \in 1 .. N + 1
      BY <1>1
    <3> QED BY <1>2, <2>5, <3>1
  <2> QED BY <2>3, <2>4, <2>6 DEF N
<1>13. i = 1 \/ i = Len(e) \/ (2 <= i /\ i <= s[N + 1])
  BY <1>1, <1>2, <1>8
<1>14. 2 <= i /\ i <= s[N + 1] => AtPlace(s, N, i) \/ BetweenPlaces(s, N, i)
  BY <1>1, <1>2, <1>8, Covered
<1> QED BY <1>9, <1>10, <1>11, <1>12, <1>13, <1>14

\* The alternatives are the globs', one for each.
OfTheGlobs(A, gs) ==
  /\ \A a \in A : \E k \in 1 .. Len(gs) : IsAlternative(a, gs[k])
  /\ \A k \in 1 .. Len(gs) : \E a \in A : IsAlternative(a, gs[k])

LEMMA AlternativeOfOne ==
  ASSUME NEW e, NEW gs, NEW s, Laid(e, gs, s), Len(gs) = 1
  PROVE  OfTheGlobs(Glob!Alternatives(e), gs)
<1> DEFINE g == gs[1]
<1>0. 1 \in 1 .. Len(gs) /\ 1 + 1 = 2
  OBVIOUS
<1>1. /\ Len(e) \in Nat /\ DOMAIN e = 1 .. Len(e) /\ e \in Seq(Glob!Token)
      /\ g \in Seq(Symbol) /\ Len(g) \in Nat
  <2>1. \A k \in 1 .. Len(gs) : gs[k] \in Seq(Symbol) /\ Len(gs[k]) \in Nat
    BY LaidTypes
  <2>2. Len(e) \in Nat /\ DOMAIN e = 1 .. Len(e)
    BY LaidTypes
  <2> QED BY <1>0, <2>1, <2>2 DEF Laid
<1>2. s[1] = 1 /\ Len(e) = s[2] /\ s[2] = (s[1] + Len(g)) + 1 /\ e[1] = "^" /\ e[Len(e)] = "$"
  BY DEF Laid
<1>3. ASSUME NEW i \in 1 .. Len(g) PROVE TokensAt(g, e, 1, i)
  <2>1. \A k \in 1 .. Len(gs) : \A j \in 1 .. Len(gs[k]) : TokensAt(gs[k], e, s[k], j)
    BY DEF Laid
  <2> QED BY <1>0, <1>2, <2>1
<1> HIDE DEF g
<1>4. Len(e) = Len(g) + 2
  BY <1>1, <1>2
<1>5. ASSUME NEW i \in 1 .. Len(e) PROVE e[i] # "(" /\ e[i] # "|"
  <2>1. CASE i = 1
    BY <1>2, <2>1, TokensApart
  <2>2. CASE i = Len(e)
    BY <1>2, <2>2, TokensApart
  <2>3. CASE i # 1 /\ i # Len(e)
    <3> DEFINE j == i - 1
    <3>1. j \in 1 .. Len(g) /\ i = 1 + j
      BY <1>1, <1>4, <2>3
    <3> HIDE DEF j
    <3>2. e[1 + j] # "(" /\ e[1 + j] # "|"
      BY <1>1, <1>3, <3>1, TokensPlain
    <3> QED BY <3>1, <3>2
  <2> QED BY <2>1, <2>2, <2>3
<1>6. Glob!Alternatives(e) = Glob!Split(e)
  <2>1. ~\E i \in DOMAIN e : e[i] = "("
    BY <1>1, <1>5
  <2> QED BY <2>1, Zenon DEF Glob!Alternatives
<1>7. Glob!Split(e) = {e}
  <2> DEFINE c == [k \in 1 .. 2 |-> IF k = 1 THEN 0 ELSE Len(e) + 1]
  <2>1. c[1] = 0 /\ c[2] = Len(e) + 1
    OBVIOUS
  <2> HIDE DEF c
  <2>2. 1 \in Nat /\ 1 >= 1 /\ 1 + 1 = 2 /\ 1 .. 2 = {1, 2} /\ 1 .. 1 = {1} /\ 2 .. 1 = {}
    OBVIOUS
  <2>3. Rises(c, 1)
    BY <1>1, <2>1, <2>2 DEF Rises
  <2>4. c[1 + 1] = Len(e) + 1
    BY <2>1, <2>2
  <2>5. \A i \in 1 .. Len(e) : e[i] = "|" <=> \E k \in 2 .. 1 : i = c[k]
    BY <1>5, <2>2
  <2>6. Glob!Split(e) = PartsOf(e, c, 1)
    <3> DEFINE n == 1
    <3>1. /\ n \in Nat /\ n >= 1 /\ Rises(c, n) /\ c[n + 1] = Len(e) + 1
          /\ BarsAre(e, c, n)
      BY <2>3, <2>4, <2>5 DEF BarsAre
    <3> HIDE DEF n
    <3>2. Glob!Split(e) = PartsOf(e, c, n)
      BY <1>1, <2>1, <3>1, SplitOf
    <3> QED BY <3>2 DEF n
  <2>7. Glob!Split(e) = {Part(e, c[k] + 1, c[k + 1] - 1) : k \in {1}}
    BY <2>2, <2>6 DEF PartsOf
  <2>8. c[1] + 1 = 1 /\ c[1 + 1] - 1 = Len(e)
    BY <1>1, <2>1, <2>4
  <2>9. Part(e, 1, Len(e)) = e
    BY <1>1, WholeSubSeq DEF Part
  <2> QED BY <2>7, <2>8, <2>9
<1>8. IsAlternative(e, g)
  <2>1. ASSUME NEW i \in 1 .. Len(g) PROVE TokensOf(g, e, i)
    <3>1. TokensAt(g, e, 1, i)
      BY <1>3
    <3>2. i + 1 = 1 + i /\ (1 + (i - 1)) = i
      OBVIOUS
    <3>3. e[i + 1] = e[1 + i] /\ (i > 1 => e[i] = e[1 + (i - 1)])
      BY <3>2
    <3> QED BY <3>1, <3>3, TokensMoved
  <2>2. e[Len(g) + 2] = "$"
    BY <1>2, <1>4
  <2> QED BY <1>1, <1>2, <1>4, <2>1, <2>2 DEF IsAlternative
<1>9. 1 .. Len(gs) = {1}
  OBVIOUS
<1> QED BY <1>6, <1>7, <1>8, <1>9 DEF OfTheGlobs, g

LEMMA AlternativeOfMany ==
  ASSUME NEW e, NEW gs, NEW s, Laid(e, gs, s), Len(gs) > 1
  PROVE  OfTheGlobs(Glob!Alternatives(e), gs)
<1> DEFINE N == Len(gs)
           L == s[N + 1]
           P(x) == Glued(Glued(Part(e, 1, 1), x), Part(e, L + 1, Len(e)))
           mid == Part(e, 3, L - 1)
           c == [k \in 1 .. N + 1 |-> s[k] - 2]
           part(k) == Part(mid, c[k] + 1, c[k + 1] - 1)
<1>1. /\ Len(e) \in Nat /\ DOMAIN e = 1 .. Len(e) /\ e \in Seq(Glob!Token)
      /\ N \in Nat /\ N > 1 /\ Rises(s, N)
  BY LaidTypes DEF Laid
<1>2. \A k \in 1 .. N : gs[k] \in Seq(Symbol) /\ Len(gs[k]) \in Nat /\ s[k + 1] = (s[k] + Len(gs[k])) + 1
  BY LaidTypes DEF Laid
<1>3. s[1] = 2 /\ e[1] = "^" /\ e[Len(e)] = "$" /\ Len(e) = L + 1
  BY DEF Laid
<1>4. ASSUME NEW i \in 1 .. Len(e)
      PROVE  /\ e[i] = "(" <=> i = 2
             /\ e[i] = ")" <=> i = L
             /\ e[i] = "|" <=> \E k \in 2 .. N : i = s[k]
  BY WhereTokens
<1>5. \A k \in 1 .. N : \A i \in 1 .. Len(gs[k]) : TokensAt(gs[k], e, s[k], i)
  BY DEF Laid
<1> HIDE DEF N
<1>6. \A k \in 1 .. N + 1 : s[k] \in Nat /\ s[k] >= 2 /\ (k > 1 => s[k] > 2)
  <2>1. ASSUME NEW k \in 1 .. N + 1 PROVE s[k] \in Nat /\ s[k] >= 2 /\ (k > 1 => s[k] > 2)
    <3>1. s[k] \in Nat
      BY <1>1 DEF Rises
    <3>2. CASE k = 1
      BY <1>3, <3>1, <3>2
    <3>3. CASE k > 1
      <4>1. 1 \in 1 .. N + 1 /\ 1 < k
        BY <1>1, <3>3
      <4> QED BY <1>1, <1>3, <3>1, <4>1, Rising
    <3> QED BY <3>2, <3>3
  <2> QED BY <2>1
<1>7. L \in Nat /\ L > 2 /\ 2 \in 1 .. Len(e) /\ L \in 1 .. Len(e) /\ L + 1 \in 1 .. Len(e)
  <2>1. N + 1 \in 1 .. N + 1 /\ N + 1 > 1
    BY <1>1
  <2> QED BY <1>1, <1>3, <1>6, <2>1
<1> HIDE DEF L
<1>8. (CHOOSE i \in DOMAIN e : e[i] = "(") = 2 /\ (CHOOSE i \in DOMAIN e : e[i] = ")") = L
  <2>1. \A i \in DOMAIN e : (e[i] = "(" <=> i = 2) /\ (e[i] = ")" <=> i = L)
    BY <1>1, <1>4
  <2>2. 2 \in DOMAIN e /\ L \in DOMAIN e
    BY <1>1, <1>7
  <2> QED BY <2>1, <2>2, Zenon
<1>9. Glob!Alternatives(e) = {P(x) : x \in Glob!Split(mid)}
  <2>1. \E i \in DOMAIN e : e[i] = "("
    BY <1>1, <1>4, <1>7
  <2>2. Glob!Alternatives(e) = {SubSeq(e, 1, 2 - 1) \o x \o SubSeq(e, L + 1, Len(e)) :
                                  x \in Glob!Split(SubSeq(e, 2 + 1, L - 1))}
    BY <1>8, <2>1, Zenon DEF Glob!Alternatives
  <2>3. 2 - 1 = 1 /\ 2 + 1 = 3
    OBVIOUS
  <2> QED BY <2>2, <2>3, Zenon DEF Glued, Part
<1> HIDE DEF P
<1>10. /\ mid \in Seq(Glob!Token) /\ Len(mid) = L - 3
       /\ \A j \in 1 .. L - 3 : mid[j] = e[j + 2]
  <2>1. 3 \in Nat /\ L - 1 \in Nat /\ 3 >= 1 /\ L - 1 <= Len(e) /\ 3 <= (L - 1) + 1 /\ ((L - 1) + 1) - 3 = L - 3
    BY <1>1, <1>3, <1>7
  <2> DEFINE m == 3
             n == L - 1
  <2>2. m \in Nat /\ n \in Nat /\ m >= 1 /\ n <= Len(e) /\ m <= n + 1
    BY <2>1
  <2>3. (n + 1) - m = L - 3 /\ \A j \in Nat : (m + j) - 1 = j + 2
    BY <2>1
  <2>4. mid = Part(e, m, n)
    OBVIOUS
  <2> HIDE DEF m, n, mid
  <2>5. mid \in Seq(Glob!Token) /\ Len(mid) = (n + 1) - m
    BY <1>1, <2>2, <2>4, PartLen
  <2>6. ASSUME NEW j \in 1 .. L - 3 PROVE mid[j] = e[j + 2]
    <3>0. j \in Nat /\ j \in 1 .. (n + 1) - m
      BY <1>7, <2>3
    <3>1. j \in 1 .. (n + 1) - m /\ (m + j) - 1 = j + 2
      BY <2>3, <3>0
    <3>2. mid[j] = e[(m + j) - 1]
      BY <1>1, <2>2, <2>4, <3>1, PartAt
    <3> QED BY <3>1, <3>2
  <2> QED BY <2>3, <2>5, <2>6
<1> HIDE DEF mid
<1>11. \A k \in 1 .. N + 1 : c[k] = s[k] - 2 /\ c[k] \in Nat /\ c[k] + 2 = s[k]
  BY <1>6
<1> HIDE DEF c
<1>12. Rises(c, N) /\ c[1] = 0 /\ c[N + 1] = Len(mid) + 1
  <2>1. ASSUME NEW k \in 1 .. N PROVE c[k] < c[k + 1]
    <3>1. k \in 1 .. N + 1 /\ k + 1 \in 1 .. N + 1 /\ s[k] < s[k + 1]
      BY <1>1 DEF Rises
    <3> QED BY <1>6, <1>11, <3>1
  <2>2. 1 \in 1 .. N + 1 /\ N + 1 \in 1 .. N + 1
    BY <1>1
  <2>3. c[1] = 0
    BY <1>3, <1>11, <2>2
  <2>4. c[N + 1] = Len(mid) + 1
    BY <1>7, <1>10, <1>11, <2>2 DEF L
  <2> QED BY <1>11, <2>1, <2>3, <2>4 DEF Rises
<1>13. BarsAre(mid, c, N)
  <2>1. ASSUME NEW j \in 1 .. Len(mid) PROVE mid[j] = "|" <=> \E k \in 2 .. N : j = c[k]
    <3> DEFINE i == j + 2
    <3>1. i \in 1 .. Len(e) /\ mid[j] = e[i]
      BY <1>3, <1>7, <1>10
    <3>2. ASSUME NEW k \in 2 .. N PROVE j = c[k] <=> i = s[k]
      <4>1. k \in 1 .. N + 1
        BY <1>1
      <4>2. c[k] \in Nat /\ c[k] + 2 = s[k]
        BY <1>11, <4>1
      <4> QED BY <4>2
    <3> HIDE DEF i
    <3>3. e[i] = "|" <=> \E k \in 2 .. N : i = s[k]
      BY <1>4, <3>1
    <3> QED BY <3>1, <3>2, <3>3
  <2> QED BY <2>1 DEF BarsAre
<1>14. Glob!Split(mid) = {part(k) : k \in 1 .. N}
  <2>1. Len(mid) \in Nat /\ DOMAIN mid = 1 .. Len(mid)
    BY <1>10, LenProperties
  <2>2. Glob!Split(mid) = PartsOf(mid, c, N)
    <3>1. N >= 1
      BY <1>1
    <3> QED BY <1>1, <1>12, <1>13, <2>1, <3>1, SplitOf
  <2> QED BY <2>2, Zenon DEF PartsOf
<1>15. ASSUME NEW k \in 1 .. N PROVE IsAlternative(P(part(k)), gs[k])
  <2> DEFINE g == gs[k]
             b == c[k]
             x == part(k)
             opening == Part(e, 1, 1)
             last == Part(e, L + 1, Len(e))
             a == P(x)
  <2>1. k \in 1 .. N + 1 /\ k + 1 \in 1 .. N + 1
    BY <1>1
  <2>2. g \in Seq(Symbol) /\ Len(g) \in Nat /\ s[k + 1] = (s[k] + Len(g)) + 1
    BY <1>2
  <2>3. b \in Nat /\ b + 2 = s[k] /\ c[k + 1] = (b + Len(g)) + 1 /\ s[k] \in Nat
    <3>1. b \in Nat /\ b + 2 = s[k] /\ s[k] \in Nat
      BY <1>6, <1>11, <2>1
    <3>2. c[k + 1] \in Nat /\ c[k + 1] + 2 = s[k + 1]
      BY <1>11, <2>1
    <3> HIDE DEF b, g
    <3> QED BY <2>2, <3>1, <3>2
  <2>4. c[k + 1] <= Len(mid) + 1 /\ Len(mid) \in Nat
    <3>1. c[k + 1] <= c[N + 1]
      <4>1. CASE k = N
        BY <1>11, <2>1, <4>1
      <4>2. CASE k # N
        <5>1. k + 1 < N + 1 /\ N + 1 \in 1 .. N + 1
          BY <1>1, <4>2
        <5>2. c[k + 1] < c[N + 1]
          BY <1>1, <1>12, <2>1, <5>1, Rising
        <5> QED BY <1>11, <2>1, <5>1, <5>2
      <4> QED BY <4>1, <4>2
    <3> QED BY <1>10, <1>12, <3>1, LenProperties
  <2>5. /\ x \in Seq(Glob!Token) /\ Len(x) = Len(g)
        /\ \A j \in 1 .. Len(g) : x[j] = e[s[k] + j]
    <3> DEFINE m == b + 1
               n == c[k + 1] - 1
    <3> HIDE DEF b, g
    <3>1. m \in Nat /\ n \in Nat /\ m >= 1 /\ n <= Len(mid) /\ m <= n + 1 /\ (n + 1) - m = Len(g)
      BY <2>2, <2>3, <2>4
    <3>2. \A j \in 1 .. Len(g) : (m + j) - 1 = b + j
      BY <2>2, <2>3
    <3>3. ASSUME NEW j \in 1 .. Len(g) PROVE b + j \in 1 .. L - 3 /\ (b + j) + 2 = s[k] + j
      <4>1. Len(mid) = L - 3
        BY <1>10
      <4>2. b + j \in 1 .. Len(mid)
        BY <2>2, <2>3, <2>4
      <4>3. (b + j) + 2 = s[k] + j
        BY <2>3
      <4> QED BY <4>1, <4>2, <4>3
    <3> HIDE DEF m, n
    <3>4. Part(mid, m, n) \in Seq(Glob!Token) /\ Len(Part(mid, m, n)) = (n + 1) - m
      BY <1>10, <3>1, PartLen
    <3>6. ASSUME NEW j \in 1 .. Len(g) PROVE Part(mid, m, n)[j] = e[s[k] + j]
      <4>0. Part(mid, m, n)[j] = mid[(m + j) - 1]
        BY <1>10, <3>1, PartAt
      <4>1. Part(mid, m, n)[j] = mid[b + j]
        BY <3>2, <4>0
      <4> QED BY <1>10, <3>3, <4>1
    <3>7. x = Part(mid, m, n)
      BY DEF m, n, b
    <3> QED BY <3>1, <3>4, <3>6, <3>7
  <2>6. opening \in Seq(Glob!Token) /\ Len(opening) = 1 /\ opening[1] = "^"
    <3> DEFINE m == 1
    <3>1. m \in 1 .. Len(e) /\ m = 1
      BY <1>7
    <3>2. opening = Part(e, m, m)
      OBVIOUS
    <3> HIDE DEF m, opening
    <3>3. /\ Part(e, m, m) \in Seq(Glob!Token) /\ Len(Part(e, m, m)) = 1
          /\ Part(e, m, m)[1] = e[m]
      <4>1. e \in Seq(Glob!Token)
        BY <1>1
      <4> QED BY <3>1, <4>1, PartOne
    <3> QED BY <1>3, <3>1, <3>2, <3>3
  <2>7. last \in Seq(Glob!Token) /\ Len(last) = 1 /\ last[1] = "$"
    <3> DEFINE m == L + 1
               n == Len(e)
               u == 1
    <3>1. m \in Nat /\ n \in Nat /\ m >= 1 /\ n <= Len(e) /\ m <= n + 1 /\ (n + 1) - m = 1 /\ (m + u) - 1 = Len(e)
          /\ u \in 1 .. (n + 1) - m /\ u = 1
      BY <1>1, <1>3, <1>7
    <3>2. last = Part(e, m, n)
      OBVIOUS
    <3> HIDE DEF m, n, u, last
    <3>3. last \in Seq(Glob!Token) /\ Len(last) = (n + 1) - m
      BY <1>1, <3>1, <3>2, PartLen
    <3>4. last[u] = e[(m + u) - 1]
      BY <1>1, <3>1, <3>2, PartAt
    <3> QED BY <1>3, <3>1, <3>3, <3>4
  <2>8. a = Glued(Glued(opening, x), last)
    BY DEF P
  <2> HIDE DEF opening, x, last, a, g
  <2>9. /\ Len(a) = Len(x) + 2 /\ a[1] = opening[1] /\ a[Len(x) + 2] = last[1]
        /\ \A j \in 1 .. Len(x) : a[j + 1] = x[j]
    BY <2>5, <2>6, <2>7, <2>8, Enclosed
  <2>10. /\ Len(a) = Len(g) + 2 /\ a[1] = "^" /\ a[Len(g) + 2] = "$"
         /\ \A j \in 1 .. Len(g) : a[j + 1] = e[s[k] + j]
    BY <2>5, <2>6, <2>7, <2>9
  <2>11. ASSUME NEW i \in 1 .. Len(g) PROVE TokensOf(g, a, i)
    <3>1. TokensAt(g, e, s[k], i)
      BY <1>5 DEF g
    <3>2. a[i + 1] = e[s[k] + i]
      BY <2>10
    <3>3. i > 1 => a[i] = e[s[k] + (i - 1)]
      <4>1. SUFFICES ASSUME i > 1 PROVE a[i] = e[s[k] + (i - 1)]
        OBVIOUS
      <4> DEFINE j == i - 1
      <4>2. j \in 1 .. Len(g) /\ j + 1 = i
        BY <2>2, <4>1
      <4> HIDE DEF j
      <4>3. a[j + 1] = e[s[k] + j]
        BY <2>10, <4>2
      <4> QED BY <4>2, <4>3 DEF j
    <3> QED BY <3>1, <3>2, <3>3, TokensMoved
  <2>12. IsAlternative(a, g)
    BY <2>2, <2>10, <2>11 DEF IsAlternative
  <2> QED BY <2>12 DEF a, g, x
<1>16. Glob!Alternatives(e) = {P(part(k)) : k \in 1 .. N}
  <2> HIDE DEF part
  <2> QED BY <1>9, <1>14
<1> HIDE DEF part
<1> QED BY <1>15, <1>16 DEF OfTheGlobs, N

-----------------------------------------------------------------------------
(***************************************************************************)
(* The translation: what has been written of the globs so far.             *)
(***************************************************************************)

\* s has the places before the tokens of the first g globs; the first p - 1 symbols of
\* the g-th are written, and f says whether the last star was the first of a pair.
Building(gs, s, g, p, f, e) ==
  /\ gs \in Seq(Seq(Symbol)) /\ Len(gs) >= 1 /\ g \in 1 .. Len(gs) + 1 /\ p \in Nat /\ p >= 1 /\ f \in BOOLEAN
  /\ g <= Len(gs) => p <= Len(gs[g]) + 1
  /\ g > Len(gs) => p = 1
  /\ e \in Seq(Glob!Token) /\ Len(e) = s[g] + (p - 1)
  /\ s[1] = IF Len(gs) > 1 THEN 1 ELSE 0
  /\ Len(gs) > 1 => e[1] = "("
  /\ \A k \in 1 .. g : s[k] \in Nat
  /\ \A k \in 1 .. g - 1 : s[k + 1] = (s[k] + Len(gs[k])) + 1 /\ e[s[k + 1]] = "|"
  /\ \A k \in 1 .. g - 1 : \A i \in 1 .. Len(gs[k]) : TokensAt(gs[k], e, s[k], i)
  /\ g <= Len(gs) => \A i \in 1 .. p - 1 : TokensAt(gs[g], e, s[g], i)
  /\ g <= Len(gs) /\ (\A i \in 1 .. p - 1 : gs[g][i] # Glob!Star) => ~f
  /\ g <= Len(gs) /\ p > 1 /\ gs[g][p - 1] = Glob!Star => (f <=> e[s[g] + (p - 1)] = Glob!NotDots)

LEMMA BuildingTypes ==
  ASSUME NEW gs, NEW s, NEW g, NEW p, NEW f, NEW e, Building(gs, s, g, p, f, e)
  PROVE  /\ Len(gs) \in Nat /\ g \in Nat /\ g >= 1 /\ g <= Len(gs) + 1 /\ p \in Nat /\ p >= 1
         /\ e \in Seq(Glob!Token) /\ Len(e) \in Nat /\ s[g] \in Nat /\ Len(e) = s[g] + (p - 1)
         /\ \A k \in 1 .. Len(gs) : gs[k] \in Seq(Symbol) /\ Len(gs[k]) \in Nat
         /\ Rises(s, g - 1)
         /\ s[1] \in Nat /\ (Len(gs) > 1 => s[1] = 1)
<1>1. gs \in Seq(Seq(Symbol)) /\ e \in Seq(Glob!Token) /\ Len(gs) >= 1 /\ g \in 1 .. Len(gs) + 1
  BY DEF Building
<1>2. p \in Nat /\ p >= 1 /\ Len(e) = s[g] + (p - 1)
  BY DEF Building
<1>3. Len(gs) \in Nat /\ Len(e) \in Nat
  BY <1>1, LenProperties
<1>4. g \in Nat /\ g >= 1 /\ g <= Len(gs) + 1 /\ g \in 1 .. g /\ 1 \in 1 .. g
  BY <1>1, <1>3
<1>5. \A k \in 1 .. g : s[k] \in Nat
  BY DEF Building
<1>6. \A k \in 1 .. Len(gs) : gs[k] \in Seq(Symbol)
  <2> DEFINE Y == Seq(Symbol)
  <2>1. gs \in Seq(Y)
    BY <1>1
  <2> HIDE DEF Y
  <2>2. \A k \in 1 .. Len(gs) : gs[k] \in Y
    BY <2>1, ElementOf
  <2> QED BY <2>2 DEF Y
<1>7. \A k \in 1 .. Len(gs) : Len(gs[k]) \in Nat
  BY <1>6, LenProperties
<1>8. Rises(s, g - 1)
  <2>1. ASSUME NEW k \in 1 .. g - 1 PROVE s[k] < s[k + 1]
    <3>1. s[k + 1] = (s[k] + Len(gs[k])) + 1
      BY DEF Building
    <3>2. k \in 1 .. Len(gs) /\ k \in 1 .. g
      BY <1>3, <1>4
    <3>3. s[k] \in Nat /\ Len(gs[k]) \in Nat
      BY <1>5, <1>7, <3>2
    <3> QED BY <3>1, <3>3
  <2>2. (g - 1) + 1 = g
    BY <1>4
  <2> QED BY <1>5, <2>1, <2>2 DEF Rises
<1>9. Len(gs) > 1 => s[1] = 1
  BY DEF Building
<1> QED BY <1>1, <1>2, <1>3, <1>4, <1>5, <1>6, <1>7, <1>8, <1>9

\* What has been written stands before the end.
LEMMA WrittenBefore ==
  ASSUME NEW gs, NEW s, NEW g, NEW p, NEW f, NEW e, Building(gs, s, g, p, f, e), NEW k \in 1 .. g - 1
  PROVE  /\ s[k] \in Nat /\ s[k + 1] \in Nat /\ s[k + 1] >= 1 /\ s[k + 1] <= s[g]
         /\ k \in 1 .. Len(gs) /\ k + 1 \in 1 .. g
         /\ \A i \in 1 .. Len(gs[k]) : s[k] + i < s[k + 1]
<1>1. g \in Nat /\ g <= Len(gs) + 1 /\ Len(gs) \in Nat /\ Rises(s, g - 1) /\ s[g] \in Nat
  BY BuildingTypes
<1>2. s[k + 1] = (s[k] + Len(gs[k])) + 1
  BY DEF Building
<1>3. k \in 1 .. Len(gs) /\ k \in 1 .. (g - 1) + 1 /\ k + 1 \in 1 .. (g - 1) + 1 /\ g \in 1 .. (g - 1) + 1
      /\ k + 1 <= g /\ g - 1 \in Nat /\ k + 1 \in 1 .. g
  BY <1>1
<1>4. s[k] \in Nat /\ s[k + 1] \in Nat
  BY <1>1, <1>3 DEF Rises
<1>5. Len(gs[k]) \in Nat
  BY <1>3, BuildingTypes
<1>6. s[k + 1] <= s[g]
  <2>1. CASE k + 1 = g
    BY <1>1, <2>1
  <2>2. CASE k + 1 < g
    <3> DEFINE m == k + 1
    <3>1. m \in 1 .. (g - 1) + 1 /\ m < g
      BY <1>3, <2>2
    <3> HIDE DEF m
    <3>2. s[m] < s[g]
      BY <1>1, <1>3, <3>1, Rising
    <3> QED BY <1>1, <1>4, <3>2 DEF m
  <2> QED BY <1>3, <2>1, <2>2
<1>7. ASSUME NEW i \in 1 .. Len(gs[k]) PROVE s[k] + i < s[k + 1]
  BY <1>2, <1>4, <1>5
<1> QED BY <1>2, <1>3, <1>4, <1>5, <1>6, <1>7

LEMMA TokensKept ==
  ASSUME NEW g, NEW e, NEW o, NEW i, TokensAt(g, e, o, i), NEW d, NEW u, d[u + i] = e[o + i],
         i > 1 => d[u + (i - 1)] = e[o + (i - 1)]
  PROVE  TokensAt(g, d, u, i)
BY Zenon DEF TokensAt

LEMMA ExtendedOf ==
  ASSUME NEW Y, NEW e \in Seq(Y), NEW t \in Y
  PROVE  /\ Extended(e, t) \in Seq(Y) /\ Len(Extended(e, t)) = Len(e) + 1
         /\ Extended(e, t)[Len(e) + 1] = t
BY DEF Extended

LEMMA ExtendedAt ==
  ASSUME NEW Y, NEW e \in Seq(Y), NEW t \in Y, NEW i \in 1 .. Len(e)
  PROVE  Extended(e, t)[i] = e[i]
BY DEF Extended

\* One more token leaves what was written as it was.
LEMMA StaysWritten ==
  ASSUME NEW gs, NEW s, NEW g, NEW p, NEW f, NEW e, Building(gs, s, g, p, f, e), NEW t \in Glob!Token,
         NEW d, d = Extended(e, t)
  PROVE  /\ Len(gs) > 1 => d[1] = "("
         /\ \A k \in 1 .. g - 1 : d[s[k + 1]] = "|"
         /\ \A k \in 1 .. g - 1 : \A i \in 1 .. Len(gs[k]) : TokensAt(gs[k], d, s[k], i)
         /\ g <= Len(gs) => \A i \in 1 .. p - 1 : TokensAt(gs[g], d, s[g], i)
<1>1. /\ Len(gs) \in Nat /\ g \in Nat /\ g >= 1 /\ p \in Nat /\ p >= 1 /\ s[g] \in Nat
      /\ Len(e) \in Nat /\ Len(e) = s[g] + (p - 1) /\ Rises(s, g - 1) /\ s[1] \in Nat /\ (Len(gs) > 1 => s[1] = 1)
  BY BuildingTypes
<1>2. ASSUME NEW i \in 1 .. Len(e) PROVE d[i] = e[i]
  <2>1. e \in Seq(Glob!Token)
    BY BuildingTypes
  <2> QED BY <2>1, ExtendedAt
<1>3. Len(gs) > 1 => d[1] = "("
  <2>1. SUFFICES ASSUME Len(gs) > 1 PROVE d[1] = "("
    OBVIOUS
  <2>2. s[1] <= s[g]
    <3>1. CASE g = 1
      BY <1>1, <3>1
    <3>2. CASE g > 1
      <4>1. g - 1 \in Nat /\ 1 \in 1 .. (g - 1) + 1 /\ g \in 1 .. (g - 1) + 1
        BY <1>1, <3>2
      <4> QED BY <1>1, <3>2, <4>1, Rising
    <3> QED BY <1>1, <3>1, <3>2
  <2>3. 1 \in 1 .. Len(e)
    BY <1>1, <2>1, <2>2
  <2>4. e[1] = "("
    BY <2>1 DEF Building
  <2> QED BY <1>2, <2>3, <2>4
<1>4. ASSUME NEW k \in 1 .. g - 1 PROVE d[s[k + 1]] = "|"
  <2>1. s[k + 1] \in Nat /\ s[k + 1] >= 1 /\ s[k + 1] <= s[g]
    BY WrittenBefore
  <2>2. s[k + 1] \in 1 .. Len(e)
    BY <1>1, <2>1
  <2>3. e[s[k + 1]] = "|"
    BY DEF Building
  <2> QED BY <1>2, <2>2, <2>3
<1>5. ASSUME NEW k \in 1 .. g - 1, NEW i \in 1 .. Len(gs[k]) PROVE TokensAt(gs[k], d, s[k], i)
  <2>1. s[k] \in Nat /\ s[k + 1] \in Nat /\ s[k + 1] <= s[g] /\ s[k] + i < s[k + 1] /\ k \in 1 .. Len(gs)
    BY WrittenBefore
  <2>2. i \in Nat /\ i >= 1
    <3>1. Len(gs[k]) \in Nat
      BY <2>1, BuildingTypes
    <3> QED BY <3>1
  <2>3. s[k] + i \in 1 .. Len(e) /\ (i > 1 => s[k] + (i - 1) \in 1 .. Len(e))
    <3> DEFINE a == s[k]
               b == s[k + 1]
               c == s[g]
    <3>1. a \in Nat /\ b \in Nat /\ c \in Nat /\ b <= c /\ a + i < b
      BY <1>1, <2>1
    <3>2. c <= Len(e) /\ Len(e) \in Nat
      BY <1>1
    <3> HIDE DEF a, b, c
    <3>3. a + i \in 1 .. Len(e) /\ (i > 1 => a + (i - 1) \in 1 .. Len(e))
      BY <2>2, <3>1, <3>2
    <3> QED BY <3>3 DEF a
  <2>4. TokensAt(gs[k], e, s[k], i)
    BY DEF Building
  <2> QED BY <1>2, <2>3, <2>4, TokensKept
<1>6. ASSUME g <= Len(gs), NEW i \in 1 .. p - 1 PROVE TokensAt(gs[g], d, s[g], i)
  <2>1. s[g] + i \in 1 .. Len(e) /\ (i > 1 => s[g] + (i - 1) \in 1 .. Len(e))
    BY <1>1
  <2>2. TokensAt(gs[g], e, s[g], i)
    BY <1>6 DEF Building
  <2> QED BY <1>2, <2>1, <2>2, TokensKept
<1> QED BY <1>3, <1>4, <1>5, <1>6

LEMMA SymbolStep ==
  ASSUME NEW gs, NEW s, NEW g, NEW p, NEW f, NEW e, Building(gs, s, g, p, f, e),
         g <= Len(gs), p <= Len(gs[g]), NEW t \in Glob!Token, NEW h \in BOOLEAN,
         gs[g][p] # Glob!Star => t = gs[g][p] /\ h = f,
         gs[g][p] = Glob!Star => t \in {Glob!NotDots, Glob!Anything} /\ (t = Glob!NotDots <=> ~f) /\ (h <=> ~f)
  PROVE  Building(gs, s, g, p + 1, h, Extended(e, t))
<1> DEFINE d == Extended(e, t)
           o == s[g]
           x == gs[g]
<1>1. /\ Len(gs) \in Nat /\ g \in Nat /\ g >= 1 /\ p \in Nat /\ p >= 1 /\ o \in Nat /\ e \in Seq(Glob!Token)
      /\ Len(e) \in Nat /\ Len(e) = o + (p - 1)
  BY BuildingTypes
<1>2. x \in Seq(Symbol) /\ Len(x) \in Nat
  <2>1. g \in 1 .. Len(gs)
    BY <1>1
  <2> QED BY <2>1, BuildingTypes
<1>3. /\ Len(gs) > 1 => d[1] = "("
      /\ \A k \in 1 .. g - 1 : d[s[k + 1]] = "|"
      /\ \A k \in 1 .. g - 1 : \A i \in 1 .. Len(gs[k]) : TokensAt(gs[k], d, s[k], i)
      /\ \A i \in 1 .. p - 1 : TokensAt(x, d, o, i)
  BY StaysWritten
<1>4. d \in Seq(Glob!Token) /\ Len(d) = Len(e) + 1 /\ d[Len(e) + 1] = t
  BY <1>1, ExtendedOf
<1>5. p > 1 => d[o + (p - 1)] = e[o + (p - 1)]
  <2>1. SUFFICES ASSUME p > 1 PROVE d[o + (p - 1)] = e[o + (p - 1)]
    OBVIOUS
  <2> DEFINE i == o + (p - 1)
  <2>2. i \in 1 .. Len(e)
    BY <1>1, <2>1
  <2> HIDE DEF i
  <2>3. d[i] = e[i]
    BY <1>1, <2>2, ExtendedAt
  <2> QED BY <2>3 DEF i
<1>6. /\ (\A i \in 1 .. p - 1 : x[i] # Glob!Star) => ~f
      /\ p > 1 /\ x[p - 1] = Glob!Star => (f <=> e[o + (p - 1)] = Glob!NotDots)
  BY DEF Building
<1> HIDE DEF d
<1>7. Len(d) = o + ((p + 1) - 1) /\ d[o + p] = t
  <2>1. Len(e) + 1 = o + p /\ (p + 1) - 1 = p
    BY <1>1
  <2> QED BY <1>4, <2>1
<1>8. TokensAt(x, d, o, p)
  <2>1. x[p] = Glob!Star /\ p > 1 /\ x[p - 1] = Glob!Star => d[o + p] # d[o + (p - 1)]
    <3>1. SUFFICES ASSUME x[p] = Glob!Star, p > 1, x[p - 1] = Glob!Star PROVE d[o + p] # d[o + (p - 1)]
      OBVIOUS
    <3>2. d[o + p] = Glob!NotDots <=> ~f
      BY <1>7, <3>1
    <3>3. d[o + (p - 1)] = Glob!NotDots <=> f
      BY <1>5, <1>6, <3>1
    <3> QED BY <3>2, <3>3
  <2>2. x[p] = Glob!Star /\ (\A k \in 1 .. p - 1 : x[k] # Glob!Star) => d[o + p] = Glob!NotDots
    BY <1>6, <1>7
  <2>3. /\ x[p] # Glob!Star => d[o + p] = x[p]
        /\ x[p] = Glob!Star => d[o + p] \in {Glob!NotDots, Glob!Anything}
    BY <1>7
  <2> QED BY <2>1, <2>2, <2>3, Zenon DEF TokensAt
<1>9. \A i \in 1 .. (p + 1) - 1 : TokensAt(x, d, o, i)
  <2>1. \A i \in 1 .. (p + 1) - 1 : i \in 1 .. p - 1 \/ i = p
    BY <1>1
  <2> QED BY <1>3, <1>8, <2>1
<1>10. (\A i \in 1 .. (p + 1) - 1 : x[i] # Glob!Star) => ~h
  <2>1. SUFFICES ASSUME \A i \in 1 .. (p + 1) - 1 : x[i] # Glob!Star PROVE ~h
    OBVIOUS
  <2>2. p \in 1 .. (p + 1) - 1 /\ \A i \in 1 .. p - 1 : i \in 1 .. (p + 1) - 1
    BY <1>1
  <2>3. x[p] # Glob!Star /\ \A i \in 1 .. p - 1 : x[i] # Glob!Star
    BY <2>1, <2>2
  <2> QED BY <1>6, <2>3
<1>11. x[(p + 1) - 1] = Glob!Star => (h <=> d[o + ((p + 1) - 1)] = Glob!NotDots)
  <2>1. (p + 1) - 1 = p
    BY <1>1
  <2>2. x[p] = Glob!Star => (h <=> d[o + p] = Glob!NotDots)
    BY <1>7
  <2> QED BY <2>1, <2>2
<1>12. /\ gs \in Seq(Seq(Symbol)) /\ Len(gs) >= 1 /\ g \in 1 .. Len(gs) + 1
       /\ s[1] = IF Len(gs) > 1 THEN 1 ELSE 0
       /\ \A k \in 1 .. g : s[k] \in Nat
       /\ \A k \in 1 .. g - 1 : s[k + 1] = (s[k] + Len(gs[k])) + 1
  BY DEF Building
<1>13. p + 1 \in Nat /\ p + 1 >= 1 /\ p + 1 <= Len(x) + 1 /\ ~(g > Len(gs))
  BY <1>1, <1>2
<1>14. Building(gs, s, g, p + 1, h, d)
  BY <1>3, <1>4, <1>7, <1>9, <1>10, <1>11, <1>12, <1>13, Zenon DEF Building
<1> QED BY <1>14 DEF d

LEMMA GlobEnds ==
  ASSUME NEW gs, NEW s, NEW g, NEW p, NEW f, NEW e, Building(gs, s, g, p, f, e),
         g <= Len(gs), p > Len(gs[g])
  PROVE  \E u : Building(gs, u, g + 1, 1, FALSE, Extended(e, "|"))
<1> DEFINE d == Extended(e, "|")
           u == [k \in 1 .. g + 1 |-> IF k = g + 1 THEN (s[g] + Len(gs[g])) + 1 ELSE s[k]]
<1>1. /\ Len(gs) \in Nat /\ g \in Nat /\ g >= 1 /\ p \in Nat /\ s[g] \in Nat /\ e \in Seq(Glob!Token)
      /\ Len(e) \in Nat /\ Len(e) = s[g] + (p - 1)
  BY BuildingTypes
<1>2. Len(gs[g]) \in Nat
  <2>1. g \in 1 .. Len(gs)
    BY <1>1
  <2> QED BY <2>1, BuildingTypes
<1>3. p = Len(gs[g]) + 1
  <2>1. p <= Len(gs[g]) + 1
    BY DEF Building
  <2> QED BY <1>1, <1>2, <2>1
<1>4. "|" \in Glob!Token
  BY Zenon DEF Glob!Token
<1>5. /\ Len(gs) > 1 => d[1] = "("
      /\ \A k \in 1 .. g - 1 : d[s[k + 1]] = "|"
      /\ \A k \in 1 .. g - 1 : \A i \in 1 .. Len(gs[k]) : TokensAt(gs[k], d, s[k], i)
      /\ \A i \in 1 .. p - 1 : TokensAt(gs[g], d, s[g], i)
  BY <1>4, StaysWritten
<1>6. d \in Seq(Glob!Token) /\ Len(d) = Len(e) + 1 /\ d[Len(e) + 1] = "|"
  BY <1>1, <1>4, ExtendedOf
<1> HIDE DEF d
<1>7. u[g + 1] = (s[g] + Len(gs[g])) + 1 /\ u[g + 1] \in Nat
  <2>1. g + 1 \in 1 .. g + 1
    BY <1>1
  <2> QED BY <1>1, <1>2, <2>1
<1>8. ASSUME NEW k \in 1 .. g PROVE u[k] = s[k]
  <2>1. k \in 1 .. g + 1 /\ k # g + 1
    BY <1>1
  <2> QED BY <2>1
<1> HIDE DEF u
<1>9. Len(e) + 1 = u[g + 1] /\ Len(d) = u[g + 1] + (1 - 1) /\ p - 1 = Len(gs[g])
  BY <1>1, <1>2, <1>3, <1>6, <1>7
<1>10. 1 \in 1 .. g /\ g \in 1 .. g /\ \A k \in 1 .. (g + 1) - 1 : k \in 1 .. g
  BY <1>1
<1>11. ASSUME NEW k \in 1 .. g + 1 PROVE u[k] \in Nat
  <2>1. k \in 1 .. g \/ k = g + 1
    BY <1>1
  <2>2. k \in 1 .. g => s[k] \in Nat
    BY DEF Building
  <2> QED BY <1>7, <1>8, <2>1, <2>2
<1>12. ASSUME NEW k \in 1 .. (g + 1) - 1
       PROVE  /\ u[k + 1] = (u[k] + Len(gs[k])) + 1 /\ d[u[k + 1]] = "|"
              /\ \A i \in 1 .. Len(gs[k]) : TokensAt(gs[k], d, u[k], i)
  <2>1. CASE k = g
    <3>1. u[g] = s[g] /\ u[g + 1] = (s[g] + Len(gs[g])) + 1 /\ d[u[g + 1]] = "|"
      BY <1>6, <1>7, <1>8, <1>9, <1>10
    <3>2. \A i \in 1 .. Len(gs[g]) : TokensAt(gs[g], d, s[g], i)
      BY <1>5, <1>9
    <3> QED BY <2>1, <3>1, <3>2
  <2>2. CASE k # g
    <3>1. k \in 1 .. g - 1 /\ k \in 1 .. g /\ k + 1 \in 1 .. g
      BY <1>1, <2>2
    <3>2. u[k] = s[k] /\ u[k + 1] = s[k + 1]
      BY <1>8, <3>1
    <3>3. s[k + 1] = (s[k] + Len(gs[k])) + 1
      BY <3>1 DEF Building
    <3> QED BY <1>5, <3>1, <3>2, <3>3
  <2> QED BY <2>1, <2>2
<1>13. /\ gs \in Seq(Seq(Symbol)) /\ Len(gs) >= 1 /\ s[1] = IF Len(gs) > 1 THEN 1 ELSE 0
  BY DEF Building
<1>14. u[1] = IF Len(gs) > 1 THEN 1 ELSE 0
  BY <1>8, <1>10, <1>13
<1>15. g + 1 \in 1 .. Len(gs) + 1 /\ 1 \in Nat /\ 1 >= 1 /\ FALSE \in BOOLEAN
  BY <1>1
<1>16. g + 1 <= Len(gs) => 1 <= Len(gs[g + 1]) + 1
  <2>1. SUFFICES ASSUME g + 1 <= Len(gs) PROVE 1 <= Len(gs[g + 1]) + 1
    OBVIOUS
  <2>2. g + 1 \in 1 .. Len(gs)
    BY <1>1, <2>1
  <2>3. Len(gs[g + 1]) \in Nat
    BY <2>2, BuildingTypes
  <2> QED BY <2>3
<1>17. /\ \A i \in 1 .. 1 - 1 : TokensAt(gs[g + 1], d, u[g + 1], i)
       /\ ~(1 > 1)
  OBVIOUS
<1>18. Building(gs, u, g + 1, 1, FALSE, d)
  BY <1>5, <1>6, <1>9, <1>11, <1>12, <1>13, <1>14, <1>15, <1>16, <1>17, Zenon DEF Building
<1> QED BY <1>18 DEF d

LEMMA Anchored ==
  ASSUME NEW Y, NEW a \in Seq(Y), NEW x \in Seq(Y), NEW c \in Seq(Y), NEW b \in Seq(Y), Len(a) = 1, Len(b) = 1,
         NEW d, d = Glued(Glued(Glued(a, x), c), b)
  PROVE  /\ d \in Seq(Y) /\ Len(d) = (Len(x) + Len(c)) + 2 /\ d[1] = a[1] /\ d[Len(d)] = b[1]
         /\ \A j \in 1 .. Len(x) : d[j + 1] = x[j]
         /\ \A j \in 1 .. Len(c) : d[(Len(x) + 1) + j] = c[j]
<1> DEFINE y == Glued(a, x)
           z == Glued(y, c)
           o == 1
<1>1. Len(x) \in Nat /\ Len(c) \in Nat
  BY LenProperties
<1>2. o \in 1 .. Len(a) /\ o \in 1 .. Len(b)
  OBVIOUS
<1>3. o = 1
  OBVIOUS
<1> HIDE DEF o
<1>4. y \in Seq(Y) /\ Len(y) = Len(a) + Len(x)
  BY GluedLen
<1>5. y[o] = a[o]
  BY <1>2, GluedFirst
<1>6. ASSUME NEW j \in 1 .. Len(x) PROVE y[Len(a) + j] = x[j]
  BY GluedSecond
<1> HIDE DEF y
<1>7. Len(y) = Len(x) + 1 /\ Len(y) \in Nat /\ o \in 1 .. Len(y)
  BY <1>1, <1>3, <1>4
<1>8. z \in Seq(Y) /\ Len(z) = Len(y) + Len(c)
  BY <1>4, GluedLen
<1>9. ASSUME NEW i \in 1 .. Len(y) PROVE z[i] = y[i]
  BY <1>4, GluedFirst
<1>10. ASSUME NEW j \in 1 .. Len(c) PROVE z[Len(y) + j] = c[j]
  BY <1>4, GluedSecond
<1> HIDE DEF z
<1>11. d = Glued(z, b)
  BY DEF y, z
<1>12. d \in Seq(Y) /\ Len(d) = Len(z) + Len(b)
  BY <1>8, <1>11, GluedLen
<1>13. ASSUME NEW i \in 1 .. Len(z) PROVE d[i] = z[i]
  <2>1. z \in Seq(Y)
    BY <1>8
  <2>2. Glued(z, b)[i] = z[i]
    BY <2>1, GluedFirst
  <2> QED BY <1>11, <2>2
<1>14. d[Len(z) + o] = b[o]
  <2>1. z \in Seq(Y) /\ o \in 1 .. Len(b)
    BY <1>2, <1>8
  <2>2. Glued(z, b)[Len(z) + o] = b[o]
    BY <2>1, GluedSecond
  <2> QED BY <1>11, <2>2
<1>15. Len(d) = (Len(x) + Len(c)) + 2 /\ Len(z) + o = Len(d) /\ o \in 1 .. Len(z)
  BY <1>1, <1>3, <1>7, <1>8, <1>12
<1>16. d[1] = a[1] /\ d[Len(d)] = b[1]
  BY <1>3, <1>5, <1>7, <1>9, <1>13, <1>14, <1>15
<1>17. ASSUME NEW j \in 1 .. Len(x) PROVE d[j + 1] = x[j]
  <2>1. j + 1 = Len(a) + j
    OBVIOUS
  <2>2. j + 1 \in 1 .. Len(y) /\ j + 1 \in 1 .. Len(z)
    BY <1>1, <1>7, <1>8
  <2> QED BY <1>6, <1>9, <1>13, <2>1, <2>2
<1>18. ASSUME NEW j \in 1 .. Len(c) PROVE d[(Len(x) + 1) + j] = c[j]
  <2>1. Len(y) + j \in 1 .. Len(z)
    BY <1>1, <1>7, <1>8
  <2> QED BY <1>7, <1>10, <1>13, <2>1
<1> QED BY <1>12, <1>15, <1>16, <1>17, <1>18

Closing(gs) == IF Len(gs) > 1 THEN <<")">> ELSE <<>>

LEMMA AnchorForms ==
  ASSUME NEW gs, NEW s, NEW g, NEW p, NEW f, NEW e, Building(gs, s, g, p, f, e), g > Len(gs),
         NEW d, d = Glued(Glued(Glued(<<"^">>, Part(e, 1, Len(e) - 1)), Closing(gs)), <<"$">>)
  PROVE  \E u : Laid(d, gs, u)
<1> DEFINE N == Len(gs)
           m == Len(e) - 1
           x == Part(e, 1, m)
           c == Closing(gs)
           opening == <<"^">>
           last == <<"$">>
           u == [k \in 1 .. N + 1 |-> s[k] + 1]
<1>1. /\ N \in Nat /\ N >= 1 /\ g = N + 1 /\ p = 1 /\ gs \in Seq(Seq(Symbol)) /\ e \in Seq(Glob!Token)
      /\ Len(e) \in Nat /\ s[g] \in Nat /\ Len(e) = s[g] /\ Rises(s, N) /\ (N > 1 => s[1] = 1) /\ s[1] \in Nat
  <2>1. /\ Len(gs) \in Nat /\ g \in Nat /\ g <= Len(gs) + 1 /\ e \in Seq(Glob!Token)
        /\ Len(e) \in Nat /\ s[g] \in Nat /\ Len(e) = s[g] + (p - 1) /\ Rises(s, g - 1)
        /\ s[1] \in Nat /\ (Len(gs) > 1 => s[1] = 1)
    BY BuildingTypes
  <2>2. gs \in Seq(Seq(Symbol)) /\ Len(gs) >= 1 /\ p = 1
    BY DEF Building
  <2>3. g = N + 1 /\ g - 1 = N /\ s[g] + (1 - 1) = s[g]
    BY <2>1
  <2> QED BY <2>1, <2>2, <2>3
<1>2. \A k \in 1 .. N : gs[k] \in Seq(Symbol) /\ Len(gs[k]) \in Nat
  BY BuildingTypes
<1>3. ASSUME NEW k \in 1 .. N
      PROVE  /\ s[k] \in Nat /\ s[k + 1] \in Nat /\ s[k + 1] >= 1 /\ s[k + 1] <= s[N + 1] /\ e[s[k + 1]] = "|"
             /\ s[k + 1] = (s[k] + Len(gs[k])) + 1
             /\ \A i \in 1 .. Len(gs[k]) : s[k] + i < s[k + 1]
  <2>1. k \in 1 .. g - 1
    BY <1>1
  <2>2. s[k + 1] = (s[k] + Len(gs[k])) + 1 /\ e[s[k + 1]] = "|"
    BY <2>1 DEF Building
  <2>3. /\ s[k] \in Nat /\ s[k + 1] \in Nat /\ s[k + 1] >= 1 /\ s[k + 1] <= s[g]
        /\ \A i \in 1 .. Len(gs[k]) : s[k] + i < s[k + 1]
    BY <2>1, WrittenBefore
  <2> QED BY <1>1, <2>2, <2>3
<1>4. \A k \in 1 .. N : \A i \in 1 .. Len(gs[k]) : TokensAt(gs[k], e, s[k], i)
  <2>1. g - 1 = N
    BY <1>1
  <2> QED BY <2>1 DEF Building
<1>5. s[1] = IF N > 1 THEN 1 ELSE 0
  BY DEF Building
<1>6. N > 1 => e[1] = "("
  BY DEF Building
<1> HIDE DEF N
<1>7. m \in Nat /\ Len(e) = m + 1 /\ s[N + 1] = m + 1
  <2>1. N \in 1 .. N /\ s[N + 1] >= 1
    BY <1>1, <1>3
  <2> QED BY <1>1, <2>1
<1>8. x \in Seq(Glob!Token) /\ Len(x) = m
  <2> DEFINE o == 1
  <2>1. o \in Nat /\ m \in Nat /\ o >= 1 /\ m <= Len(e) /\ o <= m + 1 /\ (m + 1) - o = m
    BY <1>1, <1>7
  <2>2. x = Part(e, o, m)
    OBVIOUS
  <2> HIDE DEF o, m, x
  <2>3. x \in Seq(Glob!Token) /\ Len(x) = (m + 1) - o
    BY <1>1, <2>1, <2>2, PartLen
  <2> QED BY <2>1, <2>3
<1>9. ASSUME NEW i \in 1 .. m PROVE x[i] = e[i]
  <2> DEFINE o == 1
  <2>1. o \in Nat /\ m \in Nat /\ o >= 1 /\ m <= Len(e) /\ o <= m + 1 /\ i \in 1 .. (m + 1) - o /\ (o + i) - 1 = i
    BY <1>1, <1>7
  <2>2. x = Part(e, o, m)
    OBVIOUS
  <2> HIDE DEF o, m, x
  <2>3. x[i] = e[(o + i) - 1]
    BY <1>1, <2>1, <2>2, PartAt
  <2> QED BY <2>1, <2>3
<1> HIDE DEF x, m
<1>10. opening \in Seq(Glob!Token) /\ Len(opening) = 1 /\ opening[1] = "^"
  <2>1. "^" \in Glob!Token
    BY Zenon DEF Glob!Token
  <2> QED BY <2>1
<1>11. last \in Seq(Glob!Token) /\ Len(last) = 1 /\ last[1] = "$"
  <2>1. "$" \in Glob!Token
    BY Zenon DEF Glob!Token
  <2> QED BY <2>1
<1>12. c \in Seq(Glob!Token) /\ (N > 1 => Len(c) = 1 /\ c[1] = ")") /\ (~(N > 1) => Len(c) = 0)
  <2>1. ")" \in Glob!Token
    BY Zenon DEF Glob!Token
  <2>2. CASE N > 1
    <3>1. c = <<")">>
      BY <2>2 DEF Closing, N
    <3> QED BY <2>1, <2>2, <3>1
  <2>3. CASE ~(N > 1)
    <3>1. c = <<>>
      BY <2>3 DEF Closing, N
    <3> QED BY <2>3, <3>1
  <2> QED BY <2>2, <2>3
<1>13. d = Glued(Glued(Glued(opening, x), c), last)
  BY DEF x, m
<1> HIDE DEF opening, last, c
<1>14. /\ d \in Seq(Glob!Token) /\ Len(d) = (Len(x) + Len(c)) + 2 /\ d[1] = opening[1] /\ d[Len(d)] = last[1]
       /\ \A j \in 1 .. Len(x) : d[j + 1] = x[j]
       /\ \A j \in 1 .. Len(c) : d[(Len(x) + 1) + j] = c[j]
  <2> DEFINE Y == Glob!Token
  <2>1. opening \in Seq(Y) /\ x \in Seq(Y) /\ c \in Seq(Y) /\ last \in Seq(Y)
    BY <1>8, <1>10, <1>11, <1>12
  <2>2. Len(opening) = 1 /\ Len(last) = 1
    BY <1>10, <1>11
  <2> HIDE DEF Y
  <2>3. /\ d \in Seq(Y) /\ Len(d) = (Len(x) + Len(c)) + 2 /\ d[1] = opening[1] /\ d[Len(d)] = last[1]
        /\ \A j \in 1 .. Len(x) : d[j + 1] = x[j]
        /\ \A j \in 1 .. Len(c) : d[(Len(x) + 1) + j] = c[j]
    BY <1>13, <2>1, <2>2, Anchored
  <2> QED BY <2>3 DEF Y
<1>15. ASSUME NEW j \in 1 .. m PROVE d[j + 1] = e[j]
  BY <1>8, <1>9, <1>14
<1>16. d[1] = "^" /\ d[Len(d)] = "$"
  BY <1>10, <1>11, <1>14
<1>17. ASSUME NEW k \in 1 .. N + 1 PROVE u[k] = s[k] + 1 /\ u[k] \in Nat
  <2>1. s[k] \in Nat
    BY <1>1 DEF Rises
  <2> QED BY <2>1
<1> HIDE DEF u
<1>18. ASSUME NEW k \in 1 .. N PROVE u[k + 1] = (u[k] + Len(gs[k])) + 1
  <2>1. k \in 1 .. N + 1 /\ k + 1 \in 1 .. N + 1
    BY <1>1
  <2>2. s[k] \in Nat /\ Len(gs[k]) \in Nat /\ s[k + 1] = (s[k] + Len(gs[k])) + 1
    BY <1>2, <1>3
  <2>3. u[k] = s[k] + 1 /\ u[k + 1] = s[k + 1] + 1
    BY <1>17, <2>1
  <2>4. ((s[k] + Len(gs[k])) + 1) + 1 = ((s[k] + 1) + Len(gs[k])) + 1
    <3> DEFINE a == s[k]
               b == Len(gs[k])
    <3>1. a \in Nat /\ b \in Nat
      BY <2>2
    <3> HIDE DEF a, b
    <3>2. ((a + b) + 1) + 1 = ((a + 1) + b) + 1
      BY <3>1
    <3> QED BY <3>2 DEF a, b
  <2> QED BY <2>2, <2>3, <2>4, Zenon
<1>19. ASSUME NEW k \in 1 .. N, NEW i \in 1 .. Len(gs[k]) PROVE TokensAt(gs[k], d, u[k], i)
  <2> DEFINE a == s[k]
             b == s[k + 1]
             v == u[k]
  <2>1. a \in Nat /\ b \in Nat /\ b <= m + 1 /\ a + i < b
    BY <1>3, <1>7
  <2>2. i \in Nat /\ i >= 1
    <3>1. Len(gs[k]) \in Nat
      BY <1>2
    <3> QED BY <3>1
  <2>3. v = a + 1
    <3>1. k \in 1 .. N + 1
      BY <1>1
    <3> QED BY <1>17, <3>1
  <2>4. TokensAt(gs[k], e, a, i)
    BY <1>4
  <2> HIDE DEF a, b, v
  <2>5. a + i \in 1 .. m /\ (i > 1 => a + (i - 1) \in 1 .. m)
    BY <1>7, <2>1, <2>2
  <2>6. v + i = (a + i) + 1 /\ v + (i - 1) = (a + (i - 1)) + 1
    BY <2>1, <2>2, <2>3
  <2>7. d[v + i] = e[a + i]
    BY <1>15, <2>5, <2>6
  <2>8. i > 1 => d[v + (i - 1)] = e[a + (i - 1)]
    BY <1>15, <2>5, <2>6
  <2>9. TokensAt(gs[k], d, v, i)
    BY <2>4, <2>7, <2>8, TokensKept
  <2> QED BY <2>9 DEF v
<1>20. u[N + 1] = m + 2
  <2>1. N + 1 \in 1 .. N + 1
    BY <1>1
  <2>2. u[N + 1] = s[N + 1] + 1
    BY <1>17, <2>1
  <2> QED BY <1>7, <2>2
<1>21. ASSUME N = 1 PROVE u[1] = 1 /\ Len(d) = u[2]
  <2>1. 1 \in 1 .. N + 1 /\ N + 1 = 2 /\ s[1] = 0 /\ Len(c) = 0
    BY <1>5, <1>12, <1>21
  <2>2. u[1] = s[1] + 1
    BY <1>17, <2>1
  <2> QED BY <1>7, <1>8, <1>14, <1>20, <2>1, <2>2
<1>22. ASSUME N > 1
       PROVE  /\ u[1] = 2 /\ d[2] = "(" /\ Len(d) = u[N + 1] + 1 /\ d[u[N + 1]] = ")"
              /\ \A k \in 2 .. N : d[u[k]] = "|"
  <2>1. 1 \in 1 .. N + 1 /\ s[1] = 1 /\ Len(c) = 1 /\ c[1] = ")" /\ e[1] = "("
    BY <1>1, <1>6, <1>12, <1>22
  <2>2. u[1] = s[1] + 1
    BY <1>17, <2>1
  <2>3. Len(d) = u[N + 1] + 1
    BY <1>7, <1>8, <1>14, <1>20, <2>1
  <2>4. d[u[N + 1]] = ")"
    <3>1. 1 \in 1 .. Len(c) /\ (Len(x) + 1) + 1 = u[N + 1]
      BY <1>7, <1>8, <1>20, <2>1
    <3> QED BY <1>14, <2>1, <3>1
  <2>5. ASSUME NEW k \in 2 .. N PROVE d[u[k]] = "|" /\ m >= 1
    <3> DEFINE j == k - 1
               b == s[k]
    <3>1. j \in 1 .. N /\ j + 1 = k /\ k \in 1 .. N + 1 /\ N + 1 \in 1 .. N + 1 /\ k < N + 1
      BY <1>1
    <3> HIDE DEF j
    <3>2. b \in Nat /\ b >= 1 /\ e[b] = "|"
      <4>1. s[j + 1] \in Nat /\ s[j + 1] >= 1 /\ e[s[j + 1]] = "|"
        BY <1>3, <3>1
      <4> QED BY <3>1, <4>1
    <3>3. b < m + 1
      BY <1>1, <1>7, <3>1, Rising
    <3>4. u[k] = b + 1
      BY <1>17, <3>1
    <3> HIDE DEF b
    <3>5. b \in 1 .. m
      BY <1>7, <3>2, <3>3
    <3>6. d[b + 1] = e[b]
      BY <1>15, <3>5
    <3> QED BY <1>7, <3>2, <3>4, <3>5, <3>6
  <2>6. d[2] = "("
    <3>1. N \in 2 .. N
      BY <1>1, <1>22
    <3>2. 1 \in 1 .. m /\ 1 + 1 = 2
      BY <1>7, <2>5, <3>1
    <3>3. d[1 + 1] = e[1]
      BY <1>15, <3>2
    <3> QED BY <2>1, <3>2, <3>3
  <2> QED BY <2>1, <2>2, <2>3, <2>4, <2>5, <2>6
<1>23. Laid(d, gs, u)
  <2>1. /\ \A k \in 1 .. N + 1 : u[k] \in Nat
        /\ \A k \in 1 .. N : u[k + 1] = (u[k] + Len(gs[k])) + 1
        /\ \A k \in 1 .. N : \A i \in 1 .. Len(gs[k]) : TokensAt(gs[k], d, u[k], i)
    BY <1>17, <1>18, <1>19
  <2> QED BY <1>1, <1>14, <1>16, <1>21, <1>22, <2>1, Zenon DEF Laid, N
<1> QED BY <1>23

\* The expression so far, in each state of the translation.
GlobInv ==
  /\ state \in {"idle", "building", "formed", "none"}
  /\ state = "idle" => glob = 1 /\ pos = 1 /\ foundAsterisk = FALSE
  /\ state = "building" => \E s : Building(globs, s, glob, pos, foundAsterisk, nameRegexp)
  /\ state = "formed" => \E s : Laid(nameRegexp, globs, s)

LEMMA ResultAtEnd ==
  ASSUME ReadingInv, Toml!Finished PROVE result \in Seq(Seq(Symbol))
<1>1. PICK hot, got : /\ Meaning(text, document, found, hot, got)
                      /\ ReaderAt(text, hot, got, row, col, inHotfix, inQuote, cur, result)
  BY DEF ReadingInv
<1>2. Len(text) \in Nat
  BY <1>1, LinesMean, Zenon
<1>3. row \in 1 .. Len(text) + 1
  BY <1>1, Zenon DEF ReaderAt
<1>4. row > Len(text)
  BY DEF Toml!Finished
<1>5. ~(row <= Len(text))
  BY <1>2, <1>3, <1>4
<1>6. result = got[row]
  BY <1>1, <1>5, Zenon DEF ReaderAt
<1>7. got[row] \in Seq(Seq(Symbol))
  BY <1>1, <1>3, LinesMean, Zenon
<1> QED BY <1>6, <1>7

LEMMA GlobStarts == EntryPointInit => GlobInv
BY DEF EntryPointInit, Glob!Init, GlobInv

LEMMA TranslationStarts ==
  ASSUME NEW gs \in Seq(Seq(Symbol)), gs # <<>>,
         NEW e, e = IF Len(gs) > 1 THEN <<"(">> ELSE <<>>
  PROVE  \E s : Building(gs, s, 1, 1, FALSE, e)
<1> DEFINE s == [k \in 1 .. 1 |-> IF Len(gs) > 1 THEN 1 ELSE 0]
<1>1. Len(gs) \in Nat /\ Len(gs) >= 1
  <2> DEFINE Y == Seq(Symbol)
  <2>1. gs \in Seq(Y) /\ gs # <<>>
    OBVIOUS
  <2> HIDE DEF Y
  <2> QED BY <2>1
<1>2. s[1] = (IF Len(gs) > 1 THEN 1 ELSE 0) /\ s[1] \in Nat
  OBVIOUS
<1> HIDE DEF s
<1>3. e \in Seq(Glob!Token) /\ Len(e) = s[1] /\ (Len(gs) > 1 => e[1] = "(")
  <2>1. "(" \in Glob!Token
    BY Zenon DEF Glob!Token
  <2>2. CASE Len(gs) > 1
    <3>1. e = <<"(">> /\ s[1] = 1
      BY <1>2, <2>2
    <3> QED BY <2>1, <3>1
  <2>3. CASE ~(Len(gs) > 1)
    <3>1. e = <<>> /\ s[1] = 0
      BY <1>2, <2>3
    <3> QED BY <2>3, <3>1
  <2> QED BY <2>2, <2>3
<1>4. 1 <= Len(gs[1]) + 1
  <2> DEFINE Y == Seq(Symbol)
  <2>1. gs \in Seq(Y) /\ 1 \in 1 .. Len(gs)
    BY <1>1
  <2> HIDE DEF Y
  <2>2. gs[1] \in Y
    BY <2>1, ElementOf
  <2>3. Len(gs[1]) \in Nat
    BY <2>2, LenProperties DEF Y
  <2> QED BY <2>3
<1>5. Len(e) = s[1] + (1 - 1)
  BY <1>2, <1>3
<1>6. /\ 1 \in 1 .. Len(gs) + 1 /\ 1 \in Nat /\ 1 >= 1 /\ FALSE \in BOOLEAN /\ ~(1 > 1)
      /\ \A k \in 1 .. 1 - 1 : FALSE
      /\ \A k \in 1 .. 1 : k = 1
  BY <1>1
<1>7. Building(gs, s, 1, 1, FALSE, e)
  BY <1>1, <1>2, <1>3, <1>4, <1>5, <1>6, Zenon DEF Building
<1> QED BY <1>7

LEMMA FormRegexStep == ASSUME ReadingInv, GlobInv, FormRegex PROVE GlobInv'
<1>1. /\ state = "idle" /\ globs' = result
      /\ nameRegexp' = IF Len(result) > 1 THEN <<"(">> ELSE <<>>
      /\ state' = IF result = <<>> THEN "none" ELSE "building"
      /\ glob' = glob /\ pos' = pos /\ foundAsterisk' = foundAsterisk /\ Toml!Finished
  BY DEF FormRegex, Glob!StartOn
<1>2. glob' = 1 /\ pos' = 1 /\ foundAsterisk' = FALSE
  BY <1>1 DEF GlobInv
<1>3. result \in Seq(Seq(Symbol))
  BY <1>1, ResultAtEnd
<1>4. CASE result = <<>>
  BY <1>1, <1>4 DEF GlobInv
<1>5. CASE result # <<>>
  <2>1. \E s : Building(result, s, 1, 1, FALSE, nameRegexp')
    BY <1>1, <1>3, <1>5, TranslationStarts
  <2>2. state' = "building"
    BY <1>1, <1>5
  <2> QED BY <1>1, <1>2, <2>1, <2>2 DEF GlobInv
<1> QED BY <1>4, <1>5

LEMMA SymbolsStep ==
  ASSUME GlobInv, Glob!PlainSymbol \/ Glob!FirstAsterisk \/ Glob!SecondAsterisk PROVE GlobInv'
<1> DEFINE sym == globs[glob][pos]
<1>1. /\ state = "building" /\ glob <= Len(globs) /\ pos <= Len(globs[glob])
      /\ pos' = pos + 1 /\ globs' = globs /\ glob' = glob /\ state' = state
  BY DEF Glob!PlainSymbol, Glob!FirstAsterisk, Glob!SecondAsterisk, Glob!AtSymbol, Glob!Emit
<1>2. PICK s : Building(globs, s, glob, pos, foundAsterisk, nameRegexp)
  BY <1>1 DEF GlobInv
<1>3. PICK t : /\ nameRegexp' = Append(nameRegexp, t)
               /\ \/ sym # Glob!Star /\ t = sym /\ foundAsterisk' = foundAsterisk
                  \/ sym = Glob!Star /\ ~foundAsterisk /\ t = Glob!NotDots /\ foundAsterisk' = TRUE
                  \/ sym = Glob!Star /\ foundAsterisk /\ t = Glob!Anything /\ foundAsterisk' = FALSE
  <2>1. CASE Glob!PlainSymbol
    BY <2>1 DEF Glob!PlainSymbol, Glob!Emit, Glob!Sym
  <2>2. CASE Glob!FirstAsterisk
    BY <2>2 DEF Glob!FirstAsterisk, Glob!Emit, Glob!Sym
  <2>3. CASE Glob!SecondAsterisk
    BY <2>3 DEF Glob!SecondAsterisk, Glob!Emit, Glob!Sym
  <2> QED BY <2>1, <2>2, <2>3
<1>4. foundAsterisk \in BOOLEAN
  BY <1>2 DEF Building
<1>5. t \in Glob!Token /\ foundAsterisk' \in BOOLEAN
  <2>1. Glob!NotDots \in Glob!Token /\ Glob!Anything \in Glob!Token
    BY Zenon DEF Glob!Token
  <2>2. sym # Glob!Star => sym \in Glob!Token
    <3>1. glob \in 1 .. Len(globs) /\ pos \in 1 .. Len(globs[glob]) /\ globs[glob] \in Seq(Symbol)
      <4>1. Len(globs) \in Nat /\ glob \in Nat /\ glob >= 1 /\ pos \in Nat /\ pos >= 1
        BY <1>2, BuildingTypes
      <4>2. glob \in 1 .. Len(globs)
        BY <1>1, <4>1
      <4>3. globs[glob] \in Seq(Symbol) /\ Len(globs[glob]) \in Nat
        BY <1>2, <4>2, BuildingTypes
      <4> QED BY <1>1, <4>1, <4>2, <4>3
    <3>2. sym # Glob!Star => sym \in Char
      BY <3>1, CharOf
    <3> HIDE DEF sym
    <3>3. \A c \in Char : c \in Glob!Token
      BY DEF Char, Glob!Token
    <3> QED BY <3>2, <3>3
  <2> HIDE DEF sym
  <2> QED BY <1>3, <1>4, <2>1, <2>2
<1>6. /\ sym # Glob!Star => t = sym /\ foundAsterisk' = foundAsterisk
      /\ sym = Glob!Star => /\ t \in {Glob!NotDots, Glob!Anything}
                            /\ t = Glob!NotDots <=> ~foundAsterisk
                            /\ foundAsterisk' <=> ~foundAsterisk
  <2> HIDE DEF sym
  <2>1. Glob!NotDots # Glob!Anything
    BY TokensApart
  <2> QED BY <1>3, <1>4, <2>1, Zenon
<1>7. Building(globs, s, glob, pos + 1, foundAsterisk', Extended(nameRegexp, t))
  <2> DEFINE h == foundAsterisk'
  <2>1. h \in BOOLEAN /\ t \in Glob!Token
    BY <1>5
  <2>2. /\ globs[glob][pos] # Glob!Star => t = globs[glob][pos] /\ h = foundAsterisk
        /\ globs[glob][pos] = Glob!Star => /\ t \in {Glob!NotDots, Glob!Anything}
                                           /\ t = Glob!NotDots <=> ~foundAsterisk
                                           /\ h <=> ~foundAsterisk
    BY <1>6
  <2> HIDE DEF h
  <2>3. Building(globs, s, glob, pos + 1, h, Extended(nameRegexp, t))
    BY <1>1, <1>2, <2>1, <2>2, SymbolStep
  <2> QED BY <2>3 DEF h
<1>8. Building(globs', s, glob', pos', foundAsterisk', nameRegexp')
  BY <1>1, <1>3, <1>7 DEF Extended
<1> QED BY <1>1, <1>8 DEF GlobInv

LEMMA EndGlobStep == ASSUME GlobInv, Glob!EndGlob PROVE GlobInv'
<1>1. /\ state = "building" /\ glob <= Len(globs) /\ pos > Len(globs[glob])
      /\ nameRegexp' = Append(nameRegexp, "|") /\ glob' = glob + 1 /\ pos' = 1 /\ foundAsterisk' = FALSE
      /\ globs' = globs /\ state' = state
  BY DEF Glob!EndGlob
<1>2. PICK s : Building(globs, s, glob, pos, foundAsterisk, nameRegexp)
  BY <1>1 DEF GlobInv
<1>3. \E u : Building(globs, u, glob + 1, 1, FALSE, Extended(nameRegexp, "|"))
  BY <1>1, <1>2, GlobEnds
<1>4. nameRegexp' = Extended(nameRegexp, "|")
  BY <1>1 DEF Extended
<1>5. \E u : Building(globs', u, glob', pos', foundAsterisk', nameRegexp')
  BY <1>1, <1>3, <1>4
<1> QED BY <1>1, <1>5 DEF GlobInv

LEMMA AnchorStep == ASSUME GlobInv, Glob!Anchor PROVE GlobInv'
<1> DEFINE d == Glued(Glued(Glued(<<"^">>, Part(nameRegexp, 1, Len(nameRegexp) - 1)), Closing(globs)), <<"$">>)
<1>1. state = "building" /\ glob > Len(globs) /\ state' = "formed" /\ globs' = globs
  BY DEF Glob!Anchor
<1>2. nameRegexp' = d
  BY Zenon DEF Glob!Anchor, Glued, Part, Closing, Glob!Front
<1>3. PICK s : Building(globs, s, glob, pos, foundAsterisk, nameRegexp)
  BY <1>1 DEF GlobInv
<1>4. \E u : Laid(d, globs, u)
  BY <1>1, <1>3, AnchorForms
<1> QED BY <1>1, <1>2, <1>4 DEF GlobInv

LEMMA GlobStep == ASSUME ReadingInv, GlobInv, [Next]_<<plugin, toml, filter>> PROVE GlobInv'
<1>1. CASE FormRegex
  BY <1>1, FormRegexStep
<1>2. CASE BuildRegex
  BY <1>2, SymbolsStep, EndGlobStep, AnchorStep DEF BuildRegex, Glob!Translate
<1>3. CASE UNCHANGED filter
  BY <1>3 DEF filter, GlobInv
<1>4. Next => FormRegex \/ BuildRegex \/ UNCHANGED filter
  BY Zenon DEF Next, ReadDirective, UseRegex
<1>5. UNCHANGED <<plugin, toml, filter>> => UNCHANGED filter
  OBVIOUS
<1> QED BY <1>1, <1>2, <1>3, <1>4, <1>5

\* What is selected, alternative by alternative, is what is meant, glob by glob.
LEMMA FormedIsMeant ==
  ASSUME NEW s, Laid(nameRegexp, globs, s), NEW name, IsSeq(name), state = "formed"
  PROVE  /\ (\A i \in DOMAIN globs : Cardinality(Glob!StarRuns(globs[i])) <= 1 /\ ~Glob!Tripled(globs[i]))
              => (Glob!Selected(name) <=> Glob!Meant(name))
         /\ (\A i \in DOMAIN globs : Glob!StarsAreSegments(globs[i]) /\ ~Glob!Tripled(globs[i]))
              => (Glob!WellFormedName(name) /\ Glob!Meant(name) => Glob!Selected(name))
<1> DEFINE A == Glob!Alternatives(nameRegexp)
<1>1. OfTheGlobs(A, globs)
  <2> DEFINE n == Len(globs)
  <2>1. n \in Nat /\ n >= 1
    BY LaidTypes
  <2> HIDE DEF n
  <2>2. n = 1 \/ n > 1
    BY <2>1
  <2> USE DEF n
  <2> QED BY <2>2, AlternativeOfOne, AlternativeOfMany
<1>2. DOMAIN globs = 1 .. Len(globs)
  <2> DEFINE Y == Seq(Symbol)
  <2>1. globs \in Seq(Y)
    BY DEF Laid
  <2> HIDE DEF Y
  <2> QED BY <2>1, LenProperties
<1>3. Len(name) \in Nat /\ DOMAIN name = 1 .. Len(name)
  BY SeqFacts
<1>4. Glob!Selected(name) <=> \E a \in A : Glob!Search(a, name)
  BY Zenon DEF Glob!Selected, Glob!Matches
<1>5. Glob!Meant(name) <=> \E k \in 1 .. Len(globs) : Glob!GlobMatches(globs[k], name)
  BY <1>2, Zenon DEF Glob!Meant
<1> HIDE DEF A
<1>6. ASSUME \A i \in DOMAIN globs : Cardinality(Glob!StarRuns(globs[i])) <= 1 /\ ~Glob!Tripled(globs[i])
      PROVE  Glob!Selected(name) <=> Glob!Meant(name)
  <2>1. ASSUME NEW k \in 1 .. Len(globs), NEW a, IsAlternative(a, globs[k])
        PROVE  Glob!Search(a, name) <=> Glob!GlobMatches(globs[k], name)
    <3>1. Cardinality(Glob!StarRuns(globs[k])) <= 1 /\ ~Glob!Tripled(globs[k])
      BY <1>2, <1>6
    <3> QED BY <1>3, <2>1, <3>1, AlternativeIsMeant
  <2>2. ASSUME NEW a \in A, Glob!Search(a, name)
        PROVE  \E k \in 1 .. Len(globs) : Glob!GlobMatches(globs[k], name)
    <3>1. PICK k \in 1 .. Len(globs) : IsAlternative(a, globs[k])
      BY <1>1 DEF OfTheGlobs
    <3> QED BY <2>1, <2>2, <3>1
  <2>3. ASSUME NEW k \in 1 .. Len(globs), Glob!GlobMatches(globs[k], name)
        PROVE  \E a \in A : Glob!Search(a, name)
    <3>1. PICK a \in A : IsAlternative(a, globs[k])
      BY <1>1 DEF OfTheGlobs
    <3> QED BY <2>1, <2>3, <3>1
  <2> QED BY <1>4, <1>5, <2>2, <2>3, Zenon
<1>7. ASSUME \A i \in DOMAIN globs : Glob!StarsAreSegments(globs[i]) /\ ~Glob!Tripled(globs[i]),
             Glob!WellFormedName(name), Glob!Meant(name)
      PROVE  Glob!Selected(name)
  <2>1. PICK k \in 1 .. Len(globs) : Glob!GlobMatches(globs[k], name)
    BY <1>5, <1>7, Zenon
  <2>2. PICK a \in A : IsAlternative(a, globs[k])
    BY <1>1 DEF OfTheGlobs
  <2>3. Glob!StarsAreSegments(globs[k]) /\ ~Glob!Tripled(globs[k])
    BY <1>2, <1>7
  <2>4. Glob!Search(a, name)
    BY <1>3, <1>7, <2>1, <2>2, <2>3, AlternativeFindsMeant
  <2> QED BY <1>4, <2>4, Zenon
<1> QED BY <1>6, <1>7, Zenon

LEMMA SelectsByGlobs == ASSUME GlobInv PROVE SelectsWhatIsMeant
<1>1. SUFFICES ASSUME state = "formed" PROVE SelectsWhatIsMeant
  BY Zenon DEF SelectsWhatIsMeant, Glob!SelectsWhatIsMeant
<1>2. PICK s : Laid(nameRegexp, globs, s)
  BY <1>1 DEF GlobInv
<1>3. NamesAsked \subseteq Seq(Symbol)
  BY EntryPointAssumption
<1>4. \A T : Glob!Cardinality(T) = Cardinality(T)
  BY Zenon DEF Glob!Cardinality, Cardinality
<1>5. ASSUME NEW name \in NamesAsked
      PROVE  /\ (\A i \in DOMAIN globs : Glob!Cardinality(Glob!StarRuns(globs[i])) <= 1 /\ ~Glob!Tripled(globs[i]))
                  => (Glob!Selected(name) <=> Glob!Meant(name))
             /\ (\A i \in DOMAIN globs : Glob!StarsAreSegments(globs[i]) /\ ~Glob!Tripled(globs[i]))
                  => (Glob!WellFormedName(name) /\ Glob!Meant(name) => Glob!Selected(name))
  <2>1. IsSeq(name)
    BY <1>3, SeqOfAny
  <2>2. /\ (\A i \in DOMAIN globs : Cardinality(Glob!StarRuns(globs[i])) <= 1 /\ ~Glob!Tripled(globs[i]))
             => (Glob!Selected(name) <=> Glob!Meant(name))
        /\ (\A i \in DOMAIN globs : Glob!StarsAreSegments(globs[i]) /\ ~Glob!Tripled(globs[i]))
             => (Glob!WellFormedName(name) /\ Glob!Meant(name) => Glob!Selected(name))
    BY <1>1, <1>2, <2>1, FormedIsMeant, Zenon
  <2> QED BY <1>4, <2>2, Zenon
<1> QED BY <1>5, Zenon DEF SelectsWhatIsMeant, Glob!SelectsWhatIsMeant

\* With one wildcard in each glob of a list, however long, the expression made of it
\* selects exactly the names that a glob means, and with several wildcards none of
\* whole segments is lost (formRegex and the anchors it adds).
THEOREM SelectsAlwaysWhatIsMeant == Spec => []SelectsWhatIsMeant
<1>1. ReadingInv /\ GlobInv => SelectsWhatIsMeant
  BY SelectsByGlobs
<1>2. EntryPointInit => ReadingInv /\ GlobInv
  BY ReadingStarts, GlobStarts
<1>3. ReadingInv /\ GlobInv /\ [Next]_<<plugin, toml, filter>> => ReadingInv' /\ GlobInv'
  BY ReadingStep, GlobStep
<1> QED BY <1>1, <1>2, <1>3, PTL DEF Spec

-----------------------------------------------------------------------------
(***************************************************************************)
(* findPatchables: of the selected functions with one sort key, the first. *)
(***************************************************************************)
Candidate(k) == Eligible(Source(k)) /\ Selected(Source(k))
KeyOf(k) == SortKey(Source(k).name)
FirstOfKey(k) == Candidate(k) /\ \A l \in 1 .. k - 1 : Candidate(l) => KeyOf(l) # KeyOf(k)
Collected(k) == \E j \in 1 .. Len(collected) : k = collected[j]

\* The keys of the candidates before i.
KeysBefore(i) == {KeyOf(k) : k \in {l \in 1 .. Given : l < i /\ Candidate(l)}}

TakenOK ==
  /\ phase = "find" => /\ seen = KeysBefore(index)
                       /\ \A k \in 1 .. Given : Collected(k) <=> k < index /\ FirstOfKey(k)
  /\ phase \in {"patch", "stub", "stub patch", "done"} => \A k \in 1 .. Given : Collected(k) <=> FirstOfKey(k)

LEMMA SameCandidates ==
  ASSUME UNCHANGED <<source, regexp>>
  PROVE  /\ Given' = Given
         /\ \A k : (Candidate(k)' <=> Candidate(k)) /\ KeyOf(k)' = KeyOf(k) /\ (FirstOfKey(k)' <=> FirstOfKey(k))
<1>1. Given' = Given /\ \A k : Source(k)' = Source(k)
  BY DEF Given, Source
<1>2. \A f : (Eligible(f)' <=> Eligible(f)) /\ (Selected(f)' <=> Selected(f))
  BY DEF Eligible, PluginMade, Selected, MatchesFilter
<1>3. \A k : (Candidate(k)' <=> Candidate(k)) /\ KeyOf(k)' = KeyOf(k)
  BY <1>1, <1>2 DEF Candidate, KeyOf
<1>4. \A k : FirstOfKey(k)' <=> FirstOfKey(k)
  BY <1>3 DEF FirstOfKey
<1> QED BY <1>1, <1>3, <1>4

LEMMA SameTaken ==
  ASSUME TakenOK, UNCHANGED <<source, regexp, collected, seen>>,
         phase' = "find" => phase = "find" /\ index' = index,
         phase' \in {"patch", "stub", "stub patch", "done"} => phase \in {"patch", "stub", "stub patch", "done"}
  PROVE  TakenOK'
<1>1. Given' = Given
      /\ \A k : (Candidate(k)' <=> Candidate(k)) /\ KeyOf(k)' = KeyOf(k) /\ (FirstOfKey(k)' <=> FirstOfKey(k))
  BY SameCandidates
<1>2. \A k : Collected(k)' <=> Collected(k)
  BY DEF Collected
<1>3. phase' = "find" => KeysBefore(index)' = KeysBefore(index)
  BY <1>1 DEF KeysBefore
<1> QED BY <1>1, <1>2, <1>3 DEF TakenOK

LEMMA ConstructTaken == ASSUME PluginInv, ConstructPatcher PROVE TakenOK'
<1>1. /\ collected' = <<>> /\ seen' = {} /\ index' = 1 /\ phase' \in {"failed", "find"}
      /\ Given \in Nat /\ UNCHANGED <<source, regexp>>
  BY SourceNames DEF ConstructPatcher, PluginInv, Untouched
<1>2. \A k : ~Collected(k)'
  <2>1. Len(collected') = 0
    BY <1>1, ShortSeqs
  <2> QED BY <2>1 DEF Collected
<1>3. Given' = Given
  BY <1>1 DEF Given
<1>4. \A k \in 1 .. Given : ~(k < index')
  BY <1>1
<1>5. KeysBefore(index)' = {}
  BY <1>3, <1>4 DEF KeysBefore
<1> QED BY <1>1, <1>2, <1>3, <1>4, <1>5 DEF TakenOK

LEMMA KeysOneMore ==
  ASSUME Given \in Nat, NEW i \in 1 .. Given
  PROVE  KeysBefore(i + 1) = KeysBefore(i) \cup (IF Candidate(i) THEN {KeyOf(i)} ELSE {})
<1>1. \A l \in 1 .. Given : l < i + 1 <=> l < i \/ l = i
  OBVIOUS
<1> QED BY <1>1 DEF KeysBefore

LEMMA TakenByKeys ==
  ASSUME Given \in Nat, NEW i \in 1 .. Given
  PROVE  FirstOfKey(i) <=> Candidate(i) /\ KeyOf(i) \notin KeysBefore(i)
<1>1. \A l : l \in 1 .. i - 1 <=> l \in 1 .. Given /\ l < i
  OBVIOUS
<1> QED BY <1>1 DEF FirstOfKey, KeysBefore

LEMMA FindTaken == ASSUME PluginInv, KeptOK, TakenOK, FindPatchable PROVE TakenOK'
<1> DEFINE f == functions[index]
           key == SortKey(f.name)
<1>1. /\ phase = "find" /\ phase' = "find" /\ index' = index + 1 /\ index <= Len(functions)
      /\ UNCHANGED <<source, functions, regexp>> /\ SourceOK /\ CollectedOK /\ PackageOK /\ Constructed
      /\ IF Eligible(f) /\ Selected(f) /\ key \notin seen
           THEN seen' = seen \cup {key} /\ collected' = Append(collected, index)
           ELSE UNCHANGED <<seen, collected>>
  BY DEF FindPatchable, PluginInv, package, Constructed
<1>2. Given' = Given
      /\ \A k : (Candidate(k)' <=> Candidate(k)) /\ KeyOf(k)' = KeyOf(k) /\ (FirstOfKey(k)' <=> FirstOfKey(k))
  BY <1>1, SameCandidates
<1>3. Given \in Nat /\ index \in Nat \ {0} /\ IsSeq(collected) /\ index \in 1 .. Len(functions)
  BY <1>1, SourceNames, SeqFacts DEF CollectedOK, PackageOK, FunctionsOK
<1>4. /\ seen = KeysBefore(index)
      /\ \A k \in 1 .. Given : Collected(k) <=> k < index /\ FirstOfKey(k)
  BY <1>1 DEF TakenOK
<1>5. KeysBefore(index)' = KeysBefore(index + 1)
  BY <1>1, <1>2 DEF KeysBefore
<1>6. CASE index > Given
  <2>1. ~Eligible(f)
    BY <1>1, <1>3, <1>6, EligibleAreGiven
  <2>2. UNCHANGED <<seen, collected>>
    BY <1>1, <2>1
  <2>3. \A k \in 1 .. Given : k < index /\ k < index + 1
    BY <1>3, <1>6
  <2>4. KeysBefore(index + 1) = KeysBefore(index)
    BY <2>3 DEF KeysBefore
  <2>5. \A k : Collected(k)' <=> Collected(k)
    BY <2>2 DEF Collected
  <2> QED BY <1>1, <1>2, <1>4, <1>5, <2>2, <2>3, <2>4, <2>5 DEF TakenOK
<1>7. CASE ~(index > Given)
  <2>1. index \in 1 .. Given
    BY <1>3, <1>7
  <2>2. f.name = Source(index).name /\ SameKind(f, Source(index))
    <3>1. FunctionOK(index)
      BY <1>1, <1>3 DEF PackageOK, FunctionsOK
    <3>2. index <= Given
      BY <1>3, <1>7
    <3> QED BY <1>1, <1>3, <3>1, <3>2 DEF FunctionOK, KeptOK
  <2>3. (Eligible(f) /\ Selected(f) <=> Candidate(index)) /\ key = KeyOf(index)
    <3> HIDE DEF f
    <3>1. Eligible(f) <=> Eligible(Source(index))
      BY <2>2 DEF Eligible, PluginMade, SameKind
    <3>2. Selected(f) <=> Selected(Source(index))
      BY <2>2 DEF Selected, SameKind
    <3> QED BY <2>2, <3>1, <3>2 DEF Candidate, KeyOf
  <2>4. FirstOfKey(index) <=> Candidate(index) /\ key \notin seen
    BY <1>3, <1>4, <2>1, <2>3, TakenByKeys
  <2>5. KeysBefore(index + 1) = seen \cup (IF Candidate(index) THEN {key} ELSE {})
    BY <1>3, <1>4, <2>1, <2>3, KeysOneMore
  <2> HIDE DEF key, f
  <2>6. CASE FirstOfKey(index)
    <3>1. seen' = seen \cup {key} /\ collected' = Append(collected, index)
      BY <1>1, <2>3, <2>4, <2>6
    <3>2. IsAppend(collected', collected, index)
      BY <1>3, <3>1, AppendSeq
    <3>3. ASSUME NEW k \in 1 .. Given PROVE Collected(k)' <=> Collected(k) \/ k = index
      <4>1. Len(collected) \in Nat /\ Len(collected') = Len(collected) + 1
        BY <3>2 DEF IsAppend
      <4>2. \A j \in 1 .. Len(collected') : j \in 1 .. Len(collected) \/ j = Len(collected) + 1
        BY <4>1
      <4>3. Len(collected) + 1 \in 1 .. Len(collected') /\ \A j \in 1 .. Len(collected) : j \in 1 .. Len(collected')
        BY <4>1
      <4> QED BY <3>2, <4>2, <4>3 DEF IsAppend, Collected
    <3>4. \A k \in 1 .. Given : k < index + 1 <=> k < index \/ k = index
      BY <1>3
    <3>5. \A k \in 1 .. Given : Collected(k)' <=> k < index + 1 /\ FirstOfKey(k)
      BY <1>4, <2>6, <3>3, <3>4
    <3>6. seen' = KeysBefore(index + 1)
      BY <2>4, <2>5, <2>6, <3>1
    <3> QED BY <1>1, <1>2, <1>5, <3>5, <3>6 DEF TakenOK
  <2>7. CASE ~FirstOfKey(index)
    <3>1. UNCHANGED <<seen, collected>>
      BY <1>1, <2>3, <2>4, <2>7
    <3>2. \A k : Collected(k)' <=> Collected(k)
      BY <3>1 DEF Collected
    <3>3. \A k \in 1 .. Given : k < index + 1 <=> k < index \/ k = index
      BY <1>3
    <3>4. \A k \in 1 .. Given : Collected(k)' <=> k < index + 1 /\ FirstOfKey(k)
      BY <1>4, <2>7, <3>2, <3>3
    <3>5. seen' = KeysBefore(index + 1)
      BY <2>4, <2>5, <2>7, <3>1
    <3> QED BY <1>1, <1>2, <1>5, <3>4, <3>5 DEF TakenOK
  <2> QED BY <2>6, <2>7
<1> QED BY <1>6, <1>7

LEMMA FoundTaken == ASSUME PluginInv, TakenOK, Found PROVE TakenOK'
<1>1. /\ phase = "find" /\ phase' = "patch" /\ index > Len(functions)
      /\ UNCHANGED <<source, regexp, collected>> /\ SourceOK /\ CollectedOK /\ PackageOK
  BY DEF Found, PluginInv, Constructed
<1>2. Given' = Given /\ \A k : FirstOfKey(k)' <=> FirstOfKey(k)
  BY <1>1, SameCandidates
<1>3. \A k : Collected(k)' <=> Collected(k)
  BY <1>1 DEF Collected
<1>4. Given \in Nat /\ index \in Nat /\ Len(functions) \in Nat /\ Base >= Given + 7 /\ Base \in Nat
      /\ Base <= Len(functions)
  BY <1>1, GuardedAre DEF CollectedOK
<1>5. \A k \in 1 .. Given : k < index
  BY <1>1, <1>4
<1> QED BY <1>1, <1>2, <1>3, <1>5 DEF TakenOK

LEMMA TakenStep == ASSUME PluginInv, KeptOK, TakenOK, [Next]_<<plugin, toml, filter>> PROVE TakenOK'
<1>1. CASE ConstructPatcher
  BY <1>1, ConstructTaken
<1>2. CASE FindPatchable
  BY <1>2, FindTaken
<1>3. CASE Found
  BY <1>3, FoundTaken
<1>4. CASE CreateContext \/ UseRegex
  BY <1>4 DEF CreateContext, UseRegex, TakeFilter, TakenOK
<1>5. CASE Patch \/ GenPatchClass \/ ConstructStub \/ StubPatch \/ Stubs
  <2>1. /\ phase \in {"patch", "stub", "stub patch"} /\ phase' # "find"
        /\ UNCHANGED <<source, regexp, collected, seen>>
    BY <1>5 DEF Patch, GenPatchClass, ConstructStub, StubPatch, Stubs
  <2> QED BY <2>1, SameTaken
<1>6. CASE ReadDirective \/ FormRegex \/ BuildRegex \/ Lookups \/ UNCHANGED plugin
  <2>1. UNCHANGED vars
    BY <1>6 DEF ReadDirective, FormRegex, BuildRegex, Lookups, FindParts, AskFor, plugin
  <2>2. UNCHANGED <<source, regexp, collected, seen, phase, index>>
    BY <2>1 DEF vars
  <2> QED BY <2>2, SameTaken
<1> QED BY <1>1, <1>2, <1>3, <1>4, <1>5, <1>6 DEF Next, PluginNext

-----------------------------------------------------------------------------
(***************************************************************************)
(* The filter: what the finder asks is what the globs of the directive     *)
(* mean.                                                                   *)
(***************************************************************************)

\* The names that the finder asks about for the k-th function.
AskedFor(k) ==
  {QualifiedName(Source(k).name), QualifiedName(Name(Pkg, Source(k).name.class, <<>>, <<>>))}

FilterOK ==
  /\ state # "idle" => Toml!Finished /\ globs = result /\ (state = "none" <=> globs = <<>>)
  /\ ~found => text = <<>> /\ row = 1 /\ col = 0 /\ result = <<>>
  /\ phase \notin {"context", "filter", "failed"} =>
       /\ state \in {"formed", "none"} /\ (regexp.given <=> state = "formed")
       /\ \A k \in 1 .. Given : \A n \in AskedFor(k) : n \in regexp.selects <=> Glob!Selected(n)

LEMMA FilterStarts == EntryPointInit => FilterOK
<1>1. SUFFICES ASSUME EntryPointInit PROVE FilterOK
  OBVIOUS
<1>2. phase = "context"
  BY <1>1 DEF EntryPointInit, HandoverInitOn, InitOn
<1>3. state = "idle"
  BY <1>1 DEF EntryPointInit, Glob!Init
<1>4. ~found => text = <<>> /\ row = 1 /\ col = 0 /\ result = <<>>
  BY <1>1 DEF EntryPointInit, Toml!InitOn, Toml!ReadFileText
<1> QED BY <1>2, <1>3, <1>4 DEF FilterOK

LEMMA SameFilter ==
  ASSUME FilterOK, UNCHANGED <<toml, filter, source, regexp>>,
         phase' \notin {"context", "filter", "failed"} => phase \notin {"context", "filter", "failed"}
  PROVE  FilterOK'
<1>1. UNCHANGED <<state, globs, nameRegexp, text, row, col, result, found>>
  BY DEF toml, filter
<1>2. Given' = Given /\ \A k : AskedFor(k)' = AskedFor(k)
  BY DEF Given, AskedFor, Source
<1>3. \A n : Glob!Selected(n)' <=> Glob!Selected(n)
  BY <1>1 DEF Glob!Selected
<1>4. Toml!Finished' <=> Toml!Finished
  BY <1>1 DEF Toml!Finished
<1> QED BY <1>1, <1>2, <1>3, <1>4 DEF FilterOK

LEMMA ReadFilter == ASSUME FilterOK, ReadDirective PROVE FilterOK'
<1>1. phase' = "filter" /\ state' = "idle" /\ found' = found /\ Toml!Next
  BY DEF ReadDirective, plugin, vars, filter, Toml!Next, Toml!HeaderLine, Toml!DirectiveLine, Toml!OtherLine,
         Toml!OpenQuote, Toml!CloseQuote, Toml!QuotedRune, Toml!OtherRune, Toml!Scanned, Toml!EndOfLine
<1>2. found
  <2>1. SUFFICES ASSUME text = <<>>, row = 1, col = 0 PROVE FALSE
    BY DEF FilterOK
  <2>2. Len(text) = 0
    BY <2>1, ShortSeqs
  <2>3. ~(row <= Len(text)) /\ ~(col > 0)
    BY <2>1, <2>2
  <2> QED BY <1>1, <2>3, Zenon
        DEF Toml!Next, Toml!HeaderLine, Toml!DirectiveLine, Toml!OtherLine, Toml!AtLine, Toml!OpenQuote,
            Toml!CloseQuote, Toml!QuotedRune, Toml!OtherRune, Toml!AtRune, Toml!EndOfLine
<1> QED BY <1>1, <1>2 DEF FilterOK

LEMMA FormFilter == ASSUME FilterOK, FormRegex PROVE FilterOK'
<1>1. /\ phase' = "filter" /\ Toml!Finished /\ globs' = result
      /\ state' = IF result = <<>> THEN "none" ELSE "building"
      /\ UNCHANGED <<document, found, text, row, col, result>>
  BY DEF FormRegex, Glob!StartOn, toml, plugin, vars
<1>2. Toml!Finished'
  BY <1>1 DEF Toml!Finished
<1> QED BY <1>1, <1>2 DEF FilterOK

LEMMA BuildFilter == ASSUME FilterOK, BuildRegex PROVE FilterOK'
<1>1. /\ phase' = "filter" /\ state = "building" /\ state' \in {"building", "formed"} /\ globs' = globs
      /\ UNCHANGED <<found, text, row, col, result>>
  BY DEF BuildRegex, Glob!Translate, Glob!PlainSymbol, Glob!FirstAsterisk, Glob!SecondAsterisk, Glob!EndGlob,
         Glob!Anchor, Glob!AtSymbol, Glob!Emit, toml, plugin, vars
<1>2. Toml!Finished' <=> Toml!Finished
  BY <1>1 DEF Toml!Finished
<1> QED BY <1>1, <1>2 DEF FilterOK

LEMMA UseFilter == ASSUME PluginInv, FilterOK, UseRegex PROVE FilterOK'
<1>1. /\ state \in {"formed", "none"} /\ phase = "filter" /\ phase' = "construct"
      /\ regexp' = [given |-> state = "formed", selects |-> {n \in QualifiedNames : Glob!Selected(n)}]
      /\ UNCHANGED <<source, toml, filter>>
  BY DEF UseRegex, TakeFilter
<1>2. UNCHANGED <<state, globs, nameRegexp, text, row, col, result, found>>
  BY <1>1 DEF toml, filter
<1>3. Given' = Given /\ \A k : AskedFor(k)' = AskedFor(k)
  BY <1>1 DEF Given, AskedFor, Source
<1>4. \A n : Glob!Selected(n)' <=> Glob!Selected(n)
  BY <1>2 DEF Glob!Selected
<1>5. Toml!Finished' <=> Toml!Finished
  BY <1>2 DEF Toml!Finished
<1>6. functions = [i \in 1 .. Given |-> Source(i)]
  BY <1>1 DEF PluginInv, Untouched
<1>7. \A k \in 1 .. Given : AskedFor(k) \subseteq QualifiedNames
  BY <1>6 DEF AskedFor, QualifiedNames
<1>8. \A k \in 1 .. Given : \A n \in AskedFor(k) : n \in regexp'.selects <=> Glob!Selected(n)
  <2>1. regexp'.selects = {n \in QualifiedNames : Glob!Selected(n)}
    BY <1>1
  <2> QED BY <1>7, <2>1
<1>9. regexp'.given <=> state = "formed"
  BY <1>1
<1> QED BY <1>1, <1>2, <1>3, <1>4, <1>5, <1>8, <1>9 DEF FilterOK

LEMMA FilterOKStep == ASSUME PluginInv, FilterOK, [Next]_<<plugin, toml, filter>> PROVE FilterOK'
<1>1. CASE ReadDirective
  BY <1>1, ReadFilter
<1>2. CASE FormRegex
  BY <1>2, FormFilter
<1>3. CASE BuildRegex
  BY <1>3, BuildFilter
<1>4. CASE UseRegex
  BY <1>4, UseFilter
<1>5. CASE PluginNext /\ UNCHANGED <<lookup, toml, filter>>
  <2>1. /\ UNCHANGED <<source, regexp>>
        /\ phase' \notin {"context", "filter", "failed"} => phase \notin {"context", "filter", "failed"}
    BY <1>5 DEF PluginNext, CreateContext, ConstructPatcher, FindPatchable, Found, Patch, GenPatchClass,
                ConstructStub, StubPatch, Stubs
  <2> QED BY <1>5, <2>1, SameFilter
<1>6. CASE Lookups /\ UNCHANGED <<toml, filter>>
  <2>1. UNCHANGED <<source, regexp, phase>>
    BY <1>6 DEF Lookups, FindParts, AskFor, vars
  <2> QED BY <1>6, <2>1, SameFilter
<1>7. CASE UNCHANGED <<plugin, toml, filter>>
  <2>1. UNCHANGED <<source, regexp, phase>>
    BY <1>7 DEF plugin, vars
  <2> QED BY <1>7, <2>1, SameFilter
<1> QED BY <1>1, <1>2, <1>3, <1>4, <1>5, <1>6, <1>7 DEF Next

-----------------------------------------------------------------------------
(***************************************************************************)
(* From the directive to the guards.                                       *)
(***************************************************************************)

\* What is asked for a function of the package is a sequence.
LEMMA AskedSeqs ==
  ASSUME SourceOK, NEW k \in 1 .. Given, NEW n \in AskedFor(k) PROVE IsSeq(n)
<1> DEFINE f == source.functions[k]
<1>1. /\ IsSeq(f.func[1]) /\ (f.class # <<>> => IsSeq(f.class[1]))
      /\ Source(k).name = Name(Pkg, f.class, f.func, f.params)
  <2>1. IsSeq(source.functions) /\ DOMAIN source.functions = 1 .. Given
    BY SourceNames, SeqFacts DEF Given
  <2>2. f \in ToSet(source.functions)
    BY <2>1 DEF ToSet
  <2>3. Source(k).name = Name(Pkg, f.class, f.func, f.params)
    BY OwnFn DEF Source
  <2> QED BY <2>2, <2>3 DEF SourceOK, IsSource, IsSeq
<1>2. IsSeq(Pkg) /\ IsSeq(<<".">>) /\ IsSeq(<<>>)
  BY PackageAssumption, ShortSeqs DEF IsSeq
<1>3. ASSUME NEW class, NEW func, class # <<>> => IsSeq(class[1]), func # <<>> => IsSeq(func[1]), NEW params
      PROVE  IsSeq(QualifiedName(Name(Pkg, class, func, params)))
  <2> DEFINE a == IF class = <<>> THEN <<>> ELSE <<".">> \o class[1]
             b == IF func = <<>> THEN <<>> ELSE <<".">> \o func[1]
  <2>1. IsSeq(a)
    BY <1>2, <1>3, ConcatSeq DEF IsConcat
  <2>2. IsSeq(b)
    BY <1>2, <1>3, ConcatSeq DEF IsConcat
  <2>3. QualifiedName(Name(Pkg, class, func, params)) = (Pkg \o a) \o b
    BY DEF QualifiedName, Name
  <2> HIDE DEF a, b
  <2>4. IsSeq(Pkg \o a)
    BY <1>2, <2>1, ConcatSeq DEF IsConcat
  <2>5. IsSeq((Pkg \o a) \o b)
    BY <2>2, <2>4, ConcatSeq DEF IsConcat
  <2> QED BY <2>3, <2>5
<1>4. Source(k).name.class = f.class
  BY <1>1 DEF Name
<1> HIDE DEF f
<1>5. IsSeq(QualifiedName(Source(k).name))
  BY <1>1, <1>3
<1>6. IsSeq(QualifiedName(Name(Pkg, Source(k).name.class, <<>>, <<>>)))
  BY <1>1, <1>3, <1>4
<1> QED BY <1>5, <1>6 DEF AskedFor

\* What the finder is told of a name is what the directive means.
OneRunEach == \A i \in DOMAIN globs : Cardinality(Glob!StarRuns(globs[i])) <= 1 /\ ~Glob!Tripled(globs[i])
TheDirective == IF found THEN ToSet(Toml!Meant) ELSE {}
MeantName(n) ==
  IF TheDirective = {} THEN source.patchAll ELSE \E g \in TheDirective : Glob!GlobMatches(g, QualifiedName(n))

LEMMA GlobsOfDirective ==
  ASSUME ReadingInv, FilterOK, state # "idle", Toml!SingleLine PROVE TheDirective = ToSet(globs)
<1>1. Toml!Finished /\ globs = result
  BY DEF FilterOK
<1>2. CASE found
  <2>1. Toml!Meant = MeantBy(document)
    BY SameFlatten, Zenon DEF Toml!Meant, MeantBy, MeantOf, StringsOf
  <2>2. OneLineDocument(document)
    BY Zenon DEF Toml!SingleLine, Toml!EveryEntry, OneLineDocument, OneLineEntry
  <2>3. result = MeantBy(document)
    BY <1>1, <1>2, <2>2, ReadsWhatIsMeant
  <2> QED BY <1>1, <1>2, <2>1, <2>3 DEF TheDirective
<1>3. CASE ~found
  <2>1. result = <<>>
    BY <1>3 DEF FilterOK
  <2>2. ToSet(<<>>) = {}
    BY DEF ToSet
  <2> QED BY <1>1, <1>3, <2>1, <2>2 DEF TheDirective
<1> QED BY <1>2, <1>3

LEMMA ToldAsMeant ==
  ASSUME SourceOK, ReadingInv, GlobInv, FilterOK, phase \notin {"context", "filter", "failed"},
         Toml!SingleLine, OneRunEach, NEW k \in 1 .. Given, NEW n, QualifiedName(n) \in AskedFor(k)
  PROVE  MatchesFilter(n) <=> MeantName(n)
<1> DEFINE q == QualifiedName(n)
<1>1. /\ state \in {"formed", "none"} /\ (regexp.given <=> state = "formed") /\ globs = result
      /\ (state = "none" <=> globs = <<>>) /\ (q \in regexp.selects <=> Glob!Selected(q))
  BY DEF FilterOK
<1>2. TheDirective = ToSet(globs)
  BY <1>1, GlobsOfDirective
<1>3. CASE state = "none"
  <2>1. TheDirective = {} /\ ~regexp.given
    BY <1>1, <1>2, <1>3 DEF ToSet
  <2> QED BY <2>1 DEF MatchesFilter, MeantName
<1>4. CASE state = "formed"
  <2>1. PICK s : Laid(nameRegexp, globs, s)
    BY <1>4 DEF GlobInv
  <2>2. IsSeq(q)
    BY AskedSeqs
  <2> HIDE DEF q
  <2>3. Glob!Selected(q) <=> Glob!Meant(q)
    BY <1>4, <2>1, <2>2, FormedIsMeant DEF OneRunEach
  <2>4. Glob!Meant(q) <=> \E g \in ToSet(globs) : Glob!GlobMatches(g, q)
    BY DEF Glob!Meant, ToSet
  <2>5. ToSet(globs) # {}
    <3>1. Len(globs) \in Nat /\ Len(globs) >= 1 /\ DOMAIN globs = 1 .. Len(globs)
      <4> DEFINE Y == Seq(Symbol)
      <4>1. globs \in Seq(Y) /\ Len(globs) >= 1
        BY <2>1 DEF Laid
      <4> HIDE DEF Y
      <4> QED BY <4>1, LenProperties
    <3>2. 1 \in DOMAIN globs
      BY <3>1
    <3> QED BY <3>2 DEF ToSet
  <2>6. MatchesFilter(n) <=> q \in regexp.selects
    BY <1>1, <1>4 DEF MatchesFilter, q
  <2>7. MeantName(n) <=> \E g \in ToSet(globs) : Glob!GlobMatches(g, q)
    BY <1>2, <2>5 DEF MeantName, q
  <2> QED BY <1>1, <2>3, <2>4, <2>6, <2>7
<1> QED BY <1>1, <1>3, <1>4

\* No function of the package is one that the plugin added.
LEMMA OwnNotMade ==
  ASSUME SourceOK, NEW k \in 1 .. Given
  PROVE  PluginMade(Source(k)) <=> Source(k).name.func[1] = <<"$mainInvoke">>
<1> DEFINE f == source.functions[k]
<1>1. /\ Source(k).name.class # <<InitGuardClass>> /\ Source(k).name.func[1] # InitializerName
  BY SourceNames
<1>2. \A i \in 1 .. 4 : Source(k).name.func[1] # Accessors[i]
  <2>1. IsSeq(source.functions) /\ DOMAIN source.functions = 1 .. Given
    BY SourceNames, SeqFacts DEF Given
  <2>2. "$" \notin ToSet(f.func[1])
    BY <2>1 DEF SourceOK, IsSource, ToSet
  <2>3. Source(k).name.func = f.func
    <3>1. Source(k).name = Name(Pkg, f.class, f.func, f.params)
      BY OwnFn DEF Source
    <3> QED BY <3>1 DEF Name
  <2>4. \A i \in 1 .. 4 : "$" \in ToSet(Accessors[i])
    BY FunctionNames
  <2> QED BY <2>2, <2>3, <2>4
<1> QED BY <1>1, <1>2 DEF PluginMade, InitializerName

LEMMA GuardsByMeaning ==
  ASSUME PluginInv, KeptOK, TakenOK, ReadingInv, GlobInv, FilterOK PROVE GuardedAsMeant
<1> SUFFICES ASSUME phase = "done", Toml!SingleLine, OneRunEach PROVE GuardedAsMeant
  BY DEF GuardedAsMeant, OneRunEach
<1> DEFINE chosen(f) == \/ f.anno \/ MeantName(f.name)
                        \/ /\ f.name.class # <<>>
                           /\ \/ f.name.class[1] \in source.annotatedClasses
                              \/ MeantName(Name(Pkg, f.name.class, <<>>, <<>>))
           candidate(i) == /\ functions[i].attr = "none" /\ ~functions[i].made
                           /\ functions[i].name.func[1] # <<"$mainInvoke">> /\ chosen(functions[i])
<1>1. SourceOK /\ CollectedOK /\ PackageOK /\ Constructed /\ Count = Len(collected)
  BY DEF PluginInv, Constructed, Count
<1>2. /\ Count \in Nat /\ Given \in Nat /\ Base \in Nat /\ Base >= Given + 7
      /\ Len(functions) \in Nat /\ Base <= Len(functions) /\ DOMAIN functions = 1 .. Len(functions)
      /\ \A i \in GuardedFunctions : \E j \in 1 .. Count : i = collected[j]
      /\ \A j \in 1 .. Count : collected[j] \in 1 .. Given /\ collected[j] \in GuardedFunctions
  <2>1. DOMAIN functions = 1 .. Len(functions)
    BY <1>1, SeqFacts DEF PackageOK, FunctionsOK
  <2> QED BY <1>1, <2>1, GuardedAre
<1>3. ASSUME NEW i \in 1 .. Len(functions)
      PROVE  Guarded(i) <=> i \in 1 .. Given /\ FirstOfKey(i)
  <2>1. Guarded(i) <=> \E j \in 1 .. Count : i = collected[j]
    BY <1>2 DEF GuardedFunctions
  <2>2. (\E j \in 1 .. Count : i = collected[j]) <=> i \in 1 .. Given /\ Collected(i)
    BY <1>1, <1>2 DEF Collected
  <2>3. i \in 1 .. Given => (Collected(i) <=> FirstOfKey(i))
    BY DEF TakenOK
  <2> QED BY <2>1, <2>2, <2>3
<1>4. ASSUME NEW i \in 1 .. Len(functions), ~(i \in 1 .. Given) PROVE ~candidate(i)
  <2>1. ~(i <= Given)
    BY <1>2, <1>4
  <2>2. functions[i].made = TRUE
    BY <1>1, <2>1 DEF KeptOK
  <2> QED BY <2>2
<1>5. ASSUME NEW i \in 1 .. Given
      PROVE  (candidate(i) <=> Candidate(i)) /\ functions[i].name = Source(i).name
  <2>1. i \in 1 .. Len(functions) /\ i <= Given
    BY <1>2
  <2>2. functions[i].name = Source(i).name
    <3>1. FunctionOK(i)
      BY <1>1, <2>1 DEF PackageOK, FunctionsOK
    <3> QED BY <2>1, <3>1 DEF FunctionOK
  <2>3. SameKind(functions[i], Source(i))
    BY <1>1, <2>1 DEF KeptOK
  <2>4. ~functions[i].made
    BY <2>3 DEF SameKind, Source, Own
  <2>5. PluginMade(Source(i)) <=> functions[i].name.func[1] = <<"$mainInvoke">>
    BY <1>1, <2>2, OwnNotMade
  <2>6. MatchesFilter(Source(i).name) <=> MeantName(Source(i).name)
    <3>1. QualifiedName(Source(i).name) \in AskedFor(i)
      BY DEF AskedFor
    <3> QED BY <1>1, <3>1, ToldAsMeant
  <2>7. MatchesFilter(Name(Pkg, Source(i).name.class, <<>>, <<>>))
          <=> MeantName(Name(Pkg, Source(i).name.class, <<>>, <<>>))
    <3>1. QualifiedName(Name(Pkg, Source(i).name.class, <<>>, <<>>)) \in AskedFor(i)
      BY DEF AskedFor
    <3> QED BY <1>1, <3>1, ToldAsMeant
  <2>8. chosen(functions[i]) <=> Selected(Source(i))
    BY <2>2, <2>3, <2>6, <2>7 DEF Selected, SameKind
  <2>9. Eligible(Source(i)) <=> functions[i].attr = "none" /\ functions[i].name.func[1] # <<"$mainInvoke">>
    BY <2>3, <2>5 DEF Eligible, SameKind
  <2> HIDE DEF chosen
  <2> QED BY <2>2, <2>4, <2>8, <2>9 DEF Candidate
<1> HIDE DEF candidate
<1>6. ASSUME NEW i \in 1 .. Len(functions)
      PROVE  Guarded(i) <=> /\ candidate(i)
                            /\ ~\E k \in 1 .. i - 1 : /\ candidate(k)
                                  /\ SortKey(functions[k].name) = SortKey(functions[i].name)
  <2>1. CASE ~(i \in 1 .. Given)
    BY <1>3, <1>4, <2>1
  <2>2. CASE i \in 1 .. Given
    <3>1. \A k \in 1 .. i - 1 : k \in 1 .. Given
      BY <1>2, <2>2
    <3>2. \A k \in 1 .. i - 1 : (candidate(k) <=> Candidate(k)) /\ functions[k].name = Source(k).name
      BY <1>5, <3>1
    <3>3. (candidate(i) <=> Candidate(i)) /\ functions[i].name = Source(i).name
      BY <1>5, <2>2
    <3>4. Guarded(i) <=> FirstOfKey(i)
      BY <1>3, <2>2
    <3> QED BY <3>2, <3>3, <3>4 DEF FirstOfKey, KeyOf
  <2> QED BY <2>1, <2>2
<1> QED BY <1>2, <1>6 DEF GuardedAsMeant, candidate, MeantName, TheDirective

\* What the author writes is what is guarded, but for functions with the sort key of
\* an earlier one, for every package and every document:
\* with a directive in one line, whose globs have one wildcard each, exactly the eligible
\* functions that carry the annotation or that a glob means, and of functions with the
\* same sort key the first (EntryPoint.run from the reader of cjpm.toml to patch).
THEOREM GuardedAlwaysAsMeant == Spec => []GuardedAsMeant
<1>1. PluginInv /\ KeptOK /\ TakenOK /\ ReadingInv /\ GlobInv /\ FilterOK => GuardedAsMeant
  BY GuardsByMeaning
<1>2. EntryPointInit => PluginInv /\ KeptOK /\ TakenOK /\ ReadingInv /\ GlobInv /\ FilterOK
  <2>1. EntryPointInit => phase = "context"
    BY DEF EntryPointInit, HandoverInitOn, InitOn
  <2>2. phase = "context" => KeptOK /\ TakenOK
    BY DEF KeptOK, TakenOK, Constructed
  <2> QED BY <2>1, <2>2, InitPlugin, ReadingStarts, GlobStarts, FilterStarts
<1>3. PluginInv /\ KeptOK /\ TakenOK /\ ReadingInv /\ GlobInv /\ FilterOK /\ [Next]_<<plugin, toml, filter>>
        => PluginInv' /\ KeptOK' /\ TakenOK' /\ ReadingInv' /\ GlobInv' /\ FilterOK'
  BY PluginStep, KeptStep, TakenStep, ReadingStep, GlobStep, FilterOKStep
<1> QED BY <1>1, <1>2, <1>3, PTL DEF Spec

-----------------------------------------------------------------------------
(***************************************************************************)
(* The type invariant: the reader, the expression and the package.         *)
(***************************************************************************)
LEMMA ReaderTypes == ASSUME ReadingInv PROVE Toml!TypeOK
<1>1. PICK hot, got : /\ Meaning(text, document, found, hot, got)
                      /\ ReaderAt(text, hot, got, row, col, inHotfix, inQuote, cur, result)
  BY DEF ReadingInv
<1>2. /\ Len(text) \in Nat
      /\ \A r \in 1 .. Len(text) + 1 : hot[r] \in BOOLEAN /\ got[r] \in Seq(Seq(Symbol))
  BY <1>1, LinesMean, Zenon
<1>3. row \in 1 .. Len(text) + 1 /\ inHotfix = hot[row]
  BY <1>1, Zenon DEF ReaderAt
<1>4. row \in Nat \ {0}
  <2>1. Len(text) \in Nat
    BY <1>2
  <2>2. row \in 1 .. Len(text) + 1
    BY <1>3
  <2> QED BY <2>1, <2>2
<1>5. inHotfix \in BOOLEAN /\ got[row] \in Seq(Seq(Symbol))
  BY <1>2, <1>3, Zenon
<1>6. col \in Nat /\ result \in Seq(Seq(Symbol))
  <2>1. CASE col = 0 /\ result = got[row]
    <3>1. col \in Nat
      BY <2>1
    <3> QED BY <1>5, <2>1, <3>1, Zenon
  <2>2. CASE MidLine(text[row], got[row], got[row + 1], col, inQuote, cur, result)
    <3>1. \/ MidIn(text[row], got[row], got[row + 1], col, cur, result)
          \/ MidOut(text[row], got[row], got[row + 1], col, cur, result)
      BY <2>2, Zenon DEF MidLine
    <3>2. col \in Nat \ {0} /\ result \in Seq(Seq(Symbol))
      BY <1>5, <3>1, MidTypes, Zenon
    <3>3. col \in Nat
      BY <3>2
    <3> QED BY <3>2, <3>3, Zenon
  <2> QED BY <1>1, <2>1, <2>2, Zenon DEF ReaderAt
<1>7. document \in Seq(Toml!Table) /\ found \in BOOLEAN /\ inQuote \in BOOLEAN /\ cur \in Seq(Symbol)
  BY DEF ReadingInv
<1> QED BY <1>4, <1>5, <1>6, <1>7, Zenon DEF Toml!TypeOK

\* Where the expression is not being built, it is of its type as well.
FilterTypes ==
  state # "building" =>
    /\ globs \in Seq(Seq(Symbol)) /\ glob \in 1 .. Len(globs) + 1 /\ pos \in Nat \ {0}
    /\ foundAsterisk \in BOOLEAN /\ nameRegexp \in Seq(Glob!Token)

LEMMA TranslationTypes ==
  ASSUME state = "building", GlobInv
  PROVE  /\ globs \in Seq(Seq(Symbol)) /\ glob \in 1 .. Len(globs) + 1 /\ pos \in Nat \ {0}
         /\ foundAsterisk \in BOOLEAN /\ nameRegexp \in Seq(Glob!Token)
<1>1. PICK s : Building(globs, s, glob, pos, foundAsterisk, nameRegexp)
  BY DEF GlobInv
<1>2. /\ globs \in Seq(Seq(Symbol)) /\ glob \in 1 .. Len(globs) + 1 /\ pos \in Nat /\ pos >= 1
      /\ foundAsterisk \in BOOLEAN /\ nameRegexp \in Seq(Glob!Token)
  BY <1>1, Zenon DEF Building
<1>3. pos \in Nat \ {0}
  BY <1>2
<1> QED BY <1>2, <1>3, Zenon

LEMMA ExpressionTypes == ASSUME GlobInv, FilterTypes PROVE Glob!TypeOK
<1>1. /\ globs \in Seq(Seq(Symbol)) /\ glob \in 1 .. Len(globs) + 1 /\ pos \in Nat \ {0}
      /\ foundAsterisk \in BOOLEAN /\ nameRegexp \in Seq(Glob!Token)
  BY TranslationTypes, Zenon DEF FilterTypes
<1>2. state \in {"idle", "building", "formed", "none"}
  BY DEF GlobInv
<1> QED BY <1>1, <1>2, Zenon DEF Glob!TypeOK

LEMMA FilterTypesStart == EntryPointInit => FilterTypes
<1>1. SUFFICES ASSUME EntryPointInit PROVE FilterTypes
  OBVIOUS
<1>2. globs = <<>> /\ glob = 1 /\ pos = 1 /\ foundAsterisk = FALSE /\ nameRegexp = <<>>
  BY <1>1 DEF EntryPointInit, Glob!Init
<1>3. globs \in Seq(Seq(Symbol)) /\ nameRegexp \in Seq(Glob!Token) /\ Len(globs) = 0
  BY <1>2
<1>4. glob \in 1 .. Len(globs) + 1 /\ pos \in Nat \ {0}
  <2>1. Len(globs) + 1 = 1
    BY <1>3
  <2> QED BY <1>2, <2>1
<1>5. foundAsterisk \in BOOLEAN
  BY <1>2
<1> QED BY <1>3, <1>4, <1>5 DEF FilterTypes

LEMMA FilterTypesStep ==
  ASSUME ReadingInv, GlobInv, FilterTypes, [Next]_<<plugin, toml, filter>> PROVE FilterTypes'
<1>1. CASE UNCHANGED filter
  BY <1>1 DEF filter, FilterTypes
<1>2. CASE FormRegex
  <2>1. /\ state = "idle" /\ globs' = result /\ Toml!Finished
        /\ nameRegexp' = IF Len(result) > 1 THEN <<"(">> ELSE <<>>
        /\ state' = IF result = <<>> THEN "none" ELSE "building"
        /\ glob' = glob /\ pos' = pos /\ foundAsterisk' = foundAsterisk
    BY <1>2 DEF FormRegex, Glob!StartOn
  <2>2. CASE state' = "building"
    BY <2>2 DEF FilterTypes
  <2>3. CASE state' # "building"
    <3>1. result = <<>> /\ Len(result) = 0 /\ nameRegexp' = <<>> /\ globs' = <<>>
      <4>1. result = <<>>
        BY <2>1, <2>3
      <4> QED BY <2>1, <4>1
    <3>2. glob' = 1 /\ pos' = 1 /\ foundAsterisk' = FALSE
      BY <2>1 DEF GlobInv
    <3>3. globs' \in Seq(Seq(Symbol)) /\ nameRegexp' \in Seq(Glob!Token) /\ Len(globs') = 0
      BY <3>1
    <3>4. glob' \in 1 .. Len(globs') + 1 /\ pos' \in Nat \ {0}
      <4>1. Len(globs') + 1 = 1
        BY <3>3
      <4> QED BY <3>2, <4>1
    <3>5. foundAsterisk' \in BOOLEAN
      BY <3>2
    <3> QED BY <3>3, <3>4, <3>5 DEF FilterTypes
  <2> QED BY <2>2, <2>3
<1>3. CASE BuildRegex
  <2>1. CASE Glob!Anchor
    <3>1. state = "building" /\ state' = "formed" /\ UNCHANGED <<globs, glob, pos, foundAsterisk>>
      BY <2>1 DEF Glob!Anchor
    <3>2. /\ globs \in Seq(Seq(Symbol)) /\ glob \in 1 .. Len(globs) + 1 /\ pos \in Nat \ {0}
          /\ foundAsterisk \in BOOLEAN
      BY <3>1, TranslationTypes
    <3>3. PICK s : Laid(nameRegexp', globs', s)
      <4>1. GlobInv'
        BY <2>1, AnchorStep
      <4> QED BY <3>1, <4>1 DEF GlobInv
    <3>4. nameRegexp' \in Seq(Glob!Token)
      BY <3>3, Zenon DEF Laid
    <3> QED BY <3>1, <3>2, <3>4 DEF FilterTypes
  <2>2. CASE ~Glob!Anchor
    <3>1. state' = "building"
      BY <1>3, <2>2 DEF BuildRegex, Glob!Translate, Glob!PlainSymbol, Glob!FirstAsterisk, Glob!SecondAsterisk,
                        Glob!EndGlob, Glob!AtSymbol, Glob!Emit
    <3> QED BY <3>1 DEF FilterTypes
  <2> QED BY <2>1, <2>2
<1>4. Next => FormRegex \/ BuildRegex \/ UNCHANGED filter
  BY Zenon DEF Next, ReadDirective, UseRegex
<1>5. UNCHANGED <<plugin, toml, filter>> => UNCHANGED filter
  OBVIOUS
<1> QED BY <1>1, <1>2, <1>3, <1>4, <1>5

\* In every state the reader's, the expression's and the package's variables are of
\* their types: each guard tests a global that is there, each method of a class is one of
\* the functions, and the stores are of the three kinds, also when the plugin fails half
\* way (EntryPoint.run, formFilterByTomlDirective, formRegex, Patcher).
THEOREM PartsTyped == Spec => []PartsTypeOK
<1>1. PluginInv /\ TypesOK /\ ReadingInv /\ GlobInv /\ FilterTypes => PartsTypeOK
  BY PluginTypes, ReaderTypes, ExpressionTypes DEF PartsTypeOK
<1>2. EntryPointInit => PluginInv /\ TypesOK /\ ReadingInv /\ GlobInv /\ FilterTypes
  BY InitPlugin, TypesStart, ReadingStarts, GlobStarts, FilterTypesStart
<1>3. PluginInv /\ TypesOK /\ ReadingInv /\ GlobInv /\ FilterTypes /\ [Next]_<<plugin, toml, filter>>
        => PluginInv' /\ TypesOK' /\ ReadingInv' /\ GlobInv' /\ FilterTypes'
  BY PluginStep, TypesStep, ReadingStep, GlobStep, FilterTypesStep
<1> QED BY <1>1, <1>2, <1>3, PTL DEF Spec
=============================================================================
