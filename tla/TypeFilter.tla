----------------------------- MODULE TypeFilter -----------------------------
(***************************************************************************)
(* How a list of globs becomes one regular expression (type_filter.cj).    *)
(*                                                                         *)
(* Names and globs are sequences of symbols: Dot, Star and letters.  The   *)
(* expression is built token by token, one action per branch of the loop   *)
(* over the symbols of a glob.  What an expression matches is the          *)
(* business of std.regex and modelled from its use: here an expression is  *)
(* letters, "not dots", "anything", one pair of parentheses, bars and      *)
(* anchors.                                                                *)
(***************************************************************************)
EXTENDS Naturals, Sequences, SequencesExt

CONSTANTS Letter,
          Filter,      \* the lists of globs considered
          NameAsked         \* the names asked about

Dot == "."
Star == "*"
Symbol == Letter \cup {Dot, Star}

NotDots  == "[^.]+"
Anything == ".+"
Token == Letter \cup {Dot, NotDots, Anything, "(", ")", "|", "^", "$"}

FilterAssumption == Filter \subseteq Seq(Seq(Symbol))
LetterAssumption ==
  Letter \cap {Dot, Star, NotDots, Anything, "(", ")", "|", "^", "$"} = {}

VARIABLES filter,            \* the list of globs
          glob, pos,         \* the symbol the loops are at
          foundAsterisk,
          nameRegexp,        \* the tokens so far
          state              \* "idle", "building", "formed" or "none"

vars == <<filter, glob, pos, foundAsterisk, nameRegexp, state>>

Init ==
  /\ filter = <<>> /\ glob = 1 /\ pos = 1
  /\ foundAsterisk = FALSE /\ nameRegexp = <<>>
  /\ state = "idle"

StartOn(globs) ==
  /\ state = "idle"
  /\ filter' = globs
  /\ nameRegexp' = IF Len(globs) > 1 THEN <<"(">> ELSE <<>>
  /\ state' = IF globs = <<>> THEN "none" ELSE "building"
  /\ UNCHANGED <<glob, pos, foundAsterisk>>

-----------------------------------------------------------------------------

AtSymbol ==
  /\ state = "building" /\ glob <= Len(filter) /\ pos <= Len(filter[glob])

Sym == filter[glob][pos]

Emit(token) ==
  /\ nameRegexp' = Append(nameRegexp, token)
  /\ pos' = pos + 1
  /\ UNCHANGED <<filter, glob, state>>

PlainSymbolAndAsterisk ==
  /\ AtSymbol
  /\ Emit(Sym)
  /\ UNCHANGED foundAsterisk

PlainSymbol ==
  /\ AtSymbol /\ Sym # Star
  /\ Emit(Sym)
  /\ UNCHANGED foundAsterisk

FirstAsterisk ==
  /\ AtSymbol /\ Sym = Star /\ ~foundAsterisk
  /\ Emit(NotDots)
  /\ foundAsterisk' = TRUE

SecondAsteriskAsFirst ==
  /\ AtSymbol /\ Sym = Star /\ foundAsterisk
  /\ Emit(NotDots)
  /\ foundAsterisk' = FALSE

SecondAsterisk ==
  /\ AtSymbol /\ Sym = Star /\ foundAsterisk
  /\ Emit(Anything)
  /\ foundAsterisk' = FALSE

\* foundAsterisk is local to one glob.
EndGlob ==
  /\ state = "building" /\ glob <= Len(filter) /\ pos > Len(filter[glob])
  /\ nameRegexp' = Append(nameRegexp, "|")
  /\ glob' = glob + 1 /\ pos' = 1
  /\ foundAsterisk' = FALSE
  /\ UNCHANGED <<filter, state>>

\* The last bar goes, the parenthesis is closed and the anchors are added.
Anchor ==
  /\ state = "building" /\ glob > Len(filter)
  /\ nameRegexp' =
       <<"^">> \o Front(nameRegexp)
         \o (IF Len(filter) > 1 THEN <<")">> ELSE <<>>) \o <<"$">>
  /\ state' = "formed"
  /\ UNCHANGED <<filter, glob, pos, foundAsterisk>>

Translate == PlainSymbol \/ FirstAsterisk \/ SecondAsterisk \/ EndGlob \/ Anchor

Next == Translate \/ \E globs \in Filter : StartOn(globs)

Spec == Init /\ [][Next]_vars /\ WF_vars(Next)

-----------------------------------------------------------------------------
\* Regular expressions

\* The alternatives of an expression, parentheses resolved.
Bars(e) == {i \in DOMAIN e : e[i] = "|"}

Split(e) ==
  LET cut == Bars(e) \cup {0, Len(e) + 1}
      neighbours == {c \in cut \X cut : c[1] < c[2] /\ ~\E k \in cut : c[1] < k /\ k < c[2]}
  IN  {SubSeq(e, c[1] + 1, c[2] - 1) : c \in neighbours}

Alternatives(e) ==
  IF \E i \in DOMAIN e : e[i] = "("
    THEN LET l == CHOOSE i \in DOMAIN e : e[i] = "("
             r == CHOOSE i \in DOMAIN e : e[i] = ")"
         IN  { SubSeq(e, 1, l - 1) \o a \o SubSeq(e, r + 1, Len(e)) :
                 a \in Split(SubSeq(e, l + 1, r - 1)) }
    ELSE Split(e)

NoDot(name, p, q) == \A k \in p + 1 .. q : name[k] # Dot

\* One alternative, searched in a name: fits[<<i, p>>] says that the tokens from the
\* i-th on match a part of the name that starts after position p.
Search(e, name) ==
  LET n == Len(name)
      fits[at \in (1 .. Len(e) + 1) \X (0 .. n)] ==
        LET i == at[1]  p == at[2]
        IN  \/ i = Len(e) + 1
            \/ /\ i <= Len(e)
               /\ \/ e[i] = "^" /\ p = 0 /\ fits[<<i + 1, p>>]
                  \/ e[i] = "$" /\ p = n /\ fits[<<i + 1, p>>]
                  \/ /\ e[i] = NotDots
                     /\ \E q \in p + 1 .. n : NoDot(name, p, q) /\ fits[<<i + 1, q>>]
                  \/ e[i] = Anything /\ \E q \in p + 1 .. n : fits[<<i + 1, q>>]
                  \/ /\ e[i] \in Letter \cup {Dot}
                     /\ p < n /\ name[p + 1] = e[i] /\ fits[<<i + 1, p + 1>>]
  IN  \E p \in 0 .. n : fits[<<1, p>>]

Matches(e, name) == \E a \in Alternatives(e) : Search(a, name)

\* matchesFilter: without an expression nothing matches.
Selected(name) == state = "formed" /\ Matches(nameRegexp, name)

-----------------------------------------------------------------------------
\* What a glob says: a star is a part of one segment, a double star a part that
\* starts within a segment and has at least two symbols.

GlobMatches(g, name) ==
  LET n == Len(name)
      Double(i) == i < Len(g) /\ g[i] = Star /\ g[i + 1] = Star
      fits[at \in (1 .. Len(g) + 1) \X (0 .. n)] ==
        LET i == at[1]  p == at[2]
        IN  IF i > Len(g) THEN p = n
            ELSE IF Double(i)
              THEN p < n /\ name[p + 1] # Dot /\ \E q \in p + 2 .. n : fits[<<i + 2, q>>]
            ELSE IF g[i] = Star
              THEN \E q \in p + 1 .. n : NoDot(name, p, q) /\ fits[<<i + 1, q>>]
            ELSE p < n /\ name[p + 1] = g[i] /\ fits[<<i + 1, p + 1>>]
  IN  fits[<<1, 0>>]

Meant(name) == \E i \in DOMAIN filter : GlobMatches(filter[i], name)

-----------------------------------------------------------------------------
\* Properties

\* Positions of a glob at which a run of stars begins.
StarRuns(g) == {i \in DOMAIN g : g[i] = Star /\ (i = 1 \/ g[i - 1] # Star)}
Tripled(g) == \E i \in DOMAIN g : i + 2 \in DOMAIN g /\ \A k \in 0 .. 2 : g[i + k] = Star
Doubled(g) == \E i \in DOMAIN g : i + 1 \in DOMAIN g /\ g[i] = Star /\ g[i + 1] = Star

\* A boundary of segments: before the first symbol, after the last, at a dot.
Boundary(g, i) == i \notin DOMAIN g \/ g[i] = Dot
StarsAreSegments(g) ==
  \A i \in DOMAIN g : g[i] = Star =>
    /\ Boundary(g, i - 1) \/ g[i - 1] = Star
    /\ Boundary(g, i + 1) \/ g[i + 1] = Star

WellFormedName(name) ==
  /\ name # <<>>
  /\ \A i \in DOMAIN name : name[i] = Dot => ~Boundary(name, i - 1) /\ ~Boundary(name, i + 1)

\* The loops' variables and the expression are of their types.
TypeOK ==
  /\ filter \in Filter
  /\ glob \in 1 .. Len(filter) + 1 /\ pos \in Nat \ {0}
  /\ foundAsterisk \in BOOLEAN
  /\ nameRegexp \in Seq(Token)
  /\ state \in {"idle", "building", "formed", "none"}

\* With one wildcard in each glob, the expression selects exactly the names that
\* one of the globs means: dots are literal, the alternatives keep to themselves,
\* the whole name is matched (formRegex and the anchors it adds).  Whatever its
\* wildcards, a glob of whole segments never loses a name that it means:
\* foundAsterisk, left set by an earlier star, widens what follows only.
SelectsWhatIsMeant ==
  state = "formed" =>
    /\ (\A i \in DOMAIN filter : Cardinality(StarRuns(filter[i])) <= 1 /\ ~Tripled(filter[i]))
         => \A name \in NameAsked : Selected(name) <=> Meant(name)
    /\ (\A i \in DOMAIN filter : StarsAreSegments(filter[i]) /\ ~Tripled(filter[i]))
         => \A name \in NameAsked : WellFormedName(name) /\ Meant(name) => Selected(name)

\* Without double stars no name is selected that the globs do not mean: a single
\* star "rejects two package segments" (type_filter_test.cj:22).
SingleStarIsOneSegment ==
  (state = "formed" /\ \A i \in DOMAIN filter : ~Doubled(filter[i]))
  => \A name \in NameAsked : Selected(name) => Meant(name)
=============================================================================
