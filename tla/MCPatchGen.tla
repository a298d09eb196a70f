--------------------------- MODULE MCPatchGen ---------------------------
(***************************************************************************)
(* Finite families of package pairs for PatchGen.  A function is of one of *)
(* a few kinds (how it differs between the versions, its linkage, whether  *)
(* it is patchable); a family gives kinds and call graphs to MainFunc and  *)
(* adds the two package inits, which both versions have.                   *)
(***************************************************************************)
EXTENDS PatchGen, Functions

CONSTANTS MainFunc,     \* the functions besides the package inits
          Family        \* "passing", "lambda" or "external"

Unchanged ==
  [source |-> TRUE, patched |-> TRUE, sourceBody |-> TRUE, patchedBody |-> TRUE,
   sourceImported |-> FALSE, sourceGuarded |-> FALSE, patchedGuarded |-> FALSE,
   attrsDiffer |-> FALSE, differ |-> FALSE, lambda |-> FALSE, internal |-> FALSE,
   initializer |-> FALSE, empty |-> FALSE]
New(k)         == [k EXCEPT !.source = FALSE, !.sourceBody = FALSE, !.sourceGuarded = FALSE]
PatchableK(k)  == [k EXCEPT !.sourceGuarded = TRUE, !.patchedGuarded = TRUE]
ChangedK(k)    == [PatchableK(k) EXCEPT !.differ = TRUE]
InternalK(k)   == [k EXCEPT !.internal = TRUE]
LambdaK(k)     == [InternalK(k) EXCEPT !.lambda = TRUE]
InitializerK(k)== [InternalK(k) EXCEPT !.initializer = TRUE]
Bodiless(k)    == [k EXCEPT !.sourceBody = FALSE, !.patchedBody = FALSE]

Absent         == [New(Unchanged) EXCEPT !.patched = FALSE, !.patchedBody = FALSE]

\* Kinds that patch-gen accepts.
Accepted ==
  { Unchanged, InternalK(Unchanged), LambdaK(Unchanged),
    PatchableK(Unchanged), InternalK(PatchableK(Unchanged)),
    ChangedK(Unchanged), InternalK(ChangedK(Unchanged)),
    New(InternalK(Unchanged)), New(LambdaK(Unchanged)),
    New(PatchableK(Unchanged)), New(InternalK(PatchableK(Unchanged))),
    InitializerK(Unchanged), [InitializerK(Unchanged) EXCEPT !.empty = TRUE],
    New(InitializerK(Unchanged)),
    Bodiless(Unchanged), [Bodiless(Unchanged) EXCEPT !.sourceImported = TRUE] }

\* Kinds with which the search has most to do.
Searched ==
  { InternalK(Unchanged), LambdaK(Unchanged), InternalK(ChangedK(Unchanged)),
    New(InternalK(PatchableK(Unchanged))) }

\* Kinds that patch-gen rejects.
RejectedKinds ==
  { [Unchanged EXCEPT !.patched = FALSE, !.patchedBody = FALSE],
    [Unchanged EXCEPT !.differ = TRUE],
    [Unchanged EXCEPT !.attrsDiffer = TRUE],
    [Unchanged EXCEPT !.patchedBody = FALSE],
    [Unchanged EXCEPT !.sourceBody = FALSE],
    [Unchanged EXCEPT !.sourceGuarded = TRUE],
    [Unchanged EXCEPT !.patchedGuarded = TRUE] }

MakePair(k, c) ==
  LET With(field) == {f \in MainFunc : k[f][field]}
      flags(S)    == {Flag(f) : f \in S} \cup (IF S = {} THEN {} ELSE {GuardVar})
      guarded     == With("patchedGuarded")
      types(S)    == {t \in TypeDef : t # PatchImpl \/ S # {}}
  IN [ hasSource |-> TRUE, sameName |-> TRUE,
       guardParts |-> IF guarded = {} THEN {} ELSE GuardParts,
       patchClass |-> guarded # {}, exception |-> TRUE, initAccess |-> TRUE,
       source |-> With("source") \cup Inits, patched |-> With("patched") \cup Inits,
       sourceBody |-> With("sourceBody") \cup Inits,
       patchedBody |-> With("patchedBody") \cup Inits,
       sourceImported |-> With("sourceImported"),
       sourceGuarded |-> With("sourceGuarded"), patchedGuarded |-> guarded,
       attrsDiffer |-> With("attrsDiffer"), differ |-> With("differ"),
       lambda |-> With("lambda"), internal |-> With("internal"),
       initializer |-> With("initializer") \cup Inits, empty |-> With("empty"),
       calls |-> [f \in Func |-> IF f \in DOMAIN c THEN c[f] ELSE {}],
       sourceType |-> types(With("sourceGuarded")), patchedType |-> types(guarded),
       importable |-> TypeDef,
       sourceVar |-> UserVar \cup flags(With("sourceGuarded")),
       patchedVar |-> UserVar \cup flags(guarded) ]

\* Bodies apply functions of the patched version, and only bodies do.
Consistent(p) ==
  /\ \A f \in Func : p.calls[f] \subseteq p.patched
  /\ \A f \in MainFunc : p.calls[f] # {} => f \in p.patchedBody \ p.empty

Pairs(kinds, graphs) == {p \in {MakePair(k, c) : k \in kinds, c \in graphs} : Consistent(p)}

AnyGraph(F, G) == [F -> SUBSET G]
NoCalls == {[f \in {} |-> {}]}

\* Two functions of any accepted kinds, which they and the package init may apply.
Third == CHOOSE f \in MainFunc : TRUE
Two == MainFunc \ {Third}
OfTwo(kinds) == {k \in [MainFunc -> kinds \cup {Absent}] : \A f \in MainFunc : k[f] = Absent <=> f = Third}
Single == Pairs(OfTwo(Accepted), AnyGraph(Two \cup {PackageInit}, Two))

\* Three functions and every call graph between them; of the assignments of kinds
\* that a permutation of the functions maps to each other one is taken.
Rank(S) == CHOOSE r \in [S -> 1 .. Cardinality(S)] : IsInjective(r)
Sorted(k) ==
  LET rf == Rank(MainFunc)  rk == Rank(Searched)
  IN  \A f, g \in MainFunc : rf[f] < rf[g] => rk[k[f]] <= rk[k[g]]
Graph == Pairs({k \in [MainFunc -> Searched] : Sorted(k)}, AnyGraph(MainFunc, MainFunc))

Plain == MakePair([f \in MainFunc |-> IF f = Third THEN Absent ELSE ChangedK(Unchanged)], [f \in {} |-> {}])

\* One pair per check that fails outside the loop over the functions, a pair
\* without a base version, and one whose types and variables are reduced.
Odd ==
  { [Plain EXCEPT !.sameName = FALSE],
    [Plain EXCEPT !.guardParts = {"guardVar"}],
    [Plain EXCEPT !.exception = FALSE],
    [Plain EXCEPT !.patchClass = FALSE],
    [Plain EXCEPT !.initAccess = FALSE],
    [Plain EXCEPT !.patchedType = {}],
    [Plain EXCEPT !.patchedVar = @ \ UserVar],
    [Plain EXCEPT !.hasSource = FALSE] }
Errors == Pairs(OfTwo(RejectedKinds \cup {ChangedK(Unchanged)}), NoCalls) \cup Odd

\* Changed patchable lambdas.
Lambda ==
  Pairs(OfTwo({ChangedK(Unchanged), LambdaK(ChangedK(Unchanged))}), AnyGraph(Two, Two))

\* New functions of external linkage between changed and internal ones.
External ==
  Pairs([MainFunc -> {ChangedK(Unchanged), New(Unchanged), InternalK(Unchanged)}],
        AnyGraph(MainFunc, MainFunc))

MCPair ==
  CASE Family = "passing" -> Single \cup Graph \cup Errors
    [] Family = "lambda"  -> Lambda
    [] Family = "external" -> External
=============================================================================
