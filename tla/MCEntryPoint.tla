---------------------------- MODULE MCEntryPoint ----------------------------
(***************************************************************************)
(* Compilations in families, each with one part's inputs in full and       *)
(* little for the others: documents in every layout; lists of globs; pairs *)
(* of functions of every kind; failing lookups and guards; stub maps;      *)
(* three functions with overlapping names.                                 *)
(***************************************************************************)
EXTENDS EntryPoint, TypeNames

MCPkg == <<"p">>
F == <<"p", ".", "f">>
C == << <<"C">> >>
I == Ty("primitive", "Int64", <<>>)
A == Ty("custom", "A", <<>>)
AofI == Ty("custom", "A", <<I>>)

MCLetter == {"p", "f", "C"}
MCNamesAsked == BoundedSeq({"p", "f", "."}, 5)

Src(fs, all) ==
  [ functions |-> fs, annotatedClasses |-> {}, patchAll |-> all, throwStubs |-> FALSE,
    stubTest |-> FALSE, missing |-> {} ]
\* A package on which the plugin fails right after it has read the directive.
Stops == [Src(<<>>, TRUE) EXCEPT !.missing = {"literalInit"}]

Entry(key, strings, layout) == [key |-> key, strings |-> strings, layout |-> layout]
Hotfix(entries) == [header |-> "[hotfix]", comment |-> FALSE, entries |-> entries]
Directive(gs) == << Hotfix(<<Entry("app-patchable", gs, "one line")>>) >>
NoDirective == <<>>
Compile(documents, founds, sources) ==
  [document : documents, found : founds, source : sources]

-----------------------------------------------------------------------------
\* Documents of up to two tables with up to two entries of up to two strings.
Texts == {<<"f">>, <<"C", "*">>}
Entries(keys, n) ==
  [key : keys, strings : BoundedSeq(Texts, n), layout : {"one line", "several lines", "comment"}]
Headers == {"[hotfix]", "[package]"}

Tables ==
  [header : Headers, comment : BOOLEAN,
   entries : BoundedSeq(Entries({"app-patchable", "app-patchable-tests", "name"}, 1)
                          \cup Entries({"app-patchable"}, 2), 1)]
  \cup [header : {"[hotfix]"}, comment : {FALSE},
        entries : {<<e, Entry("name", s, l)>> : e \in Entries({"app-patchable"}, 2),
                     s \in BoundedSeq(Texts, 1), l \in {"one line", "comment"}}]
Smaller ==
  LET entries == {Entry("app-patchable", gs, l) : gs \in {<<>>, << <<"f">> >>},
                                                 l \in {"one line", "several lines", "comment"}}
                   \cup {Entry("name", << <<"C">> >>, "one line")}
  IN  [header : Headers, comment : BOOLEAN, entries : BoundedSeq(entries, 1)]
Documents ==
  Compile({<<t>> : t \in Tables} \cup {<<t, u>> : t \in Smaller, u \in Smaller}, {TRUE}, {Stops})
    \cup Compile({<<t>> : t \in Smaller}, {FALSE}, {Stops})

\* Every glob of up to five symbols alone, and pairs of shorter ones.
GlobLists ==
  LET upTo(n) == BoundedSeq({"f", ".", "*"}, n)
  IN  Compile({Directive(<<g>>) : g \in upTo(5)} \cup {Directive(<<g, h>>) : g, h \in upTo(2)},
              {TRUE}, {Stops})

-----------------------------------------------------------------------------
\* Packages

Global == {Fn(<<>>, f, p) : f \in {"f", "main"}, p \in {<<>>, <<A>>, <<AofI>>}}
Member == {Fn(C, "f", p) : p \in {<<A>>, <<I, I>>}} \cup {[Fn(C, "init", <<A>>) EXCEPT !.ctor = TRUE]}
Annotated(S) == {[f EXCEPT !.anno = TRUE] : f \in S}
Skipped == {[Fn(<<>>, "f", <<>>) EXCEPT !.anno = TRUE, !.attr = a] : a \in Attr \ {"none"}}

Select ==
  LET packages(all) == { [Src(<<f, g>>, all) EXCEPT !.annotatedClasses = annotated] :
                           f \in Global \cup Member \cup Annotated(Global),
                           g \in Member \cup Annotated(Member) \cup Skipped,
                           annotated \in {{}, {<<"C">>}} }
  IN  Compile({NoDirective}, {TRUE}, packages(TRUE))
        \cup Compile({NoDirective, Directive(<<F>>), Directive(<< <<"p", ".", "C">> >>),
                     Directive(<< <<"p", ".", "*">>, <<"C">> >>), Directive(<< <<"*", "*", "f">> >>)},
                    {TRUE}, packages(FALSE))

Failing ==
  Compile({NoDirective}, {FALSE},
    { [Src(<<Fn(<<>>, "f", <<>>), [Fn(<<>>, "g", <<>>) EXCEPT !.successors = n]>>, TRUE)
         EXCEPT !.throwStubs = throw, !.stubTest = stub, !.missing = M] :
      n \in {0, 1, 2}, throw \in BOOLEAN, stub \in BOOLEAN, M \in {{}} \cup {{l} : l \in Lookup} })

Stubs_ ==
  Compile({NoDirective}, {FALSE},
    { [Src(<< [Fn(<<>>, "f", <<>>) EXCEPT !.stub = s],
              [Fn(C, "g", <<A>>) EXCEPT !.stub = t, !.unit = u, !.anno = a], Fn(<<>>, "main", <<>>) >>, all)
         EXCEPT !.stubTest = TRUE] :
      s \in 0 .. 4, t \in 0 .. 4, u \in BOOLEAN, a \in BOOLEAN, all \in BOOLEAN })

Overlapping ==
  { Fn(<<>>, "f", <<>>), Fn(<<>>, "f", <<A>>), Fn(<<>>, "f", <<AofI>>), Fn(C, "f", <<>>),
    Fn(C, "packageInit", <<>>), Fn(<<>>, "packageInit", <<>>), Fn(<<>>, "packageInit", <<A>>),
    [Fn(C, "init", <<A>>) EXCEPT !.ctor = TRUE] }
Three ==
  Compile({NoDirective}, {FALSE},
    { Src(<<f, [g EXCEPT !.anno = TRUE], h>>, all) :
      f \in Overlapping, g \in Overlapping, h \in Overlapping, all \in BOOLEAN })

MCCompilation == Documents \cup GlobLists \cup Select \cup Failing \cup Stubs_ \cup Three
=============================================================================
