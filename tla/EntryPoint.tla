----------------------------- MODULE EntryPoint -----------------------------
(***************************************************************************)
(* One compilation from cjpm.toml to the package that patch-gen reads:     *)
(* the plugin (Plugin) reads the directive (TomlFilter), forms the         *)
(* expression (TypeFilter), selects and guards functions by it, and what   *)
(* it made is looked up by patch-gen (Handover).  EntryPoint.run is        *)
(* sequential: each part starts on what the one before it left.            *)
(***************************************************************************)
EXTENDS Handover

CONSTANTS Compilation,       \* records [document, found, source]
          Letter, NamesAsked

Symbol == Letter \cup {".", "*"}

VARIABLES document, found, text, row, col, inHotfix, inQuote, cur, result,     \* TomlFilter
          globs, glob, pos, foundAsterisk, nameRegexp, state                   \* TypeFilter

toml   == <<document, found, text, row, col, inHotfix, inQuote, cur, result>>
filter == <<globs, glob, pos, foundAsterisk, nameRegexp, state>>
plugin == <<vars, lookup>>

Toml == INSTANCE TomlFilter WITH Text <- Symbol
Glob == INSTANCE TypeFilter WITH Filter <- Seq(Seq(Symbol)), NameAsked <- NamesAsked, filter <- globs

ASSUME EntryPointAssumption ==
  /\ Toml!TextAssumption /\ Glob!LetterAssumption
  /\ NamesAsked \subseteq Seq(Symbol)
  /\ \A c \in Compilation :
       c.document \in Seq(Toml!Table) /\ c.found \in BOOLEAN /\ IsSource(c.source) /\ NamesApart(c.source)

EntryPointInit ==
  /\ \E c \in Compilation : HandoverInitOn(c.source) /\ Toml!InitOn(c.document, c.found)
  /\ Glob!Init

ReadDirective ==
  /\ phase = "filter" /\ state = "idle"
  /\ Toml!Next
  /\ UNCHANGED <<filter, plugin>>

FormRegex ==
  /\ phase = "filter" /\ Toml!Finished
  /\ Glob!StartOn(result)
  /\ UNCHANGED <<toml, plugin>>

BuildRegex ==
  /\ phase = "filter" /\ Glob!Translate
  /\ UNCHANGED <<toml, plugin>>

\* The names that the finder will ask about.
QualifiedNames ==
  { QualifiedName(functions[i].name) : i \in DOMAIN functions }
    \cup { QualifiedName(Name(Pkg, functions[i].name.class, <<>>, <<>>)) : i \in DOMAIN functions }

UseRegex ==
  /\ state \in {"formed", "none"}
  /\ TakeFilter([given |-> state = "formed", selects |-> {n \in QualifiedNames : Glob!Selected(n)}])
  /\ UNCHANGED <<lookup, toml, filter>>

Next ==
  \/ PluginNext /\ UNCHANGED <<lookup, toml, filter>>
  \/ ReadDirective \/ FormRegex \/ BuildRegex \/ UseRegex
  \/ Lookups /\ UNCHANGED <<toml, filter>>

Spec == EntryPointInit /\ [][Next]_<<plugin, toml, filter>>

-----------------------------------------------------------------------------
\* Properties of the parts, and of the whole

\* The state of each part is of its type.
PartsTypeOK == TypeOK /\ Toml!TypeOK /\ Glob!TypeOK

ReadsTheDirective == Toml!ReadsTheDirective
SelectsWhatIsMeant == Glob!SelectsWhatIsMeant

\* What the author writes is what is guarded, but for functions with the sort key of
\* an earlier one: with a directive in one line, whose globs have one wildcard each, the
\* candidates are exactly the eligible functions that carry the annotation, themselves
\* or by their class, or whose name or whose class's name a glob means; without a
\* directive all or none, by HOTFIX_PATCH_ALL.  Of candidates with the same sort key
\* the first is guarded and the others are not, whatever the author wrote: private
\* functions of two files with the same name and parameters, and overloads whose
\* parameters differ in type arguments alone.  README.md:33 makes no such exception.
GuardedAsMeant ==
  (/\ phase = "done" /\ Toml!SingleLine
   /\ \A i \in DOMAIN globs : Cardinality(Glob!StarRuns(globs[i])) <= 1 /\ ~Glob!Tripled(globs[i]))
  => LET directive == IF found THEN ToSet(Toml!Meant) ELSE {}
         meant(n) == IF directive = {} THEN source.patchAll
                     ELSE \E g \in directive : Glob!GlobMatches(g, QualifiedName(n))
         chosen(f) == \/ f.anno \/ meant(f.name)
                      \/ /\ f.name.class # <<>>
                         /\ \/ f.name.class[1] \in source.annotatedClasses
                            \/ meant(Name(Pkg, f.name.class, <<>>, <<>>))
         candidate(i) == /\ functions[i].attr = "none" /\ ~functions[i].made
                         /\ functions[i].name.func[1] # <<"$mainInvoke">> /\ chosen(functions[i])
     IN  \A i \in DOMAIN functions :
           Guarded(i) <=> /\ candidate(i)
                          /\ ~\E k \in 1 .. i - 1 : /\ candidate(k)
                                /\ SortKey(functions[k].name) = SortKey(functions[i].name)
=============================================================================
