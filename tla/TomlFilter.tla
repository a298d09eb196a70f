----------------------------- MODULE TomlFilter -----------------------------
(***************************************************************************)
(* Reading the globs of the app-patchable directive from cjpm.toml         *)
(* (entry_point.cj).                                                       *)
(*                                                                         *)
(* A document is what the author means: tables with entries, each laid out *)
(* in one of the ways TOML allows.  Lines(document) is the text, a line    *)
(* being a sequence of lexemes; the spaces that trimAscii and the          *)
(* quotes' text hold are left out.  The reader sees lines only.            *)
(***************************************************************************)
EXTENDS Naturals, Sequences, SequencesExt

CONSTANTS Text         \* the symbols between quotes

Quote == "quote"
Header == {"[hotfix]", "[package]"}
\* Keys of an entry; two of them start with "app-patchable".
Key == {"app-patchable", "app-patchable-tests", "name"}
Mark == {"[", "]", ",", "=", "#", Quote}

Layout == {"one line", "several lines", "comment"}
Entry == [key : Key, strings : Seq(Seq(Text)), layout : Layout]
Table == [header : Header, comment : BOOLEAN, entries : Seq(Entry)]

TextAssumption == Text \cap (Header \cup Key \cup Mark) = {}

Quoted(s) == <<Quote>> \o s \o <<Quote>>

EntryLines(e) ==
  LET list == FlattenSeq([i \in DOMAIN e.strings |-> Quoted(e.strings[i]) \o <<",">>])
  IN  CASE e.layout = "one line" -> << <<e.key, "=", "[">> \o list \o <<"]">> >>
        [] e.layout = "comment"  ->
             << <<e.key, "=", "[">> \o list \o <<"]", "#">> \o Quoted(<<CHOOSE t \in Text : TRUE>>) >>
        [] e.layout = "several lines" -> << <<e.key, "=", "[">>, list, <<"]">> >>

TableLines(t) ==
  << <<t.header>> \o (IF t.comment THEN <<"#">> ELSE <<>>) >>
    \o FlattenSeq([i \in DOMAIN t.entries |-> EntryLines(t.entries[i])])

Lines(d) == FlattenSeq([i \in DOMAIN d |-> TableLines(d[i])])

VARIABLES document,
          found,         \* is there a readable file?
          text,          \* its lines
          row, col,      \* where the loops are; col is 0 outside extractQuotedStrings
          inHotfix,
          inQuote, cur,
          result

vars == <<document, found, text, row, col, inHotfix, inQuote, cur, result>>

\* The file may be missing, or be no UTF-8 text.
ReadFileText(d) == IF found THEN Lines(d) ELSE <<>>

InitOn(d, readable) ==
  /\ document = d
  /\ found = readable /\ text = ReadFileText(document)
  /\ row = 1 /\ col = 0
  /\ inHotfix = FALSE
  /\ inQuote = FALSE /\ cur = <<>>
  /\ result = <<>>

Line == text[row]
AtLine == row <= Len(text) /\ col = 0
StartsWith(S) == Line # <<>> /\ Head(Line) \in S

IsHeader == StartsWith(Header \cup {"["})

IsDirective == inHotfix /\ StartsWith({"app-patchable", "app-patchable-tests"})

HeaderLine ==
  /\ AtLine /\ IsHeader
  /\ inHotfix' = (Line = <<"[hotfix]">>)
  /\ row' = row + 1
  /\ UNCHANGED <<document, found, text, col, inQuote, cur, result>>

DirectiveLine ==
  /\ AtLine /\ ~IsHeader /\ IsDirective
  /\ col' = 1 /\ inQuote' = FALSE /\ cur' = <<>>
  /\ UNCHANGED <<document, found, text, row, inHotfix, result>>

OtherLine ==
  /\ AtLine /\ ~IsHeader /\ ~IsDirective
  /\ row' = row + 1
  /\ UNCHANGED <<document, found, text, col, inHotfix, inQuote, cur, result>>

\* extractQuotedStrings
AtRune == col > 0 /\ col <= Len(Line)
Rune == Line[col]

Scanned == col' = col + 1 /\ UNCHANGED <<document, found, text, row, inHotfix>>

OpenQuote ==
  /\ AtRune /\ Rune = Quote /\ ~inQuote
  /\ inQuote' = TRUE
  /\ Scanned /\ UNCHANGED <<cur, result>>

CloseQuoteWithoutReset ==
  /\ AtRune /\ Rune = Quote /\ inQuote
  /\ result' = Append(result, cur)
  /\ inQuote' = FALSE
  /\ Scanned /\ UNCHANGED cur

CloseQuote ==
  /\ AtRune /\ Rune = Quote /\ inQuote
  /\ result' = Append(result, cur)
  /\ cur' = <<>> /\ inQuote' = FALSE
  /\ Scanned

QuotedRune ==
  /\ AtRune /\ Rune # Quote /\ inQuote
  /\ cur' = Append(cur, Rune)
  /\ Scanned /\ UNCHANGED <<inQuote, result>>

OtherRune ==
  /\ AtRune /\ Rune # Quote /\ ~inQuote
  /\ Scanned /\ UNCHANGED <<inQuote, cur, result>>

EndOfLine ==
  /\ col > 0 /\ col > Len(Line)
  /\ row' = row + 1 /\ col' = 0
  /\ UNCHANGED <<document, found, text, inHotfix, inQuote, cur, result>>

Next ==
  \/ HeaderLine \/ DirectiveLine \/ OtherLine
  \/ OpenQuote \/ CloseQuote \/ QuotedRune \/ OtherRune \/ EndOfLine

Finished == row > Len(text)

-----------------------------------------------------------------------------
\* Properties

\* The strings of the app-patchable entries of the hotfix tables, in order.
Meant ==
  LET strings(e) == IF e.key = "app-patchable" THEN e.strings ELSE <<>>
      ofTable(t) == IF t.header = "[hotfix]"
                      THEN FlattenSeq([i \in DOMAIN t.entries |-> strings(t.entries[i])])
                      ELSE <<>>
  IN  FlattenSeq([i \in DOMAIN document |-> ofTable(document[i])])

EveryEntry(P(_)) ==
  \A i \in DOMAIN document : \A k \in DOMAIN document[i].entries : P(document[i].entries[k])

\* Layouts that the reader is not made for.
SingleLine ==
  /\ \A i \in DOMAIN document : ~document[i].comment
  /\ LET plain(e) == e.layout = "one line" /\ e.key # "app-patchable-tests"
     IN  EveryEntry(plain)

TypeOK ==
  /\ document \in Seq(Table)
  /\ found \in BOOLEAN
  /\ row \in Nat \ {0} /\ col \in Nat
  /\ inHotfix \in BOOLEAN /\ inQuote \in BOOLEAN
  /\ cur \in Seq(Text) /\ result \in Seq(Seq(Text))

\* Of a document in single-line layout exactly the globs of the directive are read,
\* each as it is written; and whatever the layout, no glob comes from another table
\* or another key, unless the key starts like the directive or a comment holds a
\* quoted text (formFilterByTomlDirective, extractQuotedStrings).
ReadsTheDirective ==
  LET plain(e) == e.layout # "comment" /\ e.key # "app-patchable-tests"
  IN  /\ (Finished /\ found /\ SingleLine) => result = Meant
      /\ EveryEntry(plain) => ToSet(result) \subseteq ToSet(Meant)
=============================================================================
