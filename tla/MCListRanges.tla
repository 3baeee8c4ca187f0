---------------------------- MODULE MCListRanges ----------------------------
(***************************************************************************)
(* Small instances of ListRanges: the editable parses of every text of     *)
(* TextLength lines over an alphabet of list lines.                        *)
(***************************************************************************)
EXTENDS ListRanges, ListDocument

CONSTANT TextLength

Plain(leaf)          == [sp |-> 0, quote |-> FALSE, gap |-> 0, mark |-> "none", leaf |-> leaf]
Indented(sp, leaf)   == [Plain(leaf) EXCEPT !.sp = sp]
Entry(sp, mark, leaf) == [Plain(leaf) EXCEPT !.sp = sp, !.mark = mark]
Quoted(leaf)         == [Plain(leaf) EXCEPT !.quote = TRUE]

\* Items at four columns, one only just right of another's marker; what may
\* continue them, and what may not.
ListLines ==
  { Plain("blank"), Plain("text"), Indented(2, "heading"), Indented(5, "text"),
    Entry(0, "dash", "text"), Entry(0, "one", "text"), Entry(1, "dash", "text"),
    Entry(2, "check", "text"), Entry(2, "dash", "dollarsOne"), Entry(4, "paren", "text"),
    Quoted("text") }

\* The texts are within what MarkdownContainers models.
ASSUME LinesAreModelled == \A l \in ListLines : StaysUnnested(l)

ListDocuments == { ListDocument(lines, ParseBlocks(lines, "Editable")) : lines \in [1 .. TextLength -> ListLines] }
=============================================================================
