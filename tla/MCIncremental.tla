--------------------------- MODULE MCIncremental ---------------------------
(***************************************************************************)
(* Small instances of Incremental: alphabets of four or five lines, each   *)
(* around one hazard, and leaf lengths.                                    *)
(***************************************************************************)
EXTENDS Incremental

\* "text" is six characters, one of them two bytes long; the others ASCII.
UnitsOf ==
  [leaf \in Leaves |->
     CASE leaf = "blank" -> 0
       [] leaf \in {"text", "dollarsOne", "fence4", "anyTag", "blockTag", "commentEnd"} -> 6
       [] leaf \in {"pipe", "rule", "equals", "fence", "tilde", "heading", "carrier"} -> 3
       [] leaf = "dollars" -> 2
       [] OTHER -> 8]
BytesOf == [UnitsOf EXCEPT !["text"] = 7, !["carrier"] = 5]

Plain(leaf)        == [sp |-> 0, quote |-> FALSE, gap |-> 0, mark |-> "none", leaf |-> leaf]
Indented(sp, leaf) == [Plain(leaf) EXCEPT !.sp = sp]
Item(sp, mark, leaf) == [Plain(leaf) EXCEPT !.sp = sp, !.mark = mark]
Quoted(leaf)       == [Plain(leaf) EXCEPT !.quote = TRUE]

\* The last dirty range has no influence on what follows.
View == <<alphabet, text, snapshot>>

\* Blocks that end where the next line starts, and underlines that reach back.
ProseLines == { Plain("blank"), Plain("text"), Plain("heading"), Plain("rule"), Item(0, "dash", "text") }

\* Quotes and callouts, with items indented under them.
QuoteLines == { Plain("blank"), Plain("text"), Quoted("text"), Quoted("callout"), Item(2, "one", "text") }

\* Prose and quotes are calm: a host of these lines is one of CalmTextsMatch.
ASSUME CalmAssumption == \A l \in ProseLines \cup QuoteLines : Calm(l)

\* Blocks that reach to a closing line, in lists and out of them.
OpaqueLines ==
  { Plain("blank"), Plain("text"), Plain("fence"), Plain("comment"), Plain("blockTag"),
    Item(0, "dash", "dollars"), Indented(2, "dollars") }

\* Formulas that are code outside of an item.
DeepLines ==
  { Indented(3, "blank"), Plain("text"), Item(0, "dash", "text"), Indented(4, "dollarsOne"), Indented(4, "mathFence") }

EqualAlphabets == { ProseLines, QuoteLines, OpaqueLines, DeepLines }

\* Lines that also join what stands on the other side of an edit.
JoiningAlphabets ==
  { { Plain("blank"), Plain("text"), Plain("equals"), Plain("sep"), Indented(4, "text"), Quoted("text") },
    { Plain("blank"), Plain("text"), Plain("fence"), Indented(4, "text"), Item(0, "dash", "text"),
      Item(4, "dash", "dollarsOne") } }

\* A table; an item whose container decides what it is.
TableAlphabets == { { Plain("blank"), Plain("pipe"), Plain("sep") } }
ItemAlphabets ==
  { { Plain("blank"), Plain("text"), Item(0, "dash", "text"), Item(4, "dash", "dollarsOne") } }

\* The texts are within what MarkdownContainers models.
ASSUME LinesAreModelled ==
  \A lines \in EqualAlphabets \cup JoiningAlphabets \cup TableAlphabets \cup ItemAlphabets :
    \A l \in lines : StaysUnnested(l)
=============================================================================
