--------------------------- MODULE MCBlockParser ---------------------------
(***************************************************************************)
(* Small instances of BlockParser: every document of DocLength lines over  *)
(* an alphabet chosen so that the rules meet.  Shorter documents add       *)
(* nothing: each rule meets the end of the document at every line.         *)
(***************************************************************************)
EXTENDS BlockParser

CONSTANT DocLength

Plain(leaf)        == [sp |-> 0, quote |-> FALSE, gap |-> 0, mark |-> "none", leaf |-> leaf]
Indented(sp, leaf) == [Plain(leaf) EXCEPT !.sp = sp]
Item(sp, mark, leaf) == [Plain(leaf) EXCEPT !.sp = sp, !.mark = mark]
Quoted(leaf)       == [Plain(leaf) EXCEPT !.quote = TRUE]

Texts(alphabet) == [1 .. DocLength -> alphabet]

\* Leaf blocks at the margin: fences, tables, formulas, HTML, code.
LeafLines ==
  { Plain(leaf) : leaf \in {"blank", "text", "pipe", "sep", "rule", "fence", "fence4",
                            "dollars", "anyTag", "comment"} }
  \cup { Indented(4, "text"), Indented(4, "fence"), Indented(4, "blank"), Quoted("blank") }

\* The one-line and rarer leaves, next to text and a blank line.
RareLines ==
  { Plain(leaf) : leaf \in {"blank", "text", "bars", "equals", "heading", "footnote", "image",
                            "tilde", "fenceInfo", "mathFence", "mermaid", "dollarsOne",
                            "blockTag", "commentFull", "commentEnd"} }
  \cup { Indented(4, "carrier"), Item(0, "dash", "sep") }

\* Lists, nested and not, and formulas and tags inside their items.
ListLines ==
  { Plain("blank"), Plain("text"), Indented(2, "text"), Indented(2, "dollars"),
    Indented(2, "anyTag"), Item(0, "dash", "text"), Item(0, "star", "blank"),
    Item(0, "dash", "dollars"), Item(2, "dash", "mathFence"), Item(11, "paren", "text"),
    Item(0, "check", "anyTag") }

\* Quotes, callouts, a list inside a quote, and formulas and tags there.
QuoteLines ==
  { Plain("blank"), Plain("text"), Item(0, "dash", "text"), Quoted("blank"), Quoted("text"),
    Quoted("callout"), Quoted("anyTag"), Quoted("dollars"),
    [Item(0, "dash", "text") EXCEPT !.quote = TRUE],
    [Quoted("dollars") EXCEPT !.gap = 2] }

MixedDocuments == Texts(LeafLines) \cup Texts(RareLines) \cup Texts(ListLines) \cup Texts(QuoteLines)

\* What the paragraph loop stops at, in front of and behind each other.
StopLines ==
  { Plain(leaf) : leaf \in {"blank", "text", "sep", "rule", "heading", "dollars", "blockTag",
                            "fence", "image", "footnote"} }
  \cup { Item(0, "dash", "blank"), Quoted("text"), Item(0, "one", "blockTag") }
StopDocuments == Texts(StopLines)

\* The documents are within what MarkdownContainers models.
ASSUME LinesAreModelled ==
  \A l \in LeafLines \cup RareLines \cup ListLines \cup QuoteLines \cup StopLines : StaysUnnested(l)

\* Code followed by a blank line of five spaces.
SpaceDocuments == Texts({ Plain("blank"), Plain("text"), Indented(4, "text"), Indented(5, "blank") })
=============================================================================
