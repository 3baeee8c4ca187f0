--------------------------- MODULE MarkdownLines ---------------------------
(***************************************************************************)
(* One line of Markdown, as far as the block parser can tell lines apart,  *)
(* and the lexical tests of src/parser.rs and src/html.rs on it.           *)
(*                                                                         *)
(* A line is  spaces  ["> " gap]  [list marker]  leaf :                    *)
(*   sp     leading spaces;                                                *)
(*   quote  whether a "> " prefix follows (only written at column 0);      *)
(*   gap    the spaces after that prefix;                                  *)
(*   mark   at most one list marker, with one space after it;              *)
(*   leaf   what is left, one name for each text the tests separate.       *)
(* Tabs, a second quote level and a second marker on one line are left     *)
(* out.  What follows a stripped container prefix is again a Line.         *)
(***************************************************************************)
EXTENDS Integers

CONSTANTS
  MaxListIndent,  \* MAX_LIST_INDENT_COLUMNS: markers indented deeper are not markers
  ImageMarkers    \* is ParseOptions::image_marker_scheme set?

ASSUME LinesAssumption ==
  /\ MaxListIndent \in Nat
  /\ ImageMarkers \in BOOLEAN

Marks == {"none", "dash", "star", "check", "one", "paren"}

Backticks == {"fence", "fence4", "fenceInfo", "mathFence", "mermaid"}
Tildes    == {"tilde"}
Fences    == Backticks \cup Tildes
HtmlOpeners == {"blockTag", "anyTag", "comment", "commentFull"}

Leaves ==
  {"blank", "text", "pipe", "sep", "bars", "rule", "equals", "heading",
   "footnote", "image", "callout", "carrier", "dollars", "dollarsOne",
   "commentEnd"} \cup Fences \cup HtmlOpeners

Line == { l \in [sp : Nat, quote : BOOLEAN, gap : Nat, mark : Marks, leaf : Leaves] :
            /\ l.quote => l.sp = 0
            /\ ~ l.quote => l.gap = 0 }

(***************************************************************************)
(* Stripping prefixes.                                                     *)
(***************************************************************************)
Bare(l) == ~ l.quote /\ l.mark = "none"

Depth(l) == IF l.quote THEN 1 ELSE 0

\* The text after the outer quote prefix.
Content(l) ==
  IF l.quote THEN [l EXCEPT !.sp = l.gap, !.quote = FALSE, !.gap = 0] ELSE l

\* The text after the list marker.
AfterMarker(l) == [l EXCEPT !.sp = 0, !.mark = "none"]

Dedent(l, columns) == [l EXCEPT !.sp = l.sp - columns]

\* Columns a marker takes before a container's content; a checkbox counts
\* its bullet only.
MarkWidth(mark) == IF mark \in {"one", "paren"} THEN 3 ELSE 2

(***************************************************************************)
(* The lexical tests.                                                      *)
(***************************************************************************)
IsBlank(l) == Bare(l) /\ l.leaf = "blank"

HasMarker(l) == ~ l.quote /\ l.mark # "none" /\ l.sp <= MaxListIndent

IsImageMarker(l) == ImageMarkers /\ Bare(l) /\ l.leaf = "image"

\* A line of five or more spaces passes, although it is blank.
IsIndentedCodeLine(l) == l.sp >= 4 /\ (~ IsBlank(l) \/ l.sp > 4)

StartsIndentedCode(l) ==
  IsIndentedCodeLine(l) /\ ~ HasMarker(l) /\ ~ (Bare(l) /\ l.leaf = "carrier")

OpensFence(l) == Bare(l) /\ l.leaf \in Fences

FenceLength(leaf) == IF leaf = "fence4" THEN 4 ELSE 3

ClosesFence(l, opener) ==
  /\ Bare(l) /\ l.sp <= 3
  /\ l.leaf \in {"fence", "fence4", "tilde"}
  /\ (l.leaf \in Tildes) = (opener \in Tildes)
  /\ FenceLength(l.leaf) >= FenceLength(opener)

IsTableRow(l) ==
  \/ l.leaf \in {"pipe", "sep"}
  \/ l.leaf = "bars" /\ ~ Bare(l)

IsTableSeparator(l) ==
  ~ l.quote /\ l.mark \in {"none", "dash"} /\ l.leaf \in {"sep", "bars"}

IsHorizontalRule(l) ==
  ~ l.quote /\ l.mark \in {"none", "dash"} /\ l.leaf = "rule"

IsHeading(l) == Bare(l) /\ l.leaf = "heading"

IsFootnote(l) == Bare(l) /\ l.leaf = "footnote"

OpensQuote(l) == l.quote

\* A lone ">" opens a quote but does not end a paragraph.
QuoteEndsParagraph(l) == l.quote /\ ~ IsBlank(Content(l))

\* A bullet with nothing after it is an underline too.
IsSetextUnderline(l) ==
  /\ ~ l.quote /\ l.sp <= 3
  /\ \/ l.mark = "none" /\ l.leaf \in {"rule", "equals"}
     \/ l.mark = "dash" /\ l.leaf = "blank"

StartsWithDollars(l) == Bare(l) /\ l.leaf \in {"dollars", "dollarsOne"}

StartsMath(l) == StartsWithDollars(l) \/ (Bare(l) /\ l.leaf = "mathFence")

(***************************************************************************)
(* HTML blocks (html.rs): where one starts, and what ends it.              *)
(***************************************************************************)
StartsHtml(l) == Bare(l) /\ l.sp <= 3 /\ l.leaf \in HtmlOpeners

HtmlEndsParagraph(l) == StartsHtml(l) /\ l.leaf # "anyTag"

HtmlEndsAtBlank(opener) == opener \in {"blockTag", "anyTag"}

HtmlCloses(opener, l) ==
  ~ HtmlEndsAtBlank(opener) /\ l.leaf \in {"commentEnd", "commentFull"}
=============================================================================
