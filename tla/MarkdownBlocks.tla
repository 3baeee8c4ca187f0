--------------------------- MODULE MarkdownBlocks ---------------------------
(***************************************************************************)
(* The rules of the block parser: the loop body of parse_with_options in   *)
(* src/parser.rs.  A document is a sequence of Lines; index i is the       *)
(* code's 0-based line index, so that line i is lines[i + 1].              *)
(*                                                                         *)
(* A parser state is [i, blocks, contexts, open, from]: the next line, the *)
(* blocks so far, list_contexts, and the block whose inner loop is running *)
(* ("quote", or a grouped "list") with its first line.  Every other inner  *)
(* loop is one step, which computes where the loop ends.                   *)
(***************************************************************************)
EXTENDS MarkdownContainers

CONSTANT MaxTableRows  \* MAX_TABLE_ROWS

ASSUME BlocksAssumption == MaxTableRows \in Nat

Modes == {"Editable", "Grouped"}

Kinds ==
  {"Empty", "ImageMarker", "RawHtml", "Math", "CodeBlock", "MermaidDiagram", "Table",
   "Paragraph", "HorizontalRule", "Heading", "Blockquote", "Callout", "Checkbox",
   "BulletItem", "BulletList", "NumberedItem", "OrderedList", "FootnoteDefinition"}

\* BlockNode: its kind and its lines first .. last - 1.
Block == [kind : Kinds, first : Nat, last : Nat]

At(lines, i) == lines[i + 1]

\* The first of the line indexes in S, or the end of the document.
FirstOf(lines, S) == Min({Len(lines)} \cup S)

(***************************************************************************)
(* Where the one-step blocks end.                                          *)
(***************************************************************************)
\* Fault: the trailing blank lines are kept.
IndentedCodeEndGreedy(lines, i) ==
  FirstOf(lines, { k \in i .. Len(lines) - 1 : ~ StartsIndentedCode(At(lines, k)) /\ ~ IsBlank(At(lines, k)) })

\* Indented code takes blank lines too, then gives the trailing ones back.
IndentedCodeEnd(lines, i) ==
  LET run == FirstOf(lines, { k \in i .. Len(lines) - 1 :
                                ~ StartsIndentedCode(At(lines, k)) /\ ~ IsBlank(At(lines, k)) })
  IN  1 + Max({ k \in i .. run - 1 : StartsIndentedCode(At(lines, k)) })

\* Fault: the closing fence is skipped although there is none.
FenceEndPast(lines, i) ==
  1 + FirstOf(lines, { k \in i + 1 .. Len(lines) - 1 : ClosesFence(At(lines, k), At(lines, i).leaf) })

FenceEnd(lines, i) ==
  FirstOf(lines, { k \in i + 2 .. Len(lines) : ClosesFence(At(lines, k - 1), At(lines, i).leaf) })

FenceKind(leaf) ==
  CASE leaf = "mathFence" -> "Math"
    [] leaf = "mermaid"   -> "MermaidDiagram"
    [] OTHER              -> "CodeBlock"

StartsTable(lines, i) ==
  IsTableRow(At(lines, i)) /\ i + 1 < Len(lines) /\ IsTableSeparator(At(lines, i + 1))

TableEnd(lines, i) ==
  FirstOf(lines, { k \in i + 2 .. Len(lines) - 1 : ~ IsTableRow(At(lines, k)) })

\* A table over the row limit stays a paragraph over the same lines.
TableKind(lines, i) == IF TableEnd(lines, i) - (i + 2) > MaxTableRows THEN "Paragraph" ELSE "Table"

(***************************************************************************)
(* html.rs blocks over the lines pieces[k], k >= i: up to a blank line, or *)
(* through the line holding the closing delimiter.                         *)
(***************************************************************************)
HtmlEnd(pieces, i, opener) ==
  FirstOf(pieces, { k \in i .. Len(pieces) - 1 : HtmlEndsAtBlank(opener) /\ IsBlank(At(pieces, k)) }
             \cup { k \in i + 1 .. Len(pieces) : HtmlCloses(opener, At(pieces, k - 1)) })

(***************************************************************************)
(* dollar_math: a one-line formula, or "$$" up to the next "$$" with no    *)
(* blank line and at least one line between.  {} is None.                  *)
(***************************************************************************)
DollarMath(pieces, i) ==
  LET l == At(pieces, i)
      stops == { k \in i + 1 .. Len(pieces) - 1 :
                   IsBlank(At(pieces, k)) \/ (Bare(At(pieces, k)) /\ At(pieces, k).leaf = "dollars") }
  IN  IF ~ Bare(l) \/ l.sp > 3 THEN {}
      ELSE IF l.leaf = "dollarsOne" THEN {i + 1}
      ELSE IF l.leaf = "dollars" /\ stops # {}
      THEN { k + 1 : k \in { m \in {Min(stops)} :
                               /\ ~ IsBlank(At(pieces, m)) /\ At(pieces, m).sp <= 3
                               /\ m > i + 1 } }
      ELSE {}

(***************************************************************************)
(* Blocks inside a list item or a quote.                                   *)
(***************************************************************************)
\* The lines from i on, as the container opened at i sees them.
Pieces(lines, i, start) ==
  LET leaves == { k \in i + 1 .. Len(lines) - 1 : ContainerLine(At(lines, k), FALSE, start) = {} }
  IN  [ k \in 1 .. FirstOf(lines, leaves) - i |->
          CHOOSE l \in ContainerLine(At(lines, i + k - 1), k = 1, start) : TRUE ]

\* Text before the line, in the same container, that is still a paragraph.
ParagraphOpen(blocks, i) ==
  /\ blocks # <<>>
  /\ blocks[Len(blocks)].last = i
  /\ blocks[Len(blocks)].kind \in {"Paragraph", "BulletItem", "NumberedItem", "Checkbox",
                                   "Blockquote", "Callout", "BulletList", "OrderedList"}

PrecedingContent(lines, i, active, start) ==
  LET direct == ContainerLine(At(lines, i - 1), FALSE, start)
  IN  IF direct # {} THEN direct
      ELSE { s.piece : s \in { p \in StartAfterContainer(At(lines, i - 1), active) :
                                 p.list = start.list /\ p.depth = start.depth } }

\* A tag that cannot interrupt a paragraph, where one is open.
HtmlSuppressed(lines, i, active, blocks, start) ==
  /\ ~ HtmlEndsParagraph(start.piece) /\ ~ start.marked /\ i > 0
  /\ ParagraphOpen(blocks, i)
  /\ \E l \in PrecedingContent(lines, i, active, start) : ~ IsBlank(l)

ContainerHtml(lines, i, active, blocks) ==
  { i + HtmlEnd(Pieces(lines, i, s), 0, s.piece.leaf) :
      s \in { t \in HtmlStartAfterContainer(At(lines, i), active) :
                ~ HtmlSuppressed(lines, i, active, blocks, t) } }

\* The prefix of the pieces that one formula can take.
MathPieces(pieces) ==
  IF pieces[1].leaf = "dollarsOne" THEN SubSeq(pieces, 1, 1)
  ELSE SubSeq(pieces, 1, FirstOf(pieces, { k \in 2 .. Len(pieces) :
         IsBlank(pieces[k]) \/ (Bare(pieces[k]) /\ pieces[k].leaf = "dollars") }))

ContainerMath(lines, i, active) ==
  UNION { LET pieces == Pieces(lines, i, s)
          IN  { i + n : n \in IF OpensFence(s.piece) THEN {FenceEnd(pieces, 0)}
                              ELSE DollarMath(MathPieces(pieces), 0) } :
            s \in MathStartAfterContainer(At(lines, i), active) }

(***************************************************************************)
(* Paragraphs: lines up to one that any other rule would claim.  Three of  *)
(* the tests hold back on the paragraph's own first line i.                *)
(***************************************************************************)
StartsOther(lines, k, active) ==
  LET l == At(lines, k)
  IN  \/ IsBlank(l)
      \/ HtmlInterruptsContainer(l, active)
      \/ HtmlEndsParagraph(l)
      \/ OpensFence(l)
      \/ IsHeading(l)
      \/ QuoteEndsParagraph(l)
      \/ IsHorizontalRule(l)
      \/ HasMarker(l)
      \/ IsFootnote(l)
      \/ IsImageMarker(l)
      \/ StartsTable(lines, k)

HeldBack(l, active) ==
  \/ StartsWithDollars(l)
  \/ MathStartAfterContainer(l, active) # {}
  \/ IsSetextUnderline(l)

\* Fault: nothing is held back.
EndsParagraphAlways(lines, i, k, active) ==
  StartsOther(lines, k, active) \/ HeldBack(At(lines, k), active)

\* Fault: half a table ends a paragraph too.
EndsParagraphAtRow(lines, i, k, active) ==
  \/ StartsOther(lines, k, active)
  \/ k > i /\ HeldBack(At(lines, k), active)
  \/ k > i /\ (IsTableRow(At(lines, k)) \/ IsTableSeparator(At(lines, k)))

EndsParagraph(lines, i, k, active) ==
  StartsOther(lines, k, active) \/ (k > i /\ HeldBack(At(lines, k), active))

ParagraphEnd(lines, i, active) ==
  FirstOf(lines, { k \in i .. Len(lines) - 1 : EndsParagraph(lines, i, k, active) })
=============================================================================
