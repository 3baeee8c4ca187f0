--------------------------- MODULE MarkdownParse ---------------------------
(***************************************************************************)
(* Which rule claims a line, what it does to the parser state, and the     *)
(* parse of a whole document as the iteration of these steps.              *)
(***************************************************************************)
EXTENDS MarkdownBlocks

ParserStart == [i |-> 0, blocks |-> <<>>, contexts |-> <<>>, open |-> "none", from |-> 0]

Finished(lines, s) == s.i = Len(lines) /\ s.open = "none"

\* list_contexts once the line at s.i has been seen.
Seen(lines, s) == UpdateContext(At(lines, s.i), s.contexts)

(***************************************************************************)
(* The rules, in the order the loop tries them.                            *)
(***************************************************************************)
BlockRule(lines, s) ==
  LET l      == At(lines, s.i)
      active == Innermost(Seen(lines, s))
  IN  IF IsBlank(l) THEN "empty"
      ELSE IF IsImageMarker(l) THEN "image"
      ELSE IF ContainerHtml(lines, s.i, active, s.blocks) # {} THEN "containerHtml"
      ELSE IF ContainerMath(lines, s.i, active) # {} THEN "containerMath"
      ELSE IF StartsIndentedCode(l) THEN "indentedCode"
      ELSE IF StartsHtml(l) /\ StartAfterContainer(l, active) = {} THEN "html"
      ELSE IF DollarMath(lines, s.i) # {} THEN "dollarMath"
      ELSE IF OpensFence(l) THEN "fence"
      ELSE IF StartsTable(lines, s.i) THEN "table"
      ELSE IF IsHorizontalRule(l) THEN "rule"
      ELSE IF IsHeading(l) THEN "heading"
      ELSE IF OpensQuote(l) THEN "quote"
      ELSE IF HasMarker(l) /\ l.mark = "check" THEN "checkbox"
      ELSE IF HasMarker(l) THEN "list"
      ELSE IF IsFootnote(l) THEN "footnote"
      ELSE "paragraph"

(***************************************************************************)
(* What each rule does.                                                    *)
(***************************************************************************)
\* make_block over the lines first .. last - 1, and on to line last.
Emit(s, kind, first, last, contexts) ==
  [s EXCEPT !.i = last, !.contexts = contexts, !.open = "none", !.from = last,
            !.blocks = Append(@, [kind |-> kind, first |-> first, last |-> last])]

TakeOne(lines, s, kind) == Emit(s, kind, s.i, s.i + 1, Seen(lines, s))

TakeThrough(lines, s, kind, last) == Emit(s, kind, s.i, last, Seen(lines, s))

\* Grouped mode keeps one Empty for a run of blank lines.
TakeEmpty(mode, s) ==
  IF mode = "Grouped" /\ s.blocks # <<>> /\ s.blocks[Len(s.blocks)].kind = "Empty"
  THEN [s EXCEPT !.i = @ + 1, !.from = s.i + 1]
  ELSE Emit(s, "Empty", s.i, s.i + 1, s.contexts)

TheEnd(ends) == CHOOSE e \in ends : TRUE

TakeContainerHtml(lines, s) ==
  TakeThrough(lines, s, "RawHtml",
              TheEnd(ContainerHtml(lines, s.i, Innermost(Seen(lines, s)), s.blocks)))

TakeContainerMath(lines, s) ==
  TakeThrough(lines, s, "Math", TheEnd(ContainerMath(lines, s.i, Innermost(Seen(lines, s)))))

\* Fault: the underline is consumed, but is not in the heading.
TakeParagraphShort(lines, s) ==
  LET end == ParagraphEnd(lines, s.i, Innermost(Seen(lines, s)))
  IN  IF end > s.i /\ end < Len(lines) /\ IsSetextUnderline(At(lines, end))
      THEN [TakeThrough(lines, s, "Heading", end) EXCEPT !.i = end + 1, !.from = end + 1]
      ELSE IF end > s.i THEN TakeThrough(lines, s, "Paragraph", end)
      ELSE [s EXCEPT !.contexts = Seen(lines, s)]

\* A setext underline turns the paragraph before it into a heading.  A first
\* line that ends the paragraph leaves the loop where it was.
TakeParagraph(lines, s) ==
  LET end == ParagraphEnd(lines, s.i, Innermost(Seen(lines, s)))
  IN  IF end > s.i /\ end < Len(lines) /\ IsSetextUnderline(At(lines, end))
      THEN TakeThrough(lines, s, "Heading", end + 1)
      ELSE IF end > s.i THEN TakeThrough(lines, s, "Paragraph", end)
      ELSE [s EXCEPT !.contexts = Seen(lines, s)]

\* Editable lists are one block per item; a grouped list starts its loop,
\* which sees the line a second time.
TakeList(lines, mode, s) ==
  LET ordered == At(lines, s.i).mark \in {"one", "paren"}
  IN  IF mode = "Editable"
      THEN TakeOne(lines, s, IF ordered THEN "NumberedItem" ELSE "BulletItem")
      ELSE [s EXCEPT !.i = @ + 1, !.open = "list", !.from = s.i,
                     !.contexts = UpdateContext(At(lines, s.i), Seen(lines, s))]

OpenQuote(lines, s) ==
  [s EXCEPT !.i = @ + 1, !.open = "quote", !.from = s.i,
            !.contexts = UpdateContext(At(lines, s.i), Seen(lines, s))]

(***************************************************************************)
(* The quote loop: one line more, or the block.                            *)
(***************************************************************************)
QuoteInterrupted(l, before, active) ==
  \/ QuotedMathStart(l) # {}
  \/ HtmlInterruptsContainer(l, active)
  \/ IsBlank(Content(before)) /\ HtmlStartAfterContainer(l, active) # {}
  \/ ~ OpensQuote(l)

QuoteEnds(lines, s) ==
  s.i < Len(lines) =>
    QuoteInterrupted(At(lines, s.i), At(lines, s.i - 1), Innermost(s.contexts))

ExtendOpen(lines, s) == [s EXCEPT !.i = @ + 1, !.contexts = Seen(lines, s)]

CloseQuote(lines, s) ==
  LET first == Content(At(lines, s.from))
      kind  == IF Bare(first) /\ first.leaf = "callout" THEN "Callout" ELSE "Blockquote"
  IN  Emit(s, kind, s.from, s.i, s.contexts)

(***************************************************************************)
(* The grouped list loop: items of one marker and their continuation       *)
(* lines.  The line that ends it may already have updated list_contexts.   *)
(***************************************************************************)
ListInterrupted(lines, s) ==
  s.i < Len(lines) =>
    \/ HtmlInterruptsContainer(At(lines, s.i), Innermost(s.contexts))
    \/ MathStartAfterContainer(At(lines, s.i), Innermost(s.contexts)) # {}

OtherMarker(lines, s) ==
  HasMarker(At(lines, s.i)) /\ At(lines, s.i).mark # At(lines, s.from).mark

ListEnds(lines, s) ==
  ~ ListInterrupted(lines, s) => OtherMarker(lines, s) \/ IsBlank(At(lines, s.i))

CloseList(lines, s) ==
  LET ordered == At(lines, s.from).mark \in {"one", "paren"}
  IN  Emit(s, IF ordered THEN "OrderedList" ELSE "BulletList", s.from, s.i,
           IF ListInterrupted(lines, s) THEN s.contexts ELSE Seen(lines, s))

(***************************************************************************)
(* One step, and the whole parse.                                          *)
(***************************************************************************)
Take(lines, mode, s, rule) ==
  CASE rule = "empty"         -> TakeEmpty(mode, s)
    [] rule = "image"         -> Emit(s, "ImageMarker", s.i, s.i + 1, s.contexts)
    [] rule = "containerHtml" -> TakeContainerHtml(lines, s)
    [] rule = "containerMath" -> TakeContainerMath(lines, s)
    [] rule = "indentedCode"  -> TakeThrough(lines, s, "CodeBlock", IndentedCodeEnd(lines, s.i))
    [] rule = "html"          -> TakeThrough(lines, s, "RawHtml",
                                             HtmlEnd(lines, s.i, At(lines, s.i).leaf))
    [] rule = "dollarMath"    -> TakeThrough(lines, s, "Math", TheEnd(DollarMath(lines, s.i)))
    [] rule = "fence"         -> TakeThrough(lines, s, FenceKind(At(lines, s.i).leaf),
                                             FenceEnd(lines, s.i))
    [] rule = "table"         -> TakeThrough(lines, s, TableKind(lines, s.i), TableEnd(lines, s.i))
    [] rule = "rule"          -> TakeOne(lines, s, "HorizontalRule")
    [] rule = "heading"       -> TakeOne(lines, s, "Heading")
    [] rule = "quote"         -> OpenQuote(lines, s)
    [] rule = "checkbox"      -> TakeOne(lines, s, "Checkbox")
    [] rule = "list"          -> TakeList(lines, mode, s)
    [] rule = "footnote"      -> TakeOne(lines, s, "FootnoteDefinition")
    [] rule = "paragraph"     -> TakeParagraph(lines, s)

Step(lines, mode, s) ==
  CASE Finished(lines, s) -> s
    [] s.open = "none" /\ ~ Finished(lines, s) -> Take(lines, mode, s, BlockRule(lines, s))
    [] s.open = "quote" -> IF QuoteEnds(lines, s) THEN CloseQuote(lines, s) ELSE ExtendOpen(lines, s)
    [] s.open = "list"  -> IF ListEnds(lines, s) THEN CloseList(lines, s) ELSE ExtendOpen(lines, s)

\* parse_with_options.  A line takes at most two steps: into a block whose
\* loop runs over it, and the end of that loop.
ParseBlocks(lines, mode) ==
  LET run[n \in 0 .. 2 * Len(lines)] ==
        IF n = 0 THEN ParserStart ELSE Step(lines, mode, run[n - 1])
  IN  run[2 * Len(lines)].blocks
=============================================================================
