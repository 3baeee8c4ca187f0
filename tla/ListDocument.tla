---------------------------- MODULE ListDocument ----------------------------
(***************************************************************************)
(* What list_item_ranges (src/parser.rs) reads of the blocks that an       *)
(* editable parse gives it.                                                *)
(***************************************************************************)
EXTENDS MarkdownParse

\* The marker of a formula or of HTML that starts on a marker line is kept;
\* one behind a quote prefix is not at the start of the block.
IsItem(b, l) ==
  \/ b.kind \in {"BulletItem", "NumberedItem", "Checkbox"}
  \/ b.kind \in {"Math", "RawHtml"} /\ HasMarker(l)

\* unordered_marker or ordered_delimiter
MarkerOf(mark) ==
  CASE mark = "star" -> "*" [] mark = "one" -> "." [] mark = "paren" -> ")" [] OTHER -> "-"

\* A block with the columns of its first line; a quote prefix ends them.
ListBlock(b, l) ==
  [kind    |-> IF b.kind = "Empty" THEN "empty" ELSE IF IsItem(b, l) THEN "item" ELSE "body",
   first   |-> b.first,
   last    |-> b.last,
   indent  |-> l.sp,
   content |-> l.sp + MarkWidth(l.mark),
   marker  |-> MarkerOf(l.mark)]

ListDocument(lines, blocks) == [n \in DOMAIN blocks |-> ListBlock(blocks[n], At(lines, blocks[n].first))]
=============================================================================
