---------------------------- MODULE Incremental ----------------------------
(***************************************************************************)
(* src/incremental.rs: keeping the blocks of a text up to date while it is *)
(* edited.  An edit re-parses the blocks it touches and one on each side,  *)
(* on their own, and moves the blocks behind them; where a block may reach *)
(* further than that, the whole text is parsed.                            *)
(*                                                                         *)
(* A text is its lines and whether the last one ends in a newline.  Byte   *)
(* and UTF-16 offsets are kept apart, as in the code: blocks are found by  *)
(* UTF-16 offsets, sliced by byte offsets, and moved in both.              *)
(***************************************************************************)
EXTENDS MarkdownParse

CONSTANTS
  LeafBytes, LeafUnits,  \* length of each leaf in bytes and UTF-16 units
  Alphabets,             \* sets of lines: a host writes the lines of one
  MaxLines,              \* bound on the lines of a text
  MaxReplaced,           \* bound on the lines one edit replaces
  MaxInserted            \* bound on the lines one edit inserts

ASSUME IncrementalAssumption ==
  /\ LeafBytes \in [Leaves -> Nat] /\ LeafUnits \in [Leaves -> Nat]
  /\ \A leaf \in Leaves : LeafUnits[leaf] <= LeafBytes[leaf]
  /\ Alphabets \subseteq SUBSET Line
  /\ {MaxLines, MaxReplaced, MaxInserted} \subseteq Nat

VARIABLES
  alphabet,  \* the lines this host writes
  text,      \* the source of the last call
  snapshot,  \* ParseSnapshot
  dirty      \* dirty_start and dirty_end of the last result

engineVars == <<alphabet, text, snapshot, dirty>>

(***************************************************************************)
(* Offsets.                                                                *)
(***************************************************************************)
Markup(l) ==
  l.sp + (IF l.quote THEN 2 + l.gap ELSE 0)
       + (CASE l.mark = "none" -> 0 [] l.mark = "check" -> 6 [] OTHER -> MarkWidth(l.mark))

\* Length of a line in bytes or units, with its newline.
LineLength(l, leafLength) == Markup(l) + leafLength[l.leaf] + 1

\* Offset at which line k starts; k = Len(t.lines) is the end of the text.
Offset(t, k, leafLength) ==
  LET sum[n \in 0 .. k] == IF n = 0 THEN 0 ELSE sum[n - 1] + LineLength(t.lines[n], leafLength)
  IN  IF k > 0 /\ k = Len(t.lines) /\ ~ t.ended THEN sum[k] - 1 ELSE sum[k]

ByteAt(t, k) == Offset(t, k, LeafBytes)
UnitAt(t, k) == Offset(t, k, LeafUnits)
ByteLength(t) == ByteAt(t, Len(t.lines))
UnitLength(t) == UnitAt(t, Len(t.lines))

\* An unterminated last line has at least a character.
IsText(t) == ~ t.ended => t.lines # <<>> /\ LineLength(t.lines[Len(t.lines)], LeafUnits) > 1

(***************************************************************************)
(* A parse in editable mode: BlockNodes with their ranges and their text.  *)
(***************************************************************************)
Node(t, b) ==
  [kind |-> b.kind, first |-> b.first, last |-> b.last,
   byteStart |-> ByteAt(t, b.first), byteEnd |-> ByteAt(t, b.last),
   unitStart |-> UnitAt(t, b.first), unitEnd |-> UnitAt(t, b.last),
   body |-> SubSeq(t.lines, b.first + 1, b.last)]

Nodes(t, blocks) == [n \in DOMAIN blocks |-> Node(t, blocks[n])]

FullParse(t) == Nodes(t, ParseBlocks(t.lines, "Editable"))

Snapshot(t, blocks, lineCount) ==
  [blocks |-> blocks, lineCount |-> lineCount, byteLength |-> ByteLength(t), unitLength |-> UnitLength(t)]

\* What a call returns: the blocks, the line count and the dirty range.
Result(blocks, lineCount, first, last) ==
  [blocks |-> blocks, lineCount |-> lineCount, dirty |-> <<first, last>>]

AllDirty(blocks, lineCount) == Result(blocks, lineCount, 0, Len(blocks))

FullResult(t) == AllDirty(FullParse(t), Len(t.lines))

(***************************************************************************)
(* find_overlap_range, widened by one block on each side: the dirty blocks *)
(* are those after number "first" up to number "last".                     *)
(***************************************************************************)
EndingBefore(blocks, unit)   == Cardinality({ n \in DOMAIN blocks : blocks[n].unitEnd <= unit })
StartingBefore(blocks, unit) == Cardinality({ n \in DOMAIN blocks : blocks[n].unitStart < unit })

Overlap(blocks, editStart, editEnd) ==
  LET first == Min({EndingBefore(blocks, editStart), Len(blocks) - 1})
  IN  [first |-> first,
       last  |-> Min({Max({StartingBefore(blocks, editEnd), first + 1}), Len(blocks)})]

DirtyRange(blocks, editStart, editEnd) ==
  LET overlap == Overlap(blocks, editStart, editEnd)
  IN  [first |-> Max({overlap.first - 1, 0}), last |-> Min({overlap.last + 1, Len(blocks)})]

(***************************************************************************)
(* needs_full_reparse.                                                     *)
(***************************************************************************)
\* The code of a CodeBlock: without the fences, or without the indentation.
CodeLines(b) ==
  LET fenced == ~ StartsIndentedCode(b.body[1])
      closed == Len(b.body) > 1 /\ ClosesFence(b.body[Len(b.body)], b.body[1].leaf)
      inner  == IF fenced THEN SubSeq(b.body, 2, Len(b.body) - (IF closed THEN 1 ELSE 0)) ELSE b.body
      margin == IF fenced THEN b.body[1].sp ELSE 4
  IN  { Dedent(inner[n], Min({margin, inner[n].sp})) : n \in 1 .. Len(inner) }

DependsOnContainer(b) ==
  \/ b.kind \in {"Math", "RawHtml"}
  \/ b.kind = "CodeBlock" /\ \E l \in CodeLines(b) : MayStartMath(l) \/ MayStartHtml(l)

ReachesFar(b) == b.kind \in {"CodeBlock", "Math", "RawHtml", "MermaidDiagram", "Table"}

\* Lines of the new text within three units of what was inserted.
ScannedLines(t, editStart, newLength) ==
  LET from  == Max({editStart - 3, 0})
      to    == Min({editStart + newLength + 3, UnitLength(t)})
      first == Max({ k \in 0 .. Len(t.lines) : UnitAt(t, k) <= from })
      last  == Min({ k \in 0 .. Len(t.lines) : UnitAt(t, k) >= to })
  IN  { t.lines[k] : k \in first + 1 .. last }

OpensOpaque(l) == OpensFence(l) \/ MayStartMath(l) \/ MayStartHtml(l)

\* Fault: blocks behind the edit are not looked at.
NeedsFullReparseNear(blocks, range, t, editStart, newLength) ==
  \/ \E n \in range.first + 1 .. range.last : ReachesFar(blocks[n])
  \/ \E l \in ScannedLines(t, editStart, newLength) : OpensOpaque(l)

NeedsFullReparse(blocks, range, t, editStart, newLength) ==
  \/ \E n \in range.first + 1 .. Len(blocks) : DependsOnContainer(blocks[n])
  \/ \E n \in range.first + 1 .. range.last : ReachesFar(blocks[n])
  \/ \E l \in ScannedLines(t, editStart, newLength) : OpensOpaque(l)

(***************************************************************************)
(* shift_block and shift_suffix_block: add a distance to all the offsets.  *)
(***************************************************************************)
\* Fault: the UTF-16 offsets move by bytes.
ShiftByBytes(b, bytes, units, lines) ==
  [b EXCEPT !.first = @ + lines,     !.last = @ + lines,
            !.byteStart = @ + bytes, !.byteEnd = @ + bytes,
            !.unitStart = @ + bytes, !.unitEnd = @ + bytes]

Shift(b, bytes, units, lines) ==
  [b EXCEPT !.first = @ + lines,     !.last = @ + lines,
            !.byteStart = @ + bytes, !.byteEnd = @ + bytes,
            !.unitStart = @ + units, !.unitEnd = @ + units]

Underflows(b) == \E x \in {b.first, b.byteStart, b.unitStart, b.last, b.byteEnd, b.unitEnd} : x < 0

(***************************************************************************)
(* incremental_update.  A slice that does not start and end between lines  *)
(* is not the text of any blocks: no result is defined for it.             *)
(***************************************************************************)
LinesAt(t, byte) == { k \in 0 .. Len(t.lines) : ByteAt(t, k) = byte }

Slice(t, from, to) ==
  [lines |-> SubSeq(t.lines, from + 1, to), ended |-> to < Len(t.lines) \/ t.ended]

\* extend_to_line_end
LineEndFrom(t, byte) ==
  Min({ x \in { ByteAt(t, k) : k \in 0 .. Len(t.lines) } : x >= byte })

NoResult == Result(<<>>, -1, 0, 0)

\* The re-parsed lines from .. to - 1, where they are in the text.
Moved(blocks, bytes, units, lines) ==
  [n \in DOMAIN blocks |-> Shift(blocks[n], bytes, units, lines)]

Middle(t, from, to) == Moved(FullParse(Slice(t, from, to)), ByteAt(t, from), UnitAt(t, from), from)

\* The blocks behind a range that ends where line "to" starts now.
Suffix(prev, t, range, to) ==
  LET old == prev.blocks[range.last]
  IN  Moved(SubSeq(prev.blocks, range.last + 1, Len(prev.blocks)),
            ByteAt(t, to) - old.byteEnd, UnitAt(t, to) - old.unitEnd, to - old.last)

\* Fault: the dirty range ends where the old blocks ended.
SpliceOldRange(prev, t, range, middle, suffix, lines) ==
  Result(SubSeq(prev.blocks, 1, range.first) \o middle \o suffix, prev.lineCount + lines,
         range.first, range.last)

Splice(prev, t, range, middle, suffix, lines) ==
  IF (\E n \in DOMAIN suffix : Underflows(suffix[n])) \/ prev.lineCount + lines < 0
  THEN FullResult(t)
  ELSE Result(SubSeq(prev.blocks, 1, range.first) \o middle \o suffix, prev.lineCount + lines,
              range.first, range.first + Len(middle))

\* The result of re-parsing a range, in a set.
SliceResults(prev, t, range, start, end) ==
  UNION { { Splice(prev, t, range, middle, suffix, to - prev.blocks[range.last].last) :
              middle \in {Middle(t, from, to)}, suffix \in {Suffix(prev, t, range, to)} } :
            from \in LinesAt(t, start), to \in LinesAt(t, end) }

SliceEnd(prev, t, range) ==
  LET raw == Max({prev.blocks[range.last].byteEnd + ByteLength(t) - prev.byteLength, 0})
  IN  LineEndFrom(t, Min({raw, ByteLength(t)}))

Reparse(prev, t, range, start, end) ==
  IF start >= end THEN {FullResult(t)}
  ELSE IF LinesAt(t, start) = {} \/ LinesAt(t, end) = {} THEN {NoResult}
  ELSE SliceResults(prev, t, range, start, end)

Update(prev, t, edit) ==
  UNION { IF prev.blocks = <<>> \/ NeedsFullReparse(prev.blocks, range, t, edit.start, edit.newLength)
          THEN {FullResult(t)}
          ELSE Reparse(prev, t, range, prev.blocks[range.first + 1].byteStart, SliceEnd(prev, t, range)) :
            range \in {DirtyRange(prev.blocks, edit.start, edit.start + edit.oldLength)} }

(***************************************************************************)
(* Edits.  The host replaces the lines from .. to - 1 by others and        *)
(* reports the UTF-16 range it replaced: all of these lines, or less by    *)
(* what the first line keeps at its start.                                 *)
(***************************************************************************)
Kept(old, new) ==
  IF ~ old.quote /\ ~ new.quote
  THEN IF old.sp = new.sp /\ old.mark = new.mark THEN Markup(old) ELSE Min({old.sp, new.sp})
  ELSE 0

Replacements ==
  { r \in [from : 0 .. Len(text.lines), removed : 0 .. MaxReplaced,
           inserted : UNION { [1 .. n -> alphabet] : n \in 0 .. MaxInserted },
           narrow : BOOLEAN, ended : BOOLEAN] :
      /\ r.from + r.removed <= Len(text.lines)
      /\ Len(text.lines) - r.removed + Len(r.inserted) <= MaxLines
      /\ r.narrow => r.removed > 0 /\ r.inserted # <<>>
      /\ r.from + r.removed < Len(text.lines) => r.ended = text.ended }

Edited(r) ==
  [lines |-> SubSeq(text.lines, 1, r.from) \o r.inserted
               \o SubSeq(text.lines, r.from + r.removed + 1, Len(text.lines)),
   ended |-> r.ended]

\* The replacement as it is reported, with the text it makes.
Report(r, t) ==
  LET oldEnd == UnitAt(text, r.from + r.removed)
      newEnd == UnitLength(t) - (UnitLength(text) - oldEnd)
      kept   == IF r.narrow THEN Kept(text.lines[r.from + 1], r.inserted[1]) ELSE 0
      start  == Min({UnitAt(text, r.from) + kept, newEnd})
  IN  [text |-> t, start |-> start, oldLength |-> oldEnd - start, newLength |-> newEnd - start]

Edits == UNION { { Report(r, t) : t \in { x \in {Edited(r)} : IsText(x) } } : r \in Replacements }

\* One incremental call after an edit: the lock is held from the first line
\* to the last, and the new snapshot stored.
Edit(edit) ==
  /\ text' = edit.text
  /\ \E result \in Update(snapshot, edit.text, edit) :
       /\ snapshot' = Snapshot(edit.text, result.blocks, result.lineCount)
       /\ dirty' = result.dirty
  /\ UNCHANGED alphabet

\* parse_editable on a text of the host.
EngineInit ==
  /\ alphabet \in Alphabets
  /\ \E n \in 0 .. MaxLines, ended \in BOOLEAN :
       \E lines \in [1 .. n -> alphabet] : text = [lines |-> lines, ended |-> ended]
  /\ IsText(text)
  /\ snapshot = Snapshot(text, FullParse(text), Len(text.lines))
  /\ dirty = FullResult(text).dirty

EngineNext == \E edit \in Edits : Edit(edit)

EngineSpec == EngineInit /\ [][EngineNext]_engineVars

-----------------------------------------------------------------------------
(* The snapshot describes the text of the last call: its blocks lie end to *)
(* end from the first byte to the last, between lines, each with the       *)
(* offsets, in bytes, units and lines, of the very lines it was made from, *)
(* and the line count is the text's.  Every later edit is located and      *)
(* sliced by these offsets (shift_block, shift_suffix_block).              *)
Describes(b, t) ==
  /\ 0 <= b.first /\ b.first < b.last /\ b.last <= Len(t.lines)
  /\ b = Node(t, [kind |-> b.kind, first |-> b.first, last |-> b.last])

SnapshotDescribesText ==
  LET blocks == snapshot.blocks
  IN  /\ blocks = <<>> <=> text.lines = <<>>
      /\ \A n \in 1 .. Len(blocks) :
           /\ Describes(blocks[n], text)
           /\ blocks[n].first = (IF n = 1 THEN 0 ELSE blocks[n - 1].last)
      /\ blocks # <<>> => blocks[Len(blocks)].last = Len(text.lines)
      /\ snapshot.lineCount = Len(text.lines)
      /\ snapshot.byteLength = ByteLength(text) /\ snapshot.unitLength = UnitLength(text)

(* A calm line: no line of another block reaches it (fences, tags,         *)
(* formulas, tables, indented code), and it does not join the line before  *)
(* it without a mark of its own (an "===" underline, which is prose        *)
(* elsewhere, and a lone ">", which goes on with a paragraph).             *)
Calm(l) ==
  /\ l.leaf \notin Fences \cup HtmlOpeners \cup {"dollars", "dollarsOne"}
  /\ ~ IsTableSeparator(l)
  /\ StartsIndentedCode(l) => IsBlank(l)
  /\ OpensQuote(l) => QuoteEndsParagraph(l)
  /\ IsSetextUnderline(l) => IsHorizontalRule(l) \/ HasMarker(l)

CalmLine == { l \in Line : Calm(l) }

(* The incremental result equals a full parse of the same text.  It does   *)
(* for a host that writes calm lines; with lines that reach further it     *)
(* depends on what needs_full_reparse looks at.                            *)
MatchesFullParse == snapshot.blocks = FullParse(text)

(* The reported dirty range is all the host must restyle: before and       *)
(* behind it the same blocks stand in the same order, with the same kind   *)
(* and the same text, only moved.                                          *)
SameBlock(a, b) == a.kind = b.kind /\ a.body = b.body

DirtyRangeCovers ==
  [][ LET new    == snapshot'.blocks
          old    == snapshot.blocks
          behind == Len(new) - dirty'[2]
      IN  /\ dirty'[1] <= Len(old) /\ behind <= Len(old) - dirty'[1]
          /\ \A n \in 1 .. dirty'[1] : new[n] = old[n]
          /\ \A n \in 0 .. behind - 1 : SameBlock(new[Len(new) - n], old[Len(old) - n])
    ]_engineVars
=============================================================================
