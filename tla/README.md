# Cindermark in TLA+

Cindermark is a Markdown parser for editors, written in Rust and called from
Swift and JavaScript. It parses a whole text into blocks, or takes an edit and
re-parses only the blocks around it. These modules model the parts whose
correctness is hard to see and hard to test: the block loop, the inline scanners,
the tags, mentions and colours found behind them, the previews made of them,
the incremental engine, the parser object that threads share, the ranges of list
items, the map between bytes and UTF-16 units, and the token scanner. TLC checks
them on small instances. TLAPS proves the main safety properties of all of them
for every value of the constants.

Paths such as `parser.rs:716` are under `src/src/`.

## 1. Inventory

| Component | State | Operations | What makes it correct |
|---|---|---|---|
| Line classification (`parser.rs`, `html.rs`) | none | `quote_prefix`, `parse_list_marker`, `opening_fence`, `closing_fence`, `is_table_row`, `parse_setext_underline`, `block_start`, ... | tests that must agree with each other: what stops a paragraph must be claimed by a rule |
| Containers (`parser.rs:796-1181`) | `list_contexts`, the stack of open list items | `update_list_context`, `start_after_container`, `container_line` | the stack nests; a block opened in an item ends with the item |
| Block parser (`parser.rs:146-792`) | line index `i`, `blocks`, `list_contexts`, the inner loop that is running | one rule per kind of block, inner loops for quotes and grouped lists | the loop goes on and ends; blocks tile the document; paragraphs and code end where they should |
| Incremental engine (`incremental.rs`) | `ParseSnapshot`: blocks with byte, UTF-16 and line ranges, and lengths | `incremental_update`: locate, decide, re-parse, shift, splice | result equals a full parse; offsets stay true over a session of edits; the dirty range covers every change |
| Parser object (`lib.rs:857-1063`) | `Mutex<Option<ParseSnapshot>>` | `parse`, `parse_editable`, two incremental calls, `reset_state` | atomic calls; the snapshot used is that of the text edited; every call returns |
| UTF-16 map (`utf16.rs`) | the offsets of line starts, whether all is ASCII, the length | `build`, `byte_to_utf16`, `utf16_to_byte` | lookups equal a direct count, also inside surrogate pairs, and walk one line at most |
| List item ranges (`parser.rs:66-144`) | stack of open items, the items so far | `list_item_ranges` | parents and ranges describe a tree; sibling groups are runs; a range ends with its content |
| Checkbox toggle (`parser.rs`) | none | `toggle_checkbox` | changes one character; twice is the identity |
| Inline parser (`inline.rs`) | `spans`, the claimed ranges, what is hidden from formulas and underlines, stacks of openers, a cursor per scanner | `parse_spans`: one scanner after the other in a fixed order, then two sweeps over the spans | claims stay apart; emphasis nests; formulas and code are opaque; every scanner ends |
| Lexer (`lexer.rs`) | `pos`, `tokens` | `tokenize`: block markers at the start of a line, then token by token | tokens are in order and lose nothing; the scan goes on |
| Semantic tokens (`semantic.rs`) | a mask of what is opaque, the colours found so far, a cursor | `annotate_range`; `semantic_completion` | tokens are apart from other spans or in the content of formatting; a colour is a whole name |
| Previews, statistics (`lib.rs:1180-1502`) | the units that are markers, the position of each unit in the preview | `build_clean_preview_from_doc`, `truncate_preview`; counts | code, formulas, tags and mentions are shown as written; spans stay inside the preview; a formula is never cut |
| Resource references (`resources.rs`) | none | filter over spans | - |
| FFI and WASM (`lib.rs`, `cindermark.udl`, `wasm.rs`) | none | conversion of records, JSON | - |

How they interact. The host keeps one parser per editor. `parse_editable` runs
the block parser and stores a snapshot; each later edit goes through an
incremental call, which holds the lock, gives the snapshot to
`incremental_update`, and stores the result. `incremental_update` runs the block
parser on a slice of the text, or on all of it. The block parser runs the
inline parser on each block's text; nothing flows back from there into blocks.
The spans feed the semantic tokens, the resource references and the previews.
The lexer is public (`lib.rs:19`) and called by nothing else in the crate.
All of them translate their byte offsets through the UTF-16 map. `list_item_ranges`
makes one pass over the blocks of a parse of its own and keeps nothing.

What is hard:

- **Ordering of rules.** The block loop has no default step: a line no rule
  takes would be looked at for ever. The paragraph rule takes lines up to one
  that any other rule would take, by a second copy of their tests.
- **State across blocks.** `list_contexts` is updated line by line, sometimes
  twice for one line, and decides what later lines are.
- **Stale offsets.** The incremental engine slices the new text by offsets of
  the old one, and moves the blocks behind the edit in three units.
- **Locality.** Re-parsing a few blocks is right only if nothing outside of them
  decides how they are read, and they decide nothing outside of them.
- **One stack, several outcomes.** In `list_item_ranges` the stack of open items
  decides parents, ranges and sibling groups, and closes items by different columns
  for items and for other blocks.
- **Claims by order.** An inline scanner claims the range of what it finds and respects
  the claims of earlier ones. Formulas take claims back, underlines make none, and emphasis
  is decided behind the scanners that go before it: each in a way of its own, over one set of ranges.
- **Delimiters that look back.** A run of asterisks is opener and closer at once, is consumed in
  parts, and abandons the openers above the one it closes.
- **A second opinion.** The semantic tokens read a text again that the scanners have read: a name must
  stop at every span they found, and two grammars decide what a colour is.
- **Positions that move.** A preview strips the markers of all spans at once, moves every span by what
  was stripped before it, and is then cut at a limit that may fall anywhere.
- **Fall through.** The text run of the lexer must take what no other token takes, and
  tests the same characters a second time.
- **Two units.** The UTF-16 map counts the same characters in two loops and skips
  counting for ASCII; offsets may fall inside a character or a surrogate pair.
- **Interleaving.** `parse_editable` parses before it takes the lock; the
  incremental calls hold it from the read of the snapshot to the store.
- **Failure.** A panic inside the lock poisons it, and `lock().unwrap()` then
  panics in every later call.

There is no I/O, no persistence, no timer and no message in the crate.

## 2. Modules

```
MarkdownLines -- MarkdownContainers -- MarkdownBlocks -- MarkdownParse
                                                          |        |
                                                   BlockParser   Incremental -- MCIncremental
                                                    |      |          |
                                      MCBlockParser   BlockParserProofs -- IncrementalProofs

MarkdownParse -- ListDocument \
                                MCListRanges
                   ListRanges /
                       \- ListRangesProofs

Utf16Map -- MCUtf16Map, Utf16MapProofs

TextScan -- Lexer -- MCLexer, LexerProofs
        \-- InlineText -- Autolinks -- Inline -- SemanticTokens -- Preview -- MCInline, InlineProofs

Bounds -- lemmas about Min and Max, the loops of TextScan, and induction up to a bound, for the proofs

ParserCalls -- ParserObject   (abstract)
            \- Session        (implements ParserObject) -- SessionProofs
```

**MarkdownLines** abstracts a line to what the tests of the parser tell apart:
leading spaces, an optional `> ` prefix with the spaces after it, at most one
list marker, and a *leaf*, one name for each text the tests separate
(`"fence"`, `"dollars"`, `"sep"` for a table separator, `"bars"` for a line of
bars and dashes, and so on). Each predicate is one function of `parser.rs` or
`html.rs`.

**MarkdownContainers** has `list_contexts` and the three functions around it. An
`Option` is a set of at most one element.

**MarkdownBlocks** has where each one-step block ends, and **MarkdownParse** which rule claims a
line (`BlockRule`, the order of the `if`s in the loop), what each rule does to
the parser state (`TakeX`), and the two inner loops. `ParseBlocks` iterates
them, for the incremental engine.

**BlockParser** is the loop as a state machine: one action per rule, and one for
each way an inner loop goes on or ends. `open` and `from` stand for being inside
the quote loop or the grouped list loop, and the line where it started.

**Incremental** is `incremental_update` over a session of edits. A state is the text of the
last call and the snapshot the parser keeps of it; an edit replaces lines by
others, reports the UTF-16 range it replaced (whole lines, or what follows the
part the first line keeps), and runs one incremental call. Offsets are computed
from the lengths of leaves in bytes and in UTF-16 units, which differ for
`"text"`. `blocks` here carry their lines (`body`), so that a block that is kept
although its text has changed is seen.

`EngineSpec` is the specification of the session; the names `Init` and `Next` are left to BlockParser, so
that the proofs about both can stand in modules that extend each other.

**ListRanges** is the loop of `list_item_ranges` as a state machine over blocks: an
action for each way its body goes (`continue` at a blank line, an item, another
block), of which the last two end with the loop at `parser.rs:138` that lengthens what is
open. What the pass reads of a block is a record (`ListedBlock`); `Documents` is a
constant, so that the proofs hold for any sequence of blocks that lie in order.
**ListDocument** says which blocks of an editable parse come to the pass as items, from
MarkdownParse, and gives MCListRanges its documents.

**Utf16Map** is `build`, one action for a newline and one for another
character, and then any number of lookups, which answer at once or walk. A byte is one
of six classes. `AskBack` translates the last answer back, as
`semantic.rs:287-288` does with a cursor.

**TextScan** has the loops both scanners of characters are made of (skip a run, look for the
next). A text is a sequence of symbols; a symbol is a character, or a word whose letters
nothing tells apart.

**Lexer** is `tokenize`, one action per marker that starts a line and per token inside of it.
`MarkerEnds` lists the `try_...` functions in their order. `TextRun` is the arm for all that no other arm takes.

**InlineText** has escapes (`is_escaped`) and when a run of delimiters opens or closes;
**Autolinks** has the addresses, each scanner as the set of the places where it finds
something. **Inline** is `parse_spans`. Its state is the program's: `spans` and `claimed`; `hidden` is
`protected`, `formulas` is `math_ranges`, `stack` the openers of underlines or of emphasis, `held`
the emphasis that waits for the claims to be asked. `pass` is the scanner that runs, and
`After` the order of the calls. A scanner without a stack takes one step per span (`Scanner`); the
scanners with delimiters of their own take one per delimiter. `reject_crossing_plus` is
two passes (`Sweep`), the second over the mirrored text.

**SemanticTokens** goes on where `parse_spans` returns, if the option `Semantic` is set: `Annotate` makes the
mask and takes the colours out, `Protecting` is `protect_html` once more (`Markup`, an instance
of `Inline` with the mask for what is hidden), and then `Token` takes one `#` or `@` per step. A grapheme is one
symbol, or as many as a word has letters. **Preview** goes on from there: `Build` is
`build_clean_preview_from_doc` for a text that is one part, with the spans and the symbols of the preview by their
positions in UTF-16 units, and `TruncatedLength` and `TruncatedSpans` are `truncate_preview`. The three
modules are one machine, so that tokens and previews meet the spans the scanners really leave.

**ParserCalls** says what one call does to the snapshot. A text is a model value:
what matters is whether the snapshot holds the blocks of the text the edit was
made to. If it does not, the update may be right (through a full parse), wrong,
or panic on a slice inside a character. **ParserObject** is the promise of
`lib.rs:859` ("Thread-safe: uses a Mutex internally"): each call takes effect at
one instant. **Session** is the code: parse, lock, read, store, return, with the
poisoned lock, and a host of several threads that share one buffer.
`overtaken` is a history variable: it turns true when a call takes effect before
an older one that still has to.

The operators called *faults* in the modules stand next to the definition they
are a wrong version of: a dropped guard, a wrong bound. Each property is
violated when the fault replaces its neighbour.

## 3. Runs

| Run | Instance | Distinct states | Question |
|---|---|---|---|
| `BlockParser_Mixed` | all 4-line documents over each of 4 alphabets of 10 to 18 lines, both modes | 1.11 million | are the rules right together? |
| `BlockParser_Stop` | all 3-line documents over 13 lines that stop a paragraph | 16 thousand | does the parse end? |
| `BlockParser_Spaces` | 3-line documents over text, code, blank lines | (violated) | does code end in text? |
| `Incremental_Equal` | texts of up to 4 lines over 4 alphabets, any number of edits of one line | 10 thousand | does the result equal a full parse? |
| `Incremental_Joining` | the same, over 2 alphabets where it need not | 6 thousand | are offsets and dirty range right all the same? |
| `Incremental_Table` | over pipes, separators, blank lines | (violated) | does the result equal a full parse? |
| `Incremental_Item` | over items and formulas nested in them | (violated) | does the result equal a full parse? |
| `Session` | 2 threads, 3 calls, 3 texts | 95 thousand | is the shared parser atomic and right? |
| `ListRanges` | the blocks of all 5-line texts over 11 list lines | 366 thousand | are the ranges a tree? |
| `Inline` | all texts of 3 to 6 pieces over each of 15 alphabets, with tokens and previews | 955 thousand | are the spans right together, and what is made of them? |
| `Lexer` | all texts of 2 pieces over 23 pieces | (violated) | does the scan end? |
| `Utf16Map` | all texts of up to 4 characters of 5 kinds, every offset, both ways | 93 thousand | are the lookups exact? |

### Properties of the block parser

- `BlocksTile`: every line is in one block, except blank lines that grouped mode
  folds into the `Empty` before them.
- `NeverStalls`: each step consumes a line or ends an inner loop. `Terminates`
  says the same with time: `<>Done`.
- `ParagraphsSeparate`: two paragraphs touch only where the second starts with
  `$$` that closes no formula, or beside a table over the row limit. It holds the
  paragraph loop to the rules from the other side: it may not stop too early.
- `ContextsNest`: an item on the stack is in the quote of the one around it and
  right of it, by at most a marker and three columns.
- `BlocksStayInItem`: a formula or tag opened on a marker line ends with the item.
- `CodeEndsInText`: indented code gives its trailing blank lines back, also where its first line would be a
  fence further left.

### Properties of the incremental engine

- `MatchesFullParse`: the blocks are those of a full parse of the text.
- `SnapshotDescribesText`: blocks lie end to end over the text with the right
  offsets in bytes, units and lines, after any number of edits; this also covers
  the type of the state.
- `DirtyRangeCovers` (action property): outside the reported range, the old
  blocks stand as they were, only moved.

### Properties of the parser object

- `LockProtects`: what a call read under the lock is what is there when it stores.
- `IsAtomic`: Session implements ParserObject, with the calls as their callers
  see them as the refinement mapping (`Call`).
- `RightInOrder`: while no call overtakes an older one, every answer is right and
  nothing panics. What overtaking itself leaves behind (`lib.rs:919`) no property forbids, since the code does
  not order the calls: `IsAtomic` lets the later one take effect first.
- `CallsReturn` (liveness): every call returns, also when another one panicked.

### Properties of list item ranges

They are what `docs/compatibility.md:43-56` says of the query.

- `RangesNest`: two items share lines only if one holds the other whole, and a
  reported parent is the innermost item around its child.
- `SiblingRuns`: items that adjoin, with nothing but blank lines between them, are in
  one group exactly if they share parent, column and kind of marker.
- `EnvelopesFit`: a range ends with a block, never with blank lines, and no sooner
  than at the first block that is not indented under the item.

### Properties of the UTF-16 map

- `LookupsExact`: `byte_to_utf16` is the number of units of the characters that start
  before the byte; `utf16_to_byte` is the first boundary with so many units before it.
  Past the end, the former gives the length. So does the latter, except that the path
  for ASCII returns the offset as it came: there the property is about the answer as the caller
  that may ask past the end clamps it (`incremental.rs:289`).
- `RoundTrip`: a byte offset comes back if a character starts there; a unit comes back unless
  it is the second half of a surrogate pair, which is how `semantic_completion` refuses such
  a cursor.
- `WalkStaysInLine` (action property): no lookup walks across a newline, the `O(line_len)` of
  the comments.

### Properties of the inline parser

- `ClaimsDisjoint`: two claims are apart, unless one is a formula's. Every scanner asks before it
  claims, but for inline code, which runs first, and formulas, which drop the
  claims inside of them and keep those that reach out.
- `EmphasisNests`: two spans of emphasis are apart or nested, among those held back
  and those of the result, however the runs are consumed.
- `FormulaOpaque`: no span is inside of a formula (`docs/compatibility.md:70-71`).
- `PlusVisible`: no underline has its signs in code, a comment, an address or a formula
  (`docs/compatibility.md:65-66`).
- `CrossingStaysLiteral` (action property): the last step drops exactly the spans that cross an
  underline and the underlines that cross a span. The code decides this with two sorted
  sweeps that keep the ends they have passed.
- `Terminates` (liveness): `parse_spans`, `annotate_range` and the preview return. Every scanner moves its cursor.
- `TypeOK`: spans and cursors are in the text.

### Properties of tokens and previews

- `TokensNest`: a tag, a mention or a colour is apart from every other span, or in the content of
  one of formatting (`docs/compatibility.md:174-176`). Tokens are not claimed, so this rests on the mask alone.
- `ColorsAreWhole`: no colour is the start of a longer name ("`#fff-launch` is a tag, not a color prefix",
  `docs/compatibility.md:173`), by whichever of the two grammars it was found.
- `LiteralsShown`: no marker is stripped from code, from a formula, or from a tag, a mention or a colour; a colour gives up its
  own `#` (`inline.rs:1518-1525`), and nothing else. The exceptions are a span that crosses a formula, and a link in
  whose label a formula opens that closes in the address (section 6).
- `PreviewFits`: at every limit the cut text fits, spans are not empty and lie in it, and a formula is there as a whole or
  not at all. A preview that is not cut keeps its spans unchecked, so these have to lie in its text by the way they are moved.

### What the violated runs show

1. **`Spaces`.** The comment at `parser.rs:1631` says an indented code line "is not
   blank", but line 1643 accepts five or more spaces. Such a line then
   counts as code, is not dropped from the end of the block, and the block ends in
   a blank line. `CodeEndsInText` holds in `Mixed`, whose blank lines are at
   most four columns wide.
2. **`Table`.** Turning a separator into a header can make a table of it and the
   lines behind. The old dirty blocks are not tables, so there is no full parse, and rows
   behind the dirty blocks stay a block of their own.
3. **`Item`.** Making a paragraph a list item turns `$$..$$` in an item nested far
   below into math. `needs_full_reparse` looks at distant blocks that are
   math already, not at those that become math.

4. **Lexer.** `tokenize` does not return for a text with a lone `=` inside a line, or a `<` that
   starts no tag. The text-run arm at `lexer.rs:530` takes no such character, so it makes an empty run and
   the loop goes round. `lexer.rs:525` says that `<` "falls through to the text-run arm".
   Nothing in the crate calls `tokenize`, which is why no parse shows it.

2 and 3 are at odds with `docs/compatibility.md:181` ("Incremental results must equal
a full parse"). The same cause shows in more ways (indenting a paragraph joins
it with code behind a blank line; an underline typed in a quote; a `$$` far from
its closing line), which need no runs of their own. `Equal` checks alphabets where the promise
holds. Two of its four are of calm lines (`Calm` in Incremental), where it holds for
texts of any size (`CalmTextsMatch`, section 4).

### Bounds, and why they are enough

- *Documents of four lines*: a rule looks at its line, the one before and the one
  after, or at a first, an inner and a closing line. Four lines hold such a
  block and its neighbour. Every block also meets the end of the document.
- *Alphabets*: rules interact when one's first line is another's inner or last
  line. Each alphabet collects the lines of rules that do; the product of all
  lines would be out of reach.
- `MaxListIndent = 4` (32 in the code): the alphabets have a marker inside the
  limit and one past it, behind the six columns where it might be a nested one (section 5). `MaxTableRows = 1` (500): four lines hold a table over the limit.
- *At most one line replaced by at most one* (`MaxReplaced`, `MaxInserted`), in texts of at
  most four (`MaxLines`). Longer replacements are not checked. Sequences of edits
  are unbounded, so that stale state has all the time it needs.
- `VIEW` leaves `dirty` out of the fingerprint. No step and no guard reads it;
  `DirtyRangeCovers` reads it in the step that sets it.
- *Five lines in ListRanges*: three items nested, a sibling or a body for one of them, and what
  ends it; the columns are equal, one apart and past the content. The proofs have no bound.
- *Four characters in Utf16Map*: a walk of two characters of several bytes behind a line
  start, and something behind its target. The proofs have no bound.
- *Pieces of Inline*: an alphabet holds the delimiters of the scanners that share a hazard (emphasis with its
  flanks, formulas among claims, links with labels and addresses, tags over underlines, ...). Opener,
  closer and the same of another span are four pieces; the fifth is a flank. A piece is a delimiter,
  or an address that takes one of the scanners to its end. Four runs of one or two asterisks with
  letters between are the shortest text in which an opener that is left on the stack is closed later, across another span.
  A formula that opens in a label and closes in the address takes six pieces, `[$](a$)` or `[[$](a$)`; `Labelled` has these.
- *Tokens and limits*: the alphabets of tokens have a colour, a word that is none, a separator and a boundary, around
  formatting, code, a comment, a tag, a formula and a symbol of two units. `PreviewFits` tries every limit up to the
  length of the preview. The option is on in the run: without it the machine is that of `Inline` with the preview behind it.
- *Two threads, three calls*: overtaking needs two calls, and a third to see
  what they left. The proofs have no such bound.

`CHECK_DEADLOCK FALSE` stands where the system stops: the parse of one document
ends, the pass over one document too, the preview is built and `tokenize` returns, and the host makes `MaxCalls` calls.

### Fairness

`BlockParser`, `Inline` with the preview behind it, and `Lexer` have weak fairness of their next-state relation: they are sequential code, and run until
they return. `Session` has `WF_vars(Runs(c))` for each thread: a thread inside a call keeps
running, but nothing makes it call. Weak fairness does not promise a thread the
lock against others that take it again and again, and neither does
`std::sync::Mutex`. `CallsReturn` holds because a run makes at most `MaxCalls` calls.

## 4. Proofs

No proof bounds the documents, the list limit, the row limit, the threads, the texts or
the calls. The assumptions are the named `ASSUME`s of the modules: limits are naturals,
documents are sequences of lines and texts of characters, `None` is neither a caller nor a snapshot, the blocks a
pass over list items gets lie in order, with an item's content right of its marker, and the
sources of the UTF-16 map are UTF-8.

**BlockParserProofs** (`TypeCorrect`, `Progress`, `Tiling`, `Nesting`, `ItemsKeepTheirBlocks`, `ParagraphsAreWhole`,
`CodeGivesBlanksBack`, `PathsStayEmpty`). The inductive
invariant is `IInv`: types, and that `from = i` exactly when no inner loop runs
(`Sound`). The argument has four layers.

1. *Ends*: `FenceEndBounds`, `HtmlEndBounds`, `ContainerMathBounds`, ... say that a block
   of one step ends past its first line and inside the document, from lemmas about
   `Min`, `Max` and `FirstOf`. For blocks in containers this goes through the pieces the
   container cuts the lines into (`PiecesShape`).
2. *Shapes*: `StepShape` says that a step emits one block from `from` on, folds
   a blank line, or takes a line into an inner loop. The case of the paragraph is
   `ParagraphTakesItsLine`: each test that ends a paragraph on its own
   first line is the test of an earlier rule. The case that is not
   immediate is HTML: a tag at the margin that is also inside a list container
   (`HtmlIsSeenInside`).
3. *Blocks*: `StepMakes` says which rule a block comes from and, for the kinds the properties speak of
   (`Delicate`), where its end was found (`MadeByRule`). What a property says of two or more blocks is
   split into what each block keeps to by itself.
4. *Theorems*: the first four follow from the shape alone, the others from the blocks.
   `BlocksStayInItem` needs that a container ends before the first line outside of it, for each of the
   delimiters that may be missing. `ParagraphsSeparate` is not inductive: it speaks of two paragraphs, and the second is
   made when the first is long done. `StopSeen` remembers, at the end of the last paragraph, the line that stopped it.
   `CodeEndsInText` has the hypothesis `ShortBlanks`, that a blank line has at most four spaces: the `Spaces` run
   shows that it fails without. `PathsStayEmpty` is about the model's own scope (section 5): contents of items start at three columns
   past the limit at most, and a nested marker at three columns behind these at most.

The type of `i` is not inductive without `Sound`: closing an inner loop emits from
`from`, and the block would be empty if `from` could be `i`.

**IncrementalProofs** (`SnapshotStaysTrue`, `OnlyDirtyChanges`, `CalmTextsMatch`). The invariant `EngineInv` says that the snapshot is
`Good` for the text: its blocks are laid out end to end over the lines (`Chain`), each with the offsets its lines have in the
text and with their content (`Laid`). A call then has four parts, each with its lemmas.

1. *Offsets* are sums over the lines (`OffsetIsSum`): they grow with the line (`OffsetIncreases`), and
   where two texts share lines they grow alike (`OffsetsParallel`). So moving a block by the difference of one offset moves
   all of its offsets right (`MovedNode`, `MovedLaid`), in bytes, units and lines at once.
2. *Where the edit is*: the dirty range comes from counting the blocks before and behind the edit (`EditLocated`), and
   covers the lines that differ (`EditChanges`).
3. *The slice*: the old end of the range, moved, is the offset of a line in the new text (`RangeEnd`); what is parsed is the part of
   the text between (`SliceIsPart`), and the parse of a text is laid out over it (`ParseCuts`, `FullParseLaid`).
4. *The splice*: prefix, middle and suffix join into one chain (`ChainConcat`, `ReparseOutcome`).

`ParseBlocks` and `Offset` are recursive functions. Their values are not computed by induction over data but by `UpTo`, a
set of naturals below a bound, and `RunExists`, which shows that a finite part of the function exists.

`CalmTextsMatch` says that the result equals a full parse, after any edits, if the host writes *calm* lines only: prose, headings,
rules, list items and quotes, without the lines that reach others (fences, tags, formulas, table separators, indented
code) and without two that may join the paragraph above and mean something else elsewhere (a `===` underline, a lone `>`). The hypothesis is on
the constant `alphabet`; `CalmAssumption` of MCIncremental has TLC check that two of the alphabets
of `Equal` meet it. `CalmInv` adds to `EngineInv` that each block is `Ruled`:

1. *Rules are local*: for a calm line each test of the parser asks about that line only (`CalmRule`, `CalmEnds`). So of a block
   the kind follows from its first and last line, its lines are `Joined`, and the line behind it
   does not join (`Parted`); this is `Ruled`, and a parse makes such blocks (`CalmParse`, `FullParseRuled`).
2. *One cut*: two cuts of a text into `Ruled` blocks are the same (`OneCut`), so a text cut so is cut as a full parse does (`RuledIsParse`).
3. *The splice keeps it*: a line on each side of the edit is in the dirty range unless the text ends there (`Located`), so the
   blocks kept still see the neighbour they had (`RuledMoved`, `StillRuled`), those in the middle are from a parse
   (`MiddleRuled`), and the joints are old ones (`ConcatRuled`).

The third step is where the block of context that the engine takes on each side of an edit is needed. The lines of
`Table` and `Item` reach past it.

**SessionProofs** (`TypeCorrect`, `Exclusion`, `Atomicity`, `AnswersRight`).
`Atomicity` maps each step to one of ParserObject or to a stutter; it needs
`LockProtects` (the snapshot used at the store is the one there), and `NeedsOK` (only
`parse` answers without the lock). `AnswersRight` needs the invariant `Chain`: the calls that have
yet to take effect form a chain by ticket, in which the oldest fits the snapshot
(`OldestFits`), each starts from the text its predecessor leaves (`Linked`), and the
youngest leaves the buffer (`YoungestEnds`); with none left, the snapshot fits the
buffer (`RestFits`). `RightInOrder` alone says nothing of the calls under way, so
it is not inductive.

**ListRangesProofs** (`TypeCorrect`, `Nesting`, `Siblings`, `Envelopes`). The invariant comes in two
parts. `Tree` says that the stack is a path of the tree with the innermost item on
top, that an item which holds another is open as long as that one is, and that what is
closed ends before what is to come; `Nesting` needs no more. `Runs` adds what was
passed: items that are closed met a block that closes them (`Closed`), the content columns on the
stack are those of the blocks (`Contents`), and what adjoined is in the same group. The lemmas
`OldGrow` and `NewFits` say what one block does to the items; each part of the
invariant follows from them.

**Utf16MapProofs** (`TypeCorrect`, `Exact`, `ThereAndBack`, `ShortWalks`). The lemmas on counting
(`CountStep`: a character adds its units and has no boundary inside; `CountIncreases`: boundaries differ
in their units) hold for any UTF-8 text, by cardinalities. The invariant then says that
build and walk stand on a boundary whose units they have counted (`Here`), that the marks are right and
complete (`MarksRight`, `MarksAll`), and that a walk has passed only what is before its target, with no line
start between (`WalkRight`). `LookupsExact` speaks of answers only, so it is not
inductive.

**LexerProofs** (`TypesHold`, `TokensAreInOrder`, `NothingIsLost`; `ScanMovesOn`, `ScanIsBounded`). The invariant `Sound` says of the tokens up
to a position that they are in order, end before it, and cover all but blanks and the surplus of
long runs. Each action appends tokens that lie between the old and the new position
(`AppendOne`, `AppendTwo`), so the first three theorems follow from where each token ends.

The other two say how far finding 4 of section 3 reaches. A step increases `Progress` (the position, and whether the
scan is at a line's start or inside the line), or the scan is `Stuck` at a `=` or `<` that no arm takes and the step changes
nothing: each other arm consumes a character. `Progress` stays between 0 and three times the
length of the text plus five, so no text without such a character keeps `tokenize` running. The theorem is about
`Next` under the invariant, because `[][A]_vars` cannot tell a step that stands still from a stutter. `Terminates` is still TLC's,
because it needs fairness.

**InlineProofs** (`TypesHold`, `ClaimsStayApart`, `EmphasisStaysNested`, `FormulasStayOpaque`,
`PlusStaysVisible`, `CrossingIsFound`; `TokensAlwaysNest`, `ColorsAreAlwaysWhole`, `LiteralsAreShown`,
`PreviewsFit`; `ParserMovesOn`, `ParserIsBounded`). All
scanners without a stack make the same kind of step, `Finding`: a span that fits the text is taken unless
it overlaps a claim (`FindingSteps`, from one lemma per scanner about the places it finds). The invariants
are then about a dozen actions:

- `PlacesOK` and `SpansOK` are the types, with what a place needs to be one of the text;
- `ClaimsOK` says that claims are apart *up to the formulas*, which needs that no
  scanner claims between the two passes that compute and insert them;
- `EmphasisOK` says that the openers on the stack are in order, and that every closed span lies between two
  neighbours of the stack (`Shape`). `EmphasisNests` speaks of closed spans only and is not inductive:
  a closed span could hold an opener that a later run closes;
- `FormulasOK` says that a formula is hidden as a whole while underlines are looked for, and claimed
  from then on, which refuses what later scanners find inside of it;
- `ApartOK` and `VisibleOK` carry `PlusVisible`. Opaque spans come before underlines, and are hidden while these are matched
  (`Hiding`), so no sign of one is seen. What comes later is not opaque (`NewSpans`), and a formula swallows or leaves whole what
  it meets, because delimiters of earlier scanners keep their distance from each other;
- `SweepOK` says of a sweep that what is rejected so far are the spans that cross one that is passed.

These theorems are about `Spec` of Inline, `parse_spans` alone. The run checks the same properties also through the steps
of `SemanticTokens`, which add tokens to `spans` and claim nothing.

`ParserMovesOn` orders the states of `parse_spans` by the scanner (`Turn`), the place in the text, the asterisks of
a run that are used up, and the starts that a sweep has passed, in this order. Every step moves on in the first of these that it
changes. It needs, scanner by scanner, that what is found is behind the place where the search began, and `SweepOK` for
the sweeps, which have no place. `ParserIsBounded` says that each of the four is bounded by the text.

The four theorems from `TokensAlwaysNest` to `PreviewsFit` are about `PreviewSpec`, `parse_spans` with `annotate_range` and the preview behind it. Until
`annotate_range` begins, `ParseInv` holds, the invariants above with four more:

- `FramedOK`: formatting has a delimiter on both sides, an underline two plus signs, and a colour none;
- `DisjointOK`: spans that claim are apart, but for a formula and what came before it; emphasis is apart from code,
  links, formulas and colours;
- `ReservedOK`: a formula starts outside of what is opaque and outside of delimiters (`Reserved`), because these are
  hidden when its opener is looked for (`HidingReserved`), and whatever it contains is dropped;
- `NoCrossing`: behind the two sweeps nothing crosses an underline.

`Settled` is what follows of the spans that `parse_spans` returns (`ParseSettles`), and depends on nothing but them and
the text. From then on `TokenInv` holds: the spans that were returned, with the colours set aside, stay settled (`Kept`), what
they mask stays masked, and each token that is found is outside of the mask and before the place of the scan (`FoundOK`).
`TokensNest` follows for a token from the mask (`OutsideOfMask`), and for a colour that is given back from `ColorsNest`: it
was claimed, and if an underline meets it, it lies between the signs. `ColorsAreWhole` is about where a
name ends (`NameEndFacts`, `TagIsWhole`). `LiteralsShown` puts both together (`ParsedShows`): between spans of `parse_spans`
from `Settled`, where a formula that starts in the clear and contains no span straddles what it meets (`MixedShown`);
for a token because it is apart from delimiters (`TokenShown`, for a colour with `ColorsNest`).

`PreviewsFit` is about two loops. `position_map` is a recursive function, which exists because its finite parts do
(`MapExists`); each of its values is 0 or the end of a symbol that is kept (`PositionsAreEnds`), so a span that is not empty
ends with a symbol (`Shapely`). The cut is the end of a symbol too, or 0, and the rest follows from the order of numbers
(`ShapelyFits`).

Every safety invariant and action property of the passing runs is so stated by a theorem. Only model-checked
are the liveness properties (`Terminates`, `CallsReturn`), which need fairness, and `MatchesFullParse` for lines
that are not calm: it fails in the runs `Table` and `Item`, and holds over the other two alphabets of `Equal` (fences and
formulas, quotes in items) for reasons particular to these.

## 5. What is left out

- Tabs, a second quote level and a second marker on a line. The `> ` prefix is written at column 0.
- The nested container path (`ContainerStart::nested`, `parser.rs:1023-1037`). With one marker on a line it is empty, except
  where a marker past the list limit starts no item but stands within three columns of the content of one. That takes
  a marker in the six columns past the limit; `StaysUnnested` says that a line has none there. The
  instances assume it (`LinesAreModelled`), and `PathsStayEmpty` proves that the path is then empty in every reachable state.
- The `pre`/`script` family of HTML blocks, processing instructions and CDATA: like
  comments, they end through a delimiter.
- The column limit of tables; the payload of blocks (levels, languages, cells, item
  texts), which is a function of their lines.
- In the block parser, inline spans: blocks do not depend on them.
- In the inline parser: which part of a block is its text (`inline.rs:9-77`), table cells
  (`inline.rs:465-499`), the payloads of spans (addresses, `normalize_hex`), the conversion of offsets in `make_span`,
  which is `Utf16Map`'s matter, and the order in which the spans are returned. The `exhausted` flags of `protect_html`
  only save a search, and the early return of `reject_crossing_plus` a sweep that would reject nothing.
- Of the semantic tokens: the blocks and cells they are looked for in (`semantic.rs:15-56`), the completion at a cursor, which
  parses a probe of its own, and graphemes of several characters.
- Of previews: which blocks make the parts and where the approximate limit ends them (`lib.rs:1199-1265`), texts of several parts, whose
  spans are computed part by part, and the statistics, which are sums over blocks.
- In the lexer: levels, numbers and colours of tokens, which are copied.
- Overflow of `u32` offsets: the code's offsets are bounded by the text's length.
- `right` in `ParserCalls` means computed from the blocks of the text that was
  edited. Whether that equals a full parse is the question of `Incremental`.
- Of list item ranges: the task state and the offsets of the marker, which are copied.
- Of the UTF-16 map: text that is not UTF-8 (`&str` excludes it), and the queries for lines
  that only tests call.
- `toggle_checkbox`: a pure edit of one line. Whether a box is checked is below the lines of MarkdownLines, and
  no rule of the parser tests it.
- The other components of section 1 without a module: they copy and convert records.

## 6. Observations

Seen while modelling, and worth knowing; the properties are stated so that they hold beside them:

- A formula may close inside of a code span or a link (``$x `a$` ``), and the two spans then cross:
  `MathOpens` asks what is hidden, `MathCloses` does not. The comment at `inline.rs:108` calls inline code
  "immune to everything". `ClaimsDisjoint` leaves this case out.
- A run of backticks with no equal ends the scan for inline code, so that later code spans of the
  block are text. A bracket that does not balance does the same to links.
- Emphasis around a code span or a link is dropped: `parse_spans` asks whether it overlaps a claim.
- An underline that crosses another span takes that one with it.
- A `!` before a link makes it an image for `inline.rs:351` even if it is escaped, and its label then exposes no underline;
  `resources.rs:27-34` counts the backslashes. `docs/compatibility.md:69` says that link labels expose the new syntax.
- Where a formula crosses a span of another kind, the preview strips that span's marker out of the formula, which is
  otherwise shown as written. So it does where a formula opens in the label of a link and closes in the address, as in
  `[$a](a$)`: `](` is gone from the formula, although `docs/compatibility.md:146` says that previews "preserve readable math
  delimiters and opaque expressions".
- `try_code_fence` of the lexer counts backticks in a `u8`: a run of 256 to 258 is no fence in a
  release build, and overflows in a debug build.

## 7. Plan

1. Done: the block parser, the incremental engine, the inline parser with tokens and previews, the lexer, the parser
   object, the ranges of list items and the UTF-16 map, each with its proofs.
2. `Incremental` with the map's rounding: edits inside lines, at offsets where bytes and units
   part, and longer replacements.
3. Previews of several parts, and the completion at a cursor.
4. More proofs: that each step of `annotate_range` and of the preview moves on, as `ParserMovesOn` says of
   `parse_spans`.
