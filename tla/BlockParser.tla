---------------------------- MODULE BlockParser ----------------------------
(***************************************************************************)
(* The block parser of src/parser.rs at work: the loop of                  *)
(* parse_with_options over the lines of one document, one action per rule. *)
(*                                                                         *)
(* The hard part is that the rules only fit together as a whole: the       *)
(* paragraph loop must stop exactly at lines some other rule then claims,  *)
(* or the loop would stay on the line for ever; and every rule must hand   *)
(* over the index at which the next one starts, or lines would be lost or  *)
(* belong to two blocks.                                                   *)
(***************************************************************************)
EXTENDS MarkdownParse

CONSTANT Documents  \* the documents that may be parsed, sequences of Lines

ASSUME DocumentsAssumption == Documents \subseteq Seq(Line)

VARIABLES
  lines,     \* the document
  mode,      \* ParseMode
  i,         \* index of the next line
  blocks,    \* blocks emitted so far
  contexts,  \* list_contexts, the stack of open list items
  open,      \* "quote" or "list" while that inner loop runs, else "none"
  from       \* the line where the block under construction starts

vars == <<lines, mode, i, blocks, contexts, open, from>>

state == [i |-> i, blocks |-> blocks, contexts |-> contexts, open |-> open, from |-> from]

Become(s) ==
  /\ i' = s.i /\ blocks' = s.blocks /\ contexts' = s.contexts
  /\ open' = s.open /\ from' = s.from
  /\ UNCHANGED <<lines, mode>>

Done == i = Len(lines) /\ open = "none"

Init ==
  /\ lines \in Documents
  /\ mode \in Modes
  /\ i = ParserStart.i /\ blocks = ParserStart.blocks /\ contexts = ParserStart.contexts
  /\ open = ParserStart.open /\ from = ParserStart.from

\* The rule claims the next line and does what it does.
Claim(rule) ==
  /\ open = "none" /\ i < Len(lines)
  /\ BlockRule(lines, state) = rule
  /\ Become(Take(lines, mode, state, rule))

Empty         == Claim("empty")
ImageMarker   == Claim("image")
ContainedHtml == Claim("containerHtml")
ContainedMath == Claim("containerMath")
IndentedCode  == Claim("indentedCode")
RawHtml       == Claim("html")
DisplayMath   == Claim("dollarMath")
Fence         == Claim("fence")
Table         == Claim("table")
Rule          == Claim("rule")
Heading       == Claim("heading")
QuoteStart    == Claim("quote")
Checkbox      == Claim("checkbox")
List          == Claim("list")
Footnote      == Claim("footnote")
Paragraph     == Claim("paragraph")

QuoteLine == open = "quote" /\ ~ QuoteEnds(lines, state) /\ Become(ExtendOpen(lines, state))
QuoteEnd  == open = "quote" /\ QuoteEnds(lines, state)   /\ Become(CloseQuote(lines, state))
ListLine  == open = "list"  /\ ~ ListEnds(lines, state)  /\ Become(ExtendOpen(lines, state))
ListEnd   == open = "list"  /\ ListEnds(lines, state)    /\ Become(CloseList(lines, state))

Next ==
  \/ Empty \/ ImageMarker \/ ContainedHtml \/ ContainedMath \/ IndentedCode \/ RawHtml
  \/ DisplayMath \/ Fence \/ Table \/ Rule \/ Heading \/ QuoteStart \/ Checkbox \/ List
  \/ Footnote \/ Paragraph
  \/ QuoteLine \/ QuoteEnd \/ ListLine \/ ListEnd

\* The loop is sequential code and runs until it returns.
Spec == Init /\ [][Next]_vars /\ WF_vars(Next)

-----------------------------------------------------------------------------
TypeOK ==
  /\ lines \in Documents
  /\ mode \in Modes
  /\ i \in 0 .. Len(lines)
  /\ blocks \in Seq(Block)
  /\ contexts \in Seq(Context)
  /\ open \in {"none", "quote", "list"}
  /\ from \in 0 .. i

(* Every line belongs to one block and no line is lost: each block takes   *)
(* at least a line and starts where the block before it ended, up to the   *)
(* block under construction.  Only the blank lines that grouped mode folds *)
(* into the Empty before them are in no block (make_block and every        *)
(* assignment of i in parse_with_options).                                 *)
Gap(a, b) == \A k \in a .. b - 1 : mode = "Grouped" /\ IsBlank(At(lines, k))

BlockStart(n) == IF n > Len(blocks) THEN from ELSE blocks[n].first

BlocksTile ==
  /\ blocks = <<>> => from = 0
  /\ blocks # <<>> => blocks[1].first = 0
  /\ \A n \in 1 .. Len(blocks) :
       /\ blocks[n].first < blocks[n].last
       /\ blocks[n].last <= BlockStart(n + 1)
       /\ Gap(blocks[n].last, BlockStart(n + 1))
       /\ blocks[n].last < BlockStart(n + 1) => blocks[n].kind = "Empty"
  /\ open = "none" <=> from = i

(* The stack of list items nests: an item lies in the same quote as the    *)
(* items around it, its content is right of theirs but no more than a      *)
(* marker and three columns further, and no marker is past the column      *)
(* limit, which bounds the depth (update_list_context).                    *)
ContextsNest ==
  \A n \in 1 .. Len(contexts) :
    /\ contexts[n].indent <= MaxListIndent + 3
    /\ n > 1 => /\ contexts[n].quote = contexts[n - 1].quote
                /\ contexts[n].indent > contexts[n - 1].indent
                /\ contexts[n].indent <= contexts[n - 1].indent + 6

(* An indented code block does not end in a blank line: it takes them      *)
(* while more code may follow, and gives the trailing ones back, to become *)
(* Empty blocks of their own.                                              *)
CodeEndsInText ==
  \A n \in 1 .. Len(blocks) :
    blocks[n].kind = "CodeBlock" /\ StartsIndentedCode(At(lines, blocks[n].first))
      => ~ IsBlank(At(lines, blocks[n].last - 1))

(* Two paragraphs never touch, because the first would have taken the      *)
(* lines of the second: what was split off starts with "$$" that closes no *)
(* formula, or follows a table over the row limit.                         *)
ParagraphsSeparate ==
  \A n \in 1 .. Len(blocks) - 1 :
    ( /\ blocks[n].kind = "Paragraph" /\ blocks[n + 1].kind = "Paragraph"
      /\ blocks[n].last = blocks[n + 1].first )
      => \/ StartsWithDollars(At(lines, blocks[n + 1].first))
         \/ StartsTable(lines, blocks[n].first)
         \/ StartsTable(lines, blocks[n + 1].first)

(* A formula or a tag opened on a list item's own line ends with the item: *)
(* every later line of the block is blank or indented to the item's        *)
(* content, in the same quote, so that no sibling item is swallowed        *)
(* (container_line).                                                       *)
InsideItem(l, item) ==
  /\ Depth(l) = Depth(item)
  /\ IsBlank(Content(l)) \/ Content(l).sp >= MarkerContext(item).indent

BlocksStayInItem ==
  \A n \in 1 .. Len(blocks) :
    blocks[n].kind \in {"Math", "RawHtml"} /\ HasMarker(Content(At(lines, blocks[n].first)))
      => \A k \in blocks[n].first + 1 .. blocks[n].last - 1 :
           InsideItem(At(lines, k), At(lines, blocks[n].first))

(* The loop never stalls: the next step consumes a line, or ends the inner *)
(* loop of a block.  It is the rules together that ensure it: a line that  *)
(* ends a paragraph must be claimed by an earlier rule when it comes first *)
(* (the paragraph loop of parse_with_options has no other way on).         *)
NeverStalls ==
  ~ Done =>
    LET next == Step(lines, mode, state)
    IN  next.i > i \/ (open # "none" /\ next.open = "none")

(* The parser returns.                                                     *)
Terminates == <>Done
=============================================================================
