------------------------- MODULE MarkdownContainers -------------------------
(***************************************************************************)
(* The list and quote containers of src/parser.rs: the stack of open list  *)
(* items (list_contexts), and what a line holds once the prefix of its     *)
(* container is stripped.                                                  *)
(*                                                                         *)
(* Rust's Option is a set of at most one element: {} is None.  With one    *)
(* marker and one quote level per line the nested container path is empty, *)
(* but for a marker past the limit in an item that is out there itself.    *)
(***************************************************************************)
EXTENDS MarkdownLines, Sequences, FiniteSetsExt

\* MathListContext, with the quote depth ListContainer keeps beside it.
ListKinds == {"bullet", "ordered", "checkbox"}
Context == [quote : {0, 1}, indent : Nat, kind : ListKinds]

ListKind(mark) ==
  CASE mark = "check"           -> "checkbox"
    [] mark \in {"one", "paren"} -> "ordered"
    [] OTHER                    -> "bullet"

\* The context a marker line opens; column 0 is where its quote prefix ends.
MarkerContext(l) ==
  [quote  |-> Depth(l),
   indent |-> Content(l).sp + MarkWidth(l.mark),
   kind   |-> ListKind(l.mark)]

\* contexts.last()
Innermost(contexts) ==
  IF contexts = <<>> THEN {} ELSE {contexts[Len(contexts)]}

(***************************************************************************)
(* update_list_context: leave the items the line is not inside of, enter   *)
(* the one it starts.  A blank line changes nothing.                       *)
(***************************************************************************)
Holds(context, l) == context.quote = Depth(l) /\ Content(l).sp >= context.indent

\* Fault: an item does not leave the items it is not inside of.
StillOpenAll(l, contexts) == contexts

StillOpen(l, contexts) ==
  SubSeq(contexts, 1, Max({0} \cup { k \in 1..Len(contexts) : Holds(contexts[k], l) }))

UpdateContext(l, contexts) ==
  LET open  == StillOpen(l, contexts)
      inner == Innermost(open)
      tooDeep == IF inner = {} THEN Content(l).sp > 3
                 ELSE \E c \in inner : Content(l).sp - c.indent > 3
  IN  IF IsBlank(Content(l)) THEN contexts
      ELSE IF HasMarker(Content(l)) /\ ~ tooDeep THEN Append(open, MarkerContext(l))
      ELSE open

(***************************************************************************)
(* start_after_container: what the line holds inside its containers, if it *)
(* is inside any.  "active" is Innermost(contexts) or {}.                  *)
(***************************************************************************)
Start(piece, depth, list, marked) ==
  [piece |-> piece, depth |-> depth, list |-> list, marked |-> marked]

FitsContainer(l, active) ==
  \/ Content(l).sp <= 3
  \/ \E c \in active :
       /\ c.quote = Depth(l)
       /\ \/ c = MarkerContext(l)
          \/ Content(l).sp >= c.indent /\ Content(l).sp - c.indent <= 3

StartCandidates(l, active) ==
  LET same == { c \in active : c.quote = Depth(l) }
  IN  IF HasMarker(Content(l))
      THEN { s \in { Start(AfterMarker(Content(l)), Depth(l), {MarkerContext(l)}, TRUE) } :
               FitsContainer(l, active) }
      ELSE IF same # {}
      THEN { Start(Dedent(Content(l), c.indent), Depth(l), {c}, FALSE) :
               c \in { d \in same : Content(l).sp >= d.indent } }
      ELSE IF l.quote THEN { Start(Content(l), 1, {}, FALSE) }
      ELSE {}

StartAfterContainer(l, active) == { s \in StartCandidates(l, active) : s.piece.sp <= 3 }

\* Is the nested path empty behind this line, whatever items are open?  A marker past the limit
\* starts no item, but at most three columns into one start_after_container takes it as a nested
\* one, which the model does not.  Contents of items start at MaxListIndent + 3 at most.
StaysUnnested(l) ==
  Content(l).mark # "none" => Content(l).sp \notin MaxListIndent + 1 .. MaxListIndent + 6

HtmlStartAfterContainer(l, active) ==
  { s \in StartAfterContainer(l, active) : StartsHtml(s.piece) }

MathStartAfterContainer(l, active) ==
  { s \in StartAfterContainer(l, active) : StartsMath(s.piece) }

HtmlInterruptsContainer(l, active) ==
  \E s \in HtmlStartAfterContainer(l, active) : HtmlEndsParagraph(s.piece) \/ s.marked

QuotedMathStart(l) == { s \in MathStartAfterContainer(l, {}) : s.depth > 0 }

\* What incremental.rs looks for in edited and in code lines.
MayStartHtml(l) == StartsHtml(l) \/ HtmlStartAfterContainer(l, {}) # {}

MayStartMath(l) == StartsMath(l) \/ MathStartAfterContainer(l, {}) # {}

(***************************************************************************)
(* container_line: a line as the block opened by start sees it, or {} when *)
(* the line is outside the container.  A blank line never leaves a list.   *)
(***************************************************************************)
\* Fault: a line left of the item's content stays in it.
ContainerLineAnyIndent(l, first, start) ==
  LET inner == IF start.depth = 0 THEN l ELSE Content(l)
  IN  IF Depth(l) < start.depth THEN {}
      ELSE IF first THEN {start.piece}
      ELSE IF start.list = {} THEN {inner}
      ELSE { Dedent(inner, IF inner.sp >= c.indent THEN c.indent ELSE 0) : c \in start.list }

ContainerLine(l, first, start) ==
  LET inner == IF start.depth = 0 THEN l ELSE Content(l)
      blank == { x \in {inner} : IsBlank(inner) }
  IN  IF Depth(l) < start.depth THEN {}
      ELSE IF first THEN {start.piece}
      ELSE IF start.list = {} THEN {inner}
      ELSE UNION { IF inner.sp >= c.indent THEN {Dedent(inner, c.indent)} ELSE blank :
                     c \in start.list }
=============================================================================
