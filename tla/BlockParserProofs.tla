-------------------------- MODULE BlockParserProofs --------------------------
(***************************************************************************)
(* Proofs about BlockParser, for every document, mode and list limit.      *)
(***************************************************************************)
EXTENDS BlockParser, Bounds

(***************************************************************************)
(* FirstOf.                                                                *)
(***************************************************************************)
LEMMA FirstOfBounds ==
  ASSUME NEW A, NEW s \in Seq(A), NEW a \in Nat, a <= Len(s), NEW S \in SUBSET (a .. Len(s))
  PROVE  FirstOf(s, S) \in a .. Len(s)
<1> DEFINE T == {Len(s)} \cup S
<1>0. Len(s) \in a .. Len(s)
  OBVIOUS
<1>1. T \in SUBSET (a .. Len(s)) /\ T # {}
  BY <1>0
<1>2. T \in SUBSET Nat
  BY <1>1
<1>3. FirstOf(s, S) = Min(T)
  BY DEF FirstOf
<1> HIDE DEF T
<1>4. Min(T) \in T
  BY <1>1, <1>2, MinIsLeast
<1> QED BY <1>1, <1>3, <1>4

(***************************************************************************)
(* Where the blocks of one step end: past their first line and within the  *)
(* lines they are cut from.                                                *)
(***************************************************************************)
LEMMA FenceEndBounds ==
  ASSUME NEW A, NEW s \in Seq(A), NEW k \in 0 .. Len(s) - 1
  PROVE  FenceEnd(s, k) \in k + 1 .. Len(s)
BY FirstOfBounds, k + 1 \in Nat DEF FenceEnd

LEMMA TableEndBounds ==
  ASSUME NEW A, NEW s \in Seq(A), NEW k \in 0 .. Len(s) - 1
  PROVE  TableEnd(s, k) \in k + 1 .. Len(s)
BY FirstOfBounds, k + 1 \in Nat DEF TableEnd

LEMMA HtmlEndBounds ==
  ASSUME NEW A, NEW s \in Seq(A), NEW k \in 0 .. Len(s) - 1, NEW opener, ~ IsBlank(At(s, k))
  PROVE  HtmlEnd(s, k, opener) \in k + 1 .. Len(s)
<1> DEFINE S == { m \in k .. Len(s) - 1 : HtmlEndsAtBlank(opener) /\ IsBlank(At(s, m)) }
                \cup { m \in k + 1 .. Len(s) : HtmlCloses(opener, At(s, m - 1)) }
<1>1. S \in SUBSET (k + 1 .. Len(s))
  OBVIOUS
<1> HIDE DEF S
<1>2. FirstOf(s, S) \in k + 1 .. Len(s)
  BY <1>1, FirstOfBounds
<1> QED BY <1>2 DEF HtmlEnd, S

LEMMA IndentedCodeEndBounds ==
  ASSUME NEW A, NEW s \in Seq(A), NEW k \in 0 .. Len(s) - 1, StartsIndentedCode(At(s, k))
  PROVE  IndentedCodeEnd(s, k) \in k + 1 .. Len(s)
<1> DEFINE S   == { m \in k .. Len(s) - 1 : ~ StartsIndentedCode(At(s, m)) /\ ~ IsBlank(At(s, m)) }
           run == FirstOf(s, S)
           C   == { m \in k .. run - 1 : StartsIndentedCode(At(s, m)) }
<1>1. S \in SUBSET (k + 1 .. Len(s))
  OBVIOUS
<1>2. run \in k + 1 .. Len(s)
  <2> HIDE DEF S
  <2> QED BY <1>1, FirstOfBounds
<1>3. C \in SUBSET (0 .. Len(s)) /\ C # {} /\ C \in SUBSET (k .. run - 1)
  <2> HIDE DEF run
  <2> QED BY <1>2
<1>4. Max(C) \in k .. run - 1
  <2> HIDE DEF C
  <2>1. Len(s) \in Nat
    OBVIOUS
  <2>2. Max(C) \in C
    BY <1>3, <2>1, MaxIsGreatest
  <2> QED BY <1>3, <2>2
<1>5. IndentedCodeEnd(s, k) = 1 + Max(C)
  BY DEF IndentedCodeEnd
<1> HIDE DEF run, C
<1> QED BY <1>2, <1>4, <1>5

LEMMA DollarMathBounds ==
  ASSUME NEW A, NEW s \in Seq(A), NEW k \in 0 .. Len(s) - 1
  PROVE  DollarMath(s, k) \in SUBSET (k + 1 .. Len(s))
<1> DEFINE stops == { m \in k + 1 .. Len(s) - 1 :
                        IsBlank(At(s, m)) \/ (Bare(At(s, m)) /\ At(s, m).leaf = "dollars") }
<1>1. stops \in SUBSET (k + 1 .. Len(s) - 1)
  OBVIOUS
<1> HIDE DEF stops
<1>2. stops # {} => Min(stops) \in k + 1 .. Len(s) - 1
  BY <1>1, MinIsLeast, stops \in SUBSET Nat
<1>3. DollarMath(s, k) \in SUBSET ({k + 1} \cup { m \in Nat : stops # {} /\ m = Min(stops) + 1 })
  BY <1>2 DEF DollarMath, stops
<1> QED BY <1>2, <1>3

LEMMA ParagraphEndBounds ==
  ASSUME NEW A, NEW s \in Seq(A), NEW k \in 0 .. Len(s) - 1, NEW active
  PROVE  ParagraphEnd(s, k, active) \in k .. Len(s)
BY FirstOfBounds DEF ParagraphEnd

(***************************************************************************)
(* Blocks inside a container.                                              *)
(***************************************************************************)
\* What start_after_container can return for the line at k.
LEMMA StartDepth ==
  ASSUME NEW l, NEW active, NEW s \in StartAfterContainer(l, active)
  PROVE  s.depth = Depth(l) /\ (Depth(l) = 0 \/ Depth(l) = 1)
<1>1. s \in StartCandidates(l, active)
  BY DEF StartAfterContainer
<1>2. CASE HasMarker(Content(l))
  BY <1>1, <1>2 DEF StartCandidates, Start, Depth
<1>3. CASE ~ HasMarker(Content(l)) /\ { c \in active : c.quote = Depth(l) } # {}
  BY <1>1, <1>3 DEF StartCandidates, Start, Depth
<1>4. CASE ~ HasMarker(Content(l)) /\ { c \in active : c.quote = Depth(l) } = {}
  BY <1>1, <1>4 DEF StartCandidates, Start, Depth
<1> QED BY <1>2, <1>3, <1>4

\* The pieces are lines of the document from the first on, at least one.
LEMMA PiecesShape ==
  ASSUME NEW A, NEW lns \in Seq(A), NEW k \in 0 .. Len(lns) - 1, NEW active,
         NEW s \in StartAfterContainer(At(lns, k), active)
  PROVE  \E B : /\ Pieces(lns, k, s) \in Seq(B)
                /\ Len(Pieces(lns, k, s)) \in 1 .. Len(lns) - k
                /\ At(Pieces(lns, k, s), 0) = s.piece
<1> DEFINE Out(m) == ContainerLine(At(lns, m), FALSE, s) = {}
           leaves == { m \in k + 1 .. Len(lns) - 1 : Out(m) }
           n      == FirstOf(lns, leaves) - k
           e(m)   == CHOOSE l \in ContainerLine(At(lns, k + m - 1), m = 1, s) : TRUE
           B      == { e(m) : m \in 1 .. n }
<1>1. leaves \in SUBSET (k + 1 .. Len(lns))
  <2> HIDE DEF Out
  <2> QED OBVIOUS
<1>2. n \in 1 .. Len(lns) - k
  <2>1. k + 1 \in Nat /\ k + 1 <= Len(lns)
    OBVIOUS
  <2> HIDE DEF leaves
  <2>2. FirstOf(lns, leaves) \in k + 1 .. Len(lns)
    BY <1>1, <2>1, FirstOfBounds
  <2> QED BY <2>2
<1>3. Pieces(lns, k, s) = [m \in 1 .. n |-> e(m)]
  BY DEF Pieces
<1>4. e(1) = s.piece
  <2>1. ContainerLine(At(lns, k + 1 - 1), TRUE, s) = {s.piece}
    <3>1. k + 1 - 1 = k
      OBVIOUS
    <3>2. ~ (Depth(At(lns, k)) < s.depth)
      BY StartDepth
    <3> QED BY <3>1, <3>2 DEF ContainerLine
  <2> QED BY <2>1
<1> HIDE DEF n, e
<1>5. [m \in 1 .. n |-> e(m)] \in Seq(B) /\ Len([m \in 1 .. n |-> e(m)]) = n
  BY <1>2
<1>6. At(Pieces(lns, k, s), 0) = s.piece
  BY <1>2, <1>3, <1>4 DEF At
<1> QED BY <1>2, <1>3, <1>5, <1>6

LEMMA PrefixIsSeq ==
  ASSUME NEW B, NEW p \in Seq(B), NEW m \in 0 .. Len(p)
  PROVE  SubSeq(p, 1, m) \in Seq(B) /\ Len(SubSeq(p, 1, m)) = m
         /\ \A n \in 1 .. m : SubSeq(p, 1, m)[n] = p[n]
OBVIOUS

\* A block that opens in a container ends among its pieces.
EndsInPieces(lns, k, active, e) ==
  \E s \in StartAfterContainer(At(lns, k), active) : e \in k + 1 .. k + Len(Pieces(lns, k, s))

LEMMA EndsInPiecesBounds ==
  ASSUME NEW A, NEW lns \in Seq(A), NEW k \in 0 .. Len(lns) - 1, NEW active,
         NEW e, EndsInPieces(lns, k, active, e)
  PROVE  e \in k + 1 .. Len(lns)
<1>1. PICK s \in StartAfterContainer(At(lns, k), active) :
        e \in k + 1 .. k + Len(Pieces(lns, k, s))
  BY DEF EndsInPieces
<1>2. Len(Pieces(lns, k, s)) \in 1 .. Len(lns) - k
  BY PiecesShape
<1> QED BY <1>1, <1>2

LEMMA ContainerHtmlEnds ==
  ASSUME NEW A, NEW lns \in Seq(A), NEW k \in 0 .. Len(lns) - 1, NEW active, NEW bs,
         NEW e \in ContainerHtml(lns, k, active, bs)
  PROVE  EndsInPieces(lns, k, active, e)
<1>0. PICK s \in HtmlStartAfterContainer(At(lns, k), active) :
        e = k + HtmlEnd(Pieces(lns, k, s), 0, s.piece.leaf)
  BY DEF ContainerHtml
<1>1. s \in StartAfterContainer(At(lns, k), active) /\ StartsHtml(s.piece)
  BY DEF HtmlStartAfterContainer
<1>2. PICK B : /\ Pieces(lns, k, s) \in Seq(B)
               /\ Len(Pieces(lns, k, s)) \in 1 .. Len(lns) - k
               /\ At(Pieces(lns, k, s), 0) = s.piece
  BY <1>1, PiecesShape
<1>3. ~ IsBlank(At(Pieces(lns, k, s), 0))
  BY <1>1, <1>2 DEF StartsHtml, IsBlank, HtmlOpeners
<1>4. 0 \in 0 .. Len(Pieces(lns, k, s)) - 1
  BY <1>2
<1>5. HtmlEnd(Pieces(lns, k, s), 0, s.piece.leaf) \in 0 + 1 .. Len(Pieces(lns, k, s))
  BY <1>2, <1>3, <1>4, HtmlEndBounds
<1> QED BY <1>0, <1>1, <1>5 DEF EndsInPieces

LEMMA ContainerMathEnds ==
  ASSUME NEW A, NEW lns \in Seq(A), NEW k \in 0 .. Len(lns) - 1, NEW active,
         NEW e \in ContainerMath(lns, k, active)
  PROVE  EndsInPieces(lns, k, active, e)
<1> SUFFICES ASSUME NEW s \in MathStartAfterContainer(At(lns, k), active),
                    NEW n \in (IF OpensFence(s.piece) THEN {FenceEnd(Pieces(lns, k, s), 0)}
                               ELSE DollarMath(MathPieces(Pieces(lns, k, s)), 0)),
                    e = k + n
             PROVE  EndsInPieces(lns, k, active, e)
  BY DEF ContainerMath
<1>1. s \in StartAfterContainer(At(lns, k), active)
  BY DEF MathStartAfterContainer
<1>2. PICK B : /\ Pieces(lns, k, s) \in Seq(B)
               /\ Len(Pieces(lns, k, s)) \in 1 .. Len(lns) - k
               /\ At(Pieces(lns, k, s), 0) = s.piece
  BY <1>1, PiecesShape
<1> DEFINE pieces == Pieces(lns, k, s)
           stops  == { m \in 2 .. Len(pieces) :
                         IsBlank(pieces[m]) \/ (Bare(pieces[m]) /\ pieces[m].leaf = "dollars") }
           prefix == MathPieces(pieces)
<1> HIDE DEF pieces
<1>3. pieces \in Seq(B) /\ Len(pieces) \in 1 .. Len(lns) - k /\ 0 \in 0 .. Len(pieces) - 1
  BY <1>2 DEF pieces
<1>4. FenceEnd(pieces, 0) \in 0 + 1 .. Len(pieces)
  BY <1>3, FenceEndBounds
<1>5. FirstOf(pieces, stops) \in 1 .. Len(pieces)
  <2>1. stops \in SUBSET (1 .. Len(pieces))
    BY <1>3
  <2> HIDE DEF stops
  <2> QED BY <1>3, <2>1, FirstOfBounds
<1>6. prefix \in Seq(B) /\ Len(prefix) \in 1 .. Len(pieces)
  <2>1. \/ prefix = SubSeq(pieces, 1, 1)
        \/ prefix = SubSeq(pieces, 1, FirstOf(pieces, stops))
    BY DEF MathPieces
  <2> HIDE DEF stops, prefix
  <2>2. 1 \in 1 .. Len(pieces)
    BY <1>3
  <2>3. PICK m \in 1 .. Len(pieces) : prefix = SubSeq(pieces, 1, m)
    BY <1>5, <2>1, <2>2
  <2> QED BY <1>3, <2>3, PrefixIsSeq
<1>7. DollarMath(prefix, 0) \in SUBSET (0 + 1 .. Len(prefix))
  <2> HIDE DEF prefix
  <2>1. 0 \in 0 .. Len(prefix) - 1
    BY <1>3, <1>6
  <2> QED BY <1>6, <2>1, DollarMathBounds
<1>8. n \in 1 .. Len(pieces)
  <2> HIDE DEF prefix
  <2>1. n = FenceEnd(pieces, 0) \/ n \in DollarMath(prefix, 0)
    BY DEF pieces, prefix
  <2> QED BY <1>3, <1>4, <1>6, <1>7, <2>1
<1>9. e \in k + 1 .. k + Len(pieces)
  BY <1>3, <1>8
<1> QED BY <1>1, <1>9 DEF EndsInPieces, pieces

(***************************************************************************)
(* The stack of list items keeps its type, and nests.                      *)
(***************************************************************************)
Nested(ctxs) ==
  \A n \in 1 .. Len(ctxs) :
    /\ ctxs[n].indent <= MaxListIndent + 3
    /\ n > 1 => /\ ctxs[n].quote = ctxs[n - 1].quote
                /\ ctxs[n].indent > ctxs[n - 1].indent
                /\ ctxs[n].indent <= ctxs[n - 1].indent + 6

LEMMA LineParts ==
  ASSUME NEW l \in Line
  PROVE  /\ Content(l).sp \in Nat /\ l.mark \in Marks /\ Depth(l) \in {0, 1}
         /\ Content(l).mark = l.mark /\ Content(l).leaf = l.leaf
BY DEF Line, Content, Depth

LEMMA MarkerContextType ==
  ASSUME NEW l \in Line
  PROVE  /\ MarkerContext(l) \in Context
         /\ MarkerContext(l).quote = Depth(l)
         /\ MarkerContext(l).indent \in Content(l).sp + 2 .. Content(l).sp + 3
<1>1. ListKind(l.mark) \in ListKinds
  BY DEF ListKind, ListKinds
<1>2. MarkWidth(l.mark) \in 2 .. 3
  BY DEF MarkWidth
<1> QED BY <1>1, <1>2, LineParts DEF MarkerContext, Context

\* What is left of the stack is a prefix whose last item holds the line.
LEMMA StillOpenShape ==
  ASSUME NEW l \in Line, NEW ctxs \in Seq(Context)
  PROVE  \E k \in 0 .. Len(ctxs) : /\ StillOpen(l, ctxs) = SubSeq(ctxs, 1, k)
                                   /\ k > 0 => Holds(ctxs[k], l)
<1> DEFINE H == {0} \cup { k \in 1 .. Len(ctxs) : Holds(ctxs[k], l) }
<1>1. H \in SUBSET (0 .. Len(ctxs)) /\ H # {} /\ Len(ctxs) \in Nat
  OBVIOUS
<1>2. \A k \in H : k > 0 => Holds(ctxs[k], l)
  OBVIOUS
<1>3. StillOpen(l, ctxs) = SubSeq(ctxs, 1, Max(H))
  BY DEF StillOpen
<1> HIDE DEF H
<1>4. Max(H) \in H
  BY <1>1, MaxIsGreatest
<1> QED BY <1>1, <1>2, <1>3, <1>4

LEMMA UpdateContextNests ==
  ASSUME NEW l \in Line, NEW ctxs \in Seq(Context)
  PROVE  /\ UpdateContext(l, ctxs) \in Seq(Context)
         /\ Nested(ctxs) => Nested(UpdateContext(l, ctxs))
<1>1. PICK k \in 0 .. Len(ctxs) : /\ StillOpen(l, ctxs) = SubSeq(ctxs, 1, k)
                                  /\ k > 0 => Holds(ctxs[k], l)
  BY StillOpenShape
<1> DEFINE kept == SubSeq(ctxs, 1, k)
           new  == MarkerContext(l)
<1>2. kept \in Seq(Context) /\ Len(kept) = k /\ \A n \in 1 .. k : kept[n] = ctxs[n]
  BY PrefixIsSeq
<1>3. new \in Context
  BY MarkerContextType
<1>4. Nested(ctxs) => Nested(kept)
  BY <1>2 DEF Nested
<1> HIDE DEF kept, new
<1>5. CASE UpdateContext(l, ctxs) = ctxs
  BY <1>5
<1>6. CASE UpdateContext(l, ctxs) = kept
  BY <1>2, <1>4, <1>6
<1>7. CASE /\ UpdateContext(l, ctxs) = Append(kept, new)
           /\ HasMarker(Content(l))
           /\ k > 0 => ~ (Content(l).sp - kept[k].indent > 3)
  <2>1. Append(kept, new) \in Seq(Context)
    BY <1>2, <1>3
  <2>2. Len(Append(kept, new)) = k + 1
        /\ \A n \in 1 .. k + 1 : Append(kept, new)[n] = IF n = k + 1 THEN new ELSE kept[n]
    BY <1>2, <1>3
  <2>3. /\ new.quote = Depth(l) /\ new.indent \in Content(l).sp + 2 .. Content(l).sp + 3
        /\ Content(l).sp \in Nat /\ Content(l).sp <= MaxListIndent
    BY <1>7, MarkerContextType, LineParts DEF new, HasMarker
  <2>4. k > 0 => /\ new.quote = kept[k].quote /\ new.indent > kept[k].indent
                 /\ new.indent <= kept[k].indent + 6
    <3> SUFFICES ASSUME k > 0
                 PROVE  /\ new.quote = kept[k].quote /\ new.indent > kept[k].indent
                        /\ new.indent <= kept[k].indent + 6
      OBVIOUS
    <3>1. kept[k] = ctxs[k] /\ kept[k] \in Context
      BY <1>2
    <3>a. Holds(kept[k], l)
      BY <1>1, <3>1
    <3>2. kept[k].quote = Depth(l) /\ Content(l).sp >= kept[k].indent
      BY <3>a, Zenon DEF Holds
    <3>3. kept[k].indent \in Nat
      BY <3>1 DEF Context
    <3> QED BY <1>7, <2>3, <3>2, <3>3, SMTT(20)
  <2>5. ASSUME Nested(kept) PROVE Nested(Append(kept, new))
    <3> SUFFICES ASSUME NEW n \in 1 .. k + 1
                 PROVE  LET c == Append(kept, new)
                        IN  /\ c[n].indent <= MaxListIndent + 3
                            /\ n > 1 => /\ c[n].quote = c[n - 1].quote
                                        /\ c[n].indent > c[n - 1].indent
                                        /\ c[n].indent <= c[n - 1].indent + 6
      BY <2>2 DEF Nested
    <3>1. CASE n = k + 1
      BY <2>2, <2>3, <2>4, <3>1, LinesAssumption
    <3>2. CASE n # k + 1
      BY <1>2, <2>2, <2>5, <3>2 DEF Nested
    <3> QED BY <3>1, <3>2
  <2> QED BY <1>4, <1>7, <2>1, <2>5
<1>8. \/ UpdateContext(l, ctxs) = ctxs
      \/ UpdateContext(l, ctxs) = kept
      \/ /\ UpdateContext(l, ctxs) = Append(kept, new)
         /\ HasMarker(Content(l))
         /\ k > 0 => ~ (Content(l).sp - kept[k].indent > 3)
  <2>1. k > 0 => Innermost(kept) = {kept[k]}
    BY <1>2 DEF Innermost
  <2>2. StillOpen(l, ctxs) = kept
    BY <1>1 DEF kept
  <2>3. CASE IsBlank(Content(l)) \/ ~ HasMarker(Content(l))
    BY <2>2, <2>3 DEF UpdateContext
  <2>4. CASE ~ IsBlank(Content(l)) /\ HasMarker(Content(l)) /\ k > 0
    <3>1. UpdateContext(l, ctxs) = IF \E c \in {kept[k]} : Content(l).sp - c.indent > 3
                                   THEN kept ELSE Append(kept, new)
      BY <2>1, <2>2, <2>4 DEF UpdateContext, new
    <3> QED BY <2>4, <3>1
  <2>5. CASE ~ IsBlank(Content(l)) /\ HasMarker(Content(l)) /\ ~ (k > 0)
    BY <2>2, <2>5 DEF UpdateContext, new
  <2> QED BY <2>3, <2>4, <2>5
<1> QED BY <1>5, <1>6, <1>7, <1>8

(***************************************************************************)
(* What a step can do.  Each rule and each end of a loop emits one block   *)
(* from the start of the block under construction on, or folds a blank     *)
(* line into the Empty before it, or takes a line into an inner loop.      *)
(***************************************************************************)
Sound(lns, s) ==
  /\ s \in [i : 0 .. Len(lns), blocks : Seq(Block), contexts : Seq(Context),
            open : {"none", "quote", "list"}, from : 0 .. Len(lns)]
  /\ s.from <= s.i
  /\ s.open = "none" <=> s.from = s.i

Emits(lns, s, t) ==
  \E kind \in Kinds, last \in s.i .. Len(lns), ctxs \in {s.contexts, Seen(lns, s)} :
    /\ s.from < last
    /\ s.i = Len(lns) => ctxs = s.contexts
    /\ t = Emit(s, kind, s.from, last, ctxs)

Folds(lns, m, s, t) ==
  /\ m = "Grouped" /\ s.open = "none" /\ s.i < Len(lns)
  /\ IsBlank(At(lns, s.i))
  /\ s.blocks # <<>> /\ s.blocks[Len(s.blocks)].kind = "Empty"
  /\ t = [s EXCEPT !.i = @ + 1, !.from = s.i + 1]

Extends(lns, s, t) ==
  /\ s.i < Len(lns)
  /\ \E o \in {"quote", "list"},
        ctxs \in {Seen(lns, s), UpdateContext(At(lns, s.i), Seen(lns, s))} :
       t = [s EXCEPT !.i = @ + 1, !.open = o, !.contexts = ctxs]

Shape(lns, m, s, t) == Emits(lns, s, t) \/ Folds(lns, m, s, t) \/ Extends(lns, s, t)

LEMMA RuleFacts ==
  ASSUME NEW lns, NEW s, NEW l, l = At(lns, s.i), NEW active, active = Innermost(Seen(lns, s)),
         NEW r, r = BlockRule(lns, s)
  PROVE  /\ r \in {"empty", "image", "containerHtml", "containerMath", "indentedCode", "html",
                   "dollarMath", "fence", "table", "rule", "heading", "quote", "checkbox",
                   "list", "footnote", "paragraph"}
         /\ r = "empty" => IsBlank(l)
         /\ r = "containerHtml" => ContainerHtml(lns, s.i, active, s.blocks) # {}
         /\ r = "containerMath" => ContainerMath(lns, s.i, active) # {}
         /\ r = "indentedCode" => StartsIndentedCode(l)
         /\ r = "html" => StartsHtml(l)
         /\ r = "dollarMath" => DollarMath(lns, s.i) # {}
         /\ r = "paragraph" =>
              /\ ~ IsBlank(l) /\ ~ IsImageMarker(l)
              /\ ContainerHtml(lns, s.i, active, s.blocks) = {}
              /\ ~ (StartsHtml(l) /\ StartAfterContainer(l, active) = {})
              /\ ~ OpensFence(l) /\ ~ StartsTable(lns, s.i) /\ ~ IsHorizontalRule(l)
              /\ ~ IsHeading(l) /\ ~ OpensQuote(l) /\ ~ HasMarker(l) /\ ~ IsFootnote(l)
BY DEF BlockRule

(***************************************************************************)
(* The paragraph rule takes its first line: what ends a paragraph there is *)
(* claimed by an earlier rule.                                             *)
(***************************************************************************)
LEMMA HtmlIsSeenInside ==
  ASSUME NEW l \in Line, NEW active, StartsHtml(l), NEW s \in StartAfterContainer(l, active)
  PROVE  s \in HtmlStartAfterContainer(l, active) /\ s.piece.leaf = l.leaf
<1>1. /\ ~ l.quote /\ l.mark = "none" /\ l.leaf \in HtmlOpeners
      /\ Content(l) = l /\ ~ HasMarker(l)
  BY DEF StartsHtml, Bare, Content, HasMarker
<1>2. s \in StartCandidates(l, active) /\ s.piece.sp <= 3
  BY DEF StartAfterContainer
<1>3. PICK c : s = Start(Dedent(l, c.indent), Depth(l), {c}, FALSE)
  BY <1>1, <1>2 DEF StartCandidates
<1>4. s.piece = [l EXCEPT !.sp = l.sp - c.indent]
  BY <1>3 DEF Start, Dedent
<1>5. s.piece.quote = l.quote /\ s.piece.mark = l.mark /\ s.piece.leaf = l.leaf
  BY <1>4 DEF Line
<1>6. StartsHtml(s.piece)
  BY <1>1, <1>2, <1>5 DEF StartsHtml, Bare
<1> QED BY <1>5, <1>6 DEF HtmlStartAfterContainer

LEMMA ParagraphKeepsItsLine ==
  ASSUME NEW lns \in Seq(Line), NEW s, Sound(lns, s), s.i < Len(lns),
         BlockRule(lns, s) = "paragraph"
  PROVE  /\ ~ StartsOther(lns, s.i, Innermost(Seen(lns, s)))
         /\ ~ OpensQuote(At(lns, s.i)) /\ ~ HasMarker(At(lns, s.i))
         /\ ~ OpensFence(At(lns, s.i))
<1> DEFINE l      == At(lns, s.i)
           active == Innermost(Seen(lns, s))
<1>1. l \in Line /\ s.i \in Nat
  BY DEF Sound, At
<1>2. /\ ~ IsBlank(l) /\ ~ IsImageMarker(l)
      /\ ContainerHtml(lns, s.i, active, s.blocks) = {}
      /\ ~ (StartsHtml(l) /\ StartAfterContainer(l, active) = {})
      /\ ~ OpensFence(l) /\ ~ StartsTable(lns, s.i) /\ ~ IsHorizontalRule(l)
      /\ ~ IsHeading(l) /\ ~ OpensQuote(l) /\ ~ HasMarker(l) /\ ~ IsFootnote(l)
  BY RuleFacts
<1>3. \A t \in HtmlStartAfterContainer(l, active) :
        HtmlSuppressed(lns, s.i, active, s.blocks, t)
  BY <1>2 DEF ContainerHtml
<1>4. \A t \in HtmlStartAfterContainer(l, active) : ~ HtmlEndsParagraph(t.piece) /\ ~ t.marked
  BY <1>3 DEF HtmlSuppressed
<1>5. ~ HtmlInterruptsContainer(l, active)
  BY <1>4 DEF HtmlInterruptsContainer
<1>6. ~ HtmlEndsParagraph(l)
  <2> SUFFICES ASSUME HtmlEndsParagraph(l) PROVE FALSE
    OBVIOUS
  <2>1. StartsHtml(l) /\ l.leaf # "anyTag"
    BY DEF HtmlEndsParagraph
  <2>2. PICK t \in StartAfterContainer(l, active) : TRUE
    BY <1>2, <2>1
  <2>3. t \in HtmlStartAfterContainer(l, active) /\ t.piece.leaf = l.leaf
    BY <1>1, <2>1, HtmlIsSeenInside
  <2>4. StartsHtml(t.piece)
    BY <2>3 DEF HtmlStartAfterContainer
  <2> QED BY <1>4, <2>1, <2>3, <2>4 DEF HtmlEndsParagraph
<1>7. ~ StartsOther(lns, s.i, active)
  BY <1>1, <1>2, <1>5, <1>6 DEF StartsOther, QuoteEndsParagraph, OpensQuote
<1> QED BY <1>2, <1>7

LEMMA ParagraphTakesItsLine ==
  ASSUME NEW lns \in Seq(Line), NEW s, Sound(lns, s), s.i < Len(lns),
         BlockRule(lns, s) = "paragraph"
  PROVE  ParagraphEnd(lns, s.i, Innermost(Seen(lns, s))) \in s.i + 1 .. Len(lns)
<1> DEFINE active == Innermost(Seen(lns, s))
           P(k)   == EndsParagraph(lns, s.i, k, active)
           S      == { k \in s.i .. Len(lns) - 1 : P(k) }
<1>1. s.i \in Nat
  BY DEF Sound
<1>2. ~ P(s.i)
  BY <1>1, ParagraphKeepsItsLine DEF EndsParagraph
<1> HIDE DEF P
<1>3. S \in SUBSET (s.i + 1 .. Len(lns))
  BY <1>1, <1>2
<1>4. ParagraphEnd(lns, s.i, active) = FirstOf(lns, S)
  BY DEF ParagraphEnd, P
<1> HIDE DEF S, active
<1> QED BY <1>1, <1>3, <1>4, FirstOfBounds DEF active

LEMMA TakeThroughEmits ==
  ASSUME NEW lns \in Seq(Line), NEW s, Sound(lns, s), s.i < Len(lns), s.open = "none",
         NEW kind \in Kinds, NEW last \in s.i + 1 .. Len(lns),
         NEW ctxs \in {s.contexts, Seen(lns, s)}
  PROVE  Emits(lns, s, Emit(s, kind, s.i, last, ctxs))
<1>1. s.from = s.i /\ s.i \in Nat
  BY DEF Sound
<1>2. last \in s.i .. Len(lns) /\ s.from < last /\ s.i # Len(lns)
  BY <1>1
<1> QED BY <1>1, <1>2 DEF Emits

LEMMA TakeShape ==
  ASSUME NEW lns \in Seq(Line), NEW m \in Modes, NEW s, Sound(lns, s),
         s.i < Len(lns), s.open = "none"
  PROVE  Shape(lns, m, s, Take(lns, m, s, BlockRule(lns, s)))
<1> DEFINE l      == At(lns, s.i)
           active == Innermost(Seen(lns, s))
           r      == BlockRule(lns, s)
           t      == Take(lns, m, s, r)
<1>1. /\ s.i \in 0 .. Len(lns) - 1 /\ s.from = s.i /\ s.i + 1 \in s.i + 1 .. Len(lns)
      /\ Len(lns) \in Nat /\ l \in Line /\ s = [s EXCEPT !.from = s.i]
  BY DEF Sound, At
<1>2. Seen(lns, s) \in {s.contexts, Seen(lns, s)} /\ s.contexts \in {s.contexts, Seen(lns, s)}
  OBVIOUS
<1>3. ASSUME NEW kind \in Kinds, t = TakeOne(lns, s, kind) PROVE Shape(lns, m, s, t)
  BY <1>1, <1>2, <1>3, TakeThroughEmits DEF TakeOne, Shape
<1>4. ASSUME NEW kind \in Kinds, NEW last \in s.i + 1 .. Len(lns),
             t = TakeThrough(lns, s, kind, last)
      PROVE  Shape(lns, m, s, t)
  BY <1>1, <1>2, <1>4, TakeThroughEmits DEF TakeThrough, Shape
<1>5. ASSUME NEW kind \in Kinds, t = Emit(s, kind, s.i, s.i + 1, s.contexts)
      PROVE  Shape(lns, m, s, t)
  BY <1>1, <1>2, <1>5, TakeThroughEmits DEF Shape
<1>6. ASSUME NEW o \in {"quote", "list"},
             t = [s EXCEPT !.i = @ + 1, !.open = o, !.from = s.i,
                           !.contexts = UpdateContext(l, Seen(lns, s))]
      PROVE  Shape(lns, m, s, t)
  <2>1. t = [s EXCEPT !.i = @ + 1, !.open = o, !.contexts = UpdateContext(l, Seen(lns, s))]
    BY <1>1, <1>6 DEF Sound
  <2> QED BY <2>1 DEF Extends, Shape
<1>7. ASSUME NEW S \in SUBSET (s.i + 1 .. Len(lns)), S # {}
      PROVE  TheEnd(S) \in s.i + 1 .. Len(lns)
  BY <1>7 DEF TheEnd
<1>a. CASE r = "empty"
  <2>1. t = TakeEmpty(m, s) /\ IsBlank(l)
    BY <1>a, RuleFacts DEF Take
  <2>2. CASE m = "Grouped" /\ s.blocks # <<>> /\ s.blocks[Len(s.blocks)].kind = "Empty"
    BY <2>1, <2>2 DEF TakeEmpty, Folds, Shape
  <2>3. CASE ~ (m = "Grouped" /\ s.blocks # <<>> /\ s.blocks[Len(s.blocks)].kind = "Empty")
    BY <1>5, <2>1, <2>3 DEF TakeEmpty, Kinds
  <2> QED BY <2>2, <2>3
<1>b. CASE r = "image"
  BY <1>5, <1>b DEF Take, Kinds
<1>c. CASE r = "containerHtml"
  <2> DEFINE ends == ContainerHtml(lns, s.i, active, s.blocks)
  <2>1. ends # {}
    BY <1>c, RuleFacts
  <2>2. ends \in SUBSET (s.i + 1 .. Len(lns))
    BY <1>1, ContainerHtmlEnds, EndsInPiecesBounds
  <2>3. t = TakeThrough(lns, s, "RawHtml", TheEnd(ends))
    BY <1>c DEF Take, TakeContainerHtml
  <2> QED BY <1>4, <1>7, <2>1, <2>2, <2>3 DEF Kinds
<1>d. CASE r = "containerMath"
  <2> DEFINE ends == ContainerMath(lns, s.i, active)
  <2>1. ends # {}
    BY <1>d, RuleFacts
  <2>2. ends \in SUBSET (s.i + 1 .. Len(lns))
    BY <1>1, ContainerMathEnds, EndsInPiecesBounds
  <2>3. t = TakeThrough(lns, s, "Math", TheEnd(ends))
    BY <1>d DEF Take, TakeContainerMath
  <2> QED BY <1>4, <1>7, <2>1, <2>2, <2>3 DEF Kinds
<1>e. CASE r = "indentedCode"
  <2>1. StartsIndentedCode(l)
    BY <1>e, RuleFacts
  <2>2. t = TakeThrough(lns, s, "CodeBlock", IndentedCodeEnd(lns, s.i))
    BY <1>e DEF Take
  <2>3. IndentedCodeEnd(lns, s.i) \in s.i + 1 .. Len(lns)
    BY <1>1, <2>1, IndentedCodeEndBounds
  <2> QED BY <1>4, <2>2, <2>3 DEF Kinds
<1>f. CASE r = "html"
  <2>1. ~ IsBlank(l)
    BY <1>f, RuleFacts DEF StartsHtml, IsBlank, HtmlOpeners
  <2>2. t = TakeThrough(lns, s, "RawHtml", HtmlEnd(lns, s.i, l.leaf))
    BY <1>f DEF Take
  <2>3. HtmlEnd(lns, s.i, l.leaf) \in s.i + 1 .. Len(lns)
    BY <1>1, <2>1, HtmlEndBounds
  <2> QED BY <1>4, <2>2, <2>3 DEF Kinds
<1>g. CASE r = "dollarMath"
  <2> DEFINE ends == DollarMath(lns, s.i)
  <2>1. ends # {}
    BY <1>g, RuleFacts
  <2>2. ends \in SUBSET (s.i + 1 .. Len(lns))
    BY <1>1, DollarMathBounds
  <2>3. t = TakeThrough(lns, s, "Math", TheEnd(ends))
    BY <1>g DEF Take
  <2> QED BY <1>4, <1>7, <2>1, <2>2, <2>3 DEF Kinds
<1>h. CASE r = "fence"
  <2>1. t = TakeThrough(lns, s, FenceKind(l.leaf), FenceEnd(lns, s.i))
    BY <1>h DEF Take
  <2>2. FenceKind(l.leaf) \in Kinds
    BY DEF FenceKind, Kinds
  <2>3. FenceEnd(lns, s.i) \in s.i + 1 .. Len(lns)
    BY <1>1, FenceEndBounds
  <2> QED BY <1>4, <2>1, <2>2, <2>3
<1>i. CASE r = "table"
  <2>1. t = TakeThrough(lns, s, TableKind(lns, s.i), TableEnd(lns, s.i))
    BY <1>i DEF Take
  <2>2. TableKind(lns, s.i) \in Kinds
    BY DEF TableKind, Kinds
  <2>3. TableEnd(lns, s.i) \in s.i + 1 .. Len(lns)
    BY <1>1, TableEndBounds
  <2> QED BY <1>4, <2>1, <2>2, <2>3
<1>j. CASE r \in {"rule", "heading", "checkbox", "footnote"}
  BY <1>3, <1>j DEF Take, Kinds
<1>k. CASE r = "quote"
  BY <1>6, <1>k DEF Take, OpenQuote
<1>l. CASE r = "list"
  <2>1. t = TakeList(lns, m, s)
    BY <1>l DEF Take
  <2>2. CASE m = "Editable"
    BY <1>3, <2>1, <2>2 DEF TakeList, Kinds
  <2>3. CASE m # "Editable"
    BY <1>6, <2>1, <2>3 DEF TakeList
  <2> QED BY <2>2, <2>3
<1>m. CASE r = "paragraph"
  <2> DEFINE end == ParagraphEnd(lns, s.i, active)
  <2>1. end \in s.i + 1 .. Len(lns)
    BY <1>m, ParagraphTakesItsLine
  <2> HIDE DEF end
  <2>2. CASE end < Len(lns) /\ IsSetextUnderline(At(lns, end))
    <3>1. end + 1 \in s.i + 1 .. Len(lns)
      BY <1>1, <2>1, <2>2
    <3>2. t = TakeThrough(lns, s, "Heading", end + 1)
      BY <1>1, <1>m, <2>1, <2>2 DEF Take, TakeParagraph, end
    <3> QED BY <1>4, <3>1, <3>2 DEF Kinds
  <2>3. CASE ~ (end < Len(lns) /\ IsSetextUnderline(At(lns, end)))
    <3>1. t = TakeThrough(lns, s, "Paragraph", end)
      BY <1>1, <1>m, <2>1, <2>3 DEF Take, TakeParagraph, end
    <3> QED BY <1>4, <2>1, <3>1 DEF Kinds
  <2> QED BY <2>2, <2>3
<1> QED
  BY <1>a, <1>b, <1>c, <1>d, <1>e, <1>f, <1>g, <1>h, <1>i, <1>j, <1>k, <1>l, <1>m, RuleFacts

(***************************************************************************)
(* The same for a step of the loop.                                        *)
(***************************************************************************)
LEMMA StepShape ==
  ASSUME NEW lns \in Seq(Line), NEW m \in Modes, NEW s, Sound(lns, s), ~ Finished(lns, s)
  PROVE  Shape(lns, m, s, Step(lns, m, s))
<1>1. s.i \in Nat /\ s.i <= Len(lns) /\ s.contexts \in {s.contexts, Seen(lns, s)}
  BY DEF Sound
<1>2. CASE s.open = "none"
  <2>1. s.i < Len(lns)
    BY <1>1, <1>2 DEF Finished
  <2> QED BY <1>2, <2>1, TakeShape DEF Step
<1>3. ASSUME NEW o \in {"quote", "list"}, s.open = o, s.i < Len(lns)
      PROVE  Extends(lns, s, ExtendOpen(lns, s))
  <2>1. ExtendOpen(lns, s) = [s EXCEPT !.i = @ + 1, !.open = o, !.contexts = Seen(lns, s)]
    BY <1>3 DEF ExtendOpen, Sound
  <2> QED BY <1>3, <2>1 DEF Extends
<1>4. ASSUME NEW kind \in Kinds, NEW ctxs \in {s.contexts, Seen(lns, s)},
             s.i = Len(lns) => ctxs = s.contexts, s.open # "none"
      PROVE  Emits(lns, s, Emit(s, kind, s.from, s.i, ctxs))
  <2>1. s.from < s.i /\ s.i \in s.i .. Len(lns)
    BY <1>4 DEF Sound
  <2> QED BY <1>4, <2>1 DEF Emits
<1>5. CASE s.open = "quote"
  <2>1. CASE QuoteEnds(lns, s)
    BY <1>1, <1>4, <1>5, <2>1 DEF Step, CloseQuote, Kinds, Shape, Finished
  <2>2. CASE ~ QuoteEnds(lns, s)
    BY <1>3, <1>5, <2>2 DEF Step, QuoteEnds, Shape, Finished
  <2> QED BY <2>1, <2>2
<1>6. CASE s.open = "list"
  <2>1. s.i = Len(lns) => ListInterrupted(lns, s)
    BY <1>1 DEF ListInterrupted
  <2>2. CASE ListEnds(lns, s)
    BY <1>1, <1>4, <1>6, <2>1, <2>2 DEF Step, CloseList, Kinds, Shape, Finished
  <2>3. CASE ~ ListEnds(lns, s)
    <3>1. s.i < Len(lns)
      BY <1>1, <2>3 DEF ListEnds, ListInterrupted
    <3> QED BY <1>3, <1>6, <2>3, <3>1 DEF Step, Shape, Finished
  <2> QED BY <2>2, <2>3
<1> QED BY <1>2, <1>5, <1>6 DEF Sound

\* What the shape of a step means for the fields of the state.
LEMMA ShapeFields ==
  ASSUME NEW lns \in Seq(Line), NEW m, NEW s, Sound(lns, s), NEW t, Shape(lns, m, s, t)
  PROVE  /\ Sound(lns, t)
         /\ \/ t.i > s.i
            \/ s.open # "none" /\ t.open = "none"
         /\ Nested(s.contexts) => Nested(t.contexts)
<1>1. /\ s.i \in Nat /\ s.i <= Len(lns) /\ Len(lns) \in Nat /\ s.blocks \in Seq(Block)
      /\ s.contexts \in Seq(Context) /\ s.open \in {"none", "quote", "list"}
      /\ s.from \in Nat /\ s.from <= s.i /\ (s.open = "none" <=> s.from = s.i)
      /\ s = [i |-> s.i, blocks |-> s.blocks, contexts |-> s.contexts, open |-> s.open, from |-> s.from]
  BY DEF Sound
<1>2. ASSUME s.i < Len(lns)
      PROVE  \A ctxs \in {s.contexts, Seen(lns, s), UpdateContext(At(lns, s.i), Seen(lns, s))} :
               ctxs \in Seq(Context) /\ (Nested(s.contexts) => Nested(ctxs))
  <2>1. At(lns, s.i) \in Line
    BY <1>1, <1>2 DEF At
  <2>2. Seen(lns, s) \in Seq(Context) /\ (Nested(s.contexts) => Nested(Seen(lns, s)))
    BY <1>1, <2>1, UpdateContextNests DEF Seen
  <2>3. LET u == UpdateContext(At(lns, s.i), Seen(lns, s))
        IN  u \in Seq(Context) /\ (Nested(Seen(lns, s)) => Nested(u))
    BY <2>1, <2>2, UpdateContextNests
  <2> QED BY <1>1, <2>2, <2>3
<1>3. CASE Emits(lns, s, t)
  <2>1. PICK kind \in Kinds, last \in s.i .. Len(lns), ctxs \in {s.contexts, Seen(lns, s)} :
          /\ s.from < last
          /\ s.i = Len(lns) => ctxs = s.contexts
          /\ t = Emit(s, kind, s.from, last, ctxs)
    BY <1>3 DEF Emits
  <2>2. ctxs \in Seq(Context) /\ (Nested(s.contexts) => Nested(ctxs))
    BY <1>1, <1>2, <2>1
  <2>3. [kind |-> kind, first |-> s.from, last |-> last] \in Block
    BY <1>1 DEF Block
  <2>4. t = [i |-> last, blocks |-> Append(s.blocks, [kind |-> kind, first |-> s.from, last |-> last]),
             contexts |-> ctxs, open |-> "none", from |-> last]
    BY <1>1, <2>1 DEF Emit
  <2>5. Append(s.blocks, [kind |-> kind, first |-> s.from, last |-> last]) \in Seq(Block)
    BY <1>1, <2>3
  <2>6. last \in 0 .. Len(lns) /\ last >= s.i /\ (s.open = "none" => last > s.i)
    BY <1>1, <2>1
  <2> QED BY <1>1, <2>2, <2>4, <2>5, <2>6 DEF Sound
<1>4. CASE Folds(lns, m, s, t)
  <2>1. t = [i |-> s.i + 1, blocks |-> s.blocks, contexts |-> s.contexts, open |-> "none", from |-> s.i + 1]
    BY <1>1, <1>4 DEF Folds
  <2>2. s.i + 1 \in 0 .. Len(lns)
    BY <1>1, <1>4 DEF Folds
  <2> QED BY <1>1, <2>1, <2>2 DEF Sound
<1>5. CASE Extends(lns, s, t)
  <2>1. PICK o \in {"quote", "list"},
             ctxs \in {Seen(lns, s), UpdateContext(At(lns, s.i), Seen(lns, s))} :
          t = [s EXCEPT !.i = @ + 1, !.open = o, !.contexts = ctxs]
    BY <1>5 DEF Extends
  <2>2. ctxs \in Seq(Context) /\ (Nested(s.contexts) => Nested(ctxs)) /\ s.i < Len(lns)
    BY <1>2, <1>5, <2>1 DEF Extends
  <2>3. t = [i |-> s.i + 1, blocks |-> s.blocks, contexts |-> ctxs, open |-> o, from |-> s.from]
    BY <1>1, <2>1
  <2> QED BY <1>1, <2>1, <2>2, <2>3 DEF Sound
<1> QED BY <1>3, <1>4, <1>5 DEF Shape

(***************************************************************************)
(* The specification.                                                      *)
(***************************************************************************)
IInv == lines \in Documents /\ mode \in Modes /\ Sound(lines, state)

LEMMA InvInit == Init => IInv /\ BlocksTile /\ ContextsNest
<1> SUFFICES ASSUME Init PROVE IInv /\ BlocksTile /\ ContextsNest
  OBVIOUS
<1>1. i = 0 /\ blocks = <<>> /\ contexts = <<>> /\ open = "none" /\ from = 0
      /\ lines \in Documents /\ mode \in Modes
  BY DEF Init, ParserStart
<1>2. lines \in Seq(Line)
  BY <1>1, DocumentsAssumption
<1>3. Sound(lines, state)
  BY <1>1, <1>2 DEF Sound, state
<1>4. BlocksTile
  BY <1>1 DEF BlocksTile
<1>5. ContextsNest
  BY <1>1 DEF ContextsNest
<1> QED BY <1>1, <1>3, <1>4, <1>5 DEF IInv

\* Every action is the step of the loop.
LEMMA NextIsStep ==
  ASSUME IInv, Next
  PROVE  ~ Finished(lines, state) /\ Become(Step(lines, mode, state))
<1>1. ASSUME NEW r, Claim(r) PROVE ~ Finished(lines, state) /\ Become(Step(lines, mode, state))
  <2>1. state.open = "none" /\ state.i < Len(lines) /\ BlockRule(lines, state) = r
    BY <1>1 DEF Claim, state
  <2>2. ~ Finished(lines, state)
    BY <2>1, DocumentsAssumption DEF Finished, IInv
  <2>3. Step(lines, mode, state) = Take(lines, mode, state, r)
    BY <2>1, <2>2 DEF Step
  <2> QED BY <1>1, <2>2, <2>3 DEF Claim
<1>2. CASE QuoteLine \/ QuoteEnd
  <2>1. state.open = "quote"
    BY <1>2 DEF QuoteLine, QuoteEnd, state
  <2>2. ~ Finished(lines, state)
    BY <2>1 DEF Finished
  <2>3. Step(lines, mode, state)
          = IF QuoteEnds(lines, state) THEN CloseQuote(lines, state) ELSE ExtendOpen(lines, state)
    BY <2>1, <2>2 DEF Step
  <2> QED BY <1>2, <2>2, <2>3 DEF QuoteLine, QuoteEnd
<1>3. CASE ListLine \/ ListEnd
  <2>1. state.open = "list"
    BY <1>3 DEF ListLine, ListEnd, state
  <2>2. ~ Finished(lines, state)
    BY <2>1 DEF Finished
  <2>3. Step(lines, mode, state)
          = IF ListEnds(lines, state) THEN CloseList(lines, state) ELSE ExtendOpen(lines, state)
    BY <2>1, <2>2 DEF Step
  <2> QED BY <1>3, <2>2, <2>3 DEF ListLine, ListEnd
<1> QED
  BY <1>1, <1>2, <1>3 DEF Next, Empty, ImageMarker, ContainedHtml, ContainedMath, IndentedCode,
     RawHtml, DisplayMath, Fence, Table, Rule, Heading, QuoteStart, Checkbox, List, Footnote,
     Paragraph

\* A step of the specification is the step of the loop.
LEMMA NextSteps ==
  ASSUME IInv, Next
  PROVE  /\ lines \in Seq(Line) /\ mode \in Modes /\ Sound(lines, state)
         /\ ~ Finished(lines, state) /\ state' = Step(lines, mode, state)
         /\ lines' = lines
<1> DEFINE t == Step(lines, mode, state)
<1>1. lines \in Seq(Line) /\ mode \in Modes /\ Sound(lines, state)
  BY DocumentsAssumption DEF IInv
<1>2. ~ Finished(lines, state) /\ Become(t)
  BY NextIsStep
<1>3. Sound(lines, t)
  BY <1>1, <1>2, StepShape, ShapeFields
<1> HIDE DEF t
<1>4. state' = t
  BY <1>2, <1>3 DEF Become, state, Sound
<1> QED BY <1>1, <1>2, <1>4 DEF Become, t

\* So it has the shape of one.
LEMMA NextShape ==
  ASSUME IInv, Next
  PROVE  /\ Shape(lines, mode, state, state') /\ Sound(lines, state)
         /\ lines' = lines /\ mode' = mode /\ lines \in Seq(Line)
<1>1. mode' = mode
  BY NextIsStep DEF Become
<1> QED BY <1>1, NextSteps, StepShape

LEMMA InvNext == IInv /\ [Next]_vars => IInv'
<1> SUFFICES ASSUME IInv, [Next]_vars PROVE IInv'
  OBVIOUS
<1>1. CASE Next
  <2>1. /\ Shape(lines, mode, state, state') /\ Sound(lines, state)
        /\ lines' = lines /\ mode' = mode /\ lines \in Seq(Line)
    BY <1>1, NextShape
  <2>2. Sound(lines, state')
    BY <2>1, ShapeFields
  <2> QED BY <2>1, <2>2 DEF IInv
<1>2. CASE UNCHANGED vars
  BY <1>2 DEF vars, IInv, state
<1> QED BY <1>1, <1>2

(* The variables keep their types: the next line is never past the end of  *)
(* the document, whatever block runs to its end.                           *)
THEOREM TypeCorrect == Spec => []TypeOK
<1>1. IInv => TypeOK
  BY DocumentsAssumption DEF IInv, Sound, TypeOK, state
<1>2. Init => IInv
  BY InvInit
<1> QED BY <1>1, <1>2, InvNext, PTL DEF Spec

(* The loop never stalls: what stops a paragraph on its first line is      *)
(* claimed by an earlier rule.                                             *)
THEOREM Progress == Spec => []NeverStalls
<1>1. IInv => NeverStalls
  <2> SUFFICES ASSUME IInv, ~ Done
               PROVE  LET next == Step(lines, mode, state)
                      IN  next.i > i \/ (open # "none" /\ next.open = "none")
    BY DEF NeverStalls
  <2>1. lines \in Seq(Line) /\ mode \in Modes /\ Sound(lines, state)
    BY DocumentsAssumption DEF IInv
  <2>2. ~ Finished(lines, state)
    BY DEF Done, Finished, state
  <2>3. Shape(lines, mode, state, Step(lines, mode, state))
    BY <2>1, <2>2, StepShape
  <2>4. \/ Step(lines, mode, state).i > state.i
        \/ state.open # "none" /\ Step(lines, mode, state).open = "none"
    BY <2>1, <2>3, ShapeFields
  <2> QED BY <2>4 DEF state
<1>2. Init => IInv
  BY InvInit
<1> QED BY <1>1, <1>2, InvNext, PTL DEF Spec

(* The stack of list items nests.                                          *)
THEOREM Nesting == Spec => []ContextsNest
<1>1. ContextsNest <=> Nested(contexts)
  BY DEF ContextsNest, Nested
<1>2. IInv /\ ContextsNest /\ [Next]_vars => ContextsNest'
  <2> SUFFICES ASSUME IInv, ContextsNest, [Next]_vars PROVE ContextsNest'
    OBVIOUS
  <2>1. CASE Next
    <3>1. Shape(lines, mode, state, state') /\ Sound(lines, state) /\ lines \in Seq(Line)
      BY <2>1, NextShape
    <3>2. Nested(state.contexts)
      BY <1>1 DEF state
    <3>3. Nested(state'.contexts)
      BY <3>1, <3>2, ShapeFields
    <3>4. state'.contexts = contexts'
      BY DEF state
    <3> QED BY <3>3, <3>4 DEF ContextsNest, Nested
  <2>2. CASE UNCHANGED vars
    BY <2>2 DEF vars, ContextsNest
  <2> QED BY <2>1, <2>2
<1>3. Init => IInv /\ ContextsNest
  BY InvInit
<1> QED BY <1>2, <1>3, InvNext, PTL DEF Spec

(***************************************************************************)
(* The blocks tile the document.                                           *)
(***************************************************************************)
Blank(lns, m, a, b) == \A k \in a .. b - 1 : m = "Grouped" /\ IsBlank(At(lns, k))

StartOf(s, n) == IF n > Len(s.blocks) THEN s.from ELSE s.blocks[n].first

TileAt(lns, m, b, next) ==
  /\ b.first < b.last
  /\ b.last <= next
  /\ Blank(lns, m, b.last, next)
  /\ b.last < next => b.kind = "Empty"

\* BlocksTile, of any state.
Tiles(lns, m, s) ==
  /\ s.blocks = <<>> => s.from = 0
  /\ s.blocks # <<>> => s.blocks[1].first = 0
  /\ \A n \in 1 .. Len(s.blocks) : TileAt(lns, m, s.blocks[n], StartOf(s, n + 1))

LEMMA TileEmit ==
  ASSUME NEW lns, NEW m, NEW s, Sound(lns, s), Tiles(lns, m, s), NEW t, Emits(lns, s, t)
  PROVE  Tiles(lns, m, t)
<1>1. PICK kind \in Kinds, last \in s.i .. Len(lns), ctxs \in {s.contexts, Seen(lns, s)} :
        /\ s.from < last
        /\ t = Emit(s, kind, s.from, last, ctxs)
  BY DEF Emits
<1> DEFINE b == [kind |-> kind, first |-> s.from, last |-> last]
<1>2. s.blocks \in Seq(Block) /\ s.from \in Nat /\ s.i \in Nat /\ last \in Nat
  BY DEF Sound
<1>3. t.blocks = Append(s.blocks, b) /\ t.from = last
  BY <1>1 DEF Emit, Sound
<1>4. b.first = s.from /\ b.last = last
  OBVIOUS
<1> HIDE DEF b
<1>5. /\ Len(t.blocks) = Len(s.blocks) + 1 /\ Len(s.blocks) \in Nat
      /\ t.blocks[Len(s.blocks) + 1] = b
      /\ \A n \in 1 .. Len(s.blocks) : t.blocks[n] = s.blocks[n]
  BY <1>2, <1>3
<1>6. ASSUME NEW n \in 1 .. Len(t.blocks)
      PROVE  TileAt(lns, m, t.blocks[n], StartOf(t, n + 1))
  <2>1. CASE n \in 1 .. Len(s.blocks)
    <3>1. StartOf(t, n + 1) = StartOf(s, n + 1)
      <4>1. CASE n < Len(s.blocks)
        <5>1. n + 1 \in 1 .. Len(s.blocks)
          BY <1>5, <2>1, <4>1
        <5>2. ~ (n + 1 > Len(s.blocks)) /\ ~ (n + 1 > Len(t.blocks)) /\ t.blocks[n + 1] = s.blocks[n + 1]
          BY <1>5, <5>1
        <5> QED BY <5>2, Zenon DEF StartOf
      <4>2. CASE n = Len(s.blocks)
        <5>1. n + 1 > Len(s.blocks) /\ ~ (n + 1 > Len(t.blocks)) /\ t.blocks[n + 1] = b
          BY <1>5, <4>2
        <5> QED BY <1>4, <5>1, Zenon DEF StartOf
      <4> QED BY <1>5, <2>1, <4>1, <4>2
    <3> QED BY <1>5, <2>1, <3>1 DEF Tiles
  <2>2. CASE n = Len(s.blocks) + 1
    <3>1. t.blocks[n] = b /\ StartOf(t, n + 1) = last
      BY <1>3, <1>5, <2>2 DEF StartOf
    <3>2. Blank(lns, m, last, last)
      BY <1>2 DEF Blank
    <3>3. TileAt(lns, m, b, last)
      BY <1>1, <1>2, <1>4, <3>2 DEF TileAt
    <3> QED BY <3>1, <3>3
  <2> QED BY <1>5, <2>1, <2>2
<1>7. t.blocks # <<>> /\ t.blocks[1].first = 0
  <2>1. CASE s.blocks = <<>>
    BY <1>4, <1>5, <2>1 DEF Tiles
  <2>2. CASE s.blocks # <<>>
    BY <1>2, <1>5, <2>2 DEF Tiles
  <2> QED BY <2>1, <2>2
<1> QED BY <1>6, <1>7 DEF Tiles

LEMMA TileFold ==
  ASSUME NEW lns, NEW m, NEW s, Sound(lns, s), Tiles(lns, m, s), NEW t, Folds(lns, m, s, t)
  PROVE  Tiles(lns, m, t)
<1>1. /\ m = "Grouped" /\ s.open = "none" /\ IsBlank(At(lns, s.i))
      /\ s.blocks # <<>> /\ s.blocks[Len(s.blocks)].kind = "Empty"
      /\ t.i = s.i + 1 /\ t.from = s.i + 1 /\ t.blocks = s.blocks
  BY DEF Folds, Sound
<1>2. s.i \in Nat /\ s.from = s.i /\ s.blocks \in Seq(Block)
  BY <1>1 DEF Sound
<1>3. ASSUME NEW n \in 1 .. Len(s.blocks)
      PROVE  TileAt(lns, m, s.blocks[n], StartOf(t, n + 1))
  <2>1. TileAt(lns, m, s.blocks[n], StartOf(s, n + 1))
    BY DEF Tiles
  <2>2. CASE n # Len(s.blocks)
    BY <1>1, <1>2, <2>1, <2>2 DEF StartOf
  <2>3. CASE n = Len(s.blocks)
    <3>1. StartOf(s, n + 1) = s.i /\ StartOf(t, n + 1) = s.i + 1
      BY <1>1, <1>2, <2>3 DEF StartOf
    <3>2. s.blocks[n].last \in Nat /\ s.blocks[n].last <= s.i
      <4>1. s.blocks[n] \in Block
        BY <1>2
      <4>2. s.blocks[n].last \in Nat
        BY <4>1 DEF Block
      <4> QED BY <2>1, <3>1, <4>2 DEF TileAt
    <3>3. Blank(lns, m, s.blocks[n].last, s.i + 1)
      BY <1>1, <1>2, <2>1, <3>1, <3>2 DEF TileAt, Blank
    <3>4. s.blocks[n].first < s.blocks[n].last
      BY <2>1 DEF TileAt
    <3> QED BY <1>1, <1>2, <2>3, <3>1, <3>2, <3>3, <3>4 DEF TileAt
  <2> QED BY <2>2, <2>3
<1> QED BY <1>1, <1>3 DEF Tiles

LEMMA TileExtend ==
  ASSUME NEW lns, NEW m, NEW s, Sound(lns, s), Tiles(lns, m, s), NEW t, Extends(lns, s, t)
  PROVE  Tiles(lns, m, t)
<1>1. t.blocks = s.blocks /\ t.from = s.from
  BY DEF Extends, Sound
<1> QED BY <1>1 DEF Tiles, StartOf

(* Every line is in one block, whatever the document: blocks are neither   *)
(* empty nor overlapping, and only folded blank lines are in none.         *)
THEOREM Tiling == Spec => []BlocksTile
<1>1. IInv => (BlocksTile <=> Tiles(lines, mode, state))
  BY DEF IInv, Sound, BlocksTile, BlockStart, Gap, Tiles, TileAt, StartOf, Blank, state
<1>2. IInv /\ Tiles(lines, mode, state) /\ [Next]_vars => Tiles(lines, mode, state)'
  <2> SUFFICES ASSUME IInv, Tiles(lines, mode, state), [Next]_vars
               PROVE  Tiles(lines, mode, state)'
    OBVIOUS
  <2>1. CASE Next
    <3>1. /\ Shape(lines, mode, state, state') /\ Sound(lines, state)
          /\ lines' = lines /\ mode' = mode
      BY <2>1, NextShape
    <3>2. Tiles(lines, mode, state')
      BY <3>1, TileEmit, TileFold, TileExtend DEF Shape
    <3> QED BY <3>1, <3>2
  <2>2. CASE UNCHANGED vars
    <3>1. UNCHANGED <<lines, mode, state>>
      BY <2>2 DEF vars, state
    <3> QED BY <3>1
  <2> QED BY <2>1, <2>2
<1>3. Init => IInv /\ BlocksTile
  BY InvInit
<1> QED BY <1>1, <1>2, <1>3, InvNext, PTL DEF Spec

(***************************************************************************)
(* What a step adds to the blocks: the block of the rule that claims the   *)
(* line, or of the inner loop that ends there.  "Delicate" kinds are those *)
(* whose extent the properties below are about.                            *)
(***************************************************************************)
Delicate == {"CodeBlock", "Math", "RawHtml", "Paragraph"}

MadeByRule(lns, s, rule, b) ==
  LET active == Innermost(Seen(lns, s))
  IN  \/ rule = "containerHtml" /\ b.last \in ContainerHtml(lns, s.i, active, s.blocks)
         /\ b.kind = "RawHtml"
      \/ rule = "containerMath" /\ b.last \in ContainerMath(lns, s.i, active)
         /\ b.kind = "Math"
      \/ rule = "indentedCode" /\ b.last = IndentedCodeEnd(lns, s.i) /\ b.kind = "CodeBlock"
      \/ rule = "html" /\ b.kind = "RawHtml"
      \/ rule = "dollarMath" /\ b.kind = "Math"
      \/ rule = "fence" /\ b.kind \in {"CodeBlock", "Math"}
      \/ rule = "table" /\ b.kind = "Paragraph"
      \/ rule = "paragraph" /\ b.last = ParagraphEnd(lns, s.i, active) /\ b.kind = "Paragraph"
         /\ ~ (b.last < Len(lns) /\ IsSetextUnderline(At(lns, b.last)))

Makes(lns, s, b, t) ==
  /\ t.blocks = Append(s.blocks, b) /\ b.first = s.from
  /\ t.i = b.last /\ t.open = "none"
  /\ b.kind \in Delicate =>
       /\ s.open = "none" /\ s.i < Len(lns)
       /\ MadeByRule(lns, s, BlockRule(lns, s), b)
       /\ t.contexts = Seen(lns, s)

LEMMA EmitMakes ==
  ASSUME NEW lns, NEW s, Sound(lns, s), NEW kind, NEW last, NEW ctxs,
         kind \in Delicate =>
           /\ s.open = "none" /\ s.i < Len(lns)
           /\ MadeByRule(lns, s, BlockRule(lns, s), [kind |-> kind, first |-> s.from, last |-> last])
           /\ ctxs = Seen(lns, s)
  PROVE  \E b : Makes(lns, s, b, Emit(s, kind, s.from, last, ctxs))
<1> DEFINE b == [kind |-> kind, first |-> s.from, last |-> last]
           t == Emit(s, kind, s.from, last, ctxs)
<1>1. t.blocks = Append(s.blocks, b) /\ t.i = last /\ t.open = "none" /\ t.contexts = ctxs
  BY DEF Emit, Sound
<1>2. b.kind = kind /\ b.first = s.from /\ b.last = last
  OBVIOUS
<1> HIDE DEF b, t
<1>3. Makes(lns, s, b, t)
  BY <1>1, <1>2, Zenon DEF Makes, b
<1> QED BY <1>3 DEF t

LEMMA TakeMakes ==
  ASSUME NEW lns \in Seq(Line), NEW m \in Modes, NEW s, Sound(lns, s),
         s.i < Len(lns), s.open = "none",
         NEW t, t = Take(lns, m, s, BlockRule(lns, s))
  PROVE  Folds(lns, m, s, t) \/ Extends(lns, s, t) \/ \E b : Makes(lns, s, b, t)
<1> DEFINE l      == At(lns, s.i)
           active == Innermost(Seen(lns, s))
           r      == BlockRule(lns, s)
           B(kind, last) == [kind |-> kind, first |-> s.from, last |-> last]
<1>2. s.from = s.i
  BY DEF Sound
<1>3. ASSUME NEW kind, NEW last, t = Emit(s, kind, s.i, last, s.contexts), kind \notin Delicate
      PROVE  \E b : Makes(lns, s, b, t)
  BY <1>2, <1>3, EmitMakes
<1>4. ASSUME NEW kind, NEW last, t = TakeThrough(lns, s, kind, last),
             kind \in Delicate => MadeByRule(lns, s, r, B(kind, last))
      PROVE  \E b : Makes(lns, s, b, t)
  BY <1>2, <1>4, EmitMakes DEF TakeThrough
<1>5. ASSUME NEW kind, t = TakeOne(lns, s, kind), kind \notin Delicate
      PROVE  \E b : Makes(lns, s, b, t)
  BY <1>2, <1>5, EmitMakes DEF TakeOne
<1>6. ASSUME NEW o \in {"quote", "list"},
             t = [s EXCEPT !.i = @ + 1, !.open = o, !.from = s.i,
                           !.contexts = UpdateContext(l, Seen(lns, s))]
      PROVE  Extends(lns, s, t)
  <2>1. s = [s EXCEPT !.from = s.i]
    BY <1>2 DEF Sound
  <2>2. t = [s EXCEPT !.i = @ + 1, !.open = o, !.contexts = UpdateContext(l, Seen(lns, s))]
    BY <1>6, <2>1 DEF Sound
  <2> QED BY <2>2 DEF Extends
<1>a. CASE r = "empty"
  <2>1. t = TakeEmpty(m, s)
    BY <1>a DEF Take
  <2>2. CASE m = "Grouped" /\ s.blocks # <<>> /\ s.blocks[Len(s.blocks)].kind = "Empty"
    <3>1. IsBlank(l)
      BY <1>a, RuleFacts
    <3> QED BY <2>1, <2>2, <3>1 DEF TakeEmpty, Folds
  <2>3. CASE ~ (m = "Grouped" /\ s.blocks # <<>> /\ s.blocks[Len(s.blocks)].kind = "Empty")
    BY <1>3, <2>1, <2>3 DEF TakeEmpty, Delicate
  <2> QED BY <2>2, <2>3
<1>b. CASE r = "image"
  BY <1>3, <1>b DEF Take, Delicate
<1>c. CASE r = "containerHtml"
  <2> DEFINE ends == ContainerHtml(lns, s.i, active, s.blocks)
  <2>1. TheEnd(ends) \in ends
    BY <1>c, RuleFacts DEF TheEnd
  <2>2. t = TakeThrough(lns, s, "RawHtml", TheEnd(ends))
    BY <1>c DEF Take, TakeContainerHtml
  <2>3. MadeByRule(lns, s, r, B("RawHtml", TheEnd(ends)))
    BY <1>c, <2>1 DEF MadeByRule
  <2> QED BY <1>4, <2>2, <2>3
<1>d. CASE r = "containerMath"
  <2> DEFINE ends == ContainerMath(lns, s.i, active)
  <2>1. TheEnd(ends) \in ends
    BY <1>d, RuleFacts DEF TheEnd
  <2>2. t = TakeThrough(lns, s, "Math", TheEnd(ends))
    BY <1>d DEF Take, TakeContainerMath
  <2>3. MadeByRule(lns, s, r, B("Math", TheEnd(ends)))
    BY <1>d, <2>1 DEF MadeByRule
  <2> QED BY <1>4, <2>2, <2>3
<1>e. CASE r = "indentedCode"
  <2>1. t = TakeThrough(lns, s, "CodeBlock", IndentedCodeEnd(lns, s.i))
    BY <1>e DEF Take
  <2>2. MadeByRule(lns, s, r, B("CodeBlock", IndentedCodeEnd(lns, s.i)))
    BY <1>e DEF MadeByRule
  <2> QED BY <1>4, <2>1, <2>2
<1>f. CASE r \in {"html", "dollarMath"}
  <2>1. \E last : t = TakeThrough(lns, s, IF r = "html" THEN "RawHtml" ELSE "Math", last)
    BY <1>f DEF Take
  <2>2. ASSUME NEW last
        PROVE  MadeByRule(lns, s, r, B(IF r = "html" THEN "RawHtml" ELSE "Math", last))
    BY <1>f DEF MadeByRule
  <2> QED BY <1>4, <2>1, <2>2
<1>h. CASE r = "fence"
  <2>1. t = TakeThrough(lns, s, FenceKind(l.leaf), FenceEnd(lns, s.i))
    BY <1>h DEF Take
  <2>2. FenceKind(l.leaf) \in Delicate => FenceKind(l.leaf) \in {"CodeBlock", "Math"}
    BY DEF FenceKind, Delicate
  <2>3. FenceKind(l.leaf) \in Delicate
          => MadeByRule(lns, s, r, B(FenceKind(l.leaf), FenceEnd(lns, s.i)))
    BY <1>h, <2>2 DEF MadeByRule
  <2> QED BY <1>4, <2>1, <2>3
<1>i. CASE r = "table"
  <2>1. t = TakeThrough(lns, s, TableKind(lns, s.i), TableEnd(lns, s.i))
    BY <1>i DEF Take
  <2>2. TableKind(lns, s.i) \in Delicate => TableKind(lns, s.i) = "Paragraph"
    BY DEF TableKind, Delicate
  <2>3. TableKind(lns, s.i) \in Delicate
          => MadeByRule(lns, s, r, B(TableKind(lns, s.i), TableEnd(lns, s.i)))
    BY <1>i, <2>2 DEF MadeByRule
  <2> QED BY <1>4, <2>1, <2>3
<1>j. CASE r \in {"rule", "heading", "checkbox", "footnote"}
  BY <1>5, <1>j DEF Take, Delicate
<1>k. CASE r = "quote"
  BY <1>6, <1>k DEF Take, OpenQuote
<1>l. CASE r = "list"
  <2>1. t = TakeList(lns, m, s)
    BY <1>l DEF Take
  <2>2. CASE m = "Editable"
    BY <1>5, <2>1, <2>2 DEF TakeList, Delicate
  <2>3. CASE m # "Editable"
    BY <1>6, <2>1, <2>3 DEF TakeList
  <2> QED BY <2>2, <2>3
<1>m. CASE r = "paragraph"
  <2> DEFINE end == ParagraphEnd(lns, s.i, active)
  <2>1. end \in s.i + 1 .. Len(lns) /\ s.i \in Nat
    BY <1>m, ParagraphTakesItsLine DEF Sound
  <2>2. CASE end < Len(lns) /\ IsSetextUnderline(At(lns, end))
    <3>1. t = TakeThrough(lns, s, "Heading", end + 1)
      BY <1>m, <2>1, <2>2 DEF Take, TakeParagraph
    <3> QED BY <1>4, <3>1 DEF Delicate
  <2>3. CASE ~ (end < Len(lns) /\ IsSetextUnderline(At(lns, end)))
    <3>1. t = TakeThrough(lns, s, "Paragraph", end)
      BY <1>m, <2>1, <2>3 DEF Take, TakeParagraph
    <3>2. MadeByRule(lns, s, r, B("Paragraph", end))
      BY <1>m, <2>3 DEF MadeByRule
    <3> QED BY <1>4, <3>1, <3>2
  <2> QED BY <2>2, <2>3
<1> QED
  BY <1>a, <1>b, <1>c, <1>d, <1>e, <1>f, <1>h, <1>i, <1>j, <1>k, <1>l, <1>m, RuleFacts

LEMMA StepMakes ==
  ASSUME NEW lns \in Seq(Line), NEW m \in Modes, NEW s, Sound(lns, s), ~ Finished(lns, s),
         NEW t, t = Step(lns, m, s)
  PROVE  Folds(lns, m, s, t) \/ Extends(lns, s, t) \/ \E b : Makes(lns, s, b, t)
<1>2. CASE s.open = "none"
  <2>1. s.i < Len(lns)
    BY <1>2 DEF Finished, Sound
  <2>2. t = Take(lns, m, s, BlockRule(lns, s))
    BY <1>2 DEF Step
  <2> QED BY <1>2, <2>1, <2>2, TakeMakes
<1>3. ASSUME NEW kind, NEW ctxs, t = Emit(s, kind, s.from, s.i, ctxs), kind \notin Delicate
      PROVE  \E b : Makes(lns, s, b, t)
  BY <1>3, EmitMakes
<1>4. CASE s.open = "quote"
  <2>1. CASE QuoteEnds(lns, s)
    BY <1>3, <1>4, <2>1 DEF Step, CloseQuote, Delicate, Finished
  <2>2. CASE ~ QuoteEnds(lns, s)
    <3>1. t = ExtendOpen(lns, s) /\ s.i < Len(lns)
      BY <1>4, <2>2 DEF Step, QuoteEnds, Finished
    <3>2. t = [s EXCEPT !.i = @ + 1, !.open = "quote", !.contexts = Seen(lns, s)]
      BY <1>4, <3>1 DEF ExtendOpen, Sound
    <3> QED BY <3>1, <3>2 DEF Extends
  <2> QED BY <2>1, <2>2
<1>5. CASE s.open = "list"
  <2>1. CASE ListEnds(lns, s)
    BY <1>3, <1>5, <2>1 DEF Step, CloseList, Delicate, Finished
  <2>2. CASE ~ ListEnds(lns, s)
    <3>1. t = ExtendOpen(lns, s) /\ s.i < Len(lns)
      BY <1>5, <2>2 DEF Step, ListEnds, ListInterrupted, Finished, Sound
    <3>2. t = [s EXCEPT !.i = @ + 1, !.open = "list", !.contexts = Seen(lns, s)]
      BY <1>5, <3>1 DEF ExtendOpen, Sound
    <3> QED BY <3>1, <3>2 DEF Extends
  <2> QED BY <2>1, <2>2
<1> QED BY <1>2, <1>4, <1>5 DEF Sound

(***************************************************************************)
(* What a block of a container reaches.                                    *)
(***************************************************************************)
LEMMA PiecesStay ==
  ASSUME NEW A, NEW lns \in Seq(A), NEW k \in 0 .. Len(lns) - 1, NEW s,
         NEW m \in k + 1 .. k + Len(Pieces(lns, k, s)) - 1
  PROVE  ContainerLine(At(lns, m), FALSE, s) # {}
<1> DEFINE Out(n) == ContainerLine(At(lns, n), FALSE, s) = {}
           leaves == { n \in k + 1 .. Len(lns) - 1 : Out(n) }
<1>1. leaves \in SUBSET (k + 1 .. Len(lns))
  <2> HIDE DEF Out
  <2> QED OBVIOUS
<1>2. FirstOf(lns, leaves) \in k + 1 .. Len(lns)
  <2> HIDE DEF leaves
  <2>1. k + 1 \in Nat /\ k + 1 <= Len(lns)
    OBVIOUS
  <2> QED BY <1>1, <2>1, FirstOfBounds
<1>3. Len(Pieces(lns, k, s)) = FirstOf(lns, leaves) - k
  <2> DEFINE e(n) == CHOOSE l \in ContainerLine(At(lns, k + n - 1), n = 1, s) : TRUE
  <2>1. Pieces(lns, k, s) = [n \in 1 .. FirstOf(lns, leaves) - k |-> e(n)]
    BY DEF Pieces
  <2> HIDE DEF leaves, e
  <2> QED BY <1>2, <2>1
<1>4. m \in k + 1 .. FirstOf(lns, leaves) - 1 /\ FirstOf(lns, leaves) = Min({Len(lns)} \cup leaves)
  <2> HIDE DEF leaves
  <2> QED BY <1>2, <1>3 DEF FirstOf
<1>5. m \notin leaves
  <2> HIDE DEF leaves
  <2>1. leaves \in SUBSET Nat /\ Len(lns) \in Nat
    BY <1>1
  <2>2. {Len(lns)} \cup leaves \in SUBSET Nat /\ {Len(lns)} \cup leaves # {}
    BY <2>1
  <2>3. ASSUME m \in leaves PROVE Min({Len(lns)} \cup leaves) <= m
    BY <2>2, <2>3, MinIsLeast
  <2>4. FirstOf(lns, leaves) \in Nat /\ m \in Nat /\ m < FirstOf(lns, leaves)
    BY <1>2, <1>4
  <2> QED BY <1>4, <2>3, <2>4
<1>6. m \in k + 1 .. Len(lns) - 1
  <2> HIDE DEF leaves
  <2> QED BY <1>2, <1>4
<1> QED BY <1>5, <1>6

\* The lines of a block that opens on an item's own line are in the item.
LEMMA ItemHoldsPieces ==
  ASSUME NEW lns \in Seq(Line), NEW k \in 0 .. Len(lns) - 1, NEW active,
         HasMarker(Content(At(lns, k))),
         NEW s \in StartAfterContainer(At(lns, k), active),
         NEW m \in k + 1 .. k + Len(Pieces(lns, k, s)) - 1, m < Len(lns)
  PROVE  InsideItem(At(lns, m), At(lns, k))
<1> DEFINE l    == At(lns, k)
           item == MarkerContext(l)
           x    == At(lns, m)
<1>1. l \in Line /\ x \in Line
  BY DEF At
<1>2. s = Start(AfterMarker(Content(l)), Depth(l), {item}, TRUE)
  BY DEF StartAfterContainer, StartCandidates
<1>3. ContainerLine(x, FALSE, s) # {}
  BY PiecesStay
<1>4. s.depth = Depth(l) /\ s.list = {item}
  BY <1>2 DEF Start
<1> DEFINE inner == IF s.depth = 0 THEN x ELSE Content(x)
<1>5. ~ (Depth(x) < s.depth) /\ (inner.sp >= item.indent \/ IsBlank(inner))
  BY <1>3, <1>4 DEF ContainerLine
<1>6. item.indent \in Nat /\ item.indent >= 2
  <2> DEFINE n == Content(l).sp
  <2>1. item.indent \in n + 2 .. n + 3
    BY <1>1, MarkerContextType
  <2>2. n \in Nat
    BY <1>1, LineParts
  <2> HIDE DEF item, n
  <2> QED BY <2>1, <2>2
<1>7. CASE Depth(l) = 0
  <2>1. x.sp >= item.indent \/ IsBlank(x)
    BY <1>4, <1>5, <1>7
  <2>2. ~ x.quote
    <3>1. x.quote => x.sp = 0
      BY <1>1 DEF Line
    <3>2. x.quote => ~ IsBlank(x)
      BY DEF IsBlank, Bare
    <3> HIDE DEF item, x
    <3> QED BY <1>6, <2>1, <3>1, <3>2
  <2> QED BY <1>7, <2>1, <2>2 DEF InsideItem, Depth, Content
<1>8. CASE Depth(l) = 1
  <2>1. Depth(x) = 1
    BY <1>1, <1>4, <1>5, <1>8, LineParts
  <2> QED BY <1>4, <1>5, <1>8, <2>1 DEF InsideItem
<1> QED BY <1>1, <1>7, <1>8, LineParts

(***************************************************************************)
(* Blocks stay in their item, and code ends in text: each is a property of *)
(* one block, which it has when it is made.                                *)
(***************************************************************************)
StaysInItem(lns, b) ==
  b.kind \in {"Math", "RawHtml"} /\ HasMarker(Content(At(lns, b.first)))
    => \A k \in b.first + 1 .. b.last - 1 : InsideItem(At(lns, k), At(lns, b.first))

LEMMA ContainedStays ==
  ASSUME NEW lns \in Seq(Line), NEW k \in 0 .. Len(lns) - 1, NEW active,
         HasMarker(Content(At(lns, k))),
         NEW e, EndsInPieces(lns, k, active, e)
  PROVE  \A m \in k + 1 .. e - 1 : InsideItem(At(lns, m), At(lns, k))
<1>1. PICK s \in StartAfterContainer(At(lns, k), active) :
        e \in k + 1 .. k + Len(Pieces(lns, k, s))
  BY DEF EndsInPieces
<1>2. e \in k + 1 .. Len(lns)
  BY EndsInPiecesBounds
<1>3. Len(Pieces(lns, k, s)) \in Nat
  BY PiecesShape
<1> SUFFICES ASSUME NEW m \in k + 1 .. e - 1 PROVE InsideItem(At(lns, m), At(lns, k))
  OBVIOUS
<1>4. m \in k + 1 .. k + Len(Pieces(lns, k, s)) - 1 /\ m < Len(lns)
  BY <1>1, <1>2, <1>3
<1> QED BY <1>4, ItemHoldsPieces

LEMMA MadeStays ==
  ASSUME NEW lns \in Seq(Line), NEW s, Sound(lns, s), NEW b, NEW t, Makes(lns, s, b, t)
  PROVE  StaysInItem(lns, b)
<1> SUFFICES ASSUME b.kind \in {"Math", "RawHtml"}, HasMarker(Content(At(lns, b.first)))
             PROVE  \A k \in b.first + 1 .. b.last - 1 : InsideItem(At(lns, k), At(lns, b.first))
  BY DEF StaysInItem
<1> DEFINE l      == At(lns, s.i)
           active == Innermost(Seen(lns, s))
<1>1. /\ s.i \in 0 .. Len(lns) - 1 /\ b.first = s.i
      /\ MadeByRule(lns, s, BlockRule(lns, s), b)
  BY DEF Makes, Sound, Delicate
<1>2. ~ Bare(l)
  BY <1>1 DEF Bare, Content, HasMarker
<1>3. BlockRule(lns, s) \notin {"html", "dollarMath", "fence"}
  <2> DEFINE r == BlockRule(lns, s)
  <2>1. ~ StartsHtml(l) /\ DollarMath(lns, s.i) = {} /\ ~ OpensFence(l)
    BY <1>2 DEF StartsHtml, DollarMath, OpensFence
  <2>2. /\ r = "html" => StartsHtml(l)
        /\ r = "dollarMath" => DollarMath(lns, s.i) # {}
        /\ r = "fence" => OpensFence(l)
    BY DEF BlockRule
  <2> QED BY <2>1, <2>2
<1>4. \/ b.last \in ContainerHtml(lns, s.i, active, s.blocks)
      \/ b.last \in ContainerMath(lns, s.i, active)
  BY <1>1, <1>3 DEF MadeByRule
<1>5. EndsInPieces(lns, s.i, active, b.last)
  BY <1>1, <1>4, ContainerHtmlEnds, ContainerMathEnds
<1> QED BY <1>1, <1>5, ContainedStays

EndsInText(lns, b) ==
  b.kind = "CodeBlock" /\ StartsIndentedCode(At(lns, b.first)) => ~ IsBlank(At(lns, b.last - 1))

ShortBlanks(lns) == \A k \in 1 .. Len(lns) : IsBlank(lns[k]) => lns[k].sp <= 4

LEMMA IndentedCodeEndsInCode ==
  ASSUME NEW A, NEW s \in Seq(A), NEW k \in 0 .. Len(s) - 1, StartsIndentedCode(At(s, k))
  PROVE  StartsIndentedCode(At(s, IndentedCodeEnd(s, k) - 1))
<1> DEFINE S   == { m \in k .. Len(s) - 1 : ~ StartsIndentedCode(At(s, m)) /\ ~ IsBlank(At(s, m)) }
           run == FirstOf(s, S)
           C   == { m \in k .. run - 1 : StartsIndentedCode(At(s, m)) }
<1>1. S \in SUBSET (k + 1 .. Len(s))
  OBVIOUS
<1>2. run \in k + 1 .. Len(s)
  <2> HIDE DEF S
  <2> QED BY <1>1, FirstOfBounds
<1>3. C \in SUBSET (0 .. Len(s)) /\ C # {} /\ C \in SUBSET Nat
  <2> HIDE DEF run
  <2> QED BY <1>2
<1>4. Max(C) \in C
  <2> HIDE DEF C
  <2>1. Len(s) \in Nat
    OBVIOUS
  <2> QED BY <1>3, <2>1, MaxIsGreatest
<1>5. IndentedCodeEnd(s, k) = 1 + Max(C)
  BY DEF IndentedCodeEnd
<1>6. StartsIndentedCode(At(s, Max(C)))
  <2> HIDE DEF run
  <2> QED BY <1>4
<1> HIDE DEF C
<1>7. IndentedCodeEnd(s, k) - 1 = Max(C)
  <2> DEFINE last == Max(C)
  <2>1. last \in Nat
    BY <1>3, <1>4
  <2> HIDE DEF last
  <2>2. (1 + last) - 1 = last
    BY <2>1
  <2> QED BY <1>5, <2>2 DEF last
<1> QED BY <1>6, <1>7

LEMMA MadeEndsInText ==
  ASSUME NEW lns \in Seq(Line), ShortBlanks(lns), NEW s, Sound(lns, s),
         NEW b, NEW t, Makes(lns, s, b, t)
  PROVE  EndsInText(lns, b)
<1> SUFFICES ASSUME b.kind = "CodeBlock", StartsIndentedCode(At(lns, b.first))
             PROVE  ~ IsBlank(At(lns, b.last - 1))
  BY DEF EndsInText
<1> DEFINE r == BlockRule(lns, s)
<1>1. /\ s.i \in 0 .. Len(lns) - 1 /\ b.first = s.i
      /\ MadeByRule(lns, s, r, b)
  BY DEF Makes, Sound, Delicate
<1>2. r = "fence" => ~ StartsIndentedCode(At(lns, s.i))
  BY DEF BlockRule
<1>3. r = "indentedCode" => StartsIndentedCode(At(lns, s.i))
  BY DEF BlockRule
<1> HIDE DEF r
<1>4. b.last = IndentedCodeEnd(lns, s.i) /\ StartsIndentedCode(At(lns, s.i))
  BY <1>1, <1>2, <1>3 DEF MadeByRule
<1>5. StartsIndentedCode(At(lns, b.last - 1))
  BY <1>1, <1>4, IndentedCodeEndsInCode
<1>6. b.last \in s.i + 1 .. Len(lns)
  BY <1>1, <1>4, IndentedCodeEndBounds
<1> DEFINE l == At(lns, b.last - 1)
<1>7. l \in Line /\ (IsBlank(l) => l.sp <= 4)
  BY <1>1, <1>6 DEF ShortBlanks, At
<1> HIDE DEF l
<1>8. l.sp \in Nat
  BY <1>7 DEF Line
<1> QED BY <1>5, <1>7, <1>8 DEF StartsIndentedCode, IsIndentedCodeLine, l

(***************************************************************************)
(* Paragraphs separate.  After a paragraph the line that stopped it is     *)
(* known, and when it comes to start one itself no other rule claims it.   *)
(***************************************************************************)
\* A line that holds something inside of an open item leaves the stack alone.
LEMMA InsideKeepsStack ==
  ASSUME NEW l \in Line, ~ l.quote, ~ HasMarker(l), NEW ctxs \in Seq(Context),
         StartAfterContainer(l, Innermost(ctxs)) # {}
  PROVE  UpdateContext(l, ctxs) = ctxs
<1> DEFINE n == Len(ctxs)
           H == {0} \cup { k \in 1 .. n : Holds(ctxs[k], l) }
<1>1. Content(l) = l
  BY DEF Content
<1>2. PICK s \in StartCandidates(l, Innermost(ctxs)) : TRUE
  BY DEF StartAfterContainer
<1>3. PICK c \in Innermost(ctxs) : c.quote = Depth(l) /\ Content(l).sp >= c.indent
  BY <1>1, <1>2 DEF StartCandidates
<1>4. n \in Nat /\ n # 0 /\ c = ctxs[n]
  BY <1>3 DEF Innermost
<1>5. n \in H /\ H \in SUBSET (0 .. n)
  BY <1>3, <1>4 DEF Holds
<1> HIDE DEF H, n
<1>6. Max(H) = n
  <2> DEFINE top == Max(H)
  <2>1. top \in H /\ n <= top
    BY <1>4, <1>5, MaxIsGreatest
  <2> HIDE DEF top
  <2>2. top = n
    BY <1>4, <1>5, <2>1
  <2> QED BY <2>2 DEF top
<1>7. StillOpen(l, ctxs) = SubSeq(ctxs, 1, n)
  BY <1>6 DEF StillOpen, H, n
<1>8. SubSeq(ctxs, 1, n) = ctxs
  BY DEF n
<1> QED BY <1>1, <1>7, <1>8 DEF UpdateContext

\* What stopped the paragraph b before line k is still there to be seen.
Stopped(lns, b, k, active) ==
  ( /\ b.kind = "Paragraph" /\ b.last = k /\ k < Len(lns)
    /\ ~ StartsTable(lns, b.first) )
    => EndsParagraph(lns, b.first, k, active) /\ ~ IsSetextUnderline(At(lns, k))

StopSeen(lns, s) ==
  s.open = "none" /\ s.blocks # <<>>
    => Stopped(lns, s.blocks[Len(s.blocks)], s.i, Innermost(s.contexts))

\* A paragraph that starts where another stopped starts with "$$".
LEMMA ParagraphAfterStop ==
  ASSUME NEW lns \in Seq(Line), NEW s, Sound(lns, s), s.i < Len(lns),
         BlockRule(lns, s) = "paragraph",
         NEW first, EndsParagraph(lns, first, s.i, Innermost(s.contexts)),
         ~ IsSetextUnderline(At(lns, s.i))
  PROVE  StartsWithDollars(At(lns, s.i))
<1> DEFINE l      == At(lns, s.i)
           before == Innermost(s.contexts)
           active == Innermost(Seen(lns, s))
<1>1. l \in Line /\ s.contexts \in Seq(Context)
  BY DEF Sound, At
<1>2. ~ StartsOther(lns, s.i, active) /\ ~ l.quote /\ ~ HasMarker(l) /\ ~ OpensFence(l)
  BY ParagraphKeepsItsLine DEF OpensQuote
<1>3. StartsOther(lns, s.i, before) \/ HeldBack(l, before)
  BY DEF EndsParagraph
<1>4. CASE StartAfterContainer(l, before) = {}
  <2>1. ~ HtmlInterruptsContainer(l, before) /\ MathStartAfterContainer(l, before) = {}
    BY <1>4 DEF HtmlInterruptsContainer, HtmlStartAfterContainer, MathStartAfterContainer
  <2>2. ~ StartsOther(lns, s.i, before)
    BY <1>2, <2>1 DEF StartsOther
  <2> QED BY <1>3, <2>1, <2>2 DEF HeldBack
<1>5. CASE StartAfterContainer(l, before) # {}
  <2>1. active = before
    BY <1>1, <1>2, <1>5, InsideKeepsStack DEF Seen
  <2>2. HeldBack(l, before)
    BY <1>2, <1>3, <2>1
  <2>3. ASSUME NEW t \in MathStartAfterContainer(l, before)
        PROVE  StartsWithDollars(l)
    <3>1. t \in StartCandidates(l, before) /\ StartsMath(t.piece)
      BY DEF MathStartAfterContainer, StartAfterContainer
    <3>2. Content(l) = l
      BY <1>2 DEF Content
    <3>3. PICK c : t = Start(Dedent(l, c.indent), Depth(l), {c}, FALSE)
      BY <1>2, <3>1, <3>2 DEF StartCandidates
    <3>4. t.piece = [l EXCEPT !.sp = l.sp - c.indent]
      BY <3>3 DEF Start, Dedent
    <3>5. t.piece.quote = l.quote /\ t.piece.mark = l.mark /\ t.piece.leaf = l.leaf
      BY <1>1, <3>4 DEF Line
    <3>6. ~ (Bare(l) /\ l.leaf = "mathFence")
      BY <1>2 DEF OpensFence, Fences, Backticks
    <3> QED BY <3>1, <3>5, <3>6 DEF StartsMath, StartsWithDollars, Bare
  <2> QED BY <2>2, <2>3 DEF HeldBack
<1> QED BY <1>4, <1>5

LEMMA ParagraphEndStops ==
  ASSUME NEW lns \in Seq(Line), NEW k \in Nat, NEW active, NEW e,
         e = ParagraphEnd(lns, k, active), e < Len(lns)
  PROVE  EndsParagraph(lns, k, e, active)
<1> DEFINE P(n) == EndsParagraph(lns, k, n, active)
           S    == { n \in k .. Len(lns) - 1 : P(n) }
<1>1. e = Min({Len(lns)} \cup S)
  BY DEF ParagraphEnd, FirstOf
<1>2. \A n \in S : P(n)
  OBVIOUS
<1>3. S \in SUBSET Nat /\ Len(lns) \in Nat
  <2> HIDE DEF P
  <2> QED OBVIOUS
<1> HIDE DEF S, P
<1>4. {Len(lns)} \cup S \in SUBSET Nat /\ {Len(lns)} \cup S # {}
  BY <1>3
<1>5. e \in {Len(lns)} \cup S
  BY <1>1, <1>4, MinIsLeast
<1>6. e \in S
  BY <1>3, <1>5
<1> QED BY <1>2, <1>6 DEF P

LEMMA MadeStops ==
  ASSUME NEW lns \in Seq(Line), NEW s, Sound(lns, s), NEW b, NEW t, Makes(lns, s, b, t)
  PROVE  StopSeen(lns, t)
<1> DEFINE r      == BlockRule(lns, s)
           active == Innermost(Seen(lns, s))
<1>1. t.blocks = Append(s.blocks, b) /\ t.i = b.last /\ s.blocks \in Seq(Block)
  BY DEF Makes, Sound
<1>2. t.blocks[Len(t.blocks)] = b
  BY <1>1
<1> SUFFICES ASSUME b.kind = "Paragraph", b.last < Len(lns), ~ StartsTable(lns, b.first)
             PROVE  /\ EndsParagraph(lns, b.first, b.last, Innermost(t.contexts))
                    /\ ~ IsSetextUnderline(At(lns, b.last))
  BY <1>1, <1>2 DEF StopSeen, Stopped
<1>3. /\ s.i \in Nat /\ b.first = s.i /\ MadeByRule(lns, s, r, b) /\ Innermost(t.contexts) = active
  BY DEF Makes, Sound, Delicate
<1>4. r # "table"
  BY <1>3 DEF BlockRule
<1> HIDE DEF r
<1>5. b.last = ParagraphEnd(lns, s.i, active) /\ ~ IsSetextUnderline(At(lns, b.last))
  BY <1>3, <1>4 DEF MadeByRule
<1> QED BY <1>3, <1>5, ParagraphEndStops

Separate(lns, b, c) ==
  ( /\ b.kind = "Paragraph" /\ c.kind = "Paragraph"
    /\ b.last = c.first )
    => \/ StartsWithDollars(At(lns, c.first))
       \/ StartsTable(lns, b.first)
       \/ StartsTable(lns, c.first)

LEMMA MadeSeparates ==
  ASSUME NEW lns \in Seq(Line), NEW s, Sound(lns, s), StopSeen(lns, s), s.blocks # <<>>,
         NEW b, NEW t, Makes(lns, s, b, t)
  PROVE  Separate(lns, s.blocks[Len(s.blocks)], b)
<1> DEFINE a == s.blocks[Len(s.blocks)]
           r == BlockRule(lns, s)
<1> SUFFICES ASSUME a.kind = "Paragraph", b.kind = "Paragraph", a.last = b.first,
                    ~ StartsTable(lns, a.first), ~ StartsTable(lns, b.first)
             PROVE  StartsWithDollars(At(lns, b.first))
  BY DEF Separate
<1>1. /\ s.open = "none" /\ s.i < Len(lns) /\ b.first = s.i /\ MadeByRule(lns, s, r, b)
  BY DEF Makes, Sound, Delicate
<1>2. r # "table"
  BY <1>1 DEF BlockRule
<1> HIDE DEF r
<1>3. r = "paragraph"
  BY <1>1, <1>2 DEF MadeByRule
<1>4. /\ EndsParagraph(lns, a.first, s.i, Innermost(s.contexts))
      /\ ~ IsSetextUnderline(At(lns, s.i))
  BY <1>1 DEF StopSeen, Stopped
<1> QED BY <1>1, <1>3, <1>4, ParagraphAfterStop DEF r

(***************************************************************************)
(* The three properties, of any state.                                     *)
(***************************************************************************)
\* A step keeps what every new block has.
LEMMA OneMoreBlock ==
  ASSUME NEW lns, NEW s, Sound(lns, s), NEW b, NEW t, Makes(lns, s, b, t)
  PROVE  /\ Len(t.blocks) = Len(s.blocks) + 1 /\ Len(s.blocks) \in Nat
         /\ t.blocks[Len(s.blocks) + 1] = b
         /\ \A n \in 1 .. Len(s.blocks) : t.blocks[n] = s.blocks[n]
<1>1. t.blocks = Append(s.blocks, b) /\ s.blocks \in Seq(Block)
  BY DEF Makes, Sound
<1> QED BY <1>1

AllStay(lns, s)     == \A n \in 1 .. Len(s.blocks) : StaysInItem(lns, s.blocks[n])
AllEndInText(lns, s) == \A n \in 1 .. Len(s.blocks) : EndsInText(lns, s.blocks[n])
AllSeparate(lns, s) ==
  /\ StopSeen(lns, s)
  /\ \A n \in 1 .. Len(s.blocks) - 1 : Separate(lns, s.blocks[n], s.blocks[n + 1])

LEMMA StepStays ==
  ASSUME NEW lns \in Seq(Line), NEW m \in Modes, NEW s, Sound(lns, s), ~ Finished(lns, s),
         AllStay(lns, s), NEW t, t = Step(lns, m, s)
  PROVE  AllStay(lns, t)
<1>1. CASE Folds(lns, m, s, t) \/ Extends(lns, s, t)
  <2>1. t.blocks = s.blocks
    BY <1>1 DEF Folds, Extends, Sound
  <2> QED BY <2>1 DEF AllStay
<1>2. ASSUME NEW b, Makes(lns, s, b, t) PROVE AllStay(lns, t)
  <2>1. StaysInItem(lns, b)
    BY <1>2, MadeStays
  <2> QED BY <1>2, <2>1, OneMoreBlock DEF AllStay
<1> QED BY <1>1, <1>2, StepMakes

LEMMA StepEndsInText ==
  ASSUME NEW lns \in Seq(Line), ShortBlanks(lns), NEW m \in Modes, NEW s, Sound(lns, s),
         ~ Finished(lns, s), AllEndInText(lns, s), NEW t, t = Step(lns, m, s)
  PROVE  AllEndInText(lns, t)
<1>1. CASE Folds(lns, m, s, t) \/ Extends(lns, s, t)
  <2>1. t.blocks = s.blocks
    BY <1>1 DEF Folds, Extends, Sound
  <2> QED BY <2>1 DEF AllEndInText
<1>2. ASSUME NEW b, Makes(lns, s, b, t) PROVE AllEndInText(lns, t)
  <2>1. EndsInText(lns, b)
    BY <1>2, MadeEndsInText
  <2> QED BY <1>2, <2>1, OneMoreBlock DEF AllEndInText
<1> QED BY <1>1, <1>2, StepMakes

LEMMA StepSeparates ==
  ASSUME NEW lns \in Seq(Line), NEW m \in Modes, NEW s, Sound(lns, s), ~ Finished(lns, s),
         AllSeparate(lns, s), NEW t, t = Step(lns, m, s)
  PROVE  AllSeparate(lns, t)
<1>1. CASE Extends(lns, s, t)
  <2>1. t.blocks = s.blocks /\ t.open # "none"
    BY <1>1 DEF Extends, Sound
  <2> QED BY <2>1 DEF AllSeparate, StopSeen
<1>2. CASE Folds(lns, m, s, t)
  <2>1. t.blocks = s.blocks /\ s.blocks[Len(s.blocks)].kind = "Empty"
    BY <1>2 DEF Folds, Sound
  <2> QED BY <2>1 DEF AllSeparate, StopSeen, Stopped
<1>3. ASSUME NEW b, Makes(lns, s, b, t) PROVE AllSeparate(lns, t)
  <2>1. StopSeen(lns, t)
    BY <1>3, MadeStops
  <2>2. ASSUME NEW n \in 1 .. Len(t.blocks) - 1
        PROVE  Separate(lns, t.blocks[n], t.blocks[n + 1])
    <3>1. CASE n # Len(s.blocks)
      <4>1. n \in 1 .. Len(s.blocks) - 1 /\ t.blocks[n] = s.blocks[n] /\ t.blocks[n + 1] = s.blocks[n + 1]
        BY <1>3, <3>1, OneMoreBlock
      <4> QED BY <4>1 DEF AllSeparate
    <3>2. CASE n = Len(s.blocks)
      <4>1. t.blocks[n] = s.blocks[Len(s.blocks)] /\ t.blocks[n + 1] = b /\ s.blocks # <<>>
        BY <1>3, <3>2, OneMoreBlock
      <4>2. Separate(lns, s.blocks[Len(s.blocks)], b)
        BY <1>3, <4>1, MadeSeparates DEF AllSeparate
      <4> QED BY <4>1, <4>2
    <3> QED BY <3>1, <3>2
  <2> QED BY <2>1, <2>2 DEF AllSeparate
<1> QED BY <1>1, <1>2, <1>3, StepMakes

(* A formula or a tag that opens on a list item's own line takes no line   *)
(* of a sibling item, whatever the document (container_line and the rules  *)
(* that use it in parse_with_options).                                     *)
THEOREM ItemsKeepTheirBlocks == Spec => []BlocksStayInItem
<1>1. BlocksStayInItem <=> AllStay(lines, state)
  BY DEF BlocksStayInItem, AllStay, StaysInItem, state
<1>2. IInv /\ AllStay(lines, state) /\ [Next]_vars => AllStay(lines, state)'
  <2> SUFFICES ASSUME IInv, AllStay(lines, state), [Next]_vars PROVE AllStay(lines', state')
    OBVIOUS
  <2>1. CASE Next
    BY <2>1, NextSteps, StepStays
  <2>2. CASE UNCHANGED vars
    <3>1. lines' = lines /\ state' = state
      BY <2>2 DEF vars, state
    <3> QED BY <3>1
  <2> QED BY <2>1, <2>2
<1>3. Init => IInv /\ BlocksStayInItem
  <2>1. Init => blocks = <<>>
    BY DEF Init, ParserStart
  <2> QED BY <2>1, InvInit DEF BlocksStayInItem
<1> QED BY <1>1, <1>2, <1>3, InvNext, PTL DEF Spec

(* Two paragraphs touch only over a "$$" that opens no formula or over a   *)
(* table past the row limit: whatever else stops the paragraph loop of     *)
(* parse_with_options is claimed by an earlier rule, although update of    *)
(* the list stack comes between the two looks at the line.                 *)
THEOREM ParagraphsAreWhole == Spec => []ParagraphsSeparate
<1>1. AllSeparate(lines, state) => ParagraphsSeparate
  BY DEF ParagraphsSeparate, AllSeparate, Separate, state
<1>2. IInv /\ AllSeparate(lines, state) /\ [Next]_vars => AllSeparate(lines, state)'
  <2> SUFFICES ASSUME IInv, AllSeparate(lines, state), [Next]_vars
               PROVE  AllSeparate(lines', state')
    OBVIOUS
  <2>1. CASE Next
    BY <2>1, NextSteps, StepSeparates
  <2>2. CASE UNCHANGED vars
    <3>1. lines' = lines /\ state' = state
      BY <2>2 DEF vars, state
    <3> QED BY <3>1
  <2> QED BY <2>1, <2>2
<1>3. Init => IInv /\ AllSeparate(lines, state)
  <2>1. Init => state.blocks = <<>>
    BY DEF Init, ParserStart, state
  <2> QED BY <2>1, InvInit DEF AllSeparate, StopSeen
<1> QED BY <1>1, <1>2, <1>3, InvNext, PTL DEF Spec

(* Indented code gives its trailing blank lines back, in every document    *)
(* whose blank lines have at most four spaces.  A longer blank line counts *)
(* as code itself (is_indented_code_line), and a block may end in it.      *)
THEOREM CodeGivesBlanksBack ==
  ASSUME \A doc \in Documents : ShortBlanks(doc)
  PROVE  Spec => []CodeEndsInText
<1>1. CodeEndsInText <=> AllEndInText(lines, state)
  BY DEF CodeEndsInText, AllEndInText, EndsInText, state
<1>2. IInv /\ AllEndInText(lines, state) /\ [Next]_vars => AllEndInText(lines, state)'
  <2> SUFFICES ASSUME IInv, AllEndInText(lines, state), [Next]_vars
               PROVE  AllEndInText(lines', state')
    OBVIOUS
  <2>0. ShortBlanks(lines)
    BY DEF IInv
  <2>1. CASE Next
    BY <2>0, <2>1, NextSteps, StepEndsInText
  <2>2. CASE UNCHANGED vars
    <3>1. lines' = lines /\ state' = state
      BY <2>2 DEF vars, state
    <3> QED BY <3>1
  <2> QED BY <2>1, <2>2
<1>3. Init => IInv /\ CodeEndsInText
  <2>1. Init => blocks = <<>>
    BY DEF Init, ParserStart
  <2> QED BY <2>1, InvInit DEF CodeEndsInText
<1> QED BY <1>1, <1>2, <1>3, InvNext, PTL DEF Spec

(***************************************************************************)
(* The nested container path.                                              *)
(***************************************************************************)
Unnested(l, ctxs) == \A s \in StartAfterContainer(l, Innermost(ctxs)) : s.piece.mark = "none"

LEMMA NothingNests ==
  ASSUME NEW l \in Line, StaysUnnested(l), NEW ctxs \in Seq(Context), Nested(ctxs)
  PROVE  Unnested(l, ctxs)
<1> SUFFICES ASSUME NEW s \in StartCandidates(l, Innermost(ctxs)), s.piece.sp <= 3, s.piece.mark # "none"
             PROVE  FALSE
  BY DEF Unnested, StartAfterContainer
<1> DEFINE in == Content(l)
<1>1. /\ in.sp \in Nat /\ in.mark = l.mark /\ ~ in.quote /\ MaxListIndent \in Nat
      /\ in.mark # "none" => in.sp <= MaxListIndent \/ in.sp > MaxListIndent + 6
  BY LineParts, LinesAssumption DEF StaysUnnested, Content, Line
<1>2. \A c \in Innermost(ctxs) : c.indent \in Nat /\ c.indent <= MaxListIndent + 3
  <2>1. CASE ctxs = <<>>
    BY <2>1 DEF Innermost
  <2>2. CASE ctxs # <<>>
    <3>1. Len(ctxs) \in 1 .. Len(ctxs)
      BY <2>2
    <3>2. ctxs[Len(ctxs)] \in Context /\ ctxs[Len(ctxs)].indent <= MaxListIndent + 3
      BY <3>1 DEF Nested
    <3> QED BY <2>2, <3>2 DEF Innermost, Context
  <2> QED BY <2>1, <2>2
<1>3. CASE HasMarker(in)
  <2>1. s.piece = AfterMarker(in)
    BY <1>3 DEF StartCandidates, Start
  <2> QED BY <2>1 DEF AfterMarker
<1>4. CASE ~ HasMarker(in)
  <2>1. \/ \E c \in Innermost(ctxs) : in.sp >= c.indent /\ s.piece = Dedent(in, c.indent)
        \/ s.piece = in
    BY <1>4 DEF StartCandidates, Start
  <2>2. s.piece.mark = in.mark
    <3>1. in \in [sp : Nat, quote : BOOLEAN, gap : Nat, mark : Marks, leaf : Leaves]
      BY DEF Content, Line
    <3>2. \A n : Dedent(in, n).mark = in.mark
      BY <3>1 DEF Dedent
    <3> QED BY <2>1, <3>2
  <2>3. in.sp > MaxListIndent + 6
    BY <1>1, <1>4, <2>2 DEF HasMarker
  <2>4. CASE s.piece = in
    BY <1>1, <2>3, <2>4
  <2>5. ASSUME NEW c \in Innermost(ctxs), s.piece = Dedent(in, c.indent)
        PROVE  FALSE
    <3>1. s.piece.sp = in.sp - c.indent
      BY <2>5 DEF Dedent
    <3> QED BY <1>1, <1>2, <2>3, <3>1
  <2> QED BY <2>1, <2>4, <2>5
<1> QED BY <1>3, <1>4

(* Where no marker stands in the six columns past the limit, no line of    *)
(* any document has a marker behind what its container strips, before or   *)
(* after update_list_context: start_after_container never finds a nested   *)
(* marker, and ContainerStart::nested is empty, as the model has it.       *)
THEOREM PathsStayEmpty ==
  ASSUME \A doc \in Documents : \A k \in 1 .. Len(doc) : StaysUnnested(doc[k])
  PROVE  Spec => [](\A k \in 1 .. Len(lines) :
                      Unnested(lines[k], contexts) /\ Unnested(lines[k], UpdateContext(lines[k], contexts)))
<1>1. IInv /\ ContextsNest => \A k \in 1 .. Len(lines) :
        Unnested(lines[k], contexts) /\ Unnested(lines[k], UpdateContext(lines[k], contexts))
  <2> SUFFICES ASSUME IInv, ContextsNest, NEW k \in 1 .. Len(lines)
               PROVE  Unnested(lines[k], contexts) /\ Unnested(lines[k], UpdateContext(lines[k], contexts))
    OBVIOUS
  <2>1. lines[k] \in Line /\ StaysUnnested(lines[k])
    BY DocumentsAssumption DEF IInv
  <2>2. contexts \in Seq(Context) /\ Nested(contexts)
    BY DEF IInv, Sound, state, ContextsNest, Nested
  <2> QED BY <2>1, <2>2, NothingNests, UpdateContextNests
<1> QED BY <1>1, InvInit, InvNext, Nesting, PTL DEF Spec
=============================================================================
