---------------------------- MODULE InlineProofs ----------------------------
(***************************************************************************)
(* Proofs about Inline, SemanticTokens and Preview, for every text.        *)
(***************************************************************************)
EXTENDS Preview, Bounds, SequenceTheorems

-----------------------------------------------------------------------------
(* What the scanners find lies in the text.                                *)

EmphasisKinds == {"Italic", "Bold", "BoldItalic"}

Sits(s) ==
  /\ s.from \in Places1 /\ s.to \in Places1 /\ s.from < s.to
  /\ s.cfrom \in s.from .. s.cto /\ s.cto \in s.cfrom .. s.to

\* A span that a scanner other than those of formulas and emphasis may find.
Fits(s) == Sits(s) /\ s.kind \notin EmphasisKinds \cup {"Math"}

LEMMA SpanSits ==
  ASSUME Len(text) \in Nat, NEW kind, NEW a \in Nat, NEW b \in Nat, NEW c \in Nat, NEW d \in Nat,
         1 <= a, a <= c, c <= d, d <= b, a < b, b <= Len(text) + 1
  PROVE  Sits(Span(kind, a, b, c, d))
<1> DEFINE s == Span(kind, a, b, c, d)
<1>1. s.from = a /\ s.to = b /\ s.cfrom = c /\ s.cto = d
  BY DEF Span
<1> HIDE DEF s
<1>2. Sits(s)
  BY <1>1 DEF Sits, Places1
<1> QED BY <1>2 DEF s

LEMMA SpanFits ==
  ASSUME Len(text) \in Nat, NEW kind, kind \notin EmphasisKinds \cup {"Math"},
         NEW a \in Nat, NEW b \in Nat, NEW c \in Nat, NEW d \in Nat,
         1 <= a, a <= c, c <= d, d <= b, a < b, b <= Len(text) + 1, NEW p
  PROVE  Fits(Found(p, Span(kind, a, b, c, d)).span)
<1>1. Sits(Span(kind, a, b, c, d))
  BY SpanSits
<1>2. Span(kind, a, b, c, d).kind = kind
  BY DEF Span
<1>3. Found(p, Span(kind, a, b, c, d)).span = Span(kind, a, b, c, d)
  BY DEF Found
<1> QED BY <1>1, <1>2, <1>3, Zenon DEF Fits

\* The least of some places that lie behind p.
LEMMA LeastBehind ==
  ASSUME NEW p \in Nat, NEW q \in Nat, NEW S, S \subseteq p .. q, S # {}
  PROVE  Min(S) \in S /\ Min(S) \in p .. q /\ \A x \in S : Min(S) <= x
<1>1. S \in SUBSET Nat
  OBVIOUS
<1> QED BY <1>1, MinIsLeast

LEMMA PlacesBehind ==
  ASSUME NEW s, NEW p, NEW w
  PROVE  /\ Places(s, p, w) \subseteq p .. Len(s)
         /\ \A k \in Places(s, p, w) : Reads(s, k, w)
BY DEF Places

LEMMA LeastPlace ==
  ASSUME NEW s, Len(s) \in Nat, NEW p \in Nat, NEW w, Places(s, p, w) # {}
  PROVE  /\ Min(Places(s, p, w)) \in Places(s, p, w)
         /\ Min(Places(s, p, w)) \in p .. Len(s)
         /\ Reads(s, Min(Places(s, p, w)), w)
         /\ \A k \in Places(s, p, w) : Min(Places(s, p, w)) <= k
<1> DEFINE S == Places(s, p, w)
<1>1. S \subseteq p .. Len(s) /\ \A k \in S : Reads(s, k, w)
  BY PlacesBehind
<1> HIDE DEF S
<1>2. S # {}
  BY DEF S
<1>3. Min(S) \in S /\ Min(S) \in p .. Len(s) /\ \A x \in S : Min(S) <= x
  BY <1>1, <1>2, LeastBehind
<1>4. Reads(s, Min(S), w)
  BY <1>1, <1>3
<1> QED BY <1>3, <1>4 DEF S

LEMMA ReadsLast ==
  ASSUME NEW s, Len(s) \in Nat, NEW p \in Nat, NEW w, Reads(s, p, w), Len(w) \in Nat, NEW n \in 1 .. Len(w)
  PROVE  p + n <= Len(s) + 1
<1>1. p + n - 1 \in 1 .. Len(s)
  BY ReadsInside, Zenon
<1> QED BY <1>1

-----------------------------------------------------------------------------
\* The common case: a content from a to c, and n characters behind it.
LEMMA PairFits ==
  ASSUME Len(text) \in Nat, NEW kind, kind \notin EmphasisKinds \cup {"Math"},
         NEW p \in Nat, 1 <= p, NEW a \in Nat, p <= a, NEW c \in Nat, a <= c,
         NEW n \in Nat, 1 <= n, c + n <= Len(text) + 1
  PROVE  Fits(Found(p, Span(kind, p, c + n, a, c)).span)
<1>1. c + n \in Nat /\ c <= c + n /\ p < c + n
  OBVIOUS
<1> QED BY <1>1, SpanFits, Zenon

LEMMA PairsFit ==
  ASSUME Len(text) \in Nat, at \in Places1, NEW w, Len(w) = 2,
         NEW kind, kind \notin EmphasisKinds \cup {"Math"}
  PROVE  \A f \in Pairs(w, kind) : Fits(f.span)
<1> SUFFICES ASSUME NEW f \in Pairs(w, kind) PROVE Fits(f.span)
  OBVIOUS
<1>1. PICK p \in Places(text, at, w) :
        /\ Places(text, p + 2, w) # {}
        /\ f = Found(p, Span(kind, p, Min(Places(text, p + 2, w)) + 2, p + 2, Min(Places(text, p + 2, w))))
  BY DEF Pairs
<1> DEFINE c == Min(Places(text, p + 2, w))
<1>2. p \in Nat /\ 1 <= p /\ p + 2 \in Nat /\ p <= p + 2
  BY PlacesBehind DEF Places1
<1>3. c \in p + 2 .. Len(text) /\ Reads(text, c, w)
  BY <1>1, <1>2, LeastPlace
<1>4. f = Found(p, Span(kind, p, c + 2, p + 2, c))
  BY <1>1
<1> HIDE DEF c
<1>5. c \in Nat /\ p + 2 <= c
  BY <1>2, <1>3
<1>6. 2 \in 1 .. Len(w) /\ Len(w) \in Nat /\ 2 \in Nat /\ 1 <= 2
  OBVIOUS
<1>7. c + 2 <= Len(text) + 1
  BY <1>3, <1>5, <1>6, ReadsLast, Zenon
<1>8. Fits(Found(p, Span(kind, p, c + 2, p + 2, c)).span)
  BY <1>2, <1>5, <1>6, <1>7, PairFits, Zenon
<1> QED BY <1>4, <1>8

LEMMA WikiLinksFit ==
  ASSUME Len(text) \in Nat, at \in Places1
  PROVE  \A f \in WikiLinks : Fits(f.span)
<1> SUFFICES ASSUME NEW f \in WikiLinks PROVE Fits(f.span)
  OBVIOUS
<1> DEFINE closers(p) == { c \in p + 2 .. Len(text) : Reads(text, c, <<"]", "]">>) }
           bars(p)    == { k \in Places(text, p + 2, <<"|">>) : k < Min(closers(p)) }
           label(p)   == IF bars(p) = {} THEN p + 2 ELSE Min(bars(p)) + 1
<1>1. PICK p \in Places(text, at, <<"[", "[">>) :
        /\ closers(p) # {}
        /\ f = Found(p, Span("WikiLink", p, Min(closers(p)) + 2, label(p), Min(closers(p))))
  BY DEF WikiLinks
<1> DEFINE c == Min(closers(p))
           a == label(p)
<1>2. p \in Nat /\ 1 <= p /\ p + 2 \in Nat
  BY PlacesBehind DEF Places1
<1>3. c \in closers(p)
  <2>1. closers(p) \subseteq p + 2 .. Len(text)
    OBVIOUS
  <2> HIDE DEF closers
  <2> QED BY <1>1, <1>2, <2>1, LeastBehind
<1>4. c \in p + 2 .. Len(text) /\ Reads(text, c, <<"]", "]">>)
  BY <1>3
<1>5. a \in p + 2 .. c
  <2>1. CASE bars(p) = {}
    BY <2>1, <1>2, <1>4
  <2>2. CASE bars(p) # {}
    <3>1. bars(p) \subseteq p + 2 .. Len(text) /\ \A k \in bars(p) : k < c
      BY PlacesBehind
    <3>2. a = Min(bars(p)) + 1
      BY <2>2
    <3> HIDE DEF bars, c, a
    <3>3. Min(bars(p)) \in bars(p) /\ Min(bars(p)) \in p + 2 .. Len(text)
      BY <1>2, <2>2, <3>1, LeastBehind
    <3>4. Min(bars(p)) < c
      BY <3>1, <3>3
    <3> QED BY <1>2, <1>4, <3>2, <3>3, <3>4
  <2> QED BY <2>1, <2>2
<1>6. f = Found(p, Span("WikiLink", p, c + 2, a, c))
  BY <1>1
<1> HIDE DEF c, a
<1>7. c \in Nat /\ a \in Nat /\ p <= a /\ a <= c
  BY <1>2, <1>4, <1>5
<1>8. c + 2 <= Len(text) + 1
  BY <1>4, <1>7, ReadsTwo
<1>9. 2 \in Nat /\ 1 <= 2 /\ "WikiLink" \notin EmphasisKinds \cup {"Math"}
  BY DEF EmphasisKinds
<1>10. Fits(Found(p, Span("WikiLink", p, c + 2, a, c)).span)
  BY <1>2, <1>7, <1>8, <1>9, PairFits, Zenon
<1> QED BY <1>6, <1>10

LEMMA HexEndBounds ==
  ASSUME Len(text) \in Nat, NEW p \in 1 .. Len(text) + 1
  PROVE  HexEnd(p) \in p .. Len(text) + 1
BY SkipOverStops, Zenon DEF HexEnd

\* A text that begins with a colour begins behind that.
LEMMA HighlightTextBounds ==
  ASSUME Len(text) \in Nat, NEW p \in 1 .. Len(text) + 1
  PROVE  HighlightText(p) \in p .. Len(text) + 1
<1>1. CASE Is(text, p, "disc")
  <2>1. p \in 1 .. Len(text)
    BY <1>1, IsInside, Zenon
  <2>2. HighlightText(p) = p + 1
    BY <1>1 DEF HighlightText
  <2> QED BY <2>1, <2>2
<1>2. CASE ~ Is(text, p, "disc") /\ Reads(text, p, <<"{", "color", ":", "red", "}">>)
  <2>1. 5 \in 1 .. Len(<<"{", "color", ":", "red", "}">>) /\ Len(<<"{", "color", ":", "red", "}">>) \in Nat
    OBVIOUS
  <2>2. p \in Nat
    OBVIOUS
  <2>3. p + 5 <= Len(text) + 1
    BY <1>2, <2>1, <2>2, ReadsLast, Zenon
  <2>4. HighlightText(p) = p + 5
    BY <1>2 DEF HighlightText
  <2> QED BY <2>2, <2>3, <2>4
<1>3. CASE /\ ~ Is(text, p, "disc") /\ ~ Reads(text, p, <<"{", "color", ":", "red", "}">>)
           /\ Reads(text, p, <<"{", "#">>) /\ HexEnd(p + 2) - (p + 2) \in {3, 4, 6, 8}
           /\ Is(text, HexEnd(p + 2), "}")
  <2> p \in Nat
    OBVIOUS
  <2>1. p + 2 <= Len(text) + 1
    BY <1>3, ReadsTwo, Zenon
  <2>2. p + 2 \in 1 .. Len(text) + 1
    BY <2>1
  <2>3. HexEnd(p + 2) \in p + 2 .. Len(text) + 1
    BY <2>2, HexEndBounds
  <2>4. HexEnd(p + 2) \in 1 .. Len(text)
    BY <1>3, IsInside, Zenon
  <2>5. HighlightText(p) = HexEnd(p + 2) + 1
    BY <1>3, Zenon DEF HighlightText
  <2> QED BY <2>3, <2>4, <2>5
<1>4. CASE /\ ~ Is(text, p, "disc") /\ ~ Reads(text, p, <<"{", "color", ":", "red", "}">>)
           /\ ~ (/\ Reads(text, p, <<"{", "#">>) /\ HexEnd(p + 2) - (p + 2) \in {3, 4, 6, 8}
                 /\ Is(text, HexEnd(p + 2), "}"))
  <2>1. HighlightText(p) = p
    BY <1>4, Zenon DEF HighlightText
  <2> QED BY <2>1
<1> QED BY <1>1, <1>2, <1>3, <1>4, Zenon

LEMMA HighlightsFit ==
  ASSUME Len(text) \in Nat, at \in Places1
  PROVE  \A f \in Highlights : Fits(f.span)
<1> SUFFICES ASSUME NEW f \in Highlights PROVE Fits(f.span)
  OBVIOUS
<1> DEFINE closers(p) == { c \in HighlightText(p + 2) .. Len(text) : Reads(text, c, <<"=", "=">>) }
<1>1. PICK p \in Places(text, at, <<"=", "=">>) :
        /\ closers(p) # {}
        /\ f = Found(p, Span("Highlight", p, Min(closers(p)) + 2, HighlightText(p + 2), Min(closers(p))))
  BY DEF Highlights
<1> DEFINE c == Min(closers(p))
           a == HighlightText(p + 2)
<1>2. p \in Nat /\ 1 <= p
  BY PlacesBehind DEF Places1
<1>3. p + 2 <= Len(text) + 1
  <2>1. Reads(text, p, <<"=", "=">>)
    BY PlacesBehind, Zenon
  <2> QED BY <1>2, <2>1, ReadsTwo
<1>4. a \in p + 2 .. Len(text) + 1
  <2>1. p + 2 \in 1 .. Len(text) + 1
    BY <1>2, <1>3
  <2> QED BY <2>1, HighlightTextBounds
<1>5. f = Found(p, Span("Highlight", p, c + 2, a, c))
  BY <1>1
<1>6. closers(p) \subseteq a .. Len(text) /\ \A k \in closers(p) : Reads(text, k, <<"=", "=">>)
  OBVIOUS
<1> HIDE DEF a, closers
<1>7. c \in a .. Len(text) /\ Reads(text, c, <<"=", "=">>)
  BY <1>1, <1>2, <1>4, <1>6, LeastBehind
<1> HIDE DEF c
<1>8. a \in Nat /\ p <= a /\ c \in Nat /\ a <= c
  BY <1>2, <1>4, <1>7
<1>9. c + 2 <= Len(text) + 1
  BY <1>7, <1>8, ReadsTwo
<1>10. 2 \in Nat /\ 1 <= 2 /\ "Highlight" \notin EmphasisKinds \cup {"Math"}
  BY DEF EmphasisKinds
<1>11. Fits(Found(p, Span("Highlight", p, c + 2, a, c)).span)
  BY <1>2, <1>8, <1>9, <1>10, PairFits, Zenon
<1> QED BY <1>5, <1>11

LEMMA UnderlineTagsFit ==
  ASSUME Len(text) \in Nat, at \in Places1
  PROVE  \A f \in UnderlineTags : Fits(f.span)
<1> SUFFICES ASSUME NEW f \in UnderlineTags PROVE Fits(f.span)
  OBVIOUS
<1> DEFINE w == <<"<", "/", "u", ">">>
           closers(p) == { c \in p + 3 .. Len(text) : Reads(text, c, w) }
<1>1. PICK p \in Places(text, at, <<"<", "u", ">">>) :
        /\ closers(p) # {}
        /\ f = Found(p, Span("UnderlineHtml", p, Min(closers(p)) + 4, p + 3, Min(closers(p))))
  BY DEF UnderlineTags
<1> DEFINE c == Min(closers(p))
<1>2. p \in Nat /\ 1 <= p /\ p + 3 \in Nat /\ p <= p + 3
  BY PlacesBehind DEF Places1
<1>3. f = Found(p, Span("UnderlineHtml", p, c + 4, p + 3, c))
  BY <1>1
<1>4. closers(p) \subseteq p + 3 .. Len(text) /\ \A k \in closers(p) : Reads(text, k, w)
  OBVIOUS
<1>5. 4 \in 1 .. Len(w) /\ Len(w) \in Nat /\ 4 \in Nat /\ 1 <= 4
  OBVIOUS
<1> HIDE DEF closers, w
<1>6. c \in p + 3 .. Len(text) /\ Reads(text, c, w)
  BY <1>1, <1>2, <1>4, LeastBehind
<1> HIDE DEF c
<1>7. c \in Nat /\ p + 3 <= c
  BY <1>2, <1>6
<1>8. c + 4 <= Len(text) + 1
  BY <1>5, <1>6, <1>7, ReadsLast, Zenon
<1>9. "UnderlineHtml" \notin EmphasisKinds \cup {"Math"}
  BY DEF EmphasisKinds
<1>10. Fits(Found(p, Span("UnderlineHtml", p, c + 4, p + 3, c)).span)
  BY <1>2, <1>5, <1>7, <1>8, <1>9, PairFits, Zenon
<1> QED BY <1>3, <1>10

LEMMA TildePairsFit ==
  ASSUME Len(text) \in Nat, at \in Places1
  PROVE  \A f \in TildePairs : Fits(f.span)
<1> SUFFICES ASSUME NEW f \in TildePairs PROVE Fits(f.span)
  OBVIOUS
<1>1. PICK p \in SingleTildes(at) :
        /\ SingleTildes(p + 1) # {}
        /\ f = Found(p, Span("UnderlineTilde", p, Min(SingleTildes(p + 1)) + 1, p + 1, Min(SingleTildes(p + 1))))
  BY DEF TildePairs
<1> DEFINE c == Min(SingleTildes(p + 1))
<1>2. \A q : SingleTildes(q) \subseteq q .. Len(text)
  BY PlacesBehind DEF SingleTildes
<1>3. p \in Nat /\ 1 <= p /\ p + 1 \in Nat /\ p <= p + 1
  BY <1>2 DEF Places1
<1>4. c \in p + 1 .. Len(text)
  BY <1>1, <1>2, <1>3, LeastBehind
<1>5. f = Found(p, Span("UnderlineTilde", p, c + 1, p + 1, c))
  BY <1>1
<1> HIDE DEF c
<1>6. c \in Nat /\ p + 1 <= c /\ 1 \in Nat /\ 1 <= 1 /\ c + 1 <= Len(text) + 1
  BY <1>3, <1>4
<1>7. "UnderlineTilde" \notin EmphasisKinds \cup {"Math"}
  BY DEF EmphasisKinds
<1>8. Fits(Found(p, Span("UnderlineTilde", p, c + 1, p + 1, c)).span)
  BY <1>3, <1>6, <1>7, PairFits, Zenon
<1> QED BY <1>5, <1>8

LEMMA FootnoteRefsFit ==
  ASSUME Len(text) \in Nat, at \in Places1
  PROVE  \A f \in FootnoteRefs : Fits(f.span)
<1> SUFFICES ASSUME NEW f \in FootnoteRefs PROVE Fits(f.span)
  OBVIOUS
<1> DEFINE end(p) == SkipTo(text, p + 2, {"]", "nl"})
<1>1. PICK p \in Places(text, at, <<"[", "^">>) :
        /\ Is(text, end(p), "]") /\ end(p) > p + 2
        /\ f = Found(p, Span("FootnoteRef", p, end(p) + 1, p + 2, end(p)))
  BY DEF FootnoteRefs
<1> DEFINE c == end(p)
<1>2. p \in Nat /\ 1 <= p /\ p + 2 \in Nat /\ p <= p + 2
  BY PlacesBehind DEF Places1
<1>3. f = Found(p, Span("FootnoteRef", p, c + 1, p + 2, c))
  BY <1>1
<1>4. c \in 1 .. Len(text)
  BY <1>1, IsInside, Zenon
<1>5. c > p + 2
  BY <1>1
<1> HIDE DEF c
<1>6. c \in Nat /\ p + 2 <= c /\ 1 \in Nat /\ 1 <= 1 /\ c + 1 <= Len(text) + 1
  BY <1>2, <1>4, <1>5
<1>7. "FootnoteRef" \notin EmphasisKinds \cup {"Math"}
  BY DEF EmphasisKinds
<1>8. Fits(Found(p, Span("FootnoteRef", p, c + 1, p + 2, c)).span)
  BY <1>2, <1>6, <1>7, PairFits, Zenon
<1> QED BY <1>3, <1>8

LEMMA HexColorsFit ==
  ASSUME Len(text) \in Nat, at \in Places1
  PROVE  \A f \in HexColors : Fits(f.span)
<1> SUFFICES ASSUME NEW f \in HexColors PROVE Fits(f.span)
  OBVIOUS
<1>1. PICK p \in Places(text, at, <<"#">>) :
        /\ HexEnd(p + 1) - (p + 1) \in {3, 4, 6, 8}
        /\ f = Found(p, Span("HexColor", p, HexEnd(p + 1), p + 1, HexEnd(p + 1)))
  BY DEF HexColors
<1> DEFINE c == HexEnd(p + 1)
<1>2. p \in 1 .. Len(text)
  BY PlacesBehind DEF Places1
<1>3. c \in p + 1 .. Len(text) + 1
  BY <1>2, HexEndBounds
<1>4. f = Found(p, Span("HexColor", p, c, p + 1, c))
  BY <1>1
<1> HIDE DEF c
<1>5. /\ p \in Nat /\ 1 <= p /\ p + 1 \in Nat /\ p <= p + 1 /\ c \in Nat /\ p + 1 <= c /\ c <= c
      /\ p < c /\ c <= Len(text) + 1
  BY <1>2, <1>3
<1>6. "HexColor" \notin EmphasisKinds \cup {"Math"}
  BY DEF EmphasisKinds
<1>7. Fits(Found(p, Span("HexColor", p, c, p + 1, c)).span)
  BY <1>5, <1>6, SpanFits, Zenon
<1> QED BY <1>4, <1>7

-----------------------------------------------------------------------------
(* Addresses.                                                              *)

LEMMA SkipBackStops ==
  ASSUME NEW s, NEW p \in Nat, 1 <= p, NEW C
  PROVE  /\ SkipBack(s, p, C) \in 1 .. p
         /\ \A k \in SkipBack(s, p, C) .. p - 1 : s[k] \in C
<1> DEFINE S == { m \in 1 .. p : \A k \in m .. p - 1 : s[k] \in C }
<1>1. S \subseteq 1 .. p /\ p \in S
  OBVIOUS
<1>2. SkipBack(s, p, C) = Min(S)
  BY DEF SkipBack
<1>3. \A m \in S : \A k \in m .. p - 1 : s[k] \in C
  OBVIOUS
<1> HIDE DEF S
<1>4. Min(S) \in S /\ Min(S) \in 1 .. p
  BY <1>1, LeastBehind
<1> QED BY <1>2, <1>3, <1>4

LEMMA UrlEndBounds ==
  ASSUME NEW s, Len(s) \in Nat, NEW p \in 1 .. Len(s) + 1
  PROVE  UrlEnd(s, p) \in p .. Len(s) + 1
<1> DEFINE stops == { k \in p .. Len(s) :
                        \/ s[k] \in Blanks \cup {"<", ">", "quote"}
                        \/ s[k] = ")" /\ Count(s, p, k, ")") > Count(s, p, k, "(") }
           stop  == Min(stops \cup {Len(s) + 1})
           S     == { m \in p .. stop : \A k \in m .. stop - 1 : s[k] \in Trailing }
<1>1. UrlEnd(s, p) = Min(S)
  BY DEF UrlEnd
<1>2. stops \cup {Len(s) + 1} \subseteq p .. Len(s) + 1
  OBVIOUS
<1>3. p \in Nat /\ Len(s) + 1 \in Nat
  OBVIOUS
<1> HIDE DEF stops
<1>4. stop \in p .. Len(s) + 1
  BY <1>2, <1>3, LeastBehind
<1> HIDE DEF stop
<1>5. stop \in S /\ S \subseteq p .. stop
  BY <1>3, <1>4
<1>6. stop \in Nat
  BY <1>3, <1>4
<1> HIDE DEF S
<1>7. Min(S) \in p .. stop
  BY <1>3, <1>5, <1>6, LeastBehind
<1> QED BY <1>1, <1>3, <1>4, <1>7

LEMMA AddressFits ==
  ASSUME Len(text) \in Nat, NEW a \in 1 .. Len(text) + 1, NEW b \in 1 .. Len(text) + 1, a < b, NEW p
  PROVE  Fits(Found(p, Address(a, b)).span)
<1>1. /\ a \in Nat /\ b \in Nat /\ 1 <= a /\ a <= a /\ a <= b /\ b <= b /\ b <= Len(text) + 1
      /\ "AutoLink" \notin EmphasisKinds \cup {"Math"}
  BY DEF EmphasisKinds
<1>2. Fits(Found(p, Span("AutoLink", a, b, a, b)).span)
  BY <1>1, SpanFits, Zenon
<1> QED BY <1>2 DEF Address

LEMMA AngleLinksFit ==
  ASSUME Len(text) \in Nat
  PROVE  \A f \in AngleLinks(text) : Fits(f.span)
<1> SUFFICES ASSUME NEW f \in AngleLinks(text) PROVE Fits(f.span)
  OBVIOUS
<1> DEFINE end(p) == SkipTo(text, p + 1, {">", "<"} \cup Blanks)
<1>1. PICK p \in Places(text, 1, <<"<">>) :
        /\ Is(text, end(p), ">")
        /\ f = Found(p, Span("AutoLink", p, end(p) + 1, p + 1, end(p)))
  BY DEF AngleLinks
<1> DEFINE c == end(p)
<1>2. p \in 1 .. Len(text)
  BY PlacesBehind
<1>3. c \in p + 1 .. Len(text) + 1
  <2>1. p + 1 \in 1 .. Len(text) + 1
    BY <1>2
  <2> QED BY <2>1, SkipToStops, Zenon
<1>4. c \in 1 .. Len(text)
  BY <1>1, IsInside, Zenon
<1>5. f = Found(p, Span("AutoLink", p, c + 1, p + 1, c))
  BY <1>1
<1> HIDE DEF c
<1>6. /\ p \in Nat /\ 1 <= p /\ p + 1 \in Nat /\ p <= p + 1 /\ c \in Nat /\ p + 1 <= c
      /\ 1 \in Nat /\ 1 <= 1 /\ c + 1 <= Len(text) + 1
  BY <1>2, <1>3, <1>4
<1>7. "AutoLink" \notin EmphasisKinds \cup {"Math"}
  BY DEF EmphasisKinds
<1>8. Fits(Found(p, Span("AutoLink", p, c + 1, p + 1, c)).span)
  BY <1>6, <1>7, PairFits, Zenon
<1> QED BY <1>5, <1>8

LEMMA SchemeLinksFit ==
  ASSUME Len(text) \in Nat
  PROVE  \A f \in SchemeLinks(text) : Fits(f.span)
<1> SUFFICES ASSUME NEW f \in SchemeLinks(text) PROVE Fits(f.span)
  OBVIOUS
<1> DEFINE w == <<"http", ":", "/", "/">>
<1>1. PICK p \in 1 .. Len(text) :
        /\ Reads(text, p, w) /\ UrlEnd(text, p + 4) > p + 4
        /\ f = Found(p, Address(p, UrlEnd(text, p + 4)))
  BY DEF SchemeLinks
<1>2. 4 \in 1 .. Len(w) /\ Len(w) \in Nat /\ p \in Nat
  OBVIOUS
<1> HIDE DEF w
<1>3. p + 4 <= Len(text) + 1
  BY <1>1, <1>2, ReadsLast, Zenon
<1>4. p + 4 \in 1 .. Len(text) + 1
  BY <1>3
<1>5. UrlEnd(text, p + 4) \in p + 4 .. Len(text) + 1
  BY <1>4, UrlEndBounds
<1>6. p \in 1 .. Len(text) + 1 /\ UrlEnd(text, p + 4) \in 1 .. Len(text) + 1 /\ p < UrlEnd(text, p + 4)
  BY <1>5
<1>7. Fits(Found(p, Address(p, UrlEnd(text, p + 4))).span)
  BY <1>6, AddressFits, Zenon
<1> QED BY <1>1, <1>7

LEMMA EmailLinksFit ==
  ASSUME Len(text) \in Nat
  PROVE  \A f \in EmailLinks(text) : Fits(f.span)
<1> SUFFICES ASSUME NEW f \in EmailLinks(text) PROVE Fits(f.span)
  OBVIOUS
<1>1. PICK p \in Places(text, 1, <<"@">>) :
        /\ LocalStart(text, p) < p /\ IsDomain(text, p + 1, DomainEnd(text, p))
        /\ f = Found(p, Address(LocalStart(text, p), DomainEnd(text, p)))
  BY DEF EmailLinks
<1>2. p \in 1 .. Len(text) /\ p \in Nat /\ 1 <= p /\ p + 1 \in 1 .. Len(text) + 1
  BY PlacesBehind
<1>3. LocalStart(text, p) \in 1 .. Len(text) + 1
  <2> DEFINE b == SkipBack(text, p, Alphanumeric \cup {".", "_", "%", "+", "-"})
  <2>1. b \in 1 .. p
    BY <1>2, SkipBackStops, Zenon
  <2>2. LocalStart(text, p) = SkipOver(text, b, {"."})
    BY DEF LocalStart
  <2> HIDE DEF b
  <2>3. b \in 1 .. Len(text) + 1
    BY <1>2, <2>1
  <2>4. SkipOver(text, b, {"."}) \in b .. Len(text) + 1
    BY <2>3, SkipOverStops, Zenon
  <2> QED BY <2>1, <2>2, <2>4
<1>4. DomainEnd(text, p) \in 1 .. Len(text) + 1
  <2> DEFINE e == SkipOver(text, p + 1, DomainCharacters)
  <2>1. e \in p + 1 .. Len(text) + 1
    BY <1>2, SkipOverStops, Zenon
  <2>2. DomainEnd(text, p) = SkipBack(text, e, {".", "-"})
    BY DEF DomainEnd
  <2> HIDE DEF e
  <2>3. e \in Nat /\ 1 <= e
    BY <1>2, <2>1
  <2>4. SkipBack(text, e, {".", "-"}) \in 1 .. e
    BY <2>3, SkipBackStops, Zenon
  <2> QED BY <2>1, <2>2, <2>4
<1>5. p + 1 < DomainEnd(text, p)
  BY <1>1, Zenon DEF IsDomain
<1>6. LocalStart(text, p) < DomainEnd(text, p)
  BY <1>1, <1>2, <1>3, <1>4, <1>5
<1>7. Fits(Found(p, Address(LocalStart(text, p), DomainEnd(text, p))).span)
  BY <1>3, <1>4, <1>6, AddressFits, Zenon
<1> QED BY <1>1, <1>7

LEMMA DomainLinksFit ==
  ASSUME Len(text) \in Nat
  PROVE  \A f \in DomainLinks(text) : Fits(f.span)
<1> SUFFICES ASSUME NEW f \in DomainLinks(text) PROVE Fits(f.span)
  OBVIOUS
<1> DEFINE start(p) == SkipBack(text, p, DomainCharacters)
           tld(p)   == SkipOver(text, p + 1, Alphanumeric)
           end(p)   == IF IsIn(text, tld(p), {"/", ":"}) THEN UrlEnd(text, tld(p)) ELSE tld(p)
<1>1. PICK p \in 1 .. Len(text) : start(p) < p /\ f = Found(p, Address(start(p), end(p)))
  BY DEF DomainLinks
<1>2. p \in Nat /\ 1 <= p /\ p + 1 \in 1 .. Len(text) + 1
  OBVIOUS
<1>3. start(p) \in 1 .. p
  BY <1>2, SkipBackStops, Zenon
<1>4. tld(p) \in p + 1 .. Len(text) + 1
  BY <1>2, SkipOverStops, Zenon
<1>5. tld(p) \in 1 .. Len(text) + 1
  <2> HIDE DEF tld
  <2> QED BY <1>4
<1>6. end(p) \in tld(p) .. Len(text) + 1
  <2>1. UrlEnd(text, tld(p)) \in tld(p) .. Len(text) + 1
    BY <1>5, UrlEndBounds, Zenon
  <2>2. end(p) = UrlEnd(text, tld(p)) \/ end(p) = tld(p)
    BY Zenon
  <2> HIDE DEF tld, end
  <2> QED BY <1>4, <2>1, <2>2
<1> HIDE DEF start, tld, end
<1>7. start(p) \in 1 .. Len(text) + 1 /\ end(p) \in 1 .. Len(text) + 1 /\ start(p) < end(p)
  BY <1>3, <1>4, <1>6
<1>8. Fits(Found(p, Address(start(p), end(p))).span)
  BY <1>7, AddressFits, Zenon
<1> QED BY <1>1, <1>8

LEMMA SubredditLinksFit ==
  ASSUME Len(text) \in Nat
  PROVE  \A f \in SubredditLinks(text) : Fits(f.span)
<1> SUFFICES ASSUME NEW f \in SubredditLinks(text) PROVE Fits(f.span)
  OBVIOUS
<1> DEFINE end(p) == SkipOver(text, p + 2, Alphanumeric \cup {"_"})
<1>1. PICK p \in 1 .. Len(text) : Reads(text, p, <<"r", "/">>) /\ f = Found(p, Address(p, end(p)))
  BY DEF SubredditLinks
<1>2. p \in Nat
  OBVIOUS
<1>3. p + 2 <= Len(text) + 1
  BY <1>1, <1>2, ReadsTwo, Zenon
<1>4. p + 2 \in 1 .. Len(text) + 1
  BY <1>3
<1>5. end(p) \in p + 2 .. Len(text) + 1
  BY <1>4, SkipOverStops, Zenon
<1> HIDE DEF end
<1>6. p \in 1 .. Len(text) + 1 /\ end(p) \in 1 .. Len(text) + 1 /\ p < end(p)
  BY <1>5
<1>7. Fits(Found(p, Address(p, end(p))).span)
  BY <1>6, AddressFits, Zenon
<1> QED BY <1>1, <1>7

-----------------------------------------------------------------------------
(* The invariant.  What a pass keeps is empty before and after it.         *)

Openers == [at : Nat, left : Nat, len : Nat, closes : BOOLEAN]
Above(o) == o.at + o.left

\* Openers st and spans hd, when the asterisks before `front` are consumed.
Shape(st, hd, front) ==
  /\ st \in Seq(Openers)
  /\ \A n \in 1 .. Len(st) : st[n].at >= 1 /\ st[n].left >= 1 /\ Above(st[n]) <= front
  /\ \A m, n \in 1 .. Len(st) : m < n => Above(st[m]) <= st[n].at
  /\ \A h \in hd : h.from \in Nat /\ h.to \in Nat /\ h.to <= front
  /\ \A h \in hd, n \in 1 .. Len(st) : h.to <= st[n].at \/ Above(st[n]) <= h.from
  /\ \A g, h \in hd : ~ Crosses(g, h)

Front == IF used = 0 THEN at ELSE StarRun + used

EmphasisOK ==
  /\ used > 0 => StarPlaces # {} /\ used <= StarEnd - StarRun
  /\ Shape(stack, held, Front)

PlacesOK ==
  /\ text \in Seq(Characters)
  /\ at \in Places1
  /\ hidden \subseteq 1 .. Len(text) /\ open \in 0 .. Len(text)
  /\ quote \in Quotes \cup {"none"} /\ used \in 0 .. Len(text)

SpansOK ==
  /\ \A s \in spans : Sits(s)
  /\ \A s \in held : Sits(s)
  /\ swept \subseteq spans

ClaimsOK ==
  /\ \A c \in claimed : c \in Places1 \X Places1 /\ c[1] < c[2]
  /\ \A f \in formulas : f \in Places1 \X Places1 /\ f[1] + 1 <= f[2] - 1
  /\ pass = "code" => \A c \in claimed : c[2] <= at

PassOK ==
  /\ pass \in DOMAIN After \cup {"done"}
  /\ pass # "emphasis" => held = {} /\ used = 0
  /\ pass \notin {"plus", "emphasis"} => stack = <<>>
  /\ pass \notin {"forward", "backward"} => swept = {}
  /\ pass = "plus" => stack \in Seq(1 .. Len(text))
  /\ pass = "emphasis" => EmphasisOK

IInv == PlacesOK /\ SpansOK /\ ClaimsOK /\ PassOK

LEMMA Implied == IInv => TypeOK
<1> SUFFICES ASSUME IInv PROVE TypeOK
  OBVIOUS
<1>1. \A s \in spans \cup held : Sits(s)
  BY DEF IInv, SpansOK
<1>2. \A s \in spans \cup held :
        s.from \in Places1 /\ s.cfrom \in s.from .. s.cto /\ s.cto \in s.cfrom .. s.to /\ s.to \in Places1
  BY <1>1 DEF Sits
<1>3. claimed \cup formulas \subseteq Places1 \X Places1
  BY DEF IInv, ClaimsOK
<1> QED BY <1>2, <1>3 DEF IInv, PlacesOK, PassOK, SpansOK, TypeOK, None

LEMMA InitHolds == Init => IInv
<1> SUFFICES ASSUME Init PROVE IInv
  OBVIOUS
<1>1. text \in Seq(Characters) /\ Len(text) \in Nat
  BY InlineAssumption DEF Init
<1>2. PlacesOK
  BY <1>1 DEF PlacesOK, Init, Places1, None
<1>3. SpansOK /\ ClaimsOK
  BY DEF SpansOK, ClaimsOK, Init
<1>4. PassOK
  BY DEF PassOK, Init, After
<1> QED BY <1>2, <1>3, <1>4 DEF IInv

-----------------------------------------------------------------------------
(* The scanners, but for those with delimiters of their own.               *)

Finding == { "code", "comment", "wiki", "link", "angle", "scheme", "email", "domain", "subreddit", "hex",
             "strike", "highlight", "tag", "tilde", "footnote" }
Late  == { "plus", "hex", "emphasis", "strike", "highlight", "tag", "tilde", "footnote", "forward",
           "backward", "reject", "done" }
Last  == Late \ {"plus", "hex", "emphasis"}

LEMMA Order ==
  ASSUME NEW p \in Finding
  PROVE  /\ p \in DOMAIN After /\ After[p] \in DOMAIN After
         /\ After[p] \notin {"code", "html", "math", "plus", "backward", "reject", "done"}
         /\ p \in Late <=> After[p] \in Late
         /\ p \in Last => After[p] \in Last
BY DEF Finding, Late, Last, After

LEMMA OrderOfRest ==
  /\ After["protect"] = "html" /\ After["html"] = "math" /\ After["math"] = "plus" /\ After["plus"] = "hex"
  /\ After["emphasis"] = "strike" /\ After["forward"] = "backward" /\ After["backward"] = "reject"
  /\ After["reject"] = "done"
  /\ {"html", "math", "plus", "hex", "strike", "backward", "reject"} \subseteq DOMAIN After
BY DEF After

\* One step of such a scanner: what it may do.
Finds(x) ==
  /\ Fits(x) /\ ~ IsClaimed(Extent(x))
  /\ spans' = spans \cup {x} /\ claimed' = claimed \cup {Extent(x)}

Step ==
  /\ pass \in Finding
  /\ UNCHANGED <<text, inner>>
  /\ \/ pass' = pass /\ at' \in Places1
     \/ Leave
  /\ pass' = "code" => \A c \in claimed' : c[2] <= at'
  /\ UNCHANGED <<spans, claimed>> \/ \E x : Finds(x)

LEMMA TextLength == IInv => Len(text) \in Nat /\ at \in 1 .. Len(text) + 1 /\ at \in Places1
BY DEF IInv, PlacesOK, Places1

LEMMA RunEndBounds ==
  ASSUME Len(text) \in Nat, NEW p \in 1 .. Len(text)
  PROVE  RunEnd(p) \in p + 1 .. Len(text) + 1
<1>1. p \in 1 .. Len(text) + 1
  OBVIOUS
<1>2. /\ RunEnd(p) \in p .. Len(text) + 1
      /\ RunEnd(p) <= Len(text) => text[RunEnd(p)] \notin {text[p]}
  BY <1>1, SkipOverStops, Zenon DEF RunEnd
<1>3. RunEnd(p) # p
  BY <1>2
<1> QED BY <1>2, <1>3

LEMMA ExtentOf ==
  ASSUME NEW kind, NEW a, NEW b, NEW c, NEW d
  PROVE  /\ Extent(Span(kind, a, b, c, d)) = <<a, b>>
         /\ Span(kind, a, b, c, d).kind = kind
         /\ Span(kind, a, b, c, d).from = a /\ Span(kind, a, b, c, d).to = b
BY DEF Extent, Span

LEMMA CodeSteps == IInv /\ Code => Step
<1> SUFFICES ASSUME IInv, Code PROVE Step
  OBVIOUS
<1>1. Len(text) \in Nat /\ at \in 1 .. Len(text) + 1 /\ at \in Nat
  BY TextLength
<1> DEFINE p == Min(Places(text, at, <<"tick">>))
           c == Min(CodeCloser(p))
<1>2. p \in at .. Len(text)
  BY <1>1, LeastPlace DEF Code
<1>3. p \in 1 .. Len(text)
  BY <1>1, <1>2
<1>4. /\ pass = "code" /\ pass' = "code" /\ UNCHANGED <<text, inner>>
      /\ \/ at' = Len(text) + 1 /\ UNCHANGED <<spans, claimed>>
         \/ /\ CodeCloser(p) # {} /\ at' = RunEnd(c)
            /\ spans' = spans \cup {Span("InlineCode", p, RunEnd(c), RunEnd(p), c)}
            /\ claimed' = claimed \cup {<<p, RunEnd(c)>>}
  BY DEF Code
<1>5. CodeCloser(p) \subseteq RunEnd(p) .. Len(text)
  BY DEF CodeCloser
<1>6. \A d \in claimed : d \in Places1 \X Places1 /\ d[1] < d[2] /\ d[2] <= at
  BY <1>4 DEF IInv, ClaimsOK
<1> HIDE DEF p
<1>7. CASE at' = Len(text) + 1 /\ UNCHANGED <<spans, claimed>>
  <2>1. at' \in Places1
    BY <1>7, <1>1 DEF Places1
  <2>2. \A d \in claimed' : d[2] <= at'
    <3> SUFFICES ASSUME NEW d \in claimed PROVE d[2] <= Len(text) + 1
      BY <1>7
    <3> d \in Places1 \X Places1
      BY <1>6
    <3> QED BY <1>1 DEF Places1
  <2> QED BY <1>4, <1>7, <2>1, <2>2 DEF Step, Finding
<1>8. CASE /\ CodeCloser(p) # {} /\ at' = RunEnd(c)
           /\ spans' = spans \cup {Span("InlineCode", p, RunEnd(c), RunEnd(p), c)}
           /\ claimed' = claimed \cup {<<p, RunEnd(c)>>}
  <2>1. RunEnd(p) \in p + 1 .. Len(text) + 1
    BY <1>1, <1>3, RunEndBounds
  <2>2. c \in RunEnd(p) .. Len(text)
    <3>1. RunEnd(p) \in Nat
      BY <1>3, <2>1
    <3> QED BY <1>1, <1>5, <1>8, <3>1, LeastBehind
  <2>3. c \in 1 .. Len(text)
    BY <1>3, <2>1, <2>2
  <2> HIDE DEF c
  <2>4. RunEnd(c) \in c + 1 .. Len(text) + 1
    BY <1>1, <2>3, RunEndBounds
  <2> DEFINE x == Span("InlineCode", p, RunEnd(c), RunEnd(p), c)
  <2>5. /\ p \in Nat /\ RunEnd(p) \in Nat /\ c \in Nat /\ RunEnd(c) \in Nat
        /\ 1 <= p /\ p <= RunEnd(p) /\ RunEnd(p) <= c /\ c <= RunEnd(c) /\ p < RunEnd(c)
        /\ RunEnd(c) <= Len(text) + 1
    BY <1>3, <2>1, <2>2, <2>3, <2>4
  <2>6. Sits(x)
    BY <1>1, <2>5, SpanSits, Zenon
  <2>7. Fits(x) /\ Extent(x) = <<p, RunEnd(c)>>
    BY <2>6, ExtentOf DEF Fits, EmphasisKinds
  <2> HIDE DEF x
  <2>8. ~ IsClaimed(<<p, RunEnd(c)>>)
    <3> SUFFICES ASSUME NEW d \in claimed PROVE ~ (p < d[2])
      BY DEF IsClaimed, Overlap
    <3> d \in Places1 \X Places1 /\ d[2] <= at
      BY <1>6
    <3> QED BY <1>1, <1>2 DEF Places1
  <2>9. Finds(x)
    BY <1>8, <2>7, <2>8 DEF Finds, x
  <2>10. \A d \in claimed' : d[2] <= at'
    <3> SUFFICES ASSUME NEW d \in claimed' PROVE d[2] <= RunEnd(c)
      BY <1>8
    <3>1. CASE d \in claimed
      <4> d \in Places1 \X Places1 /\ d[2] <= at
        BY <3>1, <1>6
      <4> QED BY <1>1, <1>2, <2>5 DEF Places1
    <3>2. CASE d = <<p, RunEnd(c)>>
      BY <3>2, <2>5
    <3> QED BY <1>8, <3>1, <3>2
  <2>11. at' \in Places1
    BY <1>8, <2>5 DEF Places1
  <2> QED BY <1>4, <2>9, <2>10, <2>11 DEF Step, Finding
<1> QED BY <1>4, <1>7, <1>8

LEMMA TakeFinds ==
  ASSUME NEW x, Fits(x), Take(x)
  PROVE  UNCHANGED <<spans, claimed>> \/ \E y : Finds(y)
BY DEF Take, Finds

LEMMA LeaveSteps ==
  ASSUME pass \in Finding, Leave, UNCHANGED <<text, inner, spans, claimed>>
  PROVE  Step
<1>1. pass' # "code"
  BY Order DEF Leave
<1> QED BY <1>1 DEF Step

LEMMA LinkSteps == IInv /\ Link => Step
<1> SUFFICES ASSUME IInv, Link PROVE Step
  OBVIOUS
<1>1. Len(text) \in Nat /\ at \in 1 .. Len(text) + 1 /\ at \in Nat
  BY TextLength
<1> DEFINE p       == Min(LinkOpeners)
           label   == Closings(text, p, "[", "]")
           c       == Min(label)
           address == Closings(text, c + 1, "(", ")")
           d       == Min(address)
<1>2. /\ pass = "link" /\ pass' = "link" /\ LinkOpeners # {} /\ UNCHANGED <<text, inner>>
      /\ \/ label = {} /\ at' = Len(text) + 1 /\ UNCHANGED <<spans, claimed>>
         \/ /\ label # {} /\ at' = c + 1 /\ UNCHANGED <<spans, claimed>>
         \/ /\ label # {} /\ address = {}
            /\ at' = Len(text) + 1 /\ UNCHANGED <<spans, claimed>>
         \/ /\ label # {} /\ address # {}
            /\ at' = d + 1 /\ Take(Span("Link", p, d + 1, p + 1, c))
  BY DEF Link
<1>3. p \in 1 .. Len(text) /\ Is(text, p, "[")
  <2>1. LinkOpeners \subseteq at .. Len(text)
    BY PlacesBehind DEF LinkOpeners
  <2>2. \A k \in LinkOpeners : Is(text, k, "[")
    <3> SUFFICES ASSUME NEW k \in LinkOpeners PROVE Is(text, k, "[")
      OBVIOUS
    <3>1. Reads(text, k, <<"[">>)
      BY DEF LinkOpeners, Places
    <3>2. k \in Nat
      BY <1>1, <2>1
    <3>3. Is(text, k + 1 - 1, <<"[">>[1])
      BY <3>1 DEF Reads
    <3> QED BY <3>2, <3>3
  <2>3. p \in LinkOpeners /\ p \in at .. Len(text)
    BY <1>1, <1>2, <2>1, LeastBehind
  <2> QED BY <1>1, <2>2, <2>3
<1>4. label \subseteq p .. Len(text) /\ \A k \in label : text[k] = "]"
  BY DEF Closings
<1>5. address \subseteq c + 1 .. Len(text)
  BY DEF Closings
<1> HIDE DEF p, label, address
<1>6. ASSUME label # {} PROVE c \in p + 1 .. Len(text)
  <2>1. c \in label /\ c \in p .. Len(text)
    <3>1. p \in Nat /\ label \subseteq p .. Len(text)
      BY <1>3, <1>4
    <3> QED BY <1>1, <1>6, <3>1, LeastBehind
  <2>2. c # p
    BY <1>3, <1>4, <2>1 DEF Is
  <2> QED BY <1>3, <2>1, <2>2
<1> HIDE DEF c
<1>7. ASSUME label # {}, address # {} PROVE d \in c + 1 .. Len(text)
  <2>1. c + 1 \in Nat
    BY <1>3, <1>6, <1>7
  <2> QED BY <1>1, <1>5, <1>7, <2>1, LeastBehind
<1> HIDE DEF d
<1>8. at' \in Places1
  BY <1>1, <1>2, <1>3, <1>6, <1>7 DEF Places1
<1>9. UNCHANGED <<spans, claimed>> \/ \E x : Finds(x)
  <2> SUFFICES ASSUME label # {}, address # {}, Take(Span("Link", p, d + 1, p + 1, c))
               PROVE  UNCHANGED <<spans, claimed>> \/ \E x : Finds(x)
    BY <1>2
  <2>1. /\ p \in Nat /\ d + 1 \in Nat /\ p + 1 \in Nat /\ c \in Nat
        /\ 1 <= p /\ p <= p + 1 /\ p + 1 <= c /\ c <= d + 1 /\ p < d + 1 /\ d + 1 <= Len(text) + 1
    BY <1>1, <1>3, <1>6, <1>7
  <2>2. Sits(Span("Link", p, d + 1, p + 1, c))
    BY <1>1, <2>1, SpanSits, Zenon
  <2>3. Fits(Span("Link", p, d + 1, p + 1, c))
    BY <2>2, ExtentOf DEF Fits, EmphasisKinds
  <2> QED BY <2>3, TakeFinds, Zenon
<1> QED BY <1>2, <1>8, <1>9 DEF Step, Finding

LEMMA ScannerSteps ==
  ASSUME IInv, NEW p \in Finding \ {"code"}, NEW founds, \A f \in founds : Fits(f.span),
         Scanner(p, founds)
  PROVE  Step
<1>1. pass = p /\ UNCHANGED <<text, inner>>
  BY DEF Scanner
<1>2. CASE \E f \in founds : Take(f.span) /\ at' = f.span.to /\ UNCHANGED pass
  <2>1. PICK f \in founds : Take(f.span) /\ at' = f.span.to /\ UNCHANGED pass
    BY <1>2
  <2>2. Fits(f.span)
    OBVIOUS
  <2>3. f.span.to \in Places1
    BY <2>2 DEF Fits, Sits
  <2>4. UNCHANGED <<spans, claimed>> \/ \E x : Finds(x)
    BY <2>1, <2>2, TakeFinds, Zenon
  <2> QED BY <1>1, <2>1, <2>3, <2>4 DEF Step
<1>3. CASE Leave /\ UNCHANGED <<spans, claimed>>
  BY <1>1, <1>3, LeaveSteps, Zenon
<1> QED BY <1>2, <1>3 DEF Scanner

LEMMA FindingSteps == IInv /\ (Code \/ CodeEnd \/ Link \/ LinkEnd \/ Scanners) => Step
<1> SUFFICES ASSUME IInv, Code \/ CodeEnd \/ Link \/ LinkEnd \/ Scanners PROVE Step
  OBVIOUS
<1>1. Len(text) \in Nat /\ at \in Places1
  BY TextLength
<1>2. CASE Code
  BY <1>2, CodeSteps
<1>3. CASE CodeEnd
  <2>1. pass \in Finding
    BY <1>3 DEF CodeEnd, Finding
  <2> QED BY <1>3, <2>1, LeaveSteps, Zenon DEF CodeEnd
<1>4. CASE Link
  BY <1>4, LinkSteps
<1>5. CASE LinkEnd
  <2>1. pass \in Finding
    BY <1>5 DEF LinkEnd, Finding
  <2> QED BY <1>5, <2>1, LeaveSteps, Zenon DEF LinkEnd
<1>6. CASE Scanners
  <2>1. { "comment", "wiki", "angle", "scheme", "email", "domain", "subreddit", "hex", "strike",
          "highlight", "tag", "tilde", "footnote" } \subseteq Finding \ {"code"}
    BY DEF Finding
  <2>2. Len(<<"%", "%">>) = 2 /\ Len(<<"~", "~">>) = 2
    OBVIOUS
  <2>3. "Comment" \notin EmphasisKinds \cup {"Math"} /\ "Strikethrough" \notin EmphasisKinds \cup {"Math"}
    BY DEF EmphasisKinds
  <2>4. CASE Scanner("comment", Pairs(<<"%", "%">>, "Comment"))
    <3>1. \A f \in Pairs(<<"%", "%">>, "Comment") : Fits(f.span)
      BY <1>1, <2>2, <2>3, PairsFit, Zenon
    <3> QED BY <2>1, <2>4, <3>1, ScannerSteps
  <2>5. CASE Scanner("wiki", WikiLinks)
    BY <1>1, <2>1, <2>5, WikiLinksFit, ScannerSteps
  <2>6. CASE Scanner("angle", Ahead(AngleLinks(text)))
    <3>1. \A f \in Ahead(AngleLinks(text)) : Fits(f.span)
      BY <1>1, AngleLinksFit DEF Ahead
    <3> QED BY <2>1, <2>6, <3>1, ScannerSteps
  <2>7. CASE Scanner("scheme", Ahead(SchemeLinks(text)))
    <3>1. \A f \in Ahead(SchemeLinks(text)) : Fits(f.span)
      BY <1>1, SchemeLinksFit DEF Ahead
    <3> QED BY <2>1, <2>7, <3>1, ScannerSteps
  <2>8. CASE Scanner("email", Ahead(EmailLinks(text)))
    <3>1. \A f \in Ahead(EmailLinks(text)) : Fits(f.span)
      BY <1>1, EmailLinksFit DEF Ahead
    <3> QED BY <2>1, <2>8, <3>1, ScannerSteps
  <2>9. CASE Scanner("domain", Ahead(DomainLinks(text)))
    <3>1. \A f \in Ahead(DomainLinks(text)) : Fits(f.span)
      BY <1>1, DomainLinksFit DEF Ahead
    <3> QED BY <2>1, <2>9, <3>1, ScannerSteps
  <2>10. CASE Scanner("subreddit", Ahead(SubredditLinks(text)))
    <3>1. \A f \in Ahead(SubredditLinks(text)) : Fits(f.span)
      BY <1>1, SubredditLinksFit DEF Ahead
    <3> QED BY <2>1, <2>10, <3>1, ScannerSteps
  <2>11. CASE Scanner("hex", HexColors)
    BY <1>1, <2>1, <2>11, HexColorsFit, ScannerSteps
  <2>12. CASE Scanner("strike", Pairs(<<"~", "~">>, "Strikethrough"))
    <3>1. \A f \in Pairs(<<"~", "~">>, "Strikethrough") : Fits(f.span)
      BY <1>1, <2>2, <2>3, PairsFit, Zenon
    <3> QED BY <2>1, <2>12, <3>1, ScannerSteps
  <2>13. CASE Scanner("highlight", Highlights)
    BY <1>1, <2>1, <2>13, HighlightsFit, ScannerSteps
  <2>14. CASE Scanner("tag", UnderlineTags)
    BY <1>1, <2>1, <2>14, UnderlineTagsFit, ScannerSteps
  <2>15. CASE Scanner("tilde", TildePairs)
    BY <1>1, <2>1, <2>15, TildePairsFit, ScannerSteps
  <2>16. CASE Scanner("footnote", FootnoteRefs)
    BY <1>1, <2>1, <2>16, FootnoteRefsFit, ScannerSteps
  <2> QED BY <1>6, <2>4, <2>5, <2>6, <2>7, <2>8, <2>9, <2>10, <2>11, <2>12, <2>13, <2>14, <2>15, <2>16
             DEF Scanners
<1> QED BY <1>2, <1>3, <1>4, <1>5, <1>6, Zenon

-----------------------------------------------------------------------------
(* Emphasis.                                                               *)

LEMMA ShapeGrows ==
  ASSUME NEW st, NEW hd, NEW f \in Nat, NEW g \in Nat, f <= g, Shape(st, hd, f)
  PROVE  Shape(st, hd, g)
<1>1. st \in Seq(Openers)
  BY DEF Shape
<1>2. \A n \in 1 .. Len(st) : st[n].at >= 1 /\ st[n].left >= 1 /\ Above(st[n]) <= g
  <2> SUFFICES ASSUME NEW n \in 1 .. Len(st)
               PROVE  st[n].at >= 1 /\ st[n].left >= 1 /\ Above(st[n]) <= g
    OBVIOUS
  <2>1. st[n].at >= 1 /\ st[n].left >= 1 /\ Above(st[n]) <= f
    BY DEF Shape
  <2>2. Above(st[n]) \in Nat
    <3> st[n] \in Openers
      BY <1>1
    <3> QED BY DEF Openers, Above
  <2> QED BY <2>1, <2>2
<1>3. \A h \in hd : h.from \in Nat /\ h.to \in Nat /\ h.to <= g
  <2> SUFFICES ASSUME NEW h \in hd PROVE h.from \in Nat /\ h.to \in Nat /\ h.to <= g
    OBVIOUS
  <2>1. h.from \in Nat /\ h.to \in Nat /\ h.to <= f
    BY DEF Shape
  <2> QED BY <2>1
<1> QED BY <1>1, <1>2, <1>3, Zenon DEF Shape

\* A run whose first k asterisks close the opener n.
LEMMA ShapeCloses ==
  ASSUME NEW front \in Nat, Shape(stack, held, front),
         NEW n \in 1 .. Len(stack), NEW k \in Nat, 1 <= k, k <= stack[n].left,
         NEW h, h.from = stack[n].at + stack[n].left - k, h.to = front + k
  PROVE  Shape(Truncated(n, stack[n].left - k), held \cup {h}, front + k)
<1> DEFINE o    == stack[n]
           left == o.left - k
           st   == Truncated(n, left)
           low  == SubSeq(stack, 1, n - 1)
           top  == [o EXCEPT !.left = left]
<1>1. stack \in Seq(Openers) /\ Len(stack) \in Nat
  BY DEF Shape
<1>2. \A m \in 1 .. Len(stack) :
        /\ stack[m] \in Openers /\ stack[m].at \in Nat /\ stack[m].left \in Nat
        /\ stack[m].at >= 1 /\ stack[m].left >= 1
        /\ Above(stack[m]) = stack[m].at + stack[m].left /\ Above(stack[m]) <= front
  <2> SUFFICES ASSUME NEW m \in 1 .. Len(stack)
               PROVE  /\ stack[m] \in Openers /\ stack[m].at \in Nat /\ stack[m].left \in Nat
                      /\ stack[m].at >= 1 /\ stack[m].left >= 1
                      /\ Above(stack[m]) = stack[m].at + stack[m].left /\ Above(stack[m]) <= front
    OBVIOUS
  <2>1. stack[m] \in Openers
    BY <1>1
  <2> QED BY <2>1 DEF Shape, Openers, Above
<1>3. /\ low \in Seq(Openers) /\ Len(low) = n - 1 /\ \A m \in 1 .. n - 1 : low[m] = stack[m]
  BY <1>1
<1>4. left \in Nat
  BY <1>2
<1>5. top \in Openers /\ top.at = o.at /\ top.left = left
  BY <1>2, <1>4 DEF Openers
<1>6. \/ left = 0 /\ st = low
      \/ left # 0 /\ st = Append(low, top)
  BY DEF Truncated
<1> HIDE DEF low, top, left, st
<1>7. /\ st \in Seq(Openers) /\ Len(st) \in n - 1 .. n
      /\ \A m \in 1 .. n - 1 : st[m] = stack[m]
      /\ Len(st) = n => st[n] = top /\ left >= 1
  <2>1. n \in Nat /\ n >= 1
    BY <1>1
  <2>2. CASE left = 0
    <3>1. st = low
      BY <1>6, <2>2
    <3> QED BY <1>3, <2>1, <3>1
  <2>3. CASE left # 0
    <3>1. st = Append(low, top)
      BY <1>6, <2>3
    <3>2. /\ st \in Seq(Openers) /\ Len(st) = Len(low) + 1 /\ st[Len(low) + 1] = top
          /\ \A m \in 1 .. Len(low) : st[m] = low[m]
      BY <1>3, <1>5, <3>1
    <3> QED BY <1>3, <1>4, <2>1, <2>3, <3>2
  <2> QED BY <2>2, <2>3
<1>8. \A m \in 1 .. Len(st) :
        /\ st[m].at = stack[m].at /\ st[m].left \in Nat /\ 1 <= st[m].left /\ st[m].left <= stack[m].left
        /\ m < n => st[m].left = stack[m].left
        /\ m \in 1 .. Len(stack) /\ m <= n
        /\ m = n => st[m].left = left
        /\ Above(st[m]) = st[m].at + st[m].left
  <2> SUFFICES ASSUME NEW m \in 1 .. Len(st)
               PROVE  /\ st[m].at = stack[m].at /\ st[m].left \in Nat /\ 1 <= st[m].left
                      /\ st[m].left <= stack[m].left
                      /\ m < n => st[m].left = stack[m].left
                      /\ m \in 1 .. Len(stack) /\ m <= n
                      /\ m = n => st[m].left = left
                      /\ Above(st[m]) = st[m].at + st[m].left
    OBVIOUS
  <2>1. CASE m < n
    <3>1. m \in 1 .. n - 1 /\ m \in 1 .. Len(stack) /\ m # n /\ m <= n
      BY <1>1, <1>7, <2>1
    <3>2. st[m] = stack[m]
      BY <1>7, <3>1
    <3>3. stack[m].left \in Nat /\ 1 <= stack[m].left /\ Above(stack[m]) = stack[m].at + stack[m].left
      BY <1>2, <3>1
    <3> QED BY <3>1, <3>2, <3>3
  <2>2. CASE m = n
    <3>1. left <= o.left
      BY <1>2, <1>4 DEF left
    <3> QED BY <2>2, <3>1, <1>1, <1>2, <1>4, <1>5, <1>7 DEF Above
  <2> QED BY <2>1, <2>2, <1>7
<1>9. front + k \in Nat /\ h.from \in Nat /\ h.to = front + k /\ h.from = o.at + left
  BY <1>2 DEF left
<1>10. \A m \in 1 .. Len(st) : st[m].at >= 1 /\ st[m].left >= 1 /\ Above(st[m]) <= front + k
  <2> SUFFICES ASSUME NEW m \in 1 .. Len(st)
               PROVE  st[m].at >= 1 /\ st[m].left >= 1 /\ Above(st[m]) <= front + k
    OBVIOUS
  <2>1. m \in 1 .. Len(stack) /\ st[m].at = stack[m].at /\ 1 <= st[m].left /\ st[m].left <= stack[m].left
    BY <1>8
  <2>2. Above(st[m]) = st[m].at + st[m].left /\ st[m].left \in Nat
    BY <1>8
  <2>3. /\ stack[m].at \in Nat /\ stack[m].left \in Nat /\ stack[m].at >= 1
        /\ stack[m].at + stack[m].left <= front
    BY <2>1, <1>2
  <2> QED BY <2>1, <2>2, <2>3
<1>11. \A l, m \in 1 .. Len(st) : l < m => Above(st[l]) <= st[m].at
  <2> SUFFICES ASSUME NEW l \in 1 .. Len(st), NEW m \in 1 .. Len(st), l < m
               PROVE  Above(st[l]) <= st[m].at
    OBVIOUS
  <2>1. l \in 1 .. Len(stack) /\ m \in 1 .. Len(stack)
    BY <1>8
  <2>2. Above(stack[l]) <= stack[m].at
    BY <2>1 DEF Shape
  <2> QED BY <2>1, <2>2, <1>2, <1>8
<1>12. \A g \in held : g.from \in Nat /\ g.to \in Nat /\ g.to <= front
  BY DEF Shape
<1>13. \A g \in held, m \in 1 .. Len(stack) : g.to <= stack[m].at \/ Above(stack[m]) <= g.from
  BY DEF Shape
<1>14. \A g \in held \cup {h} : g.from \in Nat /\ g.to \in Nat /\ g.to <= front + k
  <2> SUFFICES ASSUME NEW g \in held \cup {h} PROVE g.from \in Nat /\ g.to \in Nat /\ g.to <= front + k
    OBVIOUS
  <2>1. CASE g \in held
    BY <2>1, <1>12
  <2>2. CASE g = h
    BY <2>2, <1>9
  <2> QED BY <2>1, <2>2
<1>15. \A g \in held \cup {h}, m \in 1 .. Len(st) : g.to <= st[m].at \/ Above(st[m]) <= g.from
  <2> SUFFICES ASSUME NEW g \in held \cup {h}, NEW m \in 1 .. Len(st)
               PROVE  g.to <= st[m].at \/ Above(st[m]) <= g.from
    OBVIOUS
  <2>1. m \in 1 .. Len(stack)
    BY <1>8
  <2>2. CASE g \in held
    <3>1. g.to <= stack[m].at \/ Above(stack[m]) <= g.from
      BY <2>1, <2>2, <1>13
    <3>2. g.from \in Nat /\ g.to \in Nat
      BY <2>2, <1>12
    <3>3. st[m].at = stack[m].at /\ st[m].left \in Nat /\ st[m].left <= stack[m].left
      BY <1>8
    <3>4. Above(st[m]) = st[m].at + st[m].left
      BY <1>8
    <3>5. stack[m].at \in Nat /\ stack[m].left \in Nat /\ Above(stack[m]) = stack[m].at + stack[m].left
      BY <2>1, <1>2
    <3> QED BY <3>1, <3>2, <3>3, <3>4, <3>5
  <2>3. CASE g = h
    <3>1. CASE m = n
      <4>1. Above(st[m]) = o.at + left
        <5>1. st[m].at = stack[m].at /\ (m = n => st[m].left = left) /\ Above(st[m]) = st[m].at + st[m].left
          BY <1>8
        <5> QED BY <3>1, <5>1
      <4>2. h.from \in Nat /\ h.from = o.at + left
        BY <1>9
      <4> QED BY <2>3, <4>1, <4>2
    <3>2. CASE m < n
      <4>1. Above(stack[m]) <= stack[n].at
        BY <2>1, <3>2 DEF Shape
      <4>2. Above(st[m]) = Above(stack[m])
        BY <2>1, <3>2, <1>2, <1>8
      <4>3. Above(stack[m]) \in Nat
        <5>1. stack[m].at \in Nat /\ stack[m].left \in Nat /\ Above(stack[m]) = stack[m].at + stack[m].left
          BY <2>1, <1>2
        <5> QED BY <5>1
      <4>4. o.at \in Nat /\ h.from = o.at + left
        BY <1>2, <1>9
      <4>5. Above(st[m]) <= h.from
        <5> HIDE DEF o
        <5>1. Above(stack[m]) <= o.at
          BY <4>1 DEF o
        <5> QED BY <4>2, <4>3, <4>4, <5>1, <1>4
      <4> QED BY <2>3, <4>5
    <3> QED BY <3>1, <3>2, <1>8
  <2> QED BY <2>2, <2>3
<1>16. \A g \in held : g.to <= h.from \/ (h.from <= g.from /\ g.to <= h.to)
  <2> SUFFICES ASSUME NEW g \in held PROVE g.to <= h.from \/ (h.from <= g.from /\ g.to <= h.to)
    OBVIOUS
  <2>1. g.to <= o.at \/ o.at + o.left <= g.from
    BY <1>2, <1>13
  <2>2. left <= o.left
    BY <1>2, <1>4 DEF left
  <2>3. o.at \in Nat /\ o.left \in Nat
    BY <1>2
  <2>4. g.from \in Nat /\ g.to \in Nat /\ g.to <= front
    BY <1>12
  <2> HIDE DEF o
  <2> QED BY <2>1, <2>2, <2>3, <2>4, <1>4, <1>9, SMTT(20)
<1>17. \A g1, g2 \in held \cup {h} : ~ Crosses(g1, g2)
  <2> SUFFICES ASSUME NEW g1 \in held \cup {h}, NEW g2 \in held \cup {h} PROVE ~ Crosses(g1, g2)
    OBVIOUS
  <2>1. CASE g1 \in held /\ g2 \in held
    BY <2>1 DEF Shape
  <2>2. CASE g1 \in held /\ g2 = h
    BY <2>2, <1>9, <1>14, <1>16 DEF Crosses
  <2>3. CASE g1 = h /\ g2 \in held
    BY <2>3, <1>9, <1>14, <1>16 DEF Crosses
  <2>4. CASE g1 = h /\ g2 = h
    BY <2>4, <1>9 DEF Crosses
  <2> QED BY <2>1, <2>2, <2>3, <2>4
<1>18. Shape(st, held \cup {h}, front + k)
  BY <1>7, <1>10, <1>11, <1>14, <1>15, <1>17, Zenon DEF Shape
<1> QED BY <1>18 DEF st, left

\* What is left of a run may open.
LEMMA ShapeOpens ==
  ASSUME NEW st, NEW hd, NEW front \in Nat, front >= 1, Shape(st, hd, front),
         NEW o \in Openers, o.at = front, o.left >= 1
  PROVE  Shape(Append(st, o), hd, front + o.left)
<1> DEFINE us == Append(st, o)
<1>1. st \in Seq(Openers) /\ Len(st) \in Nat
  BY DEF Shape
<1>2. /\ us \in Seq(Openers) /\ Len(us) = Len(st) + 1 /\ us[Len(st) + 1] = o
      /\ \A m \in 1 .. Len(st) : us[m] = st[m]
  BY <1>1
<1> HIDE DEF us
<1>3. \A m \in 1 .. Len(us) : us[m].at \in Nat /\ us[m].left \in Nat /\ Above(us[m]) = us[m].at + us[m].left
  <2> SUFFICES ASSUME NEW m \in 1 .. Len(us)
               PROVE  us[m].at \in Nat /\ us[m].left \in Nat /\ Above(us[m]) = us[m].at + us[m].left
    OBVIOUS
  <2> us[m] \in Openers
    BY <1>2
  <2> QED BY DEF Openers, Above
<1>4. \A m \in 1 .. Len(st) : us[m].at >= 1 /\ us[m].left >= 1 /\ Above(us[m]) <= front
  BY <1>2 DEF Shape
<1>5. o.left \in Nat
  BY DEF Openers
<1>6. \A m \in 1 .. Len(us) : us[m].at >= 1 /\ us[m].left >= 1 /\ Above(us[m]) <= front + o.left
  <2> SUFFICES ASSUME NEW m \in 1 .. Len(us)
               PROVE  us[m].at >= 1 /\ us[m].left >= 1 /\ Above(us[m]) <= front + o.left
    OBVIOUS
  <2>1. CASE m \in 1 .. Len(st)
    BY <2>1, <1>2, <1>3, <1>4, <1>5
  <2>2. CASE m = Len(st) + 1
    BY <2>2, <1>1, <1>2, <1>3
  <2> QED BY <2>1, <2>2, <1>1, <1>2
<1>7. \A l, m \in 1 .. Len(us) : l < m => Above(us[l]) <= us[m].at
  <2> SUFFICES ASSUME NEW l \in 1 .. Len(us), NEW m \in 1 .. Len(us), l < m
               PROVE  Above(us[l]) <= us[m].at
    OBVIOUS
  <2>1. l \in 1 .. Len(st)
    BY <1>1, <1>2
  <2>2. CASE m \in 1 .. Len(st)
    <3>1. Above(st[l]) <= st[m].at
      BY <2>1, <2>2 DEF Shape
    <3> QED BY <2>1, <2>2, <3>1, <1>2
  <2>3. CASE m = Len(st) + 1
    BY <2>1, <2>3, <1>2, <1>4
  <2> QED BY <2>2, <2>3, <1>1, <1>2
<1>8. \A h \in hd : h.from \in Nat /\ h.to \in Nat /\ h.to <= front
  BY DEF Shape
<1>9. \A h \in hd, m \in 1 .. Len(us) : h.to <= us[m].at \/ Above(us[m]) <= h.from
  <2> SUFFICES ASSUME NEW h \in hd, NEW m \in 1 .. Len(us)
               PROVE  h.to <= us[m].at \/ Above(us[m]) <= h.from
    OBVIOUS
  <2>1. CASE m \in 1 .. Len(st)
    <3>1. h.to <= st[m].at \/ Above(st[m]) <= h.from
      BY <2>1 DEF Shape
    <3> QED BY <2>1, <3>1, <1>2
  <2>2. CASE m = Len(st) + 1
    BY <2>2, <1>2, <1>8
  <2> QED BY <2>1, <2>2, <1>1, <1>2
<1>10. \A h \in hd : h.to <= front + o.left
  BY <1>5, <1>8
<1>11. Shape(us, hd, front + o.left)
  <2>1. \A g, h \in hd : ~ Crosses(g, h)
    BY DEF Shape
  <2> QED BY <1>2, <1>6, <1>7, <1>8, <1>9, <1>10, <2>1, Zenon DEF Shape
<1> QED BY <1>11 DEF us

LEMMA StarFacts ==
  ASSUME IInv, pass = "emphasis", StarPlaces # {}
  PROVE  /\ StarRun \in 1 .. Len(text) /\ StarEnd \in StarRun + 1 .. Len(text) + 1
         /\ used \in Nat /\ used <= StarEnd - StarRun
         /\ Shape(stack, held, StarRun + used)
<1>1. Len(text) \in Nat /\ at \in 1 .. Len(text) + 1 /\ at \in Nat
  BY TextLength
<1>2. StarRun \in at .. Len(text)
  BY <1>1, LeastPlace DEF StarRun, StarPlaces
<1>3. StarRun \in 1 .. Len(text)
  BY <1>1, <1>2
<1>4. StarEnd \in StarRun + 1 .. Len(text) + 1
  BY <1>1, <1>3, RunEndBounds, Zenon DEF StarEnd
<1>5. used \in Nat /\ EmphasisOK
  BY DEF IInv, PlacesOK, PassOK
<1>6. used <= StarEnd - StarRun
  BY <1>3, <1>4, <1>5 DEF EmphasisOK
<1>7. Shape(stack, held, Front) /\ Front \in Nat /\ StarRun + used \in Nat /\ Front <= StarRun + used
  BY <1>1, <1>2, <1>5 DEF EmphasisOK, Front
<1> QED BY <1>3, <1>4, <1>5, <1>6, <1>7, ShapeGrows, Zenon

-----------------------------------------------------------------------------
(* Every step keeps the invariant.                                         *)

LEMMA ShapeEmpty == \A f : Shape(<<>>, {}, f)
BY DEF Shape

LEMMA SpansStay == SpansOK /\ UNCHANGED <<text, spans, held, swept>> => SpansOK'
BY DEF SpansOK, Sits, Places1

LEMMA ClaimsStay ==
  ClaimsOK /\ UNCHANGED <<text, claimed, formulas>> /\ pass' # "code" => ClaimsOK'
BY DEF ClaimsOK, Places1

\* Between the passes that keep something.
LEMMA QuietPass ==
  ASSUME pass' \in DOMAIN After \cup {"done"}, pass' \notin {"plus", "emphasis", "forward", "backward"},
         held' = {}, used' = 0, stack' = <<>>, swept' = {}
  PROVE  PassOK'
BY DEF PassOK

LEMMA EmphasisStarts ==
  ASSUME pass' = "emphasis", held' = {}, used' = 0, stack' = <<>>, swept' = {}
  PROVE  PassOK'
<1>1. Shape(stack', held', Front')
  BY ShapeEmpty
<1>2. EmphasisOK'
  BY <1>1 DEF EmphasisOK
<1>3. "emphasis" \in DOMAIN After
  BY DEF After
<1> QED BY <1>2, <1>3 DEF PassOK

LEMMA AddedSpan ==
  ASSUME SpansOK, text' = text, NEW x, Sits(x), spans' = spans \cup {x}, UNCHANGED <<held, swept>>
  PROVE  SpansOK'
<1>1. \A s \in spans' : Sits(s)
  BY DEF SpansOK
<1> QED BY <1>1 DEF SpansOK, Sits, Places1

LEMMA StepKeeps == IInv /\ Step => IInv'
<1> SUFFICES ASSUME IInv, Step PROVE IInv'
  OBVIOUS
<1>1. UNCHANGED <<text, hidden, open, quote, formulas, stack, used, held, swept, rejected>> /\ pass \in Finding
  BY DEF Step, inner
<1>2. Len(text) \in Nat
  BY TextLength
<1>3. at' \in Places1
  BY <1>2 DEF Step, Leave, Places1
<1>4. PlacesOK'
  BY <1>1, <1>3 DEF IInv, PlacesOK, Places1
<1>5. SpansOK'
  <2>1. CASE UNCHANGED <<spans, claimed>>
    BY <1>1, <2>1, SpansStay DEF IInv
  <2>2. ASSUME NEW x, Finds(x) PROVE SpansOK'
    BY <1>1, <2>2, AddedSpan DEF IInv, Finds, Fits
  <2> QED BY <2>1, <2>2 DEF Step
<1>6. ClaimsOK'
  <2>1. \A c \in claimed : c \in Places1 \X Places1 /\ c[1] < c[2]
    BY DEF IInv, ClaimsOK
  <2>2. \A c \in claimed' : c \in Places1 \X Places1 /\ c[1] < c[2]
    <3>1. CASE UNCHANGED <<spans, claimed>>
      BY <2>1, <3>1
    <3>2. ASSUME NEW x, Finds(x) PROVE \A c \in claimed' : c \in Places1 \X Places1 /\ c[1] < c[2]
      <4>1. x.from \in Places1 /\ x.to \in Places1 /\ x.from < x.to
        BY <3>2 DEF Finds, Fits, Sits
      <4>2. Extent(x) \in Places1 \X Places1 /\ Extent(x)[1] < Extent(x)[2]
        BY <4>1 DEF Extent
      <4> QED BY <2>1, <3>2, <4>2 DEF Finds
    <3> QED BY <3>1, <3>2 DEF Step
  <2>3. pass' = "code" => \A c \in claimed' : c[2] <= at'
    BY DEF Step
  <2> QED BY <1>1, <2>2, <2>3 DEF IInv, ClaimsOK, Places1
<1>7. PassOK'
  <2>1. pass \notin {"plus", "emphasis", "forward", "backward"}
    BY <1>1 DEF Finding
  <2>2. held' = {} /\ used' = 0 /\ stack' = <<>> /\ swept' = {}
    BY <1>1, <2>1 DEF IInv, PassOK
  <2>3. CASE pass' = pass
    BY <1>1, <2>1, <2>2, <2>3, QuietPass DEF IInv, PassOK
  <2>4. CASE pass' = After[pass]
    <3>1. pass' \in DOMAIN After /\ pass' \notin {"plus", "backward"}
      BY <1>1, <2>4, Order
    <3>2. CASE pass' = "emphasis"
      BY <2>2, <3>2, EmphasisStarts
    <3>3. CASE pass' = "forward"
      BY <2>2, <3>1, <3>3 DEF PassOK
    <3>4. CASE pass' \notin {"emphasis", "forward"}
      BY <2>2, <3>1, <3>4, QuietPass
    <3> QED BY <3>2, <3>3, <3>4
  <2> QED BY <2>3, <2>4 DEF Step, Leave
<1> QED BY <1>4, <1>5, <1>6, <1>7 DEF IInv

LEMMA ProtectKeeps == IInv /\ Protect => IInv'
<1> SUFFICES ASSUME IInv, Protect PROVE IInv'
  OBVIOUS
<1>1. /\ UNCHANGED <<text, spans, claimed, open, quote, formulas, stack, used, held, swept, rejected>>
      /\ pass = "protect" /\ pass' \in {"html", "hex"} /\ at' = 1
      /\ hidden' \subseteq hidden \cup UNION { PlacesOf(c[1], c[2]) : c \in claimed }
  BY OrderOfRest DEF Protect, Leave, sweeps
<1>2. Len(text) \in Nat
  BY TextLength
<1>3. UNION { PlacesOf(c[1], c[2]) : c \in claimed } \subseteq 1 .. Len(text)
  <2> SUFFICES ASSUME NEW c \in claimed PROVE PlacesOf(c[1], c[2]) \subseteq 1 .. Len(text)
    OBVIOUS
  <2> c \in Places1 \X Places1
    BY DEF IInv, ClaimsOK
  <2> QED BY <1>2 DEF Places1, PlacesOf
<1>4. PlacesOK'
  BY <1>1, <1>2, <1>3 DEF IInv, PlacesOK, Places1
<1>5. SpansOK' /\ ClaimsOK'
  BY <1>1, SpansStay, ClaimsStay DEF IInv
<1>6. PassOK'
  BY <1>1, OrderOfRest, QuietPass DEF IInv, PassOK
<1> QED BY <1>4, <1>5, <1>6 DEF IInv

\* The steps that change neither spans nor claims, and keep nothing of their own.
LEMMA QuietKeeps ==
  ASSUME IInv, UNCHANGED <<text, spans, claimed, formulas, stack, used, held, swept>>,
         pass \in {"html", "math"}, pass' \in {"html", "math"}, PlacesOK'
  PROVE  IInv'
<1>1. SpansOK' /\ ClaimsOK'
  BY SpansStay, ClaimsStay DEF IInv
<1>2. PassOK'
  BY OrderOfRest, QuietPass DEF IInv, PassOK
<1> QED BY <1>1, <1>2 DEF IInv

LEMMA InTagKeeps == IInv /\ InTag => IInv'
<1> SUFFICES ASSUME IInv, InTag PROVE IInv'
  OBVIOUS
<1>1. Len(text) \in Nat /\ at \in 1 .. Len(text) + 1 /\ at \in Nat
  BY TextLength
<1> DEFINE k == Min(TagPlaces)
<1>2. TagPlaces \subseteq at .. Len(text) /\ TagPlaces # {}
  BY DEF TagPlaces, InTag
<1>3. k \in TagPlaces /\ k \in at .. Len(text)
  BY <1>1, <1>2, LeastBehind
<1>4. text[k] \in Quotes \cup {">"} \/ (quote # "none" /\ text[k] = quote)
  BY <1>3 DEF TagPlaces
<1>5. /\ UNCHANGED <<text, pass, spans, claimed, formulas, stack, used, held, swept>>
      /\ pass = "html" /\ open # None /\ at' = k + 1
      /\ \/ hidden' = hidden \cup open .. k /\ open' = None /\ UNCHANGED quote
         \/ /\ text[k] # ">" /\ quote' = (IF quote = "none" THEN text[k] ELSE "none")
            /\ UNCHANGED <<hidden, open>>
  BY DEF InTag, sweeps
<1> HIDE DEF k
<1>6. quote' \in Quotes \cup {"none"}
  BY <1>4, <1>5 DEF IInv, PlacesOK
<1>7. hidden' \subseteq 1 .. Len(text) /\ open' \in 0 .. Len(text) /\ at' \in Places1
  <2>1. hidden \subseteq 1 .. Len(text) /\ open \in 0 .. Len(text) /\ open # 0
    BY <1>5 DEF IInv, PlacesOK, None
  <2>2. k \in 1 .. Len(text)
    BY <1>1, <1>3
  <2>3. open .. k \subseteq 1 .. Len(text)
    BY <1>1, <2>1, <2>2
  <2>4. hidden' \subseteq hidden \cup open .. k /\ open' \in {open, 0}
    BY <1>5 DEF None
  <2>5. at' \in Places1
    BY <1>1, <1>5, <2>2 DEF Places1
  <2>6. 0 \in 0 .. Len(text)
    BY <1>1
  <2> QED BY <2>1, <2>3, <2>4, <2>5, <2>6, Zenon
<1>8. PlacesOK'
  BY <1>5, <1>6, <1>7 DEF IInv, PlacesOK, Places1
<1> QED BY <1>5, <1>8, QuietKeeps

LEMMA HtmlEndsBounds ==
  ASSUME Len(text) \in Nat, NEW p \in 1 .. Len(text)
  PROVE  HtmlEnds(p) \subseteq p .. Len(text) + 1
<1> SUFFICES ASSUME NEW e \in HtmlEnds(p) PROVE e \in p .. Len(text) + 1
  OBVIOUS
<1> p \in Nat
  OBVIOUS
<1>1. CASE e = p + 5 /\ Reads(text, p, <<"<", "!", "-", "-", ">">>)
  <2>1. 5 \in 1 .. Len(<<"<", "!", "-", "-", ">">>) /\ Len(<<"<", "!", "-", "-", ">">>) \in Nat
    OBVIOUS
  <2>2. p + 5 <= Len(text) + 1
    BY <1>1, <2>1, ReadsLast, Zenon
  <2> QED BY <1>1, <2>2
<1>2. CASE e = p + 6 /\ Reads(text, p, <<"<", "!", "-", "-", "-", ">">>)
  <2>1. 6 \in 1 .. Len(<<"<", "!", "-", "-", "-", ">">>) /\ Len(<<"<", "!", "-", "-", "-", ">">>) \in Nat
    OBVIOUS
  <2>2. p + 6 <= Len(text) + 1
    BY <1>2, <2>1, ReadsLast, Zenon
  <2> QED BY <1>2, <2>2
<1>3. ASSUME NEW d \in Delimited, NEW c \in p + Len(d[1]) .. Len(text), Reads(text, c, d[2]),
             e = c + Len(d[2])
      PROVE  e \in p .. Len(text) + 1
  <2>1. Len(d[1]) \in Nat /\ Len(d[2]) \in 1 .. Len(d[2]) /\ Len(d[2]) \in Nat
    <3>1. CASE d = << <<"<", "!", "-", "-">>, <<"-", "-", ">">> >>
      BY <3>1
    <3>2. CASE d = << <<"<", "?">>, <<"?", ">">> >>
      BY <3>2
    <3>3. CASE d = << <<"<", "!", "[", "CDATA", "[">>, <<"]", "]", ">">> >>
      BY <3>3
    <3>4. ASSUME NEW x \in Letters, d = << <<"<", "!", x>>, <<">">> >>
          PROVE  Len(d[1]) \in Nat /\ Len(d[2]) \in 1 .. Len(d[2]) /\ Len(d[2]) \in Nat
      BY <3>4
    <3> QED BY <3>1, <3>2, <3>3, <3>4, Zenon DEF Delimited
  <2>2. c \in Nat /\ p <= c
    BY <2>1
  <2>3. c + Len(d[2]) <= Len(text) + 1
    BY <1>3, <2>1, <2>2, ReadsLast, Zenon
  <2> QED BY <1>3, <2>1, <2>2, <2>3
<1> QED BY <1>1, <1>2, <1>3 DEF HtmlEnds

LEMMA HtmlKeeps == IInv /\ Html => IInv'
<1> SUFFICES ASSUME IInv, Html PROVE IInv'
  OBVIOUS
<1>1. Len(text) \in Nat /\ at \in 1 .. Len(text) + 1 /\ at \in Nat
  BY TextLength
<1> DEFINE k == Min(HtmlPlaces)
           e == Min(HtmlEnds(k))
<1>2. HtmlPlaces \subseteq at .. Len(text) /\ HtmlPlaces # {}
  BY PlacesBehind DEF HtmlPlaces, Html
<1>3. k \in 1 .. Len(text)
  <2>1. k \in at .. Len(text)
    BY <1>1, <1>2, LeastBehind
  <2> HIDE DEF k
  <2> QED BY <1>1, <2>1
<1>4. /\ UNCHANGED <<text, pass, spans, claimed, quote, formulas, stack, used, held, swept>>
      /\ pass = "html"
      /\ \/ HtmlEnds(k) # {} /\ at' = e /\ hidden' = hidden \cup k .. e - 1 /\ UNCHANGED open
         \/ at' = k + 1 /\ UNCHANGED hidden /\ open' \in {k, None}
  BY DEF Html, sweeps
<1> HIDE DEF k
<1>5. ASSUME HtmlEnds(k) # {} PROVE e \in k .. Len(text) + 1
  <2>1. HtmlEnds(k) \subseteq k .. Len(text) + 1
    BY <1>1, <1>3, HtmlEndsBounds
  <2>2. k \in Nat /\ Len(text) + 1 \in Nat
    BY <1>1, <1>3
  <2> QED BY <1>5, <2>1, <2>2, LeastBehind
<1> HIDE DEF e
<1>6. hidden' \subseteq 1 .. Len(text) /\ open' \in 0 .. Len(text) /\ at' \in Places1
  <2>1. hidden \subseteq 1 .. Len(text) /\ open \in 0 .. Len(text)
    BY DEF IInv, PlacesOK
  <2>2. CASE HtmlEnds(k) # {} /\ at' = e /\ hidden' = hidden \cup k .. e - 1 /\ UNCHANGED open
    <3>1. e \in k .. Len(text) + 1
      BY <1>5, <2>2
    <3>2. k .. e - 1 \subseteq 1 .. Len(text) /\ e \in Places1
      BY <1>1, <1>3, <3>1 DEF Places1
    <3> QED BY <2>1, <2>2, <3>2, Zenon
  <2>3. CASE at' = k + 1 /\ UNCHANGED hidden /\ open' \in {k, None}
    <3>1. k + 1 \in Places1 /\ k \in 0 .. Len(text) /\ 0 \in 0 .. Len(text)
      BY <1>1, <1>3 DEF Places1
    <3> QED BY <2>1, <2>3, <3>1 DEF None
  <2> QED BY <1>4, <2>2, <2>3
<1>7. PlacesOK'
  BY <1>4, <1>6 DEF IInv, PlacesOK, Places1
<1> QED BY <1>4, <1>7, QuietKeeps

LEMMA HtmlEndKeeps == IInv /\ HtmlEnd => IInv'
<1> SUFFICES ASSUME IInv, HtmlEnd PROVE IInv'
  OBVIOUS
<1>1. /\ UNCHANGED <<text, spans, claimed, hidden, formulas, stack, used, held, swept>>
      /\ pass = "html" /\ pass' = "math" /\ at' = 1 /\ open' = None /\ quote' = "none"
  BY OrderOfRest DEF HtmlEnd, Leave, sweeps
<1>2. PlacesOK'
  BY <1>1, TextLength DEF IInv, PlacesOK, Places1, None
<1> QED BY <1>1, <1>2, QuietKeeps

LEMMA MathKeeps == IInv /\ Math => IInv'
<1> SUFFICES ASSUME IInv, Math PROVE IInv'
  OBVIOUS
<1>1. Len(text) \in Nat /\ at \in 1 .. Len(text) + 1 /\ at \in Nat
  BY TextLength
<1> DEFINE k == Min(MathPlaces)
<1>2. MathPlaces \subseteq at .. Len(text) /\ MathPlaces # {}
  BY DEF MathPlaces, Math
<1>3. k \in 1 .. Len(text)
  <2>1. k \in at .. Len(text)
    BY <1>1, <1>2, LeastBehind
  <2> HIDE DEF k
  <2> QED BY <1>1, <2>1
<1>4. /\ UNCHANGED <<text, pass, spans, claimed, quote, stack, used, held, swept>>
      /\ pass = "math"
      /\ \/ at' = k + 1 /\ open' = None /\ UNCHANGED <<hidden, formulas>>
         \/ /\ MathCloses(k) /\ at' = k + 1 /\ open' = None
            /\ hidden' = hidden \cup open .. k /\ formulas' = formulas \cup {<<open, k + 1>>}
         \/ at' = RunEnd(k) /\ open' \in {k, open} /\ UNCHANGED <<hidden, formulas>>
  BY DEF Math, sweeps
<1> HIDE DEF k
<1>5. hidden \subseteq 1 .. Len(text) /\ open \in 0 .. Len(text)
  BY DEF IInv, PlacesOK
<1>6. ASSUME MathCloses(k) PROVE open \in 1 .. k - 2
  BY <1>3, <1>5, <1>6 DEF MathCloses, None
<1>7. at' \in Places1
  <2>1. RunEnd(k) \in k + 1 .. Len(text) + 1
    BY <1>1, <1>3, RunEndBounds
  <2> QED BY <1>1, <1>3, <1>4, <2>1 DEF Places1
<1>8. hidden' \subseteq 1 .. Len(text) /\ open' \in 0 .. Len(text)
  <2>1. k \in 0 .. Len(text) /\ 0 \in 0 .. Len(text)
    BY <1>1, <1>3
  <2>2. MathCloses(k) => open .. k \subseteq 1 .. Len(text)
    BY <1>3, <1>6
  <2>3. open' \in {k, open, 0}
    BY <1>4 DEF None
  <2>4. hidden' = hidden \/ (MathCloses(k) /\ hidden' = hidden \cup open .. k)
    BY <1>4
  <2> QED BY <1>5, <2>1, <2>2, <2>3, <2>4, Zenon
<1>9. PlacesOK'
  BY <1>4, <1>7, <1>8 DEF IInv, PlacesOK, Places1
<1>10. SpansOK'
  BY <1>4, SpansStay DEF IInv
<1>11. \A f \in formulas' : f \in Places1 \X Places1 /\ f[1] + 1 <= f[2] - 1
  <2>1. \A f \in formulas : f \in Places1 \X Places1 /\ f[1] + 1 <= f[2] - 1
    BY DEF IInv, ClaimsOK
  <2>2. CASE formulas' = formulas
    BY <2>1, <2>2
  <2>3. CASE MathCloses(k) /\ formulas' = formulas \cup {<<open, k + 1>>}
    <3>1. <<open, k + 1>> \in Places1 \X Places1 /\ <<open, k + 1>>[1] + 1 <= <<open, k + 1>>[2] - 1
      BY <1>1, <1>3, <1>6, <2>3 DEF Places1
    <3> QED BY <2>1, <2>3, <3>1
  <2> QED BY <1>4, <2>2, <2>3
<1>12. ClaimsOK'
  BY <1>4, <1>11 DEF IInv, ClaimsOK, Places1
<1>13. PassOK'
  BY <1>4, QuietPass DEF IInv, PassOK
<1> QED BY <1>9, <1>10, <1>12, <1>13 DEF IInv

LEMMA MathEndKeeps == IInv /\ MathEnd => IInv'
<1> SUFFICES ASSUME IInv, MathEnd PROVE IInv'
  OBVIOUS
<1>1. Len(text) \in Nat
  BY TextLength
<1>2. /\ UNCHANGED <<text, hidden, quote, formulas, stack, used, held, swept>>
      /\ pass = "math" /\ pass' = "plus" /\ at' = 1 /\ open' = None
      /\ claimed' \subseteq claimed \cup formulas
      /\ spans' \subseteq spans \cup { Span("Math", f[1], f[2], f[1] + 1, f[2] - 1) : f \in formulas }
  BY OrderOfRest DEF MathEnd, Leave, sweeps
<1>3. \A f \in formulas : f \in Places1 \X Places1 /\ f[1] + 1 <= f[2] - 1
  BY DEF IInv, ClaimsOK
<1>4. PlacesOK'
  BY <1>1, <1>2 DEF IInv, PlacesOK, Places1, None
<1>5. SpansOK'
  <2>1. ASSUME NEW f \in formulas PROVE Sits(Span("Math", f[1], f[2], f[1] + 1, f[2] - 1))
    <3>1. f[1] \in Places1 /\ f[2] \in Places1 /\ f[1] + 1 <= f[2] - 1
      BY <1>3
    <3>2. /\ f[1] \in Nat /\ f[2] \in Nat /\ f[1] + 1 \in Nat /\ f[2] - 1 \in Nat
          /\ 1 <= f[1] /\ f[1] <= f[1] + 1 /\ f[2] - 1 <= f[2] /\ f[1] < f[2] /\ f[2] <= Len(text) + 1
      BY <1>1, <3>1 DEF Places1
    <3> QED BY <1>1, <3>1, <3>2, SpanSits, Zenon
  <2>2. \A s \in spans' : Sits(s)
    BY <1>2, <2>1 DEF IInv, SpansOK
  <2>3. swept' = {} /\ held' = {}
    BY <1>2 DEF IInv, PassOK
  <2> QED BY <1>2, <2>2, <2>3 DEF SpansOK, Sits, Places1
<1>6. ClaimsOK'
  <2>1. \A c \in claimed' : c \in Places1 \X Places1 /\ c[1] < c[2]
    <3> SUFFICES ASSUME NEW c \in claimed' PROVE c \in Places1 \X Places1 /\ c[1] < c[2]
      OBVIOUS
    <3>1. CASE c \in claimed
      BY <3>1 DEF IInv, ClaimsOK
    <3>2. CASE c \in formulas
      <4>1. c \in Places1 \X Places1 /\ c[1] + 1 <= c[2] - 1
        BY <1>3, <3>2
      <4> QED BY <1>1, <4>1 DEF Places1
    <3> QED BY <1>2, <3>1, <3>2
  <2> QED BY <1>2, <1>3, <2>1 DEF ClaimsOK, Places1
<1>7. PassOK'
  <2>1. stack' = <<>> /\ held' = {} /\ used' = 0 /\ swept' = {}
    BY <1>2 DEF IInv, PassOK
  <2>2. stack' \in Seq(1 .. Len(text'))
    BY <2>1
  <2> QED BY <1>2, <2>1, <2>2, OrderOfRest DEF PassOK
<1> QED BY <1>4, <1>5, <1>6, <1>7 DEF IInv

\* One step over plus signs.
PlusAt == Min(PlusPlaces)

LEMMA PlusFacts ==
  ASSUME IInv, Plus
  PROVE  /\ PlusAt \in 1 .. Len(text) /\ PlusAt \notin hidden /\ RunEnd(PlusAt) \in PlusAt + 1 .. Len(text) + 1
         /\ pass = "plus" /\ at' = RunEnd(PlusAt)
         /\ UNCHANGED <<text, pass, claimed, hidden, open, quote, formulas, used, held, swept, rejected>>
         /\ stack \in Seq(1 .. Len(text)) /\ stack' \in Seq(1 .. Len(text))
         /\ \A n \in 1 .. Len(stack') : stack'[n] = PlusAt \/ \E m \in 1 .. Len(stack) : stack'[n] = stack[m]
         /\ \/ UNCHANGED spans
            \/ \E m \in 1 .. Len(stack) :
                 /\ PlusAt > stack[m] + 2
                 /\ spans' = spans \cup {Span("UnderlinePlus", stack[m], RunEnd(PlusAt), stack[m] + 2, PlusAt)}
<1>1. Len(text) \in Nat /\ at \in 1 .. Len(text) + 1 /\ at \in Nat
  BY TextLength
<1>2. PlusPlaces \subseteq at .. Len(text) /\ PlusPlaces # {} /\ PlusPlaces \cap hidden = {}
  BY DEF PlusPlaces, Plus
<1>3. PlusAt \in PlusPlaces /\ PlusAt \in at .. Len(text)
  BY <1>1, <1>2, LeastBehind DEF PlusAt
<1>4. PlusAt \in 1 .. Len(text) /\ PlusAt \notin hidden
  BY <1>1, <1>2, <1>3
<1>5. RunEnd(PlusAt) \in PlusAt + 1 .. Len(text) + 1
  BY <1>1, <1>4, RunEndBounds
<1>6. pass = "plus" /\ stack \in Seq(1 .. Len(text)) /\ Len(stack) \in Nat
  BY DEF IInv, PassOK, Plus
<1> DEFINE p       == PlusAt
           q       == RunEnd(p)
           two     == q = p + 2 /\ ~ Escaped(text, p)
           top     == stack[Len(stack)]
           closes  == two /\ stack # <<>> /\ PlusesClose(text, p, q)
           matches == closes /\ p > top + 2
           rest    == IF closes THEN SubSeq(stack, 1, Len(stack) - 1) ELSE stack
<1>7. /\ at' = q
      /\ \/ matches /\ stack' = rest /\ spans' = spans \cup {Span("UnderlinePlus", top, q, top + 2, p)}
         \/ /\ UNCHANGED spans
            /\ stack' = (IF two /\ PlusesOpen(text, p, q) THEN Append(rest, p) ELSE rest)
      /\ UNCHANGED <<text, pass, claimed, hidden, open, quote, formulas, used, held, swept, rejected>>
  BY DEF Plus, PlusAt, sweeps
<1>8. closes => Len(stack) \in 1 .. Len(stack)
  BY <1>6
<1>9. /\ rest \in Seq(1 .. Len(text)) /\ Len(rest) \in 0 .. Len(stack)
      /\ \A n \in 1 .. Len(rest) : rest[n] = stack[n]
  <2>1. CASE closes
    <3>1. rest = SubSeq(stack, 1, Len(stack) - 1)
      BY <2>1
    <3> HIDE DEF rest, closes
    <3> QED BY <1>6, <1>8, <2>1, <3>1
  <2>2. CASE ~ closes
    <3>1. rest = stack
      BY <2>2
    <3> HIDE DEF rest, closes
    <3> QED BY <1>6, <3>1
  <2> QED BY <2>1, <2>2
<1>10. stack' = rest \/ stack' = Append(rest, p)
  BY <1>7
<1>11. \/ UNCHANGED spans
       \/ \E m \in 1 .. Len(stack) :
            PlusAt > stack[m] + 2
            /\ spans' = spans \cup {Span("UnderlinePlus", stack[m], RunEnd(PlusAt), stack[m] + 2, PlusAt)}
  BY <1>7, <1>8, Zenon
<1> HIDE DEF rest
<1>12. /\ stack' \in Seq(1 .. Len(text))
       /\ \A n \in 1 .. Len(stack') : stack'[n] = PlusAt \/ \E m \in 1 .. Len(stack) : stack'[n] = stack[m]
  <2>1. \A n \in 1 .. Len(rest) : \E m \in 1 .. Len(stack) : rest[n] = stack[m]
    <3> SUFFICES ASSUME NEW n \in 1 .. Len(rest) PROVE \E m \in 1 .. Len(stack) : rest[n] = stack[m]
      OBVIOUS
    <3>1. n \in 1 .. Len(stack) /\ rest[n] = stack[n]
      BY <1>6, <1>9
    <3> QED BY <3>1
  <2>2. CASE stack' = rest
    BY <1>9, <2>1, <2>2, Zenon
  <2>3. CASE stack' = Append(rest, p)
    <3> DEFINE st == Append(rest, p)
    <3>1. /\ st \in Seq(1 .. Len(text)) /\ Len(st) = Len(rest) + 1 /\ st[Len(rest) + 1] = p
          /\ \A n \in 1 .. Len(rest) : st[n] = rest[n]
      BY <1>4, <1>9
    <3> HIDE DEF st
    <3>2. ASSUME NEW n \in 1 .. Len(st) PROVE st[n] = PlusAt \/ \E m \in 1 .. Len(stack) : st[n] = stack[m]
      <4>1. CASE n = Len(rest) + 1
        BY <3>1, <4>1
      <4>2. CASE n \in 1 .. Len(rest)
        BY <2>1, <3>1, <4>2
      <4> QED BY <1>9, <3>1, <4>1, <4>2
    <3>3. stack' = st
      BY <2>3 DEF st
    <3> QED BY <3>1, <3>2, <3>3, Zenon
  <2> QED BY <1>10, <2>2, <2>3
<1> QED BY <1>4, <1>5, <1>6, <1>7, <1>11, <1>12

LEMMA PlusKeeps == IInv /\ Plus => IInv'
<1> SUFFICES ASSUME IInv, Plus PROVE IInv'
  OBVIOUS
<1> DEFINE p == PlusAt
           q == RunEnd(PlusAt)
<1>1. Len(text) \in Nat
  BY TextLength
<1>2. /\ p \in 1 .. Len(text) /\ q \in p + 1 .. Len(text) + 1
      /\ pass = "plus" /\ at' = q
      /\ UNCHANGED <<text, pass, claimed, hidden, open, quote, formulas, used, held, swept>>
      /\ stack \in Seq(1 .. Len(text)) /\ stack' \in Seq(1 .. Len(text))
      /\ \/ UNCHANGED spans
         \/ \E m \in 1 .. Len(stack) :
              p > stack[m] + 2 /\ spans' = spans \cup {Span("UnderlinePlus", stack[m], q, stack[m] + 2, p)}
  BY PlusFacts
<1> HIDE DEF p, q
<1>3. PlacesOK'
  BY <1>1, <1>2 DEF IInv, PlacesOK, Places1
<1>4. SpansOK'
  <2>1. CASE UNCHANGED spans
    BY <1>2, <2>1, SpansStay DEF IInv
  <2>2. ASSUME NEW m \in 1 .. Len(stack), p > stack[m] + 2,
               spans' = spans \cup {Span("UnderlinePlus", stack[m], q, stack[m] + 2, p)}
        PROVE  SpansOK'
    <3>1. stack[m] \in 1 .. Len(text)
      BY <1>2
    <3>2. /\ stack[m] \in Nat /\ q \in Nat /\ stack[m] + 2 \in Nat /\ p \in Nat
          /\ 1 <= stack[m] /\ stack[m] <= stack[m] + 2 /\ stack[m] + 2 <= p /\ p <= q
          /\ stack[m] < q /\ q <= Len(text) + 1
      BY <1>1, <1>2, <2>2, <3>1, SMTT(20)
    <3>3. Sits(Span("UnderlinePlus", stack[m], q, stack[m] + 2, p))
      BY <1>1, <3>2, SpanSits, Zenon
    <3> QED BY <1>2, <2>2, <3>3, AddedSpan DEF IInv
  <2> QED BY <1>2, <2>1, <2>2
<1>5. ClaimsOK'
  BY <1>2, ClaimsStay DEF IInv
<1>6. PassOK'
  BY <1>2 DEF IInv, PassOK
<1> QED BY <1>3, <1>4, <1>5, <1>6 DEF IInv

LEMMA PlusEndKeeps == IInv /\ PlusEnd => IInv'
<1> SUFFICES ASSUME IInv, PlusEnd PROVE IInv'
  OBVIOUS
<1>1. /\ UNCHANGED <<text, spans, claimed, open, quote, formulas, used, held, swept>>
      /\ pass = "plus" /\ pass' = "hex" /\ at' = 1 /\ hidden' = {} /\ stack' = <<>>
  BY OrderOfRest DEF PlusEnd, Leave, sweeps
<1>2. PlacesOK'
  BY <1>1, TextLength DEF IInv, PlacesOK, Places1
<1>3. SpansOK' /\ ClaimsOK'
  BY <1>1, SpansStay, ClaimsStay DEF IInv
<1>4. PassOK'
  BY <1>1, OrderOfRest, QuietPass DEF IInv, PassOK
<1> QED BY <1>2, <1>3, <1>4 DEF IInv

LEMMA CloseKeeps == IInv /\ EmphasisClose => IInv'
<1> SUFFICES ASSUME IInv, EmphasisClose PROVE IInv'
  OBVIOUS
<1>1. Len(text) \in Nat
  BY TextLength
<1>2. /\ StarRun \in 1 .. Len(text) /\ StarEnd \in StarRun + 1 .. Len(text) + 1
      /\ used \in Nat /\ used <= StarEnd - StarRun /\ Shape(stack, held, StarRun + used)
  BY StarFacts DEF EmphasisClose
<1> DEFINE n == Max(Matches)
           o == stack[n]
           S == {3, StarsLeft, o.left}
           k == Min(S)
           from == o.at + o.left - k
           to == StarRun + used + k
           h == Span(EmphasisKind(k), from, to, from + k, to - k)
<1>3. /\ UNCHANGED <<text, pass, at, spans, claimed, hidden, open, quote, formulas, swept>>
      /\ pass = "emphasis" /\ Matches # {} /\ StarPlaces # {}
      /\ held' = held \cup {h} /\ stack' = Truncated(n, o.left - k) /\ used' = used + k
  <2>1. /\ UNCHANGED <<text, pass, at, spans, claimed, hidden, open, quote, formulas, swept>>
        /\ pass = "emphasis" /\ Matches # {} /\ StarPlaces # {}
    BY DEF EmphasisClose, sweeps
  <2>2. held' = held \cup {h}
    BY DEF EmphasisClose
  <2>3. stack' = Truncated(n, o.left - k)
    BY DEF EmphasisClose
  <2>4. used' = used + k
    BY DEF EmphasisClose
  <2> QED BY <2>1, <2>2, <2>3, <2>4
<1>4. n \in 1 .. Len(stack)
  <2>1. Matches \subseteq 1 .. Len(stack)
    BY DEF Matches
  <2>2. Len(stack) \in Nat
    BY <1>2 DEF Shape
  <2>3. Matches \in SUBSET (0 .. Len(stack))
    BY <2>1, <2>2
  <2> QED BY <1>3, <2>1, <2>2, <2>3, MaxIsGreatest
<1>5. StarsLeft = StarEnd - StarRun - used /\ StarsLeft > 0
  BY <1>3 DEF StarsLeft, Matches
<1> HIDE DEF n
<1>6. /\ o.at \in Nat /\ o.left \in Nat /\ o.at >= 1 /\ o.left >= 1
      /\ Above(o) = o.at + o.left /\ Above(o) <= StarRun + used
  <2>1. o \in Openers
    BY <1>2, <1>4 DEF Shape
  <2>2. o.at >= 1 /\ o.left >= 1 /\ Above(o) <= StarRun + used
    BY <1>2, <1>4 DEF Shape
  <2> QED BY <2>1, <2>2 DEF Openers, Above
<1>7. k \in Nat /\ 1 <= k /\ k <= StarsLeft /\ k <= o.left
  <2>1. StarsLeft \in Nat
    BY <1>2, <1>5
  <2>2. S \in SUBSET Nat /\ S # {}
    BY <1>6, <2>1
  <2>3. Min(S) \in S /\ \A x \in S : Min(S) <= x
    <3> HIDE DEF S
    <3> QED BY <2>2, MinIsLeast
  <2> QED BY <1>5, <1>6, <2>1, <2>3
<1> HIDE DEF k
<1>8. h.from = o.at + o.left - k /\ h.to = StarRun + used + k
  BY DEF Span
<1>9. Sits(h)
  <2>1. from \in Nat /\ 1 <= from /\ from + k = o.at + o.left
    BY <1>6, <1>7
  <2>2. to \in Nat /\ to - k = StarRun + used /\ to <= Len(text) + 1
    BY <1>1, <1>2, <1>5, <1>7
  <2>3. from + k <= to - k
    BY <1>2, <1>6, <2>1, <2>2
  <2> HIDE DEF from, to
  <2>4. /\ from + k \in Nat /\ to - k \in Nat /\ from <= from + k /\ to - k <= to /\ from < to
    BY <1>2, <1>7, <2>1, <2>2, <2>3
  <2> QED BY <1>1, <2>1, <2>2, <2>3, <2>4, SpanSits, Zenon DEF h
<1> HIDE DEF h
<1>10. Shape(stack', held', StarRun + used + k)
  <2>1. StarRun + used \in Nat
    BY <1>2
  <2> QED BY <1>2, <1>3, <1>4, <1>7, <1>8, <2>1, ShapeCloses
<1>11. used' \in Nat /\ used' > 0 /\ used' <= StarEnd - StarRun /\ used' \in 0 .. Len(text)
  BY <1>1, <1>2, <1>3, <1>5, <1>7
<1>12. StarPlaces' = StarPlaces /\ StarRun' = StarRun /\ StarEnd' = StarEnd
  BY <1>3 DEF StarPlaces, StarRun, StarEnd, RunEnd
<1>13. Front' = StarRun + used + k
  <2>1. Front' = StarRun + used'
    BY <1>11, <1>12 DEF Front
  <2> QED BY <1>2, <1>3, <1>7, <2>1
<1>14. EmphasisOK'
  BY <1>3, <1>10, <1>11, <1>12, <1>13 DEF EmphasisOK
<1>15. PlacesOK'
  BY <1>3, <1>11 DEF IInv, PlacesOK, Places1
<1>16. SpansOK'
  BY <1>3, <1>9 DEF IInv, SpansOK, Sits, Places1
<1>17. ClaimsOK'
  BY <1>3, ClaimsStay DEF IInv
<1>18. PassOK'
  BY <1>3, <1>14 DEF IInv, PassOK
<1> QED BY <1>15, <1>16, <1>17, <1>18 DEF IInv

LEMMA OpenKeeps == IInv /\ EmphasisOpen => IInv'
<1> SUFFICES ASSUME IInv, EmphasisOpen PROVE IInv'
  OBVIOUS
<1>1. Len(text) \in Nat
  BY TextLength
<1>2. /\ StarRun \in 1 .. Len(text) /\ StarEnd \in StarRun + 1 .. Len(text) + 1
      /\ used \in Nat /\ used <= StarEnd - StarRun /\ Shape(stack, held, StarRun + used)
  BY StarFacts DEF EmphasisOpen
<1> DEFINE o == [at |-> StarRun + used, left |-> StarsLeft, len |-> StarEnd - StarRun,
                 closes |-> StarsClose(text, StarRun)]
<1>3. /\ UNCHANGED <<text, pass, spans, claimed, hidden, open, quote, formulas, held, swept>>
      /\ pass = "emphasis" /\ at' = StarEnd /\ used' = 0
      /\ \/ StarsLeft > 0 /\ stack' = Append(stack, o)
         \/ stack' = stack
  BY DEF EmphasisOpen, sweeps
<1>4. StarRun + used \in Nat /\ StarRun + used >= 1 /\ StarEnd \in Nat /\ StarRun + used <= StarEnd
  BY <1>2
<1>5. StarsLeft = StarEnd - StarRun - used /\ StarsLeft \in Nat /\ StarEnd - StarRun \in Nat
  BY <1>2 DEF StarsLeft
<1>6. Shape(stack', held', StarEnd)
  <2>1. CASE stack' = stack
    BY <1>2, <1>3, <1>4, <2>1, ShapeGrows
  <2>2. CASE StarsLeft > 0 /\ stack' = Append(stack, o)
    <3>1. StarsClose(text, StarRun) \in BOOLEAN
      BY Zenon DEF StarsClose, RightFlanking
    <3>2. o \in Openers /\ o.at = StarRun + used /\ o.left = StarsLeft
      BY <1>4, <1>5, <3>1 DEF Openers
    <3> HIDE DEF o
    <3>3. o.left >= 1 /\ StarRun + used + o.left = StarEnd
      BY <1>2, <1>5, <2>2, <3>2
    <3>4. Shape(Append(stack, o), held, StarRun + used + o.left)
      BY <1>2, <1>4, <3>2, <3>3, ShapeOpens, Zenon
    <3> QED BY <1>3, <2>2, <3>3, <3>4
  <2> QED BY <1>3, <2>1, <2>2
<1>7. EmphasisOK'
  <2>1. Front' = StarEnd
    BY <1>3 DEF Front
  <2> QED BY <1>3, <1>6, <2>1 DEF EmphasisOK
<1>8. PlacesOK'
  <2>1. StarEnd \in Places1
    BY <1>1, <1>2 DEF Places1
  <2> QED BY <1>1, <1>3, <2>1 DEF IInv, PlacesOK, Places1
<1>9. SpansOK' /\ ClaimsOK'
  BY <1>3, SpansStay, ClaimsStay DEF IInv
<1>10. PassOK'
  BY <1>3, <1>7 DEF IInv, PassOK
<1> QED BY <1>8, <1>9, <1>10 DEF IInv

LEMMA EmphasisEndKeeps == IInv /\ EmphasisEnd => IInv'
<1> SUFFICES ASSUME IInv, EmphasisEnd PROVE IInv'
  OBVIOUS
<1>1. /\ UNCHANGED <<text, claimed, hidden, open, quote, formulas, used, swept>>
      /\ pass = "emphasis" /\ pass' = "strike" /\ at' = 1 /\ stack' = <<>> /\ held' = {}
      /\ StarPlaces = {} /\ spans \subseteq spans' /\ spans' \subseteq spans \cup held
  BY OrderOfRest DEF EmphasisEnd, Leave, sweeps
<1>2. used = 0 /\ swept = {}
  <2>1. EmphasisOK /\ used \in 0 .. Len(text) /\ swept = {}
    BY <1>1 DEF IInv, PassOK, PlacesOK
  <2> QED BY <1>1, <2>1, TextLength DEF EmphasisOK
<1>3. PlacesOK'
  BY <1>1, TextLength DEF IInv, PlacesOK, Places1
<1>4. SpansOK'
  BY <1>1, <1>2 DEF IInv, SpansOK, Sits, Places1
<1>5. ClaimsOK'
  BY <1>1, ClaimsStay DEF IInv
<1>6. PassOK'
  BY <1>1, <1>2, OrderOfRest, QuietPass
<1> QED BY <1>3, <1>4, <1>5, <1>6 DEF IInv

LEMMA SweepKeeps == IInv /\ Sweep => IInv'
<1> SUFFICES ASSUME IInv, Sweep PROVE IInv'
  OBVIOUS
<1>1. /\ UNCHANGED <<text, pass, at, spans, claimed, hidden, open, quote, formulas, stack, used, held>>
      /\ pass \in {"forward", "backward"} /\ swept' \subseteq spans
  BY DEF Sweep, Group, IInv, SpansOK
<1>2. PlacesOK'
  BY <1>1 DEF IInv, PlacesOK, Places1
<1>3. SpansOK'
  BY <1>1 DEF IInv, SpansOK, Sits, Places1
<1>4. ClaimsOK'
  BY <1>1, ClaimsStay DEF IInv
<1>5. PassOK'
  BY <1>1 DEF IInv, PassOK
<1> QED BY <1>2, <1>3, <1>4, <1>5 DEF IInv

LEMMA SweepEndKeeps == IInv /\ SweepEnd => IInv'
<1> SUFFICES ASSUME IInv, SweepEnd PROVE IInv'
  OBVIOUS
<1>1. /\ UNCHANGED <<text, spans, claimed, hidden, open, quote, formulas, stack, used, held>>
      /\ pass \in {"forward", "backward"} /\ pass' \in {"backward", "reject"} /\ at' = 1 /\ swept' = {}
  BY OrderOfRest DEF SweepEnd, Leave
<1>2. PlacesOK'
  BY <1>1, TextLength DEF IInv, PlacesOK, Places1
<1>3. SpansOK'
  BY <1>1 DEF IInv, SpansOK, Sits, Places1
<1>4. ClaimsOK'
  BY <1>1, ClaimsStay DEF IInv
<1>5. PassOK'
  <2>1. held' = {} /\ used' = 0 /\ stack' = <<>>
    BY <1>1 DEF IInv, PassOK
  <2> QED BY <1>1, <2>1, OrderOfRest DEF PassOK
<1> QED BY <1>2, <1>3, <1>4, <1>5 DEF IInv

LEMMA RejectKeeps == IInv /\ Reject => IInv'
<1> SUFFICES ASSUME IInv, Reject PROVE IInv'
  OBVIOUS
<1>1. /\ UNCHANGED <<text, claimed, hidden, open, quote, formulas, stack, used, held, swept>>
      /\ pass = "reject" /\ pass' = "done" /\ at' = 1 /\ spans' \subseteq spans
  BY OrderOfRest DEF Reject, Leave, inner
<1>2. swept = {}
  BY <1>1 DEF IInv, PassOK
<1>3. PlacesOK'
  BY <1>1, TextLength DEF IInv, PlacesOK, Places1
<1>4. SpansOK'
  BY <1>1, <1>2 DEF IInv, SpansOK, Sits, Places1
<1>5. ClaimsOK'
  BY <1>1, ClaimsStay DEF IInv
<1>6. PassOK'
  BY <1>1, QuietPass DEF IInv, PassOK
<1> QED BY <1>3, <1>4, <1>5, <1>6 DEF IInv

LEMMA StutterKeeps == IInv /\ UNCHANGED vars => IInv'
<1> SUFFICES ASSUME IInv, UNCHANGED vars PROVE IInv'
  OBVIOUS
<1>1. UNCHANGED <<text, pass, at, spans, claimed, hidden, open, quote, formulas, stack, used, held, swept>>
  BY DEF vars
<1>2. PlacesOK' /\ SpansOK'
  BY <1>1, SpansStay DEF IInv, PlacesOK, Places1
<1>3. ClaimsOK'
  BY <1>1 DEF IInv, ClaimsOK, Places1
<1>4. EmphasisOK' <=> EmphasisOK
  BY <1>1 DEF EmphasisOK, Front, StarPlaces, StarRun, StarEnd, RunEnd
<1>5. PassOK'
  BY <1>1, <1>4 DEF IInv, PassOK
<1> QED BY <1>2, <1>3, <1>5 DEF IInv

LEMMA NextKeeps == IInv /\ [Next]_vars => IInv'
BY FindingSteps, StepKeeps, ProtectKeeps, InTagKeeps, HtmlKeeps, HtmlEndKeeps, MathKeeps, MathEndKeeps,
   PlusKeeps, PlusEndKeeps, CloseKeeps, OpenKeeps, EmphasisEndKeeps, SweepKeeps, SweepEndKeeps,
   RejectKeeps, StutterKeeps, Zenon DEF Next, Delimiters

\* Whatever the text, the invariant holds in every state of parse_spans.
THEOREM InvariantHolds == Spec => []IInv
<1>1. IInv /\ [Next]_vars => IInv'
  BY NextKeeps
<1> QED BY InitHolds, <1>1, PTL DEF Spec

(* Every span lies in the text and its content within it, and every place  *)
(* that a scanner keeps is one of the text (the byte offsets of            *)
(* src/inline.rs, with which make_span and the scanners index the text).   *)
THEOREM TypesHold == Spec => []TypeOK
BY InvariantHolds, Implied, PTL

-----------------------------------------------------------------------------
(* Claims.                                                                 *)

LEMMA Elsewhere ==
  ASSUME Protect \/ InTag \/ Html \/ HtmlEnd
  PROVE  /\ UNCHANGED <<text, spans, claimed, formulas, stack, used, held, swept, rejected>>
         /\ pass \in {"protect", "html"} /\ pass' \in {"html", "math", "hex"}
         /\ pass' = "math" => at' = 1
<1>1. CASE Protect
  BY <1>1, OrderOfRest DEF Protect, Leave, sweeps
<1>2. CASE InTag
  BY <1>2 DEF InTag, sweeps
<1>3. CASE Html
  BY <1>3 DEF Html, sweeps
<1>4. CASE HtmlEnd
  BY <1>4, OrderOfRest DEF HtmlEnd, Leave, sweeps
<1> QED BY <1>1, <1>2, <1>3, <1>4

LEMMA ClaimsKeep == IInv /\ ClaimsDisjoint /\ [Next]_vars => ClaimsDisjoint'
<1> SUFFICES ASSUME IInv, ClaimsDisjoint, [Next]_vars PROVE ClaimsDisjoint'
  OBVIOUS
<1>1. CASE Step
  <2>1. UNCHANGED formulas
    BY <1>1 DEF Step, inner
  <2>2. CASE UNCHANGED <<spans, claimed>>
    BY <2>1, <2>2 DEF ClaimsDisjoint
  <2>3. ASSUME NEW x, Finds(x) PROVE ClaimsDisjoint'
    <3>1. claimed' = claimed \cup {Extent(x)} /\ \A d \in claimed : ~ Overlap(Extent(x), d)
      BY <2>3 DEF Finds, IsClaimed
    <3>2. \A c, d : Overlap(c, d) => Overlap(d, c)
      BY DEF Overlap
    <3> QED BY <2>1, <3>1, <3>2, Zenon DEF ClaimsDisjoint
  <2> QED BY <1>1, <2>2, <2>3 DEF Step
<1>2. CASE Math
  <2>1. claimed' = claimed /\ formulas \subseteq formulas'
    BY <1>2 DEF Math
  <2> QED BY <2>1, Zenon DEF ClaimsDisjoint
<1>3. CASE MathEnd
  <2>1. formulas' = formulas /\ claimed' \subseteq claimed \cup formulas
    BY <1>3 DEF MathEnd
  <2> QED BY <2>1, Zenon DEF ClaimsDisjoint
<1>4. CASE UNCHANGED <<claimed, formulas>>
  BY <1>4, Zenon DEF ClaimsDisjoint
<1>5. CASE Protect \/ InTag \/ Html \/ HtmlEnd
  BY <1>4, <1>5, Elsewhere
<1>6. CASE Plus \/ PlusEnd \/ EmphasisClose \/ EmphasisOpen \/ EmphasisEnd \/ Sweep \/ SweepEnd \/ Reject
  BY <1>4, <1>6 DEF Plus, PlusEnd, EmphasisClose, EmphasisOpen, EmphasisEnd, Sweep, SweepEnd, Reject, inner
<1>7. CASE UNCHANGED vars
  BY <1>4, <1>7 DEF vars
<1> QED BY <1>1, <1>2, <1>3, <1>5, <1>6, <1>7, FindingSteps, Zenon DEF Next, Delimiters

(* Whatever the text, two claims overlap only if one of them is that of a  *)
(* formula (ClaimedRanges: each scanner asks before it claims).            *)
THEOREM ClaimsStayApart == Spec => []ClaimsDisjoint
<1>1. Init => ClaimsDisjoint
  BY DEF Init, ClaimsDisjoint
<1> QED BY <1>1, InvariantHolds, ClaimsKeep, PTL DEF Spec

-----------------------------------------------------------------------------
(* Emphasis.                                                               *)

NoEarlyEmphasis == \A s \in spans : IsEmphasis(s) => pass \in Last

LEMMA EmphasisKeeps ==
  IInv /\ IInv' /\ NoEarlyEmphasis /\ EmphasisNests /\ [Next]_vars => (NoEarlyEmphasis /\ EmphasisNests)'
<1> SUFFICES ASSUME IInv, IInv', NoEarlyEmphasis, EmphasisNests, [Next]_vars
             PROVE  NoEarlyEmphasis' /\ EmphasisNests'
  OBVIOUS
<1>1. ASSUME held' \subseteq held, pass \in Last => pass' \in Last,
             \A s \in spans' : s \in spans \/ ~ IsEmphasis(s)
      PROVE  NoEarlyEmphasis' /\ EmphasisNests'
  <2>1. \A s \in held' \cup spans' : IsEmphasis(s) => s \in held \cup spans
    BY <1>1
  <2>2. EmphasisNests'
    BY <2>1, Zenon DEF EmphasisNests, IsEmphasis, Crosses
  <2>3. NoEarlyEmphasis'
    BY <1>1, Zenon DEF NoEarlyEmphasis, IsEmphasis
  <2> QED BY <2>2, <2>3
<1>2. CASE Step
  <2>1. held' = held
    BY <1>2 DEF Step, inner
  <2>2. pass \in Last => pass' \in Last
    BY <1>2, Order DEF Step, Leave
  <2>3. CASE UNCHANGED <<spans, claimed>>
    BY <1>1, <2>1, <2>2, <2>3
  <2>4. ASSUME NEW x, Finds(x) PROVE NoEarlyEmphasis' /\ EmphasisNests'
    <3>1. spans' = spans \cup {x} /\ ~ IsEmphasis(x)
      BY <2>4 DEF Finds, Fits, IsEmphasis, EmphasisKinds
    <3> QED BY <1>1, <2>1, <2>2, <3>1
  <2> QED BY <1>2, <2>3, <2>4 DEF Step
<1>3. CASE UNCHANGED <<spans, held>> /\ (pass \in Last => pass' \in Last)
  BY <1>1, <1>3
<1>4. CASE Protect \/ InTag \/ Html \/ HtmlEnd
  BY <1>3, <1>4, Elsewhere DEF Last, Late
<1>5. CASE Math \/ PlusEnd \/ EmphasisOpen \/ Sweep
  BY <1>3, <1>5 DEF Math, PlusEnd, EmphasisOpen, Sweep, Last, Late
<1>6. CASE SweepEnd
  BY <1>3, <1>6, OrderOfRest DEF SweepEnd, Leave, Last, Late
<1>7. CASE Reject
  <2>1. held' = held /\ spans' \subseteq spans /\ pass' = "done"
    BY <1>7, OrderOfRest DEF Reject, Leave, inner
  <2> QED BY <1>1, <2>1 DEF Last, Late
<1>8. CASE MathEnd
  <2> DEFINE X == { Span("Math", f[1], f[2], f[1] + 1, f[2] - 1) : f \in formulas }
  <2>1. held' = held /\ spans' \subseteq spans \cup X /\ pass = "math"
    BY <1>8 DEF MathEnd
  <2>2. \A x \in X : ~ IsEmphasis(x)
    BY ExtentOf DEF IsEmphasis
  <2>3. pass \notin Last
    BY <2>1 DEF Last, Late
  <2> HIDE DEF X
  <2>4. \A s \in spans' : s \in spans \/ ~ IsEmphasis(s)
    BY <2>1, <2>2
  <2> QED BY <1>1, <2>1, <2>3, <2>4, Zenon
<1>9. CASE Plus
  <2>1. held' = held /\ pass' = pass
    BY <1>9, PlusFacts
  <2>2. CASE UNCHANGED spans
    BY <1>1, <2>1, <2>2
  <2>3. ASSUME NEW m \in 1 .. Len(stack),
               spans' = spans \cup {Span("UnderlinePlus", stack[m], RunEnd(PlusAt), stack[m] + 2, PlusAt)}
        PROVE  NoEarlyEmphasis' /\ EmphasisNests'
    <3>1. ~ IsEmphasis(Span("UnderlinePlus", stack[m], RunEnd(PlusAt), stack[m] + 2, PlusAt))
      BY ExtentOf DEF IsEmphasis
    <3> QED BY <1>1, <2>1, <2>3, <3>1
  <2> QED BY <1>9, <2>2, <2>3, PlusFacts
<1>10. CASE EmphasisClose
  <2>1. pass = "emphasis" /\ pass' = "emphasis" /\ spans' = spans
    BY <1>10 DEF EmphasisClose
  <2>2. \A s \in spans : ~ IsEmphasis(s)
    BY <2>1 DEF NoEarlyEmphasis, Last, Late
  <2>3. \A g, h \in held' : ~ Crosses(g, h)
    BY <2>1 DEF IInv, PassOK, EmphasisOK, Shape
  <2>4. EmphasisNests'
    BY <2>1, <2>2, <2>3, Zenon DEF EmphasisNests, IsEmphasis, Crosses
  <2>5. NoEarlyEmphasis'
    BY <2>1, <2>2 DEF NoEarlyEmphasis, IsEmphasis
  <2> QED BY <2>4, <2>5
<1>11. CASE EmphasisEnd
  <2>1. pass = "emphasis" /\ pass' = "strike" /\ spans' \subseteq spans \cup held /\ held' = {}
    BY <1>11, OrderOfRest DEF EmphasisEnd, Leave
  <2>2. \A s \in spans : ~ IsEmphasis(s)
    BY <2>1 DEF NoEarlyEmphasis, Last, Late
  <2>3. \A g, h \in held : ~ Crosses(g, h)
    BY <2>1 DEF IInv, PassOK, EmphasisOK, Shape
  <2>4. \A s \in held' \cup spans' : IsEmphasis(s) => s \in held
    BY <2>1, <2>2
  <2>5. EmphasisNests'
    BY <2>3, <2>4, Zenon DEF EmphasisNests, IsEmphasis, Crosses
  <2>6. NoEarlyEmphasis'
    BY <2>1 DEF NoEarlyEmphasis, Last, Late
  <2> QED BY <2>5, <2>6
<1>12. CASE UNCHANGED vars
  BY <1>3, <1>12 DEF vars
<1> QED BY <1>2, <1>4, <1>5, <1>6, <1>7, <1>8, <1>9, <1>10, <1>11, <1>12, FindingSteps, Zenon
        DEF Next, Delimiters

(* Whatever the runs of asterisks, two spans of emphasis are apart or one  *)
(* is inside of the other (parse_emphasis).                                *)
THEOREM EmphasisStaysNested == Spec => []EmphasisNests
<1>1. Init => NoEarlyEmphasis /\ EmphasisNests
  BY DEF Init, NoEarlyEmphasis, EmphasisNests
<1>2. Spec => [](NoEarlyEmphasis /\ EmphasisNests)
  BY <1>1, InvariantHolds, EmphasisKeeps, PTL DEF Spec
<1> QED BY <1>2, PTL

-----------------------------------------------------------------------------
(* The two sweeps.                                                         *)

Concerned(s, t) == IsPlus(s) \/ IsPlus(t)

\* Some span starts before s and ends in it, or starts in it and ends behind it.
CrossedBefore(s) == \E t \in spans : t.from < s.from /\ Concerned(s, t) /\ s.from < t.to /\ t.to < s.to
CrossedBehind(s) == \E t \in spans : s.to < t.to /\ Concerned(s, t) /\ s.from < t.from /\ t.from < s.to

SweepOK ==
  /\ pass \notin {"forward", "backward", "reject", "done"} => rejected = {}
  /\ pass = "forward" =>
       /\ \A s \in swept, t \in spans \ swept : s.from < t.from
       /\ rejected = { s \in swept : CrossedBefore(s) }
  /\ pass = "backward" =>
       /\ \A s \in swept, t \in spans \ swept : t.to < s.to
       /\ rejected = { s \in spans : CrossedBefore(s) } \cup { s \in swept : CrossedBehind(s) }
  /\ pass = "reject" => rejected = { s \in spans : CrossedBefore(s) \/ CrossedBehind(s) }

LEMMA SpansNumbered == IInv => \A s \in spans : s.from \in Nat /\ s.to \in Nat /\ s.from < s.to
BY TextLength DEF IInv, SpansOK, Sits, Places1

LEMMA SweepForward ==
  ASSUME IInv, SweepOK, Sweep, pass = "forward"
  PROVE  SweepOK'
<1>1. /\ swept \subseteq spans /\ spans' = spans /\ pass' = "forward"
      /\ swept' = swept \cup Group /\ rejected' = rejected \cup { s \in Group : EndsInside(s) }
      /\ \A s \in swept, t \in spans \ swept : s.from < t.from
      /\ rejected = { s \in swept : CrossedBefore(s) }
  BY DEF IInv, SpansOK, SweepOK, Sweep
<1>2. \A s \in spans : s.from \in Nat /\ s.to \in Nat /\ s.from < s.to
  BY SpansNumbered
<1>3. Group \subseteq spans \ swept /\ \A s \in Group, t \in spans \ swept : s.from <= t.from
  BY DEF Group, Lo
<1>4. \A s \in spans \ swept : s \notin Group => \E t \in spans \ swept : ~ (s.from <= t.from)
  BY DEF Group, Lo
<1>5. ASSUME NEW s \in Group PROVE EndsInside(s) <=> CrossedBefore(s)
  <2>1. ASSUME NEW t \in spans PROVE t \in swept <=> t.from < s.from
    <3>1. CASE t \in swept
      BY <1>1, <1>3, <3>1
    <3>2. CASE t \notin swept
      BY <1>2, <1>3, <3>2
    <3> QED BY <3>1, <3>2
  <2>2. EndsInside(s) <=> \E t \in swept : Concerned(s, t) /\ s.from < t.to /\ t.to < s.to
    BY DEF EndsInside, Lo, Hi, Concerned
  <2> QED BY <1>1, <2>1, <2>2, Zenon DEF CrossedBefore
<1>6. rejected' = { s \in swept' : CrossedBefore(s) }
  BY <1>1, <1>5
<1>7. \A s \in swept', t \in spans \ swept' : s.from < t.from
  <2> SUFFICES ASSUME NEW s \in swept', NEW t \in spans \ swept' PROVE s.from < t.from
    OBVIOUS
  <2>1. t \in spans \ swept /\ t \notin Group
    BY <1>1
  <2>2. CASE s \in swept
    BY <1>1, <2>1, <2>2
  <2>3. CASE s \in Group
    <3>1. PICK u \in spans \ swept : ~ (t.from <= u.from)
      BY <1>4, <2>1
    <3>2. s.from <= u.from
      BY <1>3, <2>3
    <3>3. s.from \in Nat /\ t.from \in Nat /\ u.from \in Nat
      BY <1>2, <1>3, <2>1, <2>3
    <3> QED BY <3>1, <3>2, <3>3
  <2> QED BY <1>1, <2>2, <2>3
<1>8. { s \in swept' : CrossedBefore(s) } = { s \in swept' : CrossedBefore(s)' }
  BY <1>1 DEF CrossedBefore, Concerned, IsPlus
<1> QED BY <1>1, <1>6, <1>7, <1>8 DEF SweepOK

LEMMA SweepBackward ==
  ASSUME IInv, SweepOK, Sweep, pass = "backward"
  PROVE  SweepOK'
<1>1. /\ swept \subseteq spans /\ spans' = spans /\ pass' = "backward"
      /\ swept' = swept \cup Group /\ rejected' = rejected \cup { s \in Group : EndsInside(s) }
      /\ \A s \in swept, t \in spans \ swept : t.to < s.to
      /\ rejected = { s \in spans : CrossedBefore(s) } \cup { s \in swept : CrossedBehind(s) }
  BY DEF IInv, SpansOK, SweepOK, Sweep
<1>2. \A s \in spans : s.from \in Nat /\ s.to \in Nat /\ s.from < s.to
  BY SpansNumbered
<1> DEFINE n == Len(text) + 1
<1>3. n \in Nat
  BY TextLength
<1>4. \A s \in spans : Lo(s) = n - s.to /\ Hi(s) = n - s.from
  <2> SUFFICES ASSUME NEW s \in spans PROVE Lo(s) = n - s.to /\ Hi(s) = n - s.from
    OBVIOUS
  <2>1. Lo(s) = Len(text) + 1 - s.to /\ Hi(s) = Len(text) + 1 - s.from
    BY DEF Lo, Hi
  <2>2. Len(text) \in Nat /\ s.from \in Nat /\ s.to \in Nat
    BY <1>2, TextLength
  <2> QED BY <2>1, <2>2
<1> HIDE DEF n
<1>5. Group \subseteq spans \ swept /\ \A s \in Group, t \in spans \ swept : t.to <= s.to
  <2>1. Group \subseteq spans \ swept /\ \A s \in Group, t \in spans \ swept : n - s.to <= n - t.to
    BY <1>4 DEF Group
  <2>2. ASSUME NEW s \in Group, NEW t \in spans \ swept PROVE t.to <= s.to
    <3>1. s.to \in Nat /\ t.to \in Nat /\ n - s.to <= n - t.to
      BY <1>2, <2>1
    <3> QED BY <1>3, <3>1
  <2> QED BY <2>1, <2>2
<1>6. ASSUME NEW s \in spans \ swept, s \notin Group PROVE \E t \in spans \ swept : s.to < t.to
  <2>1. PICK t \in spans \ swept : ~ (n - s.to <= n - t.to)
    BY <1>4, <1>6 DEF Group
  <2>2. s.to \in Nat /\ t.to \in Nat
    BY <1>2
  <2> QED BY <1>3, <2>1, <2>2
<1>7. ASSUME NEW s \in Group PROVE EndsInside(s) <=> CrossedBehind(s)
  <2>1. ASSUME NEW t \in spans PROVE t \in swept <=> s.to < t.to
    <3>1. CASE t \in swept
      BY <1>1, <1>5, <3>1
    <3>2. CASE t \notin swept
      BY <1>2, <1>5, <3>2
    <3> QED BY <3>1, <3>2
  <2>2. ASSUME NEW t \in spans
        PROVE  (Lo(s) < Hi(t) /\ Hi(t) < Hi(s)) <=> (s.from < t.from /\ t.from < s.to)
    <3>1. /\ s.from \in Nat /\ s.to \in Nat /\ t.from \in Nat
          /\ Lo(s) = n - s.to /\ Hi(t) = n - t.from /\ Hi(s) = n - s.from
      BY <1>2, <1>4, <1>5
    <3> QED BY <1>3, <3>1
  <2> QED BY <1>1, <2>1, <2>2, Zenon DEF CrossedBehind, EndsInside, Concerned
<1>8. rejected' = { s \in spans : CrossedBefore(s) } \cup { s \in swept' : CrossedBehind(s) }
  BY <1>1, <1>7
<1>9. \A s \in swept', t \in spans \ swept' : t.to < s.to
  <2> SUFFICES ASSUME NEW s \in swept', NEW t \in spans \ swept' PROVE t.to < s.to
    OBVIOUS
  <2>1. t \in spans \ swept /\ t \notin Group
    BY <1>1
  <2>2. CASE s \in swept
    BY <1>1, <2>1, <2>2
  <2>3. CASE s \in Group
    <3>1. PICK u \in spans \ swept : t.to < u.to
      BY <1>6, <2>1
    <3>2. u.to <= s.to
      BY <1>5, <2>3
    <3>3. s.to \in Nat /\ t.to \in Nat /\ u.to \in Nat
      BY <1>2, <1>5, <2>1, <2>3
    <3> QED BY <3>1, <3>2, <3>3
  <2> QED BY <1>1, <2>2, <2>3
<1>10. \A s : (CrossedBefore(s) <=> CrossedBefore(s)') /\ (CrossedBehind(s) <=> CrossedBehind(s)')
  BY <1>1 DEF CrossedBefore, CrossedBehind, Concerned, IsPlus
<1> QED BY <1>1, <1>8, <1>9, <1>10 DEF SweepOK

LEMMA SweepsKeep == IInv /\ SweepOK /\ [Next]_vars => SweepOK'
<1> SUFFICES ASSUME IInv, SweepOK, [Next]_vars PROVE SweepOK'
  OBVIOUS
<1>1. ASSUME UNCHANGED <<rejected, swept>>, pass \notin {"forward", "backward", "reject", "done"},
             pass' \notin {"backward", "reject", "done"}
      PROVE  SweepOK'
  <2>1. rejected' = {} /\ swept' = {}
    BY <1>1 DEF SweepOK, IInv, PassOK
  <2> QED BY <1>1, <2>1 DEF SweepOK
<1>2. CASE Step
  <2>1. UNCHANGED <<rejected, swept>> /\ pass \notin {"forward", "backward", "reject", "done"}
    BY <1>2 DEF Step, inner, Finding
  <2>2. pass' \notin {"backward", "reject", "done"}
    BY <1>2, <2>1, Order DEF Step, Leave
  <2> QED BY <1>1, <2>1, <2>2
<1>3. CASE Protect \/ InTag \/ Html \/ HtmlEnd
  <2>1. UNCHANGED <<rejected, swept>> /\ pass \in {"protect", "html"} /\ pass' \in {"html", "math", "hex"}
    BY <1>3, Elsewhere
  <2> QED BY <1>1, <2>1
<1>4. CASE Math \/ Plus \/ EmphasisClose \/ EmphasisOpen
  BY <1>1, <1>4 DEF Math, Plus, EmphasisClose, EmphasisOpen, sweeps
<1>5. CASE MathEnd \/ PlusEnd \/ EmphasisEnd
  BY <1>1, <1>5, OrderOfRest DEF MathEnd, PlusEnd, EmphasisEnd, Leave, sweeps
<1>6. CASE Sweep
  BY <1>6, SweepForward, SweepBackward DEF Sweep
<1>7. CASE SweepEnd
  <2>1. /\ spans' = spans /\ rejected' = rejected /\ swept' = {} /\ spans \subseteq swept /\ swept \subseteq spans
        /\ \/ pass = "forward" /\ pass' = "backward"
           \/ pass = "backward" /\ pass' = "reject"
    BY <1>7, OrderOfRest DEF SweepEnd, Leave, IInv, SpansOK
  <2>2. swept = spans
    BY <2>1
  <2>3. \A s : (CrossedBefore(s) <=> CrossedBefore(s)') /\ (CrossedBehind(s) <=> CrossedBehind(s)')
    BY <2>1 DEF CrossedBefore, CrossedBehind, Concerned, IsPlus
  <2>4. CASE pass = "forward"
    <3>1. rejected = { s \in spans : CrossedBefore(s) }
      BY <2>2, <2>4 DEF SweepOK
    <3> QED BY <2>1, <2>3, <2>4, <3>1 DEF SweepOK
  <2>5. CASE pass = "backward"
    <3>1. rejected = { s \in spans : CrossedBefore(s) } \cup { s \in spans : CrossedBehind(s) }
      BY <2>2, <2>5 DEF SweepOK
    <3> QED BY <2>1, <2>3, <2>5, <3>1 DEF SweepOK
  <2> QED BY <2>1, <2>4, <2>5
<1>8. CASE Reject
  BY <1>8, OrderOfRest DEF Reject, Leave, SweepOK
<1>9. CASE UNCHANGED vars
  BY <1>9 DEF vars, SweepOK, CrossedBefore, CrossedBehind, Concerned, IsPlus
<1> QED BY <1>2, <1>3, <1>4, <1>5, <1>6, <1>7, <1>8, <1>9, FindingSteps, Zenon DEF Next, Delimiters

LEMMA OnlyReject ==
  ASSUME IInv, Next, pass = "reject" PROVE Reject
<1>1. ~ (Code \/ CodeEnd \/ Link \/ LinkEnd \/ Scanners)
  BY FindingSteps DEF Step, Finding
<1>2. ~ (Protect \/ InTag \/ Html \/ HtmlEnd)
  BY Elsewhere
<1>3. ~ (Math \/ MathEnd \/ Plus \/ PlusEnd \/ EmphasisClose \/ EmphasisOpen \/ EmphasisEnd
         \/ Sweep \/ SweepEnd)
  BY DEF Math, MathEnd, Plus, PlusEnd, EmphasisClose, EmphasisOpen, EmphasisEnd, Sweep, SweepEnd
<1> QED BY <1>1, <1>2, <1>3, Zenon DEF Next, Delimiters

LEMMA RejectsCrossing ==
  ASSUME SweepOK, Reject
  PROVE  spans' = { s \in spans : ~ \E t \in spans : Crosses(s, t) /\ (IsPlus(s) \/ IsPlus(t)) }
<1>1. spans' = spans \ rejected /\ rejected = { s \in spans : CrossedBefore(s) \/ CrossedBehind(s) }
  BY DEF Reject, SweepOK
<1>2. ASSUME NEW s \in spans
      PROVE  (CrossedBefore(s) \/ CrossedBehind(s)) <=>
               \E t \in spans : Crosses(s, t) /\ (IsPlus(s) \/ IsPlus(t))
  BY Zenon DEF CrossedBefore, CrossedBehind, Crosses, Concerned
<1> QED BY <1>1, <1>2

(* Whatever the spans, the two sweeps find exactly those that cross an     *)
(* underline, or are an underline that crosses another span                *)
(* (reject_crossing_plus).                                                 *)
THEOREM CrossingIsFound == Spec => CrossingStaysLiteral
<1>1. Init => SweepOK
  BY DEF Init, SweepOK
<1>2. IInv /\ SweepOK /\ [Next]_vars =>
        [ pass = "reject" =>
            spans' = { s \in spans : ~ \E t \in spans : Crosses(s, t) /\ (IsPlus(s) \/ IsPlus(t)) } ]_vars
  <2> SUFFICES ASSUME IInv, SweepOK, Next, pass = "reject"
               PROVE  spans' = { s \in spans : ~ \E t \in spans : Crosses(s, t) /\ (IsPlus(s) \/ IsPlus(t)) }
    OBVIOUS
  <2> QED BY OnlyReject, RejectsCrossing
<1> QED BY <1>1, <1>2, InvariantHolds, SweepsKeep, PTL DEF Spec, CrossingStaysLiteral

-----------------------------------------------------------------------------
(* Formulas.                                                               *)

FormulaSpan(f) == Span("Math", f[1], f[2], f[1] + 1, f[2] - 1)
Holds(f, t)    == f[1] <= t.from /\ t.to <= f[2]

FormulasOK ==
  /\ \A f, g \in formulas : f = g \/ f[2] <= g[1] \/ g[2] <= f[1]
  /\ pass \notin Late \cup {"math"} => formulas = {}
  /\ pass = "math" => \A f \in formulas : f[2] <= at /\ (open # None => f[2] <= open)
  /\ pass \in {"math", "plus"} => \A f \in formulas : f[1] \in hidden /\ f[1] .. f[2] - 1 \subseteq hidden
  /\ \A s \in spans : s.kind = "Math" => pass \in Late /\ \E f \in formulas : s = FormulaSpan(f)
  /\ pass \in Late =>
       /\ formulas \subseteq claimed
       /\ \A t \in spans, f \in formulas : t = FormulaSpan(f) \/ ~ Holds(f, t)
  /\ pass = "plus" => \A n \in 1 .. Len(stack) : stack[n] \notin hidden
  /\ \A h \in held : h.kind # "Math"

LEMMA FormulaIsOpaque == FormulasOK => FormulaOpaque
<1> SUFFICES ASSUME FormulasOK, NEW s \in spans, NEW t \in spans, s.kind = "Math", s # t
             PROVE  ~ (s.from <= t.from /\ t.to <= s.to)
  BY DEF FormulaOpaque
<1>1. PICK f \in formulas : s = FormulaSpan(f)
  BY DEF FormulasOK
<1>2. ~ Holds(f, t)
  BY <1>1 DEF FormulasOK
<1>3. s.from = f[1] /\ s.to = f[2]
  BY <1>1, ExtentOf DEF FormulaSpan
<1> QED BY <1>2, <1>3 DEF Holds

LEMMA FormulaNumbers ==
  IInv => \A f \in formulas : f[1] \in Nat /\ f[2] \in Nat /\ 1 <= f[1] /\ f[1] + 1 <= f[2] - 1
<1> SUFFICES ASSUME IInv, NEW f \in formulas
             PROVE  f[1] \in Nat /\ f[2] \in Nat /\ 1 <= f[1] /\ f[1] + 1 <= f[2] - 1
  OBVIOUS
<1>1. f \in Places1 \X Places1 /\ f[1] + 1 <= f[2] - 1
  BY DEF IInv, ClaimsOK
<1>2. f[1] \in Places1 /\ f[2] \in Places1
  BY <1>1
<1> QED BY <1>1, <1>2, TextLength DEF Places1

\* Before there are formulas.
LEMMA NoFormulas ==
  ASSUME formulas' = {}, pass' # "plus", \A s \in spans' \cup held' : s.kind # "Math"
  PROVE  FormulasOK'
BY DEF FormulasOK

\* Once all formulas are known.
LEMMA FormulasKnown ==
  ASSUME FormulasOK, pass \in Late, pass' \in Late, formulas' = formulas, claimed \subseteq claimed',
         \A h \in held' : h.kind # "Math",
         \A t \in spans' : t \in spans \/ (t.kind # "Math" /\ \A f \in formulas : ~ Holds(f, t)),
         pass' = "plus" => pass = "plus" /\ hidden' = hidden
                           /\ \A n \in 1 .. Len(stack') : stack'[n] \notin hidden
  PROVE  FormulasOK'
<1>1. pass' # "math"
  BY DEF Late
<1>2. pass' = "plus" => \A f \in formulas' : f[1] \in hidden' /\ f[1] .. f[2] - 1 \subseteq hidden'
  BY DEF FormulasOK
<1>3. \A s \in spans' : s.kind = "Math" => pass' \in Late /\ \E f \in formulas' : s = FormulaSpan(f)
  BY DEF FormulasOK
<1>4. formulas' \subseteq claimed' /\ \A t \in spans', f \in formulas' : t = FormulaSpan(f) \/ ~ Holds(f, t)
  BY DEF FormulasOK
<1>5. \A f, g \in formulas' : f = g \/ f[2] <= g[1] \/ g[2] <= f[1]
  BY DEF FormulasOK
<1> QED BY <1>1, <1>2, <1>3, <1>4, <1>5, Zenon DEF FormulasOK

\* A span that a claim does not refuse is not inside of a formula.
LEMMA RefusedInside ==
  ASSUME IInv, FormulasOK, pass \in Late, NEW x, Sits(x), ~ IsClaimed(Extent(x)), NEW f \in formulas
  PROVE  ~ Holds(f, x)
<1>1. f \in claimed
  BY DEF FormulasOK
<1>2. f[1] \in Nat /\ f[2] \in Nat /\ x.from \in Nat /\ x.to \in Nat /\ x.from < x.to
  <2>1. x.from \in Nat /\ x.to \in Nat /\ x.from < x.to
    BY TextLength DEF Sits, Places1
  <2> QED BY <2>1, FormulaNumbers
<1>3. ~ Overlap(Extent(x), f)
  BY <1>1 DEF IsClaimed
<1> QED BY <1>2, <1>3 DEF Overlap, Extent, Holds

LEMMA MathFormulas == IInv /\ FormulasOK /\ Math => FormulasOK'
<1> SUFFICES ASSUME IInv, FormulasOK, Math PROVE FormulasOK'
  OBVIOUS
<1>1. Len(text) \in Nat /\ at \in Nat /\ open \in Nat
  BY TextLength DEF IInv, PlacesOK
<1> DEFINE k == Min(MathPlaces)
<1>2. k \in at .. Len(text) /\ k \in 1 .. Len(text)
  <2>1. MathPlaces \subseteq at .. Len(text) /\ MathPlaces # {}
    BY DEF MathPlaces, Math
  <2>2. k \in at .. Len(text)
    BY <1>1, <2>1, LeastBehind
  <2> HIDE DEF k
  <2> QED BY <2>2, TextLength
<1>3. /\ pass = "math" /\ pass' = "math" /\ spans' = spans /\ held' = held
      /\ \/ at' = k + 1 /\ open' = None /\ UNCHANGED <<hidden, formulas>>
         \/ /\ MathCloses(k) /\ at' = k + 1 /\ open' = None
            /\ hidden' = hidden \cup open .. k /\ formulas' = formulas \cup {<<open, k + 1>>}
         \/ at' = RunEnd(k) /\ open' \in {k, open} /\ UNCHANGED <<hidden, formulas>>
  BY DEF Math
<1> HIDE DEF k
<1>4. /\ \A f \in formulas : f[2] <= at /\ (open # None => f[2] <= open)
      /\ \A f \in formulas : f[1] \in hidden /\ f[1] .. f[2] - 1 \subseteq hidden
      /\ \A f, g \in formulas : f = g \/ f[2] <= g[1] \/ g[2] <= f[1]
  BY <1>3 DEF FormulasOK
<1>5. RunEnd(k) \in Nat /\ RunEnd(k) > k
  <2>1. RunEnd(k) \in k + 1 .. Len(text) + 1
    BY <1>1, <1>2, RunEndBounds
  <2> QED BY <1>1, <1>2, <2>1
<1>6. ASSUME NEW f \in formulas PROVE f[2] <= at' /\ (open' # None => f[2] <= open')
  <2>1. f[2] \in Nat /\ f[2] <= at /\ (open # None => f[2] <= open)
    BY <1>4, FormulaNumbers
  <2>2. f[2] <= k
    BY <1>1, <1>2, <2>1
  <2>3. f[2] <= at'
    BY <1>2, <1>3, <1>5, <2>1, <2>2
  <2>4. open' \in {None, k, open}
    BY <1>3
  <2> QED BY <2>1, <2>2, <2>3, <2>4
<1>7. CASE UNCHANGED <<hidden, formulas>>
  BY <1>3, <1>4, <1>6, <1>7 DEF FormulasOK, Late
<1>8. CASE /\ MathCloses(k) /\ at' = k + 1 /\ open' = None
           /\ hidden' = hidden \cup open .. k /\ formulas' = formulas \cup {<<open, k + 1>>}
  <2> DEFINE n == <<open, k + 1>>
  <2>1. n[1] = open /\ n[2] = k + 1 /\ open # None /\ open < k /\ k \in Nat
    BY <1>1, <1>2, <1>8 DEF MathCloses
  <2>2. formulas' = formulas \cup {n}
    BY <1>8
  <2> HIDE DEF n
  <2>3. \A f \in formulas : f[2] <= n[1]
    BY <1>4, <2>1
  <2>4. \A f, g \in formulas' : f = g \/ f[2] <= g[1] \/ g[2] <= f[1]
    BY <1>4, <2>2, <2>3, Zenon
  <2>5. n[1] \in open .. k /\ n[1] .. n[2] - 1 \subseteq open .. k
    BY <1>1, <2>1
  <2>6. \A f \in formulas' : f[1] \in hidden' /\ f[1] .. f[2] - 1 \subseteq hidden'
    BY <1>4, <1>8, <2>2, <2>5, Zenon
  <2>7. \A f \in formulas' : f[2] <= at'
    <3>1. n[2] <= at'
      BY <1>8, <2>1
    <3> QED BY <1>6, <2>2, <3>1, Zenon
  <2> QED BY <1>3, <1>8, <2>4, <2>6, <2>7 DEF FormulasOK, Late
<1> QED BY <1>3, <1>7, <1>8

LEMMA MathEndFormulas == IInv /\ FormulasOK /\ MathEnd => FormulasOK'
<1> SUFFICES ASSUME IInv, FormulasOK, MathEnd PROVE FormulasOK'
  OBVIOUS
<1>1. /\ pass = "math" /\ pass' = "plus" /\ formulas' = formulas /\ hidden' = hidden
      /\ stack' = stack /\ held' = held /\ formulas \subseteq claimed'
      /\ \A s \in spans' : (s \in spans /\ ReachesOut(Extent(s))) \/ \E f \in formulas : s = FormulaSpan(f)
  BY OrderOfRest DEF MathEnd, Leave, FormulaSpan
<1>2. /\ \A f, g \in formulas : f = g \/ f[2] <= g[1] \/ g[2] <= f[1]
      /\ \A f \in formulas : f[1] \in hidden /\ f[1] .. f[2] - 1 \subseteq hidden
      /\ \A s \in spans : s.kind # "Math"
  BY <1>1 DEF FormulasOK, Late
<1>3. stack' = <<>>
  BY <1>1 DEF IInv, PassOK
<1>4. ASSUME NEW t \in spans', NEW f \in formulas, Holds(f, t) PROVE t = FormulaSpan(f)
  <2>1. CASE \E g \in formulas : t = FormulaSpan(g)
    <3>1. PICK g \in formulas : t = FormulaSpan(g)
      BY <2>1
    <3>2. t.from = g[1] /\ t.to = g[2]
      BY <3>1, ExtentOf DEF FormulaSpan
    <3>3. f[1] <= g[1] /\ g[2] <= f[2]
      BY <1>4, <3>2 DEF Holds
    <3>4. /\ f[1] \in Nat /\ f[2] \in Nat /\ f[1] + 1 <= f[2] - 1
          /\ g[1] \in Nat /\ g[2] \in Nat /\ g[1] + 1 <= g[2] - 1
      BY FormulaNumbers
    <3>5. f = g
      BY <1>2, <3>3, <3>4
    <3> QED BY <3>1, <3>5
  <2>2. CASE t \in spans /\ ReachesOut(Extent(t))
    <3>1. t.from \in Nat /\ t.to \in Nat /\ t.from < t.to
      BY <2>2, SpansNumbered
    <3>2. f[1] \in Nat /\ f[2] \in Nat /\ f[1] <= t.from /\ t.to <= f[2]
      BY <1>4, FormulaNumbers DEF Holds
    <3>3. ASSUME NEW g \in formulas, g[1] <= t.from PROVE g[1] <= f[1]
      <4>1. g[1] \in Nat /\ g[2] \in Nat
        BY FormulaNumbers
      <4>2. f = g \/ f[2] <= g[1] \/ g[2] <= f[1]
        BY <1>2
      <4>3. g[1] + 1 <= g[2] - 1
        BY FormulaNumbers
      <4> QED BY <3>1, <3>2, <3>3, <4>1, <4>2, <4>3
    <3>4. Extent(t)[1] = t.from /\ Extent(t)[2] = t.to
      BY DEF Extent
    <3>5. t.to > f[2]
      BY <2>2, <3>2, <3>3, <3>4 DEF ReachesOut
    <3> QED BY <3>1, <3>2, <3>5
  <2> QED BY <1>1, <2>1, <2>2
<1>5. \A s \in spans' : s.kind = "Math" => \E f \in formulas : s = FormulaSpan(f)
  BY <1>1, <1>2
<1>6. pass' \in Late /\ pass' # "math"
  BY <1>1 DEF Late
<1>7. \A n \in 1 .. Len(stack') : stack'[n] \notin hidden'
  BY <1>3
<1>8. \A h \in held' : h.kind # "Math"
  BY <1>1 DEF FormulasOK
<1>9. pass' \in Late => /\ formulas' \subseteq claimed'
                        /\ \A t \in spans', f \in formulas' : t = FormulaSpan(f) \/ ~ Holds(f, t)
  BY <1>1, <1>4
<1> QED BY <1>1, <1>2, <1>5, <1>6, <1>7, <1>8, <1>9, Zenon DEF FormulasOK

LEMMA PlusFormulas == IInv /\ FormulasOK /\ Plus => FormulasOK'
<1> SUFFICES ASSUME IInv, FormulasOK, Plus PROVE FormulasOK'
  OBVIOUS
<1> DEFINE p == PlusAt
           q == RunEnd(PlusAt)
<1>1. /\ p \notin hidden /\ pass = "plus" /\ pass' = "plus" /\ hidden' = hidden
      /\ formulas' = formulas /\ claimed' = claimed /\ held' = held
      /\ \A n \in 1 .. Len(stack') : stack'[n] = p \/ \E m \in 1 .. Len(stack) : stack'[n] = stack[m]
      /\ \/ UNCHANGED spans
         \/ \E m \in 1 .. Len(stack) :
              p > stack[m] + 2 /\ spans' = spans \cup {Span("UnderlinePlus", stack[m], q, stack[m] + 2, p)}
  BY PlusFacts
<1>2. p \in Nat /\ q \in Nat /\ p < q /\ stack \in Seq(1 .. Len(text))
  <2>1. PlusAt \in 1 .. Len(text) /\ RunEnd(PlusAt) \in PlusAt + 1 .. Len(text) + 1 /\ stack \in Seq(1 .. Len(text))
    BY PlusFacts
  <2> HIDE DEF p, q
  <2>2. PlusAt \in Nat /\ RunEnd(PlusAt) \in Nat /\ PlusAt < RunEnd(PlusAt)
    BY <2>1, TextLength
  <2> QED BY <2>1, <2>2 DEF p, q
<1> HIDE DEF p, q
<1>3. \A n \in 1 .. Len(stack) : stack[n] \notin hidden
  BY <1>1 DEF FormulasOK
<1>4. \A n \in 1 .. Len(stack') : stack'[n] \notin hidden
  BY <1>1, <1>3, Zenon
<1>5. ASSUME NEW m \in 1 .. Len(stack), p > stack[m] + 2,
             NEW x, x = Span("UnderlinePlus", stack[m], q, stack[m] + 2, p), NEW f \in formulas
      PROVE  x.kind # "Math" /\ ~ Holds(f, x)
  <2>1. x.kind = "UnderlinePlus" /\ x.from = stack[m] /\ x.to = q
    BY <1>5, ExtentOf
  <2>2. stack[m] \in Nat /\ stack[m] < q
    BY <1>2, <1>5
  <2>3. f[1] \in Nat /\ f[2] \in Nat /\ f[1] .. f[2] - 1 \subseteq hidden
    BY <1>1, FormulaNumbers DEF FormulasOK
  <2>4. ASSUME Holds(f, x) PROVE stack[m] \in f[1] .. f[2] - 1
    <3>1. f[1] <= stack[m] /\ q <= f[2]
      BY <2>1, <2>4 DEF Holds
    <3>2. stack[m] \in Nat /\ q \in Nat /\ stack[m] < q /\ f[1] \in Nat /\ f[2] \in Nat
      BY <1>2, <2>2, <2>3
    <3> HIDE DEF Holds
    <3> QED BY ONLY <3>1, <3>2
  <2> QED BY <1>3, <2>1, <2>3, <2>4
<1>6. \A t \in spans' : t \in spans \/ (t.kind # "Math" /\ \A f \in formulas : ~ Holds(f, t))
  <2>1. CASE UNCHANGED spans
    BY <2>1
  <2>2. ASSUME NEW m \in 1 .. Len(stack), p > stack[m] + 2,
               spans' = spans \cup {Span("UnderlinePlus", stack[m], q, stack[m] + 2, p)}
        PROVE  \A t \in spans' : t \in spans \/ (t.kind # "Math" /\ \A f \in formulas : ~ Holds(f, t))
    <3>1. Span("UnderlinePlus", stack[m], q, stack[m] + 2, p).kind # "Math"
      BY ExtentOf
    <3>2. \A f \in formulas : ~ Holds(f, Span("UnderlinePlus", stack[m], q, stack[m] + 2, p))
      BY <1>5, <2>2
    <3> QED BY <2>2, <3>1, <3>2, Zenon
  <2> QED BY <1>1, <2>1, <2>2
<1>7. pass \in Late /\ pass' \in Late
  BY <1>1 DEF Late
<1>8. (\A h \in held' : h.kind # "Math") /\ claimed \subseteq claimed'
  BY <1>1 DEF FormulasOK
<1> QED BY <1>1, <1>4, <1>6, <1>7, <1>8, FormulasKnown, Zenon

\* What emphasis closes has as many asterisks on both sides, at least one.
LEMMA HeldSpan ==
  ASSUME IInv, EmphasisClose
  PROVE  \E k \in 1 .. 3, from \in Nat, to \in Nat :
           held' = held \cup {Span(EmphasisKind(k), from, to, from + k, to - k)}
<1> DEFINE n == Max(Matches)
           o == stack[n]
           k == Min({3, StarsLeft, o.left})
           from == o.at + o.left - k
           to == StarRun + used + k
<1>1. /\ held' = held \cup {Span(EmphasisKind(k), from, to, from + k, to - k)}
      /\ pass = "emphasis" /\ Matches # {}
  BY DEF EmphasisClose
<1>2. /\ StarRun \in 1 .. Len(text) /\ StarEnd \in StarRun + 1 .. Len(text) + 1
      /\ used \in Nat /\ Shape(stack, held, StarRun + used) /\ Len(text) \in Nat
  BY StarFacts, TextLength DEF EmphasisClose
<1>3. n \in 1 .. Len(stack)
  <2>1. Matches \subseteq 1 .. Len(stack)
    BY DEF Matches
  <2>2. Len(stack) \in Nat
    BY <1>2 DEF Shape
  <2>3. Matches \in SUBSET (0 .. Len(stack))
    BY <2>1, <2>2
  <2> QED BY <1>1, <2>1, <2>2, <2>3, MaxIsGreatest
<1>4. StarsLeft \in Nat /\ StarsLeft >= 1
  <2>1. StarsLeft = StarEnd - StarRun - used /\ StarsLeft > 0
    BY <1>1 DEF StarsLeft, Matches
  <2> QED BY <1>2, <2>1
<1> HIDE DEF n
<1>5. o.at \in Nat /\ o.left \in Nat /\ o.left >= 1
  <2>1. o \in Openers /\ o.left >= 1
    BY <1>2, <1>3 DEF Shape
  <2> QED BY <2>1 DEF Openers
<1> HIDE DEF o
<1>6. k \in 1 .. 3 /\ k <= o.left
  <2> DEFINE S == {3, StarsLeft, o.left}
  <2>1. S \in SUBSET Nat /\ S # {} /\ 3 \in S /\ o.left \in S /\ \A x \in S : x >= 1
    BY <1>4, <1>5
  <2>2. k = Min(S)
    OBVIOUS
  <2> HIDE DEF S, k
  <2>3. Min(S) \in S /\ \A x \in S : Min(S) <= x
    BY <2>1, MinIsLeast
  <2>4. Min(S) \in Nat
    BY <2>1, <2>3
  <2>5. Min(S) >= 1 /\ Min(S) <= 3 /\ Min(S) <= o.left
    BY <2>1, <2>3
  <2> QED BY <2>2, <2>4, <2>5
<1> HIDE DEF k
<1>7. from \in Nat /\ to \in Nat
  BY <1>2, <1>5, <1>6
<1> HIDE DEF from, to
<1> QED BY <1>1, <1>6, <1>7

\* Emphasis is no formula.
LEMMA HeldIsEmphasis ==
  ASSUME IInv, EmphasisClose
  PROVE  \A h \in held' : h \in held \/ h.kind \in EmphasisKinds
<1>1. PICK k \in 1 .. 3, from \in Nat, to \in Nat :
        held' = held \cup {Span(EmphasisKind(k), from, to, from + k, to - k)}
  BY HeldSpan
<1>2. EmphasisKind(k) \in EmphasisKinds
  BY DEF EmphasisKind, EmphasisKinds
<1> QED BY <1>1, <1>2, ExtentOf

LEMMA FormulasKeep == IInv /\ FormulasOK /\ [Next]_vars => FormulasOK'
<1> SUFFICES ASSUME IInv, FormulasOK, [Next]_vars PROVE FormulasOK'
  OBVIOUS
<1>1. \A h \in held : h.kind # "Math"
  BY DEF FormulasOK
<1>2. CASE Step
  <2>1. /\ formulas' = formulas /\ held' = held /\ hidden' = hidden /\ stack' = stack
        /\ pass \in Finding /\ (pass' = pass \/ pass' = After[pass])
    BY <1>2 DEF Step, inner, Leave
  <2>2. pass # "plus" /\ pass' # "plus" /\ pass # "math" /\ (pass \in Late <=> pass' \in Late)
    BY <2>1, Order DEF Finding
  <2>3. \A t \in spans' : t \in spans \/ (t.kind # "Math" /\ Sits(t) /\ ~ IsClaimed(Extent(t)))
    BY <1>2 DEF Step, Finds, Fits
  <2>4. claimed \subseteq claimed'
    BY <1>2 DEF Step, Finds
  <2>5. CASE pass \in Late
    <3>1. \A t \in spans' : t \in spans \/ (t.kind # "Math" /\ \A f \in formulas : ~ Holds(f, t))
      BY <2>3, <2>5, RefusedInside
    <3> QED BY <1>1, <2>1, <2>2, <2>4, <2>5, <3>1, FormulasKnown, Zenon
  <2>6. CASE pass \notin Late
    <3>1. formulas = {} /\ \A s \in spans : s.kind # "Math"
      BY <2>2, <2>6 DEF FormulasOK
    <3> QED BY <1>1, <2>1, <2>2, <2>3, <3>1, NoFormulas, Zenon
  <2> QED BY <2>5, <2>6
<1>3. CASE Protect \/ InTag \/ Html \/ HtmlEnd
  <2>1. /\ UNCHANGED <<spans, formulas, held>>
        /\ pass \in {"protect", "html"} /\ pass' \in {"html", "math", "hex"}
    BY <1>3, Elsewhere
  <2>2. pass \notin Late \cup {"math"} /\ pass' # "plus"
    BY <2>1 DEF Late
  <2>3. formulas = {} /\ \A s \in spans : s.kind # "Math"
    BY <2>2 DEF FormulasOK
  <2> QED BY <1>1, <2>1, <2>2, <2>3, NoFormulas, Zenon
<1>4. ASSUME pass \in Late, pass' \in Late \ {"plus"}, formulas' = formulas, claimed' = claimed,
             \A h \in held' : h.kind # "Math", spans' \subseteq spans
      PROVE  FormulasOK'
  BY <1>4, FormulasKnown, Zenon
<1>5. CASE PlusEnd
  <2>1. pass = "plus" /\ pass' = "hex" /\ UNCHANGED <<formulas, claimed, held, spans>>
    BY <1>5, OrderOfRest DEF PlusEnd, Leave
  <2> QED BY <1>1, <1>4, <2>1 DEF Late
<1>6. CASE EmphasisClose
  <2>1. pass = "emphasis" /\ pass' = "emphasis" /\ UNCHANGED <<formulas, claimed, spans>>
    BY <1>6 DEF EmphasisClose
  <2>2. \A h \in held' : h.kind # "Math"
    BY <1>1, <1>6, HeldIsEmphasis DEF EmphasisKinds
  <2> QED BY <1>4, <2>1, <2>2 DEF Late
<1>7. CASE EmphasisOpen
  <2>1. pass = "emphasis" /\ pass' = "emphasis" /\ UNCHANGED <<formulas, claimed, held, spans>>
    BY <1>7 DEF EmphasisOpen
  <2> QED BY <1>1, <1>4, <2>1 DEF Late
<1>8. CASE EmphasisEnd
  <2>1. /\ pass = "emphasis" /\ pass' = "strike" /\ UNCHANGED <<formulas, claimed>> /\ held' = {}
        /\ \A t \in spans' : t \in spans \/ (t \in held /\ ~ IsClaimed(Extent(t)))
    BY <1>8, OrderOfRest DEF EmphasisEnd, Leave
  <2>2. \A h \in held : Sits(h)
    BY DEF IInv, SpansOK
  <2>3. pass \in Late /\ pass' \in Late /\ pass' # "plus" /\ claimed \subseteq claimed'
    BY <2>1 DEF Late
  <2>4. \A t \in spans' : t \in spans \/ (t.kind # "Math" /\ \A f \in formulas : ~ Holds(f, t))
    BY <1>1, <2>1, <2>2, <2>3, RefusedInside
  <2>5. \A h \in held' : h.kind # "Math"
    BY <2>1
  <2> QED BY <2>1, <2>3, <2>4, <2>5, FormulasKnown, Zenon
<1>9. CASE Sweep
  <2>1. pass \in {"forward", "backward"} /\ pass' = pass /\ UNCHANGED <<formulas, claimed, held, spans>>
    BY <1>9 DEF Sweep
  <2> QED BY <1>1, <1>4, <2>1 DEF Late
<1>10. CASE SweepEnd
  <2>1. /\ pass \in {"forward", "backward"} /\ pass' \in {"backward", "reject"}
        /\ UNCHANGED <<formulas, claimed, held, spans>>
    BY <1>10, OrderOfRest DEF SweepEnd, Leave
  <2> QED BY <1>1, <1>4, <2>1 DEF Late
<1>11. CASE Reject
  <2>1. pass = "reject" /\ pass' = "done" /\ UNCHANGED <<formulas, claimed, held>> /\ spans' \subseteq spans
    BY <1>11, OrderOfRest DEF Reject, Leave, inner
  <2> QED BY <1>1, <1>4, <2>1 DEF Late
<1>12. CASE UNCHANGED vars
  BY <1>12 DEF vars, FormulasOK
<1> QED BY <1>2, <1>3, <1>5, <1>6, <1>7, <1>8, <1>9, <1>10, <1>11, <1>12, MathFormulas, MathEndFormulas,
           PlusFormulas, FindingSteps, Zenon DEF Next, Delimiters

(* Whatever the text, no span is inside of a formula: those found before   *)
(* are dropped, and those found later are refused, or open where the       *)
(* formula is hidden (parse_extended_inlines).                             *)
THEOREM FormulasStayOpaque == Spec => []FormulaOpaque
<1>1. Init => FormulasOK
  BY DEF Init, FormulasOK, Late
<1>2. Spec => []FormulasOK
  BY <1>1, InvariantHolds, FormulasKeep, PTL DEF Spec
<1> QED BY <1>2, FormulaIsOpaque, PTL

-----------------------------------------------------------------------------
(* Underlines.  A span that the signs of an underline must not be inside   *)
(* of is hidden from its opening sign, and does not begin at its second    *)
(* one.                                                                    *)

EarlyKinds == {"InlineCode", "Comment", "WikiLink", "Link", "AutoLink"}
PlainKinds ==
  {"HexColor", "Strikethrough", "Highlight", "UnderlineHtml", "UnderlineTilde", "FootnoteRef"}
  \cup EmphasisKinds
Early == {"code", "comment", "wiki", "link", "angle", "scheme", "email", "domain", "subreddit", "protect"}

\* Where Inside(t) begins.
Onset(t) == IF t.kind = "Link" THEN t.cto ELSE t.from
\* The two signs of an underline.
Pair(p)  == Is(text, p, "+") /\ Is(text, p + 1, "+")
Clean(t) == ~ (Is(text, Onset(t), "+") /\ Is(text, Onset(t) - 1, "+"))
Opaque(t) == t.kind \in EarlyKinds /\ Clean(t)

LEMMA FoundOpaque ==
  ASSUME NEW kind, kind \in EarlyKinds \ {"Link"}, NEW a, ~ Is(text, a, "+") \/ ~ Is(text, a - 1, "+"),
         NEW b, NEW c, NEW d, NEW p
  PROVE  Opaque(Found(p, Span(kind, a, b, c, d)).span)
<1>1. Found(p, Span(kind, a, b, c, d)).span = Span(kind, a, b, c, d)
  BY DEF Found
<1>2. Onset(Span(kind, a, b, c, d)) = a
  BY ExtentOf DEF Onset
<1>3. Span(kind, a, b, c, d).kind \in EarlyKinds
  BY ExtentOf
<1> QED BY <1>1, <1>2, <1>3, Zenon DEF Opaque, Clean

LEMMA FoundPlain ==
  ASSUME NEW f, NEW kind, kind \in PlainKinds, NEW p, NEW a, NEW b, NEW c, NEW d,
         f = Found(p, Span(kind, a, b, c, d))
  PROVE  f.span.kind \in PlainKinds
BY DEF Found, Span

\* A text that reads another sign does not read a plus.
LEMMA NoPlus ==
  ASSUME NEW p \in Nat, NEW w, 1 \in 1 .. Len(w), w[1] # "+", Reads(text, p, w)
  PROVE  ~ Is(text, p, "+")
<1>1. Is(text, p + 1 - 1, w[1])
  BY Zenon DEF Reads
<1>2. p + 1 - 1 = p
  OBVIOUS
<1>3. Is(text, p, w[1])
  BY <1>1, <1>2, Zenon
<1> QED BY <1>3 DEF Is

LEMMA NoPlusPlace ==
  ASSUME NEW b \in Nat, NEW w, 1 \in 1 .. Len(w), w[1] # "+", NEW p \in Places(text, b, w)
  PROVE  ~ Is(text, p, "+")
<1>1. Reads(text, p, w) /\ p \in Nat
  BY PlacesBehind
<1> QED BY <1>1, NoPlus, Zenon

LEMMA CommentsOpaque ==
  ASSUME at \in Nat PROVE \A f \in Pairs(<<"%", "%">>, "Comment") : Opaque(f.span)
<1> SUFFICES ASSUME NEW f \in Pairs(<<"%", "%">>, "Comment") PROVE Opaque(f.span)
  OBVIOUS
<1> DEFINE w == <<"%", "%">>
<1>1. PICK p \in Places(text, at, w) :
        f = Found(p, Span("Comment", p, Min(Places(text, p + 2, w)) + 2, p + 2, Min(Places(text, p + 2, w))))
  BY DEF Pairs
<1>2. 1 \in 1 .. Len(w) /\ w[1] # "+" /\ "Comment" \in EarlyKinds \ {"Link"}
  BY DEF EarlyKinds
<1> HIDE DEF w
<1>3. ~ Is(text, p, "+")
  BY <1>2, NoPlusPlace, Zenon
<1> QED BY <1>1, <1>2, <1>3, FoundOpaque, Zenon

LEMMA WikiLinksOpaque ==
  ASSUME at \in Nat PROVE \A f \in WikiLinks : Opaque(f.span)
<1> SUFFICES ASSUME NEW f \in WikiLinks PROVE Opaque(f.span)
  OBVIOUS
<1> DEFINE w == <<"[", "[">>
<1>1. PICK p \in Places(text, at, w) : \E b, c, d : f = Found(p, Span("WikiLink", p, b, c, d))
  BY DEF WikiLinks
<1>2. 1 \in 1 .. Len(w) /\ w[1] # "+" /\ "WikiLink" \in EarlyKinds \ {"Link"}
  BY DEF EarlyKinds
<1> HIDE DEF w
<1>3. ~ Is(text, p, "+")
  BY <1>2, NoPlusPlace, Zenon
<1> QED BY <1>1, <1>2, <1>3, FoundOpaque, Zenon

LEMMA AngleLinksOpaque == \A f \in AngleLinks(text) : Opaque(f.span)
<1> SUFFICES ASSUME NEW f \in AngleLinks(text) PROVE Opaque(f.span)
  OBVIOUS
<1> DEFINE w == <<"<">>
<1>1. PICK p \in Places(text, 1, w) : \E b, c, d : f = Found(p, Span("AutoLink", p, b, c, d))
  BY DEF AngleLinks
<1>2. 1 \in 1 .. Len(w) /\ w[1] # "+" /\ "AutoLink" \in EarlyKinds \ {"Link"} /\ 1 \in Nat
  BY DEF EarlyKinds
<1> HIDE DEF w
<1>3. ~ Is(text, p, "+")
  BY <1>2, NoPlusPlace, Zenon
<1> QED BY <1>1, <1>2, <1>3, FoundOpaque, Zenon

LEMMA AddressOpaque ==
  ASSUME NEW a, ~ Is(text, a, "+") \/ ~ Is(text, a - 1, "+"), NEW b, NEW p
  PROVE  Opaque(Found(p, Address(a, b)).span)
<1>1. "AutoLink" \in EarlyKinds \ {"Link"}
  BY DEF EarlyKinds
<1> QED BY <1>1, FoundOpaque, Zenon DEF Address

LEMMA SchemeLinksOpaque == \A f \in SchemeLinks(text) : Opaque(f.span)
<1> SUFFICES ASSUME NEW f \in SchemeLinks(text) PROVE Opaque(f.span)
  OBVIOUS
<1> DEFINE w == <<"http", ":", "/", "/">>
<1>1. PICK p \in 1 .. Len(text) : Reads(text, p, w) /\ f = Found(p, Address(p, UrlEnd(text, p + 4)))
  BY DEF SchemeLinks
<1>2. 1 \in 1 .. Len(w) /\ w[1] # "+" /\ p \in Nat
  OBVIOUS
<1> HIDE DEF w
<1>3. ~ Is(text, p, "+")
  BY <1>1, <1>2, NoPlus, Zenon
<1> QED BY <1>1, <1>3, AddressOpaque, Zenon

LEMMA NotBehindPlus ==
  ASSUME Len(text) \in Nat, NEW a, NEW C, "+" \notin C, a > 1 => text[a - 1] \in C
  PROVE  ~ Is(text, a, "+") \/ ~ Is(text, a - 1, "+")
<1> SUFFICES ASSUME Is(text, a, "+"), Is(text, a - 1, "+") PROVE FALSE
  OBVIOUS
<1>1. a \in 1 .. Len(text) /\ a - 1 \in 1 .. Len(text) /\ text[a - 1] = "+"
  BY DEF Is
<1>2. a > 1
  BY <1>1
<1> QED BY <1>1, <1>2

\* The local part is as long as it can be, so it splits no run of pluses.
LEMMA EmailLinksOpaque ==
  ASSUME Len(text) \in Nat PROVE \A f \in EmailLinks(text) : Opaque(f.span)
<1> SUFFICES ASSUME NEW f \in EmailLinks(text) PROVE Opaque(f.span)
  OBVIOUS
<1>1. PICK p \in Places(text, 1, <<"@">>) :
        /\ LocalStart(text, p) > 1 => text[LocalStart(text, p) - 1] \in UrlBoundaries \cup {"."}
        /\ f = Found(p, Address(LocalStart(text, p), DomainEnd(text, p)))
  BY DEF EmailLinks
<1> DEFINE a == LocalStart(text, p)
<1>2. (a > 1 => text[a - 1] \in UrlBoundaries \cup {"."}) /\ f = Found(p, Address(a, DomainEnd(text, p)))
  BY <1>1
<1> HIDE DEF a
<1>3. "+" \notin UrlBoundaries \cup {"."}
  BY DEF UrlBoundaries, Blanks
<1>4. ~ Is(text, a, "+") \/ ~ Is(text, a - 1, "+")
  BY <1>2, <1>3, NotBehindPlus
<1> QED BY <1>2, <1>4, AddressOpaque, Zenon

LEMMA DomainLinksOpaque ==
  ASSUME Len(text) \in Nat PROVE \A f \in DomainLinks(text) : Opaque(f.span)
<1> SUFFICES ASSUME NEW f \in DomainLinks(text) PROVE Opaque(f.span)
  OBVIOUS
<1>1. PICK p \in 1 .. Len(text) : \E b :
        /\ SkipBack(text, p, DomainCharacters) > 1
             => text[SkipBack(text, p, DomainCharacters) - 1] \in UrlBoundaries
        /\ f = Found(p, Address(SkipBack(text, p, DomainCharacters), b))
  BY DEF DomainLinks
<1> DEFINE a == SkipBack(text, p, DomainCharacters)
<1>2. PICK b : (a > 1 => text[a - 1] \in UrlBoundaries) /\ f = Found(p, Address(a, b))
  BY <1>1
<1> HIDE DEF a
<1>3. "+" \notin UrlBoundaries
  BY DEF UrlBoundaries, Blanks
<1>4. ~ Is(text, a, "+") \/ ~ Is(text, a - 1, "+")
  BY <1>2, <1>3, NotBehindPlus
<1> QED BY <1>2, <1>4, AddressOpaque, Zenon

LEMMA SubredditLinksOpaque == \A f \in SubredditLinks(text) : Opaque(f.span)
<1> SUFFICES ASSUME NEW f \in SubredditLinks(text) PROVE Opaque(f.span)
  OBVIOUS
<1> DEFINE w == <<"r", "/">>
<1>1. PICK p \in 1 .. Len(text) : Reads(text, p, w) /\ \E b : f = Found(p, Address(p, b))
  BY DEF SubredditLinks
<1>2. 1 \in 1 .. Len(w) /\ w[1] # "+" /\ p \in Nat
  OBVIOUS
<1> HIDE DEF w
<1>3. ~ Is(text, p, "+")
  BY <1>1, <1>2, NoPlus, Zenon
<1> QED BY <1>1, <1>3, AddressOpaque, Zenon

LEMMA LatePairsPlain == \A f \in Pairs(<<"~", "~">>, "Strikethrough") : f.span.kind \in PlainKinds
<1>1. \A f \in Pairs(<<"~", "~">>, "Strikethrough") :
        \E p, a, b, c, d : f = Found(p, Span("Strikethrough", a, b, c, d))
  BY DEF Pairs
<1>2. "Strikethrough" \in PlainKinds
  BY DEF PlainKinds
<1> QED BY <1>1, <1>2, FoundPlain, Zenon

LEMMA LateFindsPlain ==
  /\ \A f \in Highlights : f.span.kind \in PlainKinds
  /\ \A f \in UnderlineTags : f.span.kind \in PlainKinds
  /\ \A f \in TildePairs : f.span.kind \in PlainKinds
  /\ \A f \in FootnoteRefs : f.span.kind \in PlainKinds
  /\ \A f \in HexColors : f.span.kind \in PlainKinds
<1>1. \A f \in Highlights : \E p, a, b, c, d : f = Found(p, Span("Highlight", a, b, c, d))
  BY DEF Highlights
<1>2. \A f \in UnderlineTags : \E p, a, b, c, d : f = Found(p, Span("UnderlineHtml", a, b, c, d))
  BY DEF UnderlineTags
<1>3. \A f \in TildePairs : \E p, a, b, c, d : f = Found(p, Span("UnderlineTilde", a, b, c, d))
  BY DEF TildePairs
<1>4. \A f \in FootnoteRefs : \E p, a, b, c, d : f = Found(p, Span("FootnoteRef", a, b, c, d))
  BY DEF FootnoteRefs
<1>5. \A f \in HexColors : \E p, a, b, c, d : f = Found(p, Span("HexColor", a, b, c, d))
  BY DEF HexColors
<1>6. {"Highlight", "UnderlineHtml", "UnderlineTilde", "FootnoteRef", "HexColor"} \subseteq PlainKinds
  BY DEF PlainKinds
<1> QED BY <1>1, <1>2, <1>3, <1>4, <1>5, <1>6, FoundPlain, Zenon
\* A scanner adds only what it has found.
LEMMA ScannerAdds ==
  ASSUME NEW p, NEW founds, Scanner(p, founds)
  PROVE  pass = p /\ \A t \in spans' : t \in spans \/ \E f \in founds : t = f.span
BY DEF Scanner, Take

Suits(t) == IF pass \in Early THEN Opaque(t) ELSE t.kind \in PlainKinds

LEMMA CodeSuits == IInv /\ Code => \A t \in spans' : t \in spans \/ Suits(t)
<1> SUFFICES ASSUME IInv, Code PROVE \A t \in spans' : t \in spans \/ Suits(t)
  OBVIOUS
<1> DEFINE w == <<"tick">>
           p == Min(Places(text, at, w))
<1>1. Len(text) \in Nat /\ at \in Nat
  BY TextLength
<1>2. p \in Places(text, at, w)
  BY <1>1, LeastPlace DEF Code
<1>3. pass = "code" /\ \A t \in spans' : t \in spans \/ \E b, c, d : t = Span("InlineCode", p, b, c, d)
  BY DEF Code
<1>4. 1 \in 1 .. Len(w) /\ w[1] # "+" /\ "InlineCode" \in EarlyKinds \ {"Link"} /\ "code" \in Early
  BY DEF EarlyKinds, Early
<1> HIDE DEF p, w
<1>5. ~ Is(text, p, "+")
  BY <1>1, <1>2, <1>4, NoPlusPlace, Zenon
<1>6. ASSUME NEW b, NEW c, NEW d PROVE Opaque(Span("InlineCode", p, b, c, d))
  <2>1. Opaque(Found(p, Span("InlineCode", p, b, c, d)).span)
    BY <1>4, <1>5, FoundOpaque, Zenon
  <2>2. Found(p, Span("InlineCode", p, b, c, d)).span = Span("InlineCode", p, b, c, d)
    BY DEF Found
  <2> QED BY <2>1, <2>2, Zenon
<1>7. SUFFICES ASSUME NEW t \in spans', t \notin spans PROVE Opaque(t)
  BY <1>3, <1>4 DEF Suits
<1>8. PICK b, c, d : t = Span("InlineCode", p, b, c, d)
  BY <1>3, <1>7
<1> QED BY <1>6, <1>8, Zenon

LEMMA LinkSuits == IInv /\ Link => \A t \in spans' : t \in spans \/ Suits(t)
<1> SUFFICES ASSUME IInv, Link, NEW t \in spans', t \notin spans PROVE Suits(t)
  OBVIOUS
<1> DEFINE p == Min(LinkOpeners)
           label == Closings(text, p, "[", "]")
           c == Min(label)
<1>1. pass = "link" /\ LinkOpeners # {} /\ label # {} /\ \E b, a : t = Span("Link", p, b, a, c)
  BY DEF Link, Take
<1>2. p \in Nat
  <2>1. at \in Nat /\ Len(text) \in Nat
    BY TextLength
  <2>2. LinkOpeners \subseteq at .. Len(text)
    BY PlacesBehind DEF LinkOpeners
  <2>3. p \in at .. Len(text)
    BY <1>1, <2>1, <2>2, LeastBehind
  <2> HIDE DEF p
  <2> QED BY <2>1, <2>3
<1>3. text[c] = "]"
  <2>1. label \subseteq p .. Len(text) /\ \A k \in label : text[k] = "]"
    BY DEF Closings
  <2> HIDE DEF label
  <2>2. c \in label
    BY <1>1, <1>2, <2>1, TextLength, LeastBehind
  <2> QED BY <2>1, <2>2
<1> HIDE DEF p, label, c
<1>4. t.kind = "Link" /\ t.cto = c
  BY <1>1 DEF Span
<1>5. Onset(t) = c
  BY <1>4 DEF Onset
<1>6. Clean(t)
  BY <1>3, <1>5 DEF Clean, Is
<1> QED BY <1>1, <1>4, <1>6 DEF Suits, Opaque, EarlyKinds, Early

\* What the scanners find before the formulas is opaque, and what they find after is not.
LEMMA NewSpans ==
  ASSUME IInv, Code \/ CodeEnd \/ Link \/ LinkEnd \/ Scanners
  PROVE  \A t \in spans' : t \in spans \/ Suits(t)
<1>1. CASE Code
  BY <1>1, CodeSuits
<1>2. CASE CodeEnd \/ LinkEnd
  BY <1>2 DEF CodeEnd, LinkEnd
<1>3. CASE Link
  BY <1>3, LinkSuits
<1>4. CASE Scanners
  <2>1. at \in Nat /\ Len(text) \in Nat
    BY TextLength
  <2>2. ASSUME NEW p \in Early, NEW founds, \A f \in founds : Opaque(f.span), Scanner(p, founds)
        PROVE  \A t \in spans' : t \in spans \/ Suits(t)
    <3>1. pass = p /\ \A t \in spans' : t \in spans \/ \E f \in founds : t = f.span
      BY <2>2, ScannerAdds
    <3> QED BY <2>2, <3>1, SMT DEF Suits
  <2>3. ASSUME NEW p, p \notin Early, NEW founds, \A f \in founds : f.span.kind \in PlainKinds,
               Scanner(p, founds)
        PROVE  \A t \in spans' : t \in spans \/ Suits(t)
    <3>1. pass = p /\ \A t \in spans' : t \in spans \/ \E f \in founds : t = f.span
      BY <2>3, ScannerAdds
    <3> QED BY <2>3, <3>1, SMT DEF Suits
  <2>4. {"comment", "wiki", "angle", "scheme", "email", "domain", "subreddit"} \subseteq Early
    BY DEF Early
  <2>5. \A p \in {"hex", "strike", "highlight", "tag", "tilde", "footnote"} : p \notin Early
    BY DEF Early
  <2>6. CASE Scanner("comment", Pairs(<<"%", "%">>, "Comment"))
    BY <2>1, <2>2, <2>4, <2>6, CommentsOpaque
  <2>7. CASE Scanner("wiki", WikiLinks)
    BY <2>1, <2>2, <2>4, <2>7, WikiLinksOpaque
  <2>8. CASE Scanner("angle", Ahead(AngleLinks(text)))
    <3>1. \A f \in Ahead(AngleLinks(text)) : Opaque(f.span)
      BY AngleLinksOpaque DEF Ahead
    <3> QED BY <2>2, <2>4, <2>8, <3>1
  <2>9. CASE Scanner("scheme", Ahead(SchemeLinks(text)))
    <3>1. \A f \in Ahead(SchemeLinks(text)) : Opaque(f.span)
      BY SchemeLinksOpaque DEF Ahead
    <3> QED BY <2>2, <2>4, <2>9, <3>1
  <2>10. CASE Scanner("email", Ahead(EmailLinks(text)))
    <3>1. \A f \in Ahead(EmailLinks(text)) : Opaque(f.span)
      BY <2>1, EmailLinksOpaque DEF Ahead
    <3> QED BY <2>2, <2>4, <2>10, <3>1
  <2>11. CASE Scanner("domain", Ahead(DomainLinks(text)))
    <3>1. \A f \in Ahead(DomainLinks(text)) : Opaque(f.span)
      BY <2>1, DomainLinksOpaque DEF Ahead
    <3> QED BY <2>2, <2>4, <2>11, <3>1
  <2>12. CASE Scanner("subreddit", Ahead(SubredditLinks(text)))
    <3>1. \A f \in Ahead(SubredditLinks(text)) : Opaque(f.span)
      BY SubredditLinksOpaque DEF Ahead
    <3> QED BY <2>2, <2>4, <2>12, <3>1
  <2>13. CASE Scanner("hex", HexColors)
    BY <2>3, <2>5, <2>13, LateFindsPlain
  <2>14. CASE Scanner("strike", Pairs(<<"~", "~">>, "Strikethrough"))
    BY <2>3, <2>5, <2>14, LatePairsPlain
  <2>15. CASE Scanner("highlight", Highlights)
    BY <2>3, <2>5, <2>15, LateFindsPlain
  <2>16. CASE Scanner("tag", UnderlineTags)
    BY <2>3, <2>5, <2>16, LateFindsPlain
  <2>17. CASE Scanner("tilde", TildePairs)
    BY <2>3, <2>5, <2>17, LateFindsPlain
  <2>18. CASE Scanner("footnote", FootnoteRefs)
    BY <2>3, <2>5, <2>18, LateFindsPlain
  <2> QED BY <1>4, <2>6, <2>7, <2>8, <2>9, <2>10, <2>11, <2>12, <2>13, <2>14, <2>15, <2>16, <2>17, <2>18
             DEF Scanners
<1> QED BY <1>1, <1>2, <1>3, <1>4


Hiding == {"html", "math", "plus"}

\* Spans found by scanners that claim are apart.
ApartOK ==
  pass \in Early =>
    \A s \in spans : Extent(s) \in claimed /\ \A t \in spans : s = t \/ ~ Overlap(Extent(s), Extent(t))

VisibleOK ==
  /\ pass \in Early \cup Hiding => \A s \in spans : Clean(s) \/ IsPlus(s)
  /\ pass \in Early \cup {"html", "math"} => \A s \in spans : s.kind \in EarlyKinds
  /\ pass \in Hiding => \A s \in spans : Inside(s) \subseteq hidden
  /\ pass = "math" => \A f \in formulas : Is(text, f[1], "$")
  /\ pass = "math" /\ open # None => Is(text, open, "$")
  /\ pass = "plus" => \A n \in 1 .. Len(stack) : Pair(stack[n]) /\ stack[n] \notin hidden
  /\ \A h \in held : h.kind \in EmphasisKinds
  /\ PlusVisible

\* The kinds that are inside of nothing.
LEMMA PlainShowsAll ==
  ASSUME NEW t, t.kind \in PlainKinds \cup {"UnderlinePlus"}
  PROVE  Inside(t) = {}
BY DEF Inside, PlainKinds, EmphasisKinds

LEMMA PlainIsNoPlus ==
  ASSUME NEW t, t.kind \in PlainKinds \cup EarlyKinds \cup {"Math"}
  PROVE  ~ IsPlus(t)
BY DEF IsPlus, PlainKinds, EarlyKinds, EmphasisKinds

\* New spans that are plain, or come before all underlines.
LEMMA PlusVisibleStays ==
  ASSUME PlusVisible, \A t \in spans' : t \in spans \/ t.kind \in PlainKinds
  PROVE  PlusVisible'
<1> SUFFICES ASSUME NEW s \in spans', NEW t \in spans', IsPlus(s)
             PROVE  Inside(t) \cap {s.from, s.from + 1, s.to - 2, s.to - 1} = {}
  BY DEF PlusVisible, Inside, IsPlus
<1>1. s \in spans
  BY PlainIsNoPlus
<1>2. CASE t \in spans
  BY <1>1, <1>2 DEF PlusVisible
<1>3. CASE t.kind \in PlainKinds
  BY <1>3, PlainShowsAll
<1> QED BY <1>2, <1>3

LEMMA NoPlusYet ==
  ASSUME \A s \in spans' : s.kind \in EarlyKinds \cup {"Math"} PROVE PlusVisible'
BY PlainIsNoPlus DEF PlusVisible, Inside, IsPlus

\* The signs of an underline are behind, or before, what it must not be inside of.
LEMMA PairVisible ==
  ASSUME Len(text) \in Nat, NEW t, Sits(t), Clean(t) \/ IsPlus(t), Inside(t) \subseteq hidden,
         NEW k \in 1 .. Len(text), k \notin hidden, Pair(k)
  PROVE  k \notin Inside(t) /\ k + 1 \notin Inside(t)
<1>1. k \notin Inside(t)
  OBVIOUS
<1> SUFFICES ASSUME Clean(t) PROVE k + 1 \notin Inside(t)
  BY <1>1, PlainShowsAll DEF IsPlus
<1>2. k + 1 - 1 = k /\ Is(text, k, "+") /\ Is(text, k + 1, "+")
  BY DEF Pair
<1>3. Onset(t) # k + 1
  <2> SUFFICES ASSUME Onset(t) = k + 1 PROVE FALSE
    OBVIOUS
  <2>1. Onset(t) - 1 = k
    OBVIOUS
  <2>2. ~ (Is(text, Onset(t), "+") /\ Is(text, Onset(t) - 1, "+"))
    BY DEF Clean
  <2> QED BY <1>2, <2>1, <2>2, Zenon
<1>4. t.from \in Nat /\ t.to \in Nat /\ t.cto \in Nat
  BY DEF Sits, Places1
<1>5. CASE t.kind = "Link"
  <2>1. Inside(t) = t.cto .. t.to - 1 /\ Onset(t) = t.cto
    BY <1>5 DEF Inside, Onset
  <2> HIDE DEF Inside, Onset
  <2> QED BY <1>1, <1>3, <1>4, <2>1
<1>6. CASE t.kind # "Link"
  <2>1. (Inside(t) = t.from .. t.to - 1 \/ Inside(t) = {}) /\ Onset(t) = t.from
    BY <1>6 DEF Inside, Onset
  <2> HIDE DEF Inside, Onset
  <2> QED BY <1>1, <1>3, <1>4, <2>1
<1> QED BY <1>1, <1>5, <1>6

LEMMA StepApart ==
  ASSUME IInv, ApartOK, Step PROVE ApartOK'
<1> SUFFICES ASSUME pass' \in Early PROVE ApartOK'
  BY DEF ApartOK
<1>1. pass \in Early
  <2>1. pass' = pass \/ pass' = After[pass]
    BY DEF Step, Leave
  <2>2. pass \in Finding
    BY DEF Step
  <2>3. \A p \in Finding : After[p] \in Early => p \in Early
    BY DEF Finding, After, Early
  <2> QED BY <2>1, <2>2, <2>3
<1>2. \A s \in spans : Extent(s) \in claimed /\ \A t \in spans : s = t \/ ~ Overlap(Extent(s), Extent(t))
  BY <1>1 DEF ApartOK
<1>3. CASE UNCHANGED <<spans, claimed>>
  BY <1>2, <1>3 DEF ApartOK
<1>4. ASSUME NEW x, Finds(x) PROVE ApartOK'
  <2>1. /\ spans' = spans \cup {x} /\ claimed' = claimed \cup {Extent(x)}
        /\ \A d \in claimed : ~ Overlap(Extent(x), d)
    BY <1>4 DEF Finds, IsClaimed
  <2>2. \A c, d : Overlap(c, d) => Overlap(d, c)
    BY DEF Overlap
  <2>3. \A s \in spans' : Extent(s) \in claimed'
    BY <1>2, <2>1, Zenon
  <2>4. \A s, t \in spans' : s = t \/ ~ Overlap(Extent(s), Extent(t))
    BY <1>2, <2>1, <2>2, Zenon
  <2> QED BY <2>3, <2>4 DEF ApartOK
<1> QED BY <1>3, <1>4 DEF Step

Reserved(s) == Inside(s) \cup Delimiting(s)

\* Claims are hidden, but not the labels of links: a label that meets another span is of that span.
LEMMA ProtectReserves ==
  ASSUME IInv, ApartOK, Protect, pass' = "html"
  PROVE  \A s \in spans : Reserved(s) \subseteq hidden'
<1> SUFFICES ASSUME NEW s \in spans, NEW k \in Reserved(s) PROVE k \in hidden'
  OBVIOUS
<1> DEFINE places == UNION { PlacesOf(c[1], c[2]) : c \in claimed }
<1>1. pass = "protect" /\ hidden' = places \ Labels
  BY DEF Protect, Leave
<1>2. \A u \in spans : u.from \in Nat /\ u.to \in Nat /\ u.cfrom \in u.from .. u.cto /\ u.cto \in u.cfrom .. u.to
  BY DEF IInv, SpansOK, Sits, Places1
<1>3. k \in s.from .. s.to - 1 /\ (s.kind = "Link" => k \notin s.cfrom .. s.cto - 1)
  BY <1>2 DEF Reserved, Inside, Delimiting, PlacesOf
<1>4. Extent(s) \in claimed /\ \A u \in spans : s = u \/ ~ Overlap(Extent(s), Extent(u))
  BY <1>1 DEF ApartOK, Early
<1>5. k \in places
  <2>1. Extent(s)[1] = s.from /\ Extent(s)[2] = s.to
    BY DEF Extent
  <2>2. k \in PlacesOf(Extent(s)[1], Extent(s)[2])
    BY <1>3, <2>1 DEF PlacesOf
  <2> QED BY <1>4, <2>2
<1>6. ASSUME k \in Labels PROVE FALSE
  <2>1. PICK u \in spans : u.kind = "Link" /\ k \in PlacesOf(u.cfrom, u.cto)
    BY <1>6 DEF Labels
  <2>2. k \in u.cfrom .. u.cto - 1
    BY <2>1 DEF PlacesOf
  <2>3. u.from <= k /\ k < u.to
    BY <1>2, <1>3, <2>2
  <2>4. CASE u = s
    BY <1>3, <2>1, <2>2, <2>4
  <2>5. CASE u # s
    <3>1. s.from < u.to /\ u.from < s.to
      BY <1>2, <1>3, <2>3
    <3> QED BY <1>4, <2>5, <3>1 DEF Overlap, Extent
  <2> QED BY <2>4, <2>5
<1> HIDE DEF places
<1> QED BY <1>1, <1>5, <1>6

LEMMA ProtectHides ==
  ASSUME IInv, ApartOK, Protect, pass' = "html"
  PROVE  \A s \in spans : Inside(s) \subseteq hidden'
BY ProtectReserves DEF Reserved


LEMMA ApartKeeps == IInv /\ ApartOK /\ [Next]_vars => ApartOK'
<1> SUFFICES ASSUME IInv, ApartOK, [Next]_vars PROVE ApartOK'
  OBVIOUS
<1>1. CASE Step
  BY <1>1, StepApart
<1>2. CASE Protect \/ InTag \/ Html \/ HtmlEnd
  BY <1>2, Elsewhere DEF ApartOK, Early
<1>3. CASE Math \/ MathEnd \/ Plus \/ PlusEnd
  BY <1>3, OrderOfRest DEF ApartOK, Early, Math, MathEnd, Plus, PlusEnd, Leave
<1>4. CASE EmphasisClose \/ EmphasisOpen \/ EmphasisEnd
  BY <1>4, OrderOfRest DEF ApartOK, Early, EmphasisClose, EmphasisOpen, EmphasisEnd, Leave
<1>5. CASE Sweep \/ SweepEnd \/ Reject
  BY <1>5, OrderOfRest DEF ApartOK, Early, Sweep, SweepEnd, Reject, Leave
<1>6. CASE UNCHANGED vars
  BY <1>6 DEF vars, ApartOK
<1> QED BY <1>1, <1>2, <1>3, <1>4, <1>5, <1>6, FindingSteps, Zenon DEF Next, Delimiters

LEMMA EarlyClean ==
  ASSUME VisibleOK, pass \in Early \cup {"html", "math"}
  PROVE  \A s \in spans : Clean(s) /\ s.kind \in EarlyKinds
BY PlainIsNoPlus DEF VisibleOK, Hiding

LEMMA FindingVisible ==
  ASSUME IInv, VisibleOK, Code \/ CodeEnd \/ Link \/ LinkEnd \/ Scanners
  PROVE  VisibleOK'
<1>1. \A t \in spans' : t \in spans \/ Suits(t)
  BY NewSpans
<1>2. /\ pass \in Finding /\ UNCHANGED <<text, held>> /\ (pass' = pass \/ pass' = After[pass])
  BY FindingSteps DEF Step, inner, Leave
<1>3. pass' \notin Hiding /\ (pass' \in Early <=> pass \in Early)
  <2>1. \A p \in Finding : p \notin Hiding /\ After[p] \notin Hiding /\ (After[p] \in Early <=> p \in Early)
    BY DEF Finding, After, Early, Hiding
  <2> QED BY <1>2, <2>1
<1>4. CASE pass \in Early
  <2>1. \A t \in spans' : Clean(t) /\ t.kind \in EarlyKinds
    BY <1>1, <1>4, EarlyClean DEF Suits, Opaque
  <2>2. PlusVisible'
    BY <2>1, NoPlusYet
  <2>3. \A t \in spans' : Clean(t)'
    BY <1>2, <2>1 DEF Clean, Onset, Is
  <2> QED BY <1>2, <1>3, <2>1, <2>2, <2>3 DEF VisibleOK, Hiding
<1>5. CASE pass \notin Early
  <2>1. PlusVisible'
    BY <1>1, <1>5, PlusVisibleStays DEF Suits, VisibleOK
  <2> QED BY <1>2, <1>3, <1>5, <2>1 DEF VisibleOK, Hiding
<1> QED BY <1>4, <1>5

\* More is hidden, or all that is to be hidden before formulas and underlines are looked for.
LEMMA HidingVisible ==
  ASSUME IInv, ApartOK, FormulasOK, VisibleOK, Protect \/ InTag \/ Html \/ HtmlEnd
  PROVE  VisibleOK'
<1>1. /\ UNCHANGED <<text, spans, formulas, held, stack>>
      /\ pass \in {"protect", "html"} /\ pass' \in {"html", "math", "hex"}
  BY Elsewhere
<1>2. \A s \in spans : Clean(s) /\ s.kind \in EarlyKinds
  BY <1>1, EarlyClean DEF Early
<1>3. PlusVisible' /\ \A s \in spans' : Clean(s)'
  BY <1>1, <1>2 DEF VisibleOK, PlusVisible, Clean, Onset, Is, Inside, IsPlus
<1>4. formulas' = {}
  BY <1>1 DEF FormulasOK, Late
<1>5. pass' = "math" => open' = None
  BY <1>1 DEF Protect, InTag, Html, HtmlEnd, Leave, After
<1>6. ASSUME pass' \in Hiding PROVE \A s \in spans' : Inside(s) \subseteq hidden'
  <2>1. CASE Protect
    <3>1. pass' = "html"
      BY <1>6, <2>1, OrderOfRest DEF Protect, Leave, Hiding
    <3> QED BY <1>1, <2>1, <3>1, ProtectHides
  <2>2. CASE InTag \/ Html \/ HtmlEnd
    <3>1. pass = "html" /\ hidden \subseteq hidden'
      BY <2>2 DEF InTag, Html, HtmlEnd
    <3> QED BY <1>1, <3>1 DEF VisibleOK, Hiding
  <2> QED BY <2>1, <2>2
<1> QED BY <1>1, <1>2, <1>3, <1>4, <1>5, <1>6 DEF VisibleOK, Inside

LEMMA MathVisible == IInv /\ VisibleOK /\ Math => VisibleOK'
<1> SUFFICES ASSUME IInv, VisibleOK, Math PROVE VisibleOK'
  OBVIOUS
<1> DEFINE k == Min(MathPlaces)
<1>1. k \in 1 .. Len(text)
  <2>1. MathPlaces \subseteq at .. Len(text) /\ MathPlaces # {} /\ at \in Nat /\ Len(text) \in Nat
    BY TextLength DEF MathPlaces, Math
  <2>2. k \in at .. Len(text)
    BY <2>1, LeastBehind
  <2> HIDE DEF k
  <2> QED BY <2>2, TextLength
<1>2. /\ pass = "math" /\ pass' = "math" /\ UNCHANGED <<text, spans, held>> /\ hidden \subseteq hidden'
      /\ open' \in {None, open} \/ (open' = k /\ text[k] = "$")
      /\ formulas' = formulas \/ (open # None /\ formulas' = formulas \cup {<<open, k + 1>>})
  BY DEF Math, MathCloses
<1> HIDE DEF k
<1>3. \A s \in spans' : Clean(s)' /\ s.kind \in EarlyKinds
  BY <1>2, EarlyClean DEF Clean, Onset, Is
<1>4. \A s \in spans' : (Inside(s) \subseteq hidden)'
  BY <1>2 DEF VisibleOK, Hiding, Inside
<1>5. open' # None => Is(text', open', "$")
  BY <1>1, <1>2 DEF VisibleOK, Is
<1>6. \A f \in formulas' : Is(text', f[1], "$")
  BY <1>2 DEF VisibleOK
<1>7. PlusVisible'
  BY <1>3, NoPlusYet
<1> QED BY <1>2, <1>3, <1>4, <1>5, <1>6, <1>7 DEF VisibleOK

LEMMA MathEndVisible == IInv /\ FormulasOK /\ VisibleOK /\ MathEnd => VisibleOK'
<1> SUFFICES ASSUME IInv, FormulasOK, VisibleOK, MathEnd PROVE VisibleOK'
  OBVIOUS
<1>1. /\ pass = "math" /\ pass' = "plus" /\ UNCHANGED <<text, hidden, held, stack>>
      /\ \A s \in spans' : s \in spans \/ \E f \in formulas : s = FormulaSpan(f)
  BY OrderOfRest DEF MathEnd, Leave, FormulaSpan
<1>2. ASSUME NEW f \in formulas, NEW s, s = FormulaSpan(f)
      PROVE  s.kind = "Math" /\ Clean(s) /\ Inside(s) \subseteq hidden
  <2>1. s.kind = "Math" /\ s.from = f[1] /\ s.to = f[2]
    BY <1>2, ExtentOf DEF FormulaSpan
  <2>2. Is(text, f[1], "$") /\ f[1] .. f[2] - 1 \subseteq hidden
    BY <1>1 DEF VisibleOK, FormulasOK
  <2>3. Onset(s) = f[1] /\ Inside(s) = f[1] .. f[2] - 1
    BY <2>1 DEF Onset, Inside
  <2>4. ~ Is(text, f[1], "+")
    BY <2>2 DEF Is
  <2> QED BY <2>1, <2>2, <2>3, <2>4, Zenon DEF Clean
<1>3. \A s \in spans : Clean(s) /\ s.kind \in EarlyKinds /\ Inside(s) \subseteq hidden
  BY <1>1, EarlyClean DEF VisibleOK, Hiding
<1>4. \A s \in spans' : Clean(s) /\ s.kind \in EarlyKinds \cup {"Math"} /\ Inside(s) \subseteq hidden
  BY <1>1, <1>2, <1>3
<1>5. \A s \in spans' : (Clean(s) /\ Inside(s) \subseteq hidden)'
  BY <1>1, <1>4 DEF Clean, Onset, Is, Inside
<1>6. PlusVisible'
  BY <1>4, NoPlusYet
<1>7. stack' = <<>>
  BY <1>1 DEF IInv, PassOK
<1> QED BY <1>1, <1>5, <1>6, <1>7 DEF VisibleOK, Early


\* What a step over plus signs adds begins and ends with two of them.
LEMMA PlusPair ==
  ASSUME IInv, Plus
  PROVE  UNCHANGED <<spans, stack>> \/ (RunEnd(PlusAt) = PlusAt + 2 /\ Pair(PlusAt))
<1>1. PlusAt \in 1 .. Len(text) /\ RunEnd(PlusAt) \in PlusAt + 1 .. Len(text) + 1 /\ Len(text) \in Nat
  BY PlusFacts, TextLength
<1>2. RunEnd(PlusAt) = PlusAt + 2 \/ UNCHANGED <<spans, stack>>
  BY DEF Plus, PlusAt
<1>3. text[PlusAt] = "+"
  <2>1. PlusPlaces \subseteq at .. Len(text) /\ PlusPlaces # {} /\ at \in Nat
    BY TextLength DEF PlusPlaces, Plus
  <2>2. PlusAt \in PlusPlaces
    BY <1>1, <2>1, LeastBehind DEF PlusAt
  <2> QED BY <2>2 DEF PlusPlaces
<1>4. ASSUME RunEnd(PlusAt) = PlusAt + 2 PROVE Pair(PlusAt)
  <2>1. PlusAt \in 1 .. Len(text) + 1
    BY <1>1
  <2>2. \A m \in PlusAt .. RunEnd(PlusAt) - 1 : text[m] \in {text[PlusAt]}
    BY <1>1, <2>1, SkipOverStops, Zenon DEF RunEnd
  <2>3. PlusAt + 1 \in PlusAt .. RunEnd(PlusAt) - 1 /\ PlusAt + 1 \in 1 .. Len(text)
    BY <1>1, <1>4
  <2>4. text[PlusAt + 1] = "+"
    BY <1>3, <2>2, <2>3
  <2> QED BY <1>1, <1>3, <2>3, <2>4 DEF Pair, Is
<1> QED BY <1>2, <1>4

LEMMA PlusVisibleKeeps == IInv /\ VisibleOK /\ Plus => VisibleOK'
<1> SUFFICES ASSUME IInv, VisibleOK, Plus PROVE VisibleOK'
  OBVIOUS
<1> DEFINE p == PlusAt
           q == RunEnd(PlusAt)
<1>1. /\ p \in 1 .. Len(text) /\ p \notin hidden /\ pass = "plus" /\ pass' = "plus"
      /\ UNCHANGED <<text, hidden, held, open, formulas>>
      /\ stack \in Seq(1 .. Len(text))
      /\ \A n \in 1 .. Len(stack') : stack'[n] = p \/ \E m \in 1 .. Len(stack) : stack'[n] = stack[m]
      /\ \/ UNCHANGED spans
         \/ \E m \in 1 .. Len(stack) :
              p > stack[m] + 2 /\ spans' = spans \cup {Span("UnderlinePlus", stack[m], q, stack[m] + 2, p)}
  BY PlusFacts
<1>2. UNCHANGED <<spans, stack>> \/ (q = p + 2 /\ Pair(p))
  BY PlusPair
<1> HIDE DEF p, q
<1>3. /\ \A n \in 1 .. Len(stack) : Pair(stack[n]) /\ stack[n] \notin hidden
      /\ \A s \in spans : (Clean(s) \/ IsPlus(s)) /\ Inside(s) \subseteq hidden
      /\ PlusVisible
  BY <1>1 DEF VisibleOK, Hiding
<1>4. CASE UNCHANGED <<spans, stack>>
  <2>1. PlusVisible'
    BY <1>1, <1>3, <1>4 DEF PlusVisible, Inside, IsPlus
  <2>2. \A s \in spans' : ((Clean(s) \/ IsPlus(s)) /\ Inside(s) \subseteq hidden)'
    BY <1>1, <1>3, <1>4 DEF Clean, Onset, Is, Inside, IsPlus
  <2>3. \A n \in 1 .. Len(stack') : (Pair(stack[n]) /\ stack[n] \notin hidden)'
    BY <1>1, <1>3, <1>4 DEF Pair, Is
  <2> QED BY <1>1, <2>1, <2>2, <2>3 DEF VisibleOK, Early
<1>5. CASE q = p + 2 /\ Pair(p)
  <2>1. \A n \in 1 .. Len(stack') : Pair(stack'[n]) /\ stack'[n] \notin hidden
    BY <1>1, <1>3, <1>5, Zenon
  <2>2. \A n \in 1 .. Len(stack') : (Pair(stack[n]) /\ stack[n] \notin hidden)'
    BY <1>1, <2>1 DEF Pair, Is
  <2>3. \A s \in spans' :
          \/ s \in spans
          \/ /\ IsPlus(s) /\ Inside(s) = {}
             /\ \E m \in 1 .. Len(stack) : s.from = stack[m] /\ s.to = p + 2
    <3> SUFFICES ASSUME NEW m \in 1 .. Len(stack), NEW s,
                        s = Span("UnderlinePlus", stack[m], q, stack[m] + 2, p)
                 PROVE  IsPlus(s) /\ Inside(s) = {} /\ s.from = stack[m] /\ s.to = p + 2
      BY <1>1
    <3>1. s.kind = "UnderlinePlus" /\ s.from = stack[m] /\ s.to = p + 2
      BY <1>5, ExtentOf
    <3> QED BY <3>1, PlainShowsAll DEF IsPlus
  <2>4. \A s \in spans' : (Clean(s) \/ IsPlus(s)) /\ Inside(s) \subseteq hidden
    BY <1>3, <2>3
  <2>5. \A s \in spans' : ((Clean(s) \/ IsPlus(s)) /\ Inside(s) \subseteq hidden)'
    BY <1>1, <2>4 DEF Clean, Onset, Is, Inside, IsPlus
  <2>6. PlusVisible'
    <3> SUFFICES ASSUME NEW s \in spans', NEW t \in spans', IsPlus(s)
                 PROVE  Inside(t) \cap {s.from, s.from + 1, s.to - 2, s.to - 1} = {}
      BY DEF PlusVisible, Inside, IsPlus
    <3>1. CASE t \notin spans
      BY <2>3, <3>1
    <3>2. CASE s \in spans /\ t \in spans
      BY <1>3, <3>2 DEF PlusVisible
    <3>3. CASE s \notin spans /\ t \in spans
      <4>1. PICK m \in 1 .. Len(stack) : s.from = stack[m] /\ s.to = p + 2
        BY <2>3, <3>3
      <4>2. stack[m] \in 1 .. Len(text) /\ p \in 1 .. Len(text)
        BY <1>1
      <4>3. Sits(t) /\ (Clean(t) \/ IsPlus(t)) /\ Inside(t) \subseteq hidden /\ Len(text) \in Nat
        BY <1>3, <3>3, TextLength DEF IInv, SpansOK
      <4>4. stack[m] \notin Inside(t) /\ stack[m] + 1 \notin Inside(t)
        BY <1>3, <4>2, <4>3, PairVisible, Zenon
      <4>5. p \notin Inside(t) /\ p + 1 \notin Inside(t)
        BY <1>1, <1>5, <4>2, <4>3, PairVisible, Zenon
      <4>6. s.to - 2 = p /\ s.to - 1 = p + 1
        BY <4>1, <4>2
      <4> QED BY <4>1, <4>4, <4>5, <4>6
    <3> QED BY <3>1, <3>2, <3>3
  <2> QED BY <1>1, <2>2, <2>5, <2>6 DEF VisibleOK, Early
<1> QED BY <1>2, <1>4, <1>5

\* After the underlines.
LEMMA PlainVisible ==
  ASSUME VisibleOK, pass' \notin Early \cup Hiding, \A t \in spans' : t \in spans \/ t.kind \in PlainKinds,
         \A h \in held' : h.kind \in EmphasisKinds
  PROVE  VisibleOK'
<1>1. PlusVisible'
  BY PlusVisibleStays DEF VisibleOK
<1> QED BY <1>1 DEF VisibleOK, Hiding

LEMMA VisibleKeeps == IInv /\ ApartOK /\ FormulasOK /\ VisibleOK /\ [Next]_vars => VisibleOK'
<1> SUFFICES ASSUME IInv, ApartOK, FormulasOK, VisibleOK, [Next]_vars PROVE VisibleOK'
  OBVIOUS
<1>1. \A h \in held : h.kind \in EmphasisKinds
  BY DEF VisibleOK
<1>2. CASE PlusEnd
  BY <1>1, <1>2, OrderOfRest, PlainVisible DEF PlusEnd, Leave, Early, Hiding
<1>3. CASE EmphasisClose
  <2>1. \A h \in held' : h.kind \in EmphasisKinds
    BY <1>1, <1>3, HeldIsEmphasis
  <2> QED BY <1>3, <2>1, PlainVisible DEF EmphasisClose, Early, Hiding
<1>4. CASE EmphasisOpen
  BY <1>1, <1>4, PlainVisible DEF EmphasisOpen, Early, Hiding
<1>5. CASE EmphasisEnd
  <2>1. pass' = "strike" /\ held' = {} /\ \A t \in spans' : t \in spans \/ t \in held
    BY <1>5, OrderOfRest DEF EmphasisEnd, Leave
  <2>2. pass' \notin Early \cup Hiding
    BY <2>1 DEF Early, Hiding
  <2>3. EmphasisKinds \subseteq PlainKinds
    BY DEF PlainKinds
  <2> QED BY <1>1, <2>1, <2>2, <2>3, PlainVisible, Zenon
<1>6. CASE Sweep \/ SweepEnd \/ Reject
  <2>1. pass' \in {"forward", "backward", "reject", "done"} /\ held' = held /\ spans' \subseteq spans
    BY <1>6, OrderOfRest DEF Sweep, SweepEnd, Reject, Leave, inner
  <2>2. pass' \notin Early \cup Hiding
    BY <2>1 DEF Early, Hiding
  <2> QED BY <1>1, <2>1, <2>2, PlainVisible, Zenon
<1>7. CASE UNCHANGED vars
  BY <1>7 DEF vars, VisibleOK, PlusVisible, Clean, Onset, Pair, Is, Inside, IsPlus
<1> QED BY <1>2, <1>3, <1>4, <1>5, <1>6, <1>7, FindingVisible, HidingVisible, MathVisible, MathEndVisible,
           PlusVisibleKeeps, Zenon DEF Next, Delimiters

(* Whatever the text, the signs of an underline are outside of code,       *)
(* comments, addresses and formulas: an opening sign is where nothing is   *)
(* hidden, and none of them begins between the two signs                   *)
(* (parse_plus_underlines).                                                *)
THEOREM PlusStaysVisible == Spec => []PlusVisible
<1>1. Init => FormulasOK /\ ApartOK /\ VisibleOK
  BY DEF Init, FormulasOK, ApartOK, VisibleOK, PlusVisible, Late, Hiding
<1>2. IInv /\ FormulasOK /\ ApartOK /\ VisibleOK /\ [Next]_vars => (FormulasOK /\ ApartOK /\ VisibleOK)'
  BY FormulasKeep, ApartKeeps, VisibleKeeps, Zenon
<1>3. VisibleOK => PlusVisible
  BY DEF VisibleOK
<1> QED BY <1>1, <1>2, <1>3, InvariantHolds, PTL DEF Spec

-----------------------------------------------------------------------------
(* What annotate_range and the preview need of the spans of parse_spans.   *)

Formatting(s) == s.kind \notin OpaqueKinds \cup TokenKinds

\* A span of formatting has a delimiter on both sides.
Framed(s) ==
  /\ s.kind \in EarlyKinds \cup PlainKinds \cup {"Math", "UnderlinePlus"}
  /\ Formatting(s) => s.from < s.cfrom /\ s.cto < s.to
  /\ IsPlus(s) => s.cfrom = s.from + 2 /\ s.cto = s.to - 2 /\ Pair(s.from) /\ Pair(s.cto)
  /\ s.kind = "HexColor" => \A p \in s.from .. s.to - 1 : text[p] # "+"

FramedOK == (\A s \in spans : Framed(s)) /\ \A h \in held : Framed(h)

LEMMA SpanFields ==
  ASSUME NEW kind, NEW a, NEW b, NEW c, NEW d
  PROVE  /\ Span(kind, a, b, c, d).kind = kind
         /\ Span(kind, a, b, c, d).from = a /\ Span(kind, a, b, c, d).to = b
         /\ Span(kind, a, b, c, d).cfrom = c /\ Span(kind, a, b, c, d).cto = d
BY DEF Span

LEMMA OpaqueFramed ==
  ASSUME NEW s, s.kind \in EarlyKinds \cup {"FootnoteRef", "Math"}
  PROVE  Framed(s)
BY DEF Framed, EarlyKinds, PlainKinds, OpaqueKinds, Formatting, IsPlus

\* The common case of formatting: delimiters of m and n characters.
LEMMA FormatFramed ==
  ASSUME NEW kind, kind \in PlainKinds \ {"HexColor"},
         NEW p \in Nat, NEW a \in Nat, p < a, NEW c \in Nat, NEW n \in Nat, 1 <= n
  PROVE  Framed(Span(kind, p, c + n, a, c))
<1> DEFINE s == Span(kind, p, c + n, a, c)
<1>1. s.kind = kind /\ s.from = p /\ s.to = c + n /\ s.cfrom = a /\ s.cto = c
  BY SpanFields
<1> HIDE DEF s
<1>2. s.from < s.cfrom /\ s.cto < s.to
  BY <1>1
<1>3. s.kind \in PlainKinds /\ ~ IsPlus(s) /\ s.kind # "HexColor"
  BY <1>1 DEF IsPlus, PlainKinds, EmphasisKinds
<1>4. Framed(s)
  BY <1>2, <1>3 DEF Framed
<1> QED BY <1>4 DEF s

LEMMA StrikesFramed ==
  ASSUME Len(text) \in Nat, at \in Places1
  PROVE  \A f \in Pairs(<<"~", "~">>, "Strikethrough") : Framed(f.span) /\ f.span.kind = "Strikethrough"
<1> DEFINE w == <<"~", "~">>
           kind == "Strikethrough"
<1> SUFFICES ASSUME NEW f \in Pairs(w, kind) PROVE Framed(f.span) /\ f.span.kind = kind
  OBVIOUS
<1> HIDE DEF w
<1>1. PICK p \in Places(text, at, w) :
        /\ Places(text, p + 2, w) # {}
        /\ f = Found(p, Span(kind, p, Min(Places(text, p + 2, w)) + 2, p + 2, Min(Places(text, p + 2, w))))
  BY DEF Pairs
<1> DEFINE c == Min(Places(text, p + 2, w))
<1>2. p \in Nat /\ p + 2 \in Nat /\ p < p + 2
  BY PlacesBehind DEF Places1
<1>3. c \in p + 2 .. Len(text)
  BY <1>1, <1>2, LeastPlace
<1>4. f.span = Span(kind, p, c + 2, p + 2, c)
  BY <1>1 DEF Found
<1> HIDE DEF c
<1>5. c \in Nat /\ 2 \in Nat /\ 1 <= 2 /\ kind \in PlainKinds \ {"HexColor"}
  BY <1>2, <1>3 DEF PlainKinds
<1>6. Framed(Span(kind, p, c + 2, p + 2, c))
  BY <1>2, <1>5, FormatFramed, Zenon
<1> QED BY <1>4, <1>6, SpanFields

LEMMA HighlightsFramed ==
  ASSUME Len(text) \in Nat, at \in Places1
  PROVE  \A f \in Highlights : Framed(f.span) /\ f.span.kind = "Highlight"
<1> SUFFICES ASSUME NEW f \in Highlights PROVE Framed(f.span) /\ f.span.kind = "Highlight"
  OBVIOUS
<1> DEFINE closers(p) == { c \in HighlightText(p + 2) .. Len(text) : Reads(text, c, <<"=", "=">>) }
<1>1. PICK p \in Places(text, at, <<"=", "=">>) :
        /\ closers(p) # {}
        /\ f = Found(p, Span("Highlight", p, Min(closers(p)) + 2, HighlightText(p + 2), Min(closers(p))))
  BY DEF Highlights
<1> DEFINE c == Min(closers(p))
           a == HighlightText(p + 2)
<1>2. p \in Nat /\ 1 <= p
  BY PlacesBehind DEF Places1
<1>3. p + 2 <= Len(text) + 1
  <2>1. Reads(text, p, <<"=", "=">>)
    BY PlacesBehind, Zenon
  <2> QED BY <1>2, <2>1, ReadsTwo
<1>4. a \in p + 2 .. Len(text) + 1
  <2>1. p + 2 \in 1 .. Len(text) + 1
    BY <1>2, <1>3
  <2> QED BY <2>1, HighlightTextBounds
<1>5. f.span = Span("Highlight", p, c + 2, a, c)
  BY <1>1 DEF Found
<1>6. closers(p) \subseteq a .. Len(text)
  OBVIOUS
<1> HIDE DEF a, closers
<1>7. c \in a .. Len(text)
  BY <1>1, <1>2, <1>4, <1>6, LeastBehind
<1> HIDE DEF c
<1>8. a \in Nat /\ p < a /\ c \in Nat /\ 2 \in Nat /\ 1 <= 2
  BY <1>2, <1>4, <1>7
<1>9. "Highlight" \in PlainKinds \ {"HexColor"}
  BY DEF PlainKinds
<1>10. Framed(Span("Highlight", p, c + 2, a, c))
  BY <1>2, <1>8, <1>9, FormatFramed, Zenon
<1> QED BY <1>5, <1>10, SpanFields

LEMMA TagsFramed ==
  ASSUME Len(text) \in Nat, at \in Places1
  PROVE  \A f \in UnderlineTags : Framed(f.span) /\ f.span.kind = "UnderlineHtml"
<1> SUFFICES ASSUME NEW f \in UnderlineTags PROVE Framed(f.span) /\ f.span.kind = "UnderlineHtml"
  OBVIOUS
<1> DEFINE closers(p) == { c \in p + 3 .. Len(text) : Reads(text, c, <<"<", "/", "u", ">">>) }
<1>1. PICK p \in Places(text, at, <<"<", "u", ">">>) :
        /\ closers(p) # {}
        /\ f = Found(p, Span("UnderlineHtml", p, Min(closers(p)) + 4, p + 3, Min(closers(p))))
  BY DEF UnderlineTags
<1> DEFINE c == Min(closers(p))
<1>2. p \in Nat /\ p + 3 \in Nat /\ p < p + 3
  BY PlacesBehind DEF Places1
<1>3. f.span = Span("UnderlineHtml", p, c + 4, p + 3, c)
  BY <1>1 DEF Found
<1>4. closers(p) \subseteq p + 3 .. Len(text)
  OBVIOUS
<1> HIDE DEF closers
<1>5. c \in p + 3 .. Len(text)
  BY <1>1, <1>2, <1>4, LeastBehind
<1> HIDE DEF c
<1>6. c \in Nat /\ 4 \in Nat /\ 1 <= 4 /\ "UnderlineHtml" \in PlainKinds \ {"HexColor"}
  BY <1>2, <1>5 DEF PlainKinds
<1>7. Framed(Span("UnderlineHtml", p, c + 4, p + 3, c))
  BY <1>2, <1>6, FormatFramed, Zenon
<1> QED BY <1>3, <1>7, SpanFields

LEMMA TildesFramed ==
  ASSUME Len(text) \in Nat, at \in Places1
  PROVE  \A f \in TildePairs : Framed(f.span) /\ f.span.kind = "UnderlineTilde"
<1> SUFFICES ASSUME NEW f \in TildePairs PROVE Framed(f.span) /\ f.span.kind = "UnderlineTilde"
  OBVIOUS
<1>1. PICK p \in SingleTildes(at) :
        /\ SingleTildes(p + 1) # {}
        /\ f = Found(p, Span("UnderlineTilde", p, Min(SingleTildes(p + 1)) + 1, p + 1, Min(SingleTildes(p + 1))))
  BY DEF TildePairs
<1> DEFINE c == Min(SingleTildes(p + 1))
<1>2. \A q : SingleTildes(q) \subseteq q .. Len(text)
  BY PlacesBehind DEF SingleTildes
<1>3. p \in Nat /\ p + 1 \in Nat /\ p < p + 1
  BY <1>2 DEF Places1
<1>4. c \in p + 1 .. Len(text)
  BY <1>1, <1>2, <1>3, LeastBehind
<1>5. f.span = Span("UnderlineTilde", p, c + 1, p + 1, c)
  BY <1>1 DEF Found
<1> HIDE DEF c
<1>6. c \in Nat /\ 1 \in Nat /\ 1 <= 1 /\ "UnderlineTilde" \in PlainKinds \ {"HexColor"}
  BY <1>3, <1>4 DEF PlainKinds
<1>7. Framed(Span("UnderlineTilde", p, c + 1, p + 1, c))
  BY <1>3, <1>6, FormatFramed, Zenon
<1> QED BY <1>5, <1>7, SpanFields

LEMMA FootnotesFramed == \A f \in FootnoteRefs : Framed(f.span) /\ f.span.kind = "FootnoteRef"
<1> SUFFICES ASSUME NEW f \in FootnoteRefs PROVE Framed(f.span) /\ f.span.kind = "FootnoteRef"
  OBVIOUS
<1>1. PICK p, a, b, c, d : f = Found(p, Span("FootnoteRef", a, b, c, d))
  BY DEF FootnoteRefs
<1>2. f.span.kind = "FootnoteRef"
  BY <1>1 DEF Found, Span
<1> QED BY <1>2, OpaqueFramed

\* A colour is "#" and what follows are hexadecimal digits.
LEMMA ColorsFramed ==
  ASSUME Len(text) \in Nat, at \in Places1
  PROVE  \A f \in HexColors : Framed(f.span) /\ f.span.kind = "HexColor"
<1> SUFFICES ASSUME NEW f \in HexColors PROVE Framed(f.span) /\ f.span.kind = "HexColor"
  OBVIOUS
<1>1. PICK p \in Places(text, at, <<"#">>) :
        f = Found(p, Span("HexColor", p, HexEnd(p + 1), p + 1, HexEnd(p + 1)))
  BY DEF HexColors
<1>2. p \in 1 .. Len(text) /\ Reads(text, p, <<"#">>)
  BY PlacesBehind DEF Places1
<1>3. text[p] = "#"
  BY <1>2 DEF Reads, Is
<1>4. p + 1 \in 1 .. Len(text) + 1
  BY <1>2
<1>5. \A m \in p + 1 .. HexEnd(p + 1) - 1 : text[m] \in HexDigits
  BY <1>4, SkipOverStops, Zenon DEF HexEnd
<1> DEFINE c == HexEnd(p + 1)
<1>6. c \in p + 1 .. Len(text) + 1
  BY <1>4, HexEndBounds
<1> HIDE DEF c
<1>7. ASSUME NEW q \in p .. c - 1 PROVE text[q] # "+"
  <2>1. q = p \/ q \in p + 1 .. c - 1
    BY <1>2, <1>6
  <2>2. \A m \in p + 1 .. c - 1 : text[m] \in HexDigits
    BY <1>5 DEF c
  <2> QED BY <1>3, <2>1, <2>2 DEF HexDigits
<1>8. f.span.kind = "HexColor" /\ f.span.from = p /\ f.span.to = c
  BY <1>1 DEF Found, Span, c
<1> QED BY <1>7, <1>8 DEF Framed, PlainKinds, Formatting, TokenKinds, IsPlus

\* Spans that claim, and those of them that are found before emphasis.
Claiming(s) == s.kind \notin EmphasisKinds \cup {"UnderlinePlus"}
Firm(s)     == s.kind \in EarlyKinds \cup {"Math", "HexColor"}

\* The kinds the last scanners find.
LateKind ==
  [ hex |-> "HexColor", strike |-> "Strikethrough", highlight |-> "Highlight", tag |-> "UnderlineHtml",
    tilde |-> "UnderlineTilde", footnote |-> "FootnoteRef" ]

\* What the scanner that runs may add.
Fresh(t) ==
  /\ Framed(t)
  /\ IF pass \in Early THEN t.kind \in EarlyKinds ELSE IF pass = "hex" THEN t.kind = "HexColor" ELSE ~ Firm(t)

LEMMA LateKinds ==
  /\ LateKind["hex"] = "HexColor" /\ LateKind["strike"] = "Strikethrough"
  /\ LateKind["highlight"] = "Highlight" /\ LateKind["tag"] = "UnderlineHtml"
  /\ LateKind["tilde"] = "UnderlineTilde" /\ LateKind["footnote"] = "FootnoteRef"
  /\ {"hex", "strike", "highlight", "tag", "tilde", "footnote"} \subseteq DOMAIN LateKind
BY DEF LateKind

LEMMA LateFresh ==
  ASSUME NEW p \in DOMAIN LateKind, NEW founds, Scanner(p, founds),
         \A f \in founds : Framed(f.span) /\ f.span.kind = LateKind[p]
  PROVE  \A t \in spans' : t \in spans \/ Fresh(t)
<1>1. pass = p /\ \A t \in spans' : t \in spans \/ \E f \in founds : t = f.span
  BY ScannerAdds
<1> SUFFICES ASSUME NEW f \in founds PROVE Fresh(f.span)
  BY <1>1
<1>2. /\ p \notin Early
      /\ IF p = "hex" THEN LateKind[p] = "HexColor" ELSE LateKind[p] \notin EarlyKinds \cup {"Math", "HexColor"}
  BY DEF LateKind, Early, EarlyKinds
<1>3. Framed(f.span) /\ f.span.kind = LateKind[p]
  OBVIOUS
<1> QED BY <1>1, <1>2, <1>3 DEF Fresh, Firm

LEMMA FreshSpans ==
  ASSUME IInv, Code \/ CodeEnd \/ Link \/ LinkEnd \/ Scanners
  PROVE  \A t \in spans' : t \in spans \/ Fresh(t)
<1>1. at \in Places1 /\ Len(text) \in Nat
  BY TextLength
<1>2. CASE pass \in Early
  BY <1>2, NewSpans, OpaqueFramed DEF Suits, Opaque, Fresh
<1>3. CASE pass \notin Early
  <2>1. Scanner("hex", HexColors) \/ Scanner("strike", Pairs(<<"~", "~">>, "Strikethrough"))
        \/ Scanner("highlight", Highlights) \/ Scanner("tag", UnderlineTags)
        \/ Scanner("tilde", TildePairs) \/ Scanner("footnote", FootnoteRefs)
        \/ spans' = spans
    BY <1>3, Zenon DEF Code, CodeEnd, Link, LinkEnd, Scanners, Scanner, Early
  <2>2. CASE Scanner("hex", HexColors)
    BY <1>1, <2>2, ColorsFramed, LateKinds, LateFresh
  <2>3. CASE Scanner("strike", Pairs(<<"~", "~">>, "Strikethrough"))
    BY <1>1, <2>3, StrikesFramed, LateKinds, LateFresh
  <2>4. CASE Scanner("highlight", Highlights)
    BY <1>1, <2>4, HighlightsFramed, LateKinds, LateFresh
  <2>5. CASE Scanner("tag", UnderlineTags)
    BY <1>1, <2>5, TagsFramed, LateKinds, LateFresh
  <2>6. CASE Scanner("tilde", TildePairs)
    BY <1>1, <2>6, TildesFramed, LateKinds, LateFresh
  <2>7. CASE Scanner("footnote", FootnoteRefs)
    BY <1>1, <2>7, FootnotesFramed, LateKinds, LateFresh
  <2> QED BY <2>1, <2>2, <2>3, <2>4, <2>5, <2>6, <2>7
<1> QED BY <1>2, <1>3

LEMMA HeldFramed ==
  ASSUME IInv, EmphasisClose
  PROVE  \A h \in held' : h \in held \/ Framed(h)
<1>1. PICK k \in 1 .. 3, from \in Nat, to \in Nat :
        held' = held \cup {Span(EmphasisKind(k), from, to, from + k, to - k)}
  BY HeldSpan
<1> DEFINE h == Span(EmphasisKind(k), from, to, from + k, to - k)
<1>2. h.kind = EmphasisKind(k) /\ h.from = from /\ h.to = to /\ h.cfrom = from + k /\ h.cto = to - k
  BY SpanFields
<1>3. h.kind \in EmphasisKinds
  BY <1>2 DEF EmphasisKind, EmphasisKinds
<1>4. held' = held \cup {h}
  BY <1>1
<1> HIDE DEF h
<1>5. h.from < h.cfrom /\ h.cto < h.to
  BY <1>2
<1>6. Framed(h)
  BY <1>3, <1>5 DEF Framed, PlainKinds, EmphasisKinds, IsPlus
<1> QED BY <1>4, <1>6

LEMMA FramedStays ==
  ASSUME FramedOK, text' = text, \A s \in spans' \cup held' : s \in spans \cup held \/ Framed(s)
  PROVE  FramedOK'
<1>1. \A s \in spans' \cup held' : Framed(s)
  BY DEF FramedOK
<1>2. \A s : Framed(s) => Framed(s)'
  BY DEF Framed, Formatting, IsPlus, Pair, Is
<1> QED BY <1>1, <1>2 DEF FramedOK

\* What only the steps over delimiters of their own add.
LEMMA Others ==
  ASSUME Math \/ PlusEnd \/ EmphasisOpen \/ EmphasisEnd \/ Sweep \/ SweepEnd \/ Reject
  PROVE  text' = text /\ held' \subseteq held /\ spans' \subseteq spans \cup held
<1>1. CASE Math
  BY <1>1 DEF Math
<1>2. CASE PlusEnd
  BY <1>2 DEF PlusEnd
<1>3. CASE EmphasisOpen
  BY <1>3 DEF EmphasisOpen
<1>4. CASE EmphasisEnd
  BY <1>4 DEF EmphasisEnd
<1>5. CASE Sweep \/ SweepEnd \/ Reject
  BY <1>5 DEF Sweep, SweepEnd, Reject, inner
<1> QED BY <1>1, <1>2, <1>3, <1>4, <1>5

LEMMA FramedKeeps == IInv /\ VisibleOK /\ FramedOK /\ [Next]_vars => FramedOK'
<1> SUFFICES ASSUME IInv, VisibleOK, FramedOK, [Next]_vars PROVE FramedOK'
  OBVIOUS
<1>1. CASE Code \/ CodeEnd \/ Link \/ LinkEnd \/ Scanners
  <2>1. UNCHANGED <<text, held>>
    BY <1>1, FindingSteps DEF Step, inner
  <2> QED BY <1>1, <2>1, FreshSpans, FramedStays DEF Fresh
<1>2. CASE Protect \/ InTag \/ Html \/ HtmlEnd
  BY <1>2, Elsewhere, FramedStays
<1>3. CASE Math \/ PlusEnd \/ EmphasisOpen \/ EmphasisEnd \/ Sweep \/ SweepEnd \/ Reject
  BY <1>3, Others, FramedStays
<1>4. CASE MathEnd
  <2>1. text' = text /\ held' = held /\ \A s \in spans' : s \in spans \/ \E f \in formulas : s = FormulaSpan(f)
    BY <1>4 DEF MathEnd, FormulaSpan
  <2>2. \A f : FormulaSpan(f).kind = "Math"
    BY ExtentOf DEF FormulaSpan
  <2> QED BY <2>1, <2>2, OpaqueFramed, FramedStays
<1>5. CASE Plus
  <2>1. UNCHANGED <<text, held>> /\ PlusAt \in Nat
    BY <1>5, PlusFacts, TextLength
  <2> SUFFICES ASSUME NEW m \in 1 .. Len(stack), NEW s,
                      s = Span("UnderlinePlus", stack[m], RunEnd(PlusAt), stack[m] + 2, PlusAt),
                      RunEnd(PlusAt) = PlusAt + 2, Pair(PlusAt)
               PROVE  Framed(s)
    BY <1>5, <2>1, PlusFacts, PlusPair, FramedStays
  <2>2. stack[m] \in Nat /\ Pair(stack[m])
    BY <1>5, PlusFacts DEF VisibleOK
  <2>3. s.kind = "UnderlinePlus" /\ s.from = stack[m] /\ s.to = PlusAt + 2 /\ s.cfrom = stack[m] + 2 /\ s.cto = PlusAt
    BY SpanFields
  <2>4. s.from < s.cfrom /\ s.cto < s.to /\ s.cfrom = s.from + 2 /\ s.cto = s.to - 2
    BY <2>1, <2>2, <2>3
  <2>5. Pair(s.from) /\ Pair(s.cto)
    BY <2>2, <2>3
  <2> QED BY <2>3, <2>4, <2>5 DEF Framed
<1>6. CASE EmphasisClose
  <2>1. text' = text /\ spans' = spans
    BY <1>6 DEF EmphasisClose
  <2> QED BY <1>6, <2>1, HeldFramed, FramedStays
<1>7. CASE UNCHANGED vars
  BY <1>7, FramedStays DEF vars
<1> QED BY <1>1, <1>2, <1>3, <1>4, <1>5, <1>6, <1>7, Zenon DEF Next, Delimiters

-----------------------------------------------------------------------------
(* Spans are apart, but for emphasis, underlines, and formulas that close  *)
(* inside of what was found before.                                        *)

Mixed(s, t) == s.kind = "Math" /\ t.kind \in EarlyKinds
Separate(s, t) == ~ Overlap(Extent(s), Extent(t))

DisjointOK ==
  /\ \A s \in spans : Claiming(s) => Extent(s) \in claimed
  /\ \A s, t \in spans : Claiming(s) /\ Claiming(t) => s = t \/ Mixed(s, t) \/ Mixed(t, s) \/ Separate(s, t)
  /\ \A s, t \in spans : Firm(s) /\ IsEmphasis(t) => Separate(s, t)

LEMMA SeparateBoth == \A s, t : Separate(s, t) => Separate(t, s)
BY DEF Separate, Overlap

\* Emphasis comes after all that is firm.
LEMMA FirmFirst ==
  ASSUME NoEarlyEmphasis, NEW x, Fresh(x), Firm(x), NEW t \in spans
  PROVE  ~ IsEmphasis(t)
<1>1. pass \in Early \cup {"hex"}
  BY DEF Fresh
<1>2. pass \notin Last
  BY <1>1 DEF Early, Last, Late
<1> QED BY <1>2 DEF NoEarlyEmphasis

LEMMA FoundDisjoint ==
  ASSUME NoEarlyEmphasis, DisjointOK, NEW x, Finds(x), x \in spans \/ Fresh(x)
  PROVE  DisjointOK'
<1>1. spans' = spans \cup {x} /\ claimed' = claimed \cup {Extent(x)} /\ \A d \in claimed : ~ Overlap(Extent(x), d)
  BY DEF Finds, IsClaimed
<1>2. ~ IsEmphasis(x)
  BY DEF Finds, Fits, IsEmphasis, EmphasisKinds
<1>3. \A t \in spans : Claiming(t) => Separate(x, t)
  BY <1>1 DEF DisjointOK, Separate
<1>4. \A s \in spans' : Claiming(s) => Extent(s) \in claimed'
  BY <1>1, Zenon DEF DisjointOK
<1>5. \A s, t \in spans' : Claiming(s) /\ Claiming(t) => s = t \/ Mixed(s, t) \/ Mixed(t, s) \/ Separate(s, t)
  BY <1>1, <1>3, SeparateBoth, Zenon DEF DisjointOK
<1>6. \A s, t \in spans' : Firm(s) /\ IsEmphasis(t) => Separate(s, t)
  BY <1>1, <1>2, FirmFirst, Zenon DEF DisjointOK
<1> QED BY <1>4, <1>5, <1>6, Zenon DEF DisjointOK, Claiming, Mixed, Firm, IsEmphasis, Separate, Overlap, Extent

\* The formulas are apart from each other, and from all that is not found before them.
LEMMA MathEndDisjoint ==
  ASSUME IInv, FormulasOK, VisibleOK, DisjointOK, MathEnd
  PROVE  DisjointOK'
<1>1. /\ pass = "math" /\ claimed' = { c \in claimed : ReachesOut(c) } \cup formulas
      /\ spans' = { s \in spans : ReachesOut(Extent(s)) } \cup { FormulaSpan(f) : f \in formulas }
  BY DEF MathEnd, FormulaSpan
<1>2. \A s \in spans : s.kind \in EarlyKinds
  BY <1>1 DEF VisibleOK
<1>3. \A f \in formulas : FormulaSpan(f).kind = "Math" /\ Extent(FormulaSpan(f)) = f
  <2> SUFFICES ASSUME NEW f \in formulas PROVE FormulaSpan(f).kind = "Math" /\ Extent(FormulaSpan(f)) = f
    OBVIOUS
  <2>1. f \in Places1 \X Places1
    BY DEF IInv, ClaimsOK
  <2>2. f = <<f[1], f[2]>>
    BY <2>1
  <2> QED BY <2>2, ExtentOf DEF FormulaSpan
<1>4. \A f, g \in formulas : f = g \/ Separate(FormulaSpan(f), FormulaSpan(g))
  <2> SUFFICES ASSUME NEW f \in formulas, NEW g \in formulas, f # g
               PROVE  Separate(FormulaSpan(f), FormulaSpan(g))
    OBVIOUS
  <2>1. f[2] <= g[1] \/ g[2] <= f[1]
    BY DEF FormulasOK
  <2>2. f[1] \in Nat /\ f[2] \in Nat /\ g[1] \in Nat /\ g[2] \in Nat
    BY FormulaNumbers
  <2>3. ~ Overlap(f, g)
    BY <2>1, <2>2 DEF Overlap
  <2> QED BY <1>3, <2>3 DEF Separate
<1>5. \A s \in spans' : s.kind \in EarlyKinds \cup {"Math"}
  BY <1>1, <1>2, <1>3
<1>6. \A s \in spans' : Claiming(s) => Extent(s) \in claimed'
  <2>1. \A s \in spans : Extent(s) \in claimed
    BY <1>2 DEF DisjointOK, Claiming, EarlyKinds, EmphasisKinds
  <2> QED BY <1>1, <1>3, <2>1
<1>7. \A s, t \in spans' : s = t \/ Mixed(s, t) \/ Mixed(t, s) \/ Separate(s, t)
  <2>1. \A s \in spans' : (s \in spans /\ s.kind \in EarlyKinds) \/ (s.kind = "Math" /\ \E f \in formulas : s = FormulaSpan(f))
    BY <1>1, <1>2, <1>3
  <2>2. \A s, t \in spans : s = t \/ Separate(s, t)
    BY <1>2 DEF DisjointOK, Claiming, Mixed, EarlyKinds, EmphasisKinds
  <2> QED BY <1>4, <2>1, <2>2, Zenon DEF Mixed
<1>8. \A s \in spans' : ~ IsEmphasis(s)
  BY <1>5 DEF IsEmphasis, EarlyKinds
<1> QED BY <1>6, <1>7, <1>8, Zenon DEF DisjointOK, Claiming, Mixed, Firm, IsEmphasis, Separate, Overlap, Extent

\* Spans that claim nothing, and are apart from the claims if they are emphasis.
LEMMA UnclaimedDisjoint ==
  ASSUME DisjointOK, claimed' = claimed,
         \A t \in spans' : t \in spans \/ IsPlus(t) \/ (IsEmphasis(t) /\ ~ IsClaimed(Extent(t)))
  PROVE  DisjointOK'
<1>1. \A t \in spans' : t \in spans \/ (~ Claiming(t) /\ ~ Firm(t))
  BY DEF IsPlus, IsEmphasis, Claiming, Firm, EmphasisKinds, EarlyKinds
<1>2. \A s \in spans : Firm(s) => Extent(s) \in claimed
  BY DEF DisjointOK, Claiming, Firm, EmphasisKinds, EarlyKinds
<1>3. \A s \in spans : \A t : Firm(s) /\ ~ IsClaimed(Extent(t)) => Separate(s, t)
  BY <1>2, SeparateBoth DEF IsClaimed, Separate
<1>4. \A s, t \in spans' : Firm(s) /\ IsEmphasis(t) => Separate(s, t)
  <2>1. \A t : ~ (IsPlus(t) /\ IsEmphasis(t))
    BY DEF IsPlus, IsEmphasis
  <2> QED BY <1>1, <1>3, <2>1, Zenon DEF DisjointOK
<1>5. \A s \in spans' : Claiming(s) => Extent(s) \in claimed'
  BY <1>1 DEF DisjointOK
<1>6. \A s, t \in spans' : Claiming(s) /\ Claiming(t) => s = t \/ Mixed(s, t) \/ Mixed(t, s) \/ Separate(s, t)
  BY <1>1, Zenon DEF DisjointOK
<1> QED BY <1>4, <1>5, <1>6, Zenon DEF DisjointOK, Claiming, Mixed, Firm, IsEmphasis, Separate, Overlap, Extent

LEMMA DisjointKeeps ==
  IInv /\ FormulasOK /\ VisibleOK /\ NoEarlyEmphasis /\ DisjointOK /\ [Next]_vars => DisjointOK'
<1> SUFFICES ASSUME IInv, FormulasOK, VisibleOK, NoEarlyEmphasis, DisjointOK, [Next]_vars PROVE DisjointOK'
  OBVIOUS
<1>1. CASE Code \/ CodeEnd \/ Link \/ LinkEnd \/ Scanners
  <2>1. \A t \in spans' : t \in spans \/ Fresh(t)
    BY <1>1, FreshSpans
  <2>2. CASE UNCHANGED <<spans, claimed>>
    BY <2>2, UnclaimedDisjoint
  <2>3. ASSUME NEW x, Finds(x) PROVE DisjointOK'
    <3>1. x \in spans'
      BY <2>3 DEF Finds
    <3> QED BY <2>1, <2>3, <3>1, FoundDisjoint
  <2> QED BY <1>1, <2>2, <2>3, FindingSteps DEF Step
<1>2. CASE Protect \/ InTag \/ Html \/ HtmlEnd
  BY <1>2, Elsewhere, UnclaimedDisjoint
<1>3. CASE Math \/ PlusEnd \/ EmphasisClose \/ EmphasisOpen \/ Sweep \/ SweepEnd \/ Reject
  <2>1. claimed' = claimed /\ spans' \subseteq spans
    BY <1>3 DEF Math, PlusEnd, EmphasisClose, EmphasisOpen, Sweep, SweepEnd, Reject
  <2> QED BY <2>1, UnclaimedDisjoint
<1>4. CASE MathEnd
  BY <1>4, MathEndDisjoint
<1>5. CASE Plus
  <2>1. claimed' = claimed
    BY <1>5 DEF Plus
  <2>2. \A t \in spans' : t \in spans \/ IsPlus(t)
    BY <1>5, PlusFacts, ExtentOf DEF IsPlus
  <2> QED BY <2>1, <2>2, UnclaimedDisjoint
<1>6. CASE EmphasisEnd
  <2>1. claimed' = claimed /\ \A t \in spans' : t \in spans \/ (t \in held /\ ~ IsClaimed(Extent(t)))
    BY <1>6 DEF EmphasisEnd
  <2>2. \A h \in held : IsEmphasis(h)
    BY DEF VisibleOK, IsEmphasis, EmphasisKinds
  <2> QED BY <2>1, <2>2, UnclaimedDisjoint
<1>7. CASE UNCHANGED vars
  BY <1>7, UnclaimedDisjoint DEF vars
<1> QED BY <1>1, <1>2, <1>3, <1>4, <1>5, <1>6, <1>7, Zenon DEF Next, Delimiters

-----------------------------------------------------------------------------
(* A formula starts outside of what an earlier span has delimited or made  *)
(* opaque.                                                                 *)

ReservedOK ==
  /\ pass \in {"html", "math"} => \A s \in spans : Reserved(s) \subseteq hidden
  /\ pass = "math" =>
       \A s \in spans : (open # None => open \notin Reserved(s)) /\ \A f \in formulas : f[1] \notin Reserved(s)
  /\ \A s, t \in spans : Mixed(s, t) => s.from \notin Reserved(t)

\* Neither formulas nor early spans are added.
LEMMA ReservedStays ==
  ASSUME ReservedOK, pass' \notin {"html", "math"},
         \A t \in spans' : t \in spans \/ t.kind \notin EarlyKinds \cup {"Math"}
         \/ (t.kind # "Math" /\ \A s \in spans : s.kind # "Math")
  PROVE  ReservedOK'
<1>1. \A s, t \in spans' : Mixed(s, t) => s.from \notin Reserved(t)
  BY DEF ReservedOK, Mixed
<1> QED BY <1>1 DEF ReservedOK, Mixed, Reserved, Inside, Delimiting, PlacesOf

LEMMA MathReserved ==
  ASSUME IInv, VisibleOK, ReservedOK, Math
  PROVE  ReservedOK'
<1> DEFINE k == Min(MathPlaces)
<1>1. k \in MathPlaces
  <2>1. MathPlaces \subseteq at .. Len(text) /\ MathPlaces # {} /\ at \in Nat /\ Len(text) \in Nat
    BY TextLength DEF MathPlaces, Math
  <2> QED BY <2>1, LeastBehind
<1>2. /\ pass = "math" /\ pass' = "math" /\ UNCHANGED <<text, spans, held>> /\ hidden \subseteq hidden'
      /\ open' \in {None, open} \/ (open' = k /\ MathOpens(k))
      /\ formulas' = formulas \/ (open # None /\ formulas' = formulas \cup {<<open, k + 1>>})
  BY DEF Math, MathCloses
<1>3. MathOpens(k) => k \notin hidden
  BY <1>1 DEF MathOpens, MathPlaces
<1> HIDE DEF k
<1>4. \A s \in spans : Reserved(s) \subseteq hidden'
  BY <1>2 DEF ReservedOK
<1>5. \A s \in spans : open' # None => open' \notin Reserved(s)
  BY <1>2, <1>3 DEF ReservedOK
<1>6. \A s \in spans, f \in formulas' : f[1] \notin Reserved(s)
  BY <1>2 DEF ReservedOK
<1> QED BY <1>2, <1>4, <1>5, <1>6 DEF ReservedOK, Mixed, Reserved, Inside, Delimiting, PlacesOf

LEMMA MathEndReserved ==
  ASSUME IInv, VisibleOK, ReservedOK, MathEnd
  PROVE  ReservedOK'
<1>1. /\ pass = "math" /\ pass' = "plus"
      /\ \A s \in spans' : s \in spans \/ \E f \in formulas : s = FormulaSpan(f)
  BY OrderOfRest DEF MathEnd, Leave, FormulaSpan
<1>2. \A s \in spans : s.kind \in EarlyKinds
  BY <1>1 DEF VisibleOK
<1>3. \A f : FormulaSpan(f).kind = "Math" /\ FormulaSpan(f).from = f[1]
  BY ExtentOf DEF FormulaSpan
<1>4. \A s, t \in spans' : Mixed(s, t) => s.from \notin Reserved(t)
  <2> SUFFICES ASSUME NEW s \in spans', NEW t \in spans', s.kind = "Math", t.kind \in EarlyKinds
               PROVE  s.from \notin Reserved(t)
    BY DEF Mixed
  <2>1. t \in spans
    BY <1>1, <1>3 DEF EarlyKinds
  <2>2. PICK f \in formulas : s = FormulaSpan(f)
    BY <1>1, <1>2 DEF EarlyKinds
  <2> QED BY <1>1, <1>3, <2>1, <2>2 DEF ReservedOK
<1> QED BY <1>1, <1>4 DEF ReservedOK, Mixed, Reserved, Inside, Delimiting, PlacesOf

LEMMA HidingReserved ==
  ASSUME IInv, ApartOK, FormulasOK, VisibleOK, ReservedOK, Protect \/ InTag \/ Html \/ HtmlEnd
  PROVE  ReservedOK'
<1>1. /\ UNCHANGED <<text, spans, formulas>>
      /\ pass \in {"protect", "html"} /\ pass' \in {"html", "math", "hex"}
  BY Elsewhere
<1>2. formulas' = {}
  BY <1>1 DEF FormulasOK, Late
<1>3. pass' = "math" => open' = None
  BY <1>1 DEF Protect, InTag, Html, HtmlEnd, Leave, After
<1>4. ASSUME pass' \in {"html", "math"} PROVE \A s \in spans' : Reserved(s) \subseteq hidden'
  <2>1. CASE Protect
    <3>1. pass' = "html"
      BY <1>4, <2>1, OrderOfRest DEF Protect, Leave
    <3> QED BY <1>1, <2>1, <3>1, ProtectReserves
  <2>2. CASE InTag \/ Html \/ HtmlEnd
    <3>1. pass = "html" /\ hidden \subseteq hidden'
      BY <2>2 DEF InTag, Html, HtmlEnd
    <3> QED BY <1>1, <3>1 DEF ReservedOK
  <2> QED BY <2>1, <2>2
<1>5. \A s, t \in spans' : Mixed(s, t) => s.from \notin Reserved(t)
  BY <1>1 DEF ReservedOK
<1> QED BY <1>2, <1>3, <1>4, <1>5 DEF ReservedOK, Mixed, Reserved, Inside, Delimiting, PlacesOf

LEMMA ReservedKeeps ==
  IInv /\ ApartOK /\ FormulasOK /\ VisibleOK /\ ReservedOK /\ [Next]_vars => ReservedOK'
<1> SUFFICES ASSUME IInv, ApartOK, FormulasOK, VisibleOK, ReservedOK, [Next]_vars PROVE ReservedOK'
  OBVIOUS
<1>1. CASE Code \/ CodeEnd \/ Link \/ LinkEnd \/ Scanners
  <2>1. \A t \in spans' : t \in spans \/ Fresh(t)
    BY <1>1, FreshSpans
  <2>2. pass \in Finding /\ (pass' = pass \/ pass' = After[pass])
    BY <1>1, FindingSteps DEF Step, Leave
  <2>3. pass' \notin {"html", "math"}
    <3>1. "html" \notin Finding /\ "math" \notin Finding
      BY DEF Finding
    <3> QED BY <2>2, <3>1, Order
  <2>4. CASE pass \in Early
    <3>1. \A s \in spans : s.kind # "Math"
      BY <2>4 DEF FormulasOK, Early, Late
    <3>2. \A t \in spans' : t \in spans \/ t.kind # "Math"
      BY <2>1, <2>4 DEF Fresh, EarlyKinds
    <3> QED BY <2>3, <3>1, <3>2, ReservedStays
  <2>5. CASE pass \notin Early
    <3>1. \A t \in spans' : t \in spans \/ t.kind \notin EarlyKinds \cup {"Math"}
      BY <2>1, <2>5 DEF Fresh, Firm, EarlyKinds
    <3> QED BY <2>3, <3>1, ReservedStays
  <2> QED BY <2>4, <2>5
<1>2. CASE Protect \/ InTag \/ Html \/ HtmlEnd
  BY <1>2, HidingReserved
<1>3. CASE Math
  BY <1>3, MathReserved
<1>4. CASE MathEnd
  BY <1>4, MathEndReserved
<1>5. CASE Plus
  <2>1. pass' = "plus"
    BY <1>5, PlusFacts
  <2>2. \A t \in spans' : t \in spans \/ t.kind \notin EarlyKinds \cup {"Math"}
    BY <1>5, PlusFacts, ExtentOf DEF EarlyKinds
  <2> QED BY <2>1, <2>2, ReservedStays
<1>6. CASE PlusEnd \/ EmphasisClose \/ EmphasisOpen \/ Sweep \/ SweepEnd \/ Reject
  <2>1. pass' \notin {"html", "math"} /\ spans' \subseteq spans
    BY <1>6, OrderOfRest DEF PlusEnd, EmphasisClose, EmphasisOpen, Sweep, SweepEnd, Reject, Leave
  <2> QED BY <2>1, ReservedStays
<1>7. CASE EmphasisEnd
  <2>1. pass' = "strike" /\ \A t \in spans' : t \in spans \/ t \in held
    BY <1>7, OrderOfRest DEF EmphasisEnd, Leave
  <2>2. \A h \in held : h.kind \notin EarlyKinds \cup {"Math"}
    BY DEF VisibleOK, EmphasisKinds, EarlyKinds
  <2> QED BY <2>1, <2>2, ReservedStays
<1>8. CASE UNCHANGED vars
  BY <1>8 DEF vars, ReservedOK, Mixed, Reserved, Inside, Delimiting, PlacesOf
<1> QED BY <1>1, <1>2, <1>3, <1>4, <1>5, <1>6, <1>7, <1>8, Zenon DEF Next, Delimiters

-----------------------------------------------------------------------------
(* The result.                                                             *)

NoCrossing == pass = "done" => \A s, t \in spans : IsPlus(s) => ~ Crosses(s, t)

\* The parser stops where it is done, and gets there by the last step only.
LEMMA DoneIsLast ==
  ASSUME IInv, Next
  PROVE  pass # "done" /\ (pass' = "done" => pass = "reject")
<1>1. CASE Code \/ CodeEnd \/ Link \/ LinkEnd \/ Scanners
  <2>1. pass \in Finding /\ (pass' = pass \/ pass' = After[pass]) /\ "done" \notin Finding
    BY <1>1, FindingSteps DEF Step, Leave, Finding
  <2> QED BY <2>1, Order
<1>2. CASE Protect \/ InTag \/ Html \/ HtmlEnd
  BY <1>2, Elsewhere
<1>3. CASE Math \/ Plus \/ EmphasisClose \/ EmphasisOpen \/ Sweep
  BY <1>3 DEF Math, Plus, EmphasisClose, EmphasisOpen, Sweep
<1>4. CASE MathEnd \/ PlusEnd \/ EmphasisEnd \/ SweepEnd \/ Reject
  BY <1>4, OrderOfRest DEF MathEnd, PlusEnd, EmphasisEnd, SweepEnd, Reject, Leave
<1> QED BY <1>1, <1>2, <1>3, <1>4, Zenon DEF Next, Delimiters

LEMMA NoCrossingKeeps == IInv /\ SweepOK /\ NoCrossing /\ [Next]_vars => NoCrossing'
<1> SUFFICES ASSUME IInv, SweepOK, NoCrossing, [Next]_vars, pass' = "done" PROVE NoCrossing'
  BY DEF NoCrossing
<1>1. CASE Next
  <2>1. Reject
    BY <1>1, DoneIsLast, OnlyReject
  <2> QED BY <2>1, RejectsCrossing DEF NoCrossing, Crosses, IsPlus
<1>2. CASE UNCHANGED vars
  BY <1>2 DEF vars, NoCrossing, Crosses, IsPlus
<1> QED BY <1>1, <1>2

ParseInv ==
  /\ IInv /\ FormulasOK /\ ApartOK /\ VisibleOK /\ NoEarlyEmphasis /\ EmphasisNests /\ SweepOK
  /\ FramedOK /\ DisjointOK /\ ReservedOK /\ NoCrossing

LEMMA ParseStarts == Init => ParseInv
<1> SUFFICES ASSUME Init PROVE ParseInv
  OBVIOUS
<1>1. IInv
  BY InitHolds
<1>2. FormulasOK /\ ApartOK /\ VisibleOK
  BY DEF Init, FormulasOK, ApartOK, VisibleOK, PlusVisible, Late, Hiding
<1>3. NoEarlyEmphasis /\ EmphasisNests /\ SweepOK
  BY DEF Init, NoEarlyEmphasis, EmphasisNests, SweepOK
<1>4. FramedOK /\ DisjointOK /\ ReservedOK /\ NoCrossing
  BY DEF Init, FramedOK, DisjointOK, ReservedOK, NoCrossing
<1> QED BY <1>1, <1>2, <1>3, <1>4 DEF ParseInv

LEMMA ParseKeeps == ParseInv /\ [Next]_vars => ParseInv'
<1> SUFFICES ASSUME ParseInv, [Next]_vars PROVE ParseInv'
  OBVIOUS
<1>0. /\ IInv /\ FormulasOK /\ ApartOK /\ VisibleOK /\ NoEarlyEmphasis /\ EmphasisNests /\ SweepOK
      /\ FramedOK /\ DisjointOK /\ ReservedOK /\ NoCrossing
  BY DEF ParseInv
<1>1. IInv'
  BY <1>0, NextKeeps
<1>2. FormulasOK' /\ ApartOK' /\ VisibleOK'
  BY <1>0, FormulasKeep, ApartKeeps, VisibleKeeps
<1>3. NoEarlyEmphasis' /\ EmphasisNests' /\ SweepOK'
  BY <1>0, <1>1, EmphasisKeeps, SweepsKeep
<1>4. FramedOK' /\ DisjointOK' /\ ReservedOK' /\ NoCrossing'
  BY <1>0, FramedKeeps, DisjointKeeps, ReservedKeeps, NoCrossingKeeps
<1> QED BY <1>1, <1>2, <1>3, <1>4 DEF ParseInv

\* What holds of the spans that parse_spans returns.
Settled(S) ==
  /\ \A s \in S : Sits(s) /\ Framed(s)
  /\ \A s, t \in S : Claiming(s) /\ Claiming(t) => s = t \/ Mixed(s, t) \/ Mixed(t, s) \/ Separate(s, t)
  /\ \A s, t \in S : Firm(s) /\ IsEmphasis(t) => Separate(s, t)
  /\ \A s, t \in S : Mixed(s, t) => s.from \notin Reserved(t) /\ ~ (s.from <= t.from /\ t.to <= s.to)
  /\ \A s, t \in S : IsPlus(s) => ~ Crosses(s, t) /\ Inside(t) \cap {s.from, s.from + 1, s.to - 2, s.to - 1} = {}

LEMMA ParseSettles == ParseInv /\ pass = "done" => Settled(spans)
<1> SUFFICES ASSUME ParseInv, pass = "done" PROVE Settled(spans)
  OBVIOUS
<1>1. \A s \in spans : Sits(s) /\ Framed(s)
  BY DEF ParseInv, IInv, SpansOK, FramedOK
<1>2. /\ \A s, t \in spans : Claiming(s) /\ Claiming(t) => s = t \/ Mixed(s, t) \/ Mixed(t, s) \/ Separate(s, t)
      /\ \A s, t \in spans : Firm(s) /\ IsEmphasis(t) => Separate(s, t)
  BY Zenon DEF ParseInv, DisjointOK
<1>3. \A s, t \in spans : Mixed(s, t) => s.from \notin Reserved(t) /\ ~ (s.from <= t.from /\ t.to <= s.to)
  <2>1. FormulaOpaque
    BY FormulaIsOpaque DEF ParseInv
  <2>2. \A s, t : Mixed(s, t) => s.kind = "Math" /\ s # t
    BY DEF Mixed, EarlyKinds
  <2> QED BY <2>1, <2>2, Zenon DEF ParseInv, ReservedOK, FormulaOpaque
<1>4. \A s, t \in spans : IsPlus(s) => ~ Crosses(s, t)
  BY DEF ParseInv, NoCrossing
<1>5. \A s, t \in spans : IsPlus(s) => Inside(t) \cap {s.from, s.from + 1, s.to - 2, s.to - 1} = {}
  BY Zenon DEF ParseInv, VisibleOK, PlusVisible
<1> QED BY <1>1, <1>2, <1>3, <1>4, <1>5, Zenon DEF Settled

-----------------------------------------------------------------------------
(* Tokens.                                                                 *)

LEMMA SigilFacts ==
  ASSUME Len(text) \in Nat, place \in Nat, place >= 1, Sigils # {}
  PROVE  Sigil \in place .. Len(text) /\ Sigil \in 1 .. Len(text) /\ Sigil \notin mask /\ Sigil \in Nat
<1>1. Sigils \subseteq place .. Len(text) /\ Sigils \cap mask = {}
  BY DEF Sigils
<1>2. Sigil \in Sigils /\ Sigil \in place .. Len(text)
  BY <1>1, LeastBehind DEF Sigil
<1> QED BY <1>1, <1>2

LEMMA StopFacts ==
  ASSUME Len(text) \in Nat, Sigil \in 1 .. Len(text)
  PROVE  /\ Stop \in Sigil + 1 .. Len(text) + 1 /\ ~ Continues(Stop)
         /\ \A p \in Sigil + 1 .. Stop - 1 : Continues(p)
<1> DEFINE S == { p \in Sigil + 1 .. Len(text) + 1 : ~ Continues(p) }
<1>1. ~ Continues(Len(text) + 1)
  BY DEF Continues
<1>2. Len(text) + 1 \in S /\ S \subseteq Sigil + 1 .. Len(text) + 1 /\ \A x \in S : ~ Continues(x)
  BY <1>1
<1>3. \A p \in Sigil + 1 .. Len(text) + 1 : Continues(p) \/ p \in S
  OBVIOUS
<1>4. Stop = Min(S)
  BY DEF Stop
<1> HIDE DEF S
<1>5. Stop \in S /\ Stop \in Sigil + 1 .. Len(text) + 1 /\ \A x \in S : Stop <= x
  <2>1. Sigil + 1 \in Nat /\ Len(text) + 1 \in Nat /\ S # {}
    BY <1>2
  <2> QED BY <1>2, <1>4, <2>1, LeastBehind
<1>6. ASSUME NEW p \in Sigil + 1 .. Stop - 1 PROVE Continues(p)
  <2>1. p \in Sigil + 1 .. Len(text) + 1 /\ ~ (Stop <= p)
    BY <1>5
  <2> QED BY <1>3, <1>5, <2>1
<1> QED BY <1>2, <1>5, <1>6

\* Where a name ends: before its closing sign, at its first space, or behind its last word.
LEMMA NameEndFacts ==
  ASSUME Len(text) \in Nat, Sigil \in 1 .. Len(text)
  PROVE  /\ NameEnd \in Sigil + 1 .. Stop
         /\ Closed => NameEnd = Stop
         /\ ~ Closed /\ NameEnd # Sigil + 1 =>
              \/ text[NameEnd] = " "
              \/ /\ NameEnd - 1 \in Sigil + 1 .. Stop - 1 /\ text[NameEnd - 1] \in Alphanumeric
                 /\ \A p \in NameEnd .. Stop - 1 : text[p] \notin Alphanumeric
<1> DEFINE spaces == { p \in Sigil + 1 .. Stop - 1 : text[p] = " " }
           words  == { p \in Sigil + 1 .. Stop - 1 : text[p] \in Alphanumeric }
<1>1. NameEnd = IF Closed THEN Stop
                ELSE IF spaces # {} THEN Min(spaces)
                ELSE IF words # {} THEN Max(words) + 1
                ELSE Sigil + 1
  BY DEF NameEnd
<1>2. Stop \in Sigil + 1 .. Len(text) + 1 /\ Stop \in Nat /\ Stop - 1 \in Nat /\ Sigil + 1 \in Nat
  BY StopFacts
<1>3. CASE Closed
  <2>1. NameEnd = Stop
    BY <1>1, <1>3, Zenon
  <2> QED BY <1>2, <1>3, <2>1
<1>4. CASE ~ Closed /\ spaces # {}
  <2>1. spaces \subseteq Sigil + 1 .. Stop - 1 /\ \A p \in spaces : text[p] = " "
    OBVIOUS
  <2>2. NameEnd = Min(spaces)
    BY <1>1, <1>4
  <2> HIDE DEF spaces, words
  <2>3. NameEnd \in spaces /\ NameEnd \in Sigil + 1 .. Stop - 1
    <3>1. Min(spaces) \in spaces /\ Min(spaces) \in Sigil + 1 .. Stop - 1
      BY <1>2, <1>4, <2>1, LeastBehind
    <3> QED BY <2>2, <3>1, Zenon
  <2>4. text[NameEnd] = " "
    BY <2>1, <2>3, Zenon
  <2>5. NameEnd \in Sigil + 1 .. Stop
    BY <1>2, <2>3
  <2> QED BY <1>4, <2>4, <2>5, Zenon
<1>5. CASE ~ Closed /\ spaces = {} /\ words # {}
  <2>1. words \subseteq Sigil + 1 .. Stop - 1 /\ \A p \in words : text[p] \in Alphanumeric
    OBVIOUS
  <2>2. \A p \in Sigil + 1 .. Stop - 1 : text[p] \in Alphanumeric => p \in words
    OBVIOUS
  <2>3. NameEnd = Max(words) + 1
    BY <1>1, <1>5
  <2> DEFINE m == Max(words)
  <2> HIDE DEF spaces, words
  <2>4. m \in words /\ \A x \in words : x <= m
    <3>1. words \in SUBSET (0 .. Stop) /\ Stop \in Nat
      BY <1>2, <2>1
    <3> QED BY <1>5, <3>1, MaxIsGreatest
  <2> HIDE DEF m
  <2>5. m \in Sigil + 1 .. Stop - 1 /\ text[m] \in Alphanumeric
    BY <2>1, <2>4
  <2>6. NameEnd = m + 1 /\ NameEnd - 1 = m /\ NameEnd \in Sigil + 1 .. Stop
    BY <1>2, <2>3, <2>5 DEF m
  <2>7. ASSUME NEW p \in NameEnd .. Stop - 1 PROVE text[p] \notin Alphanumeric
    <3>1. p \in Sigil + 1 .. Stop - 1 /\ ~ (p <= m)
      BY <1>2, <2>5, <2>6
    <3> QED BY <2>2, <2>4, <3>1
  <2>8. text[NameEnd - 1] \in Alphanumeric /\ NameEnd - 1 \in Sigil + 1 .. Stop - 1
    BY <2>5, <2>6, Zenon
  <2> QED BY <1>5, <2>6, <2>7, <2>8, Zenon
<1>6. CASE ~ Closed /\ spaces = {} /\ words = {}
  <2>1. NameEnd = Sigil + 1
    BY <1>1, <1>6, Zenon
  <2> HIDE DEF spaces, words
  <2> QED BY <1>2, <1>6, <2>1
<1> HIDE DEF spaces, words
<1> QED BY <1>3, <1>4, <1>5, <1>6, Zenon

\* A token lies outside of the mask.
LEMMA TokenUnmasked ==
  ASSUME Len(text) \in Nat, place \in Nat, place >= 1, Sigils # {}
  PROVE  /\ TokenEnd \in NameEnd .. Len(text) + 1 /\ NameEnd \in Sigil + 1 .. Len(text) + 1
         /\ \A p \in Sigil .. TokenEnd - 1 : p \notin mask
<1>1. Sigil \in 1 .. Len(text) /\ Sigil \notin mask
  BY SigilFacts
<1>2. Stop \in Sigil + 1 .. Len(text) + 1 /\ \A p \in Sigil + 1 .. Stop - 1 : p \notin mask
  BY <1>1, StopFacts DEF Continues
<1>3. NameEnd \in Sigil + 1 .. Stop
  BY <1>1, NameEndFacts
<1>4. CASE Closed
  <2>1. Stop \in 1 .. Len(text) /\ Stop \notin mask
    BY <1>4 DEF Closed, Is
  <2>2. NameEnd = Stop /\ TokenEnd = Stop + 1
    BY <1>1, <1>4, NameEndFacts DEF TokenEnd
  <2>3. ASSUME NEW p \in Sigil .. TokenEnd - 1 PROVE p \notin mask
    <3>1. p = Sigil \/ p = Stop \/ p \in Sigil + 1 .. Stop - 1
      BY <1>1, <1>2, <2>2
    <3> QED BY <1>1, <1>2, <2>1, <3>1
  <2> QED BY <1>1, <1>2, <2>1, <2>2, <2>3
<1>5. CASE ~ Closed
  <2>1. TokenEnd = NameEnd
    BY <1>5 DEF TokenEnd
  <2>2. ASSUME NEW p \in Sigil .. TokenEnd - 1 PROVE p \notin mask
    <3>1. p = Sigil \/ p \in Sigil + 1 .. Stop - 1
      BY <1>1, <1>2, <1>3, <2>1
    <3> QED BY <1>1, <1>2, <3>1
  <2> QED BY <1>1, <1>2, <1>3, <2>1, <2>2
<1> QED BY <1>4, <1>5

\* Nothing that goes on with the name of a tag follows it.
LEMMA TagIsWhole ==
  ASSUME Len(text) \in Nat, place \in Nat, place >= 1, Sigils # {}, IsTag, NameEnd > Sigil + 1,
         NEW p \in 1 .. Len(text), p \notin mask, text[p] \in Alphanumeric
  PROVE  p # TokenEnd /\ ~ (p = TokenEnd + 1 /\ text[TokenEnd] \in {"-", "_", "/"} /\ TokenEnd \notin mask)
<1>1. Sigil \in 1 .. Len(text)
  BY SigilFacts
<1>2. Stop \in Sigil + 1 .. Len(text) + 1 /\ ~ Continues(Stop) /\ NameEnd \in Sigil + 1 .. Stop
  BY <1>1, StopFacts, NameEndFacts
<1>3. p # Stop
  BY <1>2 DEF Continues
<1>4. CASE Closed
  <2>1. TokenEnd = Stop + 1
    BY <1>1, <1>4, NameEndFacts DEF TokenEnd
  <2>2. ~ IsIn(text, TokenEnd, Alphanumeric \cup {"-", "_", "/", "#", "@"})
    BY <1>4, <2>1 DEF Closed
  <2>3. p # TokenEnd
    BY <2>2 DEF IsIn
  <2>4. p = TokenEnd + 1 => TokenEnd \in 1 .. Len(text)
    BY <1>1, <1>2, <2>1
  <2> QED BY <2>2, <2>3, <2>4 DEF IsIn
<1>5. CASE ~ Closed
  <2>1. TokenEnd = NameEnd
    BY <1>5 DEF TokenEnd
  <2>2. CASE text[NameEnd] = " "
    BY <2>1, <2>2 DEF Alphanumeric, Letters, Digits
  <2>3. CASE /\ NameEnd - 1 \in Sigil + 1 .. Stop - 1 /\ text[NameEnd - 1] \in Alphanumeric
             /\ \A q \in NameEnd .. Stop - 1 : text[q] \notin Alphanumeric
    <3>1. p # NameEnd
      <4>1. p = NameEnd => p \in NameEnd .. Stop - 1
        BY <1>2, <1>3
      <4> QED BY <2>3, <4>1
    <3>2. ASSUME p = NameEnd + 1, text[NameEnd] \in {"-", "_", "/"}, NameEnd \notin mask PROVE FALSE
      <4>1. p \notin NameEnd .. Stop - 1
        BY <2>3
      <4>a. p = NameEnd + 1 /\ Stop \in Nat /\ NameEnd \in Nat /\ NameEnd <= Stop
        <5>1. Stop \in Nat /\ NameEnd \in Nat /\ NameEnd <= Stop
          BY <1>1, <1>2
        <5> QED BY <3>2, <5>1
      <4>2. NameEnd = Stop
        BY <1>3, <4>1, <4>a
      <4>3. NameEnd \in 1 .. Len(text)
        BY <1>1, <4>a
      <4>4. text[NameEnd] \in Separators
        BY <3>2 DEF Separators
      <4>5. Continues(NameEnd)
        BY <2>3, <3>2, <4>3, <4>4 DEF Continues
      <4> QED BY <1>2, <4>2, <4>5
    <3> QED BY <2>1, <3>1, <3>2
  <2>4. NameEnd # Sigil + 1
    BY <1>1, <1>2
  <2>5. \/ text[NameEnd] = " "
        \/ /\ NameEnd - 1 \in Sigil + 1 .. Stop - 1 /\ text[NameEnd - 1] \in Alphanumeric
           /\ \A q \in NameEnd .. Stop - 1 : text[q] \notin Alphanumeric
    BY <1>1, <1>5, <2>4, NameEndFacts, Zenon
  <2> QED BY <2>2, <2>3, <2>5, Zenon
<1> QED BY <1>4, <1>5

LEMMA NothingBehindDone == pass = "done" => ~ Next
BY DEF Next, Code, CodeEnd, Link, LinkEnd, Scanners, Scanner, Delimiters, Protect, InTag, Html, HtmlEnd, Math,
       MathEnd, Plus, PlusEnd, EmphasisClose, EmphasisOpen, EmphasisEnd, Sweep, SweepEnd, Reject

\* The spans of parse_spans, those among them that annotate_range may give back included.
Kept == { s \in spans : s.kind \notin TokenKinds } \cup colors

\* The place is behind the tokens that are found.
FoundOK ==
  /\ place \in Nat /\ place >= 1
  /\ \A t \in spans : t.kind \in TokenKinds => t.to <= place /\ \A p \in t.from .. t.to - 1 : p \notin mask

TokenInv ==
  /\ phase \in {"html", "tokens", "done"} /\ pass = "done" /\ text \in Seq(Characters)
  /\ \A s \in spans : Sits(s)
  /\ Settled(Kept) /\ \A s \in Kept : Masked(s) \subseteq mask
  /\ \A c \in colors : c.kind = "HexColor"
  /\ phase = "html" => \A s \in spans : s.kind \notin TokenKinds
  /\ phase = "tokens" => FoundOK
  /\ TokensNest /\ ColorsAreWhole

\* A token is apart from a span, or in the content of formatting.
NestsIn(t, s) ==
  \/ s = t \/ Separate(t, s)
  \/ s.kind \notin TokenKinds \cup OpaqueKinds /\ s.cfrom <= t.from /\ t.to <= s.cto

LEMMA NestingIs ==
  TokensNest <=> (phase # "parse" => \A t \in spans, s \in spans : t.kind \in TokenKinds => NestsIn(t, s))
<1> DEFINE T == { t \in spans : t.kind \in TokenKinds }
<1>1. \A t, s : NestsIn(t, s) <=>
        \/ s = t \/ ~ Overlap(Extent(s), Extent(t))
        \/ s.kind \notin TokenKinds \cup OpaqueKinds /\ s.cfrom <= t.from /\ t.to <= s.cto
  <2>1. \A t, s : Separate(t, s) <=> ~ Overlap(Extent(s), Extent(t))
    BY SeparateBoth, Zenon DEF Separate
  <2> QED BY <2>1, Zenon DEF NestsIn
<1>2. TokensNest <=> (phase # "parse" => \A t \in T, s \in spans : NestsIn(t, s))
  BY <1>1, Zenon DEF TokensNest
<1>3. \A t : t \in T <=> t \in spans /\ t.kind \in TokenKinds
  OBVIOUS
<1> HIDE DEF T
<1> QED BY <1>2, <1>3, Zenon

LEMMA NestingNext ==
  (\A t \in spans', s \in spans' : t.kind \in TokenKinds => NestsIn(t, s)) => TokensNest'
BY DEF TokensNest, NestsIn, Separate, Overlap, Extent

\* A range outside of the mask is apart from a span, or in the content of formatting.
LEMMA OutsideOfMask ==
  ASSUME NEW s, Sits(s), Framed(s), s.kind \notin TokenKinds, Masked(s) \subseteq mask,
         NEW t, Sits(t), \A p \in t.from .. t.to - 1 : p \notin mask
  PROVE  NestsIn(t, s)
<1> USE DEF Places1
<1>1. /\ s.from \in Nat /\ s.to \in Nat /\ s.cfrom \in Nat /\ s.cto \in Nat /\ s.from < s.to
      /\ t.from \in Nat /\ t.to \in Nat /\ t.from < t.to /\ s.cfrom <= s.cto
  BY DEF Sits
<1>2. Separate(t, s) <=> ~ (t.from < s.to /\ s.from < t.to)
  BY DEF Separate, Overlap, Extent
<1>3. SUFFICES ASSUME t.from < s.to, s.from < t.to
               PROVE  s.kind \notin TokenKinds \cup OpaqueKinds /\ s.cfrom <= t.from /\ t.to <= s.cto
  BY <1>2 DEF NestsIn
<1>4. CASE s.kind \in OpaqueKinds
  <2>1. \A p \in s.from .. s.to - 1 : p \in mask
    BY <1>4 DEF Masked, PlacesOf
  <2>2. s.from \in t.from .. t.to - 1 \/ t.from \in s.from .. s.to - 1
    BY <1>1, <1>3
  <2>3. s.from \in s.from .. s.to - 1 /\ t.from \in t.from .. t.to - 1
    BY <1>1
  <2> QED BY <2>1, <2>2, <2>3
<1>5. CASE s.kind \notin OpaqueKinds
  <2>1. (\A p \in s.from .. s.cfrom - 1 : p \in mask) /\ \A p \in s.cto .. s.to - 1 : p \in mask
    BY <1>5 DEF Masked, Delimiting, PlacesOf
  <2>2. s.from < s.cfrom /\ s.cto < s.to
    BY <1>5 DEF Framed, Formatting
  <2>3. s.from \notin t.from .. t.to - 1 /\ s.to - 1 \notin t.from .. t.to - 1
    <3>1. s.from \in s.from .. s.cfrom - 1 /\ s.to - 1 \in s.cto .. s.to - 1
      BY <1>1, <2>2
    <3> QED BY <2>1, <3>1
  <2>4. t.from \notin s.from .. s.cfrom - 1 /\ t.to - 1 \notin s.cto .. s.to - 1
    <3>1. t.from \in t.from .. t.to - 1 /\ t.to - 1 \in t.from .. t.to - 1
      BY <1>1
    <3> QED BY <2>1, <3>1
  <2>5. s.cfrom <= t.from /\ t.to <= s.cto
    BY <1>1, <1>3, <2>3, <2>4
  <2> QED BY <1>5, <2>5
<1> QED BY <1>4, <1>5

\* A colour of parse_spans is apart from the spans of it, or in the content of an underline.
LEMMA ColorsNest ==
  ASSUME NEW S, Settled(S), NEW c \in S, c.kind = "HexColor", NEW s \in S
  PROVE  NestsIn(c, s)
<1> USE DEF NestsIn
<1>1. Claiming(c) /\ Firm(c)
  BY DEF Claiming, Firm, EmphasisKinds
<1>2. CASE Claiming(s)
  <2>1. s = c \/ Mixed(s, c) \/ Mixed(c, s) \/ Separate(c, s)
    BY <1>1, <1>2, Zenon DEF Settled
  <2>2. ~ Mixed(s, c) /\ ~ Mixed(c, s)
    BY DEF Mixed, EarlyKinds
  <2> QED BY <2>1, <2>2
<1>3. CASE IsEmphasis(s)
  BY <1>1, <1>3, Zenon DEF Settled
<1>4. CASE IsPlus(s)
  <2>1. Sits(s) /\ Sits(c) /\ Framed(s) /\ Framed(c) /\ ~ Crosses(s, c)
    BY <1>4, Zenon DEF Settled
  <2>2. /\ s.from \in Nat /\ s.to \in Nat /\ s.cfrom \in Nat /\ s.cto \in Nat /\ s.from < s.to
        /\ c.from \in Nat /\ c.to \in Nat /\ c.from < c.to /\ s.cfrom <= s.cto
    BY <2>1 DEF Sits, Places1
  <2>3. s.cfrom = s.from + 2 /\ s.cto = s.to - 2 /\ Pair(s.from) /\ Pair(s.cto)
    BY <1>4, <2>1 DEF Framed
  <2>4. text[s.from] = "+" /\ text[s.from + 1] = "+" /\ text[s.to - 2] = "+" /\ text[s.to - 1] = "+"
    <3>1. s.to - 2 + 1 = s.to - 1
      BY <2>2
    <3> QED BY <2>3, <3>1 DEF Pair, Is
  <2>5. \A p \in c.from .. c.to - 1 : text[p] # "+"
    BY <2>1 DEF Framed
  <2>6. {s.from, s.from + 1, s.to - 2, s.to - 1} \cap (c.from .. c.to - 1) = {}
    BY <2>4, <2>5
  <2>7. Separate(c, s) <=> ~ (c.from < s.to /\ s.from < c.to)
    BY DEF Separate, Overlap, Extent
  <2>8. CASE c.from < s.to /\ s.from < c.to
    <3>1. s.from \notin c.from .. c.to - 1 /\ s.from + 1 \notin c.from .. c.to - 1
      BY <2>6
    <3>2. s.to - 2 \notin c.from .. c.to - 1 /\ s.to - 1 \notin c.from .. c.to - 1
      BY <2>6
    <3>3. s.from + 2 <= c.from
      BY <2>2, <2>8, <3>1
    <3>4. c.to <= s.to - 2
      BY <2>2, <2>8, <3>2
    <3>5. s.kind \notin TokenKinds \cup OpaqueKinds
      BY <1>4 DEF IsPlus, TokenKinds, OpaqueKinds
    <3> QED BY <2>3, <3>3, <3>4, <3>5
  <2> QED BY <2>7, <2>8
<1> QED BY <1>2, <1>3, <1>4 DEF Claiming, IsEmphasis, EmphasisKinds, IsPlus

\* What the steps of annotate_range leave alone.
LEMMA SettledStays ==
  ASSUME NEW S, Settled(S), text' = text, NEW T, T \subseteq S
  PROVE  Settled(T)'
<1>1. Settled(T)
  BY DEF Settled
<1> QED BY <1>1 DEF Settled, Sits, Framed, Pair, Is, Places1

LEMMA AnnotateSettles == ParseInv /\ Annotate => TokenInv'
<1> SUFFICES ASSUME ParseInv, Annotate PROVE TokenInv'
  OBVIOUS
<1>1. /\ pass = "done" /\ pass' = pass /\ phase' = "html" /\ text' = text
      /\ mask' = UNION { Masked(s) : s \in spans }
      /\ colors' = { s \in spans : s.kind = "HexColor" } /\ spans' = spans \ colors'
  BY DEF Annotate
<1>2. Settled(spans) /\ text \in Seq(Characters)
  BY <1>1, ParseSettles DEF ParseInv, IInv, PlacesOK
<1>3. \A s \in spans : Sits(s) /\ Framed(s)
  BY <1>2 DEF Settled
<1>4. \A s \in spans : s.kind \in TokenKinds => s.kind = "HexColor"
  BY <1>3 DEF Framed, EarlyKinds, PlainKinds, EmphasisKinds, TokenKinds
<1>5. \A s \in spans' : s \in spans /\ s.kind \notin TokenKinds
  BY <1>1, <1>4
<1>6. Kept' = spans
  <2>1. \A s \in spans : s \in Kept'
    BY <1>1, <1>5 DEF Kept
  <2>2. \A s \in Kept' : s \in spans
    BY <1>1, <1>5 DEF Kept
  <2> QED BY <2>1, <2>2
<1>7. Settled(Kept)'
  BY <1>1, <1>2, <1>6, SettledStays
<1>8. \A s \in Kept' : Masked(s) \subseteq mask'
  <2>1. \A s \in spans : Masked(s) \subseteq UNION { Masked(u) : u \in spans }
    OBVIOUS
  <2> QED BY <1>1, <1>6, <2>1
<1>9. (TokensNest /\ ColorsAreWhole)'
  BY <1>5 DEF TokensNest, ColorsAreWhole, TokenKinds
<1>10. \A s \in spans' : Sits(s)'
  BY <1>1, <1>3, <1>5 DEF Sits, Places1
<1>11. \A c \in colors' : c.kind = "HexColor"
  BY <1>1
<1> QED BY <1>1, <1>2, <1>5, <1>7, <1>8, <1>9, <1>10, <1>11 DEF TokenInv, Masked, Delimiting, PlacesOf

LEMMA ProtectingKeeps == TokenInv /\ (Protecting \/ Protected) => TokenInv'
<1> SUFFICES ASSUME TokenInv, Protecting \/ Protected PROVE TokenInv'
  OBVIOUS
<1>1. /\ phase = "html" /\ phase' \in {"html", "tokens"} /\ (phase' = "tokens" => place' = 1)
      /\ mask \subseteq mask' /\ spans' = spans /\ colors' = colors /\ text' = text /\ pass' = pass
  BY DEF Protecting, Protected, Markup!InTag, Markup!Html
<1>2. Kept' = Kept
  BY <1>1 DEF Kept
<1>3. \A s \in spans : s.kind \notin TokenKinds
  BY <1>1 DEF TokenInv
<1>4. Settled(Kept)'
  BY <1>1, <1>2, SettledStays DEF TokenInv
<1>5. \A s \in Kept' : Masked(s) \subseteq mask'
  BY <1>1, <1>2, Zenon DEF TokenInv
<1>6. (TokensNest /\ ColorsAreWhole)'
  BY <1>1, <1>3 DEF TokensNest, ColorsAreWhole, TokenKinds
<1>7. \A s \in spans' : Sits(s)'
  BY <1>1 DEF TokenInv, Sits, Places1
<1>8. (phase = "tokens" => FoundOK)'
  BY <1>1, <1>3 DEF FoundOK
<1>9. /\ phase' \in {"html", "tokens", "done"} /\ pass' = "done" /\ text' \in Seq(Characters)
      /\ \A c \in colors' : c.kind = "HexColor"
      /\ phase' = "html" => \A s \in spans' : s.kind \notin TokenKinds
  BY <1>1, <1>3 DEF TokenInv
<1> QED BY <1>4, <1>5, <1>6, <1>7, <1>8, <1>9 DEF TokenInv, Masked, Delimiting, PlacesOf

\* The span of a token.
NewToken ==
  Span(IF IsColor THEN "HexColor" ELSE IF IsTag THEN "Tag" ELSE "Mention", Sigil, TokenEnd, Sigil + 1, NameEnd)

LEMMA NewTokenFacts ==
  ASSUME text \in Seq(Characters), \A s \in spans : Sits(s), FoundOK, Sigils # {}, NameEnd > Sigil + 1
  PROVE  /\ Sits(NewToken) /\ NewToken.kind \in TokenKinds
         /\ NewToken.from = Sigil /\ NewToken.to = TokenEnd
         /\ \A p \in NewToken.from .. NewToken.to - 1 : p \notin mask
         /\ \A t \in spans : t.kind \in TokenKinds => Separate(NewToken, t)
<1> DEFINE kind == IF IsColor THEN "HexColor" ELSE IF IsTag THEN "Tag" ELSE "Mention"
<1>1. Len(text) \in Nat /\ place \in Nat /\ place >= 1
  BY DEF FoundOK
<1>2. Sigil \in place .. Len(text) /\ Sigil \in Nat /\ Sigil + 1 \in Nat
  BY <1>1, SigilFacts
<1>3. /\ TokenEnd \in NameEnd .. Len(text) + 1 /\ NameEnd \in Sigil + 1 .. Len(text) + 1
      /\ \A p \in Sigil .. TokenEnd - 1 : p \notin mask
  BY <1>1, TokenUnmasked
<1>4. NewToken = Span(kind, Sigil, TokenEnd, Sigil + 1, NameEnd) /\ kind \in TokenKinds
  BY DEF NewToken, TokenKinds
<1> HIDE DEF kind
<1>5. /\ NewToken.kind \in TokenKinds /\ NewToken.from = Sigil /\ NewToken.to = TokenEnd
  BY <1>4, SpanFields
<1>6. TokenEnd \in Nat /\ NameEnd \in Nat /\ NameEnd <= TokenEnd /\ TokenEnd <= Len(text) + 1 /\ Sigil + 1 <= NameEnd
  BY <1>1, <1>2, <1>3
<1>7. 1 <= Sigil /\ Sigil <= Sigil + 1 /\ Sigil < TokenEnd
  BY <1>1, <1>2, <1>6
<1>8. Sits(NewToken)
  BY <1>1, <1>2, <1>4, <1>6, <1>7, SpanSits
<1>9. ASSUME NEW t \in spans, t.kind \in TokenKinds PROVE Separate(NewToken, t)
  <2>1. t.to <= place
    BY <1>9 DEF FoundOK
  <2>2. Separate(NewToken, t) <=> ~ (Sigil < t.to /\ t.from < TokenEnd)
    BY <1>5 DEF Separate, Overlap, Extent
  <2>3. t.to \in Nat
    BY <1>1 DEF Sits, Places1
  <2> QED BY <1>1, <1>2, <2>1, <2>2, <2>3
<1> QED BY <1>3, <1>5, <1>8, <1>9

\* Outside of the mask, tokens nest.
LEMMA FoundNest ==
  ASSUME Settled(Kept), \A s \in Kept : Masked(s) \subseteq mask, NEW s \in spans, s.kind \notin TokenKinds,
         NEW t, Sits(t), \A p \in t.from .. t.to - 1 : p \notin mask
  PROVE  NestsIn(t, s)
<1>1. s \in Kept
  BY DEF Kept
<1>2. Sits(s) /\ Framed(s) /\ Masked(s) \subseteq mask
  BY <1>1 DEF Settled
<1> QED BY <1>2, OutsideOfMask, Zenon

LEMMA TokenKeeps == TokenInv /\ Token => TokenInv'
<1> SUFFICES ASSUME TokenInv, Token PROVE TokenInv'
  OBVIOUS
<1>1. /\ phase = "tokens" /\ Sigils # {} /\ phase' = phase /\ pass' = pass /\ text' = text /\ mask' = mask
      /\ colors' = colors
  BY DEF Token
<1>2. FoundOK /\ text \in Seq(Characters) /\ \A s \in spans : Sits(s)
  BY <1>1 DEF TokenInv
<1>3. Len(text) \in Nat /\ place \in Nat /\ place >= 1
  BY <1>2 DEF FoundOK
<1>4. /\ Sigil \in Nat /\ Sigil >= place /\ NameEnd \in Nat /\ TokenEnd \in Nat /\ NameEnd >= Sigil + 1
      /\ TokenEnd >= NameEnd
  <2>1. Sigil \in place .. Len(text)
    BY <1>1, <1>3, SigilFacts
  <2>2. TokenEnd \in NameEnd .. Len(text) + 1 /\ NameEnd \in Sigil + 1 .. Len(text) + 1
    BY <1>1, <1>3, TokenUnmasked
  <2> QED BY <1>3, <2>1, <2>2
<1>5. place' \in Nat /\ place' >= place /\ place' >= 1
  BY <1>3, <1>4 DEF Token
<1>6. /\ phase' \in {"html", "tokens", "done"} /\ phase' # "html" /\ pass' = "done" /\ text' \in Seq(Characters)
      /\ \A c \in colors' : c.kind = "HexColor"
  BY <1>1 DEF TokenInv
<1>7. CASE spans' = spans
  <2>1. Kept' = Kept /\ Settled(Kept)' /\ \A s \in Kept' : Masked(s) \subseteq mask'
    <3>1. Kept' = Kept
      BY <1>1, <1>7 DEF Kept
    <3>2. Settled(Kept)'
      BY <1>1, <3>1, SettledStays DEF TokenInv
    <3> QED BY <1>1, <3>1, <3>2, Zenon DEF TokenInv
  <2>2. FoundOK'
    <3>1. \A t \in spans : t.kind \in TokenKinds => t.to <= place'
      <4> TAKE t \in spans
      <4>1. t.to \in Nat
        BY <1>2, <1>3 DEF Sits, Places1
      <4> QED BY <1>2, <1>3, <1>5, <4>1 DEF FoundOK
    <3> QED BY <1>1, <1>2, <1>5, <1>7, <3>1 DEF FoundOK
  <2>3. (TokensNest /\ ColorsAreWhole)'
    BY <1>1, <1>7 DEF TokenInv, TokensNest, ColorsAreWhole
  <2>4. \A s \in spans' : Sits(s)'
    BY <1>1, <1>2, <1>7 DEF Sits, Places1
  <2> QED BY <1>6, <2>1, <2>2, <2>3, <2>4 DEF TokenInv, Masked, Delimiting, PlacesOf
<1>8. CASE NameEnd > Sigil + 1 /\ place' = TokenEnd /\ spans' = spans \cup {NewToken}
  <2>1. /\ Sits(NewToken) /\ NewToken.kind \in TokenKinds
        /\ NewToken.from = Sigil /\ NewToken.to = TokenEnd
        /\ \A p \in NewToken.from .. NewToken.to - 1 : p \notin mask
        /\ \A t \in spans : t.kind \in TokenKinds => Separate(NewToken, t)
    BY <1>1, <1>2, <1>8, NewTokenFacts
  <2> DEFINE x == NewToken
  <2>2. x.kind = "HexColor" => IsTag
    BY SpanFields DEF NewToken, IsColor
  <2> HIDE DEF x
  <2>3. spans' = spans \cup {x} /\ x.kind \in TokenKinds /\ x.to = TokenEnd
    BY <1>8, <2>1 DEF x
  <2>4. Kept' = Kept
    BY <1>1, <2>3 DEF Kept
  <2>5. Settled(Kept)' /\ \A s \in Kept' : Masked(s) \subseteq mask'
    <3>1. Settled(Kept)'
      BY <1>1, <2>4, SettledStays DEF TokenInv
    <3> QED BY <1>1, <2>4, <3>1, Zenon DEF TokenInv
  <2>6. FoundOK'
    <3>1. \A t \in spans : t.kind \in TokenKinds => t.to <= place'
      <4> TAKE t \in spans
      <4>1. t.to \in Nat
        BY <1>2, <1>3 DEF Sits, Places1
      <4> QED BY <1>2, <1>3, <1>5, <4>1 DEF FoundOK
    <3>2. x.to <= place' /\ \A p \in x.from .. x.to - 1 : p \notin mask
      BY <1>4, <1>8, <2>1, <2>3 DEF x
    <3> QED BY <1>1, <1>2, <1>5, <2>3, <3>1, <3>2 DEF FoundOK
  <2>7. TokensNest'
    <3>1. \A s \in spans : s.kind \notin TokenKinds => NestsIn(x, s)
      BY <2>1, FoundNest, Zenon DEF TokenInv, x
    <3>2. \A s \in spans : s.kind \in TokenKinds => Separate(x, s)
      BY <2>1 DEF x
    <3>3. \A s \in spans : NestsIn(x, s)
      BY <3>1, <3>2, Zenon DEF NestsIn
    <3>4. \A t \in spans : t.kind \in TokenKinds => Separate(t, x)
      BY <3>2, SeparateBoth, Zenon
    <3>5. \A t \in spans, s \in spans : t.kind \in TokenKinds => NestsIn(t, s)
      BY <1>1, NestingIs DEF TokenInv
    <3>6. \A t \in spans', s \in spans' : t.kind \in TokenKinds => NestsIn(t, s)
      BY <2>3, <3>3, <3>4, <3>5, Zenon DEF NestsIn
    <3> QED BY <3>6, NestingNext
  <2>8. ColorsAreWhole'
    <3>1. ASSUME x.kind = "HexColor", NEW p \in 1 .. Len(text), p \notin mask, text[p] \in Alphanumeric
          PROVE  p # x.to /\ ~ (p = x.to + 1 /\ text[x.to] \in {"-", "_", "/"} /\ x.to \notin mask)
      <4>1. IsTag /\ NameEnd > Sigil + 1
        BY <1>8, <2>2, <3>1
      <4>2. p # TokenEnd /\ ~ (p = TokenEnd + 1 /\ text[TokenEnd] \in {"-", "_", "/"} /\ TokenEnd \notin mask)
        BY <1>1, <1>3, <3>1, <4>1, TagIsWhole
      <4> QED BY <2>3, <4>2
    <3>2. \A t \in spans, p \in 1 .. Len(text) :
            t.kind = "HexColor" /\ p \notin mask /\ text[p] \in Alphanumeric =>
              p # t.to /\ ~ (p = t.to + 1 /\ text[t.to] \in {"-", "_", "/"} /\ t.to \notin mask)
      BY <1>1 DEF TokenInv, ColorsAreWhole
    <3> QED BY <1>1, <2>3, <3>1, <3>2 DEF ColorsAreWhole
  <2>9. \A s \in spans' : Sits(s)'
    BY <1>1, <1>2, <2>1, <2>3 DEF x, Sits, Places1
  <2> QED BY <1>6, <2>5, <2>6, <2>7, <2>8, <2>9 DEF TokenInv, Masked, Delimiting, PlacesOf
<1> QED BY <1>7, <1>8 DEF Token, NewToken

LEMMA TokensEndKeeps == TokenInv /\ TokensEnd => TokenInv'
<1> SUFFICES ASSUME TokenInv, TokensEnd PROVE TokenInv'
  OBVIOUS
<1> DEFINE back == { s \in colors : Whole(s) /\ s.from \notin mask /\ Apart(s) }
<1>1. /\ phase = "tokens" /\ phase' = "done" /\ pass' = pass /\ text' = text /\ mask' = mask
      /\ colors' = colors /\ spans' = spans \cup back
  BY DEF TokensEnd
<1>2. /\ back \subseteq colors /\ \A c \in back : Whole(c) /\ Apart(c)
      /\ \A c \in back : c.kind = "HexColor" /\ c \in Kept
  BY DEF TokenInv, Kept
<1> HIDE DEF back
<1>3. \A c \in back : c.kind \in TokenKinds
  BY <1>2 DEF TokenKinds
<1>4. Kept' = Kept
  <2>1. \A s \in Kept : s \in Kept'
    BY <1>1 DEF Kept
  <2>2. \A s \in Kept' : s \in Kept
    BY <1>1, <1>3 DEF Kept
  <2> QED BY <2>1, <2>2
<1>5. Settled(Kept)' /\ \A s \in Kept' : Masked(s) \subseteq mask'
  <2>1. Settled(Kept)'
    BY <1>1, <1>4, SettledStays DEF TokenInv
  <2> QED BY <1>1, <1>4, <2>1, Zenon DEF TokenInv
<1>6. \A s \in spans' : Sits(s)'
  <2>1. \A s \in spans' : Sits(s)
    BY <1>1, <1>2 DEF TokenInv, Settled
  <2> QED BY <1>1, <2>1 DEF Sits, Places1
<1>7. TokensNest'
  <2>1. \A t \in spans, s \in spans : t.kind \in TokenKinds => NestsIn(t, s)
    BY <1>1, NestingIs DEF TokenInv
  <2>2. \A c \in back, s \in spans : s.kind \in TokenKinds => NestsIn(c, s) /\ NestsIn(s, c)
    <3>1. \A c \in back, s \in spans : s.kind \in TokenKinds => Separate(c, s)
      BY <1>2 DEF Apart, Separate
    <3> QED BY <3>1, SeparateBoth, Zenon DEF NestsIn
  <2>3. \A c \in back, s \in Kept : NestsIn(c, s)
    <3>1. Settled(Kept)
      BY DEF TokenInv
    <3> QED BY <1>2, <3>1, ColorsNest, Zenon
  <2>4. \A c \in back, s \in spans : NestsIn(c, s) /\ (s.kind \in TokenKinds => NestsIn(s, c))
    <3>1. \A s \in spans : s.kind \in TokenKinds \/ s \in Kept
      BY DEF Kept
    <3> QED BY <2>2, <2>3, <3>1, Zenon
  <2>5. \A t \in spans', s \in spans' : t.kind \in TokenKinds => NestsIn(t, s)
    BY <1>1, <1>2, <2>1, <2>3, <2>4, Zenon
  <2> QED BY <2>5, NestingNext
<1>8. ColorsAreWhole'
  <2>1. ASSUME NEW c \in back, NEW p \in 1 .. Len(text), text[p] \in Alphanumeric
        PROVE  p # c.to /\ ~ (p = c.to + 1 /\ text[c.to] \in {"-", "_", "/"})
    <3>1. ~ IsIn(text, c.to, Alphanumeric \cup {"-", "_", "/"})
      BY <1>2 DEF Whole
    <3>2. p # c.to
      BY <2>1, <3>1 DEF IsIn
    <3>3. c.to \in Nat /\ 1 <= c.to /\ Len(text) \in Nat
      <4>1. Sits(c) /\ text \in Seq(Characters)
        BY <1>2 DEF TokenInv, Settled
      <4> QED BY <4>1 DEF Sits, Places1
    <3>4. p = c.to + 1 => c.to \in 1 .. Len(text)
      BY <3>3
    <3> QED BY <3>1, <3>2, <3>4 DEF IsIn
  <2>2. \A t \in spans, p \in 1 .. Len(text) :
          t.kind = "HexColor" /\ p \notin mask /\ text[p] \in Alphanumeric =>
            p # t.to /\ ~ (p = t.to + 1 /\ text[t.to] \in {"-", "_", "/"} /\ t.to \notin mask)
    BY <1>1 DEF TokenInv, ColorsAreWhole
  <2> QED BY <1>1, <2>1, <2>2 DEF ColorsAreWhole
<1>9. /\ phase' = "done" /\ pass' = "done" /\ text' \in Seq(Characters) /\ \A c \in colors' : c.kind = "HexColor"
  BY <1>1 DEF TokenInv
<1> QED BY <1>5, <1>6, <1>7, <1>8, <1>9 DEF TokenInv, Masked, Delimiting, PlacesOf

\* annotate_range begins when parse_spans has returned.
PreviewInv == (phase = "parse" /\ ParseInv) \/ TokenInv

LEMMA PreviewStarts == PreviewInit => PreviewInv
BY ParseStarts DEF PreviewInit, TokenInit, PreviewInv

LEMMA TokenStays == TokenInv /\ UNCHANGED <<vars, tokenVars>> => TokenInv'
<1> SUFFICES ASSUME TokenInv, UNCHANGED <<vars, tokenVars>> PROVE TokenInv'
  OBVIOUS
<1>1. /\ text' = text /\ pass' = pass /\ spans' = spans
      /\ phase' = phase /\ place' = place /\ mask' = mask /\ colors' = colors
  BY DEF vars, tokenVars
<1>2. Kept' = Kept
  BY <1>1 DEF Kept
<1>3. Settled(Kept)'
  BY <1>1, <1>2, SettledStays DEF TokenInv
<1>4. \A s \in Kept' : Masked(s) \subseteq mask'
  BY <1>1, <1>2, Zenon DEF TokenInv
<1>5. \A s \in spans' : Sits(s)'
  BY <1>1 DEF TokenInv, Sits, Places1
<1>6. (TokensNest /\ ColorsAreWhole)'
  BY <1>1 DEF TokenInv, TokensNest, ColorsAreWhole
<1>7. (phase = "tokens" => FoundOK)'
  BY <1>1 DEF TokenInv, FoundOK
<1>8. /\ phase' \in {"html", "tokens", "done"} /\ pass' = "done" /\ text' \in Seq(Characters)
      /\ \A c \in colors' : c.kind = "HexColor"
      /\ phase' = "html" => \A s \in spans' : s.kind \notin TokenKinds
  BY <1>1 DEF TokenInv
<1> QED BY <1>3, <1>4, <1>5, <1>6, <1>7, <1>8 DEF TokenInv, Masked, Delimiting, PlacesOf

LEMMA PreviewKeeps == PreviewInv /\ [PreviewNext]_PreviewVars => PreviewInv'
<1> SUFFICES ASSUME PreviewInv, [PreviewNext]_PreviewVars PROVE PreviewInv'
  OBVIOUS
<1>1. CASE phase = "parse" /\ ParseInv
  <2>1. CASE ParseStep \/ UNCHANGED <<vars, tokenVars>>
    <3>1. [Next]_vars /\ phase' = phase
      BY <2>1 DEF ParseStep, tokenVars
    <3> QED BY <1>1, <3>1, ParseKeeps DEF PreviewInv
  <2>2. CASE Annotate
    BY <1>1, <2>2, AnnotateSettles DEF PreviewInv
  <2>3. ~ Protecting /\ ~ Protected /\ ~ Token /\ ~ TokensEnd
    BY <1>1 DEF Protecting, Protected, Token, TokensEnd, Markup!InTag, Markup!Html
  <2> QED BY <2>1, <2>2, <2>3, Zenon DEF PreviewNext, TokenNext, Build, PreviewVars
<1>2. CASE TokenInv
  <2>1. phase # "parse" /\ ~ ParseStep /\ ~ Annotate
    BY <1>2, NothingBehindDone DEF TokenInv, ParseStep, Annotate
  <2>2. CASE Protecting \/ Protected
    BY <1>2, <2>2, ProtectingKeeps DEF PreviewInv
  <2>3. CASE Token
    BY <1>2, <2>3, TokenKeeps DEF PreviewInv
  <2>4. CASE TokensEnd
    BY <1>2, <2>4, TokensEndKeeps DEF PreviewInv
  <2>5. CASE UNCHANGED <<vars, tokenVars>>
    BY <1>2, <2>5, TokenStays DEF PreviewInv
  <2> QED BY <2>1, <2>2, <2>3, <2>4, <2>5, Zenon DEF PreviewNext, TokenNext, Build, PreviewVars
<1> QED BY <1>1, <1>2 DEF PreviewInv

-----------------------------------------------------------------------------
(* What the preview shows.                                                 *)

LiteralShown(s, t) == Literal(s) \cap Stripped(t) = {} \/ Yields(s, t)

LEMMA LiteralWithin ==
  ASSUME NEW s, Sits(s)
  PROVE  Literal(s) \subseteq s.from .. s.to - 1 /\ Stripped(s) \subseteq s.from .. s.to - 1
BY DEF Sits, Places1, Literal, Stripped, Delimiting, PlacesOf

LEMMA SeparateShown ==
  ASSUME NEW s, Sits(s), NEW t, Sits(t), Separate(s, t)
  PROVE  LiteralShown(s, t)
<1>1. s.from \in Nat /\ s.to \in Nat /\ t.from \in Nat /\ t.to \in Nat
  BY DEF Sits, Places1
<1>2. ~ (s.from < t.to /\ t.from < s.to)
  BY DEF Separate, Overlap, Extent
<1>3. (s.from .. s.to - 1) \cap (t.from .. t.to - 1) = {}
  BY <1>1, <1>2
<1> QED BY <1>3, LiteralWithin DEF LiteralShown

\* No span strips its own text, but for the sigil of a colour.
LEMMA OwnShown == ASSUME NEW s, Sits(s) PROVE LiteralShown(s, s)
<1>1. s.from \in Nat /\ s.to \in Nat /\ s.cfrom \in Nat /\ s.cto \in Nat /\ s.cfrom <= s.cto
  BY DEF Sits, Places1
<1>2. CASE s.kind = "InlineCode"
  <2>1. Literal(s) = s.cfrom .. s.cto - 1 /\ Stripped(s) = (s.from .. s.cfrom - 1) \cup (s.cto .. s.to - 1)
    BY <1>2 DEF Literal, Stripped, Delimiting, PlacesOf
  <2> QED BY <1>1, <2>1 DEF LiteralShown
<1>3. CASE s.kind # "InlineCode"
  BY <1>3 DEF LiteralShown, Literal, Stripped, TokenKinds, Yields
<1> QED BY <1>2, <1>3

\* A formula that starts outside of what is reserved, and contains nothing, shows or straddles.
LEMMA MixedShown ==
  ASSUME NEW s, Sits(s), NEW t, Sits(t), Mixed(s, t), s.from \notin Reserved(t), ~ (s.from <= t.from /\ t.to <= s.to)
  PROVE  LiteralShown(s, t)
<1>1. /\ s.from \in Nat /\ s.to \in Nat /\ s.from < s.to
      /\ t.from \in Nat /\ t.to \in Nat /\ t.cfrom \in Nat /\ t.cto \in Nat
      /\ t.from <= t.cfrom /\ t.cfrom <= t.cto /\ t.cto <= t.to
  BY DEF Sits, Places1
<1>2. s.kind = "Math" /\ t.kind \in EarlyKinds
  BY DEF Mixed
<1>3. Literal(s) = s.from .. s.to - 1
  BY <1>2 DEF Literal, PlacesOf
<1>4. SUFFICES ASSUME ~ Straddles(s, t), NEW p \in s.from .. s.to - 1, p \in Stripped(t) PROVE FALSE
  BY <1>2, <1>3 DEF LiteralShown, Yields
<1>5. p \in t.from .. t.to - 1
  BY <1>4, LiteralWithin
<1>6. t.from <= s.from /\ s.to <= t.to
  BY <1>1, <1>4, <1>5 DEF Straddles, Crosses
<1>7. CASE t.kind = "Link"
  <2>1. s.from \notin t.from .. t.cfrom - 1 /\ s.from \notin t.cto .. t.to - 1
    BY DEF Reserved, Delimiting, PlacesOf
  <2>2. p \in t.from .. t.cfrom - 1 \/ p \in t.cto .. t.to - 1
    BY <1>4, <1>7 DEF Stripped, Delimiting, PlacesOf
  <2>3. t.cfrom <= s.from /\ s.from < t.cto
    BY <1>1, <1>6, <2>1
  <2>4. t.cto < s.to
    BY <1>1, <1>4, <2>2, <2>3
  <2> QED BY <1>4, <1>7, <2>3, <2>4 DEF Straddles
<1>8. CASE t.kind # "Link"
  <2>1. Inside(t) = t.from .. t.to - 1
    BY <1>2, <1>8 DEF EarlyKinds, Inside
  <2>2. s.from \notin t.from .. t.to - 1
    BY <2>1 DEF Reserved
  <2> QED BY <1>1, <1>6, <2>2
<1> QED BY <1>7, <1>8

LEMMA TokenShown ==
  ASSUME NEW s, Sits(s), NEW t, Sits(t), s.kind \in TokenKinds, NestsIn(s, t)
  PROVE  LiteralShown(s, t)
<1>1. CASE s = t \/ Separate(s, t)
  BY <1>1, OwnShown, SeparateShown
<1>2. CASE t.kind \notin TokenKinds \cup OpaqueKinds /\ t.cfrom <= s.from /\ s.to <= t.cto
  <2>1. /\ s.from \in Nat /\ s.to \in Nat
        /\ t.from \in Nat /\ t.to \in Nat /\ t.cfrom \in Nat /\ t.cto \in Nat
    BY DEF Sits, Places1
  <2>2. Stripped(t) = (t.from .. t.cfrom - 1) \cup (t.cto .. t.to - 1)
    BY <1>2 DEF Stripped, Delimiting, PlacesOf, TokenKinds, OpaqueKinds
  <2>3. (s.from .. s.to - 1) \cap Stripped(t) = {}
    BY <1>2, <2>1, <2>2
  <2> QED BY <2>3, LiteralWithin DEF LiteralShown
<1> QED BY <1>1, <1>2 DEF NestsIn

LEMMA SettledShown ==
  ASSUME NEW S, Settled(S), NEW s \in S, NEW t \in S
  PROVE  LiteralShown(s, t)
<1>1. Sits(s) /\ Sits(t) /\ Framed(s) /\ Framed(t)
  BY DEF Settled
<1>2. CASE s.kind \notin {"InlineCode", "Math"}
  <2>1. s.kind \notin {"Tag", "Mention"}
    BY <1>1 DEF Framed, EarlyKinds, PlainKinds, EmphasisKinds
  <2>2. CASE s.kind = "HexColor"
    BY <1>1, <2>2, ColorsNest, TokenShown DEF TokenKinds
  <2>3. CASE s.kind # "HexColor"
    BY <1>2, <2>1, <2>3 DEF LiteralShown, Literal, TokenKinds
  <2> QED BY <2>2, <2>3
<1>3. CASE s.kind \in {"InlineCode", "Math"}
  <2>1. Claiming(s) /\ Firm(s)
    BY <1>3 DEF Claiming, Firm, EarlyKinds, EmphasisKinds
  <2>2. CASE t.kind = "Math"
    BY <2>2 DEF LiteralShown, Stripped
  <2>3. CASE IsEmphasis(t)
    BY <1>1, <2>1, <2>3, SeparateShown DEF Settled
  <2>4. CASE IsPlus(t)
    <3>1. Inside(s) \cap {t.from, t.from + 1, t.to - 2, t.to - 1} = {}
      BY <2>4, Zenon DEF Settled
    <3>2. Inside(s) = s.from .. s.to - 1
      BY <1>3 DEF Inside
    <3>3. t.cfrom = t.from + 2 /\ t.cto = t.to - 2
      BY <1>1, <2>4 DEF Framed
    <3>4. t.from \in Nat /\ t.to \in Nat
      BY <1>1 DEF Sits, Places1
    <3>5. Stripped(t) = (t.from .. t.cfrom - 1) \cup (t.cto .. t.to - 1)
      BY <2>4 DEF IsPlus, Stripped, Delimiting, PlacesOf
    <3>6. Stripped(t) \subseteq {t.from, t.from + 1, t.to - 2, t.to - 1}
      BY <3>3, <3>4, <3>5
    <3>7. Literal(s) \subseteq s.from .. s.to - 1
      BY <1>1, LiteralWithin
    <3> QED BY <3>1, <3>2, <3>6, <3>7 DEF LiteralShown
  <2>5. CASE Claiming(t) /\ t.kind # "Math"
    <3>1. s = t \/ Mixed(s, t) \/ Mixed(t, s) \/ Separate(s, t)
      BY <2>1, <2>5, Zenon DEF Settled
    <3>2. ~ Mixed(t, s)
      BY <2>5 DEF Mixed
    <3>3. CASE Mixed(s, t)
      <4>1. s.from \notin Reserved(t) /\ ~ (s.from <= t.from /\ t.to <= s.to)
        BY <3>3, Zenon DEF Settled
      <4> QED BY <1>1, <3>3, <4>1, MixedShown
    <3> QED BY <1>1, <3>1, <3>2, <3>3, OwnShown, SeparateShown
  <2> QED BY <2>2, <2>3, <2>4, <2>5 DEF Claiming, IsEmphasis, EmphasisKinds, IsPlus
<1> QED BY <1>2, <1>3

LEMMA ParsedShows == PreviewInv => LiteralsShown
<1> SUFFICES ASSUME PreviewInv, Parsed, NEW s \in spans, NEW t \in spans PROVE LiteralShown(s, t)
  BY DEF LiteralsShown, LiteralShown
<1>1. CASE phase = "parse" /\ ParseInv
  <2>1. Settled(spans)
    BY <1>1, ParseSettles DEF Parsed
  <2> QED BY <2>1, SettledShown
<1>2. CASE TokenInv
  <2>1. Sits(s) /\ Sits(t) /\ Settled(Kept)
    BY <1>2 DEF TokenInv
  <2>2. CASE s.kind \in TokenKinds
    <3>1. NestsIn(s, t)
      BY <1>2, <2>2, NestingIs DEF TokenInv
    <3> QED BY <2>1, <2>2, <3>1, TokenShown
  <2>3. CASE s.kind \notin TokenKinds /\ t.kind \in TokenKinds
    <3>1. NestsIn(t, s)
      BY <1>2, <2>3, NestingIs DEF TokenInv
    <3>2. CASE s.kind \in {"InlineCode", "Math"}
      <4>1. Separate(t, s)
        BY <2>3, <3>1, <3>2 DEF NestsIn, OpaqueKinds
      <4> QED BY <2>1, <4>1, SeparateBoth, SeparateShown
    <3>3. CASE s.kind \notin {"InlineCode", "Math"}
      BY <2>3, <3>3 DEF LiteralShown, Literal, TokenKinds
    <3> QED BY <3>2, <3>3
  <2>4. CASE s.kind \notin TokenKinds /\ t.kind \notin TokenKinds
    <3>1. s \in Kept /\ t \in Kept
      BY <2>4 DEF Kept
    <3> QED BY <2>1, <3>1, SettledShown
  <2> QED BY <2>2, <2>3, <2>4
<1> QED BY <1>1, <1>2 DEF PreviewInv

LEMMA PreviewInvHolds == PreviewSpec => []PreviewInv
BY PreviewStarts, PreviewKeeps, PTL DEF PreviewSpec

(* Whatever the text, a tag, a mention or a colour is apart from code,     *)
(* links, comments, formulas and other tokens, and in the content of the   *)
(* formatting that it meets: its place is not masked, and a colour that is *)
(* given back was claimed by parse_spans (annotate_range).                 *)
THEOREM TokensAlwaysNest == PreviewSpec => []TokensNest
<1>1. PreviewInv => TokensNest
  BY DEF PreviewInv, TokenInv, TokensNest
<1> QED BY <1>1, PreviewInvHolds, PTL

(* Whatever the text, a colour is a whole name: the name ends where        *)
(* nothing continues it, and a colour of parse_spans is given back only if *)
(* no name goes on behind it (annotate_range).                             *)
THEOREM ColorsAreAlwaysWhole == PreviewSpec => []ColorsAreWhole
<1>1. PreviewInv => ColorsAreWhole
  BY DEF PreviewInv, TokenInv, ColorsAreWhole
<1> QED BY <1>1, PreviewInvHolds, PTL

(* Whatever the text, code, formulas and tokens appear in the preview as   *)
(* they are written, but for a formula that straddles a span               *)
(* (build_clean_preview_from_doc).                                         *)
THEOREM LiteralsAreShown == PreviewSpec => []LiteralsShown
BY ParsedShows, PreviewInvHolds, PTL

-----------------------------------------------------------------------------
(* Where spans lie in the preview, and what is left of them when it is cut. *)

(***************************************************************************)
(* position_map is a recursive function: it exists, because every finite   *)
(* part of it does.                                                        *)
(***************************************************************************)
Width(kept, p) == IF p \in kept THEN Units(text[p]) ELSE 0

Maps(kept, b, g) ==
  g = [p \in 1 .. b |-> IF p = 1 THEN 0 ELSE g[p - 1] + Width(kept, p - 1)]

LEMMA MapExists ==
  ASSUME NEW kept, NEW b \in Nat
  PROVE  \E g : Maps(kept, b, g)
<1> DEFINE S == { n \in Nat : \E g : Maps(kept, n, g) }
<1>1. 0 \in S
  <2>1. Maps(kept, 0, [p \in 1 .. 0 |-> 0])
    BY DEF Maps
  <2> QED BY <2>1
<1>2. ASSUME NEW k \in 0 .. b - 1, k \in S PROVE k + 1 \in S
  <2>1. PICK g : Maps(kept, k, g)
    BY <1>2
  <2> DEFINE W(p) == Width(kept, p)
             h == [p \in 1 .. k + 1 |-> IF p = 1 THEN 0 ELSE g[p - 1] + W(p - 1)]
  <2> HIDE DEF W
  <2>2. ASSUME NEW p \in 1 .. k PROVE h[p] = g[p]
    BY <2>1 DEF Maps, W
  <2>3. ASSUME NEW p \in 1 .. k + 1
        PROVE h[p] = IF p = 1 THEN 0 ELSE h[p - 1] + W(p - 1)
    <3>1. CASE p = 1
      BY <3>1
    <3>2. CASE p # 1
      <4>1. p - 1 \in 1 .. k
        BY <3>2
      <4>2. h[p - 1] = g[p - 1]
        BY <2>2, <4>1
      <4> QED BY <3>2, <4>2
    <3> QED BY <3>1, <3>2
  <2>4. Maps(kept, k + 1, h)
    <3>1. h = [p \in 1 .. k + 1 |-> h[p]]
      OBVIOUS
    <3> HIDE DEF h
    <3> QED BY <2>3, <3>1 DEF Maps, W
  <2> QED BY <2>4
<1>3. 0 .. b \subseteq S
  <2> HIDE DEF S
  <2> QED BY <1>1, <1>2, UpTo
<1> QED BY <1>3

LEMMA PositionsStep ==
  ASSUME NEW kept, Len(text) \in Nat
  PROVE  LET position == Positions(kept)
         IN  /\ position[1] = 0
             /\ \A p \in 1 .. Len(text) : position[p + 1] = position[p] + Width(kept, p)
<1> DEFINE g == CHOOSE h : h = [p \in 1 .. Len(text) + 1 |->
                                  IF p = 1 THEN 0
                                  ELSE h[p - 1] + (IF p - 1 \in kept THEN Units(text[p - 1]) ELSE 0)]
<1>1. \E h : Maps(kept, Len(text) + 1, h)
  <2>1. Len(text) + 1 \in Nat
    OBVIOUS
  <2> QED BY <2>1, MapExists
<1>2. Maps(kept, Len(text) + 1, g)
  BY <1>1, Zenon DEF Maps, Width
<1>3. Positions(kept) = g
  BY Zenon DEF Positions
<1> HIDE DEF g
<1>4. g[1] = 0
  BY <1>2 DEF Maps
<1>5. ASSUME NEW p \in 1 .. Len(text) PROVE g[p + 1] = g[p] + Width(kept, p)
  <2>1. p + 1 \in 1 .. Len(text) + 1 /\ p + 1 # 1 /\ p + 1 - 1 = p
    OBVIOUS
  <2> DEFINE W(q) == Width(kept, q)
  <2> HIDE DEF W
  <2>2. g = [q \in 1 .. Len(text) + 1 |-> IF q = 1 THEN 0 ELSE g[q - 1] + W(q - 1)]
    BY <1>2 DEF Maps, W
  <2>3. g[p + 1] = g[p + 1 - 1] + W(p + 1 - 1)
    BY <2>1, <2>2
  <2>4. g[p + 1] = g[p] + W(p)
    BY <2>1, <2>3, Zenon
  <2> QED BY <2>4 DEF W
<1> QED BY <1>3, <1>4, <1>5, Zenon

\* A position that is not the start is the end of a symbol that is kept.
IsAnEnd(position, kept, q) ==
  /\ position[q] \in 0 .. 5 * (q - 1)
  /\ position[q] = 0 \/ \E p \in kept : position[p + 1] = position[q]

LEMMA PositionsAreEnds ==
  ASSUME NEW kept, kept \subseteq 1 .. Len(text), Len(text) \in Nat, NEW q \in 1 .. Len(text) + 1
  PROVE  IsAnEnd(Positions(kept), kept, q)
<1> DEFINE position == Positions(kept)
           S == { n \in 0 .. Len(text) : IsAnEnd(position, kept, n + 1) }
<1>1. /\ position[1] = 0
      /\ \A p \in 1 .. Len(text) : position[p + 1] = position[p] + Width(kept, p)
  BY PositionsStep
<1> HIDE DEF position
<1>2. 0 \in S
  BY <1>1 DEF IsAnEnd
<1>3. ASSUME NEW n \in 0 .. Len(text) - 1, n \in S PROVE n + 1 \in S
  <2> DEFINE m == n + 1
  <2>1. IsAnEnd(position, kept, m) /\ m \in 1 .. Len(text)
    BY <1>3
  <2> HIDE DEF m
  <2>2. position[m + 1] = position[m] + Width(kept, m)
    BY <1>1, <2>1
  <2>3. ASSUME m \in kept PROVE IsAnEnd(position, kept, m + 1)
    <3>1. Width(kept, m) \in 0 .. 5
      BY <2>3 DEF Width, Units
    <3> DEFINE c == position[m]
               d == position[m + 1]
               w == Width(kept, m)
    <3>a. c \in 0 .. 5 * (m - 1) /\ m \in Nat /\ m >= 1 /\ w \in 0 .. 5 /\ d = c + w
      BY <2>1, <2>2, <3>1 DEF IsAnEnd
    <3> HIDE DEF c, d, w
    <3>b. d \in 0 .. 5 * (m + 1 - 1)
      BY <3>a
    <3>2. position[m + 1] \in 0 .. 5 * (m + 1 - 1)
      BY <3>b DEF d
    <3> QED BY <2>3, <3>2 DEF IsAnEnd
  <2>4. ASSUME m \notin kept PROVE IsAnEnd(position, kept, m + 1)
    <3>1. position[m + 1] = position[m]
      BY <2>1, <2>2, <2>4 DEF Width, IsAnEnd
    <3> QED BY <2>1, <3>1 DEF IsAnEnd
  <2>5. n + 1 \in 0 .. Len(text)
    OBVIOUS
  <2> QED BY <2>3, <2>4, <2>5 DEF m
<1>4. 0 .. Len(text) \subseteq S
  <2> HIDE DEF S
  <2> QED BY <1>2, <1>3, UpTo
<1>5. q - 1 \in S /\ q - 1 + 1 = q
  <2>1. q - 1 \in 0 .. Len(text) /\ q - 1 + 1 = q
    OBVIOUS
  <2> HIDE DEF S
  <2> QED BY <1>4, <2>1
<1>6. IsAnEnd(position, kept, q)
  BY <1>5
<1> QED BY <1>6 DEF position

\* The symbols end at numbers, and every span with one of them.
Shapely(clean) ==
  /\ \E b \in Nat : \A c \in clean.symbols : c[2] \in 0 .. b
  /\ \A c \in clean.spans :
       /\ c = [of |-> c.of, start |-> c.start, end |-> c.end]
       /\ c.start \in Nat /\ c.end \in Nat /\ c.start < c.end
       /\ \E x \in clean.symbols : c.end = x[2]

ShapelyPreview == \A clean \in preview : Shapely(clean)

LEMMA ParsedSits == PreviewInv /\ Parsed => text \in Seq(Characters) /\ \A s \in spans : Sits(s)
<1> SUFFICES ASSUME PreviewInv, Parsed PROVE text \in Seq(Characters) /\ \A s \in spans : Sits(s)
  OBVIOUS
<1>1. CASE phase = "parse" /\ ParseInv
  <2>1. Settled(spans)
    BY <1>1, ParseSettles DEF Parsed
  <2> QED BY <1>1, <2>1 DEF Settled, ParseInv, IInv, PlacesOK
<1>2. CASE TokenInv
  BY <1>2 DEF TokenInv
<1> QED BY <1>1, <1>2 DEF PreviewInv

LEMMA BuildIsShapely == PreviewInv /\ Build => ShapelyPreview'
<1> SUFFICES ASSUME PreviewInv, Build PROVE ShapelyPreview'
  OBVIOUS
<1> DEFINE kept     == 1 .. Len(text) \ UNION { Stripped(s) : s \in spans }
           position == Positions(kept)
           shown    == { Shown(s, position) : s \in spans }
           clean    == [symbols |-> { <<position[p], position[p + 1]>> : p \in kept },
                        spans   |-> { c \in shown : c.start < c.end }]
<1>1. Len(text) \in Nat /\ \A s \in spans : Sits(s)
  BY ParsedSits DEF Build
<1>2. preview' = {clean}
  BY Zenon DEF Build
<1>3. kept \subseteq 1 .. Len(text)
  OBVIOUS
<1> HIDE DEF kept
<1>4. ASSUME NEW q \in 1 .. Len(text) + 1
      PROVE  /\ position[q] \in 0 .. 5 * (q - 1)
             /\ position[q] = 0 \/ \E p \in kept : position[p + 1] = position[q]
  BY <1>1, <1>3, PositionsAreEnds DEF IsAnEnd
<1> HIDE DEF position
<1>5. ASSUME NEW x \in clean.symbols PROVE x[2] \in 0 .. 5 * Len(text)
  <2>1. PICK p \in kept : x = <<position[p], position[p + 1]>>
    OBVIOUS
  <2>2. p + 1 \in 1 .. Len(text) + 1 /\ p + 1 - 1 = p /\ p <= Len(text) /\ p \in Nat
    BY <1>1, <1>3
  <2>3. position[p + 1] \in 0 .. 5 * (p + 1 - 1)
    BY <1>4, <2>2
  <2>4. position[p + 1] \in 0 .. 5 * p
    BY <2>2, <2>3
  <2> QED BY <1>1, <2>1, <2>2, <2>4
<1>6. ASSUME NEW c \in clean.spans
      PROVE  /\ c = [of |-> c.of, start |-> c.start, end |-> c.end]
             /\ c.start \in Nat /\ c.end \in Nat /\ c.start < c.end
             /\ \E x \in clean.symbols : c.end = x[2]
  <2>1. PICK s \in spans : c = Shown(s, position)
    OBVIOUS
  <2>2. PICK a \in 1 .. Len(text) + 1, b \in 1 .. Len(text) + 1 :
          c = [of |-> s, start |-> position[a], end |-> position[b]]
    <3>1. s.from \in 1 .. Len(text) + 1 /\ s.to \in 1 .. Len(text) + 1
          /\ s.cfrom \in 1 .. Len(text) + 1 /\ s.cto \in 1 .. Len(text) + 1
      BY <1>1 DEF Sits, Places1
    <3> QED BY <2>1, <3>1, Zenon DEF Shown
  <2>3. position[a] \in Nat /\ position[b] \in Nat /\ c.start = position[a] /\ c.end = position[b]
    BY <1>1, <1>4, <2>2
  <2>4. c.start < c.end
    OBVIOUS
  <2>5. position[b] # 0
    BY <2>3, <2>4
  <2>6. PICK p \in kept : position[p + 1] = position[b]
    BY <1>4, <2>5
  <2>7. <<position[p], position[p + 1]>> \in clean.symbols
    OBVIOUS
  <2>8. c = [of |-> c.of, start |-> c.start, end |-> c.end]
    BY <2>2
  <2> QED BY <2>3, <2>4, <2>6, <2>7, <2>8
<1>7. Shapely(clean)
  <2>1. 5 * Len(text) \in Nat
    BY <1>1
  <2> HIDE DEF clean
  <2> QED BY <1>5, <1>6, <2>1 DEF Shapely
<1> QED BY <1>2, <1>7 DEF ShapelyPreview

LEMMA PreviewStaysShapely == PreviewInv /\ ShapelyPreview /\ [PreviewNext]_PreviewVars => ShapelyPreview'
<1> SUFFICES ASSUME PreviewInv, ShapelyPreview, [PreviewNext]_PreviewVars PROVE ShapelyPreview'
  OBVIOUS
<1>1. CASE preview' = preview
  BY <1>1 DEF ShapelyPreview
<1> QED BY <1>1, BuildIsShapely DEF PreviewNext, PreviewVars

\* What is cut fits.
LEMMA ShapelyFits ==
  ASSUME NEW clean, Shapely(clean), NEW max \in Nat
  PROVE  LET length == TruncatedLength(clean, max)
         IN  /\ length <= max
             /\ \A c \in TruncatedSpans(clean, max) :
                  /\ c.start < c.end /\ c.end <= length
                  /\ c.of.kind = "Math" => c \in clean.spans
<1> DEFINE length == TruncatedLength(clean, max)
           ends   == {0} \cup { c[2] : c \in clean.symbols }
           within == {0} \cup { c[2] : c \in { c \in clean.symbols : c[2] <= max } }
<1>1. PICK b \in Nat : \A c \in clean.symbols : c[2] \in 0 .. b
  BY DEF Shapely
<1>2. CleanLength(clean) \in ends /\ \A x \in ends : x <= CleanLength(clean)
  <2>1. ends \in SUBSET (0 .. b) /\ ends # {}
    BY <1>1
  <2> HIDE DEF ends
  <2>2. Max(ends) \in ends /\ \A x \in ends : x <= Max(ends)
    BY <2>1, MaxIsGreatest
  <2> QED BY <2>2, Zenon DEF CleanLength, ends
<1>3. length \in within /\ \A x \in within : x <= length
  <2>1. within \in SUBSET (0 .. b) /\ within # {}
    BY <1>1
  <2> HIDE DEF within
  <2>2. Max(within) \in within /\ \A x \in within : x <= Max(within)
    BY <2>1, MaxIsGreatest
  <2> QED BY <2>2, Zenon DEF TruncatedLength, within
<1>4. length \in Nat /\ length <= max
  BY <1>1, <1>3
<1> HIDE DEF length
<1>5. ASSUME NEW c \in TruncatedSpans(clean, max)
      PROVE  c.start < c.end /\ c.end <= length /\ (c.of.kind = "Math" => c \in clean.spans)
  <2>1. CASE CleanLength(clean) <= max
    <3>1. c \in clean.spans
      BY <2>1 DEF TruncatedSpans
    <3>2. PICK x \in clean.symbols : c.end = x[2]
      BY <3>1 DEF Shapely
    <3>3. x[2] \in 0 .. b /\ x[2] <= CleanLength(clean) /\ CleanLength(clean) \in Nat
      BY <1>1, <1>2
    <3>4. x[2] \in within
      BY <2>1, <3>3
    <3> QED BY <1>3, <3>1, <3>2, <3>4 DEF Shapely
  <2>2. CASE ~ (CleanLength(clean) <= max)
    <3>1. PICK d \in clean.spans : /\ c = [d EXCEPT !.end = Min({d.end, length})]
                                   /\ d.start < length /\ (d.of.kind = "Math" => d.end <= length)
      BY <2>2 DEF TruncatedSpans, length
    <3>2. /\ d = [of |-> d.of, start |-> d.start, end |-> d.end]
          /\ d.start \in Nat /\ d.end \in Nat /\ d.start < d.end
      BY DEF Shapely
    <3> DEFINE m == Min({d.end, length})
    <3>3. m \in {d.end, length} /\ m <= d.end /\ m <= length
      BY <1>4, <3>2, MinIsLeast
    <3> HIDE DEF m
    <3>4. c.of = d.of /\ c.start = d.start /\ c.end = m
      BY <3>1, <3>2 DEF m
    <3>5. ASSUME m = d.end PROVE c = d
      BY <3>1, <3>2, <3>5 DEF m
    <3>6. d.end <= length => m = d.end
      BY <1>4, <3>2, <3>3
    <3> QED BY <3>1, <3>2, <3>3, <3>4, <3>5, <3>6
  <2> QED BY <2>1, <2>2
<1> QED BY <1>4, <1>5 DEF length

(* Whatever the text, a preview fits its limit, its spans are not empty    *)
(* and lie in its text, and formulas are shown as a whole: every span ends *)
(* with a symbol that is kept, and the limit cuts between symbols          *)
(* (build_clean_preview_from_doc, truncate_preview).                       *)
THEOREM PreviewsFit == PreviewSpec => []PreviewFits
<1>1. PreviewInit => ShapelyPreview
  BY DEF PreviewInit, ShapelyPreview
<1>2. ShapelyPreview => PreviewFits
  <2> SUFFICES ASSUME ShapelyPreview, NEW clean \in preview, NEW max \in 0 .. CleanLength(clean)
               PROVE  LET length == TruncatedLength(clean, max)
                      IN  /\ length <= max
                          /\ \A c \in TruncatedSpans(clean, max) :
                               /\ c.start < c.end /\ c.end <= length
                               /\ c.of.kind = "Math" => c \in clean.spans
    BY DEF PreviewFits
  <2>1. Shapely(clean) /\ max \in Nat
    BY DEF ShapelyPreview
  <2> QED BY <2>1, ShapelyFits
<1> QED BY <1>1, <1>2, PreviewStaysShapely, PreviewInvHolds, PTL DEF PreviewSpec

-----------------------------------------------------------------------------
(* Every step moves on.                                                    *)

\* The scanners in their order.
Turn ==
  [ code |-> 1, comment |-> 2, wiki |-> 3, link |-> 4, angle |-> 5, scheme |-> 6, email |-> 7, domain |-> 8,
    subreddit |-> 9, protect |-> 10, html |-> 11, math |-> 12, plus |-> 13, hex |-> 14, emphasis |-> 15,
    strike |-> 16, highlight |-> 17, tag |-> 18, tilde |-> 19, footnote |-> 20, forward |-> 21,
    backward |-> 22, reject |-> 23, done |-> 24 ]

\* The starts (in the mirror, the ends) that a sweep has passed.
Starts == { Lo(s) : s \in swept }

\* To a later scanner, or on in the text, or on in a run of asterisks, or past a further start.
MovesOn ==
  \/ Turn[pass'] > Turn[pass]
  \/ pass' = pass /\ at' > at
  \/ UNCHANGED <<pass, at>> /\ used' > used
  \/ UNCHANGED <<pass, at, used>> /\ Starts \subseteq Starts' /\ Starts' # Starts

\* None of these goes on for ever.
Within == at \in Places1 /\ used \in 0 .. Len(text) /\ Starts \subseteq 0 .. Len(text) + 1

LEMMA TurnGrows == \A p \in DOMAIN After : Turn[After[p]] > Turn[p]
BY DEF Turn, After

LEMMA LeaveMoves ==
  ASSUME pass \in DOMAIN After, Leave
  PROVE  MovesOn
BY TurnGrows DEF Leave, MovesOn

\* What is found ends behind the place of the scan.
Behind(f) == Fits(f.span) /\ f.span.to > at

LEMMA BehindStart ==
  ASSUME IInv, NEW f, Fits(f.span), f.span.from >= at
  PROVE  Behind(f)
BY TextLength DEF Behind, Fits, Sits, Places1

LEMMA PairsBehind ==
  ASSUME IInv, NEW w, Len(w) = 2, NEW kind, kind \notin EmphasisKinds \cup {"Math"}
  PROVE  \A f \in Pairs(w, kind) : Behind(f)
<1> SUFFICES ASSUME NEW f \in Pairs(w, kind) PROVE Behind(f)
  OBVIOUS
<1>1. Fits(f.span)
  BY TextLength, PairsFit
<1>2. f.span.from \in Places(text, at, w)
  BY DEF Pairs, Found, Span
<1>3. f.span.from \in at .. Len(text)
  BY <1>2, PlacesBehind
<1> QED BY <1>1, <1>3, BehindStart, TextLength

LEMMA FoundFields ==
  ASSUME NEW p, NEW kind, NEW a, NEW b, NEW c, NEW d
  PROVE  /\ Found(p, Span(kind, a, b, c, d)).at = p /\ Found(p, Span(kind, a, b, c, d)).span.from = a
         /\ Found(p, Span(kind, a, b, c, d)).span.to = b
BY DEF Found, Span

LEMMA LateBehind ==
  ASSUME IInv
  PROVE  /\ \A f \in WikiLinks : Behind(f)
         /\ \A f \in HexColors : Behind(f)
         /\ \A f \in Highlights : Behind(f)
         /\ \A f \in UnderlineTags : Behind(f)
         /\ \A f \in TildePairs : Behind(f)
         /\ \A f \in FootnoteRefs : Behind(f)
<1>1. Len(text) \in Nat /\ at \in Places1
  BY TextLength
<1>2. ASSUME NEW f, Fits(f.span), f.span.from \in at .. Len(text) PROVE Behind(f)
  BY <1>2, BehindStart, TextLength
<1>3. ASSUME NEW f \in WikiLinks PROVE Behind(f)
  <2>1. PICK p \in Places(text, at, <<"[", "[">>) :
          \E kind, b, c, d : f = Found(p, Span(kind, p, b, c, d))
    BY Zenon DEF WikiLinks
  <2> QED BY <1>1, <1>2, <2>1, FoundFields, WikiLinksFit, PlacesBehind
<1>4. ASSUME NEW f \in HexColors PROVE Behind(f)
  <2>1. PICK p \in Places(text, at, <<"#">>) :
          \E kind, b, c, d : f = Found(p, Span(kind, p, b, c, d))
    BY Zenon DEF HexColors
  <2> QED BY <1>1, <1>2, <2>1, FoundFields, HexColorsFit, PlacesBehind
<1>5. ASSUME NEW f \in Highlights PROVE Behind(f)
  <2>1. PICK p \in Places(text, at, <<"=", "=">>) :
          \E kind, b, c, d : f = Found(p, Span(kind, p, b, c, d))
    BY Zenon DEF Highlights
  <2> QED BY <1>1, <1>2, <2>1, FoundFields, HighlightsFit, PlacesBehind
<1>6. ASSUME NEW f \in UnderlineTags PROVE Behind(f)
  <2>1. PICK p \in Places(text, at, <<"<", "u", ">">>) :
          \E kind, b, c, d : f = Found(p, Span(kind, p, b, c, d))
    BY Zenon DEF UnderlineTags
  <2> QED BY <1>1, <1>2, <2>1, FoundFields, UnderlineTagsFit, PlacesBehind
<1>7. ASSUME NEW f \in TildePairs PROVE Behind(f)
  <2>1. PICK p \in SingleTildes(at) : \E kind, b, c, d : f = Found(p, Span(kind, p, b, c, d))
    BY Zenon DEF TildePairs
  <2>2. SingleTildes(at) \subseteq at .. Len(text)
    BY PlacesBehind DEF SingleTildes
  <2> QED BY <1>1, <1>2, <2>1, <2>2, FoundFields, TildePairsFit
<1>8. ASSUME NEW f \in FootnoteRefs PROVE Behind(f)
  <2>1. PICK p \in Places(text, at, <<"[", "^">>) :
          \E kind, b, c, d : f = Found(p, Span(kind, p, b, c, d))
    BY Zenon DEF FootnoteRefs
  <2> QED BY <1>1, <1>2, <2>1, FoundFields, FootnoteRefsFit, PlacesBehind
<1> QED BY <1>3, <1>4, <1>5, <1>6, <1>7, <1>8

\* An address ends behind the place where it is found.
LEMMA AddressesBehind ==
  ASSUME IInv
  PROVE  /\ \A f \in Ahead(AngleLinks(text)) : Behind(f)
         /\ \A f \in Ahead(SchemeLinks(text)) : Behind(f)
         /\ \A f \in Ahead(EmailLinks(text)) : Behind(f)
         /\ \A f \in Ahead(DomainLinks(text)) : Behind(f)
         /\ \A f \in Ahead(SubredditLinks(text)) : Behind(f)
<1>1. Len(text) \in Nat /\ at \in 1 .. Len(text) + 1 /\ at \in Nat
  BY TextLength
<1>2. ASSUME NEW S, NEW f \in Ahead(S), Fits(f.span), f.at = f.span.from PROVE Behind(f)
  BY <1>2, BehindStart DEF Ahead
<1>3. ASSUME NEW f \in Ahead(AngleLinks(text)) PROVE Behind(f)
  <2>1. f \in AngleLinks(text) /\ f.at = f.span.from
    BY DEF Ahead, AngleLinks, Found, Span
  <2> QED BY <1>1, <1>2, <2>1, AngleLinksFit
<1>4. ASSUME NEW f \in Ahead(SchemeLinks(text)) PROVE Behind(f)
  <2>1. f \in SchemeLinks(text) /\ f.at = f.span.from
    BY DEF Ahead, SchemeLinks, Address, Found, Span
  <2> QED BY <1>1, <1>2, <2>1, SchemeLinksFit
<1>5. ASSUME NEW f \in Ahead(EmailLinks(text)) PROVE Behind(f)
  <2>1. f \in EmailLinks(text) /\ f.at >= at
    BY DEF Ahead
  <2>2. Fits(f.span)
    BY <1>1, <2>1, EmailLinksFit
  <2>3. PICK p \in Places(text, 1, <<"@">>) :
          /\ IsDomain(text, p + 1, DomainEnd(text, p))
          /\ f = Found(p, Address(LocalStart(text, p), DomainEnd(text, p)))
    BY <2>1 DEF EmailLinks
  <2>4. p \in Nat /\ p + 1 < DomainEnd(text, p)
    BY <2>3, PlacesBehind DEF IsDomain
  <2>5. f.at = p /\ f.span.to = DomainEnd(text, p)
    BY <2>3 DEF Found, Address, Span
  <2>6. f.span.to \in Nat
    BY <2>2 DEF Fits, Sits, Places1
  <2> QED BY <1>1, <2>1, <2>2, <2>4, <2>5, <2>6 DEF Behind
<1>6. ASSUME NEW f \in Ahead(DomainLinks(text)) PROVE Behind(f)
  <2> DEFINE start(p) == SkipBack(text, p, DomainCharacters)
             tld(p)   == SkipOver(text, p + 1, Alphanumeric)
             end(p)   == IF IsIn(text, tld(p), {"/", ":"}) THEN UrlEnd(text, tld(p)) ELSE tld(p)
  <2>1. f \in DomainLinks(text) /\ f.at >= at
    BY DEF Ahead
  <2>2. Fits(f.span)
    BY <1>1, <2>1, DomainLinksFit
  <2>3. PICK p \in 1 .. Len(text) : f = Found(p, Address(start(p), end(p)))
    BY <2>1 DEF DomainLinks
  <2>4. tld(p) \in p + 1 .. Len(text) + 1
    <3>1. p + 1 \in 1 .. Len(text) + 1
      BY <1>1
    <3> QED BY <1>1, <3>1, SkipOverStops, Zenon
  <2>5. UrlEnd(text, tld(p)) \in tld(p) .. Len(text) + 1
    <3>1. tld(p) \in 1 .. Len(text) + 1
      <4> HIDE DEF tld
      <4> QED BY <1>1, <2>4
    <3> QED BY <1>1, <3>1, UrlEndBounds, Zenon
  <2>6. end(p) = UrlEnd(text, tld(p)) \/ end(p) = tld(p)
    BY Zenon
  <2>7. f.at = p /\ f.span.to = end(p)
    BY <2>3 DEF Found, Address, Span
  <2> HIDE DEF tld, end
  <2> QED BY <1>1, <2>1, <2>2, <2>4, <2>5, <2>6, <2>7 DEF Behind
<1>7. ASSUME NEW f \in Ahead(SubredditLinks(text)) PROVE Behind(f)
  <2>1. f \in SubredditLinks(text)
    BY DEF Ahead
  <2>2. \E p, b : f = Found(p, Span("AutoLink", p, b, p, b))
    BY <2>1, Zenon DEF SubredditLinks, Address
  <2>3. f.at = f.span.from
    BY <2>2, FoundFields
  <2> QED BY <1>1, <1>2, <2>1, <2>3, SubredditLinksFit
<1> QED BY <1>3, <1>4, <1>5, <1>6, <1>7

LEMMA ScannerMoves ==
  ASSUME IInv, NEW p \in Finding, NEW founds, \A f \in founds : Behind(f), Scanner(p, founds)
  PROVE  MovesOn
<1>1. pass = p /\ pass \in DOMAIN After
  BY Order DEF Scanner
<1>2. CASE \E f \in founds : at' = f.span.to /\ UNCHANGED pass
  BY <1>2 DEF Behind, MovesOn
<1>3. CASE Leave
  BY <1>1, <1>3, LeaveMoves
<1> QED BY <1>2, <1>3 DEF Scanner

LEMMA ScannersMove == IInv /\ Scanners => MovesOn
<1> SUFFICES ASSUME IInv, Scanners PROVE MovesOn
  OBVIOUS
<1>1. { "comment", "wiki", "angle", "scheme", "email", "domain", "subreddit", "hex", "strike",
        "highlight", "tag", "tilde", "footnote" } \subseteq Finding
  BY DEF Finding
<1>2. Len(<<"%", "%">>) = 2 /\ Len(<<"~", "~">>) = 2
  OBVIOUS
<1>3. "Comment" \notin EmphasisKinds \cup {"Math"} /\ "Strikethrough" \notin EmphasisKinds \cup {"Math"}
  BY DEF EmphasisKinds
<1>4. /\ \A f \in Pairs(<<"%", "%">>, "Comment") : Behind(f)
      /\ \A f \in Pairs(<<"~", "~">>, "Strikethrough") : Behind(f)
  BY <1>2, <1>3, PairsBehind, Zenon
<1> QED BY <1>1, <1>4, LateBehind, AddressesBehind, ScannerMoves, Zenon DEF Scanners

LEMMA CodeMoves == IInv /\ (Code \/ CodeEnd) => MovesOn
<1> SUFFICES ASSUME IInv, Code \/ CodeEnd PROVE MovesOn
  OBVIOUS
<1>1. Len(text) \in Nat /\ at \in 1 .. Len(text) + 1 /\ at \in Nat
  BY TextLength
<1>2. CASE CodeEnd
  BY <1>2, LeaveMoves DEF CodeEnd, After
<1>3. CASE Code
  <2> DEFINE p == Min(Places(text, at, <<"tick">>))
             c == Min(CodeCloser(p))
  <2>1. p \in at .. Len(text)
    BY <1>1, <1>3, LeastPlace DEF Code
  <2>2. pass' = pass /\ (at' = Len(text) + 1 \/ (CodeCloser(p) # {} /\ at' = RunEnd(c)))
    BY <1>3 DEF Code
  <2>3. CodeCloser(p) \subseteq RunEnd(p) .. Len(text)
    BY DEF CodeCloser
  <2> HIDE DEF p
  <2>4. p \in 1 .. Len(text)
    BY <1>1, <2>1
  <2>5. RunEnd(p) \in p + 1 .. Len(text) + 1
    BY <1>1, <2>4, RunEndBounds
  <2>6. CASE at' = Len(text) + 1
    BY <1>1, <2>1, <2>2, <2>6 DEF MovesOn
  <2>7. CASE CodeCloser(p) # {} /\ at' = RunEnd(c)
    <3>1. RunEnd(p) \in Nat
      BY <2>4, <2>5
    <3>2. c \in RunEnd(p) .. Len(text)
      BY <1>1, <2>3, <2>7, <3>1, LeastBehind
    <3> HIDE DEF c
    <3>3. c \in 1 .. Len(text)
      BY <2>4, <2>5, <3>2
    <3>4. RunEnd(c) \in c + 1 .. Len(text) + 1
      BY <1>1, <3>3, RunEndBounds
    <3>5. at' > at
      BY <1>1, <2>1, <2>5, <2>7, <3>2, <3>4
    <3> QED BY <2>2, <3>5 DEF MovesOn
  <2> QED BY <2>2, <2>6, <2>7
<1> QED BY <1>2, <1>3

LEMMA LinkMoves == IInv /\ (Link \/ LinkEnd) => MovesOn
<1> SUFFICES ASSUME IInv, Link \/ LinkEnd PROVE MovesOn
  OBVIOUS
<1>1. Len(text) \in Nat /\ at \in 1 .. Len(text) + 1 /\ at \in Nat
  BY TextLength
<1>2. CASE LinkEnd
  BY <1>2, LeaveMoves DEF LinkEnd, After
<1>3. CASE Link
  <2> DEFINE p       == Min(LinkOpeners)
             label   == Closings(text, p, "[", "]")
             c       == Min(label)
             address == Closings(text, c + 1, "(", ")")
             d       == Min(address)
  <2>1. /\ pass' = pass /\ LinkOpeners # {}
        /\ \/ at' = Len(text) + 1
           \/ label # {} /\ at' = c + 1
           \/ label # {} /\ address # {} /\ at' = d + 1
    BY <1>3 DEF Link
  <2>2. p \in at .. Len(text)
    <3>1. LinkOpeners \subseteq at .. Len(text)
      BY PlacesBehind DEF LinkOpeners
    <3> QED BY <1>1, <2>1, <3>1, LeastBehind
  <2>3. label \subseteq p .. Len(text) /\ address \subseteq c + 1 .. Len(text)
    BY DEF Closings
  <2> HIDE DEF p, label, address
  <2>4. p \in Nat
    BY <1>1, <2>2
  <2>5. ASSUME label # {} PROVE c \in p .. Len(text)
    BY <1>1, <2>3, <2>4, <2>5, LeastBehind
  <2> HIDE DEF c
  <2>6. ASSUME label # {}, address # {} PROVE d \in c + 1 .. Len(text)
    <3>1. c + 1 \in Nat
      BY <2>4, <2>5, <2>6
    <3> QED BY <1>1, <2>3, <2>6, <3>1, LeastBehind
  <2> HIDE DEF d
  <2>7. at' > at
    BY <1>1, <2>1, <2>2, <2>5, <2>6
  <2> QED BY <2>1, <2>7 DEF MovesOn
<1> QED BY <1>2, <1>3

\* Comments and the like do not end where they start.
LEMMA HtmlEndsBehind ==
  ASSUME Len(text) \in Nat, NEW p \in 1 .. Len(text)
  PROVE  \A e \in HtmlEnds(p) : e > p
<1> SUFFICES ASSUME NEW e \in HtmlEnds(p) PROVE e > p
  OBVIOUS
<1>1. CASE e = p + 5 \/ e = p + 6
  BY <1>1
<1>2. ASSUME NEW d \in Delimited, NEW c \in p + Len(d[1]) .. Len(text), e = c + Len(d[2]) PROVE e > p
  <2>1. Len(d[1]) \in Nat /\ Len(d[2]) \in Nat /\ Len(d[2]) > 0
    <3>1. CASE d = << <<"<", "!", "-", "-">>, <<"-", "-", ">">> >>
      BY <3>1
    <3>2. CASE d = << <<"<", "?">>, <<"?", ">">> >>
      BY <3>2
    <3>3. CASE d = << <<"<", "!", "[", "CDATA", "[">>, <<"]", "]", ">">> >>
      BY <3>3
    <3>4. ASSUME NEW x \in Letters, d = << <<"<", "!", x>>, <<">">> >>
          PROVE  Len(d[1]) \in Nat /\ Len(d[2]) \in Nat /\ Len(d[2]) > 0
      BY <3>4
    <3> QED BY <3>1, <3>2, <3>3, <3>4, Zenon DEF Delimited
  <2> QED BY <1>2, <2>1
<1> QED BY <1>1, <1>2 DEF HtmlEnds

LEMMA HtmlMoves == IInv /\ (InTag \/ Html \/ HtmlEnd) => MovesOn
<1> SUFFICES ASSUME IInv, InTag \/ Html \/ HtmlEnd PROVE MovesOn
  OBVIOUS
<1>1. Len(text) \in Nat /\ at \in 1 .. Len(text) + 1 /\ at \in Nat
  BY TextLength
<1>2. CASE HtmlEnd
  BY <1>2, LeaveMoves DEF HtmlEnd, After
<1>3. CASE InTag
  <2> DEFINE k == Min(TagPlaces)
  <2>1. TagPlaces \subseteq at .. Len(text) /\ TagPlaces # {} /\ pass' = pass /\ at' = k + 1
    BY <1>3 DEF TagPlaces, InTag
  <2>2. k \in at .. Len(text)
    BY <1>1, <2>1, LeastBehind
  <2> HIDE DEF k
  <2> QED BY <1>1, <2>1, <2>2 DEF MovesOn
<1>4. CASE Html
  <2> DEFINE k == Min(HtmlPlaces)
             e == Min(HtmlEnds(k))
  <2>1. HtmlPlaces \subseteq at .. Len(text) /\ HtmlPlaces # {}
    BY <1>4, PlacesBehind DEF HtmlPlaces, Html
  <2>2. k \in at .. Len(text)
    BY <1>1, <2>1, LeastBehind
  <2>3. pass' = pass /\ ((HtmlEnds(k) # {} /\ at' = e) \/ at' = k + 1)
    BY <1>4 DEF Html
  <2> HIDE DEF k
  <2>4. k \in 1 .. Len(text)
    BY <1>1, <2>2
  <2>5. ASSUME HtmlEnds(k) # {} PROVE e \in Nat /\ e > k
    <3>1. HtmlEnds(k) \subseteq k .. Len(text) + 1 /\ k \in Nat /\ Len(text) + 1 \in Nat
      BY <1>1, <2>4, HtmlEndsBounds
    <3>2. e \in HtmlEnds(k) /\ e \in k .. Len(text) + 1
      BY <2>5, <3>1, LeastBehind
    <3> QED BY <1>1, <2>4, <3>2, HtmlEndsBehind
  <2> HIDE DEF e
  <2>6. at' > at
    BY <1>1, <2>2, <2>3, <2>5
  <2> QED BY <2>3, <2>6 DEF MovesOn
<1> QED BY <1>2, <1>3, <1>4

LEMMA MathMoves == IInv /\ (Math \/ MathEnd) => MovesOn
<1> SUFFICES ASSUME IInv, Math \/ MathEnd PROVE MovesOn
  OBVIOUS
<1>1. Len(text) \in Nat /\ at \in 1 .. Len(text) + 1 /\ at \in Nat
  BY TextLength
<1>2. CASE MathEnd
  BY <1>2, LeaveMoves DEF MathEnd, After
<1>3. CASE Math
  <2> DEFINE k == Min(MathPlaces)
  <2>1. MathPlaces \subseteq at .. Len(text) /\ MathPlaces # {}
    BY <1>3 DEF MathPlaces, Math
  <2>2. k \in at .. Len(text)
    BY <1>1, <2>1, LeastBehind
  <2>3. pass' = pass /\ (at' = k + 1 \/ at' = RunEnd(k))
    BY <1>3 DEF Math
  <2> HIDE DEF k
  <2>4. k \in 1 .. Len(text)
    BY <1>1, <2>2
  <2>5. RunEnd(k) \in k + 1 .. Len(text) + 1
    BY <1>1, <2>4, RunEndBounds
  <2>6. at' > at
    BY <1>1, <2>2, <2>3, <2>5
  <2> QED BY <2>3, <2>6 DEF MovesOn
<1> QED BY <1>2, <1>3

LEMMA PlusMoves == IInv /\ (Plus \/ PlusEnd) => MovesOn
<1> SUFFICES ASSUME IInv, Plus \/ PlusEnd PROVE MovesOn
  OBVIOUS
<1>1. Len(text) \in Nat /\ at \in 1 .. Len(text) + 1 /\ at \in Nat
  BY TextLength
<1>2. CASE PlusEnd
  BY <1>2, LeaveMoves DEF PlusEnd, After
<1>3. CASE Plus
  <2>1. PlusAt \in at .. Len(text)
    <3>1. PlusPlaces \subseteq at .. Len(text) /\ PlusPlaces # {}
      BY <1>3 DEF PlusPlaces, Plus
    <3> QED BY <1>1, <3>1, LeastBehind DEF PlusAt
  <2>2. RunEnd(PlusAt) \in PlusAt + 1 .. Len(text) + 1 /\ at' = RunEnd(PlusAt) /\ pass' = pass
    BY <1>3, PlusFacts
  <2> QED BY <1>1, <2>1, <2>2 DEF MovesOn
<1> QED BY <1>2, <1>3

\* A run of asterisks is left behind, or some of it is used.
LEMMA EmphasisMoves == IInv /\ (EmphasisClose \/ EmphasisOpen \/ EmphasisEnd) => MovesOn
<1> SUFFICES ASSUME IInv, EmphasisClose \/ EmphasisOpen \/ EmphasisEnd PROVE MovesOn
  OBVIOUS
<1>1. Len(text) \in Nat /\ at \in 1 .. Len(text) + 1 /\ at \in Nat
  BY TextLength
<1>2. CASE EmphasisEnd
  BY <1>2, LeaveMoves DEF EmphasisEnd, After
<1>3. CASE EmphasisOpen
  <2>1. StarRun \in at .. Len(text)
    BY <1>1, <1>3, LeastPlace DEF EmphasisOpen, StarRun, StarPlaces
  <2>2. StarEnd \in StarRun + 1 .. Len(text) + 1 /\ at' = StarEnd /\ pass' = pass
    BY <1>3, StarFacts DEF EmphasisOpen
  <2> QED BY <1>1, <2>1, <2>2 DEF MovesOn
<1>4. CASE EmphasisClose
  <2> DEFINE n == Max(Matches)
             o == stack[n]
             S == {3, StarsLeft, o.left}
             k == Min(S)
  <2>1. /\ pass = "emphasis" /\ Matches # {} /\ StarPlaces # {}
        /\ UNCHANGED <<pass, at>> /\ used' = used + k
    BY <1>4 DEF EmphasisClose
  <2>2. /\ StarRun \in 1 .. Len(text) /\ StarEnd \in StarRun + 1 .. Len(text) + 1
        /\ used \in Nat /\ used <= StarEnd - StarRun /\ Shape(stack, held, StarRun + used)
    BY <2>1, StarFacts
  <2>3. n \in 1 .. Len(stack)
    <3>1. Matches \subseteq 1 .. Len(stack)
      BY DEF Matches
    <3>2. Matches \in SUBSET (0 .. Len(stack)) /\ Len(stack) \in Nat
      BY <2>2, <3>1 DEF Shape
    <3> QED BY <2>1, <3>1, <3>2, MaxIsGreatest
  <2>4. StarsLeft \in Nat /\ StarsLeft > 0
    <3>1. StarsLeft > 0 /\ StarsLeft = StarEnd - StarRun - used
      BY <2>1 DEF StarsLeft, Matches
    <3> QED BY <2>2, <3>1
  <2> HIDE DEF n
  <2>5. o.left \in Nat /\ o.left >= 1
    <3>1. o \in Openers /\ o.left >= 1
      BY <2>2, <2>3 DEF Shape
    <3> QED BY <3>1 DEF Openers
  <2>6. k \in S
    <3>1. S \in SUBSET Nat /\ S # {}
      BY <2>4, <2>5
    <3> HIDE DEF S
    <3> QED BY <3>1, MinIsLeast
  <2>7. used' > used
    BY <2>1, <2>2, <2>4, <2>5, <2>6
  <2> QED BY <2>1, <2>7 DEF MovesOn
<1> QED BY <1>2, <1>3, <1>4

\* A sweep passes a start that it has not passed before.
LEMMA SweepMoves ==
  ASSUME IInv, SweepOK, Sweep
  PROVE  MovesOn
<1>1. /\ UNCHANGED <<text, pass, at, used, spans>> /\ swept' = swept \cup Group /\ spans \ swept # {}
      /\ pass \in {"forward", "backward"}
  BY DEF Sweep
<1>2. \A s \in spans : s.from \in Nat /\ s.to \in Nat /\ Len(text) + 1 - s.to \in Nat /\ Lo(s) \in Nat
  BY TextLength DEF IInv, SpansOK, Sits, Places1, Lo
<1>3. \A s \in swept, t \in spans \ swept : Lo(s) < Lo(t)
  <2> SUFFICES ASSUME NEW s \in swept, NEW t \in spans \ swept PROVE Lo(s) < Lo(t)
    OBVIOUS
  <2>1. s \in spans
    BY DEF IInv, SpansOK
  <2>2. CASE pass = "forward"
    BY <2>2 DEF SweepOK, Lo
  <2>3. CASE pass = "backward"
    <3>1. t.to < s.to
      BY <2>3 DEF SweepOK
    <3> QED BY <1>2, <2>1, <2>3, <3>1, TextLength DEF Lo
  <2> QED BY <1>1, <2>2, <2>3
<1>4. PICK g \in Group : TRUE
  <2> DEFINE L == { Lo(t) : t \in spans \ swept }
  <2>1. L \in SUBSET Nat /\ L # {}
    BY <1>1, <1>2
  <2>2. Min(L) \in L /\ \A x \in L : Min(L) <= x
    <3> HIDE DEF L
    <3> QED BY <2>1, MinIsLeast
  <2>3. PICK g \in spans \ swept : Lo(g) = Min(L)
    BY <2>2
  <2>4. \A t \in spans \ swept : Lo(g) <= Lo(t)
    BY <2>2, <2>3
  <2> QED BY <2>4 DEF Group
<1>5. g \in spans \ swept
  BY DEF Group
<1>6. \A s \in spans : Lo(s)' = Lo(s)
  BY <1>1 DEF Lo
<1>7. Starts' = { Lo(s) : s \in swept \cup Group }
  <2>1. swept \cup Group \subseteq spans
    BY DEF IInv, SpansOK, Group
  <2>2. Starts' = { Lo(s)' : s \in swept \cup Group }
    BY <1>1 DEF Starts
  <2> QED BY <1>6, <2>1, <2>2
<1>8. Starts \subseteq Starts'
  BY <1>7 DEF Starts
<1>9. Lo(g) \in Starts' /\ Lo(g) \notin Starts
  <2>1. Lo(g) \in Starts'
    BY <1>7
  <2>2. ASSUME Lo(g) \in Starts PROVE FALSE
    <3>1. PICK s \in swept : Lo(s) = Lo(g)
      BY <2>2 DEF Starts
    <3>2. Lo(s) < Lo(g) /\ Lo(g) \in Nat
      BY <1>2, <1>3, <1>5
    <3> QED BY <3>1, <3>2
  <2> QED BY <2>1, <2>2
<1> QED BY <1>1, <1>8, <1>9 DEF MovesOn

LEMMA RestMoves == IInv /\ (Protect \/ SweepEnd \/ Reject) => MovesOn
<1> SUFFICES ASSUME IInv, Protect \/ SweepEnd \/ Reject PROVE MovesOn
  OBVIOUS
<1>1. CASE Leave
  <2>1. pass \in {"protect", "forward", "backward", "reject"}
    BY DEF Protect, SweepEnd, Reject
  <2>2. pass \in DOMAIN After
    BY <2>1 DEF After
  <2> QED BY <1>1, <2>2, LeaveMoves
<1>2. CASE pass = "protect" /\ pass' = "hex"
  BY <1>2 DEF Turn, MovesOn
<1> QED BY <1>1, <1>2 DEF Protect, SweepEnd, Reject

\* parse_spans stands still nowhere: every step of it gets to a later scanner, or on in the
\* text, or uses up asterisks of a run, or passes a further start in a sweep.
THEOREM ParserMovesOn == IInv /\ SweepOK /\ Next => MovesOn
BY CodeMoves, LinkMoves, ScannersMove, HtmlMoves, MathMoves, PlusMoves, EmphasisMoves, SweepMoves, RestMoves
   DEF Next, Delimiters

LEMMA WithinText == IInv => Within
<1> SUFFICES ASSUME IInv PROVE Within
  OBVIOUS
<1>1. at \in Places1 /\ used \in 0 .. Len(text) /\ swept \subseteq spans /\ Len(text) \in Nat
  BY TextLength DEF IInv, PlacesOK, SpansOK
<1>2. ASSUME NEW s \in spans PROVE Lo(s) \in 0 .. Len(text) + 1
  <2>1. s.from \in Places1 /\ s.to \in Places1
    BY DEF IInv, SpansOK, Sits
  <2> QED BY <1>1, <2>1 DEF Lo, Places1
<1> QED BY <1>1, <1>2 DEF Within, Starts

\* What it moves on in is bounded by the length of the text, so parse_spans takes finitely many steps.
THEOREM ParserIsBounded == Spec => []Within
BY InvariantHolds, WithinText, PTL
=============================================================================
