---------------------------- MODULE LexerProofs ----------------------------
(***************************************************************************)
(* Proofs about Lexer, for every text.  A step of the scanner appends      *)
(* tokens that lie between the old and the new position, and leaves out    *)
(* nothing in between but blanks and surplus; both properties follow from  *)
(* that alone.                                                             *)
(***************************************************************************)
EXTENDS Lexer, Bounds, SequenceTheorems

Tokens == [kind : Kinds, start : Nat, len : Nat]
Surplus == {" ", "*", "~"}

Within(t, k) == t.start <= k /\ k < End(t)

\* The properties, of a text s whose tokens up to p are ts.
Sound(s, ts, p) ==
  /\ p \in 1 .. Len(s) + 1
  /\ ts \in Seq(Tokens)
  /\ \A n \in 1 .. Len(ts) : End(ts[n]) <= p
  /\ \A n \in 2 .. Len(ts) : End(ts[n - 1]) <= ts[n].start
  /\ \A k \in 1 .. p - 1 : s[k] \in Surplus \/ \E n \in 1 .. Len(ts) : Within(ts[n], k)

IInv ==
  /\ text \in Seq(Characters)
  /\ mode \in {"line", "inline", "done"}
  /\ Sound(text, tokens, pos)

LEMMA Implied == IInv => TypeOK /\ TokensInOrder /\ NothingLost
BY DEF IInv, Sound, TypeOK, TokensInOrder, NothingLost, Covered, Within, Tokens, Surplus

\* One more token.
LEMMA AppendOne ==
  ASSUME NEW s, Len(s) \in Nat, NEW ts, NEW p, Sound(s, ts, p),
         NEW q \in p .. Len(s) + 1, NEW t \in Tokens,
         t.start >= p, End(t) <= q,
         \A k \in p .. q - 1 : s[k] \in Surplus \/ Within(t, k)
  PROVE  Sound(s, Append(ts, t), q)
<1> DEFINE us == Append(ts, t)
<1>1. p \in 1 .. Len(s) + 1 /\ ts \in Seq(Tokens) /\ Len(ts) \in Nat
  BY DEF Sound
<1>2. /\ us \in Seq(Tokens) /\ Len(us) = Len(ts) + 1
      /\ us[Len(ts) + 1] = t /\ \A n \in 1 .. Len(ts) : us[n] = ts[n]
  BY <1>1
<1> HIDE DEF us
<1>3. \A n \in 1 .. Len(ts) : End(ts[n]) <= p /\ ts[n] \in Tokens
  BY <1>1 DEF Sound
<1>4. \A u \in Tokens : End(u) \in Nat /\ u.start \in Nat
  BY DEF Tokens, End
<1>5. \A n \in 1 .. Len(us) : End(us[n]) <= q
  <2> SUFFICES ASSUME NEW n \in 1 .. Len(us) PROVE End(us[n]) <= q
    OBVIOUS
  <2>1. CASE n = Len(ts) + 1
    BY <2>1, <1>2
  <2>2. CASE n \in 1 .. Len(ts)
    BY <2>2, <1>1, <1>2, <1>3, <1>4
  <2> QED BY <2>1, <2>2, <1>1, <1>2
<1>6. \A n \in 2 .. Len(us) : End(us[n - 1]) <= us[n].start
  <2> SUFFICES ASSUME NEW n \in 2 .. Len(us) PROVE End(us[n - 1]) <= us[n].start
    OBVIOUS
  <2>1. CASE n = Len(ts) + 1
    <3>1. n - 1 \in 1 .. Len(ts) /\ us[n - 1] = ts[n - 1]
      BY <2>1, <1>1, <1>2
    <3>2. End(ts[n - 1]) <= p /\ End(ts[n - 1]) \in Nat
      BY <3>1, <1>3, <1>4
    <3>3. us[n] = t /\ t.start >= p /\ t.start \in Nat /\ p \in Nat
      BY <2>1, <1>1, <1>2, <1>4
    <3> QED BY <3>1, <3>2, <3>3
  <2>2. CASE n \in 2 .. Len(ts)
    <3>1. us[n] = ts[n] /\ us[n - 1] = ts[n - 1]
      BY <2>2, <1>1, <1>2
    <3> QED BY <2>2, <3>1 DEF Sound
  <2> QED BY <2>1, <2>2, <1>1, <1>2
<1>7. \A k \in 1 .. q - 1 : s[k] \in Surplus \/ \E n \in 1 .. Len(us) : Within(us[n], k)
  <2> SUFFICES ASSUME NEW k \in 1 .. q - 1, s[k] \notin Surplus
               PROVE  \E n \in 1 .. Len(us) : Within(us[n], k)
    OBVIOUS
  <2>1. CASE k < p
    <3>1. PICK n \in 1 .. Len(ts) : Within(ts[n], k)
      BY <2>1, <1>1 DEF Sound
    <3> QED BY <3>1, <1>1, <1>2
  <2>2. CASE k >= p
    BY <2>2, <1>1, <1>2
  <2> QED BY <2>1, <2>2, <1>1
<1>8. q \in 1 .. Len(s) + 1
  BY <1>1
<1> QED BY <1>2, <1>5, <1>6, <1>7, <1>8 DEF Sound, us

\* Blanks that no token holds.
LEMMA MoveOn ==
  ASSUME NEW s, Len(s) \in Nat, NEW ts, NEW p, Sound(s, ts, p),
         NEW q \in p .. Len(s) + 1, \A k \in p .. q - 1 : s[k] \in Surplus
  PROVE  Sound(s, ts, q)
<1>1. p \in 1 .. Len(s) + 1 /\ ts \in Seq(Tokens)
  BY DEF Sound
<1>2. \A n \in 1 .. Len(ts) : End(ts[n]) <= q
  <2> SUFFICES ASSUME NEW n \in 1 .. Len(ts) PROVE End(ts[n]) <= q
    OBVIOUS
  <2>1. End(ts[n]) <= p
    BY DEF Sound
  <2>2. ts[n] \in Tokens
    BY <1>1
  <2>3. End(ts[n]) \in Nat
    BY <2>2 DEF End, Tokens
  <2> QED BY <2>1, <2>3, <1>1
<1>3. \A k \in 1 .. q - 1 : s[k] \in Surplus \/ \E n \in 1 .. Len(ts) : Within(ts[n], k)
  <2> SUFFICES ASSUME NEW k \in 1 .. q - 1
               PROVE  s[k] \in Surplus \/ \E n \in 1 .. Len(ts) : Within(ts[n], k)
    OBVIOUS
  <2>1. CASE k \in 1 .. p - 1
    BY <2>1 DEF Sound
  <2>2. CASE k \in p .. q - 1
    BY <2>2
  <2> QED BY <2>1, <2>2, <1>1
<1> QED BY <1>1, <1>2, <1>3 DEF Sound

LEMMA Names ==
  /\ MarkerKinds \subseteq Kinds /\ "CodeFence" \in Kinds /\ "CodeFenceLanguage" \in Kinds
  /\ "Asterisks" \in Kinds /\ "Tildes" \in Kinds /\ "Backtick" \in Kinds
  /\ "DoubleEquals" \in Kinds /\ "ColorEmojiPrefix" \in Kinds /\ "OpenBracket" \in Kinds
  /\ "DoubleOpenBracket" \in Kinds /\ "FootnoteRefOpen" \in Kinds /\ "CloseBracket" \in Kinds
  /\ "DoubleCloseBracket" \in Kinds /\ "OpenParen" \in Kinds /\ "CloseParen" \in Kinds
  /\ "TablePipe" \in Kinds /\ "HtmlUnderlineOpen" \in Kinds /\ "HtmlUnderlineClose" \in Kinds
  /\ "Text" \in Kinds /\ "Newline" \in Kinds /\ "Eof" \in Kinds
BY DEF Kinds, MarkerKinds

\* A token that covers all of the way from p to q.
LEMMA AppendAll ==
  ASSUME NEW s, Len(s) \in Nat, NEW ts, NEW p, Sound(s, ts, p),
         NEW q \in p .. Len(s) + 1, NEW kind \in Kinds
  PROVE  Sound(s, Append(ts, Token(kind, p, q)), q)
<1>1. p \in 1 .. Len(s) + 1
  BY DEF Sound
<1>2. /\ Token(kind, p, q) \in Tokens /\ Token(kind, p, q).start = p
      /\ End(Token(kind, p, q)) = q
  BY <1>1 DEF Token, Tokens, End
<1>3. \A k \in p .. q - 1 : Within(Token(kind, p, q), k)
  BY <1>1, <1>2 DEF Within
<1> QED BY <1>1, <1>2, <1>3, AppendOne

-----------------------------------------------------------------------------
(* The block markers end in the text.                                      *)

LEMMA EndsFit ==
  ASSUME text \in Seq(Characters), NEW p \in 1 .. Len(text)
  PROVE  /\ HeadingEnd(p) # None => HeadingEnd(p) \in p + 1 .. Len(text) + 1
         /\ FenceEnd(p) # None => FenceEnd(p) \in p + 1 .. Len(text) + 1
         /\ CheckboxEnd(p) # None => CheckboxEnd(p) \in p + 1 .. Len(text) + 1
         /\ BulletEnd(p) # None => BulletEnd(p) \in p + 1 .. Len(text) + 1
         /\ OrderedEnd(p) # None => OrderedEnd(p) \in p + 1 .. Len(text) + 1
         /\ RuleEnd(p) # None => RuleEnd(p) \in p .. Len(text) + 1
         /\ QuoteEnd(p) # None => QuoteEnd(p) \in p + 1 .. Len(text) + 1
         /\ FootnoteEnd(p) # None => FootnoteEnd(p) \in p + 1 .. Len(text) + 1
         /\ ImageEnd(p) # None => ImageEnd(p) \in p + 1 .. Len(text) + 1
<1>1. Len(text) \in Nat /\ p \in 1 .. Len(text) + 1 /\ p \in Nat
  OBVIOUS
<1>2. ASSUME NEW C PROVE SkipOver(text, p, C) \in p .. Len(text) + 1
  BY <1>1, SkipOverStops
<1>3. ASSUME NEW C PROVE SkipTo(text, p, C) \in p .. Len(text) + 1
  BY <1>1, SkipToStops
<1>4. HeadingEnd(p) # None => HeadingEnd(p) \in p + 1 .. Len(text) + 1
  <2> DEFINE e == SkipOver(text, p, {"#"})
  <2>1. e \in p .. Len(text) + 1
    BY <1>2
  <2>2. HeadingEnd(p) # None => HeadingEnd(p) = e + 1 /\ e \in 1 .. Len(text)
    BY IsInside DEF HeadingEnd
  <2> HIDE DEF e
  <2> QED BY <1>1, <2>1, <2>2
<1>5. FenceEnd(p) # None => FenceEnd(p) \in p + 1 .. Len(text) + 1
  <2> DEFINE e == SkipOver(text, p, {"tick"})
  <2>1. e \in p .. Len(text) + 1
    BY <1>2
  <2>2. FenceEnd(p) # None => FenceEnd(p) = e /\ (e - p) % U8 >= 3
    BY DEF FenceEnd
  <2> HIDE DEF e
  <2>3. e = p => ~ ((e - p) % U8 >= 3)
    BY <2>1, <1>1 DEF U8
  <2>4. FenceEnd(p) # None => FenceEnd(p) = e /\ e # p
    BY <2>2, <2>3
  <2> QED BY <1>1, <2>1, <2>4
<1>6. CheckboxEnd(p) # None => CheckboxEnd(p) \in p + 1 .. Len(text) + 1
  <2>1. ASSUME NEW c, Reads(text, p, <<"-", " ", "[", c, "]", " ">>) PROVE p + 6 <= Len(text) + 1
    <3>1. 6 \in 1 .. Len(<<"-", " ", "[", c, "]", " ">>)
      OBVIOUS
    <3>2. p + 6 - 1 \in 1 .. Len(text)
      BY <2>1, <3>1, ReadsInside, Zenon
    <3> QED BY <1>1, <3>2
  <2>2. CheckboxEnd(p) # None => CheckboxEnd(p) = p + 6 /\ p + 6 <= Len(text) + 1
    BY <2>1 DEF CheckboxEnd
  <2> QED BY <1>1, <2>2
<1>7. BulletEnd(p) # None => BulletEnd(p) \in p + 1 .. Len(text) + 1
  <2>1. BulletEnd(p) # None => BulletEnd(p) = p + 2 /\ p + 1 \in 1 .. Len(text)
    BY IsInside DEF BulletEnd
  <2> QED BY <1>1, <2>1
<1>8. OrderedEnd(p) # None => OrderedEnd(p) \in p + 1 .. Len(text) + 1
  <2> DEFINE e == SkipOver(text, p, {"1"})
  <2>1. e \in p .. Len(text) + 1 /\ e \in Nat
    BY <1>1, <1>2
  <2>2. Reads(text, e, <<".", " ">>) => e + 2 <= Len(text) + 1
    BY <1>1, <2>1, ReadsTwo
  <2>3. OrderedEnd(p) # None => OrderedEnd(p) = e + 2 /\ e + 2 <= Len(text) + 1
    BY <2>2 DEF OrderedEnd
  <2> HIDE DEF e
  <2> QED BY <1>1, <2>1, <2>3
<1>9. RuleEnd(p) # None => RuleEnd(p) \in p .. Len(text) + 1
  <2>1. SkipTo(text, p, {"nl"}) \in p .. Len(text) + 1
    BY <1>3
  <2>2. RuleEnd(p) # None => RuleEnd(p) = SkipTo(text, p, {"nl"})
    BY DEF RuleEnd
  <2> QED BY <2>1, <2>2
<1>10. QuoteEnd(p) # None => QuoteEnd(p) \in p + 1 .. Len(text) + 1
  <2>1. Reads(text, p, <<">", " ">>) => p + 2 <= Len(text) + 1
    BY <1>1, ReadsTwo
  <2>2. QuoteEnd(p) # None => \/ QuoteEnd(p) = p + 2 /\ p + 2 <= Len(text) + 1
                              \/ QuoteEnd(p) = p + 1
    BY <2>1 DEF QuoteEnd
  <2> QED BY <1>1, <2>2
<1>11. FootnoteEnd(p) # None => FootnoteEnd(p) \in p + 1 .. Len(text) + 1
  <2> DEFINE c == SkipTo(text, p + 2, {"]", "nl"})
  <2>1. Reads(text, p, <<"[", "^">>) => p + 2 <= Len(text) + 1
    BY <1>1, ReadsTwo
  <2>2. p + 2 <= Len(text) + 1 => c \in p + 2 .. Len(text) + 1
    BY <1>1, SkipToStops
  <2>3. c \in Nat /\ Reads(text, c, <<"]", ":">>) => c + 2 <= Len(text) + 1
    BY <1>1, ReadsTwo
  <2>4. FootnoteEnd(p) # None => Reads(text, p, <<"[", "^">>) /\ Reads(text, c, <<"]", ":">>)
    BY DEF FootnoteEnd
  <2>5. FootnoteEnd(p) # None => \/ FootnoteEnd(p) = c + 2
                                 \/ FootnoteEnd(p) = c + 3 /\ c + 2 \in 1 .. Len(text)
    BY IsInside DEF FootnoteEnd
  <2>6. FootnoteEnd(p) # None => c \in p + 2 .. Len(text) + 1
    BY <2>1, <2>2, <2>4
  <2>7. c \in p + 2 .. Len(text) + 1 => c \in Nat
    BY <1>1
  <2>8. FootnoteEnd(p) # None => c + 2 <= Len(text) + 1
    BY <2>3, <2>4, <2>6, <2>7
  <2> HIDE DEF c
  <2> QED BY <1>1, <2>5, <2>6, <2>8
<1>12. ImageEnd(p) # None => ImageEnd(p) \in p + 1 .. Len(text) + 1
  <2> DEFINE c == SkipTo(text, p + 5, {")", "nl"})
             w == <<"!", "[", "]", "(", "scheme">>
  <2>1. 5 \in 1 .. Len(w)
    OBVIOUS
  <2>2. ASSUME Reads(text, p, w) PROVE p + 5 <= Len(text) + 1
    <3>1. p + 5 - 1 \in 1 .. Len(text)
      BY <2>1, <2>2, ReadsInside, Zenon
    <3> QED BY <1>1, <3>1
  <2>3. p + 5 <= Len(text) + 1 => c \in p + 5 .. Len(text) + 1
    BY <1>1, SkipToStops
  <2>4. ImageEnd(p) # None => ImageEnd(p) = c + 1 /\ c \in 1 .. Len(text) /\ Reads(text, p, w)
    BY IsInside DEF ImageEnd
  <2>5. ImageEnd(p) # None => ImageEnd(p) = c + 1 /\ c \in 1 .. Len(text) /\ c \in p + 5 .. Len(text) + 1
    BY <2>2, <2>3, <2>4
  <2> HIDE DEF c
  <2> QED BY <1>1, <2>5
<1> QED BY <1>4, <1>5, <1>6, <1>7, <1>8, <1>9, <1>10, <1>11, <1>12

LEMMA MarkerFits ==
  ASSUME text \in Seq(Characters), NEW p \in 1 .. Len(text), MarkersAt(p) # {}
  PROVE  MarkerAt(p).end \in p .. Len(text) + 1
<1>1. MarkersAt(p) \in SUBSET Nat
  BY DEF MarkersAt
<1>2. Min(MarkersAt(p)) \in MarkersAt(p)
  BY <1>1, MinIsLeast
<1>3. PICK n \in 1 .. 9 : n = Min(MarkersAt(p)) /\ MarkerEnds(p)[n].end # None
  BY <1>2 DEF MarkersAt
<1>4. \A m \in 1 .. 9 : MarkerEnds(p)[m].end # None => MarkerEnds(p)[m].end \in p .. Len(text) + 1
  BY EndsFit DEF MarkerEnds
<1> QED BY <1>3, <1>4 DEF MarkerAt

\* What is found as a fence is the end of one.
LEMMA FenceIsFence ==
  ASSUME NEW p, MarkersAt(p) # {}, MarkerAt(p).kind = "CodeFence"
  PROVE  FenceEnd(p) # None
<1>1. MarkersAt(p) \in SUBSET Nat
  BY DEF MarkersAt
<1>2. PICK n \in MarkersAt(p) : n = Min(MarkersAt(p))
  BY <1>1, MinIsLeast
<1>3. n \in 1 .. 9 /\ MarkerEnds(p)[n].end # None /\ MarkerEnds(p)[n].kind = "CodeFence"
  BY <1>2 DEF MarkersAt, MarkerAt
<1>4. MarkerEnds(p)[1].kind # "CodeFence" /\ \A m \in 3 .. 9 : MarkerEnds(p)[m].kind # "CodeFence"
  BY DEF MarkerEnds
<1>5. n = 2
  BY <1>3, <1>4
<1> QED BY <1>3, <1>5 DEF MarkerEnds

\* A fence ends behind its start, its language ends in its line, and blanks follow.
LEMMA FenceFits ==
  ASSUME text \in Seq(Characters), NEW p \in 1 .. Len(text), FenceEnd(p) # None
  PROVE  LET f == FenceEnd(p)
             e == SkipTo(text, f, {"nl"})
         IN  /\ f \in p .. Len(text) + 1 /\ e \in f .. Len(text) + 1
             /\ LanguageEnd(f) \in f .. e
             /\ \A k \in LanguageEnd(f) .. e - 1 : text[k] = " "
<1> DEFINE f == FenceEnd(p)
           e == SkipTo(text, f, {"nl"})
           S == { m \in f .. e : \A k \in m .. e - 1 : text[k] = " " }
<1>1. f \in p + 1 .. Len(text) + 1
  BY EndsFit
<1>2. Len(text) \in Nat /\ f \in 1 .. Len(text) + 1 /\ f \in p .. Len(text) + 1
  <2> HIDE DEF f
  <2> QED BY <1>1
<1>3. e \in f .. Len(text) + 1
  BY <1>2, SkipToStops
<1>4. LanguageEnd(f) = Min(S)
  BY DEF LanguageEnd
<1> HIDE DEF f, e
<1>5. S \in SUBSET Nat /\ e \in S
  <2>1. e \in f .. e /\ \A k : k \notin e .. e - 1
    BY <1>2, <1>3
  <2>2. f \in Nat /\ f .. e \in SUBSET Nat
    BY <1>2, <1>3
  <2> QED BY <2>1, <2>2, Zenon
<1>6. Min(S) \in S
  BY <1>5, MinIsLeast
<1> QED BY <1>2, <1>3, <1>4, <1>6 DEF f, e

-----------------------------------------------------------------------------
(* Every step keeps the invariant.                                         *)

LEMMA Keeps ==
  ASSUME IInv, UNCHANGED text, mode' \in {"line", "inline", "done"}, Sound(text, tokens', pos')
  PROVE  IInv'
BY DEF IInv

LEMMA Facts ==
  ASSUME IInv
  PROVE  /\ Len(text) \in Nat /\ pos \in 1 .. Len(text) + 1 /\ Sound(text, tokens, pos)
         /\ mode \in {"line", "inline", "done"} /\ text \in Seq(Characters)
BY DEF IInv, Sound

\* The blanks in front of a line's text.
LEMMA AtStart ==
  ASSUME IInv
  PROVE  Start \in pos .. Len(text) + 1 /\ Start \in 1 .. Len(text) + 1 /\ Sound(text, tokens, Start)
<1>1. /\ Start \in pos .. Len(text) + 1
      /\ \A k \in pos .. Start - 1 : text[k] \in {" "}
  BY Facts, SkipOverStops DEF Start
<1>2. \A k \in pos .. Start - 1 : text[k] \in Surplus
  BY <1>1 DEF Surplus
<1>3. Sound(text, tokens, Start)
  BY <1>1, <1>2, Facts, MoveOn
<1> QED BY <1>1, <1>3 DEF Sound

LEMMA LineSteps == IInv /\ LineStep => IInv'
<1> SUFFICES ASSUME IInv, LineStep PROVE IInv'
  OBVIOUS
<1>a. Len(text) \in Nat /\ pos \in 1 .. Len(text) + 1
  BY Facts
<1>b. Sound(text, tokens, pos) /\ mode \in {"line", "inline", "done"}
  BY Facts
<1>c. Start \in pos .. Len(text) + 1 /\ Start \in 1 .. Len(text) + 1
  BY AtStart
<1>1. CASE TrailingSpaces
  BY <1>1, <1>b, AtStart, Keeps DEF TrailingSpaces
<1>2. CASE BlankLine
  <2>1. Start \in 1 .. Len(text)
    BY <1>2, IsInside DEF BlankLine
  <2>2. Start + 1 \in Start .. Len(text) + 1
    BY <1>a, <2>1
  <2>3. Sound(text, Append(tokens, Token("Newline", Start, Start + 1)), Start + 1)
    BY <1>a, <2>2, AtStart, AppendAll, Names
  <2> QED BY <1>2, <1>b, <2>3, Keeps DEF BlankLine
<1>3. CASE NoMarker
  BY <1>3, <1>b, AtStart, Keeps DEF NoMarker
<1>4. CASE Eof
  <2>1. pos \in pos .. Len(text) + 1
    BY <1>a
  <2>2. Sound(text, Append(tokens, Token("Eof", pos, pos)), pos)
    BY <1>a, <1>b, <2>1, AppendAll, Names
  <2> QED BY <1>4, <2>2, Keeps DEF Eof
<1>5. ASSUME NEW kind \in MarkerKinds \ {"CodeFence"}, Marker(kind) PROVE IInv'
  <2>1. Start \in 1 .. Len(text)
    <3>1. Start <= Len(text)
      BY <1>5 DEF Marker, AtText
    <3> QED BY <1>a, <1>c, <3>1
  <2>2. MarkerAt(Start).end \in Start .. Len(text) + 1
    BY <1>5, <2>1, Facts, MarkerFits DEF Marker, MayMark
  <2>3. kind \in Kinds
    BY <1>5, Names
  <2>4. Sound(text, Append(tokens, Token(kind, Start, MarkerAt(Start).end)), MarkerAt(Start).end)
    BY <1>a, <2>2, <2>3, AtStart, AppendAll
  <2> QED BY <1>5, <2>4, Keeps DEF Marker
<1>6. CASE CodeFence
  <2> DEFINE f == FenceEnd(Start)
             e == SkipTo(text, f, {"nl"})
             l == LanguageEnd(f)
             fence == Token("CodeFence", Start, f)
             language == Token("CodeFenceLanguage", f, l)
  <2>1. Start \in 1 .. Len(text)
    <3>1. Start <= Len(text)
      BY <1>6 DEF CodeFence, AtText
    <3> QED BY <1>a, <1>c, <3>1
  <2>2. f # None
    BY <1>6, FenceIsFence DEF CodeFence, MayMark
  <2>3. /\ f \in Start .. Len(text) + 1 /\ e \in f .. Len(text) + 1 /\ l \in f .. e
        /\ \A k \in l .. e - 1 : text[k] = " "
    BY <2>1, <2>2, Facts, FenceFits
  <2>4. Sound(text, Append(tokens, fence), f)
    BY <1>a, <2>3, AtStart, AppendAll, Names
  <2>a. f \in Start .. Len(text) + 1 /\ e \in f .. Len(text) + 1 /\ l \in f .. e
    BY <2>3
  <2>5. l \in f .. Len(text) + 1 /\ e \in l .. Len(text) + 1
    <3> HIDE DEF f, e, l
    <3> QED BY <1>a, <2>1, <2>a
  <2>6. \A k \in l .. e - 1 : text[k] \in Surplus
    BY <2>3 DEF Surplus
  <2>7. CASE language.len > 0
    <3>1. Sound(text, Append(Append(tokens, fence), language), l)
      BY <1>a, <2>4, <2>5, AppendAll, Names
    <3>2. Sound(text, Append(Append(tokens, fence), language), e)
      BY <1>a, <2>5, <2>6, <3>1, MoveOn
    <3>3. tokens' = tokens \o <<fence, language>>
      BY <1>6, <2>7 DEF CodeFence
    <3>4. tokens \in Seq(Tokens) /\ fence \in Tokens /\ language \in Tokens
      <4>1. tokens \in Seq(Tokens)
        BY <1>b DEF Sound
      <4>2. f \in Nat /\ Start \in Nat /\ l \in Nat /\ f - Start \in Nat /\ l - f \in Nat
        <5> HIDE DEF f, e, l
        <5> QED BY <1>a, <2>1, <2>a
      <4> HIDE DEF f, l
      <4> QED BY <4>1, <4>2, Names DEF Token, Tokens
    <3>5. tokens \o <<fence, language>> = Append(Append(tokens, fence), language)
      <4> HIDE DEF fence, language
      <4> QED BY <3>4
    <3> QED BY <1>6, <3>2, <3>3, <3>5, Keeps DEF CodeFence
  <2>8. CASE ~ (language.len > 0)
    <3>1. l = f
      <4>1. language.len = l - f
        BY DEF Token
      <4> HIDE DEF f, e, l, language
      <4> QED BY <1>a, <2>1, <2>a, <2>8, <4>1
    <3>2. Sound(text, Append(tokens, fence), e)
      BY <1>a, <2>3, <2>4, <2>6, <3>1, MoveOn
    <3>3. tokens' = tokens \o <<fence>>
      BY <1>6, <2>8 DEF CodeFence
    <3>4. tokens \in Seq(Tokens) /\ fence \in Tokens
      <4>1. tokens \in Seq(Tokens)
        BY <1>b DEF Sound
      <4>2. f \in Nat /\ Start \in Nat /\ f - Start \in Nat
        <5> HIDE DEF f
        <5> QED BY <1>a, <2>1, <2>a
      <4> HIDE DEF f, l
      <4> QED BY <4>1, <4>2, Names DEF Token, Tokens
    <3>5. tokens \o <<fence>> = Append(tokens, fence)
      <4> HIDE DEF fence
      <4> QED BY <3>4
    <3> QED BY <1>6, <3>2, <3>3, <3>5, Keeps DEF CodeFence
  <2> QED BY <2>7, <2>8
<1> QED BY <1>1, <1>2, <1>3, <1>4, <1>5, <1>6 DEF LineStep

\* A token from here to q.
LEMMA EmitStep ==
  ASSUME IInv, NEW kind \in Kinds, NEW n \in 1 .. 4, pos + n <= Len(text) + 1, Emit(kind, pos + n)
  PROVE  IInv'
<1>1. Len(text) \in Nat /\ pos \in 1 .. Len(text) + 1 /\ Sound(text, tokens, pos)
  BY Facts
<1>2. pos + n \in pos .. Len(text) + 1
  BY <1>1
<1>3. Sound(text, Append(tokens, Token(kind, pos, pos + n)), pos + n)
  BY <1>1, <1>2, AppendAll
<1> QED BY <1>3, Keeps, Facts DEF Emit

LEMMA RunStep ==
  ASSUME IInv, NEW kind \in Kinds, NEW c \in Surplus, NEW n \in Nat \ {0}, Run(c, kind, n)
  PROVE  IInv'
<1> DEFINE e == SkipOver(text, pos, {c})
           m == Min({e, pos + n})
<1>1. Len(text) \in Nat /\ pos \in 1 .. Len(text) + 1 /\ Sound(text, tokens, pos)
  BY Facts
<1>2. e \in pos .. Len(text) + 1 /\ \A k \in pos .. e - 1 : text[k] \in {c}
  BY <1>1, SkipOverStops
<1>a. e \in pos .. Len(text) + 1
  BY <1>2
<1>3. m \in pos .. e
  <2> HIDE DEF e
  <2>1. {e, pos + n} \in SUBSET Nat
    BY <1>1, <1>a
  <2>2. m \in {e, pos + n} /\ m <= e
    BY <2>1, MinIsLeast
  <2> HIDE DEF m
  <2> QED BY <1>1, <1>a, <2>2
<1>4. m \in pos .. Len(text) + 1 /\ e \in m .. Len(text) + 1
  <2> HIDE DEF e, m
  <2> QED BY <1>1, <1>a, <1>3
<1>5. \A k \in m .. e - 1 : text[k] \in Surplus
  <2>1. \A k \in m .. e - 1 : k \in pos .. e - 1
    <3> HIDE DEF e, m
    <3> QED BY <1>1, <1>a, <1>3
  <2> QED BY <1>2, <2>1
<1>6. Sound(text, Append(tokens, Token(kind, pos, m)), m)
  BY <1>1, <1>4, AppendAll
<1>7. Sound(text, Append(tokens, Token(kind, pos, m)), e)
  BY <1>1, <1>4, <1>5, <1>6, MoveOn
<1> QED BY <1>7, Keeps, Facts DEF Run

LEMMA TokenTyped ==
  ASSUME NEW kind \in Kinds, NEW a \in Nat, NEW b, b - a \in Nat
  PROVE  Token(kind, a, b) \in Tokens
BY DEF Token, Tokens

LEMMA ColorStep == IInv /\ DoubleEquals => IInv'
<1> SUFFICES ASSUME IInv, DoubleEquals PROVE IInv'
  OBVIOUS
<1> DEFINE first == Append(tokens, Token("DoubleEquals", pos, pos + 2))
           second == Token("ColorEmojiPrefix", pos + 2, pos + 3)
<1>1. Len(text) \in Nat /\ pos \in 1 .. Len(text) + 1 /\ pos \in Nat
  BY Facts
<1>2. Sound(text, tokens, pos)
  BY Facts
<1>3. pos + 2 <= Len(text) + 1
  BY <1>1, ReadsTwo DEF DoubleEquals
<1>4. pos + 2 \in pos .. Len(text) + 1
  BY <1>1, <1>3
<1>5. Sound(text, first, pos + 2)
  BY <1>1, <1>2, <1>4, AppendAll, Names
<1>6. first \in Seq(Tokens)
  BY <1>5 DEF Sound
<1>7. CASE Is(text, pos + 2, "disc")
  <2>1. pos + 2 \in 1 .. Len(text)
    BY <1>7, IsInside
  <2>2. pos + 3 \in pos + 2 .. Len(text) + 1
    BY <1>1, <2>1
  <2>3. Sound(text, Append(first, second), pos + 3)
    BY <1>1, <1>5, <2>2, AppendAll, Names
  <2>4. second \in Tokens
    <3>1. pos + 2 \in Nat /\ (pos + 3) - (pos + 2) \in Nat
      BY <1>1
    <3>2. "ColorEmojiPrefix" \in Kinds
      BY Names
    <3>3. Token("ColorEmojiPrefix", pos + 2, pos + 3) \in Tokens
      BY <3>1, <3>2, TokenTyped, Zenon
    <3> QED BY <3>3
  <2>5. first \o <<second>> = Append(first, second) /\ Len(<<second>>) = 1
    <3> HIDE DEF first, second
    <3> QED BY <1>6, <2>4
  <2>6. tokens' = first \o <<second>> /\ pos' = pos + 2 + 1
    BY <1>7, <2>5 DEF DoubleEquals
  <2>7. pos + 2 + 1 = pos + 3
    BY <1>1
  <2>8. tokens' = Append(first, second) /\ pos' = pos + 3
    BY <2>5, <2>6, <2>7
  <2> QED BY <2>3, <2>8, Keeps, Facts DEF DoubleEquals
<1>8. CASE ~ Is(text, pos + 2, "disc")
  <2>1. tokens' = first \o << >> /\ pos' = pos + 2 + Len(<< >>)
    BY <1>8 DEF DoubleEquals
  <2>2. first \o << >> = first
    <3> HIDE DEF first
    <3> QED BY <1>6
  <2>3. pos + 2 + Len(<< >>) = pos + 2
    BY <1>1
  <2>4. tokens' = first /\ pos' = pos + 2
    BY <2>1, <2>2, <2>3
  <2> QED BY <1>5, <2>4, Keeps, Facts DEF DoubleEquals
<1> QED BY <1>7, <1>8

LEMMA InlineSteps == IInv /\ InlineStep => IInv'
<1> SUFFICES ASSUME IInv, InlineStep PROVE IInv'
  OBVIOUS
<1>a. Len(text) \in Nat /\ pos \in 1 .. Len(text) + 1 /\ pos \in Nat
  BY Facts
<1>b. Sound(text, tokens, pos) /\ mode \in {"line", "inline", "done"}
  BY Facts
<1>c. ASSUME NEW c, Is(text, pos, c) PROVE pos + 1 <= Len(text) + 1
  <2>1. pos \in 1 .. Len(text)
    BY <1>c, IsInside
  <2> QED BY <1>a, <2>1
<1>d. ASSUME NEW c, NEW d, Reads(text, pos, <<c, d>>) PROVE pos + 2 <= Len(text) + 1
  BY <1>a, <1>d, ReadsTwo
<1>1. CASE EndOfText
  BY <1>1, <1>b, Keeps DEF EndOfText
<1>2. CASE EndOfLine
  <2>1. pos + 1 <= Len(text) + 1
    BY <1>2, <1>c DEF EndOfLine
  <2>2. pos + 1 \in pos .. Len(text) + 1
    BY <1>a, <2>1
  <2>3. Sound(text, Append(tokens, Token("Newline", pos, pos + 1)), pos + 1)
    BY <1>a, <1>b, <2>2, AppendAll, Names
  <2> QED BY <1>2, <2>3, Keeps DEF EndOfLine
<1>3. CASE Asterisks
  <2>1. "*" \in Surplus /\ 3 \in Nat \ {0}
    BY DEF Surplus
  <2> QED BY <1>3, <2>1, RunStep, Names DEF Asterisks
<1>4. CASE TildeRun
  <2>1. "~" \in Surplus /\ 2 \in Nat \ {0}
    BY DEF Surplus
  <2> QED BY <1>4, <2>1, RunStep, Names DEF TildeRun
<1>n. 1 \in 1 .. 4 /\ 2 \in 1 .. 4 /\ 3 \in 1 .. 4 /\ 4 \in 1 .. 4
  OBVIOUS
<1>5. CASE Single
  BY <1>5, <1>c, <1>n, EmitStep, Names DEF Single
<1>6. CASE DoubleEquals
  BY <1>6, ColorStep
<1>7. CASE Bracket
  BY <1>7, <1>c, <1>d, <1>n, EmitStep, Names DEF Bracket
<1>8. CASE UnderlineTag
  <2>1. ASSUME Reads(text, pos, <<"<", "u", ">">>) PROVE pos + 3 <= Len(text) + 1
    <3>1. 3 \in 1 .. Len(<<"<", "u", ">">>)
      OBVIOUS
    <3>2. pos + 3 - 1 \in 1 .. Len(text)
      BY <2>1, <3>1, ReadsInside, Zenon
    <3> QED BY <1>a, <3>2
  <2>2. ASSUME Reads(text, pos, <<"<", "/", "u", ">">>) PROVE pos + 4 <= Len(text) + 1
    <3>1. 4 \in 1 .. Len(<<"<", "/", "u", ">">>)
      OBVIOUS
    <3>2. pos + 4 - 1 \in 1 .. Len(text)
      BY <2>2, <3>1, ReadsInside, Zenon
    <3> QED BY <1>a, <3>2
  <2> QED BY <1>8, <1>n, <2>1, <2>2, EmitStep, Names DEF UnderlineTag
<1>9. CASE TextRun
  <2> DEFINE e == SkipTo(text, pos, Stops)
  <2>1. e \in pos .. Len(text) + 1
    BY <1>a, SkipToStops
  <2>2. Sound(text, Append(tokens, Token("Text", pos, e)), e)
    BY <1>a, <1>b, <2>1, AppendAll, Names
  <2>3. CASE e > pos
    BY <1>9, <1>b, <2>2, <2>3, Keeps DEF TextRun
  <2>4. CASE ~ (e > pos)
    <3>1. e = pos
      <4> HIDE DEF e
      <4> QED BY <1>a, <2>1, <2>4
    <3>2. tokens' = tokens /\ pos' = pos
      BY <1>9, <2>4, <3>1 DEF TextRun
    <3> QED BY <1>9, <1>b, <3>2, Keeps DEF TextRun
  <2> QED BY <2>3, <2>4
<1> QED BY <1>1, <1>2, <1>3, <1>4, <1>5, <1>6, <1>7, <1>8, <1>9 DEF InlineStep

-----------------------------------------------------------------------------
LEMMA Initial == Init => IInv
<1> SUFFICES ASSUME Init PROVE IInv
  OBVIOUS
<1>1. text \in Seq(Characters) /\ mode \in {"line", "inline", "done"}
  BY DEF Init
<1>2. Sound(text, << >>, 1)
  <2>1. 1 \in 1 .. Len(text) + 1
    BY <1>1
  <2>2. /\ << >> \in Seq(Tokens) /\ Len(<< >>) = 0
        /\ \A n : n \notin 1 .. 0 /\ n \notin 2 .. 0 /\ n \notin 1 .. 1 - 1
    OBVIOUS
  <2> QED BY <2>1, <2>2, Zenon DEF Sound
<1> QED BY <1>1, <1>2 DEF Init, IInv

LEMMA Inductive == IInv /\ [Next]_vars => IInv'
<1> SUFFICES ASSUME IInv, [Next]_vars PROVE IInv'
  OBVIOUS
<1>1. CASE LineStep
  BY <1>1, LineSteps
<1>2. CASE InlineStep
  BY <1>2, InlineSteps
<1>3. CASE UNCHANGED vars
  BY <1>3, Facts, Keeps DEF vars
<1> QED BY <1>1, <1>2, <1>3 DEF Next

LEMMA Always == Spec => []IInv
BY Initial, Inductive, PTL DEF Spec

\* The tokens have their types: no position leaves the text.
THEOREM TypesHold == Spec => []TypeOK
BY Always, Implied, PTL

\* The tokens of every text come in its order, and do not overlap.
THEOREM TokensAreInOrder == Spec => []TokensInOrder
BY Always, Implied, PTL

\* Of every text, only blanks and the surplus of long runs are in no token.
THEOREM NothingIsLost == Spec => []NothingLost
BY Always, Implied, PTL

-----------------------------------------------------------------------------
(* Every step moves on, or is stuck.                                       *)

\* The text-run arm stands at a character that no arm takes, a "=" or "<" of its own.
Stuck == mode = "inline" /\ IsIn(text, pos, {"=", "<"}) /\ IsText

\* At one place, a line's start comes before what is in the line; behind the text, the end
\* of its last line before the end of the scan.
Phase ==
  CASE mode = "line"   -> IF pos <= Len(text) THEN 0 ELSE 1
    [] mode = "inline" -> IF pos <= Len(text) THEN 1 ELSE 0
    [] OTHER           -> 2

\* How far the scan is.
Progress == 3 * pos + Phase

Bounded == Progress \in 0 .. 3 * Len(text) + 5

LEMMA PhaseBounds == Phase \in 0 .. 2
BY DEF Phase

LEMMA ProgressBounds == IInv => Bounded
BY Facts, PhaseBounds DEF Progress, Bounded

LEMMA ReadsFirst ==
  ASSUME NEW p \in Nat, NEW a, NEW b, Reads(text, p, <<a, b>>)
  PROVE  Is(text, p, a)
<1>1. 1 \in 1 .. Len(<<a, b>>) /\ p + 1 - 1 = p /\ <<a, b>>[1] = a
  OBVIOUS
<1> QED BY <1>1 DEF Reads

\* A step forward is progress, whatever becomes of the mode.
LEMMA Forward ==
  ASSUME IInv, IInv', pos' > pos
  PROVE  Progress' > Progress
<1>1. pos \in Nat /\ pos' \in Nat
  BY DEF IInv, Sound
<1>2. Phase \in 0 .. 2 /\ Phase' \in 0 .. 2
  BY DEF Phase
<1>3. Progress = 3 * pos + Phase /\ Progress' = 3 * pos' + Phase'
  BY DEF Progress
<1>4. \A p, q \in Nat, a, b \in 0 .. 2 : q > p => 3 * q + b > 3 * p + a
  OBVIOUS
<1> QED BY <1>1, <1>2, <1>3, <1>4

\* So is to leave the start of a line, at its first character or further on.
LEMMA IntoLine ==
  ASSUME IInv, IInv', UNCHANGED text, AtLine, mode' = "inline", pos' >= pos
  PROVE  Progress' > Progress
<1>1. pos \in Nat /\ pos' \in Nat
  BY DEF IInv, Sound
<1>2. CASE pos' = pos
  <2>1. Phase = 0 /\ Phase' = 1
    BY <1>2 DEF Phase, AtLine
  <2> QED BY <1>1, <1>2, <2>1 DEF Progress
<1>3. CASE pos' > pos
  BY <1>3, Forward
<1> QED BY <1>1, <1>2, <1>3

LEMMA LineMoves ==
  ASSUME IInv, IInv', LineStep
  PROVE  ~ Stuck /\ Progress' > Progress
<1>a. Len(text) \in Nat /\ pos \in 1 .. Len(text) + 1 /\ text \in Seq(Characters)
  BY Facts
<1>b. Start \in pos .. Len(text) + 1 /\ Start \in 1 .. Len(text) + 1
  BY AtStart
<1>c. Start \in Nat /\ Start >= pos /\ (AtText => Start \in 1 .. Len(text))
  BY <1>a, <1>b DEF AtText
<1>1. ~ Stuck
  BY DEF LineStep, TrailingSpaces, BlankLine, CodeFence, NoMarker, Eof, Marker, AtText, AtLine, Stuck
<1>2. ASSUME TrailingSpaces PROVE Progress' > Progress
  BY <1>2, <1>a, <1>b, Forward DEF TrailingSpaces, AtLine
<1>3. ASSUME BlankLine PROVE Progress' > Progress
  <2>1. pos' > pos
    BY <1>3, <1>a, <1>c DEF BlankLine
  <2> QED BY <2>1, Forward
<1>4. ASSUME CodeFence PROVE Progress' > Progress
  <2> DEFINE f == FenceEnd(Start)
             e == SkipTo(text, f, {"nl"})
  <2>1. MarkersAt(Start) # {} /\ MarkerAt(Start).kind = "CodeFence" /\ Start \in 1 .. Len(text)
    BY <1>4, <1>c DEF CodeFence, MayMark
  <2>2. FenceEnd(Start) # None
    BY <2>1, FenceIsFence
  <2>3. f \in Start .. Len(text) + 1 /\ e \in f .. Len(text) + 1
    BY <1>a, <2>1, <2>2, FenceFits
  <2>4. pos' = e /\ mode' = "inline" /\ AtLine /\ UNCHANGED text
    BY <1>4 DEF CodeFence, AtText
  <2> HIDE DEF f, e
  <2>5. pos' >= pos
    BY <1>a, <1>c, <2>3, <2>4
  <2> QED BY <2>4, <2>5, IntoLine
<1>5. ASSUME NoMarker PROVE Progress' > Progress
  BY <1>5, <1>c, IntoLine DEF NoMarker, AtText
<1>6. ASSUME Eof PROVE Progress' > Progress
  <2>1. Phase = 1 /\ Phase' = 2 /\ pos' = pos
    BY <1>6, <1>a DEF Eof, Phase
  <2> QED BY <1>a, <2>1 DEF Progress
<1>7. ASSUME NEW kind \in MarkerKinds, Marker(kind) PROVE Progress' > Progress
  <2>1. MarkersAt(Start) # {} /\ Start \in 1 .. Len(text)
    BY <1>7, <1>c DEF Marker, MayMark
  <2>2. MarkerAt(Start).end \in Start .. Len(text) + 1
    BY <1>a, <2>1, MarkerFits
  <2>3. pos' = MarkerAt(Start).end /\ mode' = "inline" /\ AtLine /\ UNCHANGED text
    BY <1>7 DEF Marker, AtText
  <2>4. pos' >= pos
    BY <1>a, <1>c, <2>2, <2>3
  <2> QED BY <2>3, <2>4, IntoLine
<1> QED BY <1>1, <1>2, <1>3, <1>4, <1>5, <1>6, <1>7 DEF LineStep

\* A run of a character takes at least the one it starts with.
LEMMA RunMoves ==
  ASSUME IInv, NEW kind, NEW c, c \notin {"=", "<"}, NEW n, Run(c, kind, n)
  PROVE  ~ Stuck /\ pos' > pos
<1> DEFINE e == SkipOver(text, pos, {c})
<1>1. Len(text) \in Nat /\ pos \in 1 .. Len(text) + 1 /\ text[pos] = c /\ pos \in 1 .. Len(text)
  BY Facts DEF Run, Is
<1>2. e \in pos .. Len(text) + 1 /\ (e <= Len(text) => text[e] \notin {c})
  BY <1>1, SkipOverStops
<1>3. pos' = e
  BY DEF Run
<1> HIDE DEF e
<1>4. e # pos
  BY <1>1, <1>2
<1>5. ~ Stuck
  BY <1>1 DEF Stuck, IsIn
<1> QED BY <1>1, <1>2, <1>3, <1>4, <1>5

LEMMA InlineMoves ==
  ASSUME IInv, IInv', InlineStep
  PROVE  IF Stuck THEN UNCHANGED vars ELSE Progress' > Progress
<1>a. Len(text) \in Nat /\ pos \in 1 .. Len(text) + 1 /\ pos \in Nat
  BY Facts
<1>b. ASSUME ~ Stuck, pos' > pos PROVE ~ Stuck /\ Progress' > Progress
  BY <1>b, Forward
<1>c. ASSUME NEW c, Is(text, pos, c), c \notin {"=", "<"} PROVE ~ Stuck
  BY <1>c DEF Stuck, IsIn, Is
<1>d. ASSUME NEW kind, NEW n \in 1 .. 4, Emit(kind, pos + n) PROVE pos' > pos
  BY <1>a, <1>d DEF Emit
<1>n. 1 \in 1 .. 4 /\ 2 \in 1 .. 4 /\ 3 \in 1 .. 4 /\ 4 \in 1 .. 4
  OBVIOUS
<1>1. CASE EndOfText
  <2>1. Phase = 0 /\ Phase' = 1 /\ pos' = pos
    BY <1>1, <1>a DEF EndOfText, Phase
  <2>2. ~ Stuck
    BY <1>1, <1>a DEF EndOfText, Stuck, IsIn
  <2> QED BY <1>a, <2>1, <2>2 DEF Progress
<1>2. CASE EndOfLine
  <2>1. pos' > pos /\ Is(text, pos, "nl")
    BY <1>2, <1>a DEF EndOfLine
  <2> QED BY <2>1, <1>b, <1>c
<1>3. CASE Asterisks
  BY <1>3, <1>b, RunMoves DEF Asterisks
<1>4. CASE TildeRun
  BY <1>4, <1>b, RunMoves DEF TildeRun
<1>5. CASE Single
  <2>1. pos' > pos
    BY <1>5, <1>d, <1>n DEF Single
  <2>2. ~ Stuck
    BY <1>5, <1>c DEF Single
  <2> QED BY <2>1, <2>2, <1>b
<1>6. CASE DoubleEquals
  <2>1. ~ Stuck
    BY <1>6 DEF DoubleEquals, Stuck, IsText
  <2>2. PICK color : /\ color = IF Is(text, pos + 2, "disc") THEN <<Token("ColorEmojiPrefix", pos + 2, pos + 3)>>
                                 ELSE <<>>
                     /\ pos' = pos + 2 + Len(color)
    BY <1>6 DEF DoubleEquals
  <2>3. Len(color) \in Nat
    BY <2>2
  <2>4. pos' > pos
    BY <1>a, <2>2, <2>3
  <2> QED BY <2>1, <2>4, <1>b
<1>7. CASE Bracket
  <2>1. pos' > pos
    BY <1>7, <1>d, <1>n DEF Bracket
  <2>2. Is(text, pos, "[") \/ Is(text, pos, "]")
    BY <1>7, <1>a, ReadsFirst DEF Bracket
  <2>3. ~ Stuck
    BY <2>2, <1>c
  <2> QED BY <2>1, <2>3, <1>b
<1>8. CASE UnderlineTag
  <2>1. pos' > pos
    BY <1>8, <1>d, <1>n DEF UnderlineTag
  <2>2. ~ Stuck
    BY <1>8 DEF UnderlineTag, Stuck, IsText
  <2> QED BY <2>1, <2>2, <1>b
<1>9. CASE TextRun
  <2> DEFINE e == SkipTo(text, pos, Stops)
  <2>1. e \in pos .. Len(text) + 1 /\ \A k \in pos .. e - 1 : text[k] \notin Stops
    BY <1>a, SkipToStops
  <2>2. CASE e > pos
    <3>1. text[pos] \notin Stops
      <4> HIDE DEF e
      <4> QED BY <1>a, <2>1, <2>2
    <3>2. ~ Stuck
      BY <3>1 DEF Stuck, IsIn, Stops
    <3>3. pos' > pos
      BY <1>9, <2>2 DEF TextRun
    <3> QED BY <3>2, <3>3, <1>b
  <2>3. CASE ~ (e > pos)
    <3>1. e = pos
      <4> HIDE DEF e
      <4> QED BY <1>a, <2>1, <2>3
    <3>2. UNCHANGED vars
      BY <1>9, <2>3, <3>1 DEF TextRun, vars
    <3>3. pos \in 1 .. Len(text) /\ text[pos] \in Stops
      <4>1. pos \in 1 .. Len(text)
        BY <1>9, <1>a DEF TextRun
      <4>2. e <= Len(text) => text[e] \in Stops
        BY <1>a, SkipToStops
      <4> HIDE DEF e
      <4> QED BY <3>1, <4>1, <4>2
    <3>4. Stuck
      BY <1>9, <3>3 DEF TextRun, IsText, IsIn, Stuck
    <3> QED BY <3>2, <3>4
  <2> QED BY <2>2, <2>3
<1> QED BY <1>1, <1>2, <1>3, <1>4, <1>5, <1>6, <1>7, <1>8, <1>9 DEF InlineStep

\* tokenize stands still nowhere but at a "=" or "<" that no arm takes, and there for good:
\* a step from such a place changes nothing, and every other one moves on.
THEOREM ScanMovesOn == IInv /\ Next => IF Stuck THEN UNCHANGED vars ELSE Progress' > Progress
<1> SUFFICES ASSUME IInv, Next PROVE IF Stuck THEN UNCHANGED vars ELSE Progress' > Progress
  OBVIOUS
<1>1. IInv'
  BY Inductive
<1> QED BY <1>1, LineMoves, InlineMoves DEF Next

\* The way it may move is no longer than the text, three times over.
THEOREM ScanIsBounded == Spec => []Bounded
BY Always, ProgressBounds, PTL
=============================================================================
