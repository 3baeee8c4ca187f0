------------------------------- MODULE Inline -------------------------------
(***************************************************************************)
(* The inline parser of src/inline.rs: parse_spans runs one scanner after  *)
(* the other over a text.  A scanner that finds a span claims its range,   *)
(* unless it overlaps a claim of an earlier one.  Formulas, underlines     *)
(* ("++") and emphasis match their delimiters in ways of their own.        *)
(*                                                                         *)
(* A scanner takes one step per span, or per delimiter.                    *)
(***************************************************************************)
EXTENDS Autolinks

CONSTANT Texts

ASSUME InlineAssumption == Texts \subseteq Seq(Characters)

VARIABLES
  text,
  pass,     \* the scanner that runs, or "done"
  at,       \* where it is
  spans,
  claimed,  \* ClaimedRanges: <<from, to>>
  hidden,   \* protected: the places that "$" and "++" are not looked for at
  open,     \* tag_start, or the opener of a formula, or None
  quote,    \* the quotation mark that is open in a tag, or "none"
  formulas, \* math_ranges
  stack,    \* openers of underlines: their places; of emphasis: records
  used,     \* how much of the asterisk run at `at` is consumed
  held,     \* emphasis_spans
  swept,    \* the spans that a sweep has passed
  rejected

vars ==
  <<text, pass, at, spans, claimed, hidden, open, quote, formulas, stack, used, held, swept, rejected>>
\* What only the scanners with delimiters of their own change.
inner == <<hidden, open, quote, formulas, stack, used, held, swept, rejected>>
sweeps == <<swept, rejected>>

\* The order in which the scanners run.
After ==
  [ code |-> "comment", comment |-> "wiki", wiki |-> "link", link |-> "angle", angle |-> "scheme",
    scheme |-> "email", email |-> "domain", domain |-> "subreddit", subreddit |-> "protect",
    protect |-> "html", html |-> "math", math |-> "plus", plus |-> "hex", hex |-> "emphasis",
    emphasis |-> "strike", strike |-> "highlight", highlight |-> "tag", tag |-> "tilde", tilde |-> "footnote",
    footnote |-> "forward", forward |-> "backward",
    backward |-> "reject", reject |-> "done" ]

Leave == pass' = After[pass] /\ at' = 1

Init ==
  /\ text \in Texts /\ pass = "code" /\ at = 1
  /\ spans = {} /\ claimed = {} /\ hidden = {} /\ formulas = {} /\ held = {}
  /\ swept = {} /\ rejected = {}
  /\ open = None /\ quote = "none" /\ stack = <<>> /\ used = 0

Overlap(c, d) == c[1] < d[2] /\ d[1] < c[2]
Extent(span)  == <<span.from, span.to>>
\* Fault: a span is refused only when it starts inside of a claim.
FaultClaimedAtStart(c) == \E d \in claimed : d[1] <= c[1] /\ c[1] < d[2]

IsClaimed(c) == \E d \in claimed : Overlap(c, d)

\* if !claimed.overlaps(..) { claimed.claim(..); spans.push(..) }
Take(span) ==
  IF IsClaimed(Extent(span))
  THEN UNCHANGED <<spans, claimed>>
  ELSE spans' = spans \cup {span} /\ claimed' = claimed \cup {Extent(span)}

-----------------------------------------------------------------------------
(* Inline code.  A run that has no equal ends the scan.                    *)

RunEnd(p) == SkipOver(text, p, {text[p]})

CodeCloser(p) ==
  { c \in RunEnd(p) .. Len(text) :
      Is(text, c, "tick") /\ ~ Is(text, c - 1, "tick") /\ RunEnd(c) - c = RunEnd(p) - p }

Code ==
  /\ pass = "code" /\ Places(text, at, <<"tick">>) # {}
  /\ LET p == Min(Places(text, at, <<"tick">>))
         c == Min(CodeCloser(p))
     IN  \/ /\ CodeCloser(p) = {}
            /\ at' = Len(text) + 1 /\ UNCHANGED <<spans, claimed>>
         \/ /\ CodeCloser(p) # {}
            /\ at' = RunEnd(c)
            /\ spans' = spans \cup {Span("InlineCode", p, RunEnd(c), RunEnd(p), c)}
            /\ claimed' = claimed \cup {<<p, RunEnd(c)>>}
  /\ UNCHANGED <<text, pass, inner>>

CodeEnd ==
  /\ pass = "code" /\ Places(text, at, <<"tick">>) = {}
  /\ Leave /\ UNCHANGED <<text, spans, claimed, inner>>

-----------------------------------------------------------------------------
(* Links.  Brackets that do not balance end the scan.                      *)

LinkOpeners ==
  { k \in Places(text, at, <<"[">>) : ~ IsIn(text, k + 1, {"[", "^"}) }

Link ==
  /\ pass = "link" /\ LinkOpeners # {}
  /\ LET p       == Min(LinkOpeners)
         label   == Closings(text, p, "[", "]")
         c       == Min(label)
         address == Closings(text, c + 1, "(", ")")
         d       == Min(address)
     IN  \/ label = {} /\ at' = Len(text) + 1 /\ UNCHANGED <<spans, claimed>>
         \/ /\ label # {} /\ ~ Is(text, c + 1, "(")
            /\ at' = c + 1 /\ UNCHANGED <<spans, claimed>>
         \/ /\ label # {} /\ Is(text, c + 1, "(") /\ address = {}
            /\ at' = Len(text) + 1 /\ UNCHANGED <<spans, claimed>>
         \/ /\ label # {} /\ Is(text, c + 1, "(") /\ address # {}
            /\ at' = d + 1 /\ Take(Span("Link", p, d + 1, p + 1, c))
  /\ UNCHANGED <<text, pass, inner>>

LinkEnd ==
  /\ pass = "link" /\ LinkOpeners = {}
  /\ Leave /\ UNCHANGED <<text, spans, claimed, inner>>

-----------------------------------------------------------------------------
(* The scanners that look for a pair of delimiters.  One that finds no     *)
(* closer for an opener finds none for later openers either.               *)

\* parse_paired_marker
Pairs(w, kind) ==
  LET closers(p) == Places(text, p + 2, w)
  IN  { Found(p, Span(kind, p, Min(closers(p)) + 2, p + 2, Min(closers(p)))) :
          p \in { p \in Places(text, at, w) : closers(p) # {} } }

\* Fault: the bar may stand behind the link.
FaultBarBehindLink ==
  LET closers(p) == { c \in p + 2 .. Len(text) : Reads(text, c, <<"]", "]">>) }
      close(p)   == Min(closers(p))
      bars(p)    == Places(text, p + 2, <<"|">>)
      label(p)   == IF bars(p) = {} THEN p + 2 ELSE Min(bars(p)) + 1
  IN  { Found(p, Span("WikiLink", p, close(p) + 2, label(p), close(p))) :
          p \in { p \in Places(text, at, <<"[", "[">>) : closers(p) # {} } }

\* The label begins behind the first bar.
WikiLinks ==
  LET closers(p) == { c \in p + 2 .. Len(text) : Reads(text, c, <<"]", "]">>) }
      close(p)   == Min(closers(p))
      bars(p)    == { k \in Places(text, p + 2, <<"|">>) : k < close(p) }
      label(p)   == IF bars(p) = {} THEN p + 2 ELSE Min(bars(p)) + 1
  IN  { Found(p, Span("WikiLink", p, close(p) + 2, label(p), close(p))) :
          p \in { p \in Places(text, at, <<"[", "[">>) : closers(p) # {} } }

\* Where the text of a highlight begins: behind its colour, if that is well-formed.
HexEnd(p) == SkipOver(text, p, HexDigits)

HighlightText(p) ==
  IF Is(text, p, "disc") THEN p + 1
  ELSE IF Reads(text, p, <<"{", "color", ":", "red", "}">>) THEN p + 5
  ELSE IF /\ Reads(text, p, <<"{", "#">>) /\ HexEnd(p + 2) - (p + 2) \in {3, 4, 6, 8}
          /\ Is(text, HexEnd(p + 2), "}")
  THEN HexEnd(p + 2) + 1
  ELSE p

Highlights ==
  LET closers(p) == { c \in HighlightText(p + 2) .. Len(text) : Reads(text, c, <<"=", "=">>) }
  IN  { Found(p, Span("Highlight", p, Min(closers(p)) + 2, HighlightText(p + 2), Min(closers(p)))) :
          p \in { p \in Places(text, at, <<"=", "=">>) : closers(p) # {} } }

UnderlineTags ==
  LET closers(p) == { c \in p + 3 .. Len(text) : Reads(text, c, <<"<", "/", "u", ">">>) }
  IN  { Found(p, Span("UnderlineHtml", p, Min(closers(p)) + 4, p + 3, Min(closers(p)))) :
          p \in { p \in Places(text, at, <<"<", "u", ">">>) : closers(p) # {} } }

\* The unescaped runs of a single tilde.
SingleTildes(p) ==
  { k \in Places(text, p, <<"~">>) :
      RunEnd(k) = k + 1 /\ ~ (Is(text, k - 1, "~") /\ ~ Escaped(text, k - 1)) }

TildePairs ==
  LET closers(p) == SingleTildes(p + 1)
  IN  { Found(p, Span("UnderlineTilde", p, Min(closers(p)) + 1, p + 1, Min(closers(p)))) :
          p \in { p \in SingleTildes(at) : ~ IsClaimed(<<p, p + 1>>) /\ closers(p) # {} } }

\* Not followed by ":", which would make it a definition.
FootnoteRefs ==
  LET end(p) == SkipTo(text, p + 2, {"]", "nl"})
  IN  { Found(p, Span("FootnoteRef", p, end(p) + 1, p + 2, end(p))) :
          p \in { p \in Places(text, at, <<"[", "^">>) :
                    /\ Is(text, end(p), "]") /\ ~ Is(text, end(p) + 1, ":")
                    /\ end(p) > p + 2 } }

\* The "#" of a highlight's colour is left to the highlight.
HexColors ==
  { Found(p, Span("HexColor", p, HexEnd(p + 1), p + 1, HexEnd(p + 1))) :
      p \in { p \in Places(text, at, <<"#">>) :
                /\ ~ IsIn(text, p - 1, Alphanumeric)
                /\ ~ Reads(text, p - 3, <<"=", "=", "{">>)
                /\ HexEnd(p + 1) - (p + 1) \in {3, 4, 6, 8}
                /\ ~ IsIn(text, HexEnd(p + 1), Alphanumeric \cup {"_"}) } }

\* Fault: a span that is refused is looked at again.
FaultRefusedAgain(p, founds) ==
  /\ pass = p
  /\ \/ \E f \in founds :
           /\ \A g \in founds : f.at <= g.at
           /\ Take(f.span) /\ at' = (IF IsClaimed(Extent(f.span)) THEN f.at ELSE f.span.to)
           /\ UNCHANGED pass
     \/ founds = {} /\ Leave /\ UNCHANGED <<spans, claimed>>
  /\ UNCHANGED <<text, inner>>

\* One step of a scanner that finds these from here on.
Scanner(p, founds) ==
  /\ pass = p
  /\ \/ \E f \in founds :
           /\ \A g \in founds : f.at <= g.at
           /\ Take(f.span) /\ at' = f.span.to /\ UNCHANGED pass
     \/ founds = {} /\ Leave /\ UNCHANGED <<spans, claimed>>
  /\ UNCHANGED <<text, inner>>

Ahead(founds) == { f \in founds : f.at >= at }

-----------------------------------------------------------------------------
(* parse_extended_inlines: what is hidden from formulas and underlines.    *)

Extended == \E k \in 1 .. Len(text) : text[k] \in {"+", "$"}

PlacesOf(from, to) == from .. to - 1

\* Fault: the address of a link is looked at like its label.
FaultAddressVisible ==
  UNION { PlacesOf(s.from, s.to) : s \in { s \in spans : s.kind = "Link" /\ ~ Is(text, s.from - 1, "!") } }

\* Claims, but not the labels of links that are not images.
Labels == UNION { PlacesOf(s.cfrom, s.cto) :
                    s \in { s \in spans : s.kind = "Link" /\ ~ Is(text, s.from - 1, "!") } }

Protect ==
  /\ pass = "protect"
  /\ IF Extended
     THEN /\ Leave
          /\ hidden' = (UNION { PlacesOf(c[1], c[2]) : c \in claimed }) \ Labels
     ELSE pass' = "hex" /\ at' = 1 /\ UNCHANGED hidden
  /\ UNCHANGED <<text, spans, claimed, open, quote, formulas, stack, used, held, sweeps>>

\* protect_html.  A tag ends at the next ">" that is not quoted.
Quotes == {"quote", "apos"}

TagPlaces ==
  { k \in at .. Len(text) \ hidden :
      IF quote = "none" THEN text[k] \in Quotes \cup {">"} ELSE text[k] = quote }

InTag ==
  /\ pass = "html" /\ open # None /\ TagPlaces # {}
  /\ LET k == Min(TagPlaces)
     IN  /\ at' = k + 1
         /\ \/ /\ text[k] = ">" /\ hidden' = hidden \cup open .. k
               /\ open' = None /\ UNCHANGED quote
            \/ /\ text[k] # ">" /\ quote' = IF quote = "none" THEN text[k] ELSE "none"
               /\ UNCHANGED <<hidden, open>>
  /\ UNCHANGED <<text, pass, spans, claimed, formulas, stack, used, held, sweeps>>

\* Comments, processing instructions, CDATA and declarations.
Delimited ==
  { << <<"<", "!", "-", "-">>, <<"-", "-", ">">> >>, << <<"<", "?">>, <<"?", ">">> >>,
    << <<"<", "!", "[", "CDATA", "[">>, <<"]", "]", ">">> >> }
  \cup { << <<"<", "!", c>>, <<">">> >> : c \in Letters }

HtmlEnds(p) ==
  { p + 5 : w \in { w \in {<<"<", "!", "-", "-", ">">>} : Reads(text, p, w) } } \cup
  { p + 6 : w \in { w \in {<<"<", "!", "-", "-", "-", ">">>} : Reads(text, p, w) } } \cup
  UNION { { c + Len(d[2]) : c \in { c \in p + Len(d[1]) .. Len(text) : Reads(text, c, d[2]) } } :
            d \in { d \in Delimited : Reads(text, p, d[1]) } }

HtmlPlaces == Places(text, at, <<"<">>) \ hidden

Html ==
  /\ pass = "html" /\ open = None /\ HtmlPlaces # {}
  /\ LET k == Min(HtmlPlaces)
     IN  \/ /\ HtmlEnds(k) # {}
            /\ at' = Min(HtmlEnds(k)) /\ hidden' = hidden \cup k .. Min(HtmlEnds(k)) - 1
            /\ UNCHANGED open
         \/ /\ HtmlEnds(k) = {}
            /\ at' = k + 1 /\ UNCHANGED hidden
            /\ open' = IF IsIn(text, k + 1, Letters \cup {"/"}) THEN k ELSE None
  /\ UNCHANGED <<text, pass, spans, claimed, quote, formulas, stack, used, held, sweeps>>

HtmlEnd ==
  /\ pass = "html" /\ IF open = None THEN HtmlPlaces = {} ELSE TagPlaces = {}
  /\ Leave /\ open' = None /\ quote' = "none"
  /\ UNCHANGED <<text, spans, claimed, hidden, formulas, stack, used, held, sweeps>>

-----------------------------------------------------------------------------
(* Formulas.  One may open where nothing is hidden, and close anywhere.    *)

MathPlaces ==
  { k \in at .. Len(text) :
      (text[k] = "$" /\ k \notin hidden) \/ (text[k] \in {"$", "nl"} /\ open # None) }

Lone(p) == RunEnd(p) = p + 1 /\ ~ Escaped(text, p)

MathCloses(p) ==
  /\ open # None /\ Lone(p) /\ p > open + 1
  /\ text[p - 1] \notin Whitespace /\ ~ IsIn(text, p + 1, Digits)

MathOpens(p) ==
  open = None /\ Lone(p) /\ p < Len(text) /\ text[p + 1] \notin Whitespace \cup {"tick"}

Math ==
  /\ pass = "math" /\ MathPlaces # {}
  /\ LET k == Min(MathPlaces)
     IN  \/ /\ text[k] = "nl"
            /\ at' = k + 1 /\ open' = None /\ UNCHANGED <<hidden, formulas>>
         \/ /\ text[k] = "$" /\ MathCloses(k)
            /\ at' = k + 1 /\ open' = None
            /\ hidden' = hidden \cup open .. k /\ formulas' = formulas \cup {<<open, k + 1>>}
         \/ /\ text[k] = "$" /\ ~ MathCloses(k)
            /\ at' = RunEnd(k) /\ open' = (IF MathOpens(k) THEN k ELSE open)
            /\ UNCHANGED <<hidden, formulas>>
  /\ UNCHANGED <<text, pass, spans, claimed, quote, stack, used, held, sweeps>>

\* Fault: what ends with the formula reaches out of it.
FaultEndReachesOut(c) ==
  \A f \in formulas :
    f[1] <= c[1] /\ (\A g \in formulas : g[1] <= c[1] => g[1] <= f[1]) => c[2] >= f[2]

\* Does c reach out of the last formula that starts at or before it?
ReachesOut(c) ==
  \A f \in formulas :
    f[1] <= c[1] /\ (\A g \in formulas : g[1] <= c[1] => g[1] <= f[1]) => c[2] > f[2]

\* What is inside of a formula is dropped.
MathEnd ==
  /\ pass = "math" /\ MathPlaces = {}
  /\ claimed' = { c \in claimed : ReachesOut(c) } \cup formulas
  /\ spans' = { s \in spans : ReachesOut(Extent(s)) }
              \cup { Span("Math", f[1], f[2], f[1] + 1, f[2] - 1) : f \in formulas }
  /\ Leave /\ open' = None
  /\ UNCHANGED <<text, hidden, quote, formulas, stack, used, held, sweeps>>

-----------------------------------------------------------------------------
(* Underlines.  A pair around nothing is given up, opener and all.         *)

PlusPlaces == { k \in at .. Len(text) \ hidden : text[k] = "+" }

Plus ==
  /\ pass = "plus" /\ PlusPlaces # {}
  /\ LET p       == Min(PlusPlaces)
         q       == RunEnd(p)
         two     == q = p + 2 /\ ~ Escaped(text, p)
         top     == stack[Len(stack)]
         closes  == two /\ stack # <<>> /\ PlusesClose(text, p, q)
         matches == closes /\ p > top + 2
         rest    == IF closes THEN SubSeq(stack, 1, Len(stack) - 1) ELSE stack
     IN  /\ at' = q
         /\ \/ /\ matches /\ stack' = rest
               /\ spans' = spans \cup {Span("UnderlinePlus", top, q, top + 2, p)}
            \/ /\ ~ matches /\ UNCHANGED spans
               /\ stack' = IF two /\ PlusesOpen(text, p, q) THEN Append(rest, p) ELSE rest
  /\ UNCHANGED <<text, pass, claimed, hidden, open, quote, formulas, used, held, sweeps>>

PlusEnd ==
  /\ pass = "plus" /\ PlusPlaces = {}
  /\ Leave /\ hidden' = {} /\ stack' = <<>>
  /\ UNCHANGED <<text, spans, claimed, open, quote, formulas, used, held, sweeps>>

-----------------------------------------------------------------------------
(* Emphasis.  A run closes openers from the inside out, and what is left   *)
(* of it may open.                                                         *)

StarPlaces == Places(text, at, <<"*">>)
StarRun    == Min(StarPlaces)
StarEnd    == RunEnd(StarRun)
StarsLeft  == StarEnd - StarRun - used

\* The rule of three.
MayMatch(o) ==
  LET len == StarEnd - StarRun
  IN  (StarsOpen(text, StarEnd) \/ o.closes) =>
        ~ ((len + o.len) % 3 = 0 /\ len % 3 # 0 /\ o.len % 3 # 0)

Matches ==
  IF StarsClose(text, StarRun) /\ StarsLeft > 0
  THEN { n \in 1 .. Len(stack) : MayMatch(stack[n]) } ELSE {}

EmphasisKind(n) == <<"Italic", "Bold", "BoldItalic">>[n]

\* Fault: the openers above the one that matches stay.
FaultOpenersStay(n, left) ==
  IF left = 0 THEN SubSeq(stack, 1, n - 1) \o SubSeq(stack, n + 1, Len(stack))
  ELSE [stack EXCEPT ![n].left = left]

\* The openers above the one that matches are abandoned.
Truncated(n, left) ==
  LET below == SubSeq(stack, 1, n - 1)
  IN  IF left = 0 THEN below ELSE Append(below, [stack[n] EXCEPT !.left = left])

EmphasisClose ==
  /\ pass = "emphasis" /\ StarPlaces # {} /\ Matches # {}
  /\ LET n    == Max(Matches)
         o    == stack[n]
         k    == Min({3, StarsLeft, o.left})
         from == o.at + o.left - k
         to   == StarRun + used + k
     IN  /\ held' = held \cup {Span(EmphasisKind(k), from, to, from + k, to - k)}
         /\ stack' = Truncated(n, o.left - k)
         /\ used' = used + k
  /\ UNCHANGED <<text, pass, at, spans, claimed, hidden, open, quote, formulas, sweeps>>

EmphasisOpen ==
  /\ pass = "emphasis" /\ StarPlaces # {} /\ Matches = {}
  /\ stack' = IF StarsLeft > 0 /\ StarsOpen(text, StarEnd)
              THEN Append(stack, [at |-> StarRun + used, left |-> StarsLeft, len |-> StarEnd - StarRun,
                                  closes |-> StarsClose(text, StarRun)])
              ELSE stack
  /\ at' = StarEnd /\ used' = 0
  /\ UNCHANGED <<text, pass, spans, claimed, hidden, open, quote, formulas, held, sweeps>>

\* Emphasis gives way to claims, and claims nothing.
EmphasisEnd ==
  /\ pass = "emphasis" /\ StarPlaces = {}
  /\ spans' = spans \cup { s \in held : s.cfrom <= s.cto /\ ~ IsClaimed(Extent(s)) }
  /\ Leave /\ stack' = <<>> /\ held' = {}
  /\ UNCHANGED <<text, claimed, hidden, open, quote, formulas, used, sweeps>>

-----------------------------------------------------------------------------
(* reject_crossing_plus: two sweeps over the spans, by start and, in the   *)
(* mirror, by end.  A sweep passes the spans of one start at a time, and   *)
(* asks for ends inside of a span: of any span for an underline, and of    *)
(* underlines for any other.                                               *)

IsPlus(s) == s.kind = "UnderlinePlus"

Lo(s) == IF pass = "forward" THEN s.from ELSE Len(text) + 1 - s.to
Hi(s) == IF pass = "forward" THEN s.to ELSE Len(text) + 1 - s.from

\* The next group.
Group == { s \in spans \ swept : \A t \in spans \ swept : Lo(s) <= Lo(t) }

\* Fault: only the ends of underlines are kept.
FaultUnderlineEnds(s) == \E t \in swept : IsPlus(t) /\ Lo(s) < Hi(t) /\ Hi(t) < Hi(s)

EndsInside(s) ==
  \E t \in swept : (IsPlus(s) \/ IsPlus(t)) /\ Lo(s) < Hi(t) /\ Hi(t) < Hi(s)

Sweep ==
  /\ pass \in {"forward", "backward"} /\ spans \ swept # {}
  /\ swept' = swept \cup Group
  /\ rejected' = rejected \cup { s \in Group : EndsInside(s) }
  /\ UNCHANGED <<text, pass, at, spans, claimed, hidden, open, quote, formulas, stack, used, held>>

SweepEnd ==
  /\ pass \in {"forward", "backward"} /\ spans \ swept = {}
  /\ Leave /\ swept' = {}
  /\ UNCHANGED <<text, spans, claimed, hidden, open, quote, formulas, stack, used, held, rejected>>

Reject ==
  /\ pass = "reject"
  /\ spans' = spans \ rejected
  /\ Leave /\ UNCHANGED <<text, claimed, inner>>

-----------------------------------------------------------------------------
Scanners ==
  \/ Scanner("comment", Pairs(<<"%", "%">>, "Comment"))
  \/ Scanner("wiki", WikiLinks)
  \/ Scanner("angle", Ahead(AngleLinks(text)))
  \/ Scanner("scheme", Ahead(SchemeLinks(text)))
  \/ Scanner("email", Ahead(EmailLinks(text)))
  \/ Scanner("domain", Ahead(DomainLinks(text)))
  \/ Scanner("subreddit", Ahead(SubredditLinks(text)))
  \/ Scanner("hex", HexColors)
  \/ Scanner("strike", Pairs(<<"~", "~">>, "Strikethrough"))
  \/ Scanner("highlight", Highlights)
  \/ Scanner("tag", UnderlineTags)
  \/ Scanner("tilde", TildePairs)
  \/ Scanner("footnote", FootnoteRefs)

Delimiters ==
  \/ Protect \/ InTag \/ Html \/ HtmlEnd \/ Math \/ MathEnd \/ Plus \/ PlusEnd
  \/ EmphasisClose \/ EmphasisOpen \/ EmphasisEnd \/ Sweep \/ SweepEnd \/ Reject

Next == Code \/ CodeEnd \/ Link \/ LinkEnd \/ Scanners \/ Delimiters

\* The parser is sequential code and runs until it returns.
Spec == Init /\ [][Next]_vars /\ WF_vars(Next)

-----------------------------------------------------------------------------
(* Properties.                                                             *)

Places1 == 1 .. Len(text) + 1

TypeOK ==
  /\ text \in Seq(Characters)
  /\ pass \in DOMAIN After \cup {"done"} /\ at \in Places1
  /\ \A s \in spans \cup held :
       s.from \in Places1 /\ s.cfrom \in s.from .. s.cto /\ s.cto \in s.cfrom .. s.to /\ s.to \in Places1
  /\ claimed \cup formulas \subseteq Places1 \X Places1
  /\ hidden \subseteq 1 .. Len(text) /\ open \in {None} \cup 1 .. Len(text)
  /\ quote \in Quotes \cup {"none"} /\ used \in 0 .. Len(text) /\ swept \subseteq spans

(* Two claims do not overlap, unless one of them is a formula's, whose     *)
(* end may be inside of another claim (every `if !claimed.overlaps`, and   *)
(* inline code, which asks nothing because it runs first).                 *)
ClaimsDisjoint ==
  \A c \in claimed, d \in claimed :
    c = d \/ c \in formulas \/ d \in formulas \/ ~ Overlap(c, d)

Crosses(s, t) ==
  \/ s.from < t.from /\ t.from < s.to /\ s.to < t.to
  \/ t.from < s.from /\ s.from < t.to /\ t.to < s.to

(* Two spans of emphasis are apart, or one is inside of the other, however *)
(* the runs are consumed (the truncation of opener_stack).                 *)
IsEmphasis(s) == s.kind \in {"Italic", "Bold", "BoldItalic"}

EmphasisNests ==
  \A s \in held \cup spans, t \in held \cup spans : IsEmphasis(s) /\ IsEmphasis(t) => ~ Crosses(s, t)

(* "Math expressions do not expose underline or other Markdown spans"      *)
(* (docs/compatibility.md): no span is inside of a formula.                *)
FormulaOpaque ==
  \A s \in spans, t \in spans :
    s.kind = "Math" /\ s # t => ~ (s.from <= t.from /\ t.to <= s.to)

(* "Code, comments, autolinks, link destinations ... are opaque": the plus *)
(* signs of an underline are outside of them, and of formulas.             *)
Inside(s) ==
  IF s.kind \in {"InlineCode", "Comment", "WikiLink", "AutoLink", "Math"} THEN s.from .. s.to - 1
  ELSE IF s.kind = "Link" THEN s.cto .. s.to - 1
  ELSE {}

PlusVisible ==
  \A s \in spans, t \in spans :
    IsPlus(s) => Inside(t) \cap {s.from, s.from + 1, s.to - 2, s.to - 1} = {}

(* An underline that crosses another span stays literal, and the other one *)
(* too; nothing else does (the two sweeps of reject_crossing_plus).        *)
CrossingStaysLiteral ==
  [][ pass = "reject" =>
        spans' = { s \in spans : ~ \E t \in spans : Crosses(s, t) /\ (IsPlus(s) \/ IsPlus(t)) } ]_vars
=============================================================================
