--------------------------- MODULE SemanticTokens ---------------------------
(***************************************************************************)
(* The opt-in tokens of src/semantic.rs: annotate_range looks over a text  *)
(* once more behind parse_spans, and adds tags ("#name", "#two words#"),   *)
(* mentions ("@name") and colours ("#fff") to its spans.                   *)
(*                                                                         *)
(* A grapheme is one symbol, or as many as a word has letters.             *)
(***************************************************************************)
EXTENDS Inline

CONSTANT Semantic  \* semantic_tokens of ParseOptions

ASSUME SemanticAssumption == Semantic \in BOOLEAN

VARIABLES
  phase,  \* "parse", "html" and "tokens", which are annotate_range, or "done"
  place,  \* where annotate_range is
  mask,   \* the places where no token may be
  colors  \* the colours that parse_spans has found

tokenVars == <<phase, place, mask, colors>>

\* protect_html runs on the mask.
Markup == INSTANCE Inline WITH pass <- phase, at <- place, hidden <- mask

TokenInit == Init /\ phase = "parse" /\ place = 1 /\ mask = {} /\ colors = {}

ParseStep == Next /\ UNCHANGED tokenVars

-----------------------------------------------------------------------------
(* What is masked: code, links, comments and formulas with all that is in  *)
(* them, and the delimiters of other spans.                                *)

OpaqueKinds == {"InlineCode", "Link", "AutoLink", "WikiLink", "FootnoteRef", "Comment", "Math"}
TokenKinds  == {"HexColor", "Tag", "Mention"}

Delimiting(s) == PlacesOf(s.from, s.cfrom) \cup PlacesOf(s.cto, s.to)

\* Fault: all spans are masked like those of formatting.
FaultMaskDelimiters(s) == IF s.kind \in TokenKinds THEN {} ELSE Delimiting(s)

Masked(s) ==
  IF s.kind \in TokenKinds THEN {}
  ELSE IF s.kind \in OpaqueKinds THEN PlacesOf(s.from, s.to)
  ELSE Delimiting(s)

Annotate ==
  /\ phase = "parse" /\ pass = "done" /\ Semantic
  /\ phase' = "html" /\ place' = 1
  /\ mask' = UNION { Masked(s) : s \in spans }
  /\ colors' = { s \in spans : s.kind = "HexColor" }
  /\ spans' = spans \ colors'
  /\ UNCHANGED <<text, pass, at, claimed, inner>>

Protecting == (Markup!InTag \/ Markup!Html) /\ UNCHANGED <<pass, at, hidden, colors>>

Protected ==
  /\ phase = "html" /\ IF open = None THEN Markup!HtmlPlaces = {} ELSE Markup!TagPlaces = {}
  /\ phase' = "tokens" /\ place' = 1 /\ open' = None /\ quote' = "none"
  /\ UNCHANGED <<text, pass, at, spans, claimed, hidden, formulas, stack, used, held, sweeps, mask, colors>>

-----------------------------------------------------------------------------
(* Tokens.                                                                 *)

Boundary == Whitespace \cup {"(", "[", "{", "quote", "apos"}

\* A token may stand behind a boundary, or first in a span of formatting.
Admitted(p) ==
  \/ p = 1 \/ text[p - 1] \in Boundary
  \/ \E s \in spans : s.cfrom = p /\ s.from < p /\ s.kind \notin OpaqueKinds

Sigils == { p \in place .. Len(text) \ mask : text[p] \in {"#", "@"} /\ Admitted(p) /\ ~ Escaped(text, p) }
Sigil  == Min(Sigils)
IsTag  == text[Sigil] = "#"

Separators == IF IsTag THEN {"-", "_", "/", " "} ELSE {"-", "_"}

\* A separator stands between two words, or ends the name.
Continues(p) ==
  /\ p \in 1 .. Len(text) \ mask
  /\ \/ text[p] \in Alphanumeric
     \/ text[p] \in Separators /\ p > Sigil + 1 /\ text[p - 1] \in Alphanumeric

Stop == Min({ p \in Sigil + 1 .. Len(text) + 1 : ~ Continues(p) })

\* The "#" that closes a tag of several words.
Closed ==
  /\ IsTag /\ Is(text, Stop, "#") /\ Stop \notin mask
  /\ Stop > Sigil + 1 /\ text[Stop - 1] \in Alphanumeric
  /\ ~ IsIn(text, Stop + 1, Alphanumeric \cup {"-", "_", "/", "#", "@"})

\* Open tags end with their first word.
NameEnd ==
  LET spaces == { p \in Sigil + 1 .. Stop - 1 : text[p] = " " }
      words  == { p \in Sigil + 1 .. Stop - 1 : text[p] \in Alphanumeric }
  IN  IF Closed THEN Stop
      ELSE IF spaces # {} THEN Min(spaces)
      ELSE IF words # {} THEN Max(words) + 1
      ELSE Sigil + 1

TokenEnd == IF Closed THEN NameEnd + 1 ELSE NameEnd

Reading(chars) == \A p \in Sigil + 1 .. NameEnd - 1 : text[p] \in chars

IsColor == IsTag /\ Size(text, Sigil + 1, NameEnd) \in {3, 4, 6, 8} /\ Reading(HexDigits)

\* A tag needs a letter somewhere.
IsToken == IsTag => IsColor \/ ~ Reading(Characters \ Letters)

Token ==
  /\ phase = "tokens" /\ Sigils # {}
  /\ \/ NameEnd = Sigil + 1 /\ place' = Sigil + 1 /\ UNCHANGED spans
     \/ NameEnd > Sigil + 1 /\ ~ IsToken /\ place' = TokenEnd /\ UNCHANGED spans
     \/ /\ NameEnd > Sigil + 1 /\ IsToken /\ place' = TokenEnd
        /\ LET kind == IF IsColor THEN "HexColor" ELSE IF IsTag THEN "Tag" ELSE "Mention"
           IN  spans' = spans \cup {Span(kind, Sigil, TokenEnd, Sigil + 1, NameEnd)}
  /\ UNCHANGED <<text, pass, at, claimed, inner, phase, mask, colors>>

Apart(s) == \A t \in spans : t.kind \in TokenKinds => ~ Overlap(Extent(s), Extent(t))

\* Fault: a colour stays although its name goes on behind a separator.
FaultPrefixKept(s) == ~ IsIn(text, s.to, Alphanumeric)

Whole(s) == ~ IsIn(text, s.to, Alphanumeric \cup {"-", "_", "/"})

\* A colour behind other punctuation stays, unless it is part of a longer name.
TokensEnd ==
  /\ phase = "tokens" /\ Sigils = {}
  /\ spans' = spans \cup { s \in colors : Whole(s) /\ s.from \notin mask /\ Apart(s) }
  /\ phase' = "done"
  /\ UNCHANGED <<text, pass, at, claimed, inner, place, mask, colors>>

\* The spans are complete.
Parsed == pass = "done" /\ (Semantic => phase = "done")

TokenNext == ParseStep \/ Annotate \/ Protecting \/ Protected \/ Token \/ TokensEnd

-----------------------------------------------------------------------------
(* Properties.                                                             *)

(* "Escaped openers, code, links/images/autolinks, wiki links, comments,   *)
(* math, HTML markup and opaque blocks are excluded.  Formatting can       *)
(* contain tokens." (docs/compatibility.md): a token is apart from other   *)
(* spans, or in the content of formatting.                                 *)
TokensNest ==
  phase # "parse" =>
    \A t \in { t \in spans : t.kind \in TokenKinds }, s \in spans :
      \/ s = t \/ ~ Overlap(Extent(s), Extent(t))
      \/ s.kind \notin TokenKinds \cup OpaqueKinds /\ s.cfrom <= t.from /\ t.to <= s.cto

(* "#fff-launch is a tag, not a color prefix" (docs/compatibility.md):     *)
(* nothing that goes on with the name follows a colour.                    *)
ColorsAreWhole ==
  phase # "parse" =>
    \A t \in { t \in spans : t.kind = "HexColor" }, p \in 1 .. Len(text) :
      p \notin mask /\ text[p] \in Alphanumeric =>
        p # t.to /\ ~ (p = t.to + 1 /\ text[t.to] \in {"-", "_", "/"} /\ t.to \notin mask)
=============================================================================
