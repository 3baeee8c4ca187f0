------------------------------ MODULE Preview ------------------------------
(***************************************************************************)
(* The rendered preview of src/lib.rs, of a text that is one part:         *)
(* build_clean_preview_from_doc strips the markers from the text and moves *)
(* the spans, and truncate_preview cuts both at a limit.  Positions in the *)
(* preview count UTF-16 units from 0.                                      *)
(***************************************************************************)
EXTENDS SemanticTokens

VARIABLE preview  \* CleanPreview, once it is built

\* The units of a symbol: words have several letters, an emoji two units.
Units(c) ==
  IF c \in {"com", "red"} THEN 3 ELSE IF c = "http" THEN 4
  ELSE IF c \in {"color", "CDATA"} THEN 5 ELSE IF c = "disc" THEN 2 ELSE 1

\* Fault: formulas are stripped like code.
FaultDollarsStripped(s) ==
  IF s.kind \in {"Tag", "Mention"} THEN {}
  ELSE IF s.kind = "Comment" THEN PlacesOf(s.from, s.to) ELSE Delimiting(s)

\* is_marker: comments are stripped with their text.
Stripped(s) ==
  IF s.kind \in {"Math", "Tag", "Mention"} THEN {}
  ELSE IF s.kind = "Comment" THEN PlacesOf(s.from, s.to)
  ELSE Delimiting(s)

PreviewInit == TokenInit /\ preview = {}

\* position_map: the units of what is kept before each place, and in all.
Positions(kept) ==
  LET position[p \in 1 .. Len(text) + 1] ==
        IF p = 1 THEN 0 ELSE position[p - 1] + (IF p - 1 \in kept THEN Units(text[p - 1]) ELSE 0)
  IN  position

\* A formula keeps its dollars.
Shown(s, position) ==
  IF s.kind = "Math" THEN [of |-> s, start |-> position[s.from], end |-> position[s.to]]
  ELSE [of |-> s, start |-> position[s.cfrom], end |-> position[s.cto]]

\* The symbols by where they start and end, and the spans that are not empty.
Build ==
  /\ Parsed /\ preview = {}
  /\ LET kept     == 1 .. Len(text) \ UNION { Stripped(s) : s \in spans }
         position == Positions(kept)
         shown    == { Shown(s, position) : s \in spans }
     IN  preview' = {[symbols |-> { <<position[p], position[p + 1]>> : p \in kept },
                      spans   |-> { c \in shown : c.start < c.end }]}
  /\ UNCHANGED <<vars, tokenVars>>

PreviewNext == (TokenNext /\ UNCHANGED preview) \/ Build

PreviewVars == <<vars, tokenVars, preview>>
PreviewSpec == PreviewInit /\ [][PreviewNext]_PreviewVars /\ WF_PreviewVars(PreviewNext)

\* clean_utf16_len
CleanLength(clean) == Max({0} \cup { c[2] : c \in clean.symbols })

\* truncate_preview: as many symbols as fit.
TruncatedLength(clean, max) == Max({0} \cup { c[2] : c \in { c \in clean.symbols : c[2] <= max } })

\* Fault: a formula is cut like other spans.
FaultFormulaCut(clean, max) ==
  LET length == TruncatedLength(clean, max)
  IN  { [c EXCEPT !.end = Min({c.end, length})] : c \in { c \in clean.spans : c.start < length } }

\* A preview that fits keeps its spans as they are.
TruncatedSpans(clean, max) ==
  LET length == TruncatedLength(clean, max)
  IN  IF CleanLength(clean) <= max THEN clean.spans
      ELSE { [c EXCEPT !.end = Min({c.end, length})] :
               c \in { c \in clean.spans : c.start < length /\ (c.of.kind = "Math" => c.end <= length) } }

-----------------------------------------------------------------------------
(* Properties.                                                             *)

(* Code, formulas and tokens are shown as they are written: the markers of *)
(* no other span are stripped from them ("Preview text keeps semantic      *)
(* sigils", "Previews preserve readable math delimiters and opaque         *)
(* expressions", docs/compatibility.md).  Tags and mentions keep their own *)
(* sigil too, while a colour gives that up, and nothing else.  Only a      *)
(* formula that straddles a span loses the markers of that: it closes      *)
(* wherever the next dollar is, so it may start before a span and end in   *)
(* it, or start in the label of a link and end in the address or behind it.*)
Literal(s) ==
  IF s.kind = "InlineCode" THEN PlacesOf(s.cfrom, s.cto)
  ELSE IF s.kind \in TokenKinds \cup {"Math"} THEN PlacesOf(s.from, s.to)
  ELSE {}

Straddles(s, t) == Crosses(s, t) \/ (t.kind = "Link" /\ s.from < t.cto /\ t.cto < s.to)

\* Does s give up to t what t strips?
Yields(s, t) ==
  \/ s.kind = "Math" /\ Straddles(s, t)
  \/ s.kind = "HexColor" /\ t = s

LiteralsShown ==
  Parsed => \A s, t \in spans : Literal(s) \cap Stripped(t) = {} \/ Yields(s, t)

(* A preview fits its limit, its spans are not empty and lie in its text,  *)
(* and a formula is a span of it only as a whole (truncate_preview), also  *)
(* where nothing is cut and the spans are those that position_map moved.   *)
PreviewFits ==
  \A clean \in preview :
    \A max \in 0 .. CleanLength(clean) :
      LET length == TruncatedLength(clean, max)
      IN  /\ length <= max
          /\ \A c \in TruncatedSpans(clean, max) :
               /\ c.start < c.end /\ c.end <= length
               /\ c.of.kind = "Math" => c \in clean.spans

(* parse_spans returns, and so do annotate_range and the preview, whatever *)
(* the text.                                                               *)
Terminates == <>(preview # {})
=============================================================================
