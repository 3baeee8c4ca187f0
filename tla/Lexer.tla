------------------------------- MODULE Lexer -------------------------------
(***************************************************************************)
(* The token scanner of src/lexer.rs.  tokenize scans line by line.  At    *)
(* the start of a line it tries the block markers, in order; the rest of   *)
(* the line is scanned token by token.                                     *)
(*                                                                         *)
(* A character is one symbol.  "1" stands for a digit, "a" for any         *)
(* character without a meaning, "disc" for the emoji of a highlight        *)
(* colour, "scheme" for the whole configured scheme of image markers,      *)
(* "tick" for a backtick, "nl" for a line end.                             *)
(* Token lengths count characters.                                         *)
(***************************************************************************)
EXTENDS TextScan, FiniteSets

CONSTANTS
  Texts,        \* the texts that may be scanned
  ImageMarkers  \* is image_marker_scheme set?

Characters ==
  {"nl", " ", "#", "tick", "-", "*", "+", "_", "~", "1", ".", ">", "[", "]", "^", ":", "!", "(", ")",
   "|", "<", "/", "u", "=", "x", "a", "disc", "scheme"}

\* What try_code_fence counts backticks in is a u8.
U8 == 256

VARIABLES
  text,   \* source
  pos,    \* the next character
  tokens, \* the tokens so far
  mode    \* "line" at the start of a line, "inline" inside of it, "done" after Eof

vars == <<text, pos, tokens, mode>>

Token(kind, start, end) == [kind |-> kind, start |-> start, len |-> end - start]

-----------------------------------------------------------------------------
(* Block markers: where the one that starts at p ends, or None.            *)

HeadingEnd(p) ==
  LET e == SkipOver(text, p, {"#"})
  IN  IF e - p \in 1 .. 6 /\ Is(text, e, " ") THEN e + 1 ELSE None

FenceEnd(p) ==
  LET e == SkipOver(text, p, {"tick"}) IN IF (e - p) % U8 >= 3 THEN e ELSE None

CheckboxEnd(p) ==
  IF \E c \in {" ", "x"} : Reads(text, p, <<"-", " ", "[", c, "]", " ">>) THEN p + 6 ELSE None

BulletEnd(p) == IF IsIn(text, p, {"-", "*", "+"}) /\ Is(text, p + 1, " ") THEN p + 2 ELSE None

OrderedEnd(p) ==
  LET e == SkipOver(text, p, {"1"})
  IN  IF e > p /\ Reads(text, e, <<".", " ">>) THEN e + 2 ELSE None

RuleEnd(p) ==
  LET e     == SkipTo(text, p, {"nl"})
      marks == { k \in p .. e - 1 : text[k] = text[p] }
  IN  IF /\ IsIn(text, p, {"-", "*", "_"})
         /\ \A k \in (p .. e - 1) \ marks : text[k] = " "
         /\ Cardinality(marks) >= 3
         /\ text[p] = "*" => Cardinality(marks) = 3
      THEN e ELSE None

QuoteEnd(p) ==
  IF Reads(text, p, <<">", " ">>) THEN p + 2
  ELSE IF Is(text, p, ">") /\ SkipTo(text, p + 1, {"nl"}) = p + 1 THEN p + 1
  ELSE None

FootnoteEnd(p) ==
  LET close == SkipTo(text, p + 2, {"]", "nl"})
  IN  IF Reads(text, p, <<"[", "^">>) /\ Reads(text, close, <<"]", ":">>) /\ close > p + 2
      THEN IF Is(text, close + 2, " ") THEN close + 3 ELSE close + 2
      ELSE None

\* An empty address passes.
ImageEnd(p) ==
  LET close == SkipTo(text, p + 5, {")", "nl"})
  IN  IF ImageMarkers /\ Reads(text, p, <<"!", "[", "]", "(", "scheme">>) /\ Is(text, close, ")")
      THEN close + 1 ELSE None

MarkerEnds(p) ==
  << [kind |-> "HeadingMarker", end |-> HeadingEnd(p)],
     [kind |-> "CodeFence", end |-> FenceEnd(p)],
     [kind |-> "CheckboxMarker", end |-> CheckboxEnd(p)],
     [kind |-> "BulletMarker", end |-> BulletEnd(p)],
     [kind |-> "OrderedMarker", end |-> OrderedEnd(p)],
     [kind |-> "HorizontalRule", end |-> RuleEnd(p)],
     [kind |-> "BlockquoteMarker", end |-> QuoteEnd(p)],
     [kind |-> "FootnoteDefMarker", end |-> FootnoteEnd(p)],
     [kind |-> "ImageMarker", end |-> ImageEnd(p)] >>

MarkerKinds == { "HeadingMarker", "CodeFence", "CheckboxMarker", "BulletMarker", "OrderedMarker",
                 "HorizontalRule", "BlockquoteMarker", "FootnoteDefMarker", "ImageMarker" }

Kinds == MarkerKinds \cup
  { "CodeFenceLanguage", "Asterisks", "Tildes", "Backtick", "DoubleEquals", "ColorEmojiPrefix",
    "OpenBracket", "DoubleOpenBracket", "FootnoteRefOpen", "CloseBracket", "DoubleCloseBracket",
    "OpenParen", "CloseParen", "TablePipe", "HtmlUnderlineOpen", "HtmlUnderlineClose",
    "Text", "Newline", "Eof" }

\* The first that matches, as try_... || try_... finds it.
MarkersAt(p) == { n \in 1 .. 9 : MarkerEnds(p)[n].end # None }
MarkerAt(p)  == MarkerEnds(p)[Min(MarkersAt(p))]

\* The language of a fence: what is left of the line, up to the spaces that end it.
LanguageEnd(p) ==
  LET e == SkipTo(text, p, {"nl"}) IN Min({ m \in p .. e : \A k \in m .. e - 1 : text[k] = " " })

-----------------------------------------------------------------------------
(* Actions at the start of a line.                                         *)

Init ==
  /\ text \in Texts /\ text \in Seq(Characters)
  /\ pos = 1 /\ tokens = <<>> /\ mode = "line"

\* skip_spaces: where the line's text starts.
Start == SkipOver(text, pos, {" "})

AtLine == mode = "line" /\ pos <= Len(text)

TrailingSpaces ==
  /\ AtLine /\ Start > Len(text)
  /\ pos' = Start
  /\ UNCHANGED <<text, tokens, mode>>

BlankLine ==
  /\ AtLine /\ Is(text, Start, "nl")
  /\ tokens' = Append(tokens, Token("Newline", Start, Start + 1))
  /\ pos' = Start + 1
  /\ UNCHANGED <<text, mode>>

AtText == AtLine /\ Start <= Len(text) /\ text[Start] # "nl"

MayMark == Start - pos < 4 /\ MarkersAt(Start) # {}

Marker(kind) ==
  /\ AtText /\ MayMark /\ MarkerAt(Start).kind = kind
  /\ tokens' = Append(tokens, Token(kind, Start, MarkerAt(Start).end))
  /\ pos' = MarkerAt(Start).end
  /\ mode' = "inline" /\ UNCHANGED text

\* A fence takes the rest of its line, of which the language becomes a token.
CodeFence ==
  /\ AtText /\ MayMark /\ MarkerAt(Start).kind = "CodeFence"
  /\ LET fence    == Token("CodeFence", Start, FenceEnd(Start))
         language == Token("CodeFenceLanguage", FenceEnd(Start), LanguageEnd(FenceEnd(Start)))
     IN  tokens' = tokens \o IF language.len > 0 THEN <<fence, language>> ELSE <<fence>>
  /\ pos' = SkipTo(text, FenceEnd(Start), {"nl"})
  /\ mode' = "inline" /\ UNCHANGED text

NoMarker ==
  /\ AtText /\ ~ MayMark
  /\ pos' = Start
  /\ mode' = "inline" /\ UNCHANGED <<text, tokens>>

Eof ==
  /\ mode = "line" /\ pos > Len(text)
  /\ tokens' = Append(tokens, Token("Eof", pos, pos))
  /\ mode' = "done" /\ UNCHANGED <<text, pos>>

-----------------------------------------------------------------------------
(* Actions inside of a line.                                               *)

EndOfText ==
  /\ mode = "inline" /\ pos > Len(text)
  /\ mode' = "line" /\ UNCHANGED <<text, pos, tokens>>

EndOfLine ==
  /\ mode = "inline" /\ Is(text, pos, "nl")
  /\ tokens' = Append(tokens, Token("Newline", pos, pos + 1))
  /\ pos' = pos + 1
  /\ mode' = "line" /\ UNCHANGED text

Emit(kind, end) ==
  /\ mode = "inline"
  /\ tokens' = Append(tokens, Token(kind, pos, end))
  /\ pos' = end
  /\ UNCHANGED <<text, mode>>

\* count_consecutive moves over the whole run; the token has at most `most` of it.
Run(c, kind, most) ==
  /\ mode = "inline" /\ Is(text, pos, c)
  /\ pos' = SkipOver(text, pos, {c})
  /\ tokens' = Append(tokens, Token(kind, pos, Min({SkipOver(text, pos, {c}), pos + most})))
  /\ UNCHANGED <<text, mode>>

Asterisks == Run("*", "Asterisks", 3)
TildeRun  == Run("~", "Tildes", 2)

\* The tokens of one meaning each.
Single ==
  \/ Is(text, pos, "tick") /\ Emit("Backtick", pos + 1)
  \/ Is(text, pos, "(") /\ Emit("OpenParen", pos + 1)
  \/ Is(text, pos, ")") /\ Emit("CloseParen", pos + 1)
  \/ Is(text, pos, "|") /\ Emit("TablePipe", pos + 1)

DoubleEquals ==
  /\ mode = "inline" /\ Reads(text, pos, <<"=", "=">>)
  /\ LET color == IF Is(text, pos + 2, "disc") THEN <<Token("ColorEmojiPrefix", pos + 2, pos + 3)>>
                  ELSE <<>>
     IN  /\ tokens' = Append(tokens, Token("DoubleEquals", pos, pos + 2)) \o color
         /\ pos' = pos + 2 + Len(color)
  /\ UNCHANGED <<text, mode>>

Bracket ==
  \/ Reads(text, pos, <<"[", "[">>) /\ Emit("DoubleOpenBracket", pos + 2)
  \/ Reads(text, pos, <<"[", "^">>) /\ Emit("FootnoteRefOpen", pos + 2)
  \/ Is(text, pos, "[") /\ ~ IsIn(text, pos + 1, {"[", "^"}) /\ Emit("OpenBracket", pos + 1)
  \/ Reads(text, pos, <<"]", "]">>) /\ Emit("DoubleCloseBracket", pos + 2)
  \/ Is(text, pos, "]") /\ ~ Is(text, pos + 1, "]") /\ Emit("CloseBracket", pos + 1)

UnderlineTag ==
  \/ Reads(text, pos, <<"<", "u", ">">>) /\ Emit("HtmlUnderlineOpen", pos + 3)
  \/ Reads(text, pos, <<"<", "/", "u", ">">>) /\ Emit("HtmlUnderlineClose", pos + 4)

\* What scan_text_run stops at.
Stops == {"nl", "*", "~", "tick", "=", "[", "]", "(", ")", "|", "<"}

\* Everything else is a text run, also "=" and "<" whose arms did not apply:
\* at these it stops at once, and is empty.
IsText ==
  /\ ~ IsIn(text, pos, Stops \ {"=", "<"})
  /\ ~ Reads(text, pos, <<"=", "=">>)
  /\ ~ Reads(text, pos, <<"<", "u", ">">>) /\ ~ Reads(text, pos, <<"<", "/", "u", ">">>)

TextRun ==
  /\ mode = "inline" /\ pos <= Len(text) /\ IsText
  /\ LET e == SkipTo(text, pos, Stops)
     IN  /\ tokens' = IF e > pos THEN Append(tokens, Token("Text", pos, e)) ELSE tokens
         /\ pos' = e
  /\ UNCHANGED <<text, mode>>

LineStep ==
  \/ TrailingSpaces \/ BlankLine \/ CodeFence \/ NoMarker \/ Eof
  \/ \E kind \in MarkerKinds \ {"CodeFence"} : Marker(kind)

InlineStep ==
  \/ EndOfText \/ EndOfLine \/ Asterisks \/ TildeRun \/ Single \/ DoubleEquals \/ Bracket
  \/ UnderlineTag \/ TextRun

Next == LineStep \/ InlineStep

\* The scan is sequential code and runs until it returns.
Spec == Init /\ [][Next]_vars /\ WF_vars(Next)

-----------------------------------------------------------------------------
TypeOK ==
  /\ text \in Seq(Characters)
  /\ pos \in 1 .. Len(text) + 1
  /\ tokens \in Seq([kind : Kinds, start : Nat, len : Nat])
  /\ mode \in {"line", "inline", "done"}

End(token) == token.start + token.len

(* The tokens come in the order of the text and do not overlap, and lie in *)
(* the part that has been scanned (the pushes of all scan_ and try_        *)
(* functions).                                                             *)
TokensInOrder ==
  /\ \A n \in 1 .. Len(tokens) : End(tokens[n]) <= pos
  /\ \A n \in 2 .. Len(tokens) : End(tokens[n - 1]) <= tokens[n].start

(* No character with a meaning is lost: what has been scanned is in a      *)
(* token, except spaces at the ends of a line's parts and the surplus of   *)
(* long runs of "*" and "~" (count_consecutive(..).min(3) moves over more  *)
(* than the token has).                                                    *)
Covered(k) == \E n \in 1 .. Len(tokens) : tokens[n].start <= k /\ k < End(tokens[n])

NothingLost == \A k \in 1 .. pos - 1 : Covered(k) \/ text[k] \in {" ", "*", "~"}

(* tokenize returns.                                                       *)
Terminates == <>(mode = "done")
=============================================================================
