----------------------------- MODULE InlineText -----------------------------
(***************************************************************************)
(* The text that src/inline.rs scans: its characters by what the scanners  *)
(* tell apart, escapes, and when a run of delimiters opens or closes.      *)
(*                                                                         *)
(* A symbol is one character, except for words: "com", "http" (for either  *)
(* scheme), "red", "color" and "CDATA" are as many letters as they have.   *)
(* "a" is the letter that is also a hexadecimal digit, and "1" a digit.    *)
(* "disc" is the emoji of a highlight colour, "object" the character that  *)
(* stands for an attachment, "nbsp" a blank and "dash" a punctuation mark  *)
(* outside of ASCII, "nl" a line end, "tick" a backtick.                   *)
(***************************************************************************)
EXTENDS TextScan, FiniteSets

Letters      == {"a", "r", "u", "x", "com", "http", "red", "color", "CDATA"}
Digits       == {"1"}
HexDigits    == {"a", "1"}
Alphanumeric == Letters \cup Digits
Blanks       == {" ", "nl"}
Whitespace   == Blanks \cup {"nbsp"}
Punctuation  ==
  { "tick", "%", "[", "]", "|", "(", ")", "!", "<", ">", "/", "@", ".", ",", "-", ":", ";", "#", "*",
    "_", "+", "$", "~", "=", "{", "}", "^", "?", "bslash", "quote", "apos", "dash", "disc", "object" }
Characters   == Alphanumeric \cup Whitespace \cup Punctuation

\* The letters of s from p to before q.
Size(s, p, q) ==
  LET words(w) == Cardinality({ k \in p .. q - 1 : s[k] \in w })
  IN  q - p + 2 * words({"com", "red"}) + 3 * words({"http"}) + 4 * words({"color", "CDATA"})

\* The start of the run of characters of C that ends before p, or p.
SkipBack(s, p, C) == Min({ m \in 1 .. p : \A k \in m .. p - 1 : s[k] \in C })

\* is_escaped: an odd number of backslashes stands before p.
Escaped(s, p) == (p - SkipBack(s, p, {"bslash"})) % 2 = 1

\* The unescaped places from p on that read w.
Places(s, p, w) == { k \in p .. Len(s) : Reads(s, k, w) /\ ~ Escaped(s, k) }

\* The characters c from p to q, both included.
Count(s, p, q, c) == Cardinality({ k \in p .. q : s[k] = c })

\* Where the bracket that opens at p is closed, counting the ones in between.
Closings(s, p, opening, closing) ==
  { k \in p .. Len(s) : s[k] = closing /\ Count(s, p, k, opening) = Count(s, p, k, closing) }

-----------------------------------------------------------------------------
(* Flanking.  The end of a text counts as a blank.                         *)

IsBlank(s, p) == p \in 1 .. Len(s) => s[p] \in Whitespace
IsMark(s, p)  == IsIn(s, p, Punctuation)

\* Of the delimiters from p to before q: text follows, or text precedes.
LeftFlanking(s, p, q) ==
  ~ IsBlank(s, q) /\ (IsMark(s, q) => IsBlank(s, p - 1) \/ IsMark(s, p - 1))
RightFlanking(s, p, q) ==
  ~ IsBlank(s, p - 1) /\ (IsMark(s, p - 1) => IsBlank(s, q) \/ IsMark(s, q))

\* Of asterisks the left neighbour is the one of the whole run, escaped ones included.
StarsOpen(s, q)     == LeftFlanking(s, SkipBack(s, q, {"*"}), q)
StarsClose(s, p)    == RightFlanking(s, p, SkipOver(s, p, {"*"}))

\* Pluses do not open or close within a word.
PlusesOpen(s, p, q) ==
  LeftFlanking(s, p, q) /\ (RightFlanking(s, p, q) => IsMark(s, p - 1))
PlusesClose(s, p, q) ==
  RightFlanking(s, p, q) /\ (LeftFlanking(s, p, q) => IsMark(s, q))
=============================================================================
