------------------------------ MODULE Utf16Map ------------------------------
(***************************************************************************)
(* Utf16Map of src/utf16.rs: build counts the UTF-16 units of a text and   *)
(* marks where its lines start; a lookup walks from the start of a line.   *)
(* A byte is abstracted to what it says of its character.                  *)
(***************************************************************************)
EXTENDS Integers, Sequences, FiniteSetsExt

CONSTANT Sources  \* the texts, as sequences of bytes

\* A byte that continues a character, or starts one of one byte ("newline",
\* "ascii"), or of as many as its name says.
Bytes == {"newline", "ascii", "continuation", "two", "three", "four"}

Width(b) == CASE b = "two" -> 2 [] b = "three" -> 3 [] b = "four" -> 4 [] OTHER -> 1

\* Fault: a character outside of the BMP is taken for one unit.
UnitsNoPairs(b) == 1

Units(b) == IF b = "four" THEN 2 ELSE 1

\* The type &str promises UTF-8.
IsUtf8(s) ==
  /\ s \in Seq(Bytes)
  /\ s # <<>> => s[1] # "continuation"
  /\ \A n \in 1 .. Len(s) : s[n] # "continuation" =>
       /\ n + Width(s[n]) <= Len(s) + 1
       /\ \A k \in n + 1 .. n + Width(s[n]) - 1 : s[k] = "continuation"
       /\ n + Width(s[n]) <= Len(s) => s[n + Width(s[n])] # "continuation"

ASSUME SourcesAssumption == \A s \in Sources : IsUtf8(s)

NoOffset == -1

VARIABLES
  source,
  starts,      \* line_byte_starts and line_utf16_starts
  isAscii,     \* is_ascii
  total,       \* total_utf16_len
  task,        \* what goes on: "build", a "walk" of a lookup, or "idle"
  pos, units,  \* how far build or the walk has come, in bytes and in units
  asked,       \* the unit in which the last lookup gives its offset, or "none"
  target,      \* that offset
  answer,      \* what the lookup returned, or NoOffset
  origin       \* the offset, if any, whose translation is now translated back

map  == <<source, starts, isAscii, total>>
vars == <<source, starts, isAscii, total, task, pos, units, asked, target, answer, origin>>

-----------------------------------------------------------------------------
(* Both loops go on by a character.  In UTF-8, `.min(source.len())` in     *)
(* build never cuts a width.                                               *)
head == source[pos + 1]

Advance ==
  /\ pos' = pos + Width(head)
  /\ units' = units + Units(head)

Init ==
  /\ source \in Sources
  /\ starts = <<[byte |-> 0, unit |-> 0]>>
  /\ isAscii = TRUE
  /\ total = 0
  /\ task = "build"
  /\ pos = 0 /\ units = 0
  /\ asked = "none" /\ target = 0 /\ answer = NoOffset /\ origin = NoOffset

Newline ==
  /\ task = "build" /\ pos < Len(source)
  /\ head = "newline"
  /\ Advance
  /\ starts' = Append(starts, [byte |-> pos + 1, unit |-> units + 1])
  /\ UNCHANGED <<source, isAscii, total, task, asked, target, answer, origin>>

\* Fault: a character of several bytes that is one unit is taken for ASCII.
CharacterTwoIsAscii ==
  /\ task = "build" /\ pos < Len(source)
  /\ head # "newline"
  /\ Advance
  /\ isAscii' = (isAscii /\ head \in {"ascii", "two", "three"})
  /\ UNCHANGED <<source, starts, total, task, asked, target, answer, origin>>

Character ==
  /\ task = "build" /\ pos < Len(source)
  /\ head # "newline"
  /\ Advance
  /\ isAscii' = (isAscii /\ head = "ascii")
  /\ UNCHANGED <<source, starts, total, task, asked, target, answer, origin>>

Built ==
  /\ task = "build" /\ pos >= Len(source)
  /\ total' = units
  /\ task' = "idle"
  /\ UNCHANGED <<source, starts, isAscii, pos, units, asked, target, answer, origin>>

-----------------------------------------------------------------------------
(* A lookup: what is asked, then an answer at once or a walk.              *)
Answer(offset) ==
  /\ answer' = offset
  /\ UNCHANGED <<task, pos, units>>

\* Fault: every walk starts with the text.
WalkFromTop(line) ==
  /\ task' = "walk"
  /\ pos' = starts[1].byte /\ units' = starts[1].unit
  /\ answer' = NoOffset

WalkFrom(line) ==
  /\ task' = "walk"
  /\ pos' = starts[line].byte /\ units' = starts[line].unit
  /\ answer' = NoOffset

\* What binary_search finds in offsets that increase: the line that starts
\* at the offset, or else the last one that starts before it.
LineOfByte(offset) == Max({ n \in DOMAIN starts : starts[n].byte <= offset })
LineOfUnit(offset) == Max({ n \in DOMAIN starts : starts[n].unit <= offset })

ByteToUtf16(offset) ==
  /\ asked' = "byte" /\ target' = offset
  /\ \/ offset >= Len(source) /\ Answer(total)
     \/ offset < Len(source) /\ isAscii /\ Answer(offset)
     \/ offset < Len(source) /\ ~ isAscii /\ WalkFrom(LineOfByte(offset))

Utf16ToByte(offset) ==
  /\ asked' = "unit" /\ target' = offset
  /\ \/ isAscii /\ Answer(offset)
     \/ ~ isAscii /\ WalkFrom(LineOfUnit(offset))

\* A lookup of any offset, also inside a character or past the end.
Ask ==
  /\ task = "idle"
  /\ \/ \E offset \in 0 .. Len(source) + 1 : ByteToUtf16(offset)
     \/ \E offset \in 0 .. total + 1 : Utf16ToByte(offset)
  /\ origin' = NoOffset
  /\ UNCHANGED map

\* The answer is translated back: complete in semantic.rs tests a cursor so.
AskBack ==
  /\ task = "idle" /\ answer # NoOffset /\ origin = NoOffset
  /\ \/ asked = "unit" /\ ByteToUtf16(answer)
     \/ asked = "byte" /\ Utf16ToByte(answer)
  /\ origin' = target
  /\ UNCHANGED map

Short == pos < Len(source) /\ IF asked = "byte" THEN pos < target ELSE units < target

Walk ==
  /\ task = "walk" /\ Short
  /\ Advance
  /\ UNCHANGED <<map, task, asked, target, answer, origin>>

Arrive ==
  /\ task = "walk" /\ ~ Short
  /\ task' = "idle"
  /\ answer' = IF asked = "byte" THEN units ELSE pos
  /\ UNCHANGED <<map, pos, units, asked, target, origin>>

Next == Newline \/ Character \/ Built \/ Ask \/ AskBack \/ Walk \/ Arrive

Spec == Init /\ [][Next]_vars

-----------------------------------------------------------------------------
TypeOK ==
  /\ source \in Sources
  /\ starts \in Seq([byte : Nat, unit : Nat])
  /\ isAscii \in BOOLEAN
  /\ total \in Nat
  /\ task \in {"build", "idle", "walk"}
  /\ pos \in Nat /\ units \in Nat
  /\ asked \in {"none", "byte", "unit"}
  /\ target \in Nat
  /\ answer \in Nat \cup {NoOffset}
  /\ origin \in Nat \cup {NoOffset}

(* The offsets by counting: a unit for each character, and one more for    *)
(* each character of four bytes, that start before a byte.                 *)
Leads(p) == { n \in 1 .. p : source[n] # "continuation" }
Pairs(p) == { n \in 1 .. p : source[n] = "four" }
UnitsAt(p) == Cardinality(Leads(p)) + Cardinality(Pairs(p))

Clamped(offset) == IF offset > Len(source) THEN Len(source) ELSE offset

Boundaries == { p \in 0 .. Len(source) : p < Len(source) => source[p + 1] # "continuation" }

(* byte_to_utf16 gives the units of all characters that start before the   *)
(* byte, with the end of the text for what is past it.  utf16_to_byte      *)
(* gives the first character boundary with that many units before it; the  *)
(* second half of a pair is thus the end of its character.  For units past *)
(* the end it gives the length, or more on the path for ASCII: its caller  *)
(* (needs_full_reparse) takes the lesser of the answer and the length.     *)
LookupsExact ==
  task = "idle" /\ answer # NoOffset =>
    /\ asked = "byte" => answer = UnitsAt(Clamped(target))
    /\ asked = "unit" /\ target <= total =>
         /\ answer \in Boundaries
         /\ UnitsAt(answer) >= target
         /\ \A p \in Boundaries : p < answer => UnitsAt(p) < target
    /\ asked = "unit" /\ target > total => Clamped(answer) = Len(source)

(* There and back (the roundtrip test of utf16.rs, and complete in         *)
(* semantic.rs): a byte comes back if a character starts there, and a unit *)
(* comes back unless it is the second half of a pair.                      *)
RoundTrip ==
  task = "idle" /\ answer # NoOffset /\ origin # NoOffset =>
    /\ asked = "unit" /\ origin \in Boundaries => answer = origin
    /\ asked = "byte" /\ origin <= total =>
         (answer = origin <=> \E p \in Boundaries : UnitsAt(p) = origin)

(* A lookup walks the line it starts on and no further: the cost the       *)
(* comments on both functions promise, O(line_len).                        *)
WalkStaysInLine == [][task = "walk" /\ pos' > pos => head # "newline"]_vars
=============================================================================
