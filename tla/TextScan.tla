------------------------------ MODULE TextScan ------------------------------
(***************************************************************************)
(* The small loops that every scanner of the crate is made of: skipping a  *)
(* run of one kind of character, and looking for the next one.  A text is  *)
(* a sequence of characters.  Positions count from 1, and the end of a     *)
(* range is the position behind it.                                        *)
(***************************************************************************)
EXTENDS Integers, Sequences, FiniteSetsExt

\* "No position".
None == 0

\* Behind the run of characters of C that starts at p, if any.
SkipOver(s, p, C) == Min({ m \in p .. Len(s) + 1 : m <= Len(s) => s[m] \notin C })

\* The next character of C from p on, or the end of the text.
SkipTo(s, p, C) == Min({ m \in p .. Len(s) + 1 : m <= Len(s) => s[m] \in C })

Is(s, p, c) == p \in 1 .. Len(s) /\ s[p] = c

IsIn(s, p, C) == p \in 1 .. Len(s) /\ s[p] \in C

\* `starts_with`: the text reads w at p.
Reads(s, p, w) == \A k \in 1 .. Len(w) : Is(s, p + k - 1, w[k])
=============================================================================
