------------------------------ MODULE MCInline ------------------------------
(***************************************************************************)
(* Small instances of Inline, with the tokens and the preview behind it:   *)
(* every text of a few pieces, from one of several alphabets, each around  *)
(* one hazard.                                                             *)
(***************************************************************************)
EXTENDS Preview, SequencesExt

\* Every sequence of n pieces, put together.
Joined(pieces, n) == { FlattenSeq(p) : p \in [1 .. n -> pieces] }

\* Emphasis, alone and with underlines.
Stars  == { <<"*">>, <<"a">>, <<" ">>, <<".">> }
Runs   == { <<"*">>, <<"*", "*">>, <<"*", "a">>, <<"*", "*", "a">> }
Pluses == { <<"+", "+">>, <<"*">>, <<"a">>, <<" ">> }

\* Formulas among claims.
Dollars == { <<"$">>, <<"a">>, <<"tick">>, <<"+", "+">> }
Opaque  == { <<"$">>, <<"%", "%">>, <<"a">>, <<"nl">>, <<"[", "[">>, <<"]", "]">>, <<"1">> }

\* Formulas that start in a label.
Labelled == { <<"$">>, <<"a">>, <<"[">>, <<"]", "(">>, <<")">> }

\* Links, their labels and their addresses.
Links  == { <<"[">>, <<"]", "(">>, <<")">>, <<"+", "+">> }
Images == { <<"!">>, <<"[">>, <<"]", "(", ")">>, <<"+", "+", "a">>, <<"a", "+", "+">> }

\* What claims a range, some around others.
Claims ==
  { <<"tick">>, <<"[">>, <<"]", "(", "a", ")">>, <<"%", "%">>, <<"[", "[">>, <<"|">>, <<"]", "]">>, <<"$">>,
    <<"http", ":", "/", "/", "a">>, <<"a", "@", "a", ".", "com">>, <<"<">>, <<">">> }
Crossed == { <<"tick">>, <<"[">>, <<"]", "(", "a", ")">>, <<"%", "%">>, <<"$">> }

\* Addresses.
Addresses ==
  { <<"http", ":", "/", "/">>, <<"a", ".", "com">>, <<"@">>, <<"r", "/">>, <<"a", "a">>, <<"<">>, <<">">>,
    <<" ">>, <<"(">>, <<")">> }

\* Tags and comments over underlines.
Tags ==
  { <<"<", "a">>, <<">">>, <<"quote">>, <<"+", "+", "a">>, <<"+", "+">>, <<"<", "!", "-", "-">>,
    <<"-", "-", ">">> }

\* The other pairs.
Others ==
  { <<"=", "=">>, <<"~">>, <<"~", "~">>, <<"{", "#", "a", "a", "a", "}">>, <<"#", "a", "a", "1">>, <<"a">>,
    <<"[", "^">>, <<"]">>, <<":">>, <<"<", "u", ">">>, <<"<", "/", "u", ">">>, <<"bslash">>, <<"|">> }

\* Tokens, and what surrounds them.
Names  == { <<"#">>, <<"#", "a", "a", "a">>, <<"x">>, <<"-">>, <<" ">>, <<":">> }
Around ==
  { <<"#", "x">>, <<" ", "@", "x">>, <<" ", "#", "a", "a", "a">>, <<"*">>, <<"tick">>, <<"%", "%">>,
    <<"bslash">>, <<"<", "a">>, <<">">>, <<"disc">>, <<"$">> }

SmallTexts ==
  Joined(Stars, 5) \cup Joined(Runs, 4) \cup Joined(Pluses, 5) \cup Joined(Dollars, 5)
  \cup Joined(Opaque, 4) \cup Joined(Labelled, 6) \cup Joined(Links, 5) \cup Joined(Images, 4) \cup Joined(Claims, 3) \cup Joined(Crossed, 4)
  \cup Joined(Addresses, 3) \cup Joined(Tags, 4) \cup Joined(Others, 3)
  \cup Joined(Names, 4) \cup Joined(Around, 3)
=============================================================================
