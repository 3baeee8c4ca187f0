----------------------------- MODULE MCUtf16Map -----------------------------
(***************************************************************************)
(* A small instance of Utf16Map: the texts of up to MaxCharacters          *)
(* characters.                                                             *)
(***************************************************************************)
EXTENDS Utf16Map, SequencesExt

CONSTANT MaxCharacters

Characters ==
  { <<"newline">>, <<"ascii">>, <<"two", "continuation">>, <<"three", "continuation", "continuation">>,
    <<"four", "continuation", "continuation", "continuation">> }

Texts == { FlattenSeq(characters) : characters \in BoundedSeq(Characters, MaxCharacters) }
=============================================================================
