------------------------------ MODULE MCLexer ------------------------------
(***************************************************************************)
(* Small instances of Lexer: every text of two pieces.                     *)
(***************************************************************************)
EXTENDS Lexer, SequencesExt

Pieces ==
  { <<c>> : c \in {"nl", " ", "#", "tick", "*", "~", "_", "a", "=", "<", "]", "|"} }
  \cup { <<"tick", "tick", "tick">>, <<"-", " ">>, <<"1", ".", " ">>, <<">", " ">>, <<"[", "^", "a", "]", ":">>,
         <<"!", "[", "]", "(", "scheme", "a", ")">>, <<"-", " ", "[", "x", "]", " ">>,
         <<"=", "=", "disc">>, <<"<", "u", ">">>, <<"<", "/", "u", ">">>, <<"[", "[">> }

PieceTexts == { a \o b : a \in Pieces, b \in Pieces }
=============================================================================
