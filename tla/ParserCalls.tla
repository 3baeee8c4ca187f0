---------------------------- MODULE ParserCalls ----------------------------
(***************************************************************************)
(* The calls of a CindermarkParser (src/lib.rs), and what each does to the *)
(* snapshot it keeps.  A text is a value: what matters is whose blocks the *)
(* snapshot holds.                                                         *)
(***************************************************************************)
CONSTANTS
  Texts,  \* the texts of a host
  None    \* no snapshot

ASSUME CallsAssumption == None \notin [text : Texts, sound : BOOLEAN]

\* The snapshot is of the text of the last call that stored one; it is sound
\* when its blocks are those of that text.
Snapshots == [text : Texts, sound : BOOLEAN] \cup {None}

\* parse, parse_editable, reset_state, and the two incremental calls, which
\* report the edit that made text from base.
Requests ==
  [op : {"parse", "parse_editable", "reset_state", "incremental"}, base : Texts, text : Texts]

Answers == {"right", "wrong", "panic"}

Outcome(answer, snapshot) == [answer |-> answer, snapshot |-> snapshot]

\* Fault: reset_state keeps an empty snapshot instead of none.
OutcomesEmptyReset(snapshot, request) ==
  { Outcome("right", [text |-> None, sound |-> TRUE]) }

\* incremental_update finds the old blocks by the reported edit and slices
\* the text by their offsets.  Offsets of another text find the wrong blocks
\* or fall between the bytes of a character, where slicing panics; only the
\* fallback to a full parse makes such a snapshot sound again.
Outcomes(snapshot, request) ==
  LET sound  == [text |-> request.text, sound |-> TRUE]
      broken == [text |-> request.text, sound |-> FALSE]
  IN  CASE request.op = "parse"          -> { Outcome("right", snapshot) }
        [] request.op = "parse_editable" -> { Outcome("right", sound) }
        [] request.op = "reset_state"    -> { Outcome("right", None) }
        [] request.op = "incremental"    ->
             IF snapshot \in {None, [text |-> request.base, sound |-> TRUE]}
             THEN { Outcome("right", sound) }
             ELSE { Outcome("right", sound), Outcome("wrong", broken), Outcome("panic", snapshot) }
=============================================================================
