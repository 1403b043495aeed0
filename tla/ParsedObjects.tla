---------------------------- MODULE ParsedObjects ----------------------------
(***************************************************************************)
(* What parseInput() builds, and gives back: the object of a rule that has *)
(* a handler, of the characters it matched, with the parts its collectors  *)
(* were given, in order; each of them such an object, or the characters of *)
(* a rule without a handler.                                               *)
(***************************************************************************)
EXTENDS Recognizers

Object(rule, begin, count, parts) ==
    [rule |-> rule, begin |-> begin, count |-> count, parts |-> parts]
Value(rule, begin, count) ==
    [rule |-> rule, begin |-> begin, count |-> count, value |-> TRUE]

(* The answer of a parse that has not ended.                               *)
NoOutcome == [size |-> NPos, object |-> <<>>]

==============================================================================
