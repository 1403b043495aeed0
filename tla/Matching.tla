------------------------------- MODULE Matching -------------------------------
(***************************************************************************)
(* What each kind of recognizer means, as functions of the recognizer and  *)
(* the place in the input: a sequence, a loop and an exclusive selector    *)
(* take the first way that works and never come back to it; a selector     *)
(* takes the longest alternative, the first of them when several are as    *)
(* long.  match is the meaning of all the recognizers at all the places.   *)
(***************************************************************************)
EXTENDS Recognizers

Elements(r) == Shape[r].elements

(* The alternative a selector takes, and its size.                         *)
Choice(match, r, pos) ==
    LET exclusive == Shape[r].kind = "exclusive"
        answers   == {<<i, match[Elements(r)[i], pos]>> : i \in DOMAIN Elements(r)}
        fit       == {a \in answers : IF exclusive THEN a[2] > 0 ELSE a[2] # NPos}
        best      == {a \in fit : exclusive \/ \A other \in fit : other[2] <= a[2]}
    IN  IF best = {} THEN <<0, NPos>>
        ELSE CHOOSE a \in best : \A other \in best : a[1] <= other[1]

(* The elements of a sequence, each where the last one ends.               *)
InSequence(match, r, pos) ==
    LET from[i \in Nat, total \in Nat] ==
            LET size == match[Elements(r)[i], pos + total]
            IN  IF i > Len(Elements(r)) THEN total
                ELSE IF size = NPos THEN NPos ELSE from[i + 1, total + size]
    IN  from[1, 0]

(* The sizes of a loop's repetitions.                                      *)
Repetitions(match, r, input, pos) ==
    LET from[done \in Nat, p \in Nat] ==
            LET size == IF LoopGoesOn(r, done, input, p)
                        THEN match[Elements(r)[1], p] ELSE NPos
            IN  IF size = NPos THEN <<>> ELSE <<size>> \o from[done + 1, p + size]
    IN  from[0, pos]

Total(sizes) == FoldFunction(+, 0, sizes)

Matches(input) ==
    LET match[r \in Recognizer, pos \in Nat] ==
            CASE Shape[r].kind = "text"     -> MatchText(r, input, pos)
              [] Shape[r].kind = "delegate" -> match[Elements(r)[1], pos]
              [] Shape[r].kind = "sequence" -> InSequence(match, r, pos)
              [] Shape[r].kind = "loop"     ->
                    LET sizes == Repetitions(match, r, input, pos)
                    IN  IF Len(sizes) < Shape[r].min THEN NPos ELSE Total(sizes)
              [] OTHER                      -> Choice(match, r, pos)[2]
    IN  match

==============================================================================
