----------------------------- MODULE Judgements ------------------------------
(***************************************************************************)
(* What feed() is to answer, as a set of judgements <<recognizer, place,   *)
(* size>>: the least one that has every answer which follows, by the rule  *)
(* of its kind of recognizer, from answers in the set. Nothing is said of  *)
(* how an answer is found: there is no activation, no stack and no order   *)
(* of steps, and no recursion that a grammar could run into for ever.      *)
(* Likewise Derivable, the language that the answers are a part of.        *)
(***************************************************************************)
EXTENDS Recognizers

(* What matching means, for any grammar: a recognizer r at the place p of  *)
(* the input s answers n.                                                  *)
Judgement == Recognizer \X Nat \X Matched

(* ends[i] is where the first i elements of r have arrived: each begins    *)
(* where the one before it ended.  A loop has its element over and over.   *)
ElementAt(r, i) == Shape[r].elements[IF Shape[r].kind = "loop" THEN 1 ELSE i]

Trail(S, r, p, k, ends) ==
    /\ ends \in [0..k -> Nat]
    /\ ends[0] = p
    /\ \A i \in 1..k : /\ ends[i - 1] <= ends[i]
                       /\ <<ElementAt(r, i), ends[i - 1], ends[i] - ends[i - 1]>> \in S

(* All the elements, or up to one that does not match.                     *)
InOrder(S, r, p, n) ==
    LET es == Shape[r].elements
    IN  \E k \in 0..Len(es) : \E ends \in [0..k -> Nat] :
            /\ Trail(S, r, p, k, ends)
            /\ \/ k = Len(es) /\ n = ends[k] - p
               \/ k < Len(es) /\ <<es[k + 1], ends[k], NPos>> \in S /\ n = NPos

(* As many repetitions as there can be; fewer than min are none.           *)
Repeats(S, s, r, p, n) ==
    \E k \in Nat : \E ends \in [0..k -> Nat] :
        /\ Trail(S, r, p, k, ends)
        /\ \A i \in 1..k : LoopGoesOn(r, i - 1, s, ends[i - 1])
        /\ ~LoopGoesOn(r, k, s, ends[k]) \/ <<ElementAt(r, k + 1), ends[k], NPos>> \in S
        /\ n = IF k < Shape[r].min THEN NPos ELSE ends[k] - p

(* The first k alternatives match nothing, or 0 characters.                *)
Refused(S, r, p, k) ==
    \A i \in 1..k : \E m \in {NPos, 0} : <<Shape[r].elements[i], p, m>> \in S

(* The first alternative that matches some characters.                     *)
FirstOf(S, r, p, n) ==
    LET es == Shape[r].elements
    IN  \/ n = NPos /\ Refused(S, r, p, Len(es))
        \/ n > 0 /\ \E i \in 1..Len(es) : Refused(S, r, p, i - 1) /\ <<es[i], p, n>> \in S

(* n is the most that the first k alternatives match.                      *)
Longest(S, r, p, k, n) ==
    \E m \in [1..k -> Matched] :
        /\ \A i \in 1..k : <<Shape[r].elements[i], p, m[i]>> \in S /\ m[i] <= n
        /\ n = NPos \/ \E i \in 1..k : n = m[i]

(* What follows from the answers in S.                                     *)
Follows(S, s, r, p, n) ==
    CASE Shape[r].kind = "text"      -> n = MatchText(r, s, p)
      [] Shape[r].kind = "delegate"  -> <<Shape[r].elements[1], p, n>> \in S
      [] Shape[r].kind = "sequence"  -> InOrder(S, r, p, n)
      [] Shape[r].kind = "loop"      -> Repeats(S, s, r, p, n)
      [] Shape[r].kind = "exclusive" -> FirstOf(S, r, p, n)
      [] Shape[r].kind = "selector"  -> Longest(S, r, p, Len(Shape[r].elements), n)

(* The answers that follow from others, in finitely many steps: the least  *)
(* set that all that follows from it is in.                                *)
Closed(S, s) ==
    \A r \in Recognizer, p \in Nat, n \in Matched :
        Follows(S, s, r, p, n) => <<r, p, n>> \in S

Meant(s) == {x \in Judgement : \A S \in SUBSET Judgement : Closed(S, s) => x \in S}

(* The language of the grammar, which knows no order of attempts: all that *)
(* a recognizer could stand for at a place, where a sequence and a loop may*)
(* go on with any match of an element, and a selector with any alternative.*)
Yields(D, s, r, p, n) ==
    LET es == Shape[r].elements
    IN  CASE Shape[r].kind = "text"      -> n = MatchText(r, s, p)
          [] Shape[r].kind = "delegate"  -> <<es[1], p, n>> \in D
          [] Shape[r].kind = "sequence"  ->
                \E ends \in [0..Len(es) -> Nat] :
                   Trail(D, r, p, Len(es), ends) /\ ends[Len(es)] = p + n
          [] Shape[r].kind = "loop"      ->
                \E k \in Nat : \E ends \in [0..k -> Nat] :
                   /\ Shape[r].min <= k /\ (Shape[r].max # Unbounded => k <= Shape[r].max)
                   /\ Trail(D, r, p, k, ends) /\ ends[k] = p + n
          [] OTHER                       -> \E i \in 1..Len(es) : <<es[i], p, n>> \in D

Derivation == Recognizer \X Nat \X Nat

Derived(D, s) ==
    \A r \in Recognizer, p \in Nat, n \in Nat : Yields(D, s, r, p, n) => <<r, p, n>> \in D

Derivable(s) == {x \in Derivation : \A D \in SUBSET Derivation : Derived(D, s) => x \in D}

==============================================================================
