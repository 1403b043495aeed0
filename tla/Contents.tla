------------------------------ MODULE Contents ------------------------------
(***************************************************************************)
(* What parseInput() is to build, as judgements <<handler, recognizer,     *)
(* place, parts>>: the parts that an element with the handler is given by  *)
(* the recognizer at the place.  As for the answers of feed(), they are    *)
(* the least set that has all that follows, by the rule of each kind of    *)
(* recognizer, from what is in it: there is no context, no branch and no   *)
(* assignment, and nothing that a path not taken leaves behind.            *)
(***************************************************************************)
EXTENDS Judgements, ParsedObjects

(* The parts of objects: those that are nested less than k deep, and all.  *)
Over(X) ==
    {Value(r, p, n) : r \in Recognizer, p \in Nat, n \in Nat}
       \cup {Object(r, p, n, x) : r \in Recognizer, p \in Nat, n \in Nat, x \in Seq(X)}

Nested[k \in Nat] == IF k = 0 THEN {} ELSE Over(Nested[k - 1])

Part == UNION {Nested[k] : k \in Nat}

Giving == Handled \X Recognizer \X Nat \X Seq(Part)

(* What an element with the handler h is given for r, that matches n       *)
(* characters and has the parts x inside.                                  *)
Itself(h, r, p, n, x) ==
    IF r \notin Collected[h] THEN <<>>
    ELSE IF r \in Handled THEN <<Object(r, p, n, x)>> ELSE <<Value(r, p, n)>>

(* got[i] is what the first i elements of r gave, that ended at ends[1] .. *)
(* ends[i]: one after the other.                                           *)
Gets(G, h, r, k, ends, got) ==
    /\ got \in [0..k -> Seq(Part)]
    /\ got[0] = <<>>
    /\ \A i \in 1..k : \E y \in Seq(Part) :
          <<h, ElementAt(r, i), ends[i - 1], y>> \in G /\ got[i] = got[i - 1] \o y

Collects(G, M, h, r, p, k, ends, x) ==
    /\ Trail(M, r, p, k, ends)
    /\ \E got \in [0..k -> Seq(Part)] : Gets(G, h, r, k, ends, got) /\ x = got[k]

(* The first of the alternatives that match some characters ...            *)
IsFirst(M, r, p, i) ==
    LET es == Shape[r].elements
    IN  /\ i \in 1..Len(es) /\ Refused(M, r, p, i - 1)
        /\ \E n \in Nat : n > 0 /\ <<es[i], p, n>> \in M

(* ... and the first of those that match the most.                         *)
IsLongest(M, r, p, i) ==
    LET es == Shape[r].elements
    IN  \E n \in Nat :
           /\ i \in 1..Len(es) /\ <<es[i], p, n>> \in M
           /\ \A j \in 1..Len(es) : \E m \in Matched :
                 <<es[j], p, m>> \in M /\ m <= n /\ (j < i => m < n)

(* The parts inside a match of r at the place p of the text s.             *)
Inside(G, s, h, r, p, x) ==
    LET es == Shape[r].elements
        M  == Meant(s)
    IN  CASE Shape[r].kind = "text"      -> x = <<>>
          [] Shape[r].kind = "delegate"  -> <<h, es[1], p, x>> \in G
          [] Shape[r].kind = "sequence"  ->
                \E ends \in [0..Len(es) -> Nat] : Collects(G, M, h, r, p, Len(es), ends, x)
          [] Shape[r].kind = "loop"      ->
                \E k \in Nat : \E ends \in [0..k -> Nat] :
                   /\ Collects(G, M, h, r, p, k, ends, x)
                   /\ \A i \in 1..k : LoopGoesOn(r, i - 1, s, ends[i - 1])
                   /\ \/ ~LoopGoesOn(r, k, s, ends[k])
                      \/ <<ElementAt(r, k + 1), ends[k], NPos>> \in M
          [] Shape[r].kind = "exclusive" ->
                \E i \in 1..Len(es) : IsFirst(M, r, p, i) /\ <<h, es[i], p, x>> \in G
          [] Shape[r].kind = "selector"  ->
                \E i \in 1..Len(es) : IsLongest(M, r, p, i) /\ <<h, es[i], p, x>> \in G

(* What is given: nothing for no character; a rule with a handler keeps    *)
(* for itself what is inside it, any other gives it away, before itself.   *)
Gives(G, s, h, r, p, x) ==
    \E n \in Matched :
       /\ <<r, p, n>> \in Meant(s)
       /\ n <= 0 => x = <<>>
       /\ n > 0 => \E y \in Seq(Part) :
             IF r \in Handled THEN Inside(G, s, r, r, p, y) /\ x = Itself(h, r, p, n, y)
             ELSE Inside(G, s, h, r, p, y) /\ x = y \o Itself(h, r, p, n, y)

Complete(G, s) ==
    \A h \in Handled, r \in Recognizer, p \in Nat, x \in Seq(Part) :
        Gives(G, s, h, r, p, x) => <<h, r, p, x>> \in G

Gifts(s) == {x \in Giving : \A G \in SUBSET Giving : Complete(G, s) => x \in G}

(* What parseInput() may answer: the size of a match of the rule, and the  *)
(* object of what is inside; no object when nothing is matched, or not the *)
(* whole input where it was asked for.                                     *)
Result == [size : Matched, object : Seq(Part)]

RightAnswers(req) ==
    {a \in Result :
        /\ <<req.rule, 0, a.size>> \in Meant(req.input)
        /\ IF a.size <= 0 \/ (req.full /\ a.size # Len(req.input))
           THEN a.object = <<>>
           ELSE \E x \in Seq(Part) :
                   /\ Inside(Gifts(req.input), req.input, req.rule, req.rule, 0, x)
                   /\ a.object = <<Object(req.rule, 0, a.size, x)>>}

==============================================================================
