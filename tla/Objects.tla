-------------------------------- MODULE Objects --------------------------------
(***************************************************************************)
(* The answer of parseInput(): the object that the winning path through    *)
(* the recognizers stands for, as handlers and collectors would build it   *)
(* if no other path were ever tried.                                       *)
(***************************************************************************)
EXTENDS Matching, ParsedObjects

(* es fed one after the other, and where each of them begins.             *)
Chained(match, es, pos) ==
    LET from[i \in Nat, p \in Nat] ==
            IF i > Len(es) THEN <<>>
            ELSE << <<es[i], p>> >> \o from[i + 1, p + match[es[i], p]]
    IN  from[1, pos]

(* What a matching recognizer feeds on the winning path.                   *)
Fed(match, r, input, pos) ==
    CASE Shape[r].kind = "text" -> <<>>
      [] Shape[r].kind \in {"sequence", "delegate"} -> Chained(match, Elements(r), pos)
      [] Shape[r].kind = "loop" ->
            Chained(match, [i \in DOMAIN Repetitions(match, r, input, pos) |-> Elements(r)[1]],
                    pos)
      [] OTHER -> << <<Elements(r)[Choice(match, r, pos)[1]], pos>> >>

(* Mutant: a rule is given to the collectors before what is inside it.     *)
OuterFirst(inside, itself) == itself \o inside

InnerFirst(inside, itself) == inside \o itself

(* collects[h, fed]: what an element with handler h is given for the       *)
(* recognizers fed: for each that h collects a value, or an object if it   *)
(* has a handler; and, when it has no handler, what is inside it.          *)
Collects(match, input) ==
    LET collects[h \in Handled, fed \in Seq(Recognizer \X Nat)] ==
            LET r      == Head(fed)[1]
                pos    == Head(fed)[2]
                size   == match[r, pos]
                inside == collects[IF r \in Handled THEN r ELSE h, Fed(match, r, input, pos)]
                itself == IF r \notin Collected[h] THEN <<>>
                          ELSE IF r \in Handled THEN <<Object(r, pos, size, inside)>>
                          ELSE <<Value(r, pos, size)>>
                first  == IF size <= 0 THEN <<>>
                          ELSE IF r \in Handled THEN itself
                          ELSE InnerFirst(inside, itself)
            IN  IF fed = <<>> THEN <<>> ELSE first \o collects[h, Tail(fed)]
    IN  collects

(* The answer of parseInput(): nothing when the rule matches nothing, and  *)
(* nothing when the whole input was asked for and was not matched.         *)
Meaning(req) ==
    LET match == Matches(req.input)
        size  == match[req.rule, 0]
        parts == Collects(match, req.input)[req.rule, Fed(match, req.rule, req.input, 0)]
    IN  [size |-> size,
         object |-> IF size <= 0 \/ (req.full /\ size # Len(req.input))
                    THEN <<>>
                    ELSE <<Object(req.rule, 0, size, parts)>>]

==============================================================================
