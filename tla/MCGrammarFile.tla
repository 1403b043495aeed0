----------------------------- MODULE MCGrammarFile -----------------------------
(***************************************************************************)
(* Grammars of three rules named "a", "aa" and "ab": the last two become   *)
(* the name of another rule when they are cut.  Each is one of a few       *)
(* bodies that together have every kind of recognizer, nested, and         *)
(* references to itself and to the others, before and after them in the    *)
(* text.                                                                   *)
(***************************************************************************)
EXTENDS GrammarFile

MCChar  == {1, 2}
MCMagic == <<2, 1>>
MCBytes == 4

Names == << <<1>>, <<1, 1>>, <<1, 2>> >>

(* A body: its recognizers, the first one that of the rule.  An element is *)
(* one of them, or one of the two other rules.                             *)
NextOne  == 8
OtherOne == 9
Inside(kind, value, elements) == Node(kind, Empty, value, elements)

Bodies == {
    << Inside("literal", << <<1, 2>> >>, <<>>) >>,
    << Inside("range", <<1, 3>>, <<>>) >>,
    << Inside("sequence", <<>>, <<NextOne, OtherOne>>) >>,
    << Inside("selector", <<1>>, <<NextOne, 2>>), Inside("literal", << <<2>> >>, <<>>) >>,
    << Inside("selector", <<0>>, <<2, OtherOne>>), Inside("sequence", <<>>, <<3, NextOne>>),
       Inside("range", <<0, 0>>, <<>>) >>,
    << Inside("loop", <<0, -1>>, <<2>>), Inside("selector", <<0>>, <<3, OtherOne>>),
       Inside("literal", << <<2, 1>> >>, <<>>) >>,
    << Inside("loop", <<1, 2>>, <<OtherOne>>) >>,
    << Inside("alias", <<>>, <<NextOne>>) >> }

OtherRule(n, e) == IF e = NextOne THEN 1 + (n % 3) ELSE 1 + ((n + 1) % 3)

(* Recognizers are <<n, k>>: the k-th of the rule n; <<n, 0>> is a pointer *)
(* to the rule n, for those that are used before they are defined in a     *)
(* text in the given order.  unnamed is a rule that was the extension of   *)
(* another (extendRule() takes its name away), if any.                     *)
Built3(bodies, before(_, _), unnamed) ==
    LET element(n, e) ==
            LET m == OtherRule(n, e)
            IN  IF e \in 1..3 THEN <<n, e>>
                ELSE IF before(m, n) THEN <<m, 1>> ELSE <<m, 0>>
        ids == UNION {{<<n, k>> : k \in 0..Len(bodies[n])} : n \in 1..3}
    IN  [heap |-> [i \in ids |->
            IF i[2] = 0 THEN Node("pointer", Empty, <<>>, << <<i[1], 1>> >>)
            ELSE LET b == bodies[i[1]][i[2]]
                 IN  [b EXCEPT !.name = IF i[2] = 1 /\ i[1] # unnamed THEN Names[i[1]] ELSE Empty,
                               !.elements = [k \in DOMAIN b.elements |->
                                                element(i[1], b.elements[k])]]],
         rules |-> [n \in 1..3 |-> <<Names[n], <<n, 1>> >>]]

Sorted(m, n)   == m < n
Reversed(m, n) == m > n

Leaves  == {b \in Bodies : b[1].kind \in {"literal", "range"}}
Leading == {b \in Bodies : b[1].kind \in {"sequence", "alias", "loop"}}

MCGrammars ==
    {Built3(<<b1, b2, b3>>, Sorted, 0) : b1, b2, b3 \in Bodies}
        \cup {Built3(<<b1, b2, b3>>, Reversed, 0) : b1, b2, b3 \in Leading}
        \cup {Built3(<<b1, b2, b3>>, Sorted, 2) : b1, b3 \in Leading, b2 \in Leaves}
===============================================================================
