------------------------------- MODULE Language -------------------------------
(***************************************************************************)
(* The language of an ABNF text, as RFC 5234 gives it: alternatives in no  *)
(* order, repetitions of any number, strings without case.                 *)
(* Ends(input)[x, pos] are the places where a string of node x that begins *)
(* at pos may end.  It is a relation where feed() is a function: that      *)
(* feed() stays inside it is a property of the recognizers, and of how     *)
(* they are built.                                                         *)
(***************************************************************************)
EXTENDS Integers, Sequences, SequencesExt

CONSTANTS Tree, RuleList, Lower

(* Where a text ends, each of whose characters one of the sets accepts.    *)
EndsOfText(input, accepts(_, _), size, pos) ==
    IF pos + size <= Len(input) /\ \A k \in 1..size : accepts(k, input[pos + k])
    THEN {pos + size} ELSE {}

(* Where the parts of a concatenation end, one after the other.            *)
EndsInOrder(ends, parts, pos) ==
    FoldLeft(LAMBDA from, x : UNION {ends[x, p] : p \in from}, {pos}, parts)

(* Where the n-th and later repetitions end, at least min and at most max  *)
(* of them (any number if max is -1).  Beyond the minimum, repetitions     *)
(* that reach no new place add nothing.                                    *)
EndsOfRepetition(ends, x, min, max, pos) ==
    LET after[n \in Nat, from \in SUBSET Nat, known \in SUBSET Nat] ==
            LET next == UNION {ends[x, p] : p \in from}
                all  == IF n >= min THEN known \cup from ELSE known
            IN  IF from = {} \/ n = max \/ (n >= min /\ from \subseteq known)
                THEN all
                ELSE after[n + 1, next, all]
    IN  after[0, {pos}, {}]

Alternations(name) == {s.alternation : s \in {t \in Range(RuleList) : t.name = name}}

(* What is repeated how often: "3a" is three, "a" is one.                  *)
Least(value) == IF value = <<>> THEN 1 ELSE IF value[3] = -1 THEN value[1] ELSE value[3]
Most(value)  == IF value = <<>> THEN 1 ELSE IF value[3] = -1 THEN value[2] ELSE value[3]

Ends(input) ==
    LET ends[x \in DOMAIN Tree, pos \in Nat] ==
            LET n     == Tree[x]
                v     == n.value
                parts == n.parts
            IN  CASE n.node \in {"alternation", "group"} -> UNION {ends[y, pos] : y \in Range(parts)}
                  [] n.node = "concatenation" -> EndsInOrder(ends, parts, pos)
                  [] n.node = "repetition" ->
                        EndsOfRepetition(ends, parts[1], Least(v), Most(v), pos)
                  [] n.node = "option"   -> {pos} \cup ends[parts[1], pos]
                  [] n.node = "rulename" -> UNION {ends[y, pos] : y \in Alternations(v[1])}
                  [] n.node = "char-val" ->
                        EndsOfText(input, LAMBDA k, c : Lower[c] = Lower[v[k]], Len(v), pos)
                  [] n.node = "num-val"  ->
                        EndsOfText(input, LAMBDA k, c : c = v[k], Len(v), pos)
                  [] n.node = "range"    ->
                        EndsOfText(input, LAMBDA k, c : c \in v[1], 1, pos)
    IN  ends

EndsOfRule(input, name) == UNION {Ends(input)[x, 0] : x \in Alternations(name)}

==============================================================================
