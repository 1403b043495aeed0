------------------------------ MODULE AbnfReader ------------------------------
(***************************************************************************)
(* ABNFGrammarBuilder: the Parser of the grammar of ABNF, its handlers and *)
(* collectors, and the tree of ABNF nodes that they build from a text.     *)
(***************************************************************************)
EXTENDS AbnfGrammar

(* Each rule that has a handler, and the rules that it collects.           *)
ABNFGrammarBuilder ==
    "rulelist" :> {"rule"} @@ "rule" :> {"rulename", "defined-as", "alternation"} @@
    "alternation" :> {"concatenation"} @@ "concatenation" :> {"repetition"} @@
    "repetition" :> {"repeat", "repeat-min", "repeat-max", "repeat-count", "element"} @@
    "element" :> {"rulename", "group", "option", "char-val", "num-val", "prose-val"} @@
    "group" :> {"alternation"} @@ "option" :> {"alternation"} @@
    "num-val" :> {"bin-val", "hex-val", "dec-val"}

AbnfRule(name)   == <<name>>
AbnfHandled      == {AbnfRule(name) : name \in DOMAIN ABNFGrammarBuilder}
AbnfCollected    == [r \in AbnfHandled |-> {AbnfRule(name) : name \in ABNFGrammarBuilder[r[1]]}]
AbnfParser(shape, handled, collected) == INSTANCE Objects WITH
    Shape <- shape, Rule <- {r \in DOMAIN shape : Len(r) = 1},
    Handled <- handled, Collected <- collected

Parsed(text) ==
    AbnfParser(ABNFGrammar, AbnfHandled, AbnfCollected)!Meaning(
        [rule |-> AbnfRule("rulelist"), input |-> Chars(text), full |-> FALSE])

----------------------------------------------------------------------------
(* What is assigned to an object, and the characters of one assignment.    *)
Assigned(object, name) == SelectSeq(object.parts, LAMBDA p : p.rule = AbnfRule(name))
Slice(text, part) == SubSeq(text, part.begin + 1, part.begin + part.count)

(* atoll() and strtol() of digits.                                         *)
Digits == Chars("0123456789abcdef")
Number(digits, base) ==
    FoldLeft(LAMBDA n, c : n * base + (CHOOSE k \in DOMAIN Digits : Digits[k] = Lower[c]) - 1,
             0, Chars(digits))

(* The last assignment of a number, if there is one.                       *)
Assignment(text, object, name, default) ==
    LET parts == Assigned(object, name)
    IN  IF parts = <<>> THEN default ELSE Number(Slice(text, Last(parts)), 10)

Node(node, value, parts) == [node |-> node, value |-> value, parts |-> parts]

(* A letter for the base, then two numbers and a dash between, or numbers  *)
(* and dots.                                                               *)
parseValues(val, base) ==
    LET Find(c, from) == {k \in from..Len(val) : SubSeq(val, k, k) = c}
        numbers[from \in Nat] ==
            LET dots == Find(".", from)
                end  == IF dots = {} THEN Len(val) + 1 ELSE Min(dots)
            IN  <<CharOf(Number(SubSeq(val, from, end - 1), base))>>
                \o IF dots = {} THEN <<>> ELSE numbers[end + 1]
        dash == Min(Find("-", 1))
    IN  IF Find("-", 1) = {} THEN Node("num-val", numbers[2], <<>>)
        ELSE Node("range", <<Between(Number(SubSeq(val, 2, dash - 1), base),
                                     Number(SubSeq(val, dash + 1, Len(val)), base))>>, <<>>)

Base(name) == CASE name = "bin-val" -> 2 [] name = "dec-val" -> 10 [] name = "hex-val" -> 16

(* In lower case, as addRule(), extendRule() and getRule() take a name.    *)
RuleName(text, part) == FoldLeft(LAMBDA name, c : name \o Lower[c], "", Chars(Slice(text, part)))

(* mMin, mMax and mCount; nothing if mRepeat is empty.                     *)
Repeat(text, object) ==
    IF Assigned(object, "repeat") = <<>> THEN <<>>
    ELSE <<Assignment(text, object, "repeat-min", 0), Assignment(text, object, "repeat-max", -1),
           Assignment(text, object, "repeat-count", -1)>>

(* The node that the setters make of an object and what it is given.  An   *)
(* ABNFElement is the one thing that it holds.                             *)
RECURSIVE ReadNode(_, _)
ReadNode(text, object) ==
    LET kind   == Head(object.rule)
        within == [k \in DOMAIN object.parts |-> ReadNode(text, object.parts[k])]
    IN  CASE kind = "rulename"  -> Node(kind, <<RuleName(text, object)>>, <<>>)
          [] kind = "char-val"  -> Node(kind, Tail(Front(Chars(Slice(text, object)))), <<>>)
          [] kind = "prose-val" -> Node(kind, Chars(Slice(text, object)), <<>>)
          [] kind = "element"   -> within[1]
          [] kind = "num-val"   -> parseValues(Slice(text, object.parts[1]),
                                               Base(Head(object.parts[1].rule)))
          [] kind = "repetition" ->
                Node(kind, Repeat(text, object), <<ReadNode(text, Last(object.parts))>>)
          [] OTHER -> Node(kind, <<>>, within)

(* Mutant: "=/" is a definition like "=".                                  *)
NeverExtension(text, object) == FALSE

(* isExtension(): whether there is a slash in what matched defined-as.     *)
isExtension(text, object) ==
    "/" \in ToSet(Chars(Slice(text, Assigned(object, "defined-as")[1])))

ReadRule(text, object) ==
    [name |-> RuleName(text, Assigned(object, "rulename")[1]),
     extension |-> isExtension(text, object),
     alternation |-> ReadNode(text, Assigned(object, "alternation")[1])]

ABNFRuleList(text, object) ==
    [k \in DOMAIN object.parts |-> ReadRule(text, object.parts[k])]

----------------------------------------------------------------------------
(* The nodes of the rules, each at its path, as module Builder takes them. *)
RECURSIVE WithPaths(_, _)
WithPaths(node, path) ==
    FoldLeft(LAMBDA tree, k : tree @@ WithPaths(node.parts[k], Append(path, k)),
             path :> [node EXCEPT !.parts = [k \in DOMAIN node.parts |-> Append(path, k)]],
             [k \in DOMAIN node.parts |-> k])

TreeOf(rules) ==
    [tree  |-> FoldLeft(LAMBDA tree, k : tree @@ WithPaths(rules[k].alternation, <<k>>), <<>>,
                        [k \in DOMAIN rules |-> k]),
     rules |-> [k \in DOMAIN rules |-> [rules[k] EXCEPT !.alternation = <<k>>]]]
===============================================================================
