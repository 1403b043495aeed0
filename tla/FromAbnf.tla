------------------------------- MODULE FromAbnf -------------------------------
(***************************************************************************)
(* An application that has ABNFGrammarBuilder::createFromAbnf() build a    *)
(* grammar, and parses an input with it: from the characters of the text   *)
(* to what is matched and built.  What optimize() then changes is the subject *)
(* of module Optimizer.                                                    *)
(***************************************************************************)
EXTENDS AbnfReader

CONSTANTS
    Texts,      \* the texts, each with the rules that are written in it,
                \* whether the last of them is whole, and whether the builder
                \* is known to stop at what it says
    Inputs,     \* the inputs to parse
    Collector   \* Collector[n]: the names that the handler of n collects

VARIABLES
    text,       \* the text
    answer,     \* what createFromAbnf() came to
    read,       \* the rules as they were read: a tree and a list (module Builder)
    grammar,    \* the recognizers of a complete grammar: <<>>, or one shape
    asked,      \* the arguments of parseInput(): <<>>, or one request
    outcome     \* its answer

vars == <<text, answer, read, grammar, asked, outcome>>

Abnf(t) == INSTANCE Builder WITH Tree <- t.tree, RuleList <- t.rules

Names  == {s.name : s \in Range(read.rules)}
Of(ns) == {Abnf(read)!RuleRecognizer(n) : n \in ns}
NameOf(r) == CHOOSE n \in Names : Abnf(read)!RuleRecognizer(n) = r

Parser == INSTANCE Objects WITH
    Shape <- grammar[1],
    Rule <- Of(Names),
    Handled <- Of(DOMAIN Collector),
    Collected <- [r \in Of(DOMAIN Collector) |-> Of(Collector[NameOf(r)])]

(* The parse of a text: how much of it, the rules in that part, of which   *)
(* there may be none, and whether it has given a builder.                  *)
ReadText(abnf) ==
    LET parsed == Parsed(abnf)
        rules  == IF parsed.object = <<>> THEN <<>> ELSE ABNFRuleList(abnf, parsed.object[1])
    IN  TreeOf(rules) @@ [builder |-> parsed.object # <<>>, size |-> parsed.size]

(* "Failed to create builder.", "Only %llu bytes parsed over a total of    *)
(* %llu."                                                                  *)
IsRead(r) == r.builder /\ r.size = Len(text.abnf)

Init ==
    /\ text \in Texts
    /\ answer = "none"
    /\ read = TreeOf(<<>>)
    /\ grammar = <<>>
    /\ asked = <<>>
    /\ outcome = <<>>

(* createFromAbnf(): setProseVal() stops the program before it is known    *)
(* whether the text is parsed to its end.                                  *)
CreateFromAbnf ==
    /\ answer = "none"
    /\ read' = ReadText(text.abnf)
    /\ \/ Abnf(read')!IsFatalToRead /\ answer' = "aborted"
       \/ ~Abnf(read')!IsFatalToRead /\ ~IsRead(read') /\ answer' = "nullptr"
       \/ /\ ~Abnf(read')!IsFatalToRead /\ IsRead(read')
          /\ \/ Abnf(read')!IsFatalToBuild /\ answer' = "aborted"
             \/ /\ ~Abnf(read')!IsFatalToBuild
                /\ answer' = IF Abnf(read')!IsComplete THEN "complete" ELSE "incomplete"
    /\ grammar' = IF answer' = "complete" THEN <<Abnf(read')!Built>> ELSE <<>>
    /\ UNCHANGED <<text, asked, outcome>>

(* "There is no rule '%s' in the grammar": the rules that the Parser is    *)
(* given handlers and collectors for are in the text.                      *)
MayObserve == DOMAIN Collector \cup UNION Range(Collector) \subseteq Names

(* parseInput() with a complete grammar, by an application that asks first.*)
ParseInput(name, input, full) ==
    LET request == [rule |-> Abnf(read)!RuleRecognizer(name), input |-> input, full |-> full]
    IN  /\ answer = "complete" /\ asked = <<>>
        /\ asked' = <<[name |-> name, input |-> input, full |-> full]>>
        /\ outcome' = <<Parser!Meaning(request)>>
        /\ UNCHANGED <<text, answer, read, grammar>>

Next ==
    \/ CreateFromAbnf
    \/ /\ MayObserve
       /\ \E name \in DOMAIN Collector, input \in Inputs, full \in BOOLEAN :
             ParseInput(name, input, full)

Spec == Init /\ [][Next]_vars

----------------------------------------------------------------------------
Written  == TreeOf(text.rules)
Language == INSTANCE Language WITH Tree <- Written.tree, RuleList <- Written.rules

(* A text is read as the rules that are written in it, none of them left   *)
(* out, be it of none but blank lines, and gives a grammar; one that stops *)
(* inside a rule, or is not ABNF, is refused: the choices of the parser,   *)
(* and what it takes back of those it tried, come to the tree that was     *)
(* meant.  The program stops at the texts that the builder does not take,  *)
(* and at no other.                                                        *)
ReadAsWritten ==
    answer # "none" =>
        IF text.whole
        THEN /\ read.rules = Written.rules /\ read.tree = Written.tree
             /\ IF text.stops THEN answer = "aborted" ELSE answer \in {"complete", "incomplete"}
        ELSE answer = "nullptr"

(* What a rule matches is a string that RFC 5234 gives to it as written,   *)
(* wherever it stops: createFromAbnf() and feed() read it as it is meant.  *)
MatchIsInLanguage ==
    outcome # <<>> =>
        LET size == outcome[1].size
        IN  size # Parser!NPos => size \in Language!EndsOfRule(asked[1].input, asked[1].name)

RECURSIVE Nested(_)
Nested(object) ==
    LET parts == object.parts
        end(o) == o.begin + o.count
    IN  /\ object.count > 0
        /\ \A i \in DOMAIN parts :
              /\ parts[i].begin >= object.begin /\ end(parts[i]) <= end(object)
              /\ "parts" \in DOMAIN parts[i] => Nested(parts[i])
        /\ \A i, j \in DOMAIN parts :
              i < j => /\ end(parts[i]) <= end(parts[j])
                       /\ parts[i].rule = parts[j].rule => end(parts[i]) <= parts[j].begin

(* The parts of an object lie inside it, in the order of the input and, for *)
(* those of one rule, without overlap: a collector is called once for each *)
(* occurrence of its rule, in the order they are written.                  *)
ObjectIsNested ==
    outcome # <<>> /\ outcome[1].object # <<>> => Nested(outcome[1].object[1])
==============================================================================
