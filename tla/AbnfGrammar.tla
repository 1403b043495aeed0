------------------------------ MODULE AbnfGrammar ------------------------------
(***************************************************************************)
(* The two grammars that the library builds without reading a text:        *)
(* CoreRules, and ABNFGrammar, the grammar of ABNF itself.  A definition   *)
(* is named like the method that adds the rule.  The elements of a node    *)
(* are nodes; getRule(name) stands for the rule of that name, which a      *)
(* method may use before another adds it.                                  *)
(***************************************************************************)
EXTENDS Integers, Sequences, SequencesExt, TLC

(* The characters: those of ASCII that a text may hold, each a string of   *)
(* length 1, and the terminator.                                           *)
Chars(string) == [k \in 1..Len(string) |-> SubSeq(string, k, k)]
Printable ==
    Chars(" !\"#$%&'()*+,-./0123456789:;<=>?@ABCDEFGHIJKLMNOPQRSTUVWXYZ[\\]^_")
    \o <<"GRAVE">> \o Chars("abcdefghijklmnopqrstuvwxyz{|}~")
Nul  == "NUL"
Char == ToSet(Printable) \cup {"\t", "\n", "\r"}

CodeOf ==
    LET place[c \in ToSet(Printable)] == CHOOSE k \in DOMAIN Printable : Printable[k] = c
    IN  [c \in Char \cup {Nul} |->
            CASE c = Nul -> 0 [] c = "\t" -> 9 [] c = "\n" -> 10 [] c = "\r" -> 13
              [] OTHER -> 31 + place[c]]

Between(begin, end) == {c \in Char \cup {Nul} : CodeOf[c] \in begin..end}
CharOf(code) == CHOOSE c \in Char : CodeOf[c] = code

(* ::tolower()                                                             *)
Lower ==
    [c \in Char |-> IF CodeOf[c] \in 65..90 THEN CharOf(CodeOf[c] + 32) ELSE c]

----------------------------------------------------------------------------
R == INSTANCE Recognizers
    WITH Shape <- <<>>, Rule <- {}, Handled <- {}, Collected <- <<>>

char_range(begin, end) == R!Text(<<Between(begin, end)>>)
IgnoringCase(c) == {d \in Char : Lower[d] = Lower[c]}
literal(string) == R!Text([k \in 1..Len(string) |-> IgnoringCase(Chars(string)[k])])
code(value)     == char_range(value, value)      \* charRecognizer(value, true)
any(node)       == R!Loop(node, 0, R!Unbounded)  \* loop()->setRecognizer(node)
some(node)      == R!Loop(node, 1, R!Unbounded)
optional(node)  == R!Loop(node, 0, 1)
sequence(nodes) == R!Sequence(nodes)
selector(nodes) == R!Selector(nodes)
exclusive(nodes) == R!ExclusiveSelector(nodes)   \* selector(true)
getRule(name)   == R!Node("rule", <<name>>, <<>>, 0, 0)

----------------------------------------------------------------------------
alpha  == exclusive(<<char_range(97, 122), char_range(65, 90)>>)
bit    == exclusive(<<literal("0"), literal("1")>>)
char_  == char_range(1, 127)
cr     == code(13)
lf     == code(10)
crlf   == sequence(<<getRule("cr"), getRule("lf")>>)
ctl    == exclusive(<<char_range(0, 31), code(127)>>)
digit  == char_range(48, 57)
dquote == code(34)
hexdig == exclusive(<<getRule("digit"), literal("A"), literal("B"), literal("C"),
                      literal("D"), literal("E"), literal("F")>>)
htab   == code(9)
octet  == char_range(0, 255)
sp     == code(32)
vchar  == char_range(33, 126)
wsp    == exclusive(<<getRule("sp"), getRule("htab")>>)
lwsp   == any(exclusive(<<getRule("wsp"), sequence(<<getRule("crlf"), getRule("wsp")>>)>>))

CoreRules == <<
    <<"alpha", alpha>>, <<"bit", bit>>, <<"char", char_>>, <<"cr", cr>>, <<"lf", lf>>,
    <<"crlf", crlf>>, <<"ctl", ctl>>, <<"digit", digit>>, <<"hexdig", hexdig>>,
    <<"dquote", dquote>>, <<"htab", htab>>, <<"octet", octet>>, <<"sp", sp>>,
    <<"vchar", vchar>>, <<"wsp", wsp>>, <<"lwsp", lwsp>> >>

----------------------------------------------------------------------------
crlf_or_lf == selector(<<getRule("crlf"), getRule("lf")>>)
comment == sequence(<<code(59), any(exclusive(<<getRule("wsp"), getRule("vchar")>>)),
                      getRule("crlf-or-lf")>>)
c_nl  == selector(<<getRule("comment"), getRule("crlf-or-lf")>>)
c_wsp == selector(<<getRule("wsp"), sequence(<<getRule("c-nl"), getRule("wsp")>>)>>)
space == any(getRule("c-wsp"))

rulename == sequence(<<getRule("alpha"),
                       any(exclusive(<<getRule("alpha"), getRule("digit"), literal("-")>>))>>)

repeat_count == some(getRule("digit"))
repeat_max   == any(getRule("digit"))
repeat_min   == any(getRule("digit"))
repeat == selector(<<getRule("repeat-count"),
                     sequence(<<getRule("repeat-min"), literal("*"), getRule("repeat-max")>>)>>)

defined_as == sequence(<<space, selector(<<literal("="), literal("=/")>>), space>>)
rulelist   == some(selector(<<getRule("rule"), sequence(<<space, getRule("c-nl")>>)>>))
rule       == sequence(<<getRule("rulename"), getRule("defined-as"), getRule("elements"),
                         getRule("c-nl")>>)
elements   == sequence(<<getRule("alternation"), space>>)
alternation ==
    sequence(<<getRule("concatenation"),
               any(sequence(<<space, literal("/"), space, getRule("concatenation")>>))>>)
concatenation ==
    sequence(<<getRule("repetition"),
               any(sequence(<<some(getRule("c-wsp")), getRule("repetition")>>))>>)
repetition == sequence(<<optional(getRule("repeat")), getRule("element")>>)
element    == selector(<<getRule("rulename"), getRule("group"), getRule("option"),
                         getRule("char-val"), getRule("num-val"), getRule("prose-val")>>)
group  == sequence(<<literal("("), space, getRule("alternation"), space, literal(")")>>)
option == sequence(<<literal("["), space, getRule("alternation"), space, literal("]")>>)

char_val == sequence(<<getRule("dquote"),
                       any(exclusive(<<char_range(32, 33), char_range(35, 126)>>)),
                       getRule("dquote")>>)
prose_val == sequence(<<literal("<"),
                        any(exclusive(<<char_range(32, 61), char_range(63, 126)>>)),
                        literal(">")>>)
num_val == sequence(<<literal("%"),
                      exclusive(<<getRule("bin-val"), getRule("dec-val"), getRule("hex-val")>>)>>)

(* letter 1*digits [ 1*("." 1*digits) / ("-" 1*digits) ], where the code   *)
(* lets the first alternative be empty.                                    *)
values(letter, digits) ==
    sequence(<<literal(letter), some(digits),
               optional(selector(<<any(sequence(<<literal("."), some(digits)>>)),
                                   sequence(<<literal("-"), some(digits)>>)>>))>>)
bin_val == values("b", getRule("bit"))
dec_val == values("d", getRule("digit"))
hex_val == values("x", getRule("hexdig"))

(* Rules by name, those of CoreRules included.                             *)
ABNFRules == <<
    <<"char-val", char_val>>, <<"bin-val", bin_val>>, <<"dec-val", dec_val>>,
    <<"hex-val", hex_val>>, <<"num-val", num_val>>, <<"prose-val", prose_val>>,
    <<"comment", comment>>, <<"c-nl", c_nl>>, <<"c-wsp", c_wsp>>, <<"rulename", rulename>>,
    <<"repeat-count", repeat_count>>, <<"repeat-max", repeat_max>>,
    <<"repeat-min", repeat_min>>, <<"repeat", repeat>>, <<"defined-as", defined_as>>,
    <<"rulelist", rulelist>>, <<"rule", rule>>, <<"elements", elements>>,
    <<"alternation", alternation>>, <<"concatenation", concatenation>>,
    <<"repetition", repetition>>, <<"element", element>>, <<"group", group>>,
    <<"option", option>>, <<"crlf-or-lf", crlf_or_lf>> >>

(* The nodes right under some nodes.  A node is named by its rule and the  *)
(* places of its ancestors in theirs.                                      *)
Under(nodes) ==
    LET places == UNION {{Append(p, k) : k \in DOMAIN nodes[p].elements} : p \in DOMAIN nodes}
        at(p)  == nodes[Front(p)].elements[Last(p)]
    IN  [p \in {q \in places : at(q).kind # "rule"} |-> at(p)]

Deepest == 6

(* The recognizers of rules.                                               *)
Grammar(rules) ==
    LET named == [p \in {<<r[1]>> : r \in ToSet(rules)} |->
                    (CHOOSE r \in ToSet(rules) : <<r[1]>> = p)[2]]
        level[n \in 0..Deepest] == IF n = 0 THEN named ELSE Under(level[n - 1])
        nodes == FoldLeft(LAMBDA all, n : all @@ level[n], named, [n \in 1..Deepest |-> n])
        Id(node, place) == IF node.kind = "rule" THEN node.text ELSE place
    IN  [p \in DOMAIN nodes |->
            [nodes[p] EXCEPT !.elements = [k \in DOMAIN @ |-> Id(@[k], Append(p, k))]]]

ABNFGrammar == Grammar(CoreRules \o ABNFRules)
===============================================================================
