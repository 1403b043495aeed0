----------------------------- MODULE MCFromAbnf -----------------------------
(***************************************************************************)
(* Texts with a construct for each way in which the parser of the text,    *)
(* the builder and the recognizers can choose, in several variants, every  *)
(* input of up to 4 characters, and every beginning of one text.           *)
(***************************************************************************)
EXTENDS FromAbnf, TLC

MCInputs == UNION {[1..k -> {"a", "A", "=", ","}] : k \in 0..4}
MCCollector == [list |-> {"item"}, item |-> {"pair", "name", "word", "group"},
                name |-> {"word"}, group |-> {"list"}]

(* A text as nested nodes.                                                 *)
N(node, value, parts) == [node |-> node, value |-> value, parts |-> parts]
Ref(name)  == N("rulename", <<name>>, <<>>)
Str(s)     == N("char-val", s, <<>>)
Num(s)     == N("num-val", s, <<>>)
Set(s)     == N("range", <<s>>, <<>>)
Once(e)    == N("repetition", <<>>, <<e>>)
Rep(v, e)  == N("repetition", v, <<e>>)
Cat(es)    == N("concatenation", <<>>, es)
Alt(cs)    == N("alternation", <<>>, cs)
One(e)     == Alt(<<Cat(<<Once(e)>>)>>)
Either(es) == Alt([k \in DOMAIN es |-> Cat(<<Once(es[k])>>)])
Option(e)  == Once(N("option", <<>>, <<One(e)>>))
Group(a)   == N("group", <<>>, <<a>>)

(* A line, and the rule that is written in it: its name, whether it is an  *)
(* extension, its alternation; FALSE if the line is not ABNF.              *)
Line(string, name, extension, body) ==
    [line |-> string, whole |-> TRUE,
     rules |-> <<[name |-> name, extension |-> extension, alternation |-> body]>>]
Blank(string) == [line |-> string, whole |-> TRUE, rules |-> <<>>]
Wrong(string) == [line |-> string, whole |-> FALSE, rules |-> <<>>]

ListRule == Line("list = item *( \",\" item )\n", "list", FALSE,
    Alt(<<Cat(<<Once(Ref("item")),
                Rep(<<0, -1, -1>>, Group(Alt(<<Cat(<<Once(Str(<<",">>)), Once(Ref("item"))>>)>>)))>>)>>))
NameRule == Line("name = Word\r\n", "name", FALSE, One(Ref("word")))
GroupRule == Line("Group = (\",\"\n  list ; (nested\r\n\t%x2C-3D)\n", "group", FALSE,
    One(Group(Alt(<<Cat(<<Once(Str(<<",">>)), Once(Ref("list")),
                          Once(Set(Between(44, 61)))>>)>>))))
ItemExtension == Line("item =/ 2\"=,\" ; twice\n", "item", TRUE,
    Alt(<<Cat(<<Rep(<<0, -1, 2>>, Str(<<"=", ",">>))>>)>>))

ItemRules == {
    Line("item = pair / name / word / group\n", "item", FALSE,
         Either(<<Ref("pair"), Ref("name"), Ref("word"), Ref("group")>>)),
    Line("item= ( group/word ) / [name] / pair\n", "item", FALSE,
         Either(<<Group(Either(<<Ref("group"), Ref("word")>>)),
                  N("option", <<>>, <<One(Ref("name"))>>), Ref("pair")>>)),
    Line("ITEM =\tword/group  / pair/name\n", "item", FALSE,
         Either(<<Ref("word"), Ref("group"), Ref("pair"), Ref("name")>>))}
PairRules == {
    Line("pair = word %x3D [ word ]\n", "pair", FALSE,
         Alt(<<Cat(<<Once(Ref("word")), Once(Num(<<"=">>)), Option(Ref("word"))>>)>>)),
    Line("pair=(word/name)   %d61\n", "pair", FALSE,
         Alt(<<Cat(<<Once(Group(Either(<<Ref("word"), Ref("name")>>))),
                          Once(Num(<<"=">>))>>)>>))}
WordRules == {
    Line("word = 1*2( \"a\" ) [ %b1000001 ]\n", "word", FALSE,
         Alt(<<Cat(<<Rep(<<1, 2, -1>>, Group(One(Str(<<"a">>)))), Option(Num(<<"A">>))>>)>>)),
    Line("word = 2\"A\" / *1\"a\" %x41.2c\n", "word", FALSE,
         Alt(<<Cat(<<Rep(<<0, -1, 2>>, Str(<<"A">>))>>),
               Cat(<<Rep(<<0, 1, -1>>, Str(<<"a">>)), Once(Num(<<"A", ",">>))>>)>>))}

Text(lines) ==
    [abnf  |-> FoldLeft(LAMBDA string, l : string \o l.line, "", lines),
     whole |-> lines # <<>> /\ \A k \in DOMAIN lines : lines[k].whole,
     stops |-> FALSE,
     rules |-> FlattenSeq([k \in DOMAIN lines |-> lines[k].rules])]

Lines(item, pair, word) ==
    <<ListRule, item, Blank(" \t; names\n"), pair, NameRule, word, Blank("\r\n"), GroupRule,
      ItemExtension>>

(* Every beginning of the lines, without them all.                         *)
Beginnings(lines) ==
    UNION {{Text(Append(SubSeq(lines, 1, k - 1), Wrong(SubSeq(lines[k].line, 1, size)))) :
                size \in 1..Len(lines[k].line) - 1} : k \in DOMAIN lines}
    \cup {Text(SubSeq(lines, 1, k)) : k \in 0..Len(lines) - 1}

(* RFC 5234: "=/" adds alternatives to any rule, a char-val has 0           *)
(* characters or more, and a prose-val is an element.                      *)
ExtensionOfText == <<Line("a = \"b\"\n", "a", FALSE, One(Str(<<"b">>))),
                     Line("a =/ \"c\"\n", "a", TRUE, One(Str(<<"c">>)))>>
EmptyText == <<Line("a = \"\"\n", "a", FALSE, One(Str(<<>>)))>>
ProseText == <<Line("a = <b>\n", "a", FALSE, One(N("prose-val", Chars("<b>"), <<>>)))>>

(* What the builder does not take: these, an extension of a rule that is   *)
(* not there and a second definition.                                      *)
Stopping == {
    ExtensionOfText, EmptyText, ProseText, <<NameRule, ItemExtension>>,
    <<Line("a = \"b\"\n", "a", FALSE, One(Str(<<"b">>))),
      Line("A = \"c\"\n", "a", FALSE, One(Str(<<"c">>)))>>}

Others == {
    <<Blank("\r\n")>>, <<Blank("; nothing\n"), Blank("\n"), Blank(" ; more\r\n")>>,
    <<Blank("\t\n"), Line("a = \"b\"\n", "a", FALSE, One(Str(<<"b">>))), Blank(";\n")>>,
    <<Wrong("a = (\"b\" / )\n")>>, <<Wrong("a = 2*3\n")>>, <<Wrong(" a = b\n")>>,
    <<Blank("; nothing\n"), Wrong("; no end")>>, <<Blank("\n"), Wrong("a\n")>>}

MCTexts ==
    {Text(Lines(item, pair, word)) : item \in ItemRules, pair \in PairRules, word \in WordRules}
    \cup {Text(lines) : lines \in Others}
    \cup {[Text(lines) EXCEPT !.stops = TRUE] : lines \in Stopping}
    \cup Beginnings(<<NameRule, Blank(" \t; names\n"), GroupRule, ItemExtension>>)

(* RFC 5234: defined-as = *c-wsp ("=" / "=/") *c-wsp, and a comment is a c-wsp. *)
CommentTexts == {Text(<<Line("a = ; one / two\n \"b\" / \"c\"\n", "a", FALSE,
                             Either(<<Str(<<"b">>), Str(<<"c">>)>>))>>)}
===============================================================================
