--------------------------- MODULE MCParserContext ---------------------------
(***************************************************************************)
(* A grammar that has each kind of recognizer, alternatives with a common  *)
(* prefix, of equal length and of length 0, attempts that fail half-way,   *)
(* and a recursive rule:                                                   *)
(*                                                                         *)
(*   list  = item *( "," item )                                            *)
(*   item  = pair / name / word / [ "=" ] / group                          *)
(*   pair  = word "=" word            word = 1*2"a"         name = word    *)
(*   group = "(" list ")"                                                  *)
(*   value = digit / sum              sum  = digit [ "=" ]  digit = "a"    *)
(*                                                                         *)
(* One thread parses every short input as a list, then some pairs of inputs*)
(* one after the other; two threads parse values with the same Parser, so  *)
(* that each may take a context that the other has just recycled, or find  *)
(* the cache locked.                                                       *)
(***************************************************************************)
EXTENDS ParserContext

MCShape == [
    list    |-> Sequence(<<"item", "more">>),
    more    |-> Loop("next", 0, Unbounded),
    next    |-> Sequence(<<"comma", "item">>),
    item    |-> Selector(<<"pair", "name", "word", "option", "group">>),
    pair    |-> Sequence(<<"word", "equal", "word">>),
    name    |-> Delegate("word"),
    word    |-> Loop("a", 1, 2),
    option  |-> Loop("equal", 0, 1),
    group   |-> Sequence(<<"open", "list", "close">>),
    a       |-> Text(<< {"a"} >>),
    equal   |-> Text(<< {"="} >>),
    comma   |-> Text(<< {","} >>),
    open    |-> Text(<< {"("} >>),
    close   |-> ExclusiveSelector(<<"comma", "bracket">>),
    bracket |-> Text(<< {")"} >>),
    value   |-> Selector(<<"digit", "sum">>),
    sum     |-> Sequence(<<"digit", "option">>),
    digit   |-> Text(<< {"a"} >>)]

MCRule    == {"list", "item", "pair", "name", "word", "group", "value", "digit"}
MCHandled == {"list", "item", "name", "pair", "value"}
MCCollected == [list |-> {"item", "word"}, item |-> {"name", "pair", "word", "group", "list"},
                name |-> {"word"}, pair |-> {"word"}, value |-> {"digit"}]
MCChar == {"a", "=", ",", "(", ")"}
MCNul  == "NUL"

MCThread == {"t1", "t2"}
Inputs(n) == UNION {[1..k -> MCChar] : k \in 0..n}
Calls(inputs) == [rule : {"list"}, input : inputs, full : {FALSE}]
Pairs == Calls({<<"a", "=", "a">>, <<"(", "a", ",", "a", ")">>, <<"(", "a", "=">>, <<"=", ",">>})
Alone == {<<r>> : r \in Calls(Inputs(4))}
         \cup {<<[r EXCEPT !.full = TRUE]>> : r \in Calls(Inputs(2))}
         \cup {<<r, s>> : r, s \in Pairs}
Shared == {<<[rule |-> "value", input |-> <<"a", "=">>, full |-> TRUE]>>,
           <<[rule |-> "value", input |-> <<"a">>, full |-> FALSE]>>}
MCScript == {[t1 |-> s, t2 |-> <<>>] : s \in Alone} \cup [MCThread -> Shared]

Path == INSTANCE Objects
OfThePath(call) == {Path!Meaning(call)}
Abstract == INSTANCE Recognition WITH Outcomes <- OfThePath

(* parseInput() answers what the recognizers mean: the size of the match   *)
(* and the tree of objects of the winning path.                            *)
ImplementsRecognition == Abstract!Spec

==============================================================================
