------------------------------ MODULE MCOptimizer ------------------------------
(***************************************************************************)
(* Every rule of two or three alternatives taken from texts, sequences,    *)
(* options that something follows, repetitions, a nested alternation and   *)
(* another rule, which is then extended; and three grammars in which the   *)
(* first branch is not the good one: of rules that are used before they are*)
(* defined, of a rule that is extended by what begins like it, and of an   *)
(* alternative that may be empty.                                          *)
(***************************************************************************)
EXTENDS Optimizer

R == INSTANCE Recognizers WITH
    Shape <- <<>>, Rule <- {}, Handled <- {}, Collected <- <<>>

MCChar == {"a", "b", "c", "d"}
MCNul  == "NUL"

Parts == [
    a     |-> R!Text(<< {"a"} >>),
    b     |-> R!Text(<< {"b"} >>),
    c     |-> R!Text(<< {"c"} >>),
    d     |-> R!Text(<< {"d"} >>),
    ab    |-> R!Text(<< {"a"}, {"b"} >>),
    notc  |-> R!Text(<< {"a", "b"} >>),
    opt   |-> R!Loop("a", 0, 1),
    optb  |-> R!Sequence(<<"opt", "b">>),
    bs    |-> R!Loop("b", 1, R!Unbounded),
    opts  |-> R!Sequence(<<"opt", "optc">>),
    optc  |-> R!Sequence(<<"opt", "c">>),
    nest  |-> R!Sequence(<<"inner", "c">>),
    more  |-> R!Selector(<<"d", "da">>),
    da    |-> R!Text(<< {"d"}, {"a"} >>)]

Alternatives == {"a", "c", "ab", "notc", "optb", "bs", "opts", "nest", "other"}
SomeAlternatives == {es \in UNION {[1..n -> Alternatives] : n \in 2..3} :
               \A i, j \in DOMAIN es : i # j => es[i] # es[j]}
Inner == {<<"a", "b">>, <<"ab", "a">>, <<"optb", "a">>}
Other == {<<"b", "c">>, <<"ab", "c">>}

With(names, es, inner, other) ==
    [x \in DOMAIN Parts \cup names |->
        CASE x = "main"  -> R!Selector(es)
          [] x = "inner" -> R!Selector(inner)
          [] x = "other" -> R!Selector(other)
          [] OTHER       -> Parts[x]]

Family == {With({"main", "inner", "other"}, es, inner, other) :
              es \in SomeAlternatives, inner \in Inner, other \in Other}
FamilyOrder == <<"main", "other">>
(* An alternative, itself an alternation, that begins like no other.       *)
FamilyExtension == {<<"other", "more">>}

(* item = word / pair          word = 1*"a"          pair = word "b" word   *)
(* with both rules used before they are defined.                           *)
Forward == [
    a      |-> R!Text(<< {"a"} >>),
    b      |-> R!Text(<< {"b"} >>),
    item   |-> R!Selector(<<"toword", "topair">>),
    toword |-> R!Delegate("word"),
    topair |-> R!Delegate("pair"),
    word   |-> R!Loop("a", 1, R!Unbounded),
    pair   |-> R!Sequence(<<"toword", "b", "word">>)]
OneForward == {Forward}
ForwardOrder == <<"item", "pair", "word">>
NoExtension == {}

(* main = "b" / "c", and then main =/ 1*"b".                               *)
OneExtended   == {[x \in {"b", "c", "bs", "main"} |->
                      IF x = "main" THEN R!Selector(<<"b", "c">>) ELSE Parts[x]]}
BeginsLikeOne == {<<"main", "bs">>}

(* main = [ "a" ] / "b"                                                    *)
OneEmpty  == {[x \in {"a", "b", "opt", "main"} |->
                  IF x = "main" THEN R!Selector(<<"opt", "b">>) ELSE Parts[x]]}
MainOrder == <<"main">>

Inputs == UNION {[1..n -> MCChar] : n \in 0..3}

(* "the first branch that will match during the parsing will necessarily   *)
(* be the good one" (belr.cpp:368): what a rule matches is what it matched *)
(* before the grammar was optimized.                                       *)
FirstBranchIsTheGoodOne ==
    \A input \in Inputs : \A r \in Rules :
        Optimized!Matches(input)[r, 0] = Original!Matches(input)[r, 0]

==============================================================================
