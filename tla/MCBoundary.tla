------------------------------ MODULE MCBoundary ------------------------------
(***************************************************************************)
(* Two grammars that take feed() to its limits: a loop whose element can   *)
(* match nothing, and a character range that holds the terminator.         *)
(***************************************************************************)
EXTENDS ParserContext

MCThread == {"t1"}
MCNul    == "NUL"

(* words = *( [ "a" ] ) "b", on "ab": a string of the language.            *)
NullableShape == [
    words  |-> Sequence(<<"many", "b">>),
    many   |-> Loop("option", 0, Unbounded),
    option |-> Loop("a", 0, 1),
    a      |-> Text(<< {"a"} >>),
    b      |-> Text(<< {"b"} >>)]
NullableRule      == {"words"}
NullableHandled   == {"words"}
NullableCollected == [words |-> {}]
NullableChar      == {"a", "b"}
NullableScript    == {[t1 |-> <<[rule |-> "words", input |-> <<"a", "b">>, full |-> FALSE]>>]}

(* record = "a" OCTET, with the OCTET of CoreRules, %x00-FF (abnf.cpp:111),*)
(* on "a".                                                                 *)
OctetShape == [
    record |-> Sequence(<<"a", "octet">>),
    a      |-> Text(<< {"a"} >>),
    octet  |-> Text(<< {"a", "NUL"} >>)]
OctetRule      == {"record", "octet"}
OctetHandled   == {"record"}
OctetCollected == [record |-> {"octet"}]
OctetChar      == {"a"}
OctetScript    == {[t1 |-> <<[rule |-> "record", input |-> <<"a">>, full |-> FALSE]>>]}

===============================================================================
