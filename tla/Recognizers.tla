----------------------------- MODULE Recognizers -----------------------------
(***************************************************************************)
(* The recognizer graph of a complete grammar, as Parser::parseInput()     *)
(* walks it: the objects of belr.h built through Foundation and Utils, and *)
(* what each of them reads of the input.  The graph never changes while    *)
(* inputs are parsed, so it is a constant.                                 *)
(***************************************************************************)
EXTENDS Integers, Sequences, SequencesExt

CONSTANTS
    Shape,      \* Shape[r]: what recognizer r is made of
    Rule,       \* the recognizers that have an id (Recognizer::mId # 0)
    Handled,    \* the rules an application handler is installed on
    Collected,  \* Collected[h]: the rules the handler of h collects
    Char, Nul   \* the characters of an input, and the terminator after them

Recognizer == DOMAIN Shape

(* std::string::npos, the answer of feed() when nothing matches.           *)
NPos == -1
Matched == Nat \cup {NPos}

(* A loop of mMax = -1 has no upper bound.                                 *)
Unbounded == -1

(* The kinds of recognizers.  Literal, CharRecognizer and CharRange are one*)
(* kind, "text": the characters each accepts at each place.  RecognizerPointer *)
(* and RecognizerAlias are one kind, "delegate".                           *)
Kind == {"text", "selector", "exclusive", "sequence", "loop", "delegate"}

Node(kind, text, elements, min, max) ==
    [kind |-> kind, text |-> text, elements |-> elements, min |-> min, max |-> max]

Text(accepted)       == Node("text", accepted, <<>>, 0, 0)
Selector(es)         == Node("selector", <<>>, es, 0, 0)
ExclusiveSelector(es) == Node("exclusive", <<>>, es, 0, 0)
Sequence(es)         == Node("sequence", <<>>, es, 0, 0)
Loop(e, min, max)    == Node("loop", <<>>, <<e>>, min, max)
Delegate(e)          == Node("delegate", <<>>, <<e>>, 0, 0)

ASSUME GrammarAssumption ==
    /\ Nul \notin Char
    /\ Handled \subseteq Rule
    /\ Rule \subseteq Recognizer
    /\ Collected \in [Handled -> SUBSET Rule]
    /\ \A r \in Recognizer :
          /\ Shape[r] \in [kind : Kind, text : Seq(SUBSET (Char \cup {Nul})),
                           elements : Seq(Recognizer),
                           min : Nat, max : Nat \cup {Unbounded}]
          /\ Shape[r].kind \in {"loop", "delegate"} => Len(Shape[r].elements) = 1

(* input[pos]: a std::string can be read at its size, where it holds '\0'. *)
CharAt(input, pos) == IF pos < Len(input) THEN input[pos + 1] ELSE Nul

(* CharRecognizer, CharRange and Literal: all the characters, or npos.     *)
MatchText(r, input, pos) ==
    LET text == Shape[r].text
    IN  IF \A i \in 1..Len(text) : CharAt(input, pos + i - 1) \in text[i]
        THEN Len(text)
        ELSE NPos

(* Loop: whether another repetition is tried.                              *)
LoopGoesOn(r, repeat, input, pos) ==
    /\ Shape[r].max # Unbounded => repeat < Shape[r].max
    /\ CharAt(input, pos) # Nul

==============================================================================
