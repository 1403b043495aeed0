------------------------------- MODULE Optimizer -------------------------------
(***************************************************************************)
(* Grammar::optimize(), as ABNFGrammarBuilder::createFromAbnf() calls it on *)
(* a complete grammar: every selector whose alternatives begin with        *)
(* different characters becomes exclusive, so that the first alternative   *)
(* to match is taken without a look at the others.  A later text may       *)
(* extend the rules and have the grammar optimized again.                  *)
(***************************************************************************)
EXTENDS Integers, Sequences, SequencesExt

CONSTANTS
    Grammars,   \* the shapes of recognizers (module Recognizers) to optimize
    RuleOrder,  \* the rules, in the order of Grammar::mRules
    Extension,  \* bound: <<r, e>>, the rule r may be extended with e, once
    Char, Nul

VARIABLES
    shape,      \* shape[r]: recognizer r; an "exclusive" one has mIsExclusive
    todo,       \* the selectors that optimize() has yet to decide on
    identified  \* the recognizers that setName() has given an id

vars == <<shape, todo, identified>>

Rules == Range(RuleOrder)

Optimized == INSTANCE Matching
    WITH Shape <- shape, Rule <- Rules, Handled <- {}, Collected <- <<>>

(* The same grammar as it was built.                                       *)
Unoptimized(g) ==
    [r \in DOMAIN g |-> IF g[r].kind = "exclusive" THEN [g[r] EXCEPT !.kind = "selector"]
                        ELSE g[r]]

Original == INSTANCE Matching
    WITH Shape <- Unoptimized(shape), Rule <- Rules, Handled <- {}, Collected <- <<>>

IsSelector(r) == shape[r].kind \in {"selector", "exclusive"}

(* The order in which optimize() decides on selectors: rule by rule, inner *)
(* ones first, without going into what has an id: the rules that a rule    *)
(* refers to, and its extensions, to which extendRule() gave one.          *)
Visits ==
    LET within[r \in DOMAIN shape, level \in {0, 1}] ==
            IF (level = 1 /\ r \in identified) \/ shape[r].kind \in {"text", "delegate"} THEN <<>>
            ELSE FoldLeft(LAMBDA seen, e : seen \o within[e, 1], <<>>, shape[r].elements)
                 \o IF IsSelector(r) THEN <<r>> ELSE <<>>
    IN  FoldLeft(LAMBDA seen, r : seen \o within[r, 0], <<>>, RuleOrder)

----------------------------------------------------------------------------
(* _getTransitionMap(): the characters that may come first, and whether    *)
(* the map is complete, or what follows may come first as well.            *)

Map(chars, complete) == [chars |-> chars, complete |-> complete]

(* By default, the characters that the recognizer matches alone: a string  *)
(* of each and of '\0' is fed to it.  Pointers and aliases have no other.  *)
DefaultMap(r) ==
    Map({c \in Char \cup {Nul} : Optimized!Matches(<<c, Nul>>)[r, 0] = 1}, TRUE)

(* Mutant: the map of a sequence is that of its first element.             *)
FirstElementMap(maps) == Map(maps[1].chars, TRUE)

SequenceMap(maps) ==
    LET begins(i) == \A j \in DOMAIN maps : j < i => ~maps[j].complete
    IN  Map(UNION {maps[i].chars : i \in {j \in DOMAIN maps : begins(j)}},
            \E i \in DOMAIN maps : maps[i].complete)

TransitionMaps ==
    LET map[r \in DOMAIN shape] ==
            LET maps == [i \in DOMAIN shape[r].elements |-> map[shape[r].elements[i]]]
            IN  CASE shape[r].kind = "text"     -> Map(shape[r].text[1], TRUE)
                  [] shape[r].kind = "delegate" -> DefaultMap(r)
                  [] shape[r].kind = "sequence" -> SequenceMap(maps)
                  [] shape[r].kind = "loop"     -> Map(maps[1].chars, shape[r].min # 0)
                  [] OTHER -> Map(UNION {maps[i].chars : i \in DOMAIN maps}, TRUE)
    IN  map

(* Two alternatives may begin with the same character.                     *)
Intersect(r) ==
    LET maps == [i \in DOMAIN shape[r].elements |-> TransitionMaps[shape[r].elements[i]]]
    IN  \E i, j \in DOMAIN maps : i < j /\ maps[i].chars \cap maps[j].chars # {}

----------------------------------------------------------------------------
Init ==
    /\ shape \in Grammars
    /\ identified = Rules
    /\ todo = Visits

(* Selector::_optimize() of the next selector: the flag is set, never      *)
(* cleared.                                                                *)
OptimizeSelector ==
    /\ todo # <<>>
    /\ shape' = IF Intersect(Head(todo)) THEN shape
                ELSE [shape EXCEPT ![Head(todo)].kind = "exclusive"]
    /\ todo' = Tail(todo)
    /\ UNCHANGED identified

(* createFromAbnf() of a text that extends a rule: another alternative,    *)
(* which extendRule() gives an id but no name, and the grammar is optimized*)
(* again.                                                                  *)
ExtendRule(r, e) ==
    /\ todo = <<>>
    /\ <<r, e>> \in Extension
    /\ IsSelector(r)
    /\ e \notin Range(shape[r].elements)
    /\ shape' = [shape EXCEPT ![r].elements = Append(@, e)]
    /\ identified' = identified \cup {e}
    /\ todo' = Visits'

Next == OptimizeSelector \/ \E x \in Extension : ExtendRule(x[1], x[2])

Spec == Init /\ [][Next]_vars

==============================================================================
