------------------------------ MODULE ParserSetup ------------------------------
(***************************************************************************)
(* An application that makes a Parser of a grammar while texts may still   *)
(* be added to it: handlers and collectors are installed under the id that *)
(* the recognizer of a rule has at that time, and looked for, by each      *)
(* feed(), under the id that it then has.                                  *)
(***************************************************************************)
EXTENDS Grammar, FiniteSets

CONSTANTS
    Observed    \* the sets of rules that the parser may be asked to observe

ASSUME ObservedAssumption == Observed \subseteq SUBSET Name

VARIABLES
    parser      \* the Parser, if there is one: its grammar, and mHandlers by id

setupVars == <<vars, parser>>

NoParser == <<>>
UsedBy(g) == parser # NoParser /\ parser[1].grammar = g

(* isComplete()                                                            *)
Complete(g) == \A n \in Name : rules[g][n] # None => ~Undefined(heap[rules[g][n]])

(* mHandlers[rec->getId()]: the rule that the handler of each id is for.   *)
(* setObservedRules() gives each of them a collector of each, under the    *)
(* same ids.                                                               *)
Installed(g, names) ==
    LET id(n) == heap[rules[g][n]].id
    IN  [i \in {id(n) : n \in names} |-> CHOOSE n \in names : id(n) = i]

MayObserve(g, names) == Complete(g) /\ \A n \in names : rules[g][n] # None

(* The constructor, then setObservedRules(): "Grammar not complete,        *)
(* aborting", "There is no rule in the grammar".                           *)
CreateParser(g, names) ==
    /\ ~aborted /\ current = Nothing /\ alive[g]
    /\ parser = NoParser
    /\ \/ /\ MayObserve(g, names)
          /\ parser' = <<[grammar |-> g, handlers |-> Installed(g, names)]>>
          /\ UNCHANGED aborted
       \/ /\ ~MayObserve(g, names)
          /\ aborted' = TRUE
          /\ UNCHANGED parser
    /\ UNCHANGED <<heap, rules, pointers, alive, idBase, current, made>>

(* parseInput() of a rule without a handler stops the program; getRule()   *)
(* has by then put an unknown name in the table.  With a handler, the      *)
(* parse is that of module ParserContext and leaves the table as it is.    *)
ParseUnobserved(n) ==
    LET g == parser[1].grammar
        i == rules[g][n]
    IN  /\ ~aborted /\ current = Nothing
        /\ parser # NoParser
        /\ i # None => heap[i].id \notin DOMAIN parser[1].handlers
        /\ aborted' = TRUE
        /\ \/ /\ i # None
              /\ UNCHANGED <<heap, rules, pointers, idBase>>
           \/ /\ i = None
              /\ heap' = Append(heap, Named(NewRecognizer("pointer", <<>>, g),
                                            PointerName(n), idBase + 1))
              /\ idBase' = idBase + 1
              /\ rules' = [rules EXCEPT ![g][n] = Len(heap) + 1]
              /\ pointers' = [pointers EXCEPT ![g] = @ \cup {Len(heap) + 1}]
        /\ UNCHANGED <<alive, current, made, parser>>

SetupInit == Init /\ parser = NoParser

(* The steps of a grammar leave the parser alone; the parser shares its    *)
(* grammar, which is not destroyed before it.                              *)
BuildSetupNext ==
    \/ \E g \in Grammar : \E s \in Statement[g] : BeginRule(g, s) /\ UNCHANGED parser
    \/ GetRule /\ UNCHANGED parser
    \/ GetPointer /\ UNCHANGED parser
    \/ AddRule /\ UNCHANGED parser
    \/ ExtendRule /\ UNCHANGED parser
    \/ Abort /\ UNCHANGED parser
    \/ \E g \in Grammar : ~UsedBy(g) /\ Destroy(g) /\ UNCHANGED parser
    \/ \E g \in Grammar, names \in Observed : CreateParser(g, names)
    \/ \E n \in Name : ParseUnobserved(n)
    \/ Finished /\ UNCHANGED parser

IncludeSetup(g, h) == (h \in Temporary => ~UsedBy(h)) /\ Include(g, h) /\ UNCHANGED parser

SetupNext == BuildSetupNext \/ \E g, h \in Grammar : IncludeSetup(g, h)

SetupSpec == SetupInit /\ [][SetupNext]_setupVars

(* The same, where include() is called as in the repository.               *)
CarefulSetupNext ==
    BuildSetupNext \/ \E g, h \in Grammar : Careful(g, h) /\ IncludeSetup(g, h)

CarefulSetupSpec == SetupInit /\ [][CarefulSetupNext]_setupVars

----------------------------------------------------------------------------
(* While a parser lives, each of its handlers is the one that feed() finds *)
(* for its rule, and for no other recognizer, whatever texts were added to *)
(* the grammar since: an alias, an extension or a reference to an observed *)
(* rule, or a grammar that shares it, leave it the id that it had.         *)
HandlersAreFound ==
    parser # NoParser =>
        LET handlers == parser[1].handlers
            At(n)    == rules[parser[1].grammar][n]
        IN  \A id \in DOMAIN handlers :
               {i \in DOMAIN heap : heap[i].id = id} = {At(handlers[id])}
================================================================================
