------------------------------- MODULE Grammar -------------------------------
(***************************************************************************)
(* The rule table of a Grammar while ABNFRuleList::buildRecognizer() fills *)
(* it: rules may be used before they are defined, through a                *)
(* RecognizerPointer that addRule() sets later; rules may be aliases of    *)
(* others, or be extended; a grammar may include another, with which it    *)
(* then shares recognizers, and which may be destroyed.                    *)
(***************************************************************************)
EXTENDS Naturals, Sequences

CONSTANTS
    Grammar,    \* the Grammar objects
    Name,       \* the names of rules, in lower case
    Statement,  \* Statement[g]: the rules that the texts of g may have
    Included,   \* <<g, h>>: include(h) may be called on g
    Temporary,  \* the grammars that exist to be included, and no longer
    Destroyed,  \* the grammars that may be destroyed
    MaxRules    \* bound: the rules of all the texts

(* A rule as ABNFRule has it: "name = element", "name =/ element", where   *)
(* the element is a text, a reference to a rule, or a sequence or an       *)
(* alternation of references.                                              *)
Form == {"text", "reference", "sequence", "selector"}
StatementType == [name : Name, extension : BOOLEAN, form : Form, refs : Seq(Name)]

ASSUME GrammarAssumption ==
    /\ Statement \in [Grammar -> SUBSET StatementType]
    /\ \A g \in Grammar : \A s \in Statement[g] : s.form = "reference" => Len(s.refs) = 1
    /\ Included \subseteq Grammar \X Grammar
    /\ Temporary \subseteq Grammar
    /\ Destroyed \subseteq Grammar
    /\ MaxRules \in Nat

VARIABLES
    heap,      \* heap[i]: the recognizer i
    rules,     \* rules[g][n]: Grammar::mRules, None where there is no entry
    pointers,  \* pointers[g]: Grammar::mRecognizerPointers
    alive,     \* alive[g]: the grammar is not destroyed
    idBase,    \* id_base of Recognizer::setName()
    current,   \* the rule being built: its grammar, its statement, and what
               \* getRule() gave for its references
    made,      \* the number of rules that were begun
    aborted    \* bctbx_fatal() was called

vars == <<heap, rules, pointers, alive, idBase, current, made, aborted>>

None == 0
Nothing == <<>>

(* A recognizer refers to others.  What the code forgets and properties    *)
(* need: the name a reference was written with, if any, and the grammar    *)
(* a recognizer was built for.                                             *)
Reference(n) == [to : 1..n, as : Seq(Name)]
Recognizer(n) == [kind : Form \cup {"pointer", "alias"}, home : Grammar,
                  name : Seq(Name \cup {"@"}), id : Nat, refs : Seq(Reference(n))]

(* mName: "", the name of a rule, or "@" and the name for a pointer.       *)
Unnamed    == <<>>
RuleName(n) == <<n>>
PointerName(n) == <<"@", n>>

NewRecognizer(kind, refs, g) ==
    [kind |-> kind, home |-> g, name |-> Unnamed, id |-> 0, refs |-> refs]

Named(r, name, id) == [r EXCEPT !.name = name, !.id = id]

Undefined(r) == r.kind = "pointer" /\ r.refs = <<>>

Init ==
    /\ heap = <<>>
    /\ rules = [g \in Grammar |-> [n \in Name |-> None]]
    /\ pointers = [g \in Grammar |-> {}]
    /\ alive = [g \in Grammar |-> TRUE]
    /\ idBase = 0
    /\ current = Nothing
    /\ made = 0
    /\ aborted = FALSE

----------------------------------------------------------------------------
(* buildRecognizer() of a rule: getRule() for each reference, in order.    *)

BeginRule(g, s) ==
    /\ ~aborted /\ alive[g]
    /\ current = Nothing
    /\ made < MaxRules
    /\ current' = <<[grammar |-> g, rule |-> s, refs |-> <<>>]>>
    /\ made' = made + 1
    /\ UNCHANGED <<heap, rules, pointers, alive, idBase, aborted>>

Building == ~aborted /\ current # Nothing
Now == current[1]
AllReferences == Len(Now.refs) = Len(Now.rule.refs)
NextName == Now.rule.refs[Len(Now.refs) + 1]

Got(i) == current' = <<[Now EXCEPT !.refs = Append(@, [to |-> i, as |-> <<NextName>>])]>>

(* getRule() of a name in the table: the rule, or what the pointer to it   *)
(* points to when it is set.                                               *)
GetRule ==
    LET i == rules[Now.grammar][NextName]
    IN  /\ Building /\ ~AllReferences
        /\ i # None
        /\ Got(IF heap[i].kind = "pointer" /\ ~Undefined(heap[i])
               THEN heap[i].refs[1].to ELSE i)
        /\ UNCHANGED <<heap, rules, pointers, alive, idBase, made, aborted>>

(* getRule() of a name that is not: a pointer, to be set later.            *)
GetPointer ==
    LET i == Len(heap) + 1
    IN  /\ Building /\ ~AllReferences
        /\ rules[Now.grammar][NextName] = None
        /\ heap' = Append(heap, Named(NewRecognizer("pointer", <<>>, Now.grammar),
                                      PointerName(NextName), idBase + 1))
        /\ idBase' = idBase + 1
        /\ rules' = [rules EXCEPT ![Now.grammar][NextName] = i]
        /\ pointers' = [pointers EXCEPT ![Now.grammar] = @ \cup {i}]
        /\ Got(i)
        /\ UNCHANGED <<alive, made, aborted>>

(* The recognizer of the rule: that of its reference, or a new one.        *)
Built ==
    IF Now.rule.form = "reference"
    THEN [heap |-> heap, at |-> Now.refs[1].to]
    ELSE [heap |-> Append(heap, NewRecognizer(Now.rule.form, Now.refs, Now.grammar)),
          at |-> Len(heap) + 1]

(* Mutant: "rule2 = rule1" gives rule1 its second name.                    *)
NotAliased(b, n) == b

(* "rule2 = rule1": what already is a rule is not renamed, but put behind  *)
(* a RecognizerAlias.                                                      *)
Aliased(b, n) ==
    IF b.heap[b.at].name \notin {Unnamed, RuleName(n)}
    THEN [heap |-> Append(b.heap, NewRecognizer("alias", <<Now.refs[1]>>, Now.grammar)),
          at |-> Len(b.heap) + 1]
    ELSE b

(* addRule(): name the recognizer, set the pointer that stands for it, and *)
(* put it in the table.  A second definition is fatal.                     *)
Redefines(g, n) == rules[g][n] # None /\ heap[rules[g][n]].kind # "pointer"

(* Mutant: a second definition replaces the first.                         *)
MayAlwaysAdd(g, n) == TRUE

MayAdd(g, n) == ~Redefines(g, n)

(* Mutant: the pointer stays as it is.                                     *)
PointerNotSet(h, old, i, n) == h

PointerSet(h, old, i, n) ==
    IF old # None /\ h[old].kind = "pointer"
    THEN [h EXCEPT ![old].refs = <<[to |-> i, as |-> <<n>>]>>]
    ELSE h

AddRule ==
    LET g == Now.grammar
        n == Now.rule.name
        b == Aliased(Built, n)
    IN  /\ Building /\ AllReferences
        /\ ~Now.rule.extension
        /\ MayAdd(g, n)
        /\ heap' = PointerSet([b.heap EXCEPT ![b.at] = Named(@, RuleName(n), idBase + 1)],
                              rules[g][n], b.at, n)
        /\ idBase' = idBase + 1
        /\ rules' = [rules EXCEPT ![g][n] = b.at]
        /\ current' = Nothing
        /\ UNCHANGED <<pointers, alive, made, aborted>>

(* extendRule(): the extension is given no name, and becomes the last      *)
(* alternative of the rule, which must be a Selector.                      *)
MayExtend(g, n) == rules[g][n] # None /\ heap[rules[g][n]].kind = "selector"

Extension ==
    IF Now.rule.form = "reference" THEN Now.refs[1] ELSE [to |-> Built.at, as |-> <<>>]

ExtendRule ==
    LET n == Now.rule.name
        i == rules[Now.grammar][n]
        h == [Built.heap EXCEPT ![Built.at] = Named(@, Unnamed, idBase + 1)]
    IN  /\ Building /\ AllReferences
        /\ Now.rule.extension
        /\ MayExtend(Now.grammar, n)
        /\ heap' = [h EXCEPT ![i].refs = Append(@, Extension)]
        /\ idBase' = idBase + 1
        /\ current' = Nothing
        /\ UNCHANGED <<rules, pointers, alive, made, aborted>>

(* bctbx_fatal(): the program stops.                                       *)
Abort ==
    /\ Building /\ AllReferences
    /\ IF Now.rule.extension
       THEN ~MayExtend(Now.grammar, Now.rule.name)
       ELSE ~MayAdd(Now.grammar, Now.rule.name)
    /\ aborted' = TRUE
    /\ UNCHANGED <<heap, rules, pointers, alive, idBase, current, made>>

----------------------------------------------------------------------------
(* Mutant: the recognizers of the grammar are destroyed with it.           *)
DestroyRecognizers(g) == SelectSeq(heap, LAMBDA r : r.home # g)

(* ~Grammar(): the pointers the grammar made are reset; its other          *)
(* recognizers live on where they are shared.                              *)
PointersReset(g) ==
    [i \in DOMAIN heap |->
        IF i \in pointers[g] THEN [heap[i] EXCEPT !.refs = <<>>] ELSE heap[i]]

(* include() takes all the entries of the other table, whatever there is   *)
(* under their names: that a rule "is being redefined" is only logged.  A  *)
(* temporary, as abnf.cpp:140 and belr-parse.cc:92 include, is destroyed   *)
(* when the call returns.                                                  *)
Include(g, h) ==
    /\ ~aborted /\ current = Nothing
    /\ <<g, h>> \in Included /\ alive[g] /\ alive[h]
    /\ rules' = [rules EXCEPT ![g] =
                    [n \in Name |-> IF rules[h][n] # None THEN rules[h][n] ELSE @[n]]]
    /\ IF h \in Temporary
       THEN heap' = PointersReset(h) /\ alive' = [alive EXCEPT ![h] = FALSE]
       ELSE UNCHANGED <<heap, alive>>
    /\ UNCHANGED <<pointers, idBase, current, made, aborted>>

Destroy(g) ==
    /\ ~aborted /\ current = Nothing
    /\ g \in Destroyed /\ alive[g]
    /\ heap' = PointersReset(g)
    /\ alive' = [alive EXCEPT ![g] = FALSE]
    /\ UNCHANGED <<rules, pointers, idBase, current, made, aborted>>

(* The texts are at their end, or the program has stopped.                 *)
Finished ==
    /\ \/ aborted
       \/ /\ current = Nothing
          /\ made = MaxRules \/ \A g \in Grammar : alive[g] => Statement[g] = {}
    /\ UNCHANGED vars

BuildNext ==
    \/ \E g \in Grammar : \E s \in Statement[g] : BeginRule(g, s)
    \/ GetRule \/ GetPointer
    \/ AddRule \/ ExtendRule \/ Abort
    \/ \E g \in Grammar : Destroy(g)
    \/ Finished

Next == BuildNext \/ \E g, h \in Grammar : Include(g, h)

Spec == Init /\ [][Next]_vars

(* Nothing in include() asks for it, but both calls in the repository      *)
(* include a temporary that was made without a pointer, and into a grammar *)
(* that has and awaits none of its rules.                                  *)
Careful(g, h) ==
    /\ h \in Temporary /\ pointers[h] = {}
    /\ \A n \in Name : rules[g][n] = None \/ rules[h][n] = None

CarefulNext == BuildNext \/ \E g, h \in Grammar : Careful(g, h) /\ Include(g, h)

CarefulSpec == Init /\ [][CarefulNext]_vars

----------------------------------------------------------------------------
Construction(n) == [grammar : Grammar, rule : StatementType, refs : Seq(Reference(n))]

TypeOK ==
    /\ heap \in Seq(Recognizer(Len(heap)))
    /\ rules \in [Grammar -> [Name -> {None} \cup DOMAIN heap]]
    /\ pointers \in [Grammar -> SUBSET DOMAIN heap]
    /\ alive \in [Grammar -> BOOLEAN]
    /\ idBase \in Nat
    /\ current \in Seq(Construction(Len(heap))) /\ Len(current) <= 1
    /\ made \in 0..MaxRules
    /\ aborted \in BOOLEAN

(* isComplete(), on which the constructor of Parser relies.                *)
IsComplete(g) ==
    \A n \in Name : rules[g][n] # None => ~Undefined(heap[rules[g][n]])

(* A set of recognizers that feed() does not leave.                        *)
Closed(S) == \A i \in S : \A k \in DOMAIN heap[i].refs : heap[i].refs[k].to \in S

(* A grammar that is complete leads to no undefined pointer, whatever rule *)
(* a parse starts from: feed() never meets the fatal error of a            *)
(* RecognizerPointer that points to nothing.                               *)
CompleteMeansDefined ==
    \A g \in Grammar : alive[g] /\ IsComplete(g) =>
        \E S \in SUBSET {i \in DOMAIN heap : ~Undefined(heap[i])} :
            /\ \A n \in Name : rules[g][n] # None => rules[g][n] \in S
            /\ Closed(S)

(* What a recognizer stands for: a pointer that is set stands for its rule.*)
Meaning(i) ==
    IF heap[i].kind = "pointer" /\ ~Undefined(heap[i]) THEN heap[i].refs[1].to ELSE i

(* Rules may be written in any order: every reference, written before or   *)
(* after the rule, leads to the recognizer that the table has for its name,*)
(* the one that handlers and collectors of the rule are installed for.     *)
ReferencesMeanTheRule ==
    \A i \in DOMAIN heap : \A k \in DOMAIN heap[i].refs :
        LET to == heap[i].refs[k].to
            as == heap[i].refs[k].as
        IN  as # <<>> /\ alive[heap[i].home] =>
                Meaning(to) = Meaning(rules[heap[i].home][as[1]])

(* "only rules (that is recognizers added to the grammar) have a name      *)
(* defined" (grammarbuilder.cpp:351): what the table has for a name has    *)
(* that name, or is a pointer that waits for it.                           *)
RulesHaveTheirName ==
    \A g \in Grammar, n \in Name : rules[g][n] # None =>
        LET r == heap[rules[g][n]]
        IN  Undefined(r) \/ r.name = RuleName(n)
==============================================================================
