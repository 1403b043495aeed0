----------------------------- MODULE GrammarFile -----------------------------
(***************************************************************************)
(* Grammar::save() and Grammar::load().  save() writes the rules one after *)
(* the other, in place; if the program or the disk stops, some beginning   *)
(* of the file is left.  load() reads whatever there is into a new grammar.*)
(***************************************************************************)
EXTENDS Integers, Sequences, SequencesExt, Functions, TLC

CONSTANTS
    Grammars,   \* the complete grammars to save
    Char,       \* the characters of names and texts: as many as needed
    Bytes,      \* the number of values of an unsigned char
    Magic       \* "#!belr"

(* A recognizer in memory: kind, mName, its own values, and the            *)
(* recognizers it leads to.  A grammar to save has them by identity, a     *)
(* loaded one by their place in the file.                                  *)
Node(kind, name, value, elements) ==
    [kind |-> kind, name |-> name, value |-> value, elements |-> elements]

ASSUME FileAssumption ==
    /\ Bytes \in Nat \ {0}
    /\ Magic \in Seq(Char)
    /\ \A g \in Grammars :
          \* mRules, in the order of the map
          /\ g.rules \in Seq(Seq(Char) \X DOMAIN g.heap)
          /\ \A i \in DOMAIN g.heap :
                /\ g.heap[i].name \in Seq(Char)
                /\ Range(g.heap[i].elements) \subseteq DOMAIN g.heap

VARIABLES
    saved,      \* the grammar of save()
    todo,       \* the rules that save() has yet to write
    file,       \* what is in the file
    junk,       \* what readString() makes of a variable it never assigned
    phase,      \* "saving", "saved", "loading", "loaded" or "aborted"
    at,         \* the place that load() reads next
    heap,       \* the recognizers it has built, by place
    rules,      \* mRules of the new grammar: a place, or Awaited
    last,       \* the rule it added last
    answer      \* what load() returned

vars == <<saved, todo, file, junk, phase, at, heap, rules, last, answer>>

Empty   == <<>>
Awaited == 0

(* What f has, and what g has where f has nothing.                         *)
Over(f, g) == [x \in DOMAIN f \cup DOMAIN g |-> IF x \in DOMAIN f THEN f[x] ELSE g[x]]

----------------------------------------------------------------------------
(* Writing.  A token of the file is what one call of the stream writes; a  *)
(* string of which only some characters were written is torn.              *)
Number(value) == [value |-> value, type |-> "number"]
String(value) == [value |-> value, type |-> "string"]
Torn(value)   == [value |-> value, type |-> "torn"]

(* _serialize(): what a recognizer writes before those it leads to.        *)
(* CharRecognizer and CharRange are two bytes each.                        *)
Values(r) ==
    CASE r.kind = "literal"  -> <<String(r.value[1])>>
      [] r.kind = "range"    -> <<Number(r.value[1] % Bytes), Number(r.value[2] % Bytes)>>
      [] r.kind = "selector" -> <<Number(r.value[1]), Number(Len(r.elements))>>
      [] r.kind = "sequence" -> <<Number(Len(r.elements))>>
      [] r.kind = "loop"     -> <<Number(r.value[1]), Number(r.value[2])>>
      [] OTHER               -> <<>>

(* A rule inside another is written as a reference to its name.            *)
ByName(r, top) == ~top /\ r.name # Empty

(* serialize(): pointers are followed, they are never written.             *)
Serialized(h) ==
    LET out[i \in DOMAIN h, top \in BOOLEAN] ==
            LET r == h[i]
            IN  IF r.kind = "pointer" THEN out[r.elements[1], top]
                ELSE IF ByName(r, top) THEN <<Number("reference"), String(r.name)>>
                ELSE FoldLeft(LAMBDA s, e : s \o out[e, FALSE],
                              <<Number(r.kind), String(r.name)>> \o Values(r),
                              r.elements)
    IN  out

Header == <<String(Magic), String(Empty)>>

SaveRule ==
    /\ phase = "saving" /\ todo # <<>>
    /\ file' = file \o Serialized(saved.heap)[Head(todo)[2], TRUE]
    /\ todo' = Tail(todo)
    /\ UNCHANGED <<saved, junk, phase, at, heap, rules, last, answer>>

Close ==
    /\ phase = "saving" /\ todo = <<>>
    /\ phase' = "saved"
    /\ UNCHANGED <<saved, todo, file, junk, at, heap, rules, last, answer>>

(* The beginnings of a text: whole tokens, then maybe part of a string.    *)
Beginnings(text) ==
    {SubSeq(text, 1, k) : k \in 0..Len(text)}
        \cup UNION {{Append(SubSeq(text, 1, k - 1), Torn(SubSeq(text[k].value, 1, n))) :
                        n \in 1..Len(text[k].value)} :
                    k \in {j \in DOMAIN text : text[j].type = "string"}}

(* The program or the disk stops.  Nothing looks at the state of the       *)
(* stream: save() answers 0 if it answers.                                 *)
Stop ==
    /\ phase = "saving"
    /\ file' \in Beginnings(file)
    /\ junk' \in {Empty} \cup {<<c>> : c \in Char}
    /\ phase' = "saved"
    /\ todo' = <<>>
    /\ UNCHANGED <<saved, at, heap, rules, last, answer>>

----------------------------------------------------------------------------
(* Reading.  After the first read beyond the end the stream has failed,    *)
(* and what is read then is zero or empty.                                 *)
End    == Len(file) + 1
Failed == Len(file) + 2

IsThere(p) == p < End /\ file[p].type # "torn"
Next1(p) == IF IsThere(p) THEN p + 1 ELSE Failed

(* readUChar() and readInt().  The first bytes of a small int are zero, so *)
(* that an int of which only these are there is zero (or, for mMax = -1, a *)
(* number below it, in a loop that will have no element).                  *)
NumberAt(p) == IF IsThere(p) THEN file[p].value ELSE 0
KindAt(p)   == IF IsThere(p) THEN file[p].value ELSE "none"

(* readString(): the character read last is taken again when the next one  *)
(* cannot be read; if there was none, it is one that was never assigned.   *)
StringAt(p) ==
    CASE IsThere(p)           -> file[p].value
      [] p < End /\ ~IsThere(p) -> Append(file[p].value, Last(file[p].value))
      [] p = End              -> junk
      [] OTHER                -> Empty

(* Up to count recognizers; none after one that cannot be read, which is   *)
(* no error.                                                               *)
Elements(build, p, count) ==
    LET from[n \in Nat, q \in Nat] ==
            LET b    == build[q]
                rest == from[n - 1, b.next]
            IN  IF n = 0 THEN [elements |-> <<>>, next |-> q, heap |-> <<>>]
                ELSE IF ~b.found THEN [elements |-> <<>>, next |-> b.next, heap |-> <<>>]
                ELSE [elements |-> <<q>> \o rest.elements, next |-> rest.next,
                      heap |-> Over(b.heap, rest.heap)]
    IN  from[count, p]

(* Mutant: mMax is read before mMin.                                       *)
MaxFirst(min, max) == <<max, min>>

LoopBounds(min, max) == <<min, max>>

(* The values of a recognizer, the place after them, and the number of     *)
(* recognizers that follow.                                                *)
Part(value, next, count) == [value |-> value, next |-> next, count |-> count]

ValuesAt(kind, p) ==
    LET p2 == Next1(p)
        p3 == Next1(p2)
    IN  CASE kind = "literal"  -> Part(<<StringAt(p)>>, p2, 0)
          [] kind = "range"    -> Part(<<NumberAt(p), NumberAt(p2)>>, p3, 0)
          [] kind = "selector" -> Part(<<NumberAt(p)>>, p3, NumberAt(p2))
          [] kind = "sequence" -> Part(<<>>, p2, NumberAt(p))
          [] kind = "loop"     -> Part(LoopBounds(NumberAt(p), NumberAt(p2)), p3, 1)
          [] OTHER             -> Part(<<>>, p, 1)

(* Recognizer::build(): the recognizer written at p, with those inside it. *)
Build ==
    LET build[p \in Nat] ==
            LET kind == KindAt(p)
                name == StringAt(p + 1)
                part == ValuesAt(kind, Next1(p + 1))
                sub  == Elements(build, part.next, part.count)
            IN  IF kind = "none" THEN [found |-> FALSE, next |-> Failed, heap |-> <<>>]
                ELSE IF kind = "reference"
                THEN [found |-> TRUE, next |-> Next1(p + 1),
                      heap |-> p :> Node(kind, Empty, <<name>>, <<>>)]
                ELSE [found |-> TRUE, next |-> sub.next,
                      heap |-> Over(p :> Node(kind, name, part.value, sub.elements), sub.heap)]
    IN  build

References(h) == {h[i].value[1] : i \in {j \in DOMAIN h : h[j].kind = "reference"}}

(* Mutant: rules that are referred to are awaited, though they are there.  *)
AwaitedAgain(table, h) == Over([n \in References(h) |-> Awaited], table)

(* getRule() of the references: those not in the table are awaited.        *)
WithAwaited(table, h) ==
    Over(table, [n \in References(h) |-> Awaited])

IsComplete == \A n \in DOMAIN rules : rules[n] # Awaited

Open ==
    /\ phase = "saved"
    /\ IF StringAt(1) = Magic
       THEN phase' = "loading" /\ at' = Next1(Next1(1)) /\ UNCHANGED answer
       ELSE phase' = "loaded" /\ answer' = -1 /\ UNCHANGED at
    /\ UNCHANGED <<saved, todo, file, junk, heap, rules, last>>

(* The recognizer of a top level rule, and the table once it is built.     *)
Built == Build[at]
BuiltName == Built.heap[at].name
Table == WithAwaited(rules, Built.heap)
IsDefined(n) == n \in DOMAIN Table /\ Table[n] # Awaited

Reading == phase = "loading" /\ at < End

(* addRule(): a rule that was awaited is so no more.                       *)
LoadRule ==
    /\ Reading
    /\ Built.found /\ BuiltName # Empty /\ ~IsDefined(BuiltName)
    /\ rules' = Over(BuiltName :> at, Table)
    /\ heap' = Over(Built.heap, heap)
    /\ last' = BuiltName
    /\ at' = Built.next
    /\ UNCHANGED <<saved, todo, file, junk, phase, answer>>

(* "Fail to parse recognizer", "Top level rule has no name".               *)
RefuseRule ==
    /\ Reading
    /\ ~Built.found \/ BuiltName = Empty
    /\ rules' = Table
    /\ phase' = "loaded"
    /\ answer' = -1
    /\ UNCHANGED <<saved, todo, file, junk, at, heap, last>>

(* "Rule is being redefined": bctbx_fatal().                               *)
Abort ==
    /\ Reading
    /\ Built.found /\ BuiltName # Empty /\ IsDefined(BuiltName)
    /\ phase' = "aborted"
    /\ UNCHANGED <<saved, todo, file, junk, at, heap, rules, last, answer>>

(* Mutant: a grammar with rules that are awaited is accepted.              *)
AnswerAtEnd == 0

Answer == IF IsComplete THEN 0 ELSE -1

EndOfFile ==
    /\ phase = "loading" /\ at >= End
    /\ phase' = "loaded"
    /\ answer' = Answer
    /\ UNCHANGED <<saved, todo, file, junk, at, heap, rules, last>>

Done ==
    /\ phase \in {"loaded", "aborted"}
    /\ UNCHANGED vars

Init ==
    /\ saved \in Grammars
    /\ todo = saved.rules
    /\ file = Header
    /\ junk = Empty
    /\ phase = "saving"
    /\ at = 1
    /\ heap = <<>> /\ rules = <<>> /\ last = Empty
    /\ answer = 0

Next ==
    \/ SaveRule \/ Close \/ Stop
    \/ Open \/ LoadRule \/ RefuseRule \/ Abort \/ EndOfFile
    \/ Done

Spec == Init /\ [][Next]_vars

----------------------------------------------------------------------------
(* What a recognizer is, whatever it is made of in memory: a rule inside   *)
(* another is its name, and a pointer is what it points to.                *)
Content(h) ==
    LET content[i \in DOMAIN h, top \in BOOLEAN] ==
            LET r == h[i]
                rule(n) == [kind |-> "rule", value |-> <<n>>, elements |-> <<>>]
            IN  CASE r.kind = "pointer"   -> content[r.elements[1], top]
                  [] r.kind = "reference" -> rule(r.value[1])
                  [] r.kind # "pointer" /\ ~top /\ r.name # Empty -> rule(r.name)
                  [] OTHER -> [kind |-> r.kind, value |-> r.value,
                               elements |-> [k \in DOMAIN r.elements |->
                                                content[r.elements[k], FALSE]]]
    IN  content

Loaded(n) == Content(heap)[rules[n], TRUE]

Accepted == phase = "loaded" /\ answer = 0

(* The rules whose recognizer still has the name it has in the table.      *)
HasItsName(rule) == saved.heap[rule[2]].name = rule[1]

SameRule(rule) ==
    rule[1] \in DOMAIN rules /\ Loaded(rule[1]) = Content(saved.heap)[rule[2], TRUE]

Whole ==
    file = FoldLeft(LAMBDA s, rule : s \o Serialized(saved.heap)[rule[2], TRUE],
                    Header, saved.rules)

(* save() and then load() give the grammar that was saved: the same names, *)
(* the same recognizers with the same values and flags, and references to  *)
(* the same rules, whatever the order of the rules in the file.            *)
WholeFileIsTheGrammar ==
    phase \in {"loaded", "aborted"} /\ Whole
        /\ (\A k \in DOMAIN saved.rules : HasItsName(saved.rules[k])) =>
            /\ Accepted
            /\ \A k \in DOMAIN saved.rules : SameRule(saved.rules[k])
            /\ DOMAIN rules = {rule[1] : rule \in Range(saved.rules)}

(* load() accepts a file that was cut only if no rule it read refers to    *)
(* one that is not there: feed() meets no undefined RecognizerPointer.     *)
AcceptedIsDefined ==
    Accepted => \A n \in References(heap) : n \in DOMAIN rules /\ rules[n] # Awaited

(* What a file that was cut can do to a grammar that load() accepts: rules *)
(* at its end are missing, and the last one may be damaged; all the others *)
(* are those that were saved, in their order.                              *)
OnlyLastRuleIsDamaged ==
    Accepted =>
        \A n \in DOMAIN rules \ {last} :
            \E k \in DOMAIN saved.rules : saved.rules[k][1] = n /\ SameRule(saved.rules[k])

==============================================================================
