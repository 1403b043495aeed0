------------------------- MODULE ParserSetup_proofs --------------------------
(***************************************************************************)
(* A grammar that isComplete() finds complete leads to no undefined        *)
(* pointer, for any rules in any order and whatever is destroyed, as long  *)
(* as include() is called as the repository does: of a temporary without a *)
(* pointer, into a grammar that has none of its rules (Careful).  The two  *)
(* configurations MCGrammarInclude*.cfg show that it is false otherwise.   *)
(* Rules, references and handlers stay together, whatever texts are added  *)
(* to a grammar and in whatever order, as long as no extension is itself   *)
(* the name of a rule ("a =/ b", of which the run grammar_extend shows     *)
(* that it takes the name of b away).                                      *)
(***************************************************************************)
EXTENDS ParserSetup, SequenceTheorems, TLAPS

(* include() hands the recognizers of a grammar over to another, once or   *)
(* again: o[g] is the grammar that has those which were made for g.  It is *)
(* a ghost: no variable tells it, the invariant says that there is one.    *)
(* The rules of a grammar, and all that they refer to, are what it owns.   *)
NowAtHome(o) ==
    current # Nothing =>
        /\ alive[Now.grammar]
        /\ Now.rule \in Statement[Now.grammar]
        /\ Len(Now.refs) <= Len(Now.rule.refs)
        /\ \A k \in DOMAIN Now.refs : o[heap[Now.refs[k].to].home] = Now.grammar

HomeInv(o) ==
    /\ o \in [Grammar -> Grammar]
    /\ \A g \in Grammar : alive[g] => o[g] = g
    /\ \A g \in Grammar, n \in Name :
          alive[g] /\ rules[g][n] # None => o[heap[rules[g][n]].home] = g
    /\ \A i \in DOMAIN heap : \A k \in DOMAIN heap[i].refs :
          o[heap[heap[i].refs[k].to].home] = o[heap[i].home]
    /\ NowAtHome(o)

(* mRecognizerPointers has the pointers of a grammar, all of them, and a   *)
(* grammar whose recognizers were handed over had none.                    *)
PointersInv(o) ==
    /\ \A g \in Grammar : \A i \in pointers[g] : heap[i].home = g
    /\ \A i \in DOMAIN heap : heap[i].kind = "pointer" => i \in pointers[heap[i].home]
    /\ \A g \in Grammar : o[g] # g => pointers[g] = {}

(* A pointer that is not set is in the table of its grammar: only addRule()*)
(* takes it out, and sets it.                                              *)
ListedInv ==
    \A i \in DOMAIN heap : alive[heap[i].home] /\ Undefined(heap[i]) =>
        \E n \in Name : rules[heap[i].home][n] = i

IInv(o) == TypeOK /\ HomeInv(o) /\ PointersInv(o) /\ ListedInv

LEMMA ReferencesGrow ==
    ASSUME NEW m \in Nat, NEW n \in Nat, m <= n
    PROVE  Seq(Reference(m)) \subseteq Seq(Reference(n))
<1>1. Reference(m) \subseteq Reference(n)
    BY DEF Reference
<1>. QED BY <1>1, SeqMonotonic

LEMMA RecognizerGrows ==
    ASSUME NEW m \in Nat, NEW n \in Nat, m <= n
    PROVE  Recognizer(m) \subseteq Recognizer(n)
<1>1. Seq(Reference(m)) \subseteq Seq(Reference(n))
    BY ReferencesGrow
<1>. QED BY <1>1 DEF Recognizer

LEMMA HeapGrows ==
    ASSUME NEW h, NEW m \in Nat, h \in Seq(Recognizer(m)), m = Len(h),
           NEW r \in Recognizer(m + 1)
    PROVE  /\ Append(h, r) \in Seq(Recognizer(m + 1))
           /\ Len(Append(h, r)) = m + 1
<1>1. Recognizer(m) \subseteq Recognizer(m + 1)
    BY RecognizerGrows
<1>2. h \in Seq(Recognizer(m + 1))
    BY <1>1
<1>. QED BY <1>2

LEMMA ConstructionGrows ==
    ASSUME NEW m \in Nat, NEW n \in Nat, m <= n
    PROVE  Construction(m) \subseteq Construction(n)
<1>1. Seq(Reference(m)) \subseteq Seq(Reference(n))
    BY ReferencesGrow
<1>. QED BY <1>1 DEF Construction

LEMMA NowTyped ==
    ASSUME TypeOK, current # Nothing
    PROVE  /\ current = <<Now>>
           /\ Now.grammar \in Grammar
           /\ Now.rule \in StatementType
           /\ Now.refs \in Seq(Reference(Len(heap)))
           /\ Now \in Construction(Len(heap))
<1>1. current \in Seq(Construction(Len(heap))) /\ Len(current) <= 1
    BY DEF TypeOK
<1>2. Len(current) = 1
    BY <1>1, EmptySeq, LenProperties DEF Nothing
<1>3. Now \in Construction(Len(heap))
    BY <1>1, <1>2, ElementOfSeq DEF Now
<1>4. current = <<Now>>
    BY <1>1, <1>2 DEF Now
<1>. QED BY <1>3, <1>4 DEF Construction

LEMMA NextNameTyped ==
    ASSUME TypeOK, Building, Len(Now.refs) < Len(Now.rule.refs)
    PROVE  NextName \in Name
<1>1. Now.rule.refs \in Seq(Name) /\ Len(Now.refs) \in Nat
    BY NowTyped DEF Building, StatementType
<1>2. Len(Now.refs) + 1 \in 1..Len(Now.rule.refs)
    BY <1>1
<1>. QED BY <1>1, <1>2, ElementOfSeq DEF NextName

LEMMA HeapAt ==
    ASSUME NEW n \in Nat, NEW h \in Seq(Recognizer(n)), NEW i \in DOMAIN h
    PROVE  /\ i \in 1..Len(h)
           /\ h[i] \in Recognizer(n)
           /\ h[i].refs \in Seq(Reference(n))
           /\ h[i].home \in Grammar
           /\ \A k \in DOMAIN h[i].refs : h[i].refs[k].to \in 1..n
<1>1. i \in 1..Len(h) /\ h[i] \in Recognizer(n)
    BY LenProperties, ElementOfSeq
<1>2. h[i].refs \in Seq(Reference(n)) /\ h[i].home \in Grammar
    BY <1>1 DEF Recognizer
<1>3. ASSUME NEW k \in DOMAIN h[i].refs PROVE h[i].refs[k] \in Reference(n)
    BY <1>2, LenProperties, ElementOfSeq
<1>. QED BY <1>1, <1>2, <1>3 DEF Reference

(* In the beginning each grammar has what is made for it.                  *)
Own == [g \in Grammar |-> g]

LEMMA InitInv == Init => IInv(Own)
<1> SUFFICES ASSUME Init PROVE IInv(Own)
    OBVIOUS
<1> USE GrammarAssumption DEF Init
<1>1. heap \in Seq(Recognizer(Len(heap))) /\ DOMAIN heap = {}
    BY EmptySeq
<1>a. current \in Seq(Construction(Len(heap))) /\ Len(current) <= 1
    BY EmptySeq DEF Nothing
<1>2. TypeOK
    <2>1. rules \in [Grammar -> [Name -> {None} \cup DOMAIN heap]]
        OBVIOUS
    <2>2. pointers \in [Grammar -> SUBSET DOMAIN heap]
        OBVIOUS
    <2>3. idBase \in Nat /\ made \in 0..MaxRules
        OBVIOUS
    <2>4. alive \in [Grammar -> BOOLEAN] /\ aborted \in BOOLEAN
        OBVIOUS
    <2>. QED BY <1>1, <1>a, <2>1, <2>2, <2>3, <2>4 DEF TypeOK
<1>3. HomeInv(Own)
    BY <1>1 DEF HomeInv, NowAtHome, Own, None, Nothing
<1>4. PointersInv(Own)
    BY <1>1 DEF PointersInv
<1>5. ListedInv
    BY <1>1 DEF ListedInv
<1>. QED BY <1>2, <1>3, <1>4, <1>5 DEF IInv

(* The recognizers that a construction makes are not pointers, belong to   *)
(* its grammar and refer to what getRule() gave it.                        *)
Grown(h) ==
    /\ h \in Seq(Recognizer(Len(h)))
    /\ Len(h) >= Len(heap)
    /\ \A i \in 1..Len(heap) : h[i] = heap[i]
    /\ \A i \in 1..Len(h) : i > Len(heap) =>
          /\ h[i].kind # "pointer"
          /\ h[i].home = Now.grammar
          /\ \A k \in DOMAIN h[i].refs : h[i].refs[k] \in Range(Now.refs)

LEMMA AppendGrown ==
    ASSUME TypeOK, current # Nothing, NEW h, Grown(h),
           NEW kind \in Form \cup {"alias"}, NEW refs \in Seq(Range(Now.refs))
    PROVE  Grown(Append(h, NewRecognizer(kind, refs, Now.grammar)))
<1> DEFINE r == NewRecognizer(kind, refs, Now.grammar)
           n == Len(h)
<1>1. n \in Nat /\ h \in Seq(Recognizer(n)) /\ Len(heap) \in Nat /\ n >= Len(heap)
    BY LenProperties DEF Grown, TypeOK
<1>2. Range(Now.refs) \subseteq Reference(Len(heap))
    BY NowTyped, RangeOfSeq
<1>3. refs \in Seq(Reference(n + 1))
    <2>1. refs \in Seq(Reference(Len(heap)))
        BY <1>2, SeqMonotonic
    <2>. QED BY <1>1, <2>1, ReferencesGrow
<1>4. r \in Recognizer(n + 1)
    BY <1>3, NowTyped DEF NewRecognizer, Recognizer, Unnamed
<1>5. /\ Append(h, r) \in Seq(Recognizer(n + 1))
      /\ Len(Append(h, r)) = n + 1
      /\ \A i \in 1..n : Append(h, r)[i] = h[i]
      /\ Append(h, r)[n + 1] = r
    BY <1>1, <1>4, HeapGrows, AppendProperties
<1>6. /\ r.kind # "pointer" /\ r.home = Now.grammar /\ r.refs = refs
      /\ \A k \in DOMAIN refs : refs[k] \in Range(Now.refs)
    <2>1. \A k \in DOMAIN refs : refs[k] \in Range(Now.refs)
        BY LenProperties, ElementOfSeq
    <2>. QED BY <2>1 DEF NewRecognizer, Form
<1> HIDE DEF r
<1>7. ASSUME NEW i \in 1..(n + 1), i > Len(heap)
      PROVE  /\ Append(h, r)[i].kind # "pointer"
             /\ Append(h, r)[i].home = Now.grammar
             /\ \A k \in DOMAIN Append(h, r)[i].refs : Append(h, r)[i].refs[k] \in Range(Now.refs)
    <2>1. CASE i = n + 1
        BY <1>5, <1>6, <2>1
    <2>2. CASE i \in 1..n
        BY <1>5, <1>7, <2>2 DEF Grown
    <2>. QED BY <1>1, <1>7, <2>1, <2>2
<1>8. \A i \in 1..Len(heap) : Append(h, r)[i] = heap[i]
    BY <1>1, <1>5 DEF Grown
<1>. QED BY <1>1, <1>5, <1>7, <1>8 DEF Grown, r

LEMMA BuiltGrown ==
    ASSUME NEW o, IInv(o), Building, AllReferences
    PROVE  /\ Grown(Built.heap) /\ Built.at \in 1..Len(Built.heap)
           /\ o[Built.heap[Built.at].home] = Now.grammar
<1>1. /\ heap \in Seq(Recognizer(Len(heap))) /\ Len(heap) \in Nat
      /\ Now.refs \in Seq(Reference(Len(heap)))
    BY NowTyped, LenProperties DEF Building, IInv, TypeOK
<1>2. Grown(heap)
    BY <1>1 DEF Grown
<1>3. CASE Now.rule.form = "reference"
    <2>1. Len(Now.refs) = 1
        BY <1>3, NowTyped, GrammarAssumption DEF Building, IInv, HomeInv, NowAtHome, AllReferences
    <2>a. 1 \in DOMAIN Now.refs
        BY <1>1, <2>1, LenProperties
    <2>2. 1 \in DOMAIN Now.refs /\ Now.refs[1] \in Reference(Len(heap))
        BY <1>1, <2>a, LenProperties, ElementOfSeq
    <2>3. Now.refs[1].to \in 1..Len(heap)
        BY <2>2 DEF Reference
    <2>4. o[heap[Now.refs[1].to].home] = Now.grammar
        BY <2>2 DEF Building, IInv, HomeInv, NowAtHome
    <2>. QED BY <1>2, <1>3, <2>3, <2>4 DEF Built
<1>4. CASE Now.rule.form # "reference"
    <2> DEFINE r == NewRecognizer(Now.rule.form, Now.refs, Now.grammar)
    <2>1. Now.refs \in Seq(Range(Now.refs)) /\ Now.rule.form \in Form
        BY <1>1, NowTyped, SeqOfRange DEF Building, IInv, StatementType
    <2>2. Grown(Append(heap, r))
        BY <1>2, <2>1, AppendGrown DEF Building, IInv
    <2>3. Len(Append(heap, r)) = Len(heap) + 1 /\ Append(heap, r)[Len(heap) + 1] = r
        BY <1>1, AppendProperties
    <2>4. r.home = Now.grammar /\ o[r.home] = Now.grammar
        BY NowTyped DEF NewRecognizer, Building, IInv, HomeInv, NowAtHome
    <2>5. Built.heap = Append(heap, r) /\ Built.at = Len(heap) + 1
        BY <1>4 DEF Built
    <2> HIDE DEF r
    <2>. QED BY <1>1, <2>2, <2>3, <2>4, <2>5
<1>. QED BY <1>3, <1>4

LEMMA AliasedGrown ==
    ASSUME NEW o, IInv(o), Building, AllReferences, NEW n \in Name
    PROVE  LET b == Aliased(Built, n)
           IN  /\ Grown(b.heap) /\ b.at \in 1..Len(b.heap)
               /\ o[b.heap[b.at].home] = Now.grammar
<1>1. /\ Grown(Built.heap) /\ Built.at \in 1..Len(Built.heap)
      /\ o[Built.heap[Built.at].home] = Now.grammar
    BY BuiltGrown
<1>2. CASE Built.heap[Built.at].name \in {Unnamed, RuleName(n)}
    BY <1>1, <1>2 DEF Aliased
<1>3. CASE Built.heap[Built.at].name \notin {Unnamed, RuleName(n)}
    <2> DEFINE r == NewRecognizer("alias", <<Now.refs[1]>>, Now.grammar)
               h == Built.heap
    <2>1. heap \in Seq(Recognizer(Len(heap))) /\ Now.refs \in Seq(Reference(Len(heap)))
        BY NowTyped DEF Building, IInv, TypeOK
    <2>2. Now.rule.form = "reference"
        <3> SUFFICES ASSUME Now.rule.form # "reference" PROVE FALSE
            OBVIOUS
        <3>1. Built.heap[Built.at] = NewRecognizer(Now.rule.form, Now.refs, Now.grammar)
            BY <2>1, AppendProperties DEF Built
        <3>. QED BY <1>3, <3>1 DEF NewRecognizer
    <2>3. Len(Now.refs) = 1
        BY <2>2, NowTyped, GrammarAssumption DEF Building, IInv, HomeInv, NowAtHome, AllReferences
    <2>4. Now.refs[1] \in Range(Now.refs)
        BY <2>1, <2>3, RangeEquality
    <2>5. <<Now.refs[1]>> \in Seq(Range(Now.refs))
        BY <2>4
    <2>6. Grown(Append(h, r))
        BY <1>1, <2>5, AppendGrown DEF Building, IInv
    <2>7. h \in Seq(Recognizer(Len(h)))
        BY <1>1 DEF Grown
    <2>8. Len(Append(h, r)) = Len(h) + 1 /\ Append(h, r)[Len(h) + 1] = r
        BY <2>7, AppendProperties
    <2>9. r.home = Now.grammar /\ o[r.home] = Now.grammar
        BY NowTyped DEF NewRecognizer, Building, IInv, HomeInv, NowAtHome
    <2>10. Aliased(Built, n).heap = Append(h, r) /\ Aliased(Built, n).at = Len(h) + 1
        BY <1>3 DEF Aliased
    <2> HIDE DEF r, h
    <2>11. Len(h) \in Nat
        BY <2>7, LenProperties
    <2>. QED BY <2>6, <2>8, <2>9, <2>10, <2>11
<1>. QED BY <1>2, <1>3

(* References stay with one owner.                                         *)
AtHome(o, h) ==
    \A i \in 1..Len(h) : \A k \in DOMAIN h[i].refs :
        o[h[h[i].refs[k].to].home] = o[h[i].home]

LEMMA GrownAtHome ==
    ASSUME NEW o, IInv(o), Building, NEW h, Grown(h)
    PROVE  AtHome(o, h)
<1>1. /\ heap \in Seq(Recognizer(Len(heap))) /\ Len(heap) \in Nat
      /\ Now.refs \in Seq(Reference(Len(heap)))
    BY NowTyped, LenProperties DEF Building, IInv, TypeOK
<1>2. h \in Seq(Recognizer(Len(h))) /\ Len(h) \in Nat /\ Len(h) >= Len(heap)
    BY LenProperties DEF Grown
<1> SUFFICES ASSUME NEW i \in 1..Len(h), NEW k \in DOMAIN h[i].refs
             PROVE  o[h[h[i].refs[k].to].home] = o[h[i].home]
    BY DEF AtHome
<1>3. CASE i \in 1..Len(heap)
    <2>1. i \in DOMAIN heap /\ h[i] = heap[i]
        BY <1>1, <1>3, LenProperties DEF Grown
    <2>2. heap[i].refs[k].to \in 1..Len(heap)
        BY <1>1, <2>1, HeapAt
    <2>. QED BY <2>1, <2>2 DEF Grown, IInv, HomeInv, NowAtHome
<1>4. CASE i > Len(heap)
    <2>1. /\ h[i].refs[k] \in Range(Now.refs) /\ h[i].home = Now.grammar
          /\ o[Now.grammar] = Now.grammar
        BY <1>4, NowTyped DEF Grown, Building, IInv, HomeInv, NowAtHome
    <2>2. PICK m \in 1..Len(Now.refs) : h[i].refs[k] = Now.refs[m]
        BY <1>1, <2>1, RangeEquality
    <2>3. m \in DOMAIN Now.refs /\ Now.refs[m] \in Reference(Len(heap))
        BY <1>1, LenProperties, ElementOfSeq
    <2>4. Now.refs[m].to \in 1..Len(heap)
        BY <2>3 DEF Reference
    <2>5. o[heap[Now.refs[m].to].home] = Now.grammar
        BY <2>3 DEF Building, IInv, HomeInv, NowAtHome
    <2>. QED BY <2>1, <2>2, <2>4, <2>5 DEF Grown
<1>. QED BY <1>1, <1>2, <1>3, <1>4

(* h2 is h with its recognizer i replaced by r.                            *)
Edited(h, i, r, h2) ==
    /\ h2 \in Seq(Recognizer(Len(h)))
    /\ Len(h2) = Len(h)
    /\ h2[i] = r
    /\ \A j \in 1..Len(h) : j # i => h2[j] = h[j]

LEMMA ExceptEdits ==
    ASSUME NEW h, h \in Seq(Recognizer(Len(h))), NEW i \in 1..Len(h),
           NEW r \in Recognizer(Len(h))
    PROVE  Edited(h, i, r, [h EXCEPT ![i] = r])
<1> DEFINE S == Recognizer(Len(h))
<1>1. h \in Seq(S) /\ r \in S
    OBVIOUS
<1> HIDE DEF S
<1>2. /\ [h EXCEPT ![i] = r] \in Seq(S)
      /\ Len([h EXCEPT ![i] = r]) = Len(h)
      /\ \A j \in 1..Len(h) : [h EXCEPT ![i] = r][j] = IF j = i THEN r ELSE h[j]
    BY <1>1, ExceptSeq
<1>. QED BY <1>2 DEF Edited, S

LEMMA NamedTyped ==
    ASSUME NEW n \in Nat, NEW r \in Recognizer(n), NEW id \in Nat,
           NEW name \in Seq(Name \cup {"@"})
    PROVE  /\ Named(r, name, id) \in Recognizer(n)
           /\ Named(r, name, id).home = r.home
           /\ Named(r, name, id).kind = r.kind
           /\ Named(r, name, id).refs = r.refs
BY DEF Named, Recognizer

(* What a step may do to the recognizers: it adds some of its grammar,     *)
(* which are no pointers that wait for their rule, and resets none.        *)
Advanced(o, h) ==
    /\ h \in Seq(Recognizer(Len(h)))
    /\ Len(h) >= Len(heap)
    /\ AtHome(o, h)
    /\ \A i \in 1..Len(heap) : h[i].home = heap[i].home
    /\ \A i \in 1..Len(h) : Undefined(h[i]) => i \in 1..Len(heap) /\ Undefined(heap[i])
    /\ \A i \in 1..Len(h) :
          h[i].kind = "pointer" => i \in 1..Len(heap) /\ heap[i].kind = "pointer"

LEMMA GrownAdvanced ==
    ASSUME NEW o, IInv(o), Building, NEW h, Grown(h)
    PROVE  Advanced(o, h)
<1>1. Len(heap) \in Nat /\ Len(h) \in Nat
    BY LenProperties DEF IInv, TypeOK, Grown
<1>2. AtHome(o, h)
    BY GrownAtHome
<1>3. ASSUME NEW i \in 1..Len(h), Undefined(h[i])
      PROVE  i \in 1..Len(heap) /\ Undefined(heap[i])
    BY <1>1, <1>3 DEF Grown, Undefined
<1>4. ASSUME NEW i \in 1..Len(h), h[i].kind = "pointer"
      PROVE  i \in 1..Len(heap) /\ heap[i].kind = "pointer"
    BY <1>1, <1>4 DEF Grown
<1>. QED BY <1>2, <1>3, <1>4 DEF Grown, Advanced

(* What r refers to has its owner.                                         *)
Kept(o, h, r) == \A k \in DOMAIN r.refs : o[h[r.refs[k].to].home] = o[r.home]

LEMMA EditAdvanced ==
    ASSUME TypeOK, NEW o, NEW h, Advanced(o, h), NEW i \in 1..Len(h),
           NEW r, r.home = h[i].home, r.kind = h[i].kind,
           Kept(o, h, r),
           Undefined(r) => Undefined(h[i]),
           NEW h2, Edited(h, i, r, h2)
    PROVE  /\ Advanced(o, h2)
           /\ \A j \in 1..Len(h) : h2[j].home = h[j].home
<1>1. Len(h) \in Nat /\ Len(heap) \in Nat /\ Len(h) >= Len(heap)
    BY LenProperties DEF Advanced, TypeOK
<1>2. \A j \in 1..Len(h) : h2[j].home = h[j].home
    BY DEF Edited
<1>3. AtHome(o, h2)
    <2> SUFFICES ASSUME NEW j \in 1..Len(h), NEW k \in DOMAIN h2[j].refs
                 PROVE  o[h2[h2[j].refs[k].to].home] = o[h2[j].home]
        BY DEF AtHome, Edited
    <2>1. h2 \in Seq(Recognizer(Len(h))) /\ j \in DOMAIN h2
        BY LenProperties DEF Edited
    <2>2. h2[j].refs[k].to \in 1..Len(h)
        BY <1>1, <2>1, HeapAt
    <2>3. o[h[h2[j].refs[k].to].home] = o[h2[j].home]
        BY DEF Advanced, AtHome, Edited, Kept
    <2>. QED BY <1>2, <2>2, <2>3
<1>4. ASSUME NEW j \in 1..Len(h), Undefined(h2[j])
      PROVE  j \in 1..Len(heap) /\ Undefined(heap[j])
    BY <1>4 DEF Advanced, Edited
<1>5. \A j \in 1..Len(heap) : h2[j].home = heap[j].home
    BY <1>1, <1>2 DEF Advanced
<1>6. \A j \in 1..Len(h) :
          h2[j].kind = "pointer" => j \in 1..Len(heap) /\ heap[j].kind = "pointer"
    BY DEF Advanced, Edited
<1>. QED BY <1>1, <1>2, <1>3, <1>4, <1>5, <1>6 DEF Advanced, Edited

LEMMA AddRuleAdvances ==
    ASSUME NEW o, IInv(o), AddRule
    PROVE  LET g == Now.grammar
               n == Now.rule.name
               b == Aliased(Built, n)
           IN  /\ Advanced(o, heap')
               /\ rules[g][n] # None => ~Undefined(heap'[rules[g][n]])
               /\ b.at \in 1..Len(heap') /\ o[heap'[b.at].home] = g
<1> DEFINE g == Now.grammar
           n == Now.rule.name
           b == Aliased(Built, n)
           old == rules[g][n]
           r == Named(b.heap[b.at], RuleName(n), idBase + 1)
           h == [b.heap EXCEPT ![b.at] = r]
<1>1. /\ Building /\ AllReferences /\ MayAdd(g, n)
      /\ heap' = PointerSet(h, old, b.at, n)
    BY DEF AddRule
<1>2. g \in Grammar /\ n \in Name /\ TypeOK
    BY <1>1, NowTyped DEF Building, IInv, StatementType
<1>3. Grown(b.heap) /\ b.at \in 1..Len(b.heap) /\ o[b.heap[b.at].home] = g
    BY <1>1, <1>2, AliasedGrown
<1>4. Advanced(o, b.heap) /\ b.heap \in Seq(Recognizer(Len(b.heap)))
    BY <1>1, <1>3, GrownAdvanced DEF Advanced
<1>5. /\ r \in Recognizer(Len(b.heap)) /\ r.home = b.heap[b.at].home
      /\ r.kind = b.heap[b.at].kind /\ r.refs = b.heap[b.at].refs
    <2>1. b.heap[b.at] \in Recognizer(Len(b.heap)) /\ Len(b.heap) \in Nat
        BY <1>3, <1>4, ElementOfSeq, LenProperties
    <2>2. RuleName(n) \in Seq(Name \cup {"@"}) /\ idBase + 1 \in Nat
        BY <1>2 DEF RuleName, TypeOK
    <2>. QED BY <2>1, <2>2, NamedTyped
<1>6. /\ Advanced(o, h) /\ Len(h) = Len(b.heap) /\ h[b.at] = r
      /\ \A j \in 1..Len(b.heap) : h[j].home = b.heap[j].home
    <2>1. Kept(o, b.heap, r)
        <3> HIDE DEF r, b
        <3>1. \A k \in DOMAIN b.heap[b.at].refs :
                 o[b.heap[b.heap[b.at].refs[k].to].home] = o[b.heap[b.at].home]
            BY <1>3, <1>4 DEF Advanced, AtHome
        <3>. QED BY <1>5, <3>1 DEF Kept
    <2>2. Undefined(r) => Undefined(b.heap[b.at])
        BY <1>5 DEF Undefined
    <2>3. Edited(b.heap, b.at, r, h)
        <3> HIDE DEF r, b
        <3>. QED BY <1>3, <1>4, <1>5, ExceptEdits
    <2> HIDE DEF r, h, b
    <2>4. /\ Advanced(o, h)
          /\ \A j \in 1..Len(b.heap) : h[j].home = b.heap[j].home
        BY <1>2, <1>3, <1>4, <1>5, <2>1, <2>2, <2>3, EditAdvanced
    <2>. QED BY <2>3, <2>4 DEF Edited
<1> HIDE DEF r, h, b
<1>7. b.at \in 1..Len(h) /\ o[h[b.at].home] = g
    BY <1>3, <1>5, <1>6
<1>8. CASE old # None /\ h[old].kind = "pointer"
    <2> DEFINE p == [h[old] EXCEPT !.refs = <<[to |-> b.at, as |-> <<n>>]>>]
    <2>1. heap' = [h EXCEPT ![old] = p]
        BY <1>1, <1>8 DEF PointerSet
    <2>2. /\ old \in 1..Len(heap) /\ old \in DOMAIN heap
          /\ Len(heap) \in Nat /\ Len(h) \in Nat /\ Len(h) >= Len(heap)
        BY <1>2, <1>6, <1>8, LenProperties DEF TypeOK, Advanced
    <2>3. old \in 1..Len(h) /\ h[old] \in Recognizer(Len(h))
        BY <1>6, <2>2, ElementOfSeq DEF Advanced
    <2>4. o[h[old].home] = g
        BY <1>1, <1>2, <1>6, <1>8, <2>2 DEF Advanced, Building, IInv, HomeInv, NowAtHome
    <2>5. <<[to |-> b.at, as |-> <<n>>]>> \in Seq(Reference(Len(h)))
        BY <1>2, <1>7 DEF Reference
    <2>6. /\ p \in Recognizer(Len(h)) /\ p.home = h[old].home /\ p.kind = h[old].kind
          /\ p.refs = <<[to |-> b.at, as |-> <<n>>]>> /\ ~Undefined(p)
        BY <2>3, <2>4, <2>5 DEF Recognizer, Undefined
    <2>7. Kept(o, h, p)
        <3> HIDE DEF p
        <3>. QED BY <1>7, <2>4, <2>6 DEF Kept
    <2> HIDE DEF p
    <2>8. Edited(h, old, p, heap')
        BY <1>6, <2>1, <2>3, <2>6, ExceptEdits DEF Advanced
    <2>9. p.home = h[old].home /\ p.kind = h[old].kind /\ (Undefined(p) => Undefined(h[old]))
        BY <2>4, <2>6
    <2>10. /\ Advanced(o, heap')
           /\ \A j \in 1..Len(h) : heap'[j].home = h[j].home
        BY <1>2, <1>6, <2>3, <2>7, <2>8, <2>9, EditAdvanced
    <2>. QED BY <1>7, <2>6, <2>8, <2>10 DEF Edited, b
<1>9. CASE ~(old # None /\ h[old].kind = "pointer")
    <2>1. heap' = h
        BY <1>1, <1>9 DEF PointerSet
    <2>2. old # None => ~Undefined(h[old])
        BY <1>9 DEF Undefined
    <2>. QED BY <1>6, <1>7, <2>1, <2>2 DEF b
<1>. QED BY <1>8, <1>9

LEMMA ExtendRuleAdvances ==
    ASSUME NEW o, IInv(o), ExtendRule
    PROVE  Advanced(o, heap')
<1> DEFINE g == Now.grammar
           n == Now.rule.name
           i == rules[g][n]
           at == Built.at
           r == Named(Built.heap[at], Unnamed, idBase + 1)
           h == [Built.heap EXCEPT ![at] = r]
           s == [h[i] EXCEPT !.refs = Append(@, Extension)]
<1>1. /\ Building /\ AllReferences /\ MayExtend(g, n)
      /\ heap' = [h EXCEPT ![i] = s]
    BY DEF ExtendRule
<1>2. /\ g \in Grammar /\ n \in Name /\ TypeOK
      /\ Now.refs \in Seq(Reference(Len(heap))) /\ Len(heap) \in Nat
    BY <1>1, NowTyped, LenProperties DEF Building, IInv, TypeOK, StatementType
<1>3. Grown(Built.heap) /\ at \in 1..Len(Built.heap) /\ o[Built.heap[at].home] = g
    BY <1>1, BuiltGrown
<1>4. /\ Advanced(o, Built.heap) /\ Built.heap \in Seq(Recognizer(Len(Built.heap)))
      /\ Len(Built.heap) \in Nat /\ Len(Built.heap) >= Len(heap)
    BY <1>1, <1>3, GrownAdvanced, LenProperties DEF Advanced
<1>5. /\ r \in Recognizer(Len(Built.heap)) /\ r.home = Built.heap[at].home
      /\ r.kind = Built.heap[at].kind /\ r.refs = Built.heap[at].refs
    <2>1. Built.heap[at] \in Recognizer(Len(Built.heap))
        BY <1>3, <1>4, ElementOfSeq
    <2>2. Unnamed \in Seq(Name \cup {"@"}) /\ idBase + 1 \in Nat
        BY <1>2 DEF Unnamed, TypeOK
    <2>. QED BY <1>4, <2>1, <2>2, NamedTyped
<1>6. /\ Advanced(o, h) /\ Len(h) = Len(Built.heap)
      /\ \A j \in 1..Len(Built.heap) : h[j].home = Built.heap[j].home
      /\ \A j \in 1..Len(Built.heap) : h[j].kind = Built.heap[j].kind
    <2>1. Kept(o, Built.heap, r)
        <3> HIDE DEF r, at
        <3>. QED BY <1>3, <1>4, <1>5 DEF Advanced, AtHome, Kept
    <2>2. Undefined(r) => Undefined(Built.heap[at])
        BY <1>5 DEF Undefined
    <2>3. Edited(Built.heap, at, r, h)
        <3> HIDE DEF r, at
        <3>. QED BY <1>3, <1>4, <1>5, ExceptEdits
    <2> HIDE DEF r, h, at
    <2>4. /\ Advanced(o, h)
          /\ \A j \in 1..Len(Built.heap) : h[j].home = Built.heap[j].home
        BY <1>2, <1>3, <1>4, <1>5, <2>1, <2>2, <2>3, EditAdvanced
    <2>5. \A j \in 1..Len(Built.heap) : h[j].kind = Built.heap[j].kind
        BY <1>5, <2>3 DEF Edited
    <2>. QED BY <2>3, <2>4, <2>5 DEF Edited
<1> HIDE DEF r, h, at
<1>7. Extension \in Reference(Len(h)) /\ o[h[Extension.to].home] = g
    <2>1. CASE Now.rule.form = "reference"
        <3>1. Len(Now.refs) = 1
            BY <1>1, <2>1, NowTyped, GrammarAssumption DEF Building, IInv, HomeInv, NowAtHome, AllReferences
        <3>2. 1 \in DOMAIN Now.refs /\ Now.refs[1] \in Reference(Len(heap))
            BY <1>2, <3>1, LenProperties, ElementOfSeq
        <3>3. o[heap[Now.refs[1].to].home] = Now.grammar
            BY <1>1, <3>2 DEF Building, IInv, HomeInv, NowAtHome
        <3>4. Now.refs[1].to \in 1..Len(heap) /\ Now.refs[1] \in Reference(Len(h))
            BY <1>4, <1>6, <3>2 DEF Reference
        <3>. QED BY <1>6, <2>1, <3>3, <3>4 DEF Extension, Advanced
    <2>2. CASE Now.rule.form # "reference"
        <3>1. Extension = [to |-> at, as |-> <<>>]
            BY <2>2 DEF Extension, at
        <3>2. Extension \in Reference(Len(h))
            BY <1>3, <1>6, <3>1 DEF Reference
        <3>. QED BY <1>3, <1>6, <3>1, <3>2
    <2>. QED BY <2>1, <2>2
<1>8. /\ i \in 1..Len(heap) /\ i \in DOMAIN heap /\ i # None
      /\ heap[i].kind = "selector" /\ o[heap[i].home] = g
    <2>1. i # None /\ heap[i].kind = "selector"
        BY <1>1 DEF MayExtend
    <2>2. i \in DOMAIN heap
        BY <1>2, <2>1 DEF TypeOK
    <2>3. o[heap[i].home] = g
        BY <1>1, <1>2, <2>1 DEF Building, IInv, HomeInv, NowAtHome
    <2>. QED BY <1>2, <2>1, <2>2, <2>3, LenProperties DEF TypeOK
<1>9. /\ i \in 1..Len(h) /\ h[i] \in Recognizer(Len(h))
      /\ h[i].kind = "selector" /\ o[h[i].home] = g
    <2>1. i \in 1..Len(h) /\ h[i] \in Recognizer(Len(h))
        BY <1>4, <1>6, <1>8, ElementOfSeq DEF Advanced
    <2>2. Built.heap[i].kind = "selector"
        BY <1>3, <1>8 DEF Grown
    <2>. QED BY <1>6, <1>8, <2>1, <2>2 DEF Advanced
<1>10. /\ s \in Recognizer(Len(h)) /\ s.home = h[i].home /\ s.kind = "selector"
       /\ s.refs = Append(h[i].refs, Extension)
    <2>1. h[i].refs \in Seq(Reference(Len(h)))
        BY <1>9 DEF Recognizer
    <2>2. Append(h[i].refs, Extension) \in Seq(Reference(Len(h)))
        BY <1>7, <2>1, AppendProperties
    <2>. QED BY <1>9, <2>2 DEF Recognizer
<1>11. Kept(o, h, s)
    <2>1. /\ h[i].refs \in Seq(Reference(Len(h)))
          /\ \A k \in DOMAIN h[i].refs : o[h[h[i].refs[k].to].home] = g
        BY <1>6, <1>9 DEF Recognizer, Advanced, AtHome
    <2> HIDE DEF s, i
    <2> SUFFICES ASSUME NEW k \in 1..(Len(h[i].refs) + 1)
                 PROVE  o[h[s.refs[k].to].home] = g
        BY <1>7, <1>9, <1>10, <2>1, AppendProperties, LenProperties DEF Kept
    <2>2. CASE k \in 1..Len(h[i].refs)
        <3>1. s.refs[k] = h[i].refs[k] /\ k \in DOMAIN h[i].refs
            BY <1>7, <1>10, <2>1, <2>2, AppendProperties, LenProperties
        <3>. QED BY <2>1, <3>1
    <2>3. CASE k = Len(h[i].refs) + 1
        <3>1. s.refs[k] = Extension
            BY <1>7, <1>10, <2>1, <2>3, AppendProperties
        <3>. QED BY <1>7, <3>1
    <2>4. Len(h[i].refs) \in Nat
        BY <2>1, LenProperties
    <2>. QED BY <2>2, <2>3, <2>4
<1>12. Edited(h, i, s, heap') /\ (Undefined(s) => Undefined(h[i]))
    BY <1>1, <1>6, <1>9, <1>10, ExceptEdits DEF Advanced, Undefined
<1> HIDE DEF s, i
<1>. QED BY <1>2, <1>6, <1>9, <1>10, <1>11, <1>12, EditAdvanced

----------------------------------------------------------------------------
(* The parts of TypeOK that an advance of the recognizers keeps.           *)
LEMMA AdvancedTypes ==
    ASSUME TypeOK, NEW o, NEW h, Advanced(o, h)
    PROVE  /\ h \in Seq(Recognizer(Len(h)))
           /\ DOMAIN heap \subseteq DOMAIN h
           /\ rules \in [Grammar -> [Name -> {None} \cup DOMAIN h]]
           /\ pointers \in [Grammar -> SUBSET DOMAIN h]
<1>1. /\ Len(heap) \in Nat /\ Len(h) \in Nat /\ Len(h) >= Len(heap)
      /\ DOMAIN heap = 1..Len(heap) /\ DOMAIN h = 1..Len(h)
    BY LenProperties DEF Advanced, TypeOK
<1>2. DOMAIN heap \subseteq DOMAIN h
    BY <1>1
<1>3. rules \in [Grammar -> [Name -> {None} \cup DOMAIN h]]
    BY <1>2 DEF TypeOK
<1>4. pointers \in [Grammar -> SUBSET DOMAIN h]
    BY <1>2 DEF TypeOK
<1>. QED BY <1>2, <1>3, <1>4 DEF Advanced

(* What is left to show when a step ends the construction of a rule.       *)
LEMMA EndOfRule ==
    ASSUME NEW o, IInv(o), Advanced(o, heap'), current' = Nothing,
           UNCHANGED <<pointers, alive, made, aborted>>, idBase' \in Nat,
           rules' \in [Grammar -> [Name -> {None} \cup DOMAIN heap']],
           \A g \in Grammar, n \in Name :
               alive[g] /\ rules'[g][n] # None => o[heap'[rules'[g][n]].home] = g,
           \A i \in DOMAIN heap' : alive[heap'[i].home] /\ Undefined(heap'[i]) =>
               \E n \in Name : rules'[heap'[i].home][n] = i
    PROVE  IInv(o)'
<1>1. TypeOK'
    <2>1. heap' \in Seq(Recognizer(Len(heap'))) /\ pointers' \in [Grammar -> SUBSET DOMAIN heap']
        BY AdvancedTypes DEF IInv
    <2>2. current' \in Seq(Construction(Len(heap'))) /\ Len(current') <= 1
        BY EmptySeq DEF Nothing
    <2>3. alive' \in [Grammar -> BOOLEAN] /\ made' \in 0..MaxRules /\ aborted' \in BOOLEAN
        BY DEF IInv, TypeOK
    <2>. QED BY <2>1, <2>2, <2>3 DEF TypeOK
<1>2. HomeInv(o)'
    <2>1. \A i \in DOMAIN heap' : \A k \in DOMAIN heap'[i].refs :
             o[heap'[heap'[i].refs[k].to].home] = o[heap'[i].home]
        BY LenProperties DEF Advanced, AtHome
    <2>. QED BY <2>1 DEF IInv, HomeInv, NowAtHome
<1>3. PointersInv(o)'
    <2>1. DOMAIN heap = 1..Len(heap) /\ DOMAIN heap' = 1..Len(heap')
        BY LenProperties DEF IInv, TypeOK, Advanced
    <2>2. ASSUME NEW g \in Grammar, NEW i \in pointers'[g]
          PROVE  heap'[i].home = g
        <3>1. i \in 1..Len(heap) /\ heap[i].home = g
            BY <2>1, <2>2 DEF IInv, PointersInv, TypeOK
        <3>. QED BY <3>1 DEF Advanced
    <2>3. ASSUME NEW i \in DOMAIN heap', heap'[i].kind = "pointer"
          PROVE  i \in pointers'[heap'[i].home]
        <3>1. i \in 1..Len(heap) /\ heap[i].kind = "pointer" /\ heap'[i].home = heap[i].home
            BY <2>1, <2>3 DEF Advanced
        <3>. QED BY <2>1, <3>1 DEF IInv, PointersInv
    <2>. QED BY <2>2, <2>3 DEF IInv, PointersInv
<1>4. ListedInv'
    BY DEF ListedInv, Undefined
<1>. QED BY <1>1, <1>2, <1>3, <1>4 DEF IInv

LEMMA AddRuleInv ==
    ASSUME NEW o, IInv(o), AddRule
    PROVE  IInv(o)'
<1> DEFINE g == Now.grammar
           n == Now.rule.name
           at == Aliased(Built, n).at
<1>1. /\ Building /\ current' = Nothing /\ idBase' = idBase + 1
      /\ rules' = [rules EXCEPT ![g][n] = at]
      /\ UNCHANGED <<pointers, alive, made, aborted>>
    BY DEF AddRule
<1>2. /\ Advanced(o, heap')
      /\ rules[g][n] # None => ~Undefined(heap'[rules[g][n]])
      /\ at \in 1..Len(heap') /\ o[heap'[at].home] = g
    BY AddRuleAdvances
<1>3. g \in Grammar /\ n \in Name /\ TypeOK
    BY <1>1, NowTyped DEF Building, IInv, StatementType
<1>4. DOMAIN heap' = 1..Len(heap')
    BY <1>2, LenProperties DEF Advanced
<1>5. rules \in [Grammar -> [Name -> {None} \cup DOMAIN heap']]
    BY <1>2, <1>3, AdvancedTypes
<1>6. idBase' \in Nat
    BY <1>1, <1>3 DEF TypeOK
<1>7. \A i \in 1..Len(heap) : heap'[i].home = heap[i].home
    BY <1>2 DEF Advanced
<1> HIDE DEF at, g, n
<1>8. rules' \in [Grammar -> [Name -> {None} \cup DOMAIN heap']]
    BY <1>1, <1>2, <1>4, <1>5
<1>9. ASSUME NEW q \in Grammar, NEW m \in Name, alive[q], rules'[q][m] # None
      PROVE  o[heap'[rules'[q][m]].home] = q
    <2>1. CASE q = g /\ m = n
        BY <1>1, <1>2, <1>3, <1>5, <2>1
    <2>2. CASE ~(q = g /\ m = n)
        <3>1. rules'[q][m] = rules[q][m]
            BY <1>1, <1>5, <2>2
        <3>2. rules[q][m] \in 1..Len(heap) /\ o[heap[rules[q][m]].home] = q
            BY <1>3, <1>9, <3>1, LenProperties DEF TypeOK, IInv, HomeInv, NowAtHome
        <3>. QED BY <1>7, <3>1, <3>2
    <2>. QED BY <2>1, <2>2
<1>10. ASSUME NEW i \in DOMAIN heap', alive[heap'[i].home], Undefined(heap'[i])
       PROVE  \E m \in Name : rules'[heap'[i].home][m] = i
    <2>1. i \in 1..Len(heap) /\ Undefined(heap[i]) /\ heap'[i].home = heap[i].home
        BY <1>2, <1>4, <1>10 DEF Advanced
    <2>2. i \in DOMAIN heap /\ heap[i].home \in Grammar /\ i # None
        BY <1>3, <2>1, LenProperties, HeapAt DEF TypeOK, None
    <2>3. PICK m \in Name : rules[heap[i].home][m] = i
        BY <1>10, <2>1, <2>2 DEF IInv, ListedInv
    <2>4. ~(heap[i].home = g /\ m = n)
        BY <1>2, <1>10, <2>2, <2>3
    <2>5. rules'[heap[i].home][m] = i
        BY <1>1, <1>5, <2>2, <2>3, <2>4
    <2>. QED BY <2>1, <2>5
<1>. QED BY <1>1, <1>2, <1>6, <1>8, <1>9, <1>10, EndOfRule

LEMMA ExtendRuleInv ==
    ASSUME NEW o, IInv(o), ExtendRule
    PROVE  IInv(o)'
<1>1. /\ current' = Nothing /\ idBase' = idBase + 1
      /\ UNCHANGED <<rules, pointers, alive, made, aborted>>
    BY DEF ExtendRule
<1>2. Advanced(o, heap') /\ TypeOK
    BY ExtendRuleAdvances DEF IInv
<1>3. idBase' \in Nat /\ rules' \in [Grammar -> [Name -> {None} \cup DOMAIN heap']]
    BY <1>1, <1>2, AdvancedTypes DEF TypeOK
<1>4. ASSUME NEW q \in Grammar, NEW m \in Name, alive[q], rules'[q][m] # None
      PROVE  o[heap'[rules'[q][m]].home] = q
    <2>1. rules[q][m] \in 1..Len(heap) /\ o[heap[rules[q][m]].home] = q
        BY <1>1, <1>2, <1>4, LenProperties DEF TypeOK, IInv, HomeInv, NowAtHome
    <2>. QED BY <1>1, <1>2, <2>1 DEF Advanced
<1>5. ASSUME NEW i \in DOMAIN heap', alive[heap'[i].home], Undefined(heap'[i])
      PROVE  \E m \in Name : rules'[heap'[i].home][m] = i
    <2>1. i \in 1..Len(heap) /\ Undefined(heap[i]) /\ heap'[i].home = heap[i].home
        BY <1>2, <1>5, LenProperties DEF Advanced
    <2>2. i \in DOMAIN heap
        BY <1>2, <2>1, LenProperties DEF TypeOK
    <2>. QED BY <1>1, <1>5, <2>1, <2>2 DEF IInv, ListedInv
<1>. QED BY <1>1, <1>2, <1>3, <1>4, <1>5, EndOfRule

LEMMA BeginRuleInv ==
    ASSUME NEW o, IInv(o), NEW g \in Grammar, NEW s \in Statement[g], BeginRule(g, s)
    PROVE  IInv(o)'
<1>1. /\ alive[g]
      /\ current' = <<[grammar |-> g, rule |-> s, refs |-> <<>>]>>
      /\ made' = made + 1 /\ made < MaxRules
      /\ UNCHANGED <<heap, rules, pointers, alive, idBase, aborted>>
    BY DEF BeginRule
<1>2. s \in StatementType
    BY GrammarAssumption
<1>3. TypeOK'
    <2>1. [grammar |-> g, rule |-> s, refs |-> <<>>] \in Construction(Len(heap))
        BY <1>2, EmptySeq DEF Construction
    <2>2. current' \in Seq(Construction(Len(heap'))) /\ Len(current') <= 1
        BY <1>1, <2>1
    <2>3. made' \in 0..MaxRules
        BY <1>1, GrammarAssumption DEF IInv, TypeOK
    <2>. QED BY <1>1, <2>2, <2>3 DEF IInv, TypeOK
<1>4. Now'.grammar = g /\ Now'.rule = s /\ Now'.refs = <<>>
    BY <1>1 DEF Now
<1>5. Len(s.refs) \in Nat
    BY <1>2, LenProperties DEF StatementType
<1>6. HomeInv(o)'
    BY <1>1, <1>4, <1>5 DEF IInv, HomeInv, NowAtHome
<1>7. PointersInv(o)' /\ ListedInv'
    BY <1>1 DEF IInv, PointersInv, ListedInv, Undefined
<1>. QED BY <1>3, <1>6, <1>7 DEF IInv

(* What is left to show when getRule() has found i for a reference.        *)
LEMMA GotTyped ==
    ASSUME TypeOK, Building, ~AllReferences, Len(Now.refs) <= Len(Now.rule.refs),
           NEW h, Len(h) \in Nat, Len(h) >= Len(heap), NEW i \in 1..Len(h), Got(i)
    PROVE  /\ current' \in Seq(Construction(Len(h))) /\ Len(current') <= 1
           /\ Now'.grammar = Now.grammar /\ Now'.rule = Now.rule
           /\ Len(Now'.refs) = Len(Now.refs) + 1
           /\ \A k \in DOMAIN Now'.refs :
                 \/ k \in DOMAIN Now.refs /\ Now'.refs[k] = Now.refs[k]
                 \/ Now'.refs[k].to = i
           /\ Len(Now'.refs) <= Len(Now'.rule.refs)
<1> DEFINE ref == [to |-> i, as |-> <<NextName>>]
           now == [Now EXCEPT !.refs = Append(@, ref)]
<1>1. /\ Now \in Construction(Len(heap)) /\ Now.refs \in Seq(Reference(Len(heap)))
      /\ Len(heap) \in Nat /\ Len(Now.refs) \in Nat /\ Len(Now.rule.refs) \in Nat
    BY NowTyped, LenProperties DEF Building, TypeOK, StatementType
<1>2. Len(Now.refs) < Len(Now.rule.refs)
    BY <1>1 DEF AllReferences
<1>3. NextName \in Name
    BY <1>2, NextNameTyped
<1>4. ref \in Reference(Len(h))
    BY <1>3 DEF Reference
<1>5. Now \in Construction(Len(h)) /\ Now.refs \in Seq(Reference(Len(h)))
    BY <1>1, ConstructionGrows, ReferencesGrow
<1> HIDE DEF ref
<1>6. /\ Append(Now.refs, ref) \in Seq(Reference(Len(h)))
      /\ Len(Append(Now.refs, ref)) = Len(Now.refs) + 1
      /\ \A k \in 1..Len(Now.refs) : Append(Now.refs, ref)[k] = Now.refs[k]
      /\ Append(Now.refs, ref)[Len(Now.refs) + 1] = ref
    BY <1>4, <1>5, AppendProperties
<1>7. /\ now \in Construction(Len(h)) /\ now.grammar = Now.grammar
      /\ now.rule = Now.rule /\ now.refs = Append(Now.refs, ref)
    BY <1>5, <1>6 DEF Construction
<1>8. current' = <<now>>
    BY DEF Got, ref
<1> HIDE DEF now
<1>9. current' \in Seq(Construction(Len(h))) /\ Len(current') <= 1 /\ Now' = now
    BY <1>7, <1>8 DEF Now
<1>10. ASSUME NEW k \in DOMAIN now.refs
       PROVE  \/ k \in DOMAIN Now.refs /\ now.refs[k] = Now.refs[k]
              \/ now.refs[k].to = i
    <2>1. k \in 1..(Len(Now.refs) + 1) /\ DOMAIN Now.refs = 1..Len(Now.refs)
        BY <1>1, <1>6, <1>7, LenProperties
    <2>2. CASE k = Len(Now.refs) + 1
        BY <1>6, <1>7, <2>2 DEF ref
    <2>3. CASE k \in 1..Len(Now.refs)
        BY <1>6, <1>7, <2>1, <2>3
    <2>. QED BY <1>1, <2>1, <2>2, <2>3
<1>11. Len(now.refs) = Len(Now.refs) + 1 /\ Len(now.refs) <= Len(now.rule.refs)
    BY <1>1, <1>2, <1>6, <1>7
<1>. QED BY <1>7, <1>9, <1>10, <1>11

LEMMA GetRuleInv ==
    ASSUME NEW o, IInv(o), GetRule
    PROVE  IInv(o)'
<1> DEFINE g == Now.grammar
           i == rules[g][NextName]
           t == IF heap[i].kind = "pointer" /\ ~Undefined(heap[i])
                THEN heap[i].refs[1].to ELSE i
<1>1. /\ Building /\ ~AllReferences /\ i # None /\ Got(t)
      /\ UNCHANGED <<heap, rules, pointers, alive, idBase, made, aborted>>
    BY DEF GetRule
<1>2. /\ TypeOK /\ g \in Grammar /\ Len(heap) \in Nat
      /\ Now.rule \in Statement[g] /\ Len(Now.refs) <= Len(Now.rule.refs)
      /\ Now.refs \in Seq(Reference(Len(heap))) /\ Now.rule.refs \in Seq(Name)
    BY <1>1, NowTyped, LenProperties DEF Building, IInv, HomeInv, NowAtHome, TypeOK, StatementType
<1>3. NextName \in Name
    <2>1. Len(Now.refs) < Len(Now.rule.refs)
        BY <1>1, <1>2, LenProperties DEF AllReferences
    <2>. QED BY <1>1, <1>2, <2>1, NextNameTyped
<1>4. i \in DOMAIN heap /\ i \in 1..Len(heap) /\ o[heap[i].home] = g
    <2>1. i \in DOMAIN heap
        BY <1>1, <1>2, <1>3 DEF TypeOK
    <2>. QED BY <1>1, <1>2, <1>3, <2>1, LenProperties DEF TypeOK, Building, IInv, HomeInv, NowAtHome
<1>5. t \in 1..Len(heap) /\ o[heap[t].home] = g
    <2>1. CASE heap[i].kind = "pointer" /\ ~Undefined(heap[i])
        <3>1. heap[i].refs \in Seq(Reference(Len(heap))) /\ heap[i].refs # <<>>
            BY <1>2, <1>4, <2>1, HeapAt DEF Undefined, TypeOK
        <3>2. 1 \in DOMAIN heap[i].refs
            BY <3>1, EmptySeq, LenProperties
        <3>3. heap[i].refs[1].to \in 1..Len(heap)
            BY <1>2, <1>4, <3>2, HeapAt DEF TypeOK
        <3>4. o[heap[heap[i].refs[1].to].home] = g
            BY <1>4, <3>2 DEF IInv, HomeInv, NowAtHome
        <3>. QED BY <2>1, <3>3, <3>4
    <2>2. CASE ~(heap[i].kind = "pointer" /\ ~Undefined(heap[i]))
        BY <1>4, <2>2
    <2>. QED BY <2>1, <2>2
<1> HIDE DEF i, t
<1>6. /\ current' \in Seq(Construction(Len(heap))) /\ Len(current') <= 1
      /\ Now'.grammar = Now.grammar /\ Now'.rule = Now.rule
      /\ \A k \in DOMAIN Now'.refs :
            \/ k \in DOMAIN Now.refs /\ Now'.refs[k] = Now.refs[k]
            \/ Now'.refs[k].to = t
      /\ Len(Now'.refs) <= Len(Now'.rule.refs)
    BY <1>1, <1>2, <1>5, GotTyped
<1>7. TypeOK'
    BY <1>1, <1>6 DEF IInv, TypeOK
<1>8. HomeInv(o)'
    <2>1. \A k \in DOMAIN Now'.refs : o[heap[Now'.refs[k].to].home] = g
        BY <1>1, <1>5, <1>6 DEF IInv, HomeInv, NowAtHome, Building
    <2>. QED BY <1>1, <1>2, <1>6, <2>1 DEF Building, IInv, HomeInv, NowAtHome
<1>9. PointersInv(o)' /\ ListedInv'
    BY <1>1 DEF IInv, PointersInv, ListedInv, Undefined
<1>. QED BY <1>7, <1>8, <1>9 DEF IInv

(* getRule() of a name n that the table of g does not have.                *)
Awaited(g, n) ==
    /\ rules[g][n] = None
    /\ heap' = Append(heap, Named(NewRecognizer("pointer", <<>>, g), PointerName(n), idBase + 1))
    /\ idBase' = idBase + 1
    /\ rules' = [rules EXCEPT ![g][n] = Len(heap) + 1]
    /\ pointers' = [pointers EXCEPT ![g] = @ \cup {Len(heap) + 1}]

LEMMA AwaitedInv ==
    ASSUME NEW o, IInv(o), NEW g \in Grammar, alive[g], NEW n \in Name, Awaited(g, n),
           UNCHANGED <<alive, made>>, aborted' \in BOOLEAN,
           current' \in Seq(Construction(Len(heap) + 1)), Len(current') <= 1,
           NowAtHome(o)'
    PROVE  IInv(o)'
<1> DEFINE i == Len(heap) + 1
           r == Named(NewRecognizer("pointer", <<>>, g), PointerName(n), idBase + 1)
<1>1. /\ rules[g][n] = None
      /\ heap' = Append(heap, r)
      /\ idBase' = idBase + 1
      /\ rules' = [rules EXCEPT ![g][n] = i]
      /\ pointers' = [pointers EXCEPT ![g] = @ \cup {i}]
      /\ UNCHANGED <<alive, made>>
    BY DEF Awaited
<1>2. TypeOK /\ Len(heap) \in Nat /\ i \in Nat
    BY LenProperties DEF IInv, TypeOK
<1>4. r \in Recognizer(i) /\ r.home = g /\ r.refs = <<>> /\ alive[g] /\ o[g] = g
    <2>1. NewRecognizer("pointer", <<>>, g) \in Recognizer(i)
        BY <1>2, EmptySeq DEF NewRecognizer, Recognizer, Unnamed
    <2>2. PointerName(n) \in Seq(Name \cup {"@"}) /\ idBase + 1 \in Nat
        BY <1>2 DEF PointerName, TypeOK
    <2>3. alive[g] /\ o[g] = g
        BY DEF IInv, HomeInv
    <2>. QED BY <1>2, <2>1, <2>2, <2>3, NamedTyped DEF NewRecognizer
<1> HIDE DEF r
<1>5. /\ heap' \in Seq(Recognizer(i)) /\ Len(heap') = i
      /\ \A j \in 1..Len(heap) : heap'[j] = heap[j]
      /\ heap'[i] = r
    BY <1>1, <1>2, <1>4, HeapGrows, AppendProperties DEF TypeOK
<1>6. DOMAIN heap = 1..Len(heap) /\ DOMAIN heap' = 1..i
    BY <1>2, <1>5, LenProperties DEF TypeOK
<1>7. current' \in Seq(Construction(i))
    OBVIOUS
<1> HIDE DEF i
<1>8. Len(heap) < i /\ i = Len(heap) + 1
    BY <1>2 DEF i
<1>9. /\ rules' \in [Grammar -> [Name -> {None} \cup DOMAIN heap']]
      /\ \A q \in Grammar, m \in Name :
            rules'[q][m] = IF q = g /\ m = n THEN i ELSE rules[q][m]
    <2>1. DOMAIN heap \subseteq DOMAIN heap' /\ i \in DOMAIN heap'
        BY <1>2, <1>6, <1>8
    <2>2. rules \in [Grammar -> [Name -> {None} \cup DOMAIN heap']]
        BY <1>2, <2>1 DEF TypeOK
    <2>. QED BY <1>1, <1>2, <2>1, <2>2
<1>10. /\ pointers' \in [Grammar -> SUBSET DOMAIN heap']
       /\ \A q \in Grammar : pointers'[q] = IF q = g THEN pointers[q] \cup {i} ELSE pointers[q]
    <2>1. DOMAIN heap \subseteq DOMAIN heap' /\ i \in DOMAIN heap'
        BY <1>2, <1>6, <1>8
    <2>2. pointers \in [Grammar -> SUBSET DOMAIN heap']
        BY <1>2, <2>1 DEF TypeOK
    <2>. QED BY <1>1, <1>2, <2>1, <2>2
<1>11. TypeOK'
    BY <1>1, <1>2, <1>5, <1>7, <1>9, <1>10 DEF TypeOK
<1>12. HomeInv(o)'
    <2>1. ASSUME NEW q \in Grammar, NEW m \in Name, alive[q], rules'[q][m] # None
          PROVE  o[heap'[rules'[q][m]].home] = q
        <3>1. CASE q = g /\ m = n
            BY <1>4, <1>5, <1>9, <3>1
        <3>2. CASE ~(q = g /\ m = n)
            <4>1. rules[q][m] \in 1..Len(heap) /\ o[heap[rules[q][m]].home] = q
                BY <1>2, <1>6, <1>9, <2>1, <3>2 DEF TypeOK, IInv, HomeInv, NowAtHome
            <4>. QED BY <1>5, <1>9, <3>2, <4>1
        <3>. QED BY <3>1, <3>2
    <2>3. ASSUME NEW j \in DOMAIN heap', NEW k \in DOMAIN heap'[j].refs
          PROVE  o[heap'[heap'[j].refs[k].to].home] = o[heap'[j].home]
        <3>1. CASE j = i
            BY <1>4, <1>5, <2>3, <3>1
        <3>2. CASE j \in 1..Len(heap)
            <4>1. heap[j].refs[k].to \in 1..Len(heap) /\ heap'[j] = heap[j]
                BY <1>2, <1>5, <1>6, <2>3, <3>2, HeapAt DEF TypeOK
            <4>2. o[heap[heap[j].refs[k].to].home] = o[heap[j].home]
                BY <1>6, <2>3, <3>2, <4>1 DEF IInv, HomeInv, NowAtHome
            <4>. QED BY <1>5, <4>1, <4>2
        <3>. QED BY <1>2, <1>6, <1>8, <3>1, <3>2
    <2>5. alive' = alive
        BY <1>1
    <2>. QED BY <2>1, <2>3, <2>5 DEF IInv, HomeInv
<1>a. PointersInv(o)'
    <2>1. ASSUME NEW q \in Grammar, NEW j \in pointers'[q]
          PROVE  heap'[j].home = q
        <3>1. CASE j = i /\ q = g
            BY <1>4, <1>5, <3>1
        <3>2. CASE j \in pointers[q]
            <4>1. j \in 1..Len(heap) /\ heap[j].home = q
                BY <1>2, <1>6, <3>2 DEF TypeOK, IInv, PointersInv
            <4>. QED BY <1>5, <4>1
        <3>. QED BY <1>10, <2>1, <3>1, <3>2
    <2>2. ASSUME NEW j \in DOMAIN heap', heap'[j].kind = "pointer"
          PROVE  j \in pointers'[heap'[j].home]
        <3>1. CASE j = i
            BY <1>2, <1>4, <1>5, <1>10, <3>1
        <3>2. CASE j \in 1..Len(heap)
            <4>1. j \in DOMAIN heap /\ heap'[j] = heap[j] /\ heap[j].home \in Grammar
                BY <1>2, <1>5, <1>6, <3>2, HeapAt DEF TypeOK
            <4>2. j \in pointers[heap[j].home]
                BY <2>2, <4>1 DEF IInv, PointersInv
            <4>. QED BY <1>10, <4>1, <4>2
        <3>. QED BY <1>2, <1>6, <1>8, <3>1, <3>2
    <2>3. \A q \in Grammar : o[q] # q => pointers'[q] = {}
        BY <1>4, <1>10 DEF IInv, PointersInv
    <2>. QED BY <2>1, <2>2, <2>3 DEF PointersInv
<1>13. ListedInv'
    <2> SUFFICES ASSUME NEW j \in DOMAIN heap', alive[heap'[j].home], Undefined(heap'[j])
                 PROVE  \E m \in Name : rules'[heap'[j].home][m] = j
        BY <1>1 DEF ListedInv, Undefined
    <2>1. CASE j = i
        <3>1. rules'[g][n] = i
            BY <1>2, <1>9
        <3>. QED BY <1>4, <1>5, <2>1, <3>1
    <2>2. CASE j \in 1..Len(heap)
        <3>1. j \in DOMAIN heap /\ heap'[j] = heap[j] /\ heap[j].home \in Grammar /\ j # None
            BY <1>2, <1>5, <1>6, <2>2, HeapAt DEF TypeOK, None
        <3>2. PICK m \in Name : rules[heap[j].home][m] = j
            BY <3>1 DEF IInv, ListedInv
        <3>3. ~(heap[j].home = g /\ m = n)
            BY <1>1, <3>1, <3>2
        <3>. QED BY <1>9, <3>1, <3>2, <3>3
    <2>. QED BY <1>2, <1>6, <1>8, <2>1, <2>2
<1>. QED BY <1>11, <1>12, <1>a, <1>13 DEF IInv

LEMMA GetPointerInv ==
    ASSUME NEW o, IInv(o), GetPointer
    PROVE  IInv(o)'
<1> DEFINE g == Now.grammar
           i == Len(heap) + 1
           n == NextName
           r == Named(NewRecognizer("pointer", <<>>, g), PointerName(n), idBase + 1)
<1>1. /\ Building /\ ~AllReferences /\ Got(i)
      /\ UNCHANGED <<alive, made, aborted>>
      /\ Awaited(g, n)
    BY DEF GetPointer, Awaited
<1>2. /\ TypeOK /\ g \in Grammar /\ Len(heap) \in Nat /\ i \in Nat
      /\ Now.rule \in Statement[g] /\ Len(Now.refs) <= Len(Now.rule.refs)
      /\ Now.refs \in Seq(Reference(Len(heap))) /\ Now.rule.refs \in Seq(Name)
    BY <1>1, NowTyped, LenProperties DEF Building, IInv, HomeInv, NowAtHome, TypeOK, StatementType
<1>3. n \in Name
    <2>1. Len(Now.refs) < Len(Now.rule.refs)
        BY <1>1, <1>2, LenProperties DEF AllReferences
    <2>. QED BY <1>1, <1>2, <2>1, NextNameTyped
<1>4. alive[g] /\ o[g] = g
    BY <1>1, <1>2 DEF Building, IInv, HomeInv, NowAtHome
<1>5. /\ \A j \in 1..Len(heap) : heap'[j] = heap[j]
      /\ heap'[i].home = g /\ Len(heap') = i
    <2>1. heap' = Append(heap, r)
        BY <1>1 DEF Awaited
    <2>2. r.home = g
        BY DEF Named, NewRecognizer
    <2> HIDE DEF r
    <2>. QED BY <1>2, <2>1, <2>2, AppendProperties DEF TypeOK
<1>6. /\ current' \in Seq(Construction(i)) /\ Len(current') <= 1
      /\ Now'.grammar = Now.grammar /\ Now'.rule = Now.rule
      /\ \A k \in DOMAIN Now'.refs :
            \/ k \in DOMAIN Now.refs /\ Now'.refs[k] = Now.refs[k]
            \/ Now'.refs[k].to = i
      /\ Len(Now'.refs) <= Len(Now'.rule.refs)
    <2>1. Len(heap') \in Nat /\ Len(heap') >= Len(heap) /\ i \in 1..Len(heap')
        BY <1>2, <1>5
    <2> HIDE DEF i
    <2>2. /\ current' \in Seq(Construction(Len(heap'))) /\ Len(current') <= 1
          /\ Now'.grammar = Now.grammar /\ Now'.rule = Now.rule
          /\ \A k \in DOMAIN Now'.refs :
                \/ k \in DOMAIN Now.refs /\ Now'.refs[k] = Now.refs[k]
                \/ Now'.refs[k].to = i
          /\ Len(Now'.refs) <= Len(Now'.rule.refs)
        BY <1>1, <1>2, <2>1, GotTyped
    <2>. QED BY <1>5, <2>2
<1> HIDE DEF i, n
<1>7. NowAtHome(o)'
    <2>1. ASSUME NEW k \in DOMAIN Now'.refs
          PROVE  o[heap'[Now'.refs[k].to].home] = g
        <3>1. CASE Now'.refs[k].to = i
            BY <1>4, <1>5, <3>1
        <3>2. CASE k \in DOMAIN Now.refs /\ Now'.refs[k] = Now.refs[k]
            <4>1. o[heap[Now.refs[k].to].home] = g
                BY <1>1, <3>2 DEF Building, IInv, HomeInv, NowAtHome
            <4>2. Now.refs[k] \in Reference(Len(heap))
                BY <1>2, <3>2, LenProperties, ElementOfSeq
            <4>3. Now.refs[k].to \in 1..Len(heap)
                BY <4>2 DEF Reference
            <4>. QED BY <1>5, <3>2, <4>1, <4>3
        <3>. QED BY <1>6, <2>1, <3>1, <3>2
    <2>. QED BY <1>1, <1>2, <1>4, <1>6, <2>1 DEF NowAtHome
<1>8. aborted' \in BOOLEAN
    BY <1>1, <1>2 DEF TypeOK
<1>9. current' \in Seq(Construction(Len(heap) + 1))
    BY <1>6 DEF i
<1>. QED BY <1>1, <1>2, <1>3, <1>4, <1>6, <1>7, <1>8, <1>9, AwaitedInv

LEMMA DestroyInv ==
    ASSUME NEW o, IInv(o), NEW g \in Grammar, Destroy(g)
    PROVE  IInv(o)'
<1>1. /\ current = Nothing
      /\ heap' = [i \in DOMAIN heap |->
                    IF i \in pointers[g] THEN [heap[i] EXCEPT !.refs = <<>>] ELSE heap[i]]
      /\ alive' = [alive EXCEPT ![g] = FALSE]
      /\ UNCHANGED <<rules, pointers, idBase, current, made, aborted>>
    BY DEF Destroy, PointersReset
<1>2. /\ TypeOK /\ Len(heap) \in Nat /\ DOMAIN heap = 1..Len(heap)
      /\ heap \in Seq(Recognizer(Len(heap)))
    BY LenProperties DEF IInv, TypeOK
<1>3. ASSUME NEW i \in 1..Len(heap)
      PROVE  /\ heap'[i] \in Recognizer(Len(heap))
             /\ heap'[i].home = heap[i].home /\ heap'[i].kind = heap[i].kind
             /\ heap'[i].refs = IF i \in pointers[g] THEN <<>> ELSE heap[i].refs
             /\ i \notin pointers[g] => heap'[i] = heap[i]
    <2>1. heap[i] \in Recognizer(Len(heap))
        BY <1>2, HeapAt
    <2>2. CASE i \in pointers[g]
        <3>1. heap'[i] = [heap[i] EXCEPT !.refs = <<>>]
            BY <1>1, <1>2, <2>2
        <3>2. <<>> \in Seq(Reference(Len(heap)))
            BY EmptySeq
        <3>. QED BY <2>1, <2>2, <3>1, <3>2 DEF Recognizer
    <2>3. CASE i \notin pointers[g]
        BY <1>1, <1>2, <2>1, <2>3
    <2>. QED BY <2>2, <2>3
<1>4. heap' \in Seq(Recognizer(Len(heap))) /\ Len(heap') = Len(heap) /\ DOMAIN heap' = DOMAIN heap
    <2>1. heap' \in [1..Len(heap) -> Recognizer(Len(heap))]
        BY <1>1, <1>2, <1>3
    <2>2. heap' \in Seq(Recognizer(Len(heap)))
        BY <1>2, <2>1, SeqDef
    <2>3. DOMAIN heap' = 1..Len(heap) /\ DOMAIN heap' = 1..Len(heap') /\ Len(heap') \in Nat
        BY <2>1, <2>2, LenProperties
    <2>4. Len(heap') = Len(heap)
        BY <1>2, <2>3
    <2>. QED BY <1>2, <2>2, <2>3, <2>4
<1>5. TypeOK'
    BY <1>1, <1>2, <1>4 DEF TypeOK
<1>6. HomeInv(o)'
    <2>1. ASSUME NEW q \in Grammar, NEW m \in Name, alive'[q], rules[q][m] # None
          PROVE  o[heap'[rules[q][m]].home] = q
        <3>1. rules[q][m] \in 1..Len(heap) /\ alive[q]
            BY <1>1, <1>2, <2>1 DEF TypeOK
        <3>2. o[heap[rules[q][m]].home] = q
            BY <2>1, <3>1 DEF IInv, HomeInv, NowAtHome
        <3>. QED BY <1>3, <3>1, <3>2
    <2>3. ASSUME NEW j \in DOMAIN heap', NEW k \in DOMAIN heap'[j].refs
          PROVE  o[heap'[heap'[j].refs[k].to].home] = o[heap'[j].home]
        <3>1. j \in 1..Len(heap) /\ heap'[j].refs = heap[j].refs /\ k \in DOMAIN heap[j].refs
            BY <1>2, <1>3, <1>4, <2>3
        <3>2. heap[j].refs[k].to \in 1..Len(heap)
            BY <1>2, <3>1, HeapAt
        <3>3. o[heap[heap[j].refs[k].to].home] = o[heap[j].home]
            BY <1>2, <3>1 DEF IInv, HomeInv, NowAtHome
        <3>. QED BY <1>3, <3>1, <3>2, <3>3
    <2>4. rules' = rules /\ current' = Nothing
        BY <1>1
    <2>5. \A q \in Grammar : alive'[q] => alive[q]
        BY <1>1, <1>2 DEF TypeOK
    <2>. QED BY <2>1, <2>3, <2>4, <2>5 DEF IInv, HomeInv, NowAtHome
<1>a. PointersInv(o)'
    <2>1. ASSUME NEW q \in Grammar, NEW j \in pointers[q]
          PROVE  heap'[j].home = q
        <3>1. j \in 1..Len(heap) /\ heap[j].home = q
            BY <1>2, <2>1 DEF TypeOK, IInv, PointersInv
        <3>. QED BY <1>3, <3>1
    <2>2. \A j \in DOMAIN heap' : heap'[j].kind = "pointer" => j \in pointers[heap'[j].home]
        BY <1>2, <1>3, <1>4 DEF IInv, PointersInv
    <2>. QED BY <1>1, <2>1, <2>2 DEF IInv, PointersInv
<1>7. ListedInv'
    <2> SUFFICES ASSUME NEW i \in DOMAIN heap', alive'[heap'[i].home], Undefined(heap'[i])
                 PROVE  \E n \in Name : rules[heap'[i].home][n] = i
        BY <1>1 DEF ListedInv, Undefined
    <2>1. i \in DOMAIN heap /\ i \in 1..Len(heap) /\ heap'[i].home = heap[i].home
        BY <1>2, <1>3, <1>4
    <2>2. heap[i].home \in Grammar
        BY <1>2, <2>1, HeapAt
    <2>3. heap[i].home # g /\ alive[heap[i].home]
        BY <1>1, <1>2, <2>1, <2>2 DEF TypeOK
    <2>4. i \notin pointers[g]
        BY <2>3 DEF IInv, PointersInv
    <2>5. heap'[i] = heap[i]
        BY <1>3, <2>1, <2>4
    <2>. QED BY <2>1, <2>3, <2>5 DEF IInv, ListedInv
<1>. QED BY <1>5, <1>6, <1>a, <1>7 DEF IInv

(* What h owns, and had been given, is then owned by g.                    *)
HandedOver(o, g, h) == [q \in Grammar |-> IF o[q] = h THEN g ELSE o[q]]

(* A grammar that is included as in the repository had no pointer to reset,*)
(* and none of its rules takes the place of another.                       *)
LEMMA CarefulInclude ==
    ASSUME TypeOK, NEW g \in Grammar, NEW h \in Grammar, Careful(g, h), Include(g, h)
    PROVE  /\ current = Nothing /\ alive[g] /\ alive[h] /\ pointers[h] = {}
           /\ UNCHANGED <<heap, pointers, idBase, current, made, aborted>>
           /\ rules' \in [Grammar -> [Name -> {None} \cup DOMAIN heap]]
           /\ \A q \in Grammar, n \in Name :
                 rules'[q][n] = IF q = g /\ rules[h][n] # None THEN rules[h][n] ELSE rules[q][n]
           /\ \A q \in Grammar, n \in Name :
                 rules[q][n] # None => rules'[q][n] = rules[q][n]
           /\ alive' \in [Grammar -> BOOLEAN]
           /\ \A q \in Grammar : alive'[q] <=> alive[q] /\ q # h
<1>1. /\ current = Nothing /\ alive[g] /\ alive[h]
      /\ rules' = [rules EXCEPT ![g] =
                      [n \in Name |-> IF rules[h][n] # None THEN rules[h][n] ELSE @[n]]]
      /\ heap' = PointersReset(h) /\ alive' = [alive EXCEPT ![h] = FALSE]
      /\ UNCHANGED <<pointers, idBase, current, made, aborted>>
    BY DEF Include, Careful
<1>2. pointers[h] = {} /\ \A n \in Name : rules[g][n] = None \/ rules[h][n] = None
    BY DEF Careful
<1>3. heap \in [1..Len(heap) -> Recognizer(Len(heap))] /\ DOMAIN heap = 1..Len(heap)
    BY LenProperties, SeqDef DEF TypeOK
<1>4. heap' = [i \in DOMAIN heap |-> heap[i]]
    BY <1>1, <1>2 DEF PointersReset
<1>5. heap' = heap
    BY <1>3, <1>4
<1>6. rules \in [Grammar -> [Name -> {None} \cup DOMAIN heap]] /\ alive \in [Grammar -> BOOLEAN]
    BY DEF TypeOK
<1>7. \A q \in Grammar, n \in Name :
          rules'[q][n] = IF q = g /\ rules[h][n] # None THEN rules[h][n] ELSE rules[q][n]
    BY <1>1, <1>6
<1>8. rules' \in [Grammar -> [Name -> {None} \cup DOMAIN heap]]
    BY <1>1, <1>6
<1>9. \A q \in Grammar, n \in Name : rules[q][n] # None => rules'[q][n] = rules[q][n]
    BY <1>2, <1>7
<1>10. alive' \in [Grammar -> BOOLEAN] /\ \A q \in Grammar : alive'[q] <=> alive[q] /\ q # h
    BY <1>1, <1>6
<1>. QED BY <1>1, <1>2, <1>5, <1>7, <1>8, <1>9, <1>10

LEMMA IncludeInv ==
    ASSUME NEW o, IInv(o), NEW g \in Grammar, NEW h \in Grammar, Careful(g, h), Include(g, h)
    PROVE  IInv(HandedOver(o, g, h))'
<1> DEFINE p == HandedOver(o, g, h)
<1>1. /\ TypeOK /\ current = Nothing /\ alive[g] /\ alive[h] /\ pointers[h] = {}
      /\ UNCHANGED <<heap, pointers, idBase, current, made, aborted>>
    BY CarefulInclude DEF IInv
<1>2. /\ TypeOK /\ o \in [Grammar -> Grammar] /\ o[g] = g /\ o[h] = h
      /\ heap \in Seq(Recognizer(Len(heap))) /\ DOMAIN heap = 1..Len(heap)
    BY <1>1, LenProperties DEF IInv, HomeInv, NowAtHome, TypeOK
<1>homes. \A i \in DOMAIN heap : heap[i].home \in Grammar
    BY <1>2, HeapAt
<1>3. /\ rules' \in [Grammar -> [Name -> {None} \cup DOMAIN heap]]
      /\ \A q \in Grammar, n \in Name :
            rules'[q][n] = IF q = g /\ rules[h][n] # None THEN rules[h][n] ELSE rules[q][n]
      /\ \A q \in Grammar, n \in Name : rules[q][n] # None => rules'[q][n] = rules[q][n]
    BY <1>1, CarefulInclude
<1>4. alive' \in [Grammar -> BOOLEAN] /\ \A q \in Grammar : alive'[q] <=> alive[q] /\ q # h
    BY <1>1, CarefulInclude
<1>5. /\ p \in [Grammar -> Grammar]
      /\ \A q \in Grammar : p[q] = IF o[q] = h THEN g ELSE o[q]
    BY <1>2 DEF HandedOver
<1>6. TypeOK'
    BY <1>1, <1>3, <1>4 DEF IInv, TypeOK
<1> HIDE DEF p
<1>7. HomeInv(p)'
    <2>1. ASSUME NEW q \in Grammar, alive'[q]
          PROVE  p[q] = q
        BY <1>4, <1>5, <2>1 DEF IInv, HomeInv, NowAtHome
    <2>2. ASSUME NEW q \in Grammar, NEW n \in Name, alive'[q], rules'[q][n] # None
          PROVE  p[heap[rules'[q][n]].home] = q
        <3>1. CASE q = g /\ rules[h][n] # None
            <4>1. rules'[q][n] = rules[h][n]
                BY <1>3, <3>1
            <4>2. rules[h][n] \in DOMAIN heap /\ o[heap[rules[h][n]].home] = h
                BY <1>1, <1>2, <2>2, <4>1 DEF IInv, HomeInv, NowAtHome, TypeOK
            <4>3. heap[rules[h][n]].home \in Grammar
                BY <1>homes, <4>2
            <4>. QED BY <1>5, <3>1, <4>1, <4>2, <4>3
        <3>2. CASE ~(q = g /\ rules[h][n] # None)
            <4>1. rules'[q][n] = rules[q][n] /\ alive[q] /\ q # h
                BY <1>3, <1>4, <2>2, <3>2
            <4>2. rules[q][n] \in DOMAIN heap /\ o[heap[rules[q][n]].home] = q
                BY <1>2, <2>2, <4>1 DEF IInv, HomeInv, NowAtHome, TypeOK
            <4>3. heap[rules[q][n]].home \in Grammar
                BY <1>homes, <4>2
            <4>. QED BY <1>5, <4>1, <4>2, <4>3
        <3>. QED BY <3>1, <3>2
    <2>3. ASSUME NEW i \in DOMAIN heap, NEW k \in DOMAIN heap[i].refs
          PROVE  p[heap[heap[i].refs[k].to].home] = p[heap[i].home]
        <3>1. heap[i].refs[k].to \in DOMAIN heap /\ heap[i].home \in Grammar
            BY <1>2, HeapAt
        <3>2. heap[heap[i].refs[k].to].home \in Grammar
            BY <1>homes, <3>1
        <3>3. o[heap[heap[i].refs[k].to].home] = o[heap[i].home]
            BY DEF IInv, HomeInv, NowAtHome
        <3>. QED BY <1>5, <3>1, <3>2, <3>3
    <2>. QED BY <1>1, <1>5, <2>1, <2>2, <2>3 DEF HomeInv, NowAtHome
<1>8. PointersInv(p)'
    <2>1. ASSUME NEW q \in Grammar, p[q] # q PROVE pointers[q] = {}
        BY <1>1, <1>2, <1>5, <2>1 DEF IInv, PointersInv
    <2>. QED BY <1>1, <2>1 DEF IInv, PointersInv
<1>9. ListedInv'
    <2> SUFFICES ASSUME NEW i \in DOMAIN heap, alive'[heap[i].home], Undefined(heap[i])
                 PROVE  \E n \in Name : rules'[heap[i].home][n] = i
        BY <1>1 DEF ListedInv, Undefined
    <2>1. heap[i].home \in Grammar /\ i # None
        BY <1>2, HeapAt DEF None
    <2>2. alive[heap[i].home]
        BY <1>4, <2>1
    <2>3. PICK n \in Name : rules[heap[i].home][n] = i
        BY <2>2 DEF IInv, ListedInv
    <2>. QED BY <1>3, <2>1, <2>3
<1>. QED BY <1>6, <1>7, <1>8, <1>9 DEF IInv, p

LEMMA StepInv ==
    ASSUME NEW o, IInv(o), [CarefulNext]_vars
    PROVE  \E p : IInv(p)'
<1>1. ASSUME NEW g \in Grammar, NEW s \in Statement[g], BeginRule(g, s)
      PROVE  IInv(o)'
    BY <1>1, BeginRuleInv
<1>2. CASE GetRule
    BY <1>2, GetRuleInv
<1>3. CASE GetPointer
    BY <1>3, GetPointerInv
<1>4. CASE AddRule
    BY <1>4, AddRuleInv
<1>5. CASE ExtendRule
    BY <1>5, ExtendRuleInv
<1>6. CASE Abort
    <2>1. UNCHANGED <<heap, rules, pointers, alive, idBase, current, made>> /\ aborted' \in BOOLEAN
        BY <1>6 DEF Abort
    <2>2. IInv(o)'
        BY <2>1 DEF IInv, TypeOK, HomeInv, NowAtHome, PointersInv, ListedInv, Now, Undefined
    <2>. QED BY <2>2
<1>7. ASSUME NEW g \in Grammar, NEW h \in Grammar, Careful(g, h), Include(g, h)
      PROVE  IInv(HandedOver(o, g, h))'
    BY <1>7, IncludeInv
<1>8. ASSUME NEW g \in Grammar, Destroy(g)
      PROVE  IInv(o)'
    BY <1>8, DestroyInv
<1>9. CASE UNCHANGED vars
    <2>1. IInv(o)'
        BY <1>9 DEF vars, IInv, TypeOK, HomeInv, NowAtHome, PointersInv, ListedInv, Now, Undefined
    <2>. QED BY <2>1
<1>10. CASE Finished
    BY <1>9, <1>10 DEF Finished
<1>. QED BY <1>1, <1>2, <1>3, <1>4, <1>5, <1>6, <1>7, <1>8, <1>9, <1>10
         DEF CarefulNext, BuildNext

(* The pointers that wait for their rule are in the table of their grammar;*)
(* if the table has none, all that its rules lead to is defined.           *)
LEMMA ListedIsEnough ==
    ASSUME NEW o, IInv(o)
    PROVE  CompleteMeansDefined
<1> SUFFICES ASSUME NEW g \in Grammar, alive[g], IsComplete(g)
             PROVE  \E S \in SUBSET {i \in DOMAIN heap : ~Undefined(heap[i])} :
                        /\ \A n \in Name : rules[g][n] # None => rules[g][n] \in S
                        /\ Closed(S)
    BY DEF CompleteMeansDefined
<1> DEFINE S == {i \in DOMAIN heap : o[heap[i].home] = g}
<1>1. DOMAIN heap = 1..Len(heap) /\ Len(heap) \in Nat /\ heap \in Seq(Recognizer(Len(heap)))
    BY LenProperties DEF IInv, TypeOK
<1>2. \A i \in S : ~Undefined(heap[i])
    <2> SUFFICES ASSUME NEW i \in DOMAIN heap, o[heap[i].home] = g, Undefined(heap[i])
                 PROVE  FALSE
        OBVIOUS
    <2>1. heap[i].home = g
        <3>1. heap[i].home \in Grammar /\ i \in pointers[heap[i].home]
            BY <1>1, HeapAt DEF Undefined, IInv, PointersInv
        <3>. QED BY <3>1 DEF IInv, PointersInv
    <2>2. PICK n \in Name : rules[g][n] = i
        BY <2>1 DEF IInv, ListedInv
    <2>3. rules[g][n] # None
        BY <1>1, <2>2 DEF None
    <2>. QED BY <2>2, <2>3 DEF IsComplete
<1>3. \A n \in Name : rules[g][n] # None => rules[g][n] \in S
    BY DEF IInv, HomeInv, NowAtHome, TypeOK
<1>4. Closed(S)
    <2> SUFFICES ASSUME NEW i \in S, NEW k \in DOMAIN heap[i].refs
                 PROVE  heap[i].refs[k].to \in S
        BY DEF Closed
    <2>1. heap[i].refs[k].to \in 1..Len(heap)
        BY <1>1, HeapAt
    <2>2. o[heap[heap[i].refs[k].to].home] = o[heap[i].home]
        BY DEF IInv, HomeInv, NowAtHome
    <2>. QED BY <1>1, <2>1, <2>2
<1>. QED BY <1>2, <1>3, <1>4

(* Some distribution of what was made among the grammars is as it must be. *)
Owned == \E o : IInv(o)

LEMMA AlwaysOwned == CarefulSpec => []Owned
<1>1. Init => Owned
    BY InitInv DEF Owned
<1>2. Owned /\ [CarefulNext]_vars => Owned'
    BY StepInv DEF Owned
<1>. QED BY <1>1, <1>2, PTL DEF CarefulSpec

(* For any names, texts and grammars, where what include() is given is a   *)
(* temporary that made no pointer and has none of the rules of the other:  *)
(* the rule tables of belr.cpp and what is under construction keep their   *)
(* types, no entry and no reference is beyond the recognizers that exist.  *)
THEOREM TablesTypeCorrect == CarefulSpec => []TypeOK
<1>1. Owned => TypeOK
    BY DEF Owned, IInv
<1>. QED BY <1>1, AlwaysOwned, PTL

(* For any rules in any order, with aliases, extensions, forward references*)
(* and destroyed grammars, and for include() under the same conditions:    *)
(* once isComplete() is true, no rule leads to a RecognizerPointer that    *)
(* points to nothing.  Without either condition it is false of belr.cpp:   *)
(* the entry of a pointer that is awaited is lost, or a pointer is reset.  *)
THEOREM CompleteGrammarIsDefined == CarefulSpec => []CompleteMeansDefined
<1>1. Owned => CompleteMeansDefined
    BY ListedIsEnough DEF Owned
<1>. QED BY <1>1, AlwaysOwned, PTL

----------------------------------------------------------------------------
(* "a =/ b" does not occur: an extension is not the name of a rule.        *)
NoNamedExtension ==
    \A g \in Grammar : \A s \in Statement[g] : s.extension => s.form # "reference"

(* What the table has for a name is named so, or is a pointer that waits   *)
(* for it; a pointer that is set leads to a rule.                          *)
NamesInv ==
    /\ \A g \in Grammar, n \in Name : rules[g][n] # None =>
          LET r == heap[rules[g][n]]
          IN  \/ r.kind # "pointer" /\ r.name = RuleName(n)
              \/ Undefined(r) /\ r.name = PointerName(n) /\ r.home = g
    /\ \A i \in DOMAIN heap : heap[i].kind = "pointer" /\ heap[i].refs # <<>> =>
          heap[heap[i].refs[1].to].kind # "pointer"

(* A reference of a grammar that lives stands for the entry of its name.   *)
MeaningInv ==
    \A i \in DOMAIN heap : \A k \in DOMAIN heap[i].refs :
        LET ref == heap[i].refs[k]
            g   == heap[i].home
        IN  alive[g] /\ ref.as # <<>> =>
                /\ ref.as[1] \in Name
                /\ rules[g][ref.as[1]] # None
                /\ Meaning(ref.to) = rules[g][ref.as[1]]

(* While a rule is built, its references are entries of the table.         *)
NowInv ==
    current # Nothing =>
        \A k \in DOMAIN Now.refs :
            LET n == Now.rule.refs[k]
            IN  /\ rules[Now.grammar][n] # None
                /\ Now.refs[k] = [to |-> rules[Now.grammar][n], as |-> <<n>>]

(* No two recognizers have one id.                                         *)
IdsInv ==
    /\ \A i \in DOMAIN heap : heap[i].id <= idBase
    /\ \A i, j \in DOMAIN heap : heap[i].id = heap[j].id => i = j

(* The grammar of a parser lives.                                          *)
ParserInv ==
    parser # NoParser => parser[1].grammar \in Grammar /\ alive[parser[1].grammar]

(* The handlers of a parser are for rules that are defined.                *)
HandlersInv ==
    parser # NoParser =>
        \A id \in DOMAIN parser[1].handlers :
            LET n == parser[1].handlers[id]
                i == rules[parser[1].grammar][n]
            IN  n \in Name /\ i # None /\ heap[i].kind # "pointer" /\ heap[i].id = id

----------------------------------------------------------------------------
LEMMA Tables ==
    ASSUME NEW o, IInv(o)
    PROVE  /\ Len(heap) \in Nat /\ DOMAIN heap = 1..Len(heap)
           /\ heap \in Seq(Recognizer(Len(heap)))
           /\ \A g \in Grammar, n \in Name :
                 rules[g][n] # None => rules[g][n] \in 1..Len(heap)
BY LenProperties DEF IInv, TypeOK

LEMMA NamesDiffer ==
    ASSUME NEW n, NEW m
    PROVE  /\ RuleName(n) = RuleName(m) => n = m
           /\ PointerName(n) = PointerName(m) => n = m
           /\ RuleName(n) # Unnamed /\ PointerName(n) # Unnamed
           /\ PointerName(n) # RuleName(m)
BY DEF RuleName, PointerName, Unnamed

(* While a rule is built.                                                  *)
LEMMA NowFacts ==
    ASSUME NEW o, IInv(o), NowInv, Building, AllReferences
    PROVE  /\ Now.grammar \in Grammar /\ alive[Now.grammar] /\ Now.rule.name \in Name
           /\ Now.rule \in Statement[Now.grammar]
           /\ Now.rule.form \in Form
           /\ DOMAIN Now.refs = DOMAIN Now.rule.refs
           /\ Now.refs \in Seq(Reference(Len(heap)))
           /\ \A k \in DOMAIN Now.refs :
                 /\ Now.rule.refs[k] \in Name
                 /\ rules[Now.grammar][Now.rule.refs[k]] # None
                 /\ Now.refs[k] = [to |-> rules[Now.grammar][Now.rule.refs[k]],
                                   as |-> <<Now.rule.refs[k]>>]
           /\ Now.rule.form = "reference" => 1 \in DOMAIN Now.refs
<1>1. current # Nothing /\ TypeOK
    BY DEF Building, IInv
<1>2. /\ Now.grammar \in Grammar /\ Now.rule \in StatementType
      /\ Now.refs \in Seq(Reference(Len(heap)))
    BY <1>1, NowTyped
<1>3. alive[Now.grammar] /\ Now.rule \in Statement[Now.grammar]
    BY <1>1 DEF IInv, HomeInv, NowAtHome
<1>4. Now.rule.refs \in Seq(Name) /\ Now.rule.name \in Name /\ Now.rule.form \in Form
    BY <1>2 DEF StatementType
<1>5. DOMAIN Now.refs = DOMAIN Now.rule.refs
    BY <1>2, <1>4, LenProperties DEF AllReferences
<1>6. \A k \in DOMAIN Now.refs : Now.rule.refs[k] \in Name
    BY <1>4, <1>5, ElementOfSeq, LenProperties
<1>7. Now.rule.form = "reference" => 1 \in DOMAIN Now.refs
    <2>1. Now.rule.form = "reference" => Len(Now.rule.refs) = 1
        BY <1>2, <1>3, GrammarAssumption
    <2>. QED BY <1>4, <1>5, <2>1, LenProperties
<1>. QED BY <1>1, <1>2, <1>3, <1>4, <1>5, <1>6, <1>7 DEF NowInv

(* One recognizer is made, named and given the next id; the others keep    *)
(* what they are.                                                          *)
Makes(name) ==
    LET made1 == heap'[Len(heap) + 1]
    IN  /\ Len(heap') = Len(heap) + 1
        /\ made1.kind # "pointer" /\ made1.home = Now.grammar
        /\ made1.name = name /\ made1.id = idBase + 1
        /\ \A k \in DOMAIN made1.refs : \E m \in DOMAIN Now.refs : made1.refs[k] = Now.refs[m]
        /\ \A j \in 1..Len(heap) :
              /\ heap'[j].kind = heap[j].kind /\ heap'[j].home = heap[j].home
              /\ heap'[j].name = heap[j].name /\ heap'[j].id = heap[j].id

(* A rule that is the name of another is put behind an alias: what has a   *)
(* name already never gets a second one.                                   *)
LEMMA RuleIsNew ==
    ASSUME NEW o, IInv(o), NamesInv, NowInv, AddRule
    PROVE  LET b == Aliased(Built, Now.rule.name)
               r == b.heap[b.at]
           IN  /\ \E x : /\ b.heap = Append(heap, x)
                         /\ x.kind \in Form \cup {"alias"} /\ x.home = Now.grammar
                         /\ \A k \in DOMAIN x.refs :
                               \E m \in DOMAIN Now.refs : x.refs[k] = Now.refs[m]
                         /\ x.kind # "pointer" /\ x = NewRecognizer(x.kind, x.refs, x.home)
               /\ b.at = Len(heap) + 1
<1> DEFINE g == Now.grammar
           n == Now.rule.name
<1>1. Building /\ AllReferences /\ MayAdd(g, n)
    BY DEF AddRule
<1>2. /\ g \in Grammar /\ n \in Name /\ Now.rule.form \in Form
      /\ \A k \in DOMAIN Now.refs :
            /\ Now.rule.refs[k] \in Name
            /\ rules[g][Now.rule.refs[k]] # None
            /\ Now.refs[k] = [to |-> rules[g][Now.rule.refs[k]], as |-> <<Now.rule.refs[k]>>]
      /\ Now.rule.form = "reference" => 1 \in DOMAIN Now.refs
    BY <1>1, NowFacts
<1>3. CASE Now.rule.form # "reference"
    <2> DEFINE x == NewRecognizer(Now.rule.form, Now.refs, g)
    <2>1. Built.heap = Append(heap, x) /\ Built.at = Len(heap) + 1
        BY <1>3 DEF Built
    <2>2. Append(heap, x)[Len(heap) + 1] = x
        BY Tables, AppendProperties
    <2>3. Aliased(Built, n) = Built
        BY <2>1, <2>2 DEF Aliased, NewRecognizer
    <2>4. /\ x.kind = Now.rule.form /\ x.home = g /\ x.refs = Now.refs
          /\ x.kind # "pointer"
        BY <1>2 DEF NewRecognizer, Form
    <2>. QED BY <1>2, <2>1, <2>3, <2>4
<1>4. CASE Now.rule.form = "reference"
    <2> DEFINE x == NewRecognizer("alias", <<Now.refs[1]>>, g)
               m == Now.rule.refs[1]
               i == rules[g][m]
    <2>1. Built.heap = heap /\ Built.at = i /\ m \in Name /\ i # None
        <3>1. Now.refs[1] = [to |-> i, as |-> <<m>>] /\ m \in Name /\ i # None
            BY <1>2, <1>4
        <3>2. Now.refs[1].to = i
            BY <3>1
        <3>. QED BY <1>4, <3>1, <3>2 DEF Built
    <2>2. heap[i].name \notin {Unnamed, RuleName(n)}
        <3>1. \/ heap[i].kind # "pointer" /\ heap[i].name = RuleName(m)
              \/ heap[i].name = PointerName(m)
            BY <1>2, <2>1 DEF NamesInv
        <3>2. m = n => heap[i].kind = "pointer"
            BY <1>1, <2>1 DEF MayAdd, Redefines
        <3>. QED BY <3>1, <3>2, NamesDiffer
    <2>3. /\ Aliased(Built, n).heap = Append(heap, x)
          /\ Aliased(Built, n).at = Len(heap) + 1
        BY <2>1, <2>2 DEF Aliased
    <2>4. /\ x.kind = "alias" /\ x.home = g /\ x.refs = <<Now.refs[1]>>
          /\ \A k \in DOMAIN x.refs : x.refs[k] = Now.refs[1]
        BY DEF NewRecognizer
    <2>. QED BY <1>2, <1>4, <2>3, <2>4
<1>. QED BY <1>3, <1>4

(* h is z with its last element replaced by y.                             *)
LastIs(h, z, n, y) == h = [z EXCEPT ![n + 1] = y]

LEMMA LastReplaced ==
    ASSUME NEW n \in Nat, NEW z, DOMAIN z = 1..(n + 1), NEW y, NEW h, LastIs(h, z, n, y)
    PROVE  /\ DOMAIN h = 1..(n + 1)
           /\ h[n + 1] = y
           /\ \A j \in 1..n : h[j] = z[j]
BY DEF LastIs

(* addRule(): the recognizer is new, and the one that is set is the pointer*)
(* that waits for it.                                                      *)
LEMMA AddRuleMakes ==
    ASSUME NEW o, IInv(o), NamesInv, NowInv, AddRule
    PROVE  LET g == Now.grammar
               n == Now.rule.name
           IN  /\ Makes(RuleName(n))
               /\ rules' = [rules EXCEPT ![g][n] = Len(heap) + 1]
               /\ \A j \in 1..Len(heap) : j # rules[g][n] => heap'[j].refs = heap[j].refs
               /\ rules[g][n] # None =>
                     /\ Undefined(heap[rules[g][n]])
                     /\ heap'[rules[g][n]].refs = <<[to |-> Len(heap) + 1, as |-> <<n>>]>>
<1> DEFINE g == Now.grammar
           n == Now.rule.name
           b == Aliased(Built, n)
           N == Len(heap) + 1
           old == rules[g][n]
<1>1. /\ Building /\ AllReferences /\ MayAdd(g, n)
      /\ heap' = PointerSet([b.heap EXCEPT ![b.at] = Named(@, RuleName(n), idBase + 1)],
                            old, b.at, n)
      /\ rules' = [rules EXCEPT ![g][n] = b.at]
    BY DEF AddRule
<1>2. g \in Grammar /\ n \in Name
    BY <1>1, NowFacts
<1>3. PICK x : /\ b.heap = Append(heap, x)
               /\ x.kind \in Form \cup {"alias"} /\ x.home = Now.grammar
               /\ \A k \in DOMAIN x.refs : \E m \in DOMAIN Now.refs : x.refs[k] = Now.refs[m]
               /\ x.kind # "pointer" /\ x = NewRecognizer(x.kind, x.refs, x.home)
    BY RuleIsNew
<1>4. b.at = N
    BY RuleIsNew
<1>5. /\ Len(heap) \in Nat /\ N \in Nat
      /\ Len(Append(heap, x)) = N /\ Append(heap, x)[N] = x
      /\ \A j \in 1..Len(heap) : Append(heap, x)[j] = heap[j]
      /\ DOMAIN Append(heap, x) = 1..N
      /\ old # None => old \in 1..Len(heap)
    <2>1. heap \in Seq(Recognizer(Len(heap)))
        BY Tables
    <2>. QED BY <1>2, <2>1, Tables
<1> DEFINE y == Named(x, RuleName(n), idBase + 1)
           h == [Append(heap, x) EXCEPT ![N] = y]
<1>6. /\ y.kind = x.kind /\ y.home = x.home /\ y.refs = x.refs
      /\ y.name = RuleName(n) /\ y.id = idBase + 1
    BY <1>3 DEF Named, NewRecognizer
<1>7. [b.heap EXCEPT ![b.at] = Named(@, RuleName(n), idBase + 1)] = h
    BY <1>3, <1>4, <1>5
<1>8. heap' = PointerSet(h, old, N, n)
    BY <1>1, <1>4, <1>7
<1> HIDE DEF y
<1>9. /\ Len(h) = N /\ h[N] = y /\ DOMAIN h = 1..N
      /\ \A j \in 1..Len(heap) : h[j] = heap[j]
    <2> DEFINE z == Append(heap, x)
    <2>a. DOMAIN z = 1..(Len(heap) + 1) /\ Len(heap) \in Nat /\ LastIs(h, z, Len(heap), y)
        BY <1>5 DEF LastIs
    <2> HIDE DEF z, h
    <2>1. DOMAIN h = 1..N /\ h[N] = y /\ \A j \in 1..Len(heap) : h[j] = Append(heap, x)[j]
        <3>1. /\ DOMAIN h = 1..(Len(heap) + 1) /\ h[Len(heap) + 1] = y
              /\ \A j \in 1..Len(heap) : h[j] = z[j]
            BY <2>a, LastReplaced
        <3>. QED BY <3>1 DEF z
    <2>2. Len(h) = N
        BY <1>5, <2>1
    <2>. QED BY <1>5, <2>1, <2>2
<1> HIDE DEF h
<1>10. CASE old # None /\ heap[old].kind = "pointer"
    <2> DEFINE s == [h[old] EXCEPT !.refs = <<[to |-> N, as |-> <<n>>]>>]
    <2>1. old \in 1..Len(heap) /\ h[old] = heap[old] /\ old # N
        BY <1>5, <1>9, <1>10
    <2>2. heap' = [h EXCEPT ![old] = s]
        BY <1>8, <1>10, <2>1 DEF PointerSet
    <2>3. Undefined(heap[old])
        BY <1>2, <1>10 DEF NamesInv
    <2>4. /\ s.kind = heap[old].kind /\ s.home = heap[old].home
          /\ s.name = heap[old].name /\ s.id = heap[old].id
          /\ s.refs = <<[to |-> N, as |-> <<n>>]>>
        <3>1. heap[old] \in Recognizer(Len(heap))
            BY <2>1, Tables, HeapAt
        <3>. QED BY <2>1, <3>1 DEF Recognizer
    <2> HIDE DEF s
    <2>5. /\ DOMAIN heap' = 1..N /\ heap'[old] = s
          /\ \A j \in 1..N : j # old => heap'[j] = h[j]
        BY <1>5, <1>9, <2>1, <2>2
    <2>6. Len(heap') = N
        BY <1>5, <2>5
    <2>7. heap'[N] = y
        BY <1>5, <1>9, <2>1, <2>5
    <2>8. \A j \in 1..Len(heap) : j # old => heap'[j] = heap[j]
        BY <1>5, <1>9, <2>5
    <2>a. \A j \in 1..Len(heap) :
              /\ heap'[j].kind = heap[j].kind /\ heap'[j].home = heap[j].home
              /\ heap'[j].name = heap[j].name /\ heap'[j].id = heap[j].id
        BY <2>4, <2>5, <2>8
    <2> HIDE DEF g, n, old, b
    <2>9. Makes(RuleName(n))
        BY <1>3, <1>6, <2>6, <2>7, <2>a DEF Makes
    <2>. QED BY <1>1, <1>4, <2>3, <2>4, <2>5, <2>8, <2>9 DEF g, n, old, b
<1>11. CASE ~(old # None /\ heap[old].kind = "pointer")
    <2>1. old = None
        BY <1>1, <1>11 DEF MayAdd, Redefines
    <2>2. heap' = h
        BY <1>8, <2>1 DEF PointerSet
    <2>3. Makes(RuleName(n))
        BY <1>3, <1>6, <1>9, <2>2 DEF Makes
    <2>. QED BY <1>1, <1>4, <1>9, <2>1, <2>2, <2>3
<1>. QED BY <1>10, <1>11

(* extendRule(): the last alternative of a rule is new, and nameless.      *)
LEMMA ExtendRuleMakes ==
    ASSUME NEW o, IInv(o), NowInv, NoNamedExtension, ExtendRule
    PROVE  LET i == rules[Now.grammar][Now.rule.name]
           IN  /\ Makes(Unnamed)
               /\ \A j \in 1..Len(heap) : j # i => heap'[j].refs = heap[j].refs
               /\ i \in 1..Len(heap) /\ heap[i].kind = "selector"
               /\ heap'[i].refs = Append(heap[i].refs, [to |-> Len(heap) + 1, as |-> <<>>])
<1> DEFINE g == Now.grammar
           n == Now.rule.name
           i == rules[g][n]
           N == Len(heap) + 1
           x == NewRecognizer(Now.rule.form, Now.refs, g)
           e == [to |-> N, as |-> <<>>]
<1>1. /\ Building /\ AllReferences /\ MayExtend(g, n) /\ Now.rule.extension
      /\ heap' = [[Built.heap EXCEPT ![Built.at] = Named(@, Unnamed, idBase + 1)]
                      EXCEPT ![i].refs = Append(@, Extension)]
    BY DEF ExtendRule
<1>2. /\ g \in Grammar /\ n \in Name /\ Now.rule \in Statement[g]
      /\ Now.rule.form \in Form
    BY <1>1, NowFacts
<1>3. Now.rule.form # "reference"
    BY <1>1, <1>2 DEF NoNamedExtension
<1>4. Built.heap = Append(heap, x) /\ Built.at = N /\ Extension = e
    BY <1>3 DEF Built, Extension
<1>5. /\ x.kind # "pointer" /\ x.home = g /\ x.refs = Now.refs
    BY <1>2 DEF NewRecognizer, Form
<1>6. i \in 1..Len(heap) /\ heap[i].kind = "selector"
    BY <1>1, <1>2, Tables DEF MayExtend
<1> DEFINE y == Named(x, Unnamed, idBase + 1)
           h == [Append(heap, x) EXCEPT ![N] = y]
<1>7. /\ y.kind = x.kind /\ y.home = x.home /\ y.refs = x.refs
      /\ y.name = Unnamed /\ y.id = idBase + 1
    BY DEF Named, NewRecognizer
<1> HIDE DEF x
<1>8. /\ Len(heap) \in Nat /\ N \in Nat
      /\ Len(Append(heap, x)) = N /\ Append(heap, x)[N] = x
      /\ \A j \in 1..Len(heap) : Append(heap, x)[j] = heap[j]
      /\ DOMAIN Append(heap, x) = 1..N
    <2>1. heap \in Seq(Recognizer(Len(heap)))
        BY Tables
    <2>. QED BY <2>1, Tables
<1>9. heap' = [h EXCEPT ![i].refs = Append(@, e)]
    BY <1>1, <1>4, <1>8
<1> HIDE DEF y
<1>10. /\ DOMAIN h = 1..N /\ h[N] = y
       /\ \A j \in 1..Len(heap) : h[j] = heap[j]
    <2> DEFINE z == Append(heap, x)
    <2>a. DOMAIN z = 1..(Len(heap) + 1) /\ Len(heap) \in Nat /\ LastIs(h, z, Len(heap), y)
        BY <1>8 DEF LastIs
    <2> HIDE DEF z, h
    <2>1. DOMAIN h = 1..N /\ h[N] = y /\ \A j \in 1..Len(heap) : h[j] = Append(heap, x)[j]
        <3>1. /\ DOMAIN h = 1..(Len(heap) + 1) /\ h[Len(heap) + 1] = y
              /\ \A j \in 1..Len(heap) : h[j] = z[j]
            BY <2>a, LastReplaced
        <3>. QED BY <3>1 DEF z
    <2>. QED BY <1>8, <2>1
<1> HIDE DEF h
<1> DEFINE s == [h[i] EXCEPT !.refs = Append(@, e)]
<1>11. heap' = [h EXCEPT ![i] = s]
    BY <1>9
<1>12. /\ s.kind = heap[i].kind /\ s.home = heap[i].home
       /\ s.name = heap[i].name /\ s.id = heap[i].id
       /\ s.refs = Append(heap[i].refs, e)
    <2>1. heap[i] \in Recognizer(Len(heap)) /\ h[i] = heap[i]
        BY <1>6, <1>10, Tables, HeapAt
    <2>. QED BY <2>1 DEF Recognizer
<1> HIDE DEF s, e, i
<1>13. /\ DOMAIN heap' = 1..N /\ heap'[i] = s
       /\ \A j \in 1..N : j # i => heap'[j] = h[j]
    BY <1>6, <1>8, <1>10, <1>11
<1>14. Len(heap') = N
    BY <1>8, <1>13
<1>15. heap'[N] = y /\ \A j \in 1..Len(heap) : j # i => heap'[j] = heap[j]
    BY <1>6, <1>8, <1>10, <1>13
<1>16. Makes(Unnamed)
    BY <1>5, <1>7, <1>12, <1>13, <1>14, <1>15 DEF Makes
<1>. QED BY <1>6, <1>12, <1>13, <1>15, <1>16 DEF i, e

----------------------------------------------------------------------------
(* Meaning() in the table h.                                               *)
Stands(h, i) == IF h[i].kind = "pointer" /\ h[i].refs # <<>> THEN h[i].refs[1].to ELSE i

LEMMA MeaningIs ==
    /\ \A i : Meaning(i) = Stands(heap, i)
    /\ \A i : Meaning(i)' = Stands(heap', i)
BY DEF Meaning, Stands, Undefined

(* What the table has for a name stands for itself.                        *)
LEMMA EntryMeansItself ==
    ASSUME NamesInv, NEW g \in Grammar, NEW n \in Name, rules[g][n] # None
    PROVE  Meaning(rules[g][n]) = rules[g][n]
BY DEF NamesInv, Meaning, Undefined

LEMMA FirstReference ==
    ASSUME NEW o, IInv(o), NEW i \in 1..Len(heap), heap[i].refs # <<>>
    PROVE  1 \in DOMAIN heap[i].refs /\ heap[i].refs[1].to \in 1..Len(heap)
<1>1. /\ heap[i].refs \in Seq(Reference(Len(heap)))
      /\ \A k \in DOMAIN heap[i].refs : heap[i].refs[k].to \in 1..Len(heap)
    BY Tables, HeapAt
<1>2. 1 \in DOMAIN heap[i].refs
    BY <1>1, EmptySeq, LenProperties
<1>. QED BY <1>1, <1>2

(* The pointer that waits for n in g is the entry of no other name.        *)
LEMMA WaitsForOne ==
    ASSUME NamesInv, NEW g \in Grammar, NEW n \in Name, rules[g][n] # None,
           Undefined(heap[rules[g][n]]),
           NEW q \in Grammar, NEW m \in Name, rules[q][m] = rules[g][n]
    PROVE  q = g /\ m = n
<1>1. heap[rules[g][n]].kind = "pointer"
    BY DEF Undefined
<1>2. heap[rules[g][n]].name = PointerName(n) /\ heap[rules[g][n]].home = g
    BY <1>1 DEF NamesInv
<1>3. heap[rules[g][n]].name = PointerName(m) /\ heap[rules[g][n]].home = q
    BY <1>1 DEF NamesInv
<1>. QED BY <1>2, <1>3, NamesDiffer

(* The recognizer that is made gets the next id, the others keep theirs.   *)
NextId ==
    /\ Len(heap') = Len(heap) + 1
    /\ heap'[Len(heap) + 1].id = idBase + 1
    /\ \A j \in 1..Len(heap) : heap'[j].id = heap[j].id

LEMMA IdsAfterMade ==
    ASSUME NEW o, IInv(o), IInv(o)', IdsInv, NextId, idBase' = idBase + 1
    PROVE  IdsInv'
<1>1. /\ Len(heap) \in Nat /\ DOMAIN heap = 1..Len(heap) /\ idBase \in Nat
      /\ DOMAIN heap' = 1..(Len(heap) + 1)
      /\ \A i \in 1..Len(heap) : heap[i].id \in Nat
    <2>1. DOMAIN heap' = 1..Len(heap')
        BY Tables, LenProperties DEF IInv, TypeOK
    <2>2. \A i \in 1..Len(heap) : heap[i].id \in Nat
        BY Tables, HeapAt DEF Recognizer
    <2>. QED BY <2>1, <2>2, Tables DEF NextId, IInv, TypeOK
<1>2. \A i \in DOMAIN heap' : \/ i \in 1..Len(heap) /\ heap'[i].id = heap[i].id
                              \/ i = Len(heap) + 1 /\ heap'[i].id = idBase + 1
    BY <1>1 DEF NextId
<1>3. \A i \in 1..Len(heap) : heap[i].id <= idBase
    BY <1>1 DEF IdsInv
<1>4. \A i \in DOMAIN heap' : heap'[i].id <= idBase'
    BY <1>1, <1>2, <1>3
<1>5. ASSUME NEW i \in DOMAIN heap', NEW j \in DOMAIN heap', heap'[i].id = heap'[j].id
      PROVE  i = j
    BY <1>1, <1>2, <1>3, <1>5 DEF IdsInv
<1>. QED BY <1>4, <1>5 DEF IdsInv

----------------------------------------------------------------------------
(* addRule().                                                              *)
LEMMA AddRuleNames ==
    ASSUME NEW o, IInv(o), IInv(o)', NamesInv, NowInv, AddRule
    PROVE  NamesInv'
<1> DEFINE g == Now.grammar
           n == Now.rule.name
           old == rules[g][n]
           N == Len(heap) + 1
<1>1. /\ Makes(RuleName(n))
      /\ rules' = [rules EXCEPT ![g][n] = N]
      /\ \A j \in 1..Len(heap) : j # old => heap'[j].refs = heap[j].refs
      /\ old # None => /\ Undefined(heap[old])
                       /\ heap'[old].refs = <<[to |-> N, as |-> <<n>>]>>
    BY AddRuleMakes
<1>2. g \in Grammar /\ n \in Name
    BY NowFacts DEF AddRule
<1>3. \A q \in Grammar, m \in Name :
          rules'[q][m] = IF q = g /\ m = n THEN N ELSE rules[q][m]
    BY <1>1, <1>2 DEF IInv, TypeOK
<1>4. DOMAIN heap = 1..Len(heap) /\ DOMAIN heap' = 1..N /\ Len(heap) \in Nat
    <2>1. DOMAIN heap' = 1..Len(heap')
        BY LenProperties DEF IInv, TypeOK
    <2>. QED BY <1>1, <2>1, Tables DEF Makes
<1>5. /\ \A j \in 1..Len(heap) : /\ heap'[j].kind = heap[j].kind
                                 /\ heap'[j].home = heap[j].home
                                 /\ heap'[j].name = heap[j].name
      /\ heap'[N].kind # "pointer" /\ heap'[N].name = RuleName(n)
    BY <1>1 DEF Makes
<1> HIDE DEF N, g, n
<1>6. ASSUME NEW q \in Grammar, NEW m \in Name, rules'[q][m] # None
      PROVE  LET r == heap'[rules'[q][m]]
             IN  \/ r.kind # "pointer" /\ r.name = RuleName(m)
                 \/ Undefined(r) /\ r.name = PointerName(m) /\ r.home = q
    <2>1. CASE q = g /\ m = n
        BY <1>3, <1>5, <2>1
    <2>2. CASE ~(q = g /\ m = n)
        <3>1. rules'[q][m] = rules[q][m] /\ rules[q][m] \in 1..Len(heap)
            BY <1>3, <1>6, <2>2, Tables
        <3>2. CASE heap[rules[q][m]].kind # "pointer"
            <4>1. heap[rules[q][m]].name = RuleName(m)
                BY <1>6, <3>1, <3>2 DEF NamesInv, Undefined
            <4>. QED BY <1>5, <3>1, <3>2, <4>1
        <3>3. CASE heap[rules[q][m]].kind = "pointer"
            <4>1. /\ Undefined(heap[rules[q][m]]) /\ heap[rules[q][m]].name = PointerName(m)
                  /\ heap[rules[q][m]].home = q
                BY <1>6, <3>1, <3>3 DEF NamesInv
            <4>2. rules[q][m] # old
                BY <1>1, <1>2, <1>6, <2>2, <3>1, WaitsForOne
            <4>3. heap'[rules[q][m]].refs = heap[rules[q][m]].refs
                BY <1>1, <3>1, <4>2
            <4>. QED BY <1>5, <3>1, <4>1, <4>3 DEF Undefined
        <3>. QED BY <3>2, <3>3
    <2>. QED BY <2>1, <2>2
<1>7. ASSUME NEW i \in DOMAIN heap', heap'[i].kind = "pointer", heap'[i].refs # <<>>
      PROVE  heap'[heap'[i].refs[1].to].kind # "pointer"
    <2>1. i \in 1..Len(heap) /\ heap[i].kind = "pointer"
        <3>1. i # N
            BY <1>5, <1>7
        <3>2. i \in 1..Len(heap)
            BY <1>4, <3>1 DEF N
        <3>. QED BY <1>5, <1>7, <3>2
    <2>2. CASE i = old
        <3>1. old # None
            BY <2>1, <2>2, Tables DEF None
        <3>2. heap'[i].refs[1].to = N
            BY <1>1, <2>2, <3>1
        <3>. QED BY <1>5, <3>2
    <2>3. CASE i # old
        <3>1. heap'[i].refs = heap[i].refs /\ heap[i].refs # <<>>
            BY <1>1, <1>7, <2>1, <2>3
        <3>2. heap[i].refs[1].to \in 1..Len(heap)
            BY <2>1, <3>1, FirstReference
        <3>3. heap[heap[i].refs[1].to].kind # "pointer"
            BY <1>4, <2>1, <3>1 DEF NamesInv
        <3>. QED BY <1>5, <3>1, <3>2, <3>3
    <2>. QED BY <2>2, <2>3
<1>. QED BY <1>6, <1>7 DEF NamesInv

(* What stood for the entry of a name still does: it is the same, or it is *)
(* the pointer that was waiting and now leads to the rule.                 *)
LEMMA AddRuleKeepsMeaning ==
    ASSUME NEW o, IInv(o), NamesInv, NowInv, AddRule,
           NEW to \in 1..Len(heap), NEW q \in Grammar, NEW m \in Name,
           rules[q][m] # None, Meaning(to) = rules[q][m]
    PROVE  rules'[q][m] # None /\ Stands(heap', to) = rules'[q][m]
<1> DEFINE g == Now.grammar
           n == Now.rule.name
           old == rules[g][n]
           N == Len(heap) + 1
<1>1. /\ Makes(RuleName(n))
      /\ rules' = [rules EXCEPT ![g][n] = N]
      /\ \A j \in 1..Len(heap) : j # old => heap'[j].refs = heap[j].refs
      /\ old # None => /\ Undefined(heap[old])
                       /\ heap'[old].refs = <<[to |-> N, as |-> <<n>>]>>
    BY AddRuleMakes
<1>2. g \in Grammar /\ n \in Name /\ N # None
    BY NowFacts, Tables DEF AddRule, None
<1>3. rules'[q][m] = IF q = g /\ m = n THEN N ELSE rules[q][m]
    BY <1>1, <1>2 DEF IInv, TypeOK
<1>4. heap'[to].kind = heap[to].kind
    BY <1>1 DEF Makes
<1> HIDE DEF N, g, n
<1>5. CASE to = old
    <2>1. old # None
        BY <1>5, Tables DEF None
    <2>2. Undefined(heap[to]) /\ Meaning(to) = to
        BY <1>1, <1>5, <2>1 DEF Meaning
    <2>3. q = g /\ m = n
        BY <1>1, <1>2, <1>5, <2>1, <2>2, WaitsForOne
    <2>4. heap'[to].refs[1].to = N /\ heap'[to].refs # <<>>
        BY <1>1, <1>5, <2>1
    <2>5. Stands(heap', to) = N
        BY <1>4, <2>2, <2>4 DEF Stands, Undefined
    <2>. QED BY <1>2, <1>3, <2>3, <2>5
<1>6. CASE to # old
    <2>1. heap'[to].refs = heap[to].refs
        BY <1>1, <1>6
    <2>2. Stands(heap', to) = Meaning(to)
        BY <1>4, <2>1 DEF Stands, Meaning, Undefined
    <2>3. ~(q = g /\ m = n)
        <3> SUFFICES ASSUME q = g, m = n PROVE FALSE
            OBVIOUS
        <3>1. old # None /\ Undefined(heap[old]) /\ Meaning(to) = old
            BY <1>1
        <3>2. to \in DOMAIN heap /\ heap[to].kind = "pointer" /\ heap[to].refs # <<>>
              /\ heap[to].refs[1].to = old
            BY <1>6, <3>1, Tables DEF Meaning, Undefined
        <3>3. heap[old].kind # "pointer"
            BY <3>2 DEF NamesInv
        <3>. QED BY <3>1, <3>3 DEF Undefined
    <2>. QED BY <1>3, <2>2, <2>3
<1>. QED BY <1>5, <1>6

LEMMA AddRuleMeaning ==
    ASSUME NEW o, IInv(o), IInv(o)', NamesInv, NowInv, MeaningInv, AddRule
    PROVE  MeaningInv'
<1> DEFINE g == Now.grammar
           n == Now.rule.name
           old == rules[g][n]
           N == Len(heap) + 1
<1>1. /\ Makes(RuleName(n))
      /\ rules' = [rules EXCEPT ![g][n] = N]
      /\ \A j \in 1..Len(heap) : j # old => heap'[j].refs = heap[j].refs
      /\ old # None => /\ Undefined(heap[old])
                       /\ heap'[old].refs = <<[to |-> N, as |-> <<n>>]>>
    BY AddRuleMakes
<1>2. /\ g \in Grammar /\ n \in Name /\ N # None
      /\ \A k \in DOMAIN Now.refs :
            /\ Now.rule.refs[k] \in Name
            /\ rules[g][Now.rule.refs[k]] # None
            /\ Now.refs[k] = [to |-> rules[g][Now.rule.refs[k]], as |-> <<Now.rule.refs[k]>>]
    BY NowFacts, Tables DEF AddRule, None
<1>3. /\ rules'[g][n] = N /\ alive' = alive
    <2>1. alive' = alive
        BY DEF AddRule
    <2>. QED BY <1>1, <1>2, <2>1 DEF IInv, TypeOK
<1>4. /\ DOMAIN heap = 1..Len(heap) /\ DOMAIN heap' = 1..N /\ Len(heap) \in Nat
    <2>1. DOMAIN heap' = 1..Len(heap')
        BY LenProperties DEF IInv, TypeOK
    <2>. QED BY <1>1, <2>1, Tables DEF Makes
<1>5. /\ \A j \in 1..Len(heap) : heap'[j].kind = heap[j].kind /\ heap'[j].home = heap[j].home
      /\ heap'[N].kind # "pointer" /\ heap'[N].home = g
      /\ \A k \in DOMAIN heap'[N].refs : \E m \in DOMAIN Now.refs : heap'[N].refs[k] = Now.refs[m]
    BY <1>1 DEF Makes
<1> SUFFICES ASSUME NEW i \in DOMAIN heap', NEW k \in DOMAIN heap'[i].refs,
                    alive'[heap'[i].home], heap'[i].refs[k].as # <<>>
             PROVE  /\ heap'[i].refs[k].as[1] \in Name
                    /\ rules'[heap'[i].home][heap'[i].refs[k].as[1]] # None
                    /\ Stands(heap', heap'[i].refs[k].to)
                          = rules'[heap'[i].home][heap'[i].refs[k].as[1]]
    BY DEF MeaningInv, Meaning, Stands, Undefined
<1> HIDE DEF N, g, n
<1>6. CASE i = N
    <2>1. PICK m \in DOMAIN Now.refs : heap'[i].refs[k] = Now.refs[m]
        BY <1>5, <1>6
    <2> DEFINE x == Now.rule.refs[m]
    <2>2. /\ x \in Name /\ rules[g][x] # None
          /\ heap'[i].refs[k] = [to |-> rules[g][x], as |-> <<x>>]
        BY <1>2, <2>1
    <2>3. heap'[i].refs[k].to = rules[g][x] /\ heap'[i].refs[k].as[1] = x
        BY <2>2
    <2>4. rules[g][x] \in 1..Len(heap) /\ Meaning(rules[g][x]) = rules[g][x]
        BY <1>2, <2>2, Tables, EntryMeansItself
    <2> HIDE DEF x
    <2>5. rules'[g][x] # None /\ Stands(heap', rules[g][x]) = rules'[g][x]
        BY <1>2, <2>2, <2>4, AddRuleKeepsMeaning
    <2>6. heap'[i].home = g
        BY <1>5, <1>6
    <2>. QED BY <2>2, <2>3, <2>5, <2>6
<1>7. CASE i \in 1..Len(heap) /\ i = old
    <2>1. old # None
        BY <1>7, <1>4 DEF None
    <2>2. heap'[i].refs = <<[to |-> N, as |-> <<n>>]>>
        BY <1>1, <1>7, <2>1
    <2>3. heap'[i].refs[k].to = N /\ heap'[i].refs[k].as[1] = n
        BY <2>2
    <2>4. heap'[i].home = g
        <3>1. Undefined(heap[old]) /\ heap[old].kind = "pointer"
            BY <1>1, <2>1 DEF Undefined
        <3>2. heap[old].home = g
            BY <1>2, <2>1, <3>1 DEF NamesInv
        <3>. QED BY <1>5, <1>7, <3>2
    <2>5. Stands(heap', N) = N
        BY <1>5 DEF Stands
    <2>. QED BY <1>2, <1>3, <2>3, <2>4, <2>5
<1>8. CASE i \in 1..Len(heap) /\ i # old
    <2> DEFINE t == heap[i].refs[k].to
               q == heap[i].home
               x == heap[i].refs[k].as[1]
    <2>1. heap'[i].refs = heap[i].refs /\ heap'[i].home = q /\ i \in DOMAIN heap
        BY <1>1, <1>4, <1>5, <1>8
    <2>2. t \in 1..Len(heap) /\ q \in Grammar
        BY <1>8, <2>1, Tables, HeapAt
    <2>3. x \in Name /\ rules[q][x] # None /\ Meaning(t) = rules[q][x]
        BY <1>3, <2>1 DEF MeaningInv
    <2>4. rules'[q][x] # None /\ Stands(heap', t) = rules'[q][x]
        <3> HIDE DEF t, q, x
        <3>. QED BY <2>2, <2>3, AddRuleKeepsMeaning
    <2>. QED BY <2>1, <2>3, <2>4
<1>9. i = N \/ i \in 1..Len(heap)
    BY <1>4 DEF N
<1>. QED BY <1>6, <1>7, <1>8, <1>9

LEMMA AddRuleHandlers ==
    ASSUME NEW o, IInv(o), NamesInv, NowInv, HandlersInv, ParserInv, AddRule, parser' = parser
    PROVE  HandlersInv'
<1> DEFINE g == Now.grammar
           n == Now.rule.name
           N == Len(heap) + 1
           p == parser[1].grammar
<1>1. /\ Makes(RuleName(n))
      /\ rules' = [rules EXCEPT ![g][n] = N]
      /\ rules[g][n] # None => Undefined(heap[rules[g][n]])
    BY AddRuleMakes
<1>2. g \in Grammar /\ n \in Name
    BY NowFacts DEF AddRule
<1>3. \A q \in Grammar, m \in Name :
          rules'[q][m] = IF q = g /\ m = n THEN N ELSE rules[q][m]
    BY <1>1, <1>2 DEF IInv, TypeOK
<1>4. \A j \in 1..Len(heap) : heap'[j].kind = heap[j].kind /\ heap'[j].id = heap[j].id
    BY <1>1 DEF Makes
<1> SUFFICES ASSUME parser # NoParser, NEW id \in DOMAIN parser[1].handlers
             PROVE  LET m == parser[1].handlers[id]
                        i == rules'[p][m]
                    IN  m \in Name /\ i # None /\ heap'[i].kind # "pointer" /\ heap'[i].id = id
    BY DEF HandlersInv
<1> DEFINE m == parser[1].handlers[id]
<1>5. /\ m \in Name /\ rules[p][m] # None /\ heap[rules[p][m]].kind # "pointer"
      /\ heap[rules[p][m]].id = id /\ p \in Grammar
    BY DEF HandlersInv, ParserInv
<1>6. rules[p][m] \in 1..Len(heap)
    BY <1>5, Tables
<1> HIDE DEF m, p, g, n
<1>7. ~(p = g /\ m = n)
    BY <1>1, <1>5 DEF Undefined
<1>8. rules'[p][m] = rules[p][m]
    BY <1>3, <1>5, <1>7
<1>. QED BY <1>4, <1>5, <1>6, <1>8 DEF m

----------------------------------------------------------------------------
(* extendRule().                                                           *)
LEMMA ExtendRuleFacts ==
    ASSUME NEW o, IInv(o), IInv(o)', NowInv, NoNamedExtension, ExtendRule
    PROVE  LET N == Len(heap) + 1
               e == rules[Now.grammar][Now.rule.name]
           IN  /\ rules' = rules /\ alive' = alive
               /\ Len(heap) \in Nat /\ DOMAIN heap = 1..Len(heap) /\ DOMAIN heap' = 1..N
               /\ \A j \in 1..Len(heap) : /\ heap'[j].kind = heap[j].kind
                                          /\ heap'[j].home = heap[j].home
                                          /\ heap'[j].name = heap[j].name
                                          /\ heap'[j].id = heap[j].id
               /\ \A j \in 1..Len(heap) : heap[j].kind = "pointer" => heap'[j].refs = heap[j].refs
               /\ heap'[N].kind # "pointer"
               /\ e \in 1..Len(heap)
               /\ heap'[e].refs = Append(heap[e].refs, [to |-> N, as |-> <<>>])
               /\ \A j \in 1..Len(heap) : j # e => heap'[j].refs = heap[j].refs
<1> DEFINE e == rules[Now.grammar][Now.rule.name]
           N == Len(heap) + 1
<1>1. /\ Makes(Unnamed)
      /\ \A j \in 1..Len(heap) : j # e => heap'[j].refs = heap[j].refs
      /\ e \in 1..Len(heap) /\ heap[e].kind = "selector"
      /\ heap'[e].refs = Append(heap[e].refs, [to |-> N, as |-> <<>>])
    BY ExtendRuleMakes
<1>2. rules' = rules /\ alive' = alive
    BY DEF ExtendRule
<1>3. DOMAIN heap' = 1..Len(heap')
    BY LenProperties DEF IInv, TypeOK
<1> HIDE DEF e
<1>4. \A j \in 1..Len(heap) : heap[j].kind = "pointer" => heap'[j].refs = heap[j].refs
    BY <1>1
<1>5. /\ \A j \in 1..Len(heap) : /\ heap'[j].kind = heap[j].kind
                                 /\ heap'[j].home = heap[j].home
                                 /\ heap'[j].name = heap[j].name
                                 /\ heap'[j].id = heap[j].id
      /\ heap'[N].kind # "pointer" /\ Len(heap') = N
    BY <1>1 DEF Makes
<1>6. Len(heap) \in Nat /\ DOMAIN heap = 1..Len(heap) /\ DOMAIN heap' = 1..N
    BY <1>3, <1>5, Tables
<1>. QED BY <1>1, <1>2, <1>4, <1>5, <1>6 DEF e

LEMMA ExtendRuleNames ==
    ASSUME NEW o, IInv(o), IInv(o)', NamesInv, NowInv, NoNamedExtension, ExtendRule
    PROVE  NamesInv'
<1> DEFINE N == Len(heap) + 1
<1>1. /\ rules' = rules
      /\ Len(heap) \in Nat /\ DOMAIN heap = 1..Len(heap) /\ DOMAIN heap' = 1..N
      /\ \A j \in 1..Len(heap) : /\ heap'[j].kind = heap[j].kind
                                 /\ heap'[j].home = heap[j].home
                                 /\ heap'[j].name = heap[j].name
      /\ \A j \in 1..Len(heap) : heap[j].kind = "pointer" => heap'[j].refs = heap[j].refs
      /\ heap'[N].kind # "pointer"
    BY ExtendRuleFacts
<1>2. ASSUME NEW q \in Grammar, NEW m \in Name, rules[q][m] # None
      PROVE  LET r == heap'[rules[q][m]]
             IN  \/ r.kind # "pointer" /\ r.name = RuleName(m)
                 \/ Undefined(r) /\ r.name = PointerName(m) /\ r.home = q
    <2>1. rules[q][m] \in 1..Len(heap)
        BY <1>2, Tables
    <2>2. LET r == heap[rules[q][m]]
          IN  \/ r.kind # "pointer" /\ r.name = RuleName(m)
              \/ Undefined(r) /\ r.name = PointerName(m) /\ r.home = q
        BY <1>2 DEF NamesInv
    <2>. QED BY <1>1, <2>1, <2>2 DEF Undefined
<1>3. ASSUME NEW i \in DOMAIN heap', heap'[i].kind = "pointer", heap'[i].refs # <<>>
      PROVE  heap'[heap'[i].refs[1].to].kind # "pointer"
    <2>1. i \in 1..Len(heap) /\ heap[i].kind = "pointer" /\ heap'[i].refs = heap[i].refs
        <3>1. i # N
            BY <1>1, <1>3
        <3>2. i \in 1..Len(heap)
            BY <1>1, <3>1
        <3>. QED BY <1>1, <1>3, <3>2
    <2>2. heap[i].refs[1].to \in 1..Len(heap)
        BY <1>3, <2>1, FirstReference
    <2>3. heap[heap[i].refs[1].to].kind # "pointer"
        BY <1>1, <1>3, <2>1 DEF NamesInv
    <2>. QED BY <1>1, <2>1, <2>2, <2>3
<1>. QED BY <1>1, <1>2, <1>3 DEF NamesInv

LEMMA ExtendRuleMeaning ==
    ASSUME NEW o, IInv(o), IInv(o)', NamesInv, NowInv, MeaningInv, NoNamedExtension, ExtendRule
    PROVE  MeaningInv'
<1> DEFINE N == Len(heap) + 1
           g == Now.grammar
           e == rules[g][Now.rule.name]
<1>1. /\ rules' = rules /\ alive' = alive
      /\ Len(heap) \in Nat /\ DOMAIN heap = 1..Len(heap) /\ DOMAIN heap' = 1..N
      /\ \A j \in 1..Len(heap) : heap'[j].kind = heap[j].kind /\ heap'[j].home = heap[j].home
      /\ \A j \in 1..Len(heap) : heap[j].kind = "pointer" => heap'[j].refs = heap[j].refs
      /\ e \in 1..Len(heap)
      /\ heap'[e].refs = Append(heap[e].refs, [to |-> N, as |-> <<>>])
      /\ \A j \in 1..Len(heap) : j # e => heap'[j].refs = heap[j].refs
    BY ExtendRuleFacts
<1>2. /\ g \in Grammar
      /\ \A k \in DOMAIN Now.refs :
            /\ Now.rule.refs[k] \in Name
            /\ rules[g][Now.rule.refs[k]] # None
            /\ Now.refs[k] = [to |-> rules[g][Now.rule.refs[k]], as |-> <<Now.rule.refs[k]>>]
    BY NowFacts DEF ExtendRule
<1>3. /\ heap'[N].home = g
      /\ \A k \in DOMAIN heap'[N].refs : \E m \in DOMAIN Now.refs : heap'[N].refs[k] = Now.refs[m]
    BY ExtendRuleMakes DEF Makes
<1>4. \A t \in 1..Len(heap) : Stands(heap', t) = Meaning(t)
    BY <1>1 DEF Stands, Meaning, Undefined
<1> SUFFICES ASSUME NEW i \in DOMAIN heap', NEW k \in DOMAIN heap'[i].refs,
                    alive'[heap'[i].home], heap'[i].refs[k].as # <<>>
             PROVE  /\ heap'[i].refs[k].as[1] \in Name
                    /\ rules'[heap'[i].home][heap'[i].refs[k].as[1]] # None
                    /\ Stands(heap', heap'[i].refs[k].to)
                          = rules'[heap'[i].home][heap'[i].refs[k].as[1]]
    BY DEF MeaningInv, Meaning, Stands, Undefined
<1> HIDE DEF N, g, e
<1>5. CASE i = N
    <2>1. PICK m \in DOMAIN Now.refs : heap'[i].refs[k] = Now.refs[m]
        BY <1>3, <1>5
    <2> DEFINE x == Now.rule.refs[m]
    <2>2. /\ x \in Name /\ rules[g][x] # None
          /\ heap'[i].refs[k] = [to |-> rules[g][x], as |-> <<x>>]
        BY <1>2, <2>1
    <2>3. heap'[i].refs[k].to = rules[g][x] /\ heap'[i].refs[k].as[1] = x
        BY <2>2
    <2>4. rules[g][x] \in 1..Len(heap) /\ Meaning(rules[g][x]) = rules[g][x]
        BY <1>2, <2>2, Tables, EntryMeansItself
    <2> HIDE DEF x
    <2>. QED BY <1>1, <1>3, <1>4, <1>5, <2>2, <2>3, <2>4
<1>6. CASE i \in 1..Len(heap)
    <2> DEFINE t == heap'[i].refs[k].to
               q == heap[i].home
               x == heap'[i].refs[k].as[1]
    <2>1. k \in DOMAIN heap[i].refs /\ heap'[i].refs[k] = heap[i].refs[k]
        <3>1. CASE i # e
            BY <1>1, <1>6, <3>1
        <3>2. CASE i = e
            <4> DEFINE a == heap[i].refs
                       r == [to |-> N, as |-> <<>>]
            <4>1. a \in Seq(Reference(Len(heap))) /\ heap'[i].refs = Append(a, r) /\ r.as = <<>>
                BY <1>1, <1>6, <3>2, Tables, HeapAt
            <4> HIDE DEF a, r
            <4>2. /\ k \in 1..(Len(a) + 1) /\ Len(a) \in Nat /\ DOMAIN a = 1..Len(a)
                  /\ Append(a, r)[Len(a) + 1] = r
                  /\ \A l \in 1..Len(a) : Append(a, r)[l] = a[l]
                BY <4>1, LenProperties
            <4>3. k # Len(a) + 1
                BY <4>1, <4>2
            <4>4. k \in 1..Len(a)
                BY <4>2, <4>3
            <4>. QED BY <4>1, <4>2, <4>4 DEF a
        <3>. QED BY <3>1, <3>2
    <2>2. heap'[i].home = q /\ i \in DOMAIN heap /\ alive[q]
        BY <1>1, <1>6
    <2>3. t \in 1..Len(heap) /\ q \in Grammar
        BY <1>6, <2>1, Tables, HeapAt
    <2>4. x \in Name /\ rules[q][x] # None /\ Meaning(t) = rules[q][x]
        BY <2>1, <2>2 DEF MeaningInv
    <2> HIDE DEF t, x, q
    <2>5. Stands(heap', t) = rules[q][x]
        BY <1>4, <2>3, <2>4
    <2>. QED BY <1>1, <2>2, <2>4, <2>5 DEF t, x
<1>7. i = N \/ i \in 1..Len(heap)
    BY <1>1 DEF N
<1>. QED BY <1>5, <1>6, <1>7

LEMMA ExtendRuleHandlers ==
    ASSUME NEW o, IInv(o), IInv(o)', NowInv, HandlersInv, ParserInv, NoNamedExtension,
           ExtendRule, parser' = parser
    PROVE  HandlersInv'
<1>1. /\ rules' = rules
      /\ \A j \in 1..Len(heap) : heap'[j].kind = heap[j].kind /\ heap'[j].id = heap[j].id
    BY ExtendRuleFacts
<1>. QED BY <1>1, Tables DEF HandlersInv, ParserInv

----------------------------------------------------------------------------
(* getRule() of a name that the table does not have.                       *)
LEMMA AwaitedFacts ==
    ASSUME NEW o, IInv(o), IInv(o)', NEW g \in Grammar, NEW n \in Name, Awaited(g, n)
    PROVE  LET N == Len(heap) + 1
           IN  /\ Len(heap) \in Nat /\ DOMAIN heap = 1..Len(heap) /\ DOMAIN heap' = 1..N
               /\ N # None
               /\ \A j \in 1..Len(heap) : heap'[j] = heap[j]
               /\ heap'[N].kind = "pointer" /\ heap'[N].refs = <<>>
               /\ heap'[N].name = PointerName(n) /\ heap'[N].home = g
               /\ heap'[N].id = idBase + 1
               /\ rules[g][n] = None
               /\ \A q \in Grammar, m \in Name :
                     rules'[q][m] = IF q = g /\ m = n THEN N ELSE rules[q][m]
<1> DEFINE r == Named(NewRecognizer("pointer", <<>>, g), PointerName(n), idBase + 1)
<1>1. /\ heap' = Append(heap, r) /\ rules[g][n] = None
      /\ rules' = [rules EXCEPT ![g][n] = Len(heap) + 1]
    BY DEF Awaited
<1>2. /\ r.kind = "pointer" /\ r.refs = <<>> /\ r.name = PointerName(n)
      /\ r.home = g /\ r.id = idBase + 1
    BY DEF Named, NewRecognizer
<1> HIDE DEF r
<1>3. /\ heap \in Seq(Recognizer(Len(heap))) /\ Len(heap) \in Nat
      /\ DOMAIN heap = 1..Len(heap)
    BY Tables
<1>4. /\ DOMAIN heap' = 1..(Len(heap) + 1)
      /\ \A j \in 1..Len(heap) : heap'[j] = heap[j]
      /\ heap'[Len(heap) + 1] = r
    BY <1>1, <1>3
<1>5. \A q \in Grammar, m \in Name :
          rules'[q][m] = IF q = g /\ m = n THEN Len(heap) + 1 ELSE rules[q][m]
    BY <1>1 DEF IInv, TypeOK
<1>. QED BY <1>1, <1>2, <1>3, <1>4, <1>5 DEF None

LEMMA AwaitedNames ==
    ASSUME NEW o, IInv(o), IInv(o)', NamesInv, NEW g \in Grammar, NEW n \in Name, Awaited(g, n)
    PROVE  NamesInv'
<1> DEFINE N == Len(heap) + 1
<1>1. /\ Len(heap) \in Nat /\ DOMAIN heap = 1..Len(heap) /\ DOMAIN heap' = 1..N
      /\ \A j \in 1..Len(heap) : heap'[j] = heap[j]
      /\ heap'[N].kind = "pointer" /\ heap'[N].refs = <<>>
      /\ heap'[N].name = PointerName(n) /\ heap'[N].home = g
      /\ \A q \in Grammar, m \in Name :
            rules'[q][m] = IF q = g /\ m = n THEN N ELSE rules[q][m]
    BY AwaitedFacts
<1>2. ASSUME NEW q \in Grammar, NEW m \in Name, rules'[q][m] # None
      PROVE  LET r == heap'[rules'[q][m]]
             IN  \/ r.kind # "pointer" /\ r.name = RuleName(m)
                 \/ Undefined(r) /\ r.name = PointerName(m) /\ r.home = q
    <2>1. CASE q = g /\ m = n
        BY <1>1, <2>1 DEF Undefined
    <2>2. CASE ~(q = g /\ m = n)
        <3>1. rules'[q][m] = rules[q][m] /\ rules[q][m] \in 1..Len(heap)
            BY <1>1, <1>2, <2>2, Tables
        <3>2. LET r == heap[rules[q][m]]
              IN  \/ r.kind # "pointer" /\ r.name = RuleName(m)
                  \/ Undefined(r) /\ r.name = PointerName(m) /\ r.home = q
            BY <1>2, <3>1 DEF NamesInv
        <3>. QED BY <1>1, <3>1, <3>2
    <2>. QED BY <2>1, <2>2
<1>3. ASSUME NEW i \in DOMAIN heap', heap'[i].kind = "pointer", heap'[i].refs # <<>>
      PROVE  heap'[heap'[i].refs[1].to].kind # "pointer"
    <2>1. i # N
        BY <1>1, <1>3
    <2>2. i \in 1..Len(heap) /\ heap'[i] = heap[i] /\ i \in DOMAIN heap
        BY <1>1, <2>1
    <2>3. heap[i].refs[1].to \in 1..Len(heap)
        BY <1>3, <2>2, FirstReference
    <2>4. heap[heap[i].refs[1].to].kind # "pointer"
        BY <1>3, <2>2 DEF NamesInv
    <2>. QED BY <1>1, <2>2, <2>3, <2>4
<1>. QED BY <1>2, <1>3 DEF NamesInv

LEMMA AwaitedMeaning ==
    ASSUME NEW o, IInv(o), IInv(o)', MeaningInv, NEW g \in Grammar, NEW n \in Name,
           Awaited(g, n), alive' = alive
    PROVE  MeaningInv'
<1> DEFINE N == Len(heap) + 1
<1>1. /\ Len(heap) \in Nat /\ DOMAIN heap = 1..Len(heap) /\ DOMAIN heap' = 1..N
      /\ \A j \in 1..Len(heap) : heap'[j] = heap[j]
      /\ heap'[N].refs = <<>>
      /\ rules[g][n] = None
      /\ \A q \in Grammar, m \in Name :
            rules'[q][m] = IF q = g /\ m = n THEN N ELSE rules[q][m]
    BY AwaitedFacts
<1>2. \A t \in 1..Len(heap) : Stands(heap', t) = Meaning(t)
    BY <1>1 DEF Stands, Meaning, Undefined
<1> SUFFICES ASSUME NEW i \in DOMAIN heap', NEW k \in DOMAIN heap'[i].refs,
                    alive'[heap'[i].home], heap'[i].refs[k].as # <<>>
             PROVE  /\ heap'[i].refs[k].as[1] \in Name
                    /\ rules'[heap'[i].home][heap'[i].refs[k].as[1]] # None
                    /\ Stands(heap', heap'[i].refs[k].to)
                          = rules'[heap'[i].home][heap'[i].refs[k].as[1]]
    BY DEF MeaningInv, Meaning, Stands, Undefined
<1>3. i # N
    BY <1>1
<1>4. i \in 1..Len(heap) /\ i \in DOMAIN heap /\ heap'[i] = heap[i]
    BY <1>1, <1>3
<1> DEFINE t == heap[i].refs[k].to
           q == heap[i].home
           x == heap[i].refs[k].as[1]
<1>5. t \in 1..Len(heap) /\ q \in Grammar
    BY <1>4, Tables, HeapAt
<1>6. x \in Name /\ rules[q][x] # None /\ Meaning(t) = rules[q][x]
    BY <1>4 DEF MeaningInv
<1> HIDE DEF t, q, x
<1>7. Stands(heap', t) = rules'[q][x] /\ rules'[q][x] = rules[q][x]
    BY <1>1, <1>2, <1>5, <1>6
<1>. QED BY <1>4, <1>6, <1>7 DEF t, q, x

LEMMA AwaitedIdsAndHandlers ==
    ASSUME NEW o, IInv(o), IInv(o)', IdsInv, HandlersInv, ParserInv,
           NEW g \in Grammar, NEW n \in Name, Awaited(g, n), parser' = parser
    PROVE  IdsInv' /\ HandlersInv'
<1>1. /\ \A j \in 1..Len(heap) : heap'[j] = heap[j]
      /\ heap'[Len(heap) + 1].id = idBase + 1
      /\ DOMAIN heap' = 1..(Len(heap) + 1) /\ Len(heap) \in Nat
      /\ rules[g][n] = None
      /\ \A q \in Grammar, m \in Name :
            rules'[q][m] = IF q = g /\ m = n THEN Len(heap) + 1 ELSE rules[q][m]
    BY AwaitedFacts
<1>2. Len(heap') = Len(heap) + 1 /\ idBase' = idBase + 1
    <2>1. heap' = Append(heap, Named(NewRecognizer("pointer", <<>>, g), PointerName(n), idBase + 1))
        BY DEF Awaited
    <2>2. heap \in Seq(Recognizer(Len(heap)))
        BY Tables
    <2>. QED BY <2>1, <2>2 DEF Awaited
<1>3. IdsInv'
    BY <1>1, <1>2, IdsAfterMade DEF NextId
<1>4. HandlersInv'
    <2> DEFINE p == parser[1].grammar
    <2> SUFFICES ASSUME parser # NoParser, NEW id \in DOMAIN parser[1].handlers
                 PROVE  LET m == parser[1].handlers[id]
                            i == rules'[p][m]
                        IN  m \in Name /\ i # None /\ heap'[i].kind # "pointer" /\ heap'[i].id = id
        BY DEF HandlersInv
    <2> DEFINE m == parser[1].handlers[id]
    <2>1. /\ m \in Name /\ rules[p][m] # None /\ heap[rules[p][m]].kind # "pointer"
          /\ heap[rules[p][m]].id = id /\ p \in Grammar
        BY DEF HandlersInv, ParserInv
    <2>2. rules[p][m] \in 1..Len(heap)
        BY <2>1, Tables
    <2> HIDE DEF m, p
    <2>3. rules'[p][m] = rules[p][m]
        BY <1>1, <2>1
    <2>. QED BY <1>1, <2>1, <2>2, <2>3 DEF m
<1>. QED BY <1>3, <1>4

----------------------------------------------------------------------------
(* What getRule() gives is the entry of the name it was asked for.         *)
LEMMA GotIsEntry ==
    ASSUME NEW o, IInv(o), NowInv, Building, ~AllReferences,
           NEW i, Got(i), rules'[Now.grammar][NextName] = i, i # None,
           \A m \in Name : rules[Now.grammar][m] # None =>
               rules'[Now.grammar][m] = rules[Now.grammar][m]
    PROVE  NowInv'
<1> DEFINE g == Now.grammar
           ref == [to |-> i, as |-> <<NextName>>]
<1>1. /\ Now.refs \in Seq(Reference(Len(heap))) /\ Now.rule \in StatementType
      /\ Now \in Construction(Len(heap)) /\ current # Nothing
    BY NowTyped DEF Building, IInv
<1>2. Now.rule.refs \in Seq(Name) /\ Len(Now.refs) <= Len(Now.rule.refs)
    BY <1>1 DEF IInv, HomeInv, NowAtHome, StatementType
<1> DEFINE now == [Now EXCEPT !.refs = Append(@, ref)]
<1>3. current' = <<now>>
    BY DEF Got
<1>4. now.grammar = g /\ now.rule = Now.rule /\ now.refs = Append(Now.refs, ref)
    BY <1>1 DEF Construction
<1> HIDE DEF now, ref
<1>5. Now' = now
    BY <1>3 DEF Now
<1>6. /\ DOMAIN Append(Now.refs, ref) = 1..(Len(Now.refs) + 1)
      /\ Append(Now.refs, ref)[Len(Now.refs) + 1] = ref
      /\ \A k \in 1..Len(Now.refs) : Append(Now.refs, ref)[k] = Now.refs[k]
      /\ DOMAIN Now.refs = 1..Len(Now.refs) /\ Len(Now.refs) \in Nat
    BY <1>1, LenProperties
<1> SUFFICES ASSUME NEW k \in DOMAIN now.refs
             PROVE  /\ rules'[g][Now.rule.refs[k]] # None
                    /\ now.refs[k] = [to |-> rules'[g][Now.rule.refs[k]],
                                      as |-> <<Now.rule.refs[k]>>]
    BY <1>4, <1>5 DEF NowInv
<1>7. CASE k = Len(Now.refs) + 1
    <2>1. Now.rule.refs[k] = NextName
        BY <1>7 DEF NextName
    <2>. QED BY <1>4, <1>6, <1>7, <2>1 DEF ref
<1>8. CASE k \in 1..Len(Now.refs)
    <2>1. now.refs[k] = Now.refs[k] /\ k \in DOMAIN Now.refs
        BY <1>4, <1>6, <1>8
    <2>2. Now.rule.refs[k] \in Name
        <3>1. k \in 1..Len(Now.rule.refs)
            BY <1>2, <1>6, <1>8, LenProperties
        <3>. QED BY <1>2, <3>1, ElementOfSeq
    <2> DEFINE m == Now.rule.refs[k]
    <2>3. rules[g][m] # None /\ Now.refs[k] = [to |-> rules[g][m], as |-> <<m>>]
        BY <1>1, <2>1 DEF NowInv
    <2> HIDE DEF m
    <2>4. rules'[g][m] = rules[g][m]
        BY <2>2, <2>3 DEF m
    <2>. QED BY <2>1, <2>3, <2>4 DEF m
<1>9. k = Len(Now.refs) + 1 \/ k \in 1..Len(Now.refs)
    BY <1>4, <1>6
<1>. QED BY <1>7, <1>8, <1>9

LEMMA NextNameIs ==
    ASSUME NEW o, IInv(o), Building, ~AllReferences
    PROVE  NextName \in Name /\ Now.grammar \in Grammar /\ alive[Now.grammar]
<1>1. /\ Now.refs \in Seq(Reference(Len(heap))) /\ Now.rule \in StatementType
      /\ Now.grammar \in Grammar /\ TypeOK /\ current # Nothing
    BY NowTyped DEF Building, IInv
<1>2. /\ Now.rule.refs \in Seq(Name) /\ Len(Now.refs) <= Len(Now.rule.refs)
      /\ alive[Now.grammar]
    BY <1>1 DEF IInv, HomeInv, NowAtHome, StatementType
<1>3. Len(Now.refs) < Len(Now.rule.refs)
    BY <1>1, <1>2, LenProperties DEF AllReferences
<1>. QED BY <1>1, <1>2, <1>3, NextNameTyped

(* The invariants that speak of the tables, and of a parser.               *)
TablesInv == NamesInv /\ MeaningInv /\ IdsInv
HandledInv == ParserInv /\ HandlersInv

LEMMA TablesKept ==
    ASSUME TablesInv, UNCHANGED <<heap, rules, alive, idBase>>
    PROVE  TablesInv'
BY DEF TablesInv, NamesInv, MeaningInv, IdsInv, Meaning, Undefined

LEMMA HandledKept ==
    ASSUME HandledInv, UNCHANGED <<heap, rules, alive, parser>>
    PROVE  HandledInv'
BY DEF HandledInv, ParserInv, HandlersInv

LEMMA GetRuleSetup ==
    ASSUME NEW o, IInv(o), NamesInv, NowInv, GetRule
    PROVE  NowInv'
<1> DEFINE i == rules[Now.grammar][NextName]
<1>1. /\ Building /\ ~AllReferences /\ i # None /\ rules' = rules
      /\ Got(IF heap[i].kind = "pointer" /\ ~Undefined(heap[i]) THEN heap[i].refs[1].to ELSE i)
    BY DEF GetRule
<1>2. NextName \in Name /\ Now.grammar \in Grammar
    BY <1>1, NextNameIs
<1>3. ~(heap[i].kind = "pointer" /\ ~Undefined(heap[i]))
    BY <1>1, <1>2 DEF NamesInv
<1>4. Got(i)
    BY <1>1, <1>3
<1>. QED BY <1>1, <1>4, GotIsEntry

LEMMA GetPointerSetup ==
    ASSUME NEW o, IInv(o), IInv(o)', TablesInv, NowInv, HandledInv, GetPointer, parser' = parser
    PROVE  TablesInv' /\ NowInv' /\ HandledInv'
<1> DEFINE g == Now.grammar
<1>1. /\ Building /\ ~AllReferences /\ Got(Len(heap) + 1)
      /\ alive' = alive /\ Awaited(g, NextName)
    BY DEF GetPointer, Awaited
<1>2. NextName \in Name /\ g \in Grammar
    BY <1>1, NextNameIs
<1>3. TablesInv' /\ HandledInv'
    BY <1>1, <1>2, AwaitedNames, AwaitedMeaning, AwaitedIdsAndHandlers
       DEF TablesInv, HandledInv, ParserInv
<1>4. /\ Len(heap) + 1 # None /\ rules[g][NextName] = None
      /\ \A q \in Grammar, m \in Name :
            rules'[q][m] = IF q = g /\ m = NextName THEN Len(heap) + 1 ELSE rules[q][m]
    BY <1>1, <1>2, AwaitedFacts
<1>5. NowInv'
    <2>1. rules'[g][NextName] = Len(heap) + 1
        BY <1>2, <1>4
    <2>2. \A m \in Name : rules[g][m] # None => rules'[g][m] = rules[g][m]
        BY <1>2, <1>4
    <2>. QED BY <1>1, <1>4, <2>1, <2>2, GotIsEntry
<1>. QED BY <1>3, <1>5

LEMMA AddRuleSetup ==
    ASSUME NEW o, IInv(o), IInv(o)', TablesInv, NowInv, HandledInv, AddRule, parser' = parser
    PROVE  TablesInv' /\ NowInv' /\ HandledInv'
<1>1. current' = Nothing /\ idBase' = idBase + 1 /\ alive' = alive
    BY DEF AddRule
<1>2. Makes(RuleName(Now.rule.name))
    BY AddRuleMakes DEF TablesInv
<1>3. NextId
    BY <1>2 DEF Makes, NextId
<1>4. NamesInv' /\ MeaningInv' /\ HandlersInv'
    BY AddRuleNames, AddRuleMeaning, AddRuleHandlers DEF TablesInv, HandledInv
<1>5. IdsInv'
    BY <1>1, <1>3, IdsAfterMade DEF TablesInv
<1>. QED BY <1>1, <1>4, <1>5 DEF TablesInv, HandledInv, ParserInv, NowInv

LEMMA ExtendRuleSetup ==
    ASSUME NoNamedExtension,
           NEW o, IInv(o), IInv(o)', TablesInv, NowInv, HandledInv, ExtendRule, parser' = parser
    PROVE  TablesInv' /\ NowInv' /\ HandledInv'
<1>1. current' = Nothing /\ idBase' = idBase + 1 /\ alive' = alive
    BY DEF ExtendRule
<1>2. Makes(Unnamed)
    BY ExtendRuleMakes
<1>3. NextId
    BY <1>2 DEF Makes, NextId
<1>4. NamesInv' /\ MeaningInv' /\ HandlersInv'
    BY ExtendRuleNames, ExtendRuleMeaning, ExtendRuleHandlers DEF TablesInv, HandledInv
<1>5. IdsInv'
    BY <1>1, <1>3, IdsAfterMade DEF TablesInv
<1>. QED BY <1>1, <1>4, <1>5 DEF TablesInv, HandledInv, ParserInv, NowInv

----------------------------------------------------------------------------
LEMMA IncludeKeepsSetup ==
    ASSUME NEW o, IInv(o), TablesInv, HandledInv, NEW g \in Grammar, NEW h \in Grammar,
           Careful(g, h), IncludeSetup(g, h)
    PROVE  TablesInv' /\ NowInv' /\ HandledInv'
<1>1. /\ current = Nothing /\ pointers[h] = {} /\ parser' = parser /\ ~UsedBy(h)
      /\ UNCHANGED <<heap, idBase, current>>
    BY CarefulInclude DEF IInv, IncludeSetup, Careful
<1>2. /\ \A q \in Grammar, n \in Name :
            rules'[q][n] = IF q = g /\ rules[h][n] # None THEN rules[h][n] ELSE rules[q][n]
      /\ \A q \in Grammar, n \in Name : rules[q][n] # None => rules'[q][n] = rules[q][n]
    BY CarefulInclude DEF IInv, IncludeSetup
<1>3. \A q \in Grammar : alive'[q] <=> alive[q] /\ q # h
    BY CarefulInclude DEF IInv, IncludeSetup
<1>a. heap' = heap
    BY <1>1
<1>4. NamesInv'
    <2>1. ASSUME NEW q \in Grammar, NEW m \in Name, rules'[q][m] # None
          PROVE  LET r == heap[rules'[q][m]]
                 IN  \/ r.kind # "pointer" /\ r.name = RuleName(m)
                     \/ Undefined(r) /\ r.name = PointerName(m) /\ r.home = q
        <3>1. CASE q = g /\ rules[h][m] # None
            <4>1. rules'[q][m] = rules[h][m] /\ rules[h][m] \in DOMAIN heap
                BY <1>2, <2>1, <3>1, Tables
            <4>2. heap[rules[h][m]].kind # "pointer"
                <5> SUFFICES ASSUME heap[rules[h][m]].kind = "pointer" PROVE FALSE
                    OBVIOUS
                <5>1. heap[rules[h][m]].home = h
                    BY <2>1, <4>1 DEF TablesInv, NamesInv
                <5>2. rules[h][m] \in pointers[h]
                    BY <4>1, <5>1 DEF IInv, PointersInv
                <5>. QED BY <1>1, <5>2
            <4>3. heap[rules[h][m]].name = RuleName(m)
                BY <2>1, <4>1, <4>2 DEF TablesInv, NamesInv, Undefined
            <4>. QED BY <4>1, <4>2, <4>3
        <3>2. CASE ~(q = g /\ rules[h][m] # None)
            BY <1>2, <2>1, <3>2 DEF TablesInv, NamesInv
        <3>. QED BY <3>1, <3>2
    <2>2. \A i \in DOMAIN heap : heap[i].kind = "pointer" /\ heap[i].refs # <<>> =>
              heap[heap[i].refs[1].to].kind # "pointer"
        BY DEF TablesInv, NamesInv
    <2>. QED BY <1>1, <2>1, <2>2 DEF NamesInv, Undefined
<1>5. MeaningInv'
    <2> SUFFICES ASSUME NEW i \in DOMAIN heap, NEW k \in DOMAIN heap[i].refs,
                        alive'[heap[i].home], heap[i].refs[k].as # <<>>
                 PROVE  LET q == heap[i].home
                            x == heap[i].refs[k].as[1]
                        IN  /\ x \in Name /\ rules'[q][x] # None
                            /\ Meaning(heap[i].refs[k].to) = rules'[q][x]
        BY <1>a DEF MeaningInv, Meaning, Undefined
    <2> DEFINE q == heap[i].home
               x == heap[i].refs[k].as[1]
    <2>1. q \in Grammar /\ alive[q]
        BY <1>3, Tables, HeapAt
    <2>2. x \in Name /\ rules[q][x] # None /\ Meaning(heap[i].refs[k].to) = rules[q][x]
        BY <2>1 DEF TablesInv, MeaningInv
    <2>3. rules'[q][x] = rules[q][x]
        BY <1>2, <2>1, <2>2
    <2>. QED BY <2>2, <2>3
<1>6. IdsInv'
    BY <1>1 DEF TablesInv, IdsInv
<1>7. HandledInv'
    <2> SUFFICES ASSUME parser # NoParser PROVE HandledInv'
        BY <1>1 DEF HandledInv, ParserInv, HandlersInv
    <2> DEFINE p == parser[1].grammar
    <2>1. p \in Grammar /\ alive[p] /\ p # h
        BY <1>1 DEF HandledInv, ParserInv, UsedBy
    <2>2. ParserInv'
        BY <1>1, <1>3, <2>1 DEF ParserInv
    <2>3. ASSUME NEW id \in DOMAIN parser[1].handlers
          PROVE  LET m == parser[1].handlers[id]
                     i == rules'[p][m]
                 IN  m \in Name /\ i # None /\ heap[i].kind # "pointer" /\ heap[i].id = id
        <3> DEFINE m == parser[1].handlers[id]
        <3>1. /\ m \in Name /\ rules[p][m] # None /\ heap[rules[p][m]].kind # "pointer"
              /\ heap[rules[p][m]].id = id
            BY DEF HandledInv, HandlersInv
        <3>2. rules'[p][m] = rules[p][m]
            BY <1>2, <2>1, <3>1
        <3>. QED BY <3>1, <3>2
    <2>4. HandlersInv'
        BY <1>1, <2>3 DEF HandlersInv
    <2>. QED BY <2>2, <2>4 DEF HandledInv
<1>8. NowInv'
    BY <1>1 DEF NowInv
<1>. QED BY <1>4, <1>5, <1>6, <1>7, <1>8 DEF TablesInv

LEMMA DestroySetup ==
    ASSUME NEW o, IInv(o), TablesInv, HandledInv, NEW g \in Grammar,
           Destroy(g), ~UsedBy(g), parser' = parser
    PROVE  TablesInv' /\ NowInv' /\ HandledInv'
<1>1. /\ current = Nothing /\ alive[g]
      /\ heap' = [i \in DOMAIN heap |->
                    IF i \in pointers[g] THEN [heap[i] EXCEPT !.refs = <<>>] ELSE heap[i]]
      /\ alive' = [alive EXCEPT ![g] = FALSE]
      /\ UNCHANGED <<rules, idBase, current>>
    BY DEF Destroy, PointersReset
<1>2. \A q \in Grammar : alive'[q] <=> alive[q] /\ q # g
    BY <1>1 DEF IInv, TypeOK
<1>3. /\ DOMAIN heap' = DOMAIN heap /\ DOMAIN heap = 1..Len(heap)
      /\ \A i \in DOMAIN heap : /\ heap'[i].kind = heap[i].kind
                                /\ heap'[i].home = heap[i].home
                                /\ heap'[i].name = heap[i].name
                                /\ heap'[i].id = heap[i].id
                                /\ heap'[i].refs = IF i \in pointers[g] THEN <<>> ELSE heap[i].refs
    <2>1. \A i \in DOMAIN heap : heap[i] \in Recognizer(Len(heap))
        BY Tables, HeapAt
    <2>2. \A i \in DOMAIN heap : heap'[i] = IF i \in pointers[g]
                                            THEN [heap[i] EXCEPT !.refs = <<>>] ELSE heap[i]
        BY <1>1
    <2>. QED BY <1>1, <2>1, <2>2, Tables DEF Recognizer
<1>a. rules' = rules
    BY <1>1
<1>4. NamesInv'
    <2>1. ASSUME NEW q \in Grammar, NEW m \in Name, rules[q][m] # None
          PROVE  LET r == heap'[rules[q][m]]
                 IN  \/ r.kind # "pointer" /\ r.name = RuleName(m)
                     \/ Undefined(r) /\ r.name = PointerName(m) /\ r.home = q
        <3>1. rules[q][m] \in DOMAIN heap
            BY <2>1, Tables
        <3>2. LET r == heap[rules[q][m]]
              IN  \/ r.kind # "pointer" /\ r.name = RuleName(m)
                  \/ Undefined(r) /\ r.name = PointerName(m) /\ r.home = q
            BY <2>1 DEF TablesInv, NamesInv
        <3>. QED BY <1>3, <3>1, <3>2 DEF Undefined
    <2>2. ASSUME NEW i \in DOMAIN heap', heap'[i].kind = "pointer", heap'[i].refs # <<>>
          PROVE  heap'[heap'[i].refs[1].to].kind # "pointer"
        <3>1. i \in DOMAIN heap /\ heap[i].kind = "pointer" /\ heap'[i].refs = heap[i].refs
            BY <1>3, <2>2
        <3>2. heap[i].refs[1].to \in DOMAIN heap
            BY <1>3, <2>2, <3>1, FirstReference
        <3>3. heap[heap[i].refs[1].to].kind # "pointer"
            BY <2>2, <3>1 DEF TablesInv, NamesInv
        <3>. QED BY <1>3, <3>1, <3>2, <3>3
    <2>. QED BY <1>a, <2>1, <2>2 DEF NamesInv
<1>5. MeaningInv'
    <2> SUFFICES ASSUME NEW i \in DOMAIN heap', NEW k \in DOMAIN heap'[i].refs,
                        alive'[heap'[i].home], heap'[i].refs[k].as # <<>>
                 PROVE  /\ heap'[i].refs[k].as[1] \in Name
                        /\ rules[heap'[i].home][heap'[i].refs[k].as[1]] # None
                        /\ Stands(heap', heap'[i].refs[k].to)
                              = rules[heap'[i].home][heap'[i].refs[k].as[1]]
        BY <1>a DEF MeaningInv, Meaning, Stands, Undefined
    <2> DEFINE q == heap[i].home
               x == heap[i].refs[k].as[1]
               t == heap[i].refs[k].to
    <2>1. i \in DOMAIN heap /\ heap'[i].refs = heap[i].refs /\ heap'[i].home = q
        BY <1>3
    <2>2. q \in Grammar /\ t \in DOMAIN heap
        BY <1>3, <2>1, Tables, HeapAt
    <2>3. alive[q] /\ q # g
        BY <1>2, <2>1, <2>2
    <2>4. x \in Name /\ rules[q][x] # None /\ Meaning(t) = rules[q][x]
        BY <2>1, <2>3 DEF TablesInv, MeaningInv
    <2>5. o[heap[t].home] = q
        BY <2>1, <2>2, <2>3 DEF IInv, HomeInv
    <2> HIDE DEF q, x, t
    <2>6. Stands(heap', t) = Meaning(t)
        <3>1. CASE t \in pointers[g]
            <4>1. heap[t].home = g /\ o[g] = g
                BY <1>1, <3>1 DEF IInv, PointersInv, HomeInv
            <4>. QED BY <2>3, <2>5, <4>1
        <3>2. CASE t \notin pointers[g]
            <4>1. heap'[t].kind = heap[t].kind /\ heap'[t].refs = heap[t].refs
                BY <1>3, <2>2, <3>2
            <4>. QED BY <4>1 DEF Stands, Meaning, Undefined
        <3>. QED BY <3>1, <3>2
    <2>. QED BY <2>1, <2>4, <2>6 DEF x, t
<1>6. IdsInv'
    BY <1>1, <1>3 DEF TablesInv, IdsInv
<1>7. HandledInv'
    <2> SUFFICES ASSUME parser # NoParser PROVE HandledInv'
        BY DEF HandledInv, ParserInv, HandlersInv
    <2> DEFINE p == parser[1].grammar
    <2>1. p \in Grammar /\ alive[p] /\ p # g
        BY DEF HandledInv, ParserInv, UsedBy
    <2>2. ParserInv'
        BY <1>2, <2>1 DEF ParserInv
    <2>3. ASSUME NEW id \in DOMAIN parser[1].handlers
          PROVE  LET m == parser[1].handlers[id]
                     i == rules[p][m]
                 IN  m \in Name /\ i # None /\ heap'[i].kind # "pointer" /\ heap'[i].id = id
        <3> DEFINE m == parser[1].handlers[id]
        <3>1. /\ m \in Name /\ rules[p][m] # None /\ heap[rules[p][m]].kind # "pointer"
              /\ heap[rules[p][m]].id = id
            BY DEF HandledInv, HandlersInv
        <3>2. rules[p][m] \in DOMAIN heap
            BY <1>3, <2>1, <3>1, Tables
        <3>. QED BY <1>3, <3>1, <3>2
    <2>4. HandlersInv'
        BY <1>a, <2>3 DEF HandlersInv
    <2>. QED BY <2>2, <2>4 DEF HandledInv
<1>8. NowInv'
    BY <1>1 DEF NowInv
<1>. QED BY <1>4, <1>5, <1>6, <1>7, <1>8 DEF TablesInv

----------------------------------------------------------------------------
LEMMA CreateParserSetup ==
    ASSUME NEW o, IInv(o), NEW g \in Grammar, NEW names \in Observed, CreateParser(g, names)
    PROVE  /\ IInv(o)' /\ ParserInv' /\ NowInv'
           /\ TablesInv => TablesInv'
           /\ NamesInv => HandlersInv'
<1>1. /\ parser = NoParser /\ alive[g] /\ current = Nothing /\ aborted = FALSE
      /\ UNCHANGED <<heap, rules, pointers, alive, idBase, current, made>>
      /\ \/ /\ MayObserve(g, names)
            /\ parser' = <<[grammar |-> g, handlers |-> Installed(g, names)]>>
            /\ aborted' = aborted
         \/ aborted' = TRUE /\ parser' = parser
    BY DEF CreateParser, IInv, TypeOK
<1>2. IInv(o)'
    <2>1. aborted' \in BOOLEAN
        BY <1>1
    <2>. QED BY <1>1, <2>1
             DEF IInv, TypeOK, HomeInv, NowAtHome, PointersInv, ListedInv, Now, Undefined
<1>3. TablesInv => TablesInv'
    BY <1>1, TablesKept
<1>4. NowInv'
    BY <1>1 DEF NowInv
<1>5. CASE parser' = parser
    BY <1>1, <1>2, <1>3, <1>4, <1>5 DEF ParserInv, HandlersInv
<1>6. CASE /\ MayObserve(g, names)
           /\ parser' = <<[grammar |-> g, handlers |-> Installed(g, names)]>>
    <2> DEFINE Id(n) == heap[rules[g][n]].id
               handlers == Installed(g, names)
    <2>1. parser'[1].grammar = g /\ parser'[1].handlers = handlers
        BY <1>6
    <2>2. ParserInv'
        BY <1>1, <2>1 DEF ParserInv
    <2>3. names \subseteq Name
        BY ObservedAssumption
    <2>4. ASSUME NamesInv, NEW id \in DOMAIN handlers
          PROVE  LET n == handlers[id]
                     i == rules[g][n]
                 IN  n \in Name /\ i # None /\ heap[i].kind # "pointer" /\ heap[i].id = id
        <3>1. id \in {Id(n) : n \in names} /\ handlers[id] = CHOOSE n \in names : Id(n) = id
            BY <2>4 DEF Installed
        <3>2. handlers[id] \in names /\ Id(handlers[id]) = id
            BY <3>1
        <3>3. /\ handlers[id] \in Name /\ rules[g][handlers[id]] # None
              /\ ~Undefined(heap[rules[g][handlers[id]]])
            BY <1>6, <2>3, <3>2 DEF MayObserve, Complete
        <3>4. heap[rules[g][handlers[id]]].kind # "pointer"
            BY <2>4, <3>3 DEF NamesInv
        <3>. QED BY <3>2, <3>3, <3>4
    <2> HIDE DEF handlers
    <2>a. heap' = heap /\ rules' = rules
        BY <1>1
    <2>5. NamesInv => HandlersInv'
        BY <2>a, <2>1, <2>4 DEF HandlersInv
    <2>. QED BY <1>2, <1>3, <1>4, <2>2, <2>5
<1>. QED BY <1>1, <1>5, <1>6

LEMMA ParseUnobservedSetup ==
    ASSUME NEW o, IInv(o), ParserInv, NEW n \in Name, ParseUnobserved(n)
    PROVE  /\ IInv(o)' /\ ParserInv' /\ NowInv'
           /\ TablesInv /\ HandlersInv => TablesInv' /\ HandlersInv'
<1> DEFINE g == parser[1].grammar
<1>1. /\ parser # NoParser /\ current = Nothing /\ aborted' = TRUE
      /\ UNCHANGED <<alive, current, made, parser>>
      /\ \/ UNCHANGED <<heap, rules, pointers, idBase>>
         \/ Awaited(g, n)
    BY DEF ParseUnobserved, Awaited
<1>2. g \in Grammar /\ alive[g]
    BY <1>1 DEF ParserInv
<1>3. ParserInv' /\ NowInv'
    BY <1>1 DEF ParserInv, NowInv
<1>4. CASE UNCHANGED <<heap, rules, pointers, idBase>>
    <2>1. aborted' \in BOOLEAN
        BY <1>1
    <2>2. IInv(o)'
        BY <1>1, <1>4, <2>1
        DEF IInv, TypeOK, HomeInv, NowAtHome, PointersInv, ListedInv, Now, Undefined
    <2>3. TablesInv => TablesInv'
        BY <1>1, <1>4, TablesKept
    <2>4. HandlersInv => HandlersInv'
        BY <1>1, <1>4 DEF HandlersInv
    <2>. QED BY <1>3, <2>2, <2>3, <2>4
<1>5. CASE Awaited(g, n)
    <2>1. current' \in Seq(Construction(Len(heap) + 1)) /\ Len(current') <= 1
        BY <1>1, EmptySeq DEF Nothing
    <2>2. NowAtHome(o)' /\ aborted' \in BOOLEAN
        BY <1>1 DEF NowAtHome
    <2>3. IInv(o)'
        BY <1>1, <1>2, <1>5, <2>1, <2>2, AwaitedInv
    <2>4. TablesInv /\ HandlersInv => TablesInv' /\ HandlersInv'
        BY <1>1, <1>2, <1>5, <2>3, AwaitedNames, AwaitedMeaning, AwaitedIdsAndHandlers
           DEF TablesInv
    <2>. QED BY <1>3, <2>3, <2>4
<1>. QED BY <1>1, <1>4, <1>5

----------------------------------------------------------------------------
(* With or without named extensions.                                       *)
SetupOwned == Owned /\ ParserInv

(* No step of a grammar takes it from a parser.                            *)
LEMMA ParserKeepsGrammar ==
    ASSUME TypeOK, ParserInv, UNCHANGED parser,
           \/ alive' = alive
           \/ \E g, h \in Grammar : IncludeSetup(g, h)
           \/ \E g \in Grammar : ~UsedBy(g) /\ Destroy(g)
    PROVE  ParserInv'
<1> SUFFICES ASSUME parser # NoParser
             PROVE  alive'[parser[1].grammar]
    BY DEF ParserInv
<1>1. /\ alive \in [Grammar -> BOOLEAN]
      /\ parser[1].grammar \in Grammar /\ alive[parser[1].grammar]
    BY DEF ParserInv, TypeOK
<1>2. ASSUME NEW h \in Grammar, ~UsedBy(h), alive' = [alive EXCEPT ![h] = FALSE]
      PROVE  alive'[parser[1].grammar]
    BY <1>1, <1>2 DEF UsedBy
<1>. QED BY <1>1, <1>2 DEF IncludeSetup, Include, Destroy

LEMMA SetupOwnedStep ==
    ASSUME SetupOwned, [CarefulSetupNext]_setupVars
    PROVE  SetupOwned'
<1>1. PICK o : IInv(o)
    BY DEF SetupOwned, Owned
<1>2. ParserInv /\ TypeOK
    BY <1>1 DEF SetupOwned, IInv
<1>3. CASE [CarefulNext]_vars /\ UNCHANGED parser /\ ParserInv'
    <2>1. \E p : IInv(p)'
        BY <1>1, <1>3, StepInv
    <2>. QED BY <1>3, <2>1 DEF SetupOwned, Owned
<1>4. CASE \E g \in Grammar, names \in Observed : CreateParser(g, names)
    BY <1>1, <1>4, CreateParserSetup DEF SetupOwned, Owned
<1>5. CASE \E n \in Name : ParseUnobserved(n)
    BY <1>1, <1>2, <1>5, ParseUnobservedSetup DEF SetupOwned, Owned
<1>6. ASSUME [CarefulNext]_vars, UNCHANGED parser, alive' = alive
      PROVE  SetupOwned'
    BY <1>2, <1>3, <1>6, ParserKeepsGrammar
<1>7. ASSUME NEW g \in Grammar, NEW s \in Statement[g], BeginRule(g, s), UNCHANGED parser
      PROVE  SetupOwned'
    BY <1>6, <1>7 DEF CarefulNext, BuildNext, BeginRule
<1>8. CASE GetRule /\ UNCHANGED parser
    BY <1>6, <1>8 DEF CarefulNext, BuildNext, GetRule
<1>9. CASE GetPointer /\ UNCHANGED parser
    BY <1>6, <1>9 DEF CarefulNext, BuildNext, GetPointer
<1>10. CASE AddRule /\ UNCHANGED parser
    BY <1>6, <1>10 DEF CarefulNext, BuildNext, AddRule
<1>11. CASE ExtendRule /\ UNCHANGED parser
    BY <1>6, <1>11 DEF CarefulNext, BuildNext, ExtendRule
<1>12. CASE Abort /\ UNCHANGED parser
    BY <1>6, <1>12 DEF CarefulNext, BuildNext, Abort
<1>13. ASSUME NEW g \in Grammar, NEW h \in Grammar, Careful(g, h), IncludeSetup(g, h)
       PROVE  SetupOwned'
    <2>1. Include(g, h) /\ UNCHANGED parser
        BY <1>13 DEF IncludeSetup
    <2>2. ParserInv'
        BY <1>2, <1>13, <2>1, ParserKeepsGrammar
    <2>3. CarefulNext
        BY <1>13, <2>1 DEF CarefulNext
    <2>. QED BY <1>3, <2>1, <2>2, <2>3
<1>14. ASSUME NEW g \in Grammar, ~UsedBy(g), Destroy(g), UNCHANGED parser
       PROVE  SetupOwned'
    <2>1. ParserInv'
        BY <1>2, <1>14, ParserKeepsGrammar
    <2>2. CarefulNext
        BY <1>14 DEF CarefulNext, BuildNext
    <2>. QED BY <1>3, <1>14, <2>1, <2>2
<1>15. CASE Finished /\ UNCHANGED parser
    BY <1>6, <1>15 DEF CarefulNext, BuildNext, Finished, vars
<1>16. CASE UNCHANGED setupVars
    BY <1>6, <1>16 DEF setupVars, vars
<1>. QED BY <1>4, <1>5, <1>7, <1>8, <1>9, <1>10, <1>11, <1>12, <1>13, <1>14, <1>15, <1>16
         DEF CarefulSetupNext, BuildSetupNext

(* Without named extensions.                                               *)
SetupInv == Owned /\ TablesInv /\ NowInv /\ HandledInv

LEMMA SetupInitInv == SetupInit => SetupInv
<1> SUFFICES ASSUME SetupInit PROVE SetupInv
    OBVIOUS
<1>1. Init /\ parser = NoParser
    BY DEF SetupInit
<1>2. Owned
    BY <1>1, InitInv DEF Owned
<1>3. DOMAIN heap = {} /\ current = Nothing /\ \A g \in Grammar, n \in Name : rules[g][n] = None
    BY <1>1, EmptySeq DEF Init
<1>. QED BY <1>1, <1>2, <1>3
         DEF SetupInv, TablesInv, NamesInv, MeaningInv, IdsInv, NowInv, HandledInv,
             ParserInv, HandlersInv

LEMMA SetupStep ==
    ASSUME NoNamedExtension, SetupInv, [CarefulSetupNext]_setupVars
    PROVE  SetupInv'
<1>1. PICK o : IInv(o)
    BY DEF SetupInv, Owned
<1>2. TablesInv /\ NowInv /\ HandledInv
    BY DEF SetupInv
<1>3. Owned'
    BY SetupOwnedStep DEF SetupInv, SetupOwned, HandledInv
<1> SUFFICES TablesInv' /\ NowInv' /\ HandledInv'
    BY <1>3 DEF SetupInv
<1>4. ASSUME NEW g \in Grammar, NEW names \in Observed, CreateParser(g, names)
      PROVE  TablesInv' /\ NowInv' /\ HandledInv'
    BY <1>1, <1>2, <1>4, CreateParserSetup DEF HandledInv, TablesInv
<1>5. ASSUME NEW n \in Name, ParseUnobserved(n)
      PROVE  TablesInv' /\ NowInv' /\ HandledInv'
    BY <1>1, <1>2, <1>5, ParseUnobservedSetup DEF HandledInv
<1>6. ASSUME UNCHANGED <<heap, rules, alive, idBase>>, UNCHANGED parser
      PROVE  TablesInv' /\ HandledInv'
    <2>1. TablesInv'
        BY <1>2, <1>6, TablesKept
    <2>2. HandledInv'
        BY <1>2, <1>6, HandledKept
    <2>. QED BY <2>1, <2>2
<1>7. ASSUME NEW g \in Grammar, NEW s \in Statement[g], BeginRule(g, s), UNCHANGED parser
      PROVE  TablesInv' /\ NowInv' /\ HandledInv'
    <2>1. UNCHANGED <<heap, rules, alive, idBase>>
        BY <1>7 DEF BeginRule
    <2>2. current' = <<[grammar |-> g, rule |-> s, refs |-> <<>>]>>
        BY <1>7 DEF BeginRule
    <2>3. DOMAIN Now'.refs = {}
        BY <2>2 DEF Now
    <2>4. NowInv'
        BY <2>3 DEF NowInv
    <2>. QED BY <1>6, <1>7, <2>1, <2>4
<1>8. CASE GetRule /\ UNCHANGED parser
    <2>1. UNCHANGED <<heap, rules, alive, idBase>>
        BY <1>8 DEF GetRule
    <2>. QED BY <1>1, <1>2, <1>6, <1>8, <2>1, GetRuleSetup DEF TablesInv
<1>9. CASE GetPointer /\ UNCHANGED parser
    BY <1>1, <1>2, <1>9, GetPointerInv, GetPointerSetup
<1>10. CASE AddRule /\ UNCHANGED parser
    BY <1>1, <1>2, <1>10, AddRuleInv, AddRuleSetup
<1>11. CASE ExtendRule /\ UNCHANGED parser
    BY <1>1, <1>2, <1>11, ExtendRuleInv, ExtendRuleSetup
<1>12. ASSUME UNCHANGED <<heap, rules, alive, idBase, current>>, UNCHANGED parser
       PROVE  TablesInv' /\ NowInv' /\ HandledInv'
    <2>1. NowInv'
        BY <1>2, <1>12 DEF NowInv, Now
    <2>. QED BY <1>6, <1>12, <2>1
<1>13. CASE Abort /\ UNCHANGED parser
    BY <1>12, <1>13 DEF Abort
<1>14. ASSUME NEW g \in Grammar, NEW h \in Grammar, Careful(g, h), IncludeSetup(g, h)
       PROVE  TablesInv' /\ NowInv' /\ HandledInv'
    BY <1>1, <1>2, <1>14, IncludeKeepsSetup
<1>15. ASSUME NEW g \in Grammar, ~UsedBy(g), Destroy(g), UNCHANGED parser
       PROVE  TablesInv' /\ NowInv' /\ HandledInv'
    BY <1>1, <1>2, <1>15, DestroySetup
<1>16. CASE Finished /\ UNCHANGED parser
    BY <1>12, <1>16 DEF Finished, vars
<1>17. CASE UNCHANGED setupVars
    BY <1>12, <1>17 DEF setupVars, vars
<1>. QED BY <1>4, <1>5, <1>7, <1>8, <1>9, <1>10, <1>11, <1>13, <1>14, <1>15, <1>16, <1>17
         DEF CarefulSetupNext, BuildSetupNext

----------------------------------------------------------------------------
(* What follows.                                                           *)
LEMMA InvMeansRules ==
    ASSUME SetupInv
    PROVE  ReferencesMeanTheRule /\ RulesHaveTheirName
<1>1. PICK o : IInv(o)
    BY DEF SetupInv, Owned
<1>2. NamesInv /\ MeaningInv
    BY DEF SetupInv, TablesInv
<1>3. RulesHaveTheirName
    BY <1>2 DEF NamesInv, RulesHaveTheirName
<1>4. ASSUME NEW i \in DOMAIN heap, NEW k \in DOMAIN heap[i].refs,
             heap[i].refs[k].as # <<>>, alive[heap[i].home]
      PROVE  Meaning(heap[i].refs[k].to) = Meaning(rules[heap[i].home][heap[i].refs[k].as[1]])
    <2> DEFINE q == heap[i].home
               x == heap[i].refs[k].as[1]
    <2>1. q \in Grammar
        BY <1>1, Tables, HeapAt
    <2>2. x \in Name /\ rules[q][x] # None /\ Meaning(heap[i].refs[k].to) = rules[q][x]
        BY <1>2, <1>4 DEF MeaningInv
    <2>3. Meaning(rules[q][x]) = rules[q][x]
        BY <1>2, <2>1, <2>2, EntryMeansItself
    <2>. QED BY <2>2, <2>3
<1>5. ReferencesMeanTheRule
    BY <1>4 DEF ReferencesMeanTheRule
<1>. QED BY <1>3, <1>5

LEMMA InvMeansHandlers ==
    ASSUME SetupInv
    PROVE  HandlersAreFound
<1>1. PICK o : IInv(o)
    BY DEF SetupInv, Owned
<1> SUFFICES ASSUME parser # NoParser, NEW id \in DOMAIN parser[1].handlers
             PROVE  {i \in DOMAIN heap : heap[i].id = id}
                       = {rules[parser[1].grammar][parser[1].handlers[id]]}
    BY DEF HandlersAreFound
<1> DEFINE e == rules[parser[1].grammar][parser[1].handlers[id]]
<1>2. /\ parser[1].handlers[id] \in Name /\ parser[1].grammar \in Grammar
      /\ e # None /\ heap[e].id = id
    BY DEF SetupInv, HandledInv, HandlersInv, ParserInv
<1>3. e \in DOMAIN heap
    BY <1>1, <1>2, Tables
<1>4. \A i \in DOMAIN heap : heap[i].id = heap[e].id => i = e
    BY <1>3 DEF SetupInv, TablesInv, IdsInv
<1>. QED BY <1>2, <1>3, <1>4

(* For any texts, in any order, grammars that are included as in the       *)
(* repository or destroyed, and a parser made at any time: belr.cpp keeps  *)
(* its tables well formed.                                                 *)
THEOREM SetupTypeCorrect == CarefulSetupSpec => []TypeOK
<1>1. SetupInit => SetupOwned
    BY InitInv DEF SetupInit, SetupOwned, Owned, ParserInv
<1>2. SetupOwned /\ [CarefulSetupNext]_setupVars => SetupOwned'
    BY SetupOwnedStep
<1>3. SetupOwned => TypeOK
    BY DEF SetupOwned, Owned, IInv
<1>. QED BY <1>1, <1>2, <1>3, PTL DEF CarefulSetupSpec

(* Nor does a parser change what isComplete() promised when it was made:   *)
(* at any time, where include() is called as in the repository, a grammar  *)
(* that is complete leads to no undefined pointer.                         *)
THEOREM SetupCompleteIsDefined == CarefulSetupSpec => []CompleteMeansDefined
<1>1. SetupInit => SetupOwned
    BY InitInv DEF SetupInit, SetupOwned, Owned, ParserInv
<1>2. SetupOwned /\ [CarefulSetupNext]_setupVars => SetupOwned'
    BY SetupOwnedStep
<1>3. SetupOwned => CompleteMeansDefined
    BY ListedIsEnough DEF SetupOwned, Owned
<1>. QED BY <1>1, <1>2, <1>3, PTL DEF CarefulSetupSpec

LEMMA AlwaysSetUp ==
    ASSUME NoNamedExtension
    PROVE  CarefulSetupSpec => []SetupInv
<1>1. SetupInit => SetupInv
    BY SetupInitInv
<1>2. SetupInv /\ [CarefulSetupNext]_setupVars => SetupInv'
    BY SetupStep
<1>. QED BY <1>1, <1>2, PTL DEF CarefulSetupSpec

(* Whatever the order of the texts, if no extension is the name of a rule  *)
(* and include() is called as in the repository,                           *)
(* each reference that getRule() resolved, or gave a pointer for, leads to *)
(* the rule that the table has for its name.                               *)
THEOREM ReferencesLeadToTheirRule ==
    ASSUME NoNamedExtension
    PROVE  CarefulSetupSpec => []ReferencesMeanTheRule
<1>1. SetupInv => ReferencesMeanTheRule
    BY InvMeansRules
<1>. QED BY <1>1, AlwaysSetUp, PTL

(* Under the same conditions, addRule(), extendRule() and include() leave   *)
(* every rule of every table the name that it is found by.                 *)
THEOREM RulesKeepTheirName ==
    ASSUME NoNamedExtension
    PROVE  CarefulSetupSpec => []RulesHaveTheirName
<1>1. SetupInv => RulesHaveTheirName
    BY InvMeansRules
<1>. QED BY <1>1, AlwaysSetUp, PTL

(* Under the same conditions, the handlers a Parser installed are found    *)
(* under the ids of their rules, and of no other recognizer, however many  *)
(* texts are added to its grammar while it lives.                          *)
THEOREM HandlersStayWithTheirRule ==
    ASSUME NoNamedExtension
    PROVE  CarefulSetupSpec => []HandlersAreFound
<1>1. SetupInv => HandlersAreFound
    BY InvMeansHandlers
<1>. QED BY <1>1, AlwaysSetUp, PTL
==============================================================================
