-------------------------- MODULE GrammarFile_proofs --------------------------
(***************************************************************************)
(* What load() accepts has no undefined reference, whatever was saved and  *)
(* wherever the file was cut.  Nothing is assumed of what Recognizer's     *)
(* build() makes of the file: it holds for any bytes at all.               *)
(***************************************************************************)
EXTENDS GrammarFile, TLAPS

(* Every reference that was built has an entry in the table, and load()    *)
(* answers 0 only if no entry awaits its rule.                             *)
AllKnown == References(heap) \subseteq DOMAIN rules

FileInv == AllKnown /\ (Accepted => IsComplete)

----------------------------------------------------------------------------
(* The references of two grammars put together are those of both.          *)
LEMMA ReferencesOfBoth ==
    ASSUME NEW f, NEW g
    PROVE  References(Over(f, g)) \subseteq References(f) \cup References(g)
    BY DEF References, Over

(* A file that has not been read refers to nothing.                        *)
LEMMA NoReferences == References(<<>>) = {}
<1>1. DOMAIN <<>> = {}
    OBVIOUS
<1>2. QED
    BY <1>1 DEF References

(* addRule() and the getRule() of the references keep every name that was  *)
(* in the table, and put every name that is referred to in it.             *)
LEMMA TableKnows ==
    /\ DOMAIN rules \subseteq DOMAIN Table
    /\ References(Built.heap) \subseteq DOMAIN Table
    /\ DOMAIN Table \subseteq DOMAIN Over(BuiltName :> at, Table)
    BY DEF Table, WithAwaited, Over

----------------------------------------------------------------------------
LEMMA FileInit == Init => FileInv
<1> SUFFICES ASSUME Init PROVE FileInv
    OBVIOUS
<1>1. AllKnown
    BY NoReferences DEF Init, AllKnown
<1>2. ~Accepted
    BY DEF Init, Accepted
<1>3. QED
    BY <1>1, <1>2 DEF FileInv

LEMMA FileStep == FileInv /\ [Next]_vars => FileInv'
<1> SUFFICES ASSUME FileInv, [Next]_vars PROVE FileInv'
    OBVIOUS
<1>1. CASE heap' = heap /\ rules' = rules
  <2>1. AllKnown'
    BY <1>1 DEF FileInv, AllKnown, References
  <2>2. (Accepted => IsComplete)'
    <3>1. IsComplete' <=> IsComplete
        BY <1>1 DEF IsComplete
    <3>2. CASE UNCHANGED <<phase, answer>>
        BY <3>1, <3>2 DEF FileInv, Accepted
    <3>3. CASE phase' \in {"saving", "saved", "loading", "aborted"}
        BY <3>3 DEF Accepted
    <3>4. CASE answer' = -1
        BY <3>4 DEF Accepted
    <3>5. CASE EndOfFile
        BY <3>1, <3>5 DEF EndOfFile, Answer, Accepted
    <3>6. QED
        BY <3>2, <3>3, <3>4, <3>5 DEF Next, vars, SaveRule, Close, Stop, Open, LoadRule,
            RefuseRule, Abort, Done, Reading
  <2>3. QED
    BY <2>1, <2>2 DEF FileInv
<1>2. CASE LoadRule
  <2>1. AllKnown'
    <3>1. References(heap') \subseteq References(Built.heap) \cup References(heap)
        BY <1>2, ReferencesOfBoth DEF LoadRule
    <3>2. DOMAIN Table \subseteq DOMAIN rules'
        BY <1>2, TableKnows DEF LoadRule
    <3>3. References(heap)' = References(heap')
        BY DEF References
    <3>4. QED
        BY <3>1, <3>2, <3>3, TableKnows DEF FileInv, AllKnown
  <2>2. ~Accepted'
    BY <1>2 DEF LoadRule, Reading, Accepted
  <2>3. QED
    BY <2>1, <2>2 DEF FileInv
<1>3. CASE RefuseRule
  <2>1. AllKnown'
    <3>1. heap' = heap /\ rules' = Table
        BY <1>3 DEF RefuseRule
    <3>2. References(heap)' = References(heap)
        BY <3>1 DEF References
    <3>3. QED
        BY <3>1, <3>2, TableKnows DEF FileInv, AllKnown
  <2>2. ~Accepted'
    BY <1>3 DEF RefuseRule, Accepted
  <2>3. QED
    BY <2>1, <2>2 DEF FileInv
<1>4. QED
    BY <1>1, <1>2, <1>3 DEF Next, vars, SaveRule, Close, Stop, Open, Abort, EndOfFile, Done

(* load() never answers 0 for a grammar with a rule that is referred to    *)
(* and not there: for every grammar that was saved, every beginning of its *)
(* file, and whatever is read at the place where the file was cut.         *)
THEOREM FileIsDefined == Spec => []AcceptedIsDefined
<1>1. FileInv => AcceptedIsDefined
    BY DEF FileInv, AllKnown, AcceptedIsDefined, IsComplete
<1>2. QED
    BY <1>1, FileInit, FileStep, PTL DEF Spec

==============================================================================
