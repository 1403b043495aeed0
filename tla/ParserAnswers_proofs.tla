------------------------ MODULE ParserAnswers_proofs -------------------------
(***************************************************************************)
(* What parseInput() gives back as the size of its match is what the rule  *)
(* means at the start of the text (Judgements), and a rule has one meaning *)
(* at most: for every grammar and its handlers, and any number of threads  *)
(* that share them, whatever they build and throw away meanwhile.          *)
(***************************************************************************)
EXTENDS ParserContext_proofs, Judgements

(* More answers, more that follows.                                        *)
LEMMA FollowsMore ==
    ASSUME NEW S, NEW T, S \subseteq T, NEW s, NEW r \in Recognizer, NEW p, NEW n,
           Follows(S, s, r, p, n)
    PROVE  Follows(T, s, r, p, n)
<1>1. \A k, ends : Trail(S, r, p, k, ends) => Trail(T, r, p, k, ends)
    BY DEF Trail
<1>2. InOrder(S, r, p, n) => InOrder(T, r, p, n)
    BY <1>1, Zenon DEF InOrder
<1>3. Repeats(S, s, r, p, n) => Repeats(T, s, r, p, n)
    BY <1>1, Zenon DEF Repeats
<1>4. FirstOf(S, r, p, n) => FirstOf(T, r, p, n)
    BY DEF FirstOf, Refused
<1>5. \A k : Longest(S, r, p, k, n) => Longest(T, r, p, k, n)
    BY DEF Longest
<1>6. Shape[r].kind \in Kind
    BY GrammarAssumption
<1>. QED BY <1>2, <1>3, <1>4, <1>5, <1>6 DEF Follows, Kind

(* Meant is such a set itself ...                                          *)
LEMMA MeantCloses == ASSUME NEW s PROVE Closed(Meant(s), s)
<1> SUFFICES ASSUME NEW r \in Recognizer, NEW p \in Nat, NEW n \in Matched,
                    Follows(Meant(s), s, r, p, n)
             PROVE  <<r, p, n>> \in Meant(s)
    BY DEF Closed
<1>1. ASSUME NEW S \in SUBSET Judgement, Closed(S, s)
      PROVE  <<r, p, n>> \in S
    <2>1. Meant(s) \subseteq S
        BY <1>1 DEF Meant
    <2>2. Follows(S, s, r, p, n)
        BY <2>1, FollowsMore
    <2>. QED BY <1>1, <2>2 DEF Closed
<1>2. <<r, p, n>> \in Judgement
    BY DEF Judgement
<1>. QED BY <1>1, <1>2 DEF Meant

(* ... and has nothing that does not follow from it.                       *)
LEMMA MeantFollows ==
    ASSUME NEW s, NEW r \in Recognizer, NEW p \in Nat, NEW n \in Matched,
           <<r, p, n>> \in Meant(s)
    PROVE  Follows(Meant(s), s, r, p, n)
<1> DEFINE S == {x \in Judgement : Follows(Meant(s), s, x[1], x[2], x[3])}
<1>1. \A a \in Recognizer, b \in Nat, c \in Matched :
         <<a, b, c>> \in S <=> Follows(Meant(s), s, a, b, c)
    BY DEF Judgement
<1>2. S \in SUBSET Judgement
    OBVIOUS
<1> HIDE DEF S
<1>3. S \subseteq Meant(s)
    <2>1. ASSUME NEW x \in S PROVE x \in Meant(s)
        <3>1. PICK a \in Recognizer, b \in Nat, c \in Matched : x = <<a, b, c>>
            BY <1>2 DEF Judgement
        <3>2. Follows(Meant(s), s, a, b, c)
            BY <1>1, <3>1
        <3>. QED BY <3>1, <3>2, MeantCloses DEF Closed
    <2>. QED BY <2>1
<1>4. Closed(S, s)
    <2>1. ASSUME NEW a \in Recognizer, NEW b \in Nat, NEW c \in Matched, Follows(S, s, a, b, c)
          PROVE  <<a, b, c>> \in S
        BY <1>1, <1>3, <2>1, FollowsMore
    <2>. QED BY <2>1 DEF Closed
<1>5. <<r, p, n>> \in S
    BY <1>2, <1>4 DEF Meant
<1>. QED BY <1>1, <1>5

(* U has at most one answer where M has any.                               *)
Sure(U, M) ==
    \A r \in Recognizer, p \in Nat, n \in Matched, m \in Matched :
        <<r, p, n>> \in U /\ <<r, p, m>> \in M => n = m

(* The elements of a recognizer.                                           *)
LEMMA ElementsTyped ==
    ASSUME NEW r \in Recognizer
    PROVE  /\ Shape[r].kind \in Kind
           /\ Len(Shape[r].elements) \in Nat
           /\ \A i \in 1..Len(Shape[r].elements) : Shape[r].elements[i] \in Recognizer
           /\ Shape[r].kind \in {"loop", "delegate"} => Shape[r].elements[1] \in Recognizer
           /\ Shape[r].min \in Nat
           /\ \A k \in Nat : Shape[r].kind = "loop" \/ k <= Len(Shape[r].elements) =>
                 \A i \in 1..k : ElementAt(r, i) \in Recognizer
<1>1. Shape[r] \in [kind : Kind, text : Seq(SUBSET (Char \cup {Nul})),
                    elements : Seq(Recognizer), min : Nat, max : Nat \cup {Unbounded}]
    BY GrammarAssumption
<1>2. /\ Shape[r].elements \in Seq(Recognizer) /\ Len(Shape[r].elements) \in Nat
      /\ Shape[r].kind \in Kind /\ Shape[r].min \in Nat
    BY <1>1, LenProperties
<1>3. \A i \in 1..Len(Shape[r].elements) : Shape[r].elements[i] \in Recognizer
    BY <1>2, ElementOfSeq
<1>4. Shape[r].kind \in {"loop", "delegate"} => Shape[r].elements[1] \in Recognizer
    <2>1. \A q \in Recognizer :
             Shape[q].kind \in {"loop", "delegate"} => Len(Shape[q].elements) = 1
        BY GrammarAssumption, Zenon
    <2>. QED BY <1>3, <2>1
<1>. QED BY <1>2, <1>3, <1>4 DEF ElementAt

(* Two trails are the same as far as both go.                              *)
Agree(k, l, e, d) == \A i \in 0..k : i <= l => e[i] = d[i]

LEMMA TrailsAgree ==
    ASSUME NEW U, NEW M, Sure(U, M), NEW r \in Recognizer, NEW p \in Nat,
           NEW k \in Nat, NEW l \in Nat, NEW e, NEW d,
           Trail(U, r, p, k, e), Trail(M, r, p, l, d),
           Shape[r].kind = "loop" \/ k <= Len(Shape[r].elements)
    PROVE  Agree(k, l, e, d)
<1> DEFINE Bad == {i \in 0..k : i <= l /\ e[i] # d[i]}
<1> SUFFICES ASSUME Bad # {} PROVE FALSE
    BY DEF Agree
<1>1. Bad \subseteq Nat
    OBVIOUS
<1>a. \E i \in Bad : \A j \in Bad : i <= j
    <2> HIDE DEF Bad
    <2>. QED BY <1>1, LeastNumber
<1>2. PICK i \in Bad : \A j \in Bad : i <= j
    BY <1>a
<1>3. i \in 1..k /\ i <= l /\ e[i] # d[i]
    BY DEF Trail
<1>4. e[i - 1] = d[i - 1]
    <2>1. i - 1 \in 0..k /\ i - 1 <= l /\ ~(i <= i - 1)
        BY <1>3
    <2>. QED BY <1>2, <2>1
<1>5. ElementAt(r, i) \in Recognizer
    BY <1>3, ElementsTyped
<1> DEFINE a == ElementAt(r, i)
<1>6. /\ e[i - 1] \in Nat /\ e[i] \in Nat /\ d[i] \in Nat
      /\ e[i - 1] <= e[i] /\ e[i - 1] <= d[i]
      /\ <<a, e[i - 1], e[i] - e[i - 1]>> \in U
      /\ <<a, e[i - 1], d[i] - e[i - 1]>> \in M
    <2>1. i - 1 \in 0..k /\ i \in 0..k /\ i \in 1..k /\ i - 1 \in 0..l /\ i \in 0..l /\ i \in 1..l
        BY <1>3
    <2>2. e \in [0..k -> Nat] /\ d \in [0..l -> Nat]
        BY DEF Trail
    <2>3. /\ e[i - 1] <= e[i] /\ <<a, e[i - 1], e[i] - e[i - 1]>> \in U
        BY <2>1 DEF Trail
    <2>4. /\ d[i - 1] <= d[i] /\ <<a, d[i - 1], d[i] - d[i - 1]>> \in M
        BY <2>1 DEF Trail
    <2>. QED BY <1>4, <2>1, <2>2, <2>3, <2>4
<1>7. e[i] - e[i - 1] \in Matched /\ d[i] - e[i - 1] \in Matched
    BY <1>6 DEF Matched
<1>8. e[i] - e[i - 1] = d[i] - e[i - 1]
    BY <1>5, <1>6, <1>7 DEF Sure
<1>. QED BY <1>3, <1>6, <1>8

(* Each rule gives one answer from answers that are sure: a sequence, where*)
(* the two trails go on alike until one of them stops ...                  *)
LEMMA OneInOrder ==
    ASSUME NEW U, NEW M, Sure(U, M), NEW r \in Recognizer, Shape[r].kind = "sequence",
           NEW p \in Nat, NEW n \in Matched, NEW m \in Matched,
           InOrder(U, r, p, n), InOrder(M, r, p, m)
    PROVE  n = m
<1> DEFINE es == Shape[r].elements
<1>1. PICK k \in 0..Len(es) : \E e \in [0..k -> Nat] :
         /\ Trail(U, r, p, k, e)
         /\ \/ k = Len(es) /\ n = e[k] - p
            \/ k < Len(es) /\ <<es[k + 1], e[k], NPos>> \in U /\ n = NPos
    BY DEF InOrder
<1>1a. PICK e \in [0..k -> Nat] :
         /\ Trail(U, r, p, k, e)
         /\ \/ k = Len(es) /\ n = e[k] - p
            \/ k < Len(es) /\ <<es[k + 1], e[k], NPos>> \in U /\ n = NPos
    BY <1>1
<1>2. PICK l \in 0..Len(es) : \E d \in [0..l -> Nat] :
         /\ Trail(M, r, p, l, d)
         /\ \/ l = Len(es) /\ m = d[l] - p
            \/ l < Len(es) /\ <<es[l + 1], d[l], NPos>> \in M /\ m = NPos
    BY DEF InOrder
<1>2a. PICK d \in [0..l -> Nat] :
         /\ Trail(M, r, p, l, d)
         /\ \/ l = Len(es) /\ m = d[l] - p
            \/ l < Len(es) /\ <<es[l + 1], d[l], NPos>> \in M /\ m = NPos
    BY <1>2
<1>0. Len(es) \in Nat /\ k \in Nat /\ l \in Nat /\ k <= Len(es)
    BY ElementsTyped
<1>b. Trail(U, r, p, k, e) /\ Trail(M, r, p, l, d)
    BY <1>1a, <1>2a
<1>3. \A i \in 0..k : i <= l => e[i] = d[i]
    <2>1. Shape[r].kind = "loop" \/ k <= Len(Shape[r].elements)
        BY <1>0
    <2>2. Agree(k, l, e, d)
        BY <1>0, <1>b, <2>1, TrailsAgree
    <2>. QED BY <2>2 DEF Agree
<1>c. NPos \in Matched /\ ~(NPos >= 0) /\ \A q \in Nat : q \in Matched
    BY DEF Matched, NPos
<1>t. /\ Len(es) \in Nat /\ k \in Nat /\ l \in Nat
      /\ \A i \in 1..Len(es) : es[i] \in Recognizer /\ ElementAt(r, i) = es[i]
      /\ NPos \in Matched /\ ~(NPos >= 0) /\ \A q \in Nat : q \in Matched
    BY <1>0, <1>c, ElementsTyped DEF ElementAt
<1>u. \A i \in 1..Len(es), q \in Nat : \A c \in Matched, f \in Matched :
         <<es[i], q, c>> \in U /\ <<es[i], q, f>> \in M => c = f
    BY <1>t DEF Sure
<1>4. CASE k = l
    <2>1. e[k] = d[k] /\ e[k] \in Nat
        BY <1>3, <1>4
    <2>2. CASE k = Len(es)
        BY <1>1a, <1>2a, <1>4, <2>1, <2>2
    <2>3. CASE k < Len(es)
        BY <1>1a, <1>2a, <1>4, <2>1, <2>3
    <2>. QED BY <1>1a, <2>2, <2>3
<1>5. CASE k < l
    <2>1. /\ k + 1 \in 1..Len(es) /\ k + 1 \in 1..l /\ (k + 1) - 1 = k
          /\ e[k] = d[k] /\ e[k] \in Nat /\ d[k + 1] \in Nat
          /\ <<es[k + 1], e[k], NPos>> \in U
        <3>1. k < Len(es)
            BY <1>5, <1>0
        <3>2. <<es[k + 1], e[k], NPos>> \in U
            BY <1>1a, <1>0, <3>1
        <3>. QED BY <1>3, <1>5, <1>0, <3>1, <3>2
    <2>2. d[k] <= d[k + 1] /\ <<es[k + 1], d[k], d[k + 1] - d[k]>> \in M
        BY <1>2a, <1>t, <2>1 DEF Trail
    <2>3. d[k + 1] - d[k] \in Nat
        BY <2>1, <2>2
    <2>. QED BY <1>t, <1>u, <2>1, <2>2, <2>3
<1>6. CASE l < k
    <2>1. /\ l + 1 \in 1..Len(es) /\ l + 1 \in 1..k /\ (l + 1) - 1 = l
          /\ e[l] = d[l] /\ e[l] \in Nat /\ e[l + 1] \in Nat
          /\ <<es[l + 1], d[l], NPos>> \in M
        BY <1>1a, <1>2a, <1>3, <1>6, <1>t
    <2>2. e[l] <= e[l + 1] /\ <<es[l + 1], e[l], e[l + 1] - e[l]>> \in U
        BY <1>1a, <1>t, <2>1 DEF Trail
    <2>3. e[l + 1] - e[l] \in Nat
        BY <2>1, <2>2
    <2>. QED BY <1>t, <1>u, <2>1, <2>2, <2>3
<1>. QED BY <1>4, <1>5, <1>6, <1>t

(* ... a loop, in the same way ...                                         *)
LEMMA OneRepeats ==
    ASSUME NEW U, NEW M, Sure(U, M), NEW s, NEW r \in Recognizer, Shape[r].kind = "loop",
           NEW p \in Nat, NEW n \in Matched, NEW m \in Matched,
           Repeats(U, s, r, p, n), Repeats(M, s, r, p, m)
    PROVE  n = m
<1> DEFINE a == Shape[r].elements[1]
<1>0. a \in Recognizer /\ \A i : ElementAt(r, i) = a
    BY ElementsTyped DEF ElementAt
<1>1. PICK k \in Nat : \E e \in [0..k -> Nat] :
         /\ Trail(U, r, p, k, e)
         /\ \A i \in 1..k : LoopGoesOn(r, i - 1, s, e[i - 1])
         /\ ~LoopGoesOn(r, k, s, e[k]) \/ <<a, e[k], NPos>> \in U
         /\ n = IF k < Shape[r].min THEN NPos ELSE e[k] - p
    BY <1>0 DEF Repeats
<1>1a. PICK e \in [0..k -> Nat] :
         /\ Trail(U, r, p, k, e)
         /\ \A i \in 1..k : LoopGoesOn(r, i - 1, s, e[i - 1])
         /\ ~LoopGoesOn(r, k, s, e[k]) \/ <<a, e[k], NPos>> \in U
         /\ n = IF k < Shape[r].min THEN NPos ELSE e[k] - p
    BY <1>1
<1>2. PICK l \in Nat : \E d \in [0..l -> Nat] :
         /\ Trail(M, r, p, l, d)
         /\ \A i \in 1..l : LoopGoesOn(r, i - 1, s, d[i - 1])
         /\ ~LoopGoesOn(r, l, s, d[l]) \/ <<a, d[l], NPos>> \in M
         /\ m = IF l < Shape[r].min THEN NPos ELSE d[l] - p
    BY <1>0 DEF Repeats
<1>2a. PICK d \in [0..l -> Nat] :
         /\ Trail(M, r, p, l, d)
         /\ \A i \in 1..l : LoopGoesOn(r, i - 1, s, d[i - 1])
         /\ ~LoopGoesOn(r, l, s, d[l]) \/ <<a, d[l], NPos>> \in M
         /\ m = IF l < Shape[r].min THEN NPos ELSE d[l] - p
    BY <1>2
<1>3. \A i \in 0..k : i <= l => e[i] = d[i]
    <2>1. Trail(U, r, p, k, e) /\ Trail(M, r, p, l, d)
        BY <1>1a, <1>2a
    <2>2. Shape[r].kind = "loop" \/ k <= Len(Shape[r].elements)
        OBVIOUS
    <2>3. Agree(k, l, e, d)
        BY <2>1, <2>2, TrailsAgree
    <2>. QED BY <2>3 DEF Agree
<1>t. NPos \in Matched /\ ~(NPos \in Nat) /\ \A q \in Nat : q \in Matched
    BY DEF Matched, NPos
<1>4. CASE k = l
    BY <1>1a, <1>2a, <1>3, <1>4
<1>5. CASE k < l
    <2>1. /\ k + 1 \in 1..l /\ (k + 1) - 1 = k
          /\ e[k] = d[k] /\ e[k] \in Nat /\ d[k + 1] \in Nat
        BY <1>3, <1>5
    <2>2. d[k] <= d[k + 1] /\ <<a, d[k], d[k + 1] - d[k]>> \in M
        BY <1>0, <1>2a, <2>1 DEF Trail
    <2>3. d[k + 1] - d[k] \in Nat
        BY <2>1, <2>2
    <2>4. LoopGoesOn(r, k, s, e[k])
        BY <1>2a, <2>1
    <2>5. <<a, d[k], NPos>> \in U
        BY <1>1a, <2>1, <2>4
    <2>. QED BY <1>0, <1>t, <2>1, <2>2, <2>3, <2>5 DEF Sure
<1>6. CASE l < k
    <2>1. /\ l + 1 \in 1..k /\ (l + 1) - 1 = l
          /\ e[l] = d[l] /\ e[l] \in Nat /\ e[l + 1] \in Nat
        BY <1>3, <1>6
    <2>2. e[l] <= e[l + 1] /\ <<a, e[l], e[l + 1] - e[l]>> \in U
        BY <1>0, <1>1a, <2>1 DEF Trail
    <2>3. e[l + 1] - e[l] \in Nat
        BY <2>1, <2>2
    <2>4. LoopGoesOn(r, l, s, d[l])
        BY <1>1a, <2>1
    <2>5. <<a, e[l], NPos>> \in M
        BY <1>2a, <2>1, <2>4
    <2>. QED BY <1>0, <1>t, <2>1, <2>2, <2>3, <2>5 DEF Sure
<1>. QED BY <1>4, <1>5, <1>6

(* ... an exclusive selector, that takes the first alternative ...         *)
LEMMA OneFirst ==
    ASSUME NEW U, NEW M, Sure(U, M), NEW r \in Recognizer,
           NEW p \in Nat, NEW n \in Matched, NEW m \in Matched,
           FirstOf(U, r, p, n), FirstOf(M, r, p, m)
    PROVE  n = m
<1> DEFINE es == Shape[r].elements
<1>t. /\ Len(es) \in Nat /\ \A i \in 1..Len(es) : es[i] \in Recognizer
      /\ NPos \in Matched /\ 0 \in Matched /\ ~(NPos > 0)
    BY ElementsTyped DEF Matched, NPos
<1>u. \A i \in 1..Len(es) : \A c \in Matched, f \in Matched :
         <<es[i], p, c>> \in U /\ <<es[i], p, f>> \in M => c = f
    BY <1>t DEF Sure
<1>1. \/ n = NPos /\ Refused(U, r, p, Len(es))
      \/ n > 0 /\ \E i \in 1..Len(es) : Refused(U, r, p, i - 1) /\ <<es[i], p, n>> \in U
    BY DEF FirstOf
<1>2. \/ m = NPos /\ Refused(M, r, p, Len(es))
      \/ m > 0 /\ \E i \in 1..Len(es) : Refused(M, r, p, i - 1) /\ <<es[i], p, m>> \in M
    BY DEF FirstOf
<1>3. \A k \in 0..Len(es) : Refused(U, r, p, k) =>
         \A i \in 1..k : \A c \in Matched : <<es[i], p, c>> \in M => ~(c > 0)
    <2>1. ASSUME NEW k \in 0..Len(es), Refused(U, r, p, k), NEW i \in 1..k, NEW c \in Matched,
                 <<es[i], p, c>> \in M
          PROVE  ~(c > 0)
        <3>1. i \in 1..Len(es)
            BY <1>t
        <3>2. PICK q \in {NPos, 0} : <<es[i], p, q>> \in U
            BY <2>1 DEF Refused
        <3>3. q = c
            BY <1>t, <1>u, <2>1, <3>1, <3>2
        <3>. QED BY <1>t, <3>2, <3>3
    <2>. QED BY <2>1
<1>4. \A k \in 0..Len(es) : Refused(M, r, p, k) =>
         \A i \in 1..k : \A c \in Matched : <<es[i], p, c>> \in U => ~(c > 0)
    <2>1. ASSUME NEW k \in 0..Len(es), Refused(M, r, p, k), NEW i \in 1..k, NEW c \in Matched,
                 <<es[i], p, c>> \in U
          PROVE  ~(c > 0)
        <3>1. i \in 1..Len(es)
            BY <1>t
        <3>2. PICK q \in {NPos, 0} : <<es[i], p, q>> \in M
            BY <2>1 DEF Refused
        <3>3. c = q
            BY <1>t, <1>u, <2>1, <3>1, <3>2
        <3>. QED BY <1>t, <3>2, <3>3
    <2>. QED BY <2>1
<1>5. ASSUME n > 0, m > 0 PROVE n = m
    <2>1. PICK i \in 1..Len(es) : Refused(U, r, p, i - 1) /\ <<es[i], p, n>> \in U
        BY <1>1, <1>5, <1>t
    <2>2. PICK j \in 1..Len(es) : Refused(M, r, p, j - 1) /\ <<es[j], p, m>> \in M
        BY <1>2, <1>5, <1>t
    <2>3. i - 1 \in 0..Len(es) /\ j - 1 \in 0..Len(es)
        BY <1>t
    <2>4. ~(j < i)
        BY <1>3, <1>5, <1>t, <2>1, <2>2, <2>3
    <2>5. ~(i < j)
        BY <1>4, <1>5, <1>t, <2>1, <2>2, <2>3
    <2>6. i = j
        BY <2>4, <2>5
    <2>. QED BY <1>u, <2>1, <2>2, <2>6
<1>6. n = NPos => ~(m > 0)
    <2> SUFFICES ASSUME n = NPos, m > 0 PROVE FALSE
        OBVIOUS
    <2>1. Refused(U, r, p, Len(es))
        BY <1>1, <1>t
    <2>2. PICK j \in 1..Len(es) : <<es[j], p, m>> \in M
        BY <1>2, <1>t
    <2>. QED BY <1>3, <1>t, <2>1, <2>2
<1>7. m = NPos => ~(n > 0)
    <2> SUFFICES ASSUME m = NPos, n > 0 PROVE FALSE
        OBVIOUS
    <2>1. Refused(M, r, p, Len(es))
        BY <1>2, <1>t
    <2>2. PICK j \in 1..Len(es) : <<es[j], p, n>> \in U
        BY <1>1, <1>t
    <2>. QED BY <1>4, <1>t, <2>1, <2>2
<1>. QED BY <1>1, <1>2, <1>5, <1>6, <1>7

(* ... and a selector, that takes the longest.                             *)
LEMMA OneLongest ==
    ASSUME NEW U, NEW M, Sure(U, M), NEW r \in Recognizer,
           NEW p \in Nat, NEW n \in Matched, NEW m \in Matched,
           Longest(U, r, p, Len(Shape[r].elements), n),
           Longest(M, r, p, Len(Shape[r].elements), m)
    PROVE  n = m
<1> DEFINE es == Shape[r].elements
<1>t. /\ Len(es) \in Nat /\ \A i \in 1..Len(es) : es[i] \in Recognizer
      /\ \A c \in Matched : NPos <= c /\ c \in Int
    BY ElementsTyped DEF Matched, NPos
<1>1. PICK a \in [1..Len(es) -> Matched] :
         /\ \A i \in 1..Len(es) : <<es[i], p, a[i]>> \in U /\ a[i] <= n
         /\ n = NPos \/ \E i \in 1..Len(es) : n = a[i]
    BY DEF Longest
<1>2. PICK b \in [1..Len(es) -> Matched] :
         /\ \A i \in 1..Len(es) : <<es[i], p, b[i]>> \in M /\ b[i] <= m
         /\ m = NPos \/ \E i \in 1..Len(es) : m = b[i]
    BY DEF Longest
<1>3. \A i \in 1..Len(es) : a[i] = b[i]
    <2>1. ASSUME NEW i \in 1..Len(es) PROVE a[i] = b[i]
        <3>1. es[i] \in Recognizer /\ a[i] \in Matched /\ b[i] \in Matched
            BY <1>t
        <3>2. <<es[i], p, a[i]>> \in U /\ <<es[i], p, b[i]>> \in M
            BY <1>1, <1>2
        <3>. QED BY <3>1, <3>2 DEF Sure
    <2>. QED BY <2>1
<1>4. n <= m
    BY <1>1, <1>2, <1>3, <1>t
<1>5. m <= n
    BY <1>1, <1>2, <1>3, <1>t
<1>. QED BY <1>4, <1>5, <1>t

(* What follows from sure answers is sure.                                 *)
LEMMA FollowsOnce ==
    ASSUME NEW U, NEW M, Sure(U, M), NEW s, NEW r \in Recognizer,
           NEW p \in Nat, NEW n \in Matched, NEW m \in Matched,
           Follows(U, s, r, p, n), Follows(M, s, r, p, m)
    PROVE  n = m
<1>1. CASE Shape[r].kind = "text"
    BY <1>1 DEF Follows
<1>2. CASE Shape[r].kind = "delegate"
    BY <1>2, ElementsTyped DEF Follows, Sure
<1>3. CASE Shape[r].kind = "sequence"
    BY <1>3, OneInOrder DEF Follows
<1>4. CASE Shape[r].kind = "loop"
    BY <1>4, OneRepeats DEF Follows
<1>5. CASE Shape[r].kind = "exclusive"
    BY <1>5, OneFirst DEF Follows
<1>6. CASE Shape[r].kind = "selector"
    BY <1>6, OneLongest DEF Follows
<1>7. Shape[r].kind \in Kind
    BY ElementsTyped
<1>. QED BY <1>1, <1>2, <1>3, <1>4, <1>5, <1>6, <1>7 DEF Kind

(* A recognizer has one answer at a place of an input, if it has any: what *)
(* feed() is to answer leaves no choice, for any grammar, so that no two   *)
(* parses, and no order of their steps, can differ in it.                  *)
THEOREM MeantOnce ==
    ASSUME NEW s, NEW r \in Recognizer, NEW p \in Nat, NEW n \in Matched, NEW m \in Matched,
           <<r, p, n>> \in Meant(s), <<r, p, m>> \in Meant(s)
    PROVE  n = m
<1> DEFINE M == Meant(s)
           U == {x \in M : \A c \in Matched : <<x[1], x[2], c>> \in M => c = x[3]}
<1>0. M \subseteq Judgement
    BY DEF Meant
<1>1. \A a \in Recognizer, b \in Nat, c \in Matched :
         <<a, b, c>> \in U <=> <<a, b, c>> \in M /\ \A f \in Matched : <<a, b, f>> \in M => f = c
    OBVIOUS
<1>2. U \subseteq M
    OBVIOUS
<1>3. Closed(M, s)
    BY MeantCloses
<1>4. \A a \in Recognizer, b \in Nat, c \in Matched : <<a, b, c>> \in M => Follows(M, s, a, b, c)
    BY MeantFollows
<1>5. \A S \in SUBSET Judgement : Closed(S, s) => M \subseteq S
    BY DEF Meant
<1> HIDE DEF M, U
<1>6. Sure(U, M)
    BY <1>1 DEF Sure
<1>7. Closed(U, s)
    <2>1. ASSUME NEW a \in Recognizer, NEW b \in Nat, NEW c \in Matched, Follows(U, s, a, b, c)
          PROVE  <<a, b, c>> \in U
        <3>1. Follows(M, s, a, b, c)
            BY <1>2, <2>1, FollowsMore
        <3>2. <<a, b, c>> \in M
            BY <1>3, <3>1 DEF Closed
        <3>3. ASSUME NEW f \in Matched, <<a, b, f>> \in M PROVE f = c
            <4>1. Follows(M, s, a, b, f)
                BY <1>4, <3>3
            <4>. QED BY <1>6, <2>1, <4>1, FollowsOnce
        <3>. QED BY <1>1, <3>2, <3>3
    <2>. QED BY <2>1 DEF Closed
<1>8. M \subseteq U
    <2>1. U \in SUBSET Judgement
        BY <1>0, <1>2
    <2>. QED BY <1>5, <1>7, <2>1
<1>9. <<r, p, n>> \in M /\ <<r, p, m>> \in M
    BY DEF M
<1>. QED BY <1>1, <1>8, <1>9

(* What an activation has done of its _feed(), with the answers it was     *)
(* given, all in M.  An unbounded loop counts up to min.                   *)
Counted(r, k) == IF Shape[r].max = Unbounded /\ k > Shape[r].min THEN Shape[r].min ELSE k

Along(M, f, k, ends) ==
    /\ Trail(M, f.rec, f.begin, k, ends)
    /\ f.pos = ends[k]
    /\ f.total = ends[k] - f.begin

Arrived(M, s, f) ==
    CASE Shape[f.rec].kind \in {"text", "delegate"} -> f.pos = f.begin
      [] Shape[f.rec].kind = "sequence" ->
            /\ f.index <= Len(Elements(f))
            /\ \E ends \in [0..f.index -> Nat] : Along(M, f, f.index, ends)
      [] Shape[f.rec].kind = "loop" ->
            \E k \in Nat : \E ends \in [0..k -> Nat] :
               /\ Along(M, f, k, ends)
               /\ f.index = Counted(f.rec, k)
               /\ \A i \in 1..k : LoopGoesOn(f.rec, i - 1, s, ends[i - 1])
      [] Shape[f.rec].kind = "exclusive" ->
            /\ f.pos = f.begin
            /\ f.index <= Len(Elements(f))
            /\ Refused(M, f.rec, f.begin, f.index)
      [] Shape[f.rec].kind = "selector" ->
            /\ f.pos = f.begin
            /\ f.index <= Len(Elements(f))
            /\ Longest(M, f.rec, f.begin, f.index, f.best)

(* It waits for the answer of r at the place p.                            *)
Asks(s, f, r, p) ==
    /\ f.phase = "fed"
    /\ p = f.pos
    /\ CASE Shape[f.rec].kind \in {"loop", "delegate"} -> r = Elements(f)[1]
         [] Shape[f.rec].kind \in {"sequence", "exclusive", "selector"} ->
               MoreElements(f) /\ r = Elements(f)[f.index + 1]
         [] Shape[f.rec].kind = "text" -> FALSE
    /\ Shape[f.rec].kind = "loop" => LoopGoesOn(f.rec, f.index, s, f.pos)

Waits(M, s, f, r, p) == Arrived(M, s, f) /\ Asks(s, f, r, p)

(* The innermost activation.                                               *)
Goes(M, s, f) ==
    CASE f.phase = "begin" -> f.pos = f.begin /\ f.index = 0 /\ f.total = 0 /\ f.best = NPos
      [] f.phase = "feed"  -> Arrived(M, s, f)
      [] f.phase = "fed"   -> \E r \in Recognizer, p \in Nat :
                                 Waits(M, s, f, r, p) /\ <<r, p, f.matched>> \in M
      [] f.phase = "end"   -> <<f.rec, f.begin, f.matched>> \in M

(* The activations below wait each for the next, the last one for r at p,  *)
(* and parseInput() for the rule it was called with.                       *)
NextRec(P, r, i)   == IF i < Len(P) THEN P[i + 1].rec ELSE r
NextPlace(P, p, i) == IF i < Len(P) THEN P[i + 1].begin ELSE p

Chain(M, s, rule, P, r, p) ==
    /\ NextRec(P, r, 0) = rule /\ NextPlace(P, p, 0) = 0
    /\ \A i \in 1..Len(P) : Waits(M, s, P[i], NextRec(P, r, i), NextPlace(P, p, i))

Answering(M, s, rule, F) ==
    /\ Chain(M, s, rule, Front(F), Last(F).rec, Last(F).begin)
    /\ Goes(M, s, Last(F))

----------------------------------------------------------------------------
(* An answer that follows from answers of a closed set is in it.           *)
LEMMA AnswersClose ==
    ASSUME NEW s, NEW M, Closed(M, s), NEW r \in Recognizer, NEW p \in Nat, NEW n \in Matched,
           Follows(M, s, r, p, n)
    PROVE  <<r, p, n>> \in M
  BY DEF Closed

(* A chain of no activation, and of one more.                              *)
LEMMA ChainEmpty ==
    ASSUME NEW M, NEW s, NEW rule, NEW r, NEW p
    PROVE  Chain(M, s, rule, <<>>, r, p) <=> r = rule /\ p = 0
  <1>1. Len(<<>>) = 0
    OBVIOUS
  <1>2. QED
    BY <1>1 DEF Chain, NextRec, NextPlace

LEMMA ChainAppend ==
    ASSUME NEW n \in Nat, NEW P \in Seq(Frame(n)), NEW f \in Frame(n),
           NEW M, NEW s, NEW rule, NEW r, NEW p
    PROVE  Chain(M, s, rule, Append(P, f), r, p) <=>
              Chain(M, s, rule, P, f.rec, f.begin) /\ Waits(M, s, f, r, p)
  <1> DEFINE W == Append(P, f)
             l == Len(P)
  <1>1. /\ l \in Nat /\ Len(W) = l + 1 /\ W[l + 1] = f
        /\ \A i \in 1..l : W[i] = P[i]
    BY AppendProperties, LenProperties
  <1> HIDE DEF W
  <1>2. /\ \A i \in 0..l : NextRec(W, r, i) = NextRec(P, f.rec, i)
        /\ \A i \in 0..l : NextPlace(W, p, i) = NextPlace(P, f.begin, i)
        /\ NextRec(W, r, l + 1) = r /\ NextPlace(W, p, l + 1) = p
    <2>1. ASSUME NEW i \in 0..l
          PROVE  NextRec(W, r, i) = NextRec(P, f.rec, i)
                 /\ NextPlace(W, p, i) = NextPlace(P, f.begin, i)
      <3>1. CASE i < l
        <4>1. i + 1 \in 1..l
          BY <1>1, <3>1
        <4>2. W[i + 1] = P[i + 1]
          BY <1>1, <4>1
        <4>3. i < Len(W)
          BY <1>1, <3>1
        <4>4. QED
          BY <3>1, <4>2, <4>3 DEF NextRec, NextPlace
      <3>2. CASE i = l
        <4>1. i < Len(W) /\ ~(i < l) /\ W[i + 1] = f
          BY <1>1, <3>2
        <4>2. QED
          BY <4>1 DEF NextRec, NextPlace
      <3>3. QED
        BY <1>1, <3>1, <3>2
    <2>2. NextRec(W, r, l + 1) = r /\ NextPlace(W, p, l + 1) = p
      BY <1>1 DEF NextRec, NextPlace
    <2>3. QED
      BY <2>1, <2>2
  <1> DEFINE Here(i)  == Waits(M, s, W[i], NextRec(W, r, i), NextPlace(W, p, i))
             Below(i) == Waits(M, s, P[i], NextRec(P, f.rec, i), NextPlace(P, f.begin, i))
  <1>3. \A i \in 1..l : Here(i) <=> Below(i)
    <2>1. ASSUME NEW i \in 1..l PROVE Here(i) <=> Below(i)
      <3>1. /\ W[i] = P[i] /\ i \in 0..l
        BY <1>1
      <3>2. /\ NextRec(W, r, i) = NextRec(P, f.rec, i)
            /\ NextPlace(W, p, i) = NextPlace(P, f.begin, i)
        BY <1>2, <3>1
      <3>3. QED
        BY <3>1, <3>2
    <2>2. QED
      BY <2>1
  <1>4. Here(l + 1) <=> Waits(M, s, f, r, p)
    BY <1>1, <1>2
  <1>5. Chain(M, s, rule, W, r, p) <=>
           /\ NextRec(W, r, 0) = rule /\ NextPlace(W, p, 0) = 0
           /\ \A i \in 1..(l + 1) : Here(i)
    BY <1>1 DEF Chain
  <1>6. Chain(M, s, rule, P, f.rec, f.begin) <=>
           /\ NextRec(P, f.rec, 0) = rule /\ NextPlace(P, f.begin, 0) = 0
           /\ \A i \in 1..l : Below(i)
    BY DEF Chain
  <1>7. NextRec(W, r, 0) = NextRec(P, f.rec, 0) /\ NextPlace(W, p, 0) = NextPlace(P, f.begin, 0)
    BY <1>1, <1>2
  <1> HIDE DEF Here, Below
  <1>8. (\A i \in 1..(l + 1) : Here(i)) <=> (\A i \in 1..l : Below(i)) /\ Here(l + 1)
    BY <1>1, <1>3
  <1>9. QED
    BY <1>4, <1>5, <1>6, <1>7, <1>8 DEF W

(* The three ways the activations of a thread change.                      *)
LEMMA GoneOn ==
    ASSUME NEW n \in Nat, NEW F \in Seq(Frame(n)), F # <<>>, NEW g \in Frame(n),
           NEW M, NEW s, NEW rule, Answering(M, s, rule, F),
           g.rec = Last(F).rec, g.begin = Last(F).begin, Goes(M, s, g)
    PROVE  Answering(M, s, rule, Append(Front(F), g))
  <1>1. Front(F) \in Seq(Frame(n))
    BY EndsOfSequence
  <1>2. Front(Append(Front(F), g)) = Front(F) /\ Last(Append(Front(F), g)) = g
    BY <1>1, AppendEnds
  <1>3. QED
    BY <1>2 DEF Answering

LEMMA Called ==
    ASSUME NEW n \in Nat, NEW F \in Seq(Frame(n)), F # <<>>, NEW g \in Frame(n),
           NEW e \in Recognizer,
           NEW M, NEW s, NEW rule, Answering(M, s, rule, F),
           g.rec = Last(F).rec, g.begin = Last(F).begin, Waits(M, s, g, e, g.pos)
    PROVE  Answering(M, s, rule, Front(F) \o <<g, Activation(e, g.pos)>>)
  <1> DEFINE P == Front(F)
             a == Activation(e, g.pos)
  <1>1. P \in Seq(Frame(n)) /\ Chain(M, s, rule, P, g.rec, g.begin)
    BY EndsOfSequence DEF Answering
  <1>2. a \in Frame(n) /\ a.rec = e /\ a.begin = g.pos /\ Goes(M, s, a)
    <2>1. g.pos \in Nat
      BY DEF Frame
    <2>2. a \in Frame(n)
      BY <2>1, ActivationTyped
    <2>3. QED
      BY <2>2 DEF Activation, Goes
  <1> HIDE DEF P, a
  <1>3. P \o <<g, a>> = Append(Append(P, g), a)
    BY <1>1, <1>2, AppendTwo
  <1>4. Append(P, g) \in Seq(Frame(n))
    BY <1>1, AppendTyped
  <1>5. Front(P \o <<g, a>>) = Append(P, g) /\ Last(P \o <<g, a>>) = a
    BY <1>2, <1>3, <1>4, AppendEnds
  <1>6. Chain(M, s, rule, Append(P, g), e, g.pos)
    BY <1>1, ChainAppend
  <1>7. QED
    BY <1>2, <1>5, <1>6 DEF Answering, P, a

LEMMA Returned ==
    ASSUME NEW n \in Nat, NEW F \in Seq(Frame(n)), F # <<>>, Front(F) # <<>>,
           NEW M, NEW s, NEW rule, Answering(M, s, rule, F), Last(F).phase = "end"
    PROVE  Answering(M, s, rule, Append(Front(Front(F)),
                                        [Last(Front(F)) EXCEPT !.matched = Last(F).matched]))
  <1> DEFINE P == Front(F)
             f == Last(F)
             Q == Front(P)
             g == Last(P)
             h == [g EXCEPT !.matched = f.matched]
  <1>1. P \in Seq(Frame(n)) /\ f \in Frame(n)
    BY EndsOfSequence
  <1>2. Chain(M, s, rule, P, f.rec, f.begin) /\ <<f.rec, f.begin, f.matched>> \in M
    BY DEF Answering, Goes
  <1>3. Q \in Seq(Frame(n)) /\ g \in Frame(n) /\ P = Append(Q, g)
    BY <1>1, EndsAppend
  <1>4. f.rec \in Recognizer /\ f.begin \in Nat /\ f.matched \in Matched
    BY <1>1 DEF Frame
  <1>5. /\ h \in Frame(n) /\ h.matched = f.matched /\ h.rec = g.rec /\ h.begin = g.begin
        /\ h.phase = g.phase /\ h.pos = g.pos /\ h.index = g.index /\ h.total = g.total
        /\ h.best = g.best
    BY <1>3, <1>4 DEF Frame
  <1> HIDE DEF P, f, Q, g, h
  <1>6. Chain(M, s, rule, Q, g.rec, g.begin) /\ Waits(M, s, g, f.rec, f.begin)
    BY <1>2, <1>3, ChainAppend
  <1>7. Waits(M, s, h, f.rec, f.begin)
    <2>1. Arrived(M, s, g) <=> Arrived(M, s, h)
      BY <1>5 DEF Arrived, Along, Elements
    <2>2. Asks(s, g, f.rec, f.begin) <=> Asks(s, h, f.rec, f.begin)
      BY <1>5 DEF Asks, Elements, MoreElements
    <2>3. QED
      BY <1>6, <2>1, <2>2 DEF Waits
  <1>8. Goes(M, s, h)
    <2>1. h.phase = "fed"
      BY <1>7 DEF Waits, Asks
    <2>2. QED
      BY <1>2, <1>4, <1>5, <1>7, <2>1 DEF Goes
  <1>9. Front(Append(Q, h)) = Q /\ Last(Append(Q, h)) = h
    BY <1>3, <1>5, AppendEnds
  <1>10. Answering(M, s, rule, Append(Q, h))
    BY <1>5, <1>6, <1>8, <1>9 DEF Answering
  <1>11. QED
    BY <1>10 DEF P, f, Q, g, h

(* The outermost feed() has answered.                                      *)
LEMMA Outermost ==
    ASSUME NEW n \in Nat, NEW F \in Seq(Frame(n)), F # <<>>, Front(F) = <<>>,
           NEW M, NEW s, NEW rule, Answering(M, s, rule, F), Last(F).phase = "end"
    PROVE  <<rule, 0, Last(F).matched>> \in M
  <1>1. Chain(M, s, rule, <<>>, Last(F).rec, Last(F).begin)
    BY DEF Answering
  <1>2. Last(F).rec = rule /\ Last(F).begin = 0
    BY <1>1, ChainEmpty
  <1>3. QED
    BY <1>2 DEF Answering, Goes

(* What an activation has done is not in its phase, nor in its contexts.   *)
Alike(f, g) ==
    /\ g.rec = f.rec /\ g.begin = f.begin /\ g.pos = f.pos
    /\ g.index = f.index /\ g.total = f.total /\ g.best = f.best

(* So it has arrived where it was when these change.                       *)
LEMMA ArrivedAlike ==
    ASSUME NEW M, NEW s, NEW f, NEW g, Alike(f, g), Arrived(M, s, f)
    PROVE  Arrived(M, s, g)
  BY DEF Alike, Arrived, Along, Elements

(* The types of what an activation has, and of the recognizer it is of.    *)
LEMMA FrameFields ==
    ASSUME NEW n \in Nat, NEW f \in Frame(n)
    PROVE  /\ f.rec \in Recognizer /\ f.begin \in Nat /\ f.pos \in Nat /\ f.index \in Nat
           /\ f.total \in Nat /\ f.matched \in Matched /\ f.best \in Matched
           /\ Shape[f.rec].kind \in Kind /\ Len(Elements(f)) \in Nat
           /\ \A i \in 1..Len(Elements(f)) : Elements(f)[i] \in Recognizer
           /\ Shape[f.rec].kind \in {"loop", "delegate"} => Elements(f)[1] \in Recognizer
           /\ Shape[f.rec].min \in Nat
  BY ElementsTyped DEF Frame, Elements

LEMMA AnswerFields ==
    ASSUME NEW n \in Nat, NEW f \in Frame(n), NEW m \in Matched
    PROVE  /\ Answer(f, m).rec = f.rec /\ Answer(f, m).begin = f.begin
           /\ Answer(f, m).phase = "end" /\ Answer(f, m).matched = m
           /\ \A M, s : Goes(M, s, Answer(f, m)) <=> <<f.rec, f.begin, m>> \in M
  <1> DEFINE g == Answer(f, m)
  <1>1. /\ g.rec = f.rec /\ g.begin = f.begin /\ g.phase = "end" /\ g.matched = m
    BY DEF Answer, Frame
  <1> HIDE DEF g
  <1>2. \A M, s : Goes(M, s, g) <=> <<f.rec, f.begin, m>> \in M
    BY <1>1 DEF Goes
  <1>3. QED
    BY <1>1, <1>2 DEF g

(* An activation that calls feed().                                        *)
LEMMA CallWaits ==
    ASSUME NEW n \in Nat, NEW f \in Frame(n), NEW M, NEW s, Arrived(M, s, f),
           NEW e, Asks(s, [f EXCEPT !.phase = "fed"], e, f.pos)
    PROVE  LET g == [f EXCEPT !.phase = "fed"]
           IN  /\ g \in Frame(n) /\ g.rec = f.rec /\ g.begin = f.begin /\ g.pos = f.pos
               /\ Waits(M, s, g, e, g.pos)
  <1> DEFINE g == [f EXCEPT !.phase = "fed"]
  <1>1. /\ g \in Frame(n) /\ Alike(f, g) /\ g.phase = "fed"
    BY DEF Frame, Alike, Phase
  <1> HIDE DEF g
  <1>2. Arrived(M, s, g)
    BY <1>1, ArrivedAlike
  <1>3. Asks(s, g, e, g.pos)
    BY <1>1 DEF Alike, g
  <1>4. QED
    BY <1>1, <1>2, <1>3 DEF Waits, Alike, g

(* At its begin it has arrived nowhere yet, which is a trail of no element.*)
LEMMA BeginArrived ==
    ASSUME NEW n \in Nat, NEW f \in Frame(n), NEW M, NEW s,
           f.phase = "begin", Goes(M, s, f)
    PROVE  Arrived(M, s, f)
  <1>1. f.pos = f.begin /\ f.index = 0 /\ f.total = 0 /\ f.best = NPos
    BY DEF Goes
  <1> DEFINE e == [i \in 0..0 |-> f.begin]
  <1>2. f.begin \in Nat /\ Len(Elements(f)) \in Nat /\ Shape[f.rec].kind \in Kind
        /\ Shape[f.rec].min \in Nat
    BY FrameFields
  <1>3. e \in [0..0 -> Nat] /\ e[0] = f.begin
    BY <1>2
  <1> HIDE DEF e
  <1>4. Along(M, f, 0, e)
    BY <1>1, <1>2, <1>3 DEF Along, Trail
  <1>5. 0 <= Len(Elements(f)) /\ f.index <= Len(Elements(f))
    BY <1>1, <1>2
  <1>6. Refused(M, f.rec, f.begin, f.index)
    BY <1>1 DEF Refused
  <1>7. Longest(M, f.rec, f.begin, f.index, f.best)
    <2> DEFINE m == [i \in 1..0 |-> 0]
    <2>1. m \in [1..0 -> Matched]
      BY DEF Matched
    <2>2. \A i \in 1..0 : <<Shape[f.rec].elements[i], f.begin, m[i]>> \in M /\ m[i] <= NPos
      OBVIOUS
    <2> HIDE DEF m
    <2>3. QED
      BY <1>1, <2>1, <2>2 DEF Longest
  <1>8. Counted(f.rec, 0) = 0
    BY <1>2 DEF Counted
  <1>9. CASE Shape[f.rec].kind \in {"text", "delegate"}
    BY <1>1, <1>9 DEF Arrived
  <1>10. CASE Shape[f.rec].kind = "sequence"
    BY <1>1, <1>3, <1>4, <1>5, <1>10 DEF Arrived
  <1>11. CASE Shape[f.rec].kind = "loop"
    <2>1. 0 \in Nat /\ \A i \in 1..0 : LoopGoesOn(f.rec, i - 1, s, e[i - 1])
      OBVIOUS
    <2>2. QED
      BY <1>1, <1>3, <1>4, <1>8, <1>11, <2>1 DEF Arrived
  <1>12. CASE Shape[f.rec].kind \in {"exclusive", "selector"}
    BY <1>1, <1>5, <1>6, <1>7, <1>12 DEF Arrived
  <1>13. QED
    BY <1>2, <1>9, <1>10, <1>11, <1>12 DEF Kind

(* A trail with one answer more, and an activation after one answer more.  *)
Longer(M, r, p, k, e, m) ==
    \E d \in [0..(k + 1) -> Nat] :
       /\ Trail(M, r, p, k + 1, d)
       /\ d[k + 1] = e[k] + m
       /\ \A i \in 0..k : d[i] = e[i]

Further(M, g, k, e) ==
    \E d \in [0..(k + 1) -> Nat] : Along(M, g, k + 1, d) /\ \A i \in 0..k : d[i] = e[i]

(* An answer of the next element makes a trail longer ...                  *)
LEMMA TrailMore ==
    ASSUME NEW M, NEW r, NEW p, NEW k \in Nat, NEW e \in [0..k -> Nat],
           Trail(M, r, p, k, e), NEW m \in Nat, <<ElementAt(r, k + 1), e[k], m>> \in M
    PROVE  Longer(M, r, p, k, e, m)
  <1> DEFINE d == [i \in 0..(k + 1) |-> IF i = k + 1 THEN e[k] + m ELSE e[i]]
  <1>1. e[k] \in Nat /\ e[k] + m \in Nat
    OBVIOUS
  <1>2. /\ d \in [0..(k + 1) -> Nat] /\ d[k + 1] = e[k] + m
        /\ \A i \in 0..k : d[i] = e[i]
    <2>1. \A i \in 0..k : i \in 0..(k + 1) /\ i # k + 1
      OBVIOUS
    <2>2. \A i \in 0..(k + 1) : i = k + 1 \/ i \in 0..k
      OBVIOUS
    <2>3. QED
      BY <1>1, <2>1, <2>2
  <1> HIDE DEF d
  <1>3. d[0] = p
    BY <1>2 DEF Trail
  <1>4. ASSUME NEW i \in 1..(k + 1)
        PROVE  d[i - 1] <= d[i] /\ <<ElementAt(r, i), d[i - 1], d[i] - d[i - 1]>> \in M
    <2>1. CASE i = k + 1
      <3>1. d[i - 1] = e[k] /\ d[i] = e[k] + m /\ i - 1 = k
        BY <1>2, <2>1
      <3>2. d[i] - d[i - 1] = m /\ d[i - 1] <= d[i]
        BY <1>1, <3>1
      <3>3. QED
        BY <2>1, <3>1, <3>2
    <2>2. CASE i # k + 1
      <3>1. i \in 1..k /\ i - 1 \in 0..k /\ i \in 0..k
        BY <2>2
      <3>2. d[i - 1] = e[i - 1] /\ d[i] = e[i]
        BY <1>2, <3>1
      <3>3. QED
        BY <3>1, <3>2 DEF Trail
    <2>3. QED
      BY <2>1, <2>2
  <1>5. Trail(M, r, p, k + 1, d)
    BY <1>2, <1>3, <1>4 DEF Trail
  <1>6. QED
    BY <1>2, <1>5 DEF Longer

(* ... and brings the activation further.                                  *)
LEMMA AlongMore ==
    ASSUME NEW n \in Nat, NEW f \in Frame(n), NEW g, NEW M, NEW k \in Nat,
           NEW e \in [0..k -> Nat], Along(M, f, k, e), f.matched \in Nat,
           <<ElementAt(f.rec, k + 1), f.pos, f.matched>> \in M,
           g.rec = f.rec, g.begin = f.begin, g.pos = f.pos + f.matched,
           g.total = f.total + f.matched
    PROVE  Further(M, g, k, e)
  <1>1. /\ Trail(M, f.rec, f.begin, k, e) /\ f.pos = e[k]
        /\ f.total = e[k] - f.begin
    BY DEF Along
  <1>2. f.begin \in Nat /\ e[k] \in Nat
    BY FrameFields
  <1> DEFINE r == f.rec
             p == f.begin
             m == f.matched
  <1>3. m \in Nat /\ Trail(M, r, p, k, e) /\ <<ElementAt(r, k + 1), e[k], m>> \in M
    BY <1>1
  <1> HIDE DEF r, p, m
  <1>a. Longer(M, r, p, k, e, m)
    BY <1>3, TrailMore
  <1>4. PICK d \in [0..(k + 1) -> Nat] :
           /\ Trail(M, r, p, k + 1, d)
           /\ d[k + 1] = e[k] + m
           /\ \A i \in 0..k : d[i] = e[i]
    BY <1>a DEF Longer
  <1>5. d[k + 1] - f.begin = f.total + m
    BY <1>1, <1>2, <1>3, <1>4
  <1>6. Along(M, g, k + 1, d)
    BY <1>1, <1>4, <1>5 DEF Along, r, p, m
  <1>7. QED
    BY <1>4, <1>6 DEF Further

(* What each kind of recognizer does with the answers it is given is what  *)
(* Follows says.                                                           *)
LEMMA TextAnswers ==
    ASSUME NEW n \in Nat, NEW f \in Frame(n), NEW M, NEW s, Closed(M, s),
           Shape[f.rec].kind = "text", Arrived(M, s, f)
    PROVE  <<f.rec, f.begin, MatchText(f.rec, s, f.pos)>> \in M
  <1> DEFINE m == MatchText(f.rec, s, f.pos)
  <1>1. f.rec \in Recognizer /\ f.begin \in Nat /\ f.pos = f.begin /\ m \in Matched
    BY FrameFields, RecognizerTyped DEF Arrived
  <1>2. m = MatchText(f.rec, s, f.begin)
    BY <1>1
  <1> HIDE DEF m
  <1>3. Follows(M, s, f.rec, f.begin, m)
    BY <1>2 DEF Follows
  <1>4. QED
    BY <1>1, <1>3, AnswersClose DEF m

LEMMA DelegateAnswers ==
    ASSUME NEW n \in Nat, NEW f \in Frame(n), NEW M, NEW s, Closed(M, s),
           Shape[f.rec].kind = "delegate", f.phase = "fed", Goes(M, s, f)
    PROVE  <<f.rec, f.begin, f.matched>> \in M
  <1>1. f.rec \in Recognizer /\ f.begin \in Nat /\ f.matched \in Matched
    BY FrameFields
  <1>2. <<Shape[f.rec].elements[1], f.begin, f.matched>> \in M
    BY DEF Goes, Waits, Arrived, Asks, Elements
  <1>3. Follows(M, s, f.rec, f.begin, f.matched)
    BY <1>2 DEF Follows
  <1>4. QED
    BY <1>1, <1>3, AnswersClose

LEMMA SequenceAnswers ==
    ASSUME NEW n \in Nat, NEW f \in Frame(n), NEW M, NEW s, Closed(M, s),
           Shape[f.rec].kind = "sequence"
    PROVE  /\ Arrived(M, s, f) /\ ~MoreElements(f) => <<f.rec, f.begin, f.total>> \in M
           /\ f.phase = "fed" /\ Goes(M, s, f) /\ f.matched = NPos =>
                 <<f.rec, f.begin, NPos>> \in M
           /\ f.phase = "fed" /\ Goes(M, s, f) /\ f.matched # NPos =>
                 Arrived(M, s, Advance(f))
  <1> DEFINE es == Shape[f.rec].elements
  <1>1. /\ f.rec \in Recognizer /\ f.begin \in Nat /\ f.index \in Nat /\ f.total \in Nat
        /\ f.pos \in Nat /\ f.matched \in Matched /\ Len(es) \in Nat
        /\ \A q \in Nat : q \in Matched
        /\ NPos \in Matched
    BY FrameFields DEF Elements, Matched
  <1>2. ASSUME Arrived(M, s, f), ~MoreElements(f) PROVE <<f.rec, f.begin, f.total>> \in M
    <2>1. f.index <= Len(es) /\ \E e \in [0..f.index -> Nat] : Along(M, f, f.index, e)
      BY <1>2 DEF Arrived, Elements
    <2>2. f.index = Len(es)
      BY <1>1, <1>2, <2>1 DEF MoreElements, Elements
    <2>3. PICK e \in [0..f.index -> Nat] : Along(M, f, f.index, e)
      BY <2>1
    <2>4. Trail(M, f.rec, f.begin, f.index, e) /\ f.total = e[f.index] - f.begin
      BY <2>3 DEF Along
    <2> DEFINE k == f.index
    <2>a. /\ k \in 0..Len(es) /\ k = Len(es) /\ e \in [0..k -> Nat]
          /\ Trail(M, f.rec, f.begin, k, e) /\ f.total = e[k] - f.begin
      BY <1>1, <2>2, <2>4
    <2> HIDE DEF k
    <2>5. InOrder(M, f.rec, f.begin, f.total)
      BY <2>a DEF InOrder
    <2>6. QED
      BY <1>1, <2>5, AnswersClose DEF Follows
  <1>3. ASSUME f.phase = "fed", Goes(M, s, f)
        PROVE  /\ f.index + 1 \in 1..Len(es)
               /\ \E e \in [0..f.index -> Nat] : Along(M, f, f.index, e)
               /\ <<es[f.index + 1], f.pos, f.matched>> \in M
    <2>1. PICK r \in Recognizer, p \in Nat : Waits(M, s, f, r, p) /\ <<r, p, f.matched>> \in M
      BY <1>3 DEF Goes
    <2>2. r = es[f.index + 1] /\ p = f.pos /\ f.index < Len(es)
      BY <2>1 DEF Waits, Asks, MoreElements, Elements
    <2>3. \E e \in [0..f.index -> Nat] : Along(M, f, f.index, e)
      BY <2>1 DEF Waits, Arrived
    <2>4. QED
      BY <1>1, <2>1, <2>2, <2>3
  <1>4. ASSUME f.phase = "fed", Goes(M, s, f), f.matched = NPos
        PROVE  <<f.rec, f.begin, NPos>> \in M
    <2>1. PICK e \in [0..f.index -> Nat] : Along(M, f, f.index, e)
      BY <1>3, <1>4
    <2>2. Trail(M, f.rec, f.begin, f.index, e) /\ f.pos = e[f.index]
      BY <2>1 DEF Along
    <2>3. f.index \in 0..Len(es) /\ f.index < Len(es)
          /\ <<es[f.index + 1], e[f.index], NPos>> \in M
      BY <1>1, <1>3, <1>4, <2>2
    <2>4. InOrder(M, f.rec, f.begin, NPos)
      BY <2>2, <2>3 DEF InOrder
    <2>5. QED
      BY <1>1, <2>4, AnswersClose DEF Follows
  <1>5. ASSUME f.phase = "fed", Goes(M, s, f), f.matched # NPos
        PROVE  Arrived(M, s, Advance(f))
    <2> DEFINE g == Advance(f)
    <2>1. f.matched \in Nat
      BY <1>1, <1>5 DEF Matched
    <2>2. /\ g.rec = f.rec /\ g.begin = f.begin /\ g.pos = f.pos + f.matched
          /\ g.total = f.total + f.matched /\ g.index = f.index + 1
      BY DEF Advance, Frame
    <2> HIDE DEF g
    <2>3. PICK e \in [0..f.index -> Nat] : Along(M, f, f.index, e)
      BY <1>3, <1>5
    <2>4. <<ElementAt(f.rec, f.index + 1), f.pos, f.matched>> \in M
      BY <1>3, <1>5 DEF ElementAt
    <2> DEFINE k == f.index
    <2>5. k \in Nat /\ e \in [0..k -> Nat] /\ Along(M, f, k, e)
          /\ <<ElementAt(f.rec, k + 1), f.pos, f.matched>> \in M
      BY <1>1, <2>3, <2>4
    <2> HIDE DEF k
    <2>6. Further(M, g, k, e)
      BY <2>1, <2>2, <2>5, AlongMore
    <2>7. PICK d \in [0..(k + 1) -> Nat] : Along(M, g, k + 1, d)
      BY <2>6 DEF Further
    <2>8. g.index = k + 1
      BY <2>2 DEF k
    <2>9. g.index <= Len(es)
      BY <1>1, <1>3, <1>5, <2>2
    <2>10. \E ends \in [0..g.index -> Nat] : Along(M, g, g.index, ends)
      BY <2>7, <2>8
    <2>11. Shape[g.rec].kind = "sequence" /\ Elements(g) = es
      BY <2>2 DEF Elements
    <2>12. QED
      BY <2>9, <2>10, <2>11 DEF Arrived, g
  <1>6. QED
    BY <1>2, <1>4, <1>5

LEMMA ExclusiveAnswers ==
    ASSUME NEW n \in Nat, NEW f \in Frame(n), NEW M, NEW s, Closed(M, s),
           Shape[f.rec].kind = "exclusive"
    PROVE  /\ Arrived(M, s, f) /\ ~MoreElements(f) => <<f.rec, f.begin, NPos>> \in M
           /\ f.phase = "fed" /\ Goes(M, s, f) /\ f.matched > 0 =>
                 <<f.rec, f.begin, f.matched>> \in M
           /\ f.phase = "fed" /\ Goes(M, s, f) /\ ~(f.matched > 0) =>
                 Arrived(M, s, [f EXCEPT !.index = @ + 1, !.phase = "feed"])
  <1> DEFINE es == Shape[f.rec].elements
  <1>1. /\ f.rec \in Recognizer /\ f.begin \in Nat /\ f.index \in Nat
        /\ f.pos \in Nat /\ f.matched \in Matched /\ Len(es) \in Nat
        /\ NPos \in Matched
    BY FrameFields DEF Elements, Matched
  <1>2. ASSUME Arrived(M, s, f), ~MoreElements(f) PROVE <<f.rec, f.begin, NPos>> \in M
    <2>1. f.index <= Len(es) /\ Refused(M, f.rec, f.begin, f.index)
      BY <1>2 DEF Arrived, Elements
    <2>2. f.index = Len(es)
      BY <1>1, <1>2, <2>1 DEF MoreElements, Elements
    <2>3. FirstOf(M, f.rec, f.begin, NPos)
      BY <2>1, <2>2 DEF FirstOf
    <2>4. QED
      BY <1>1, <2>3, AnswersClose DEF Follows
  <1>3. ASSUME f.phase = "fed", Goes(M, s, f)
        PROVE  /\ f.index + 1 \in 1..Len(es)
               /\ f.pos = f.begin
               /\ Refused(M, f.rec, f.begin, f.index)
               /\ <<es[f.index + 1], f.begin, f.matched>> \in M
    <2>1. PICK r \in Recognizer, p \in Nat : Waits(M, s, f, r, p) /\ <<r, p, f.matched>> \in M
      BY <1>3 DEF Goes
    <2>2. r = es[f.index + 1] /\ p = f.pos /\ f.index < Len(es)
      BY <2>1 DEF Waits, Asks, MoreElements, Elements
    <2>3. f.pos = f.begin /\ Refused(M, f.rec, f.begin, f.index)
      BY <2>1 DEF Waits, Arrived
    <2>4. QED
      BY <1>1, <2>1, <2>2, <2>3
  <1>4. ASSUME f.phase = "fed", Goes(M, s, f), f.matched > 0
        PROVE  <<f.rec, f.begin, f.matched>> \in M
    <2>1. (f.index + 1) - 1 = f.index
      BY <1>1
    <2>2. FirstOf(M, f.rec, f.begin, f.matched)
      BY <1>3, <1>4, <2>1 DEF FirstOf
    <2>3. QED
      BY <1>1, <2>2, AnswersClose DEF Follows
  <1>5. ASSUME f.phase = "fed", Goes(M, s, f), ~(f.matched > 0)
        PROVE  Arrived(M, s, [f EXCEPT !.index = @ + 1, !.phase = "feed"])
    <2> DEFINE g == [f EXCEPT !.index = @ + 1, !.phase = "feed"]
    <2>1. /\ g.rec = f.rec /\ g.begin = f.begin /\ g.pos = f.pos /\ g.index = f.index + 1
      BY DEF Frame
    <2> HIDE DEF g
    <2>2. f.matched \in {NPos, 0}
      BY <1>1, <1>5 DEF Matched, NPos
    <2>3. ASSUME NEW i \in 1..(f.index + 1)
          PROVE  \E m \in {NPos, 0} : <<es[i], f.begin, m>> \in M
      <3>1. CASE i = f.index + 1
        BY <1>3, <1>5, <2>2, <3>1
      <3>2. CASE i # f.index + 1
        <4>1. i \in 1..f.index
          BY <1>1, <3>2
        <4>2. Refused(M, f.rec, f.begin, f.index)
          BY <1>3, <1>5
        <4>3. QED
          BY <4>1, <4>2 DEF Refused
      <3>3. QED
        BY <3>1, <3>2
    <2>4. Refused(M, g.rec, g.begin, g.index)
      BY <2>1, <2>3 DEF Refused
    <2>5. g.index <= Len(es) /\ g.pos = g.begin
      BY <1>1, <1>3, <1>5, <2>1
    <2>6. QED
      BY <2>1, <2>4, <2>5 DEF Arrived, Elements, g
  <1>6. QED
    BY <1>2, <1>4, <1>5

(* The counter of a loop stands for the number of repetitions.             *)
LEMMA CountedStandsFor ==
    ASSUME NEW r \in Recognizer, NEW k \in Nat
    PROVE  /\ Counted(r, k) \in Nat
           /\ Counted(r, k) < Shape[r].min <=> k < Shape[r].min
           /\ \A s, p : LoopGoesOn(r, Counted(r, k), s, p) <=> LoopGoesOn(r, k, s, p)
           /\ Counted(r, k + 1) = IF Shape[r].max = Unbounded /\ Counted(r, k) >= Shape[r].min
                                  THEN Counted(r, k)
                                  ELSE Counted(r, k) + 1
  <1>1. Shape[r].min \in Nat
    BY ElementsTyped
  <1>2. CASE Shape[r].max = Unbounded
    BY <1>1, <1>2 DEF Counted, LoopGoesOn
  <1>3. CASE Shape[r].max # Unbounded
    BY <1>1, <1>3 DEF Counted, LoopGoesOn
  <1>4. QED
    BY <1>2, <1>3

(* A loop that ends has repeated its element as often as it goes ...       *)
LEMMA LoopEnds ==
    ASSUME NEW n \in Nat, NEW f \in Frame(n), NEW M, NEW s, Closed(M, s),
           Shape[f.rec].kind = "loop", Arrived(M, s, f),
           \/ ~LoopGoesOn(f.rec, f.index, s, f.pos)
           \/ <<Elements(f)[1], f.pos, NPos>> \in M
    PROVE  Goes(M, s, LoopAnswer(f))
  <1> DEFINE r == f.rec
             p == f.begin
             m == IF f.index < Shape[r].min THEN NPos ELSE f.total
  <1>1. /\ r \in Recognizer /\ p \in Nat /\ f.index \in Nat /\ f.total \in Nat
        /\ f.pos \in Nat /\ m \in Matched
    BY FrameFields DEF Matched
  <1>2. PICK k \in Nat : \E e \in [0..k -> Nat] :
           /\ Along(M, f, k, e)
           /\ f.index = Counted(r, k)
           /\ \A i \in 1..k : LoopGoesOn(r, i - 1, s, e[i - 1])
    BY DEF Arrived
  <1>3. PICK e \in [0..k -> Nat] :
           /\ Along(M, f, k, e)
           /\ f.index = Counted(r, k)
           /\ \A i \in 1..k : LoopGoesOn(r, i - 1, s, e[i - 1])
    BY <1>2
  <1>4. Trail(M, r, p, k, e) /\ f.pos = e[k] /\ f.total = e[k] - p
    BY <1>3 DEF Along
  <1>5. \/ ~LoopGoesOn(r, k, s, e[k])
        \/ <<ElementAt(r, k + 1), e[k], NPos>> \in M
    BY <1>1, <1>3, <1>4, CountedStandsFor DEF ElementAt, Elements
  <1>6. m = IF k < Shape[r].min THEN NPos ELSE e[k] - p
    BY <1>1, <1>3, <1>4, CountedStandsFor
  <1>7. LoopAnswer(f) = Answer(f, m)
    BY DEF LoopAnswer
  <1>8. Shape[r].kind = "loop"
    OBVIOUS
  <1> HIDE DEF r, p, m
  <1>9. Repeats(M, s, r, p, m)
    BY <1>3, <1>4, <1>5, <1>6 DEF Repeats
  <1>10. <<r, p, m>> \in M
    BY <1>1, <1>8, <1>9, AnswersClose DEF Follows
  <1>11. QED
    BY <1>1, <1>7, <1>10, AnswerFields DEF r, p

(* ... and one that goes on has one repetition more.                       *)
LEMMA LoopRepeats ==
    ASSUME NEW n \in Nat, NEW f \in Frame(n), NEW M, NEW s,
           Shape[f.rec].kind = "loop", f.phase = "fed", Goes(M, s, f)
    PROVE  /\ Arrived(M, s, f) /\ <<Elements(f)[1], f.pos, f.matched>> \in M
           /\ f.matched # NPos => Arrived(M, s, Repeated(f))
  <1>1. PICK q \in Recognizer, o \in Nat : Waits(M, s, f, q, o) /\ <<q, o, f.matched>> \in M
    BY DEF Goes
  <1>2. /\ Arrived(M, s, f) /\ <<Elements(f)[1], f.pos, f.matched>> \in M
        /\ LoopGoesOn(f.rec, f.index, s, f.pos)
    BY <1>1 DEF Waits, Asks
  <1>3. ASSUME f.matched # NPos PROVE Arrived(M, s, Repeated(f))
    <2> DEFINE g == Repeated(f)
    <2>1. /\ f.rec \in Recognizer /\ f.begin \in Nat /\ f.index \in Nat /\ f.total \in Nat
          /\ f.pos \in Nat /\ f.matched \in Nat
      BY <1>3, FrameFields DEF Matched
    <2>2. /\ g.rec = f.rec /\ g.begin = f.begin /\ g.pos = f.pos + f.matched
          /\ g.total = f.total + f.matched
          /\ g.index = IF Shape[f.rec].max = Unbounded /\ f.index >= Shape[f.rec].min
                       THEN f.index ELSE f.index + 1
      BY DEF Repeated, Advance, Frame
    <2> HIDE DEF g
    <2>3. PICK k \in Nat : \E e \in [0..k -> Nat] :
             /\ Along(M, f, k, e)
             /\ f.index = Counted(f.rec, k)
             /\ \A i \in 1..k : LoopGoesOn(f.rec, i - 1, s, e[i - 1])
      BY <1>2 DEF Arrived
    <2>4. PICK e \in [0..k -> Nat] :
             /\ Along(M, f, k, e)
             /\ f.index = Counted(f.rec, k)
             /\ \A i \in 1..k : LoopGoesOn(f.rec, i - 1, s, e[i - 1])
      BY <2>3
    <2>5. <<ElementAt(f.rec, k + 1), f.pos, f.matched>> \in M
      BY <1>2 DEF ElementAt, Elements
    <2>6. Further(M, g, k, e)
      BY <2>1, <2>2, <2>4, <2>5, AlongMore
    <2>7. PICK d \in [0..(k + 1) -> Nat] : Along(M, g, k + 1, d) /\ \A i \in 0..k : d[i] = e[i]
      BY <2>6 DEF Further
    <2>8. g.index = Counted(g.rec, k + 1)
      BY <2>1, <2>2, <2>4, CountedStandsFor
    <2>9. ASSUME NEW i \in 1..(k + 1) PROVE LoopGoesOn(g.rec, i - 1, s, d[i - 1])
      <3>1. CASE i = k + 1
        <4>1. LoopGoesOn(f.rec, k, s, f.pos)
          BY <1>2, <2>1, <2>4, CountedStandsFor
        <4>2. i - 1 = k /\ k \in 0..k
          BY <3>1
        <4>3. e[k] = f.pos
          BY <2>4 DEF Along
        <4>4. d[k] = f.pos
          BY <2>7, <4>2, <4>3
        <4>5. QED
          BY <2>2, <4>1, <4>2, <4>4
      <3>2. CASE i # k + 1
        <4>1. i \in 1..k /\ i - 1 \in 0..k
          BY <3>2
        <4>2. d[i - 1] = e[i - 1]
          BY <2>7, <4>1
        <4>3. QED
          BY <2>2, <2>4, <4>1, <4>2
      <3>3. QED
        BY <3>1, <3>2
    <2>10. k + 1 \in Nat /\ Shape[g.rec].kind = "loop"
      BY <2>2
    <2> DEFINE l == k + 1
    <2>11. /\ l \in Nat /\ d \in [0..l -> Nat] /\ Along(M, g, l, d) /\ g.index = Counted(g.rec, l)
           /\ \A i \in 1..l : LoopGoesOn(g.rec, i - 1, s, d[i - 1])
      BY <2>7, <2>8, <2>9, <2>10
    <2> HIDE DEF l
    <2>12. QED
      BY <2>10, <2>11 DEF Arrived, g
  <1>4. QED
    BY <1>2, <1>3

(* A selector, of whatever size the alternatives it tried are.             *)
LEMMA SelectorAnswers ==
    ASSUME NEW n \in Nat, NEW f \in Frame(n), NEW M, NEW s, Closed(M, s),
           Shape[f.rec].kind = "selector"
    PROVE  /\ Arrived(M, s, f) /\ ~MoreElements(f) => <<f.rec, f.begin, f.best>> \in M
           /\ f.phase = "fed" /\ Goes(M, s, f) => Arrived(M, s, Elected(f))
  <1> DEFINE es == Shape[f.rec].elements
  <1>1. /\ f.rec \in Recognizer /\ f.begin \in Nat /\ f.index \in Nat
        /\ f.pos \in Nat /\ f.matched \in Matched /\ f.best \in Matched /\ Len(es) \in Nat
    BY FrameFields DEF Elements
  <1>2. ASSUME Arrived(M, s, f), ~MoreElements(f) PROVE <<f.rec, f.begin, f.best>> \in M
    <2>1. f.index <= Len(es) /\ Longest(M, f.rec, f.begin, f.index, f.best)
      BY <1>2 DEF Arrived, Elements
    <2>2. f.index = Len(es)
      BY <1>1, <1>2, <2>1 DEF MoreElements, Elements
    <2>3. Follows(M, s, f.rec, f.begin, f.best)
      BY <2>1, <2>2 DEF Follows
    <2>4. QED
      BY <1>1, <2>3, AnswersClose
  <1>3. ASSUME f.phase = "fed", Goes(M, s, f)
        PROVE  Arrived(M, s, Elected(f))
    <2> DEFINE g == Elected(f)
               i1 == f.index + 1
    <2>1. PICK r \in Recognizer, p \in Nat : Waits(M, s, f, r, p) /\ <<r, p, f.matched>> \in M
      BY <1>3 DEF Goes
    <2>2. r = es[i1] /\ p = f.pos /\ f.index < Len(es)
      BY <2>1 DEF Waits, Asks, MoreElements, Elements
    <2>3. f.pos = f.begin /\ Longest(M, f.rec, f.begin, f.index, f.best)
      BY <2>1 DEF Waits, Arrived
    <2>4. <<es[i1], f.begin, f.matched>> \in M /\ i1 \in 1..Len(es)
      BY <1>1, <2>1, <2>2, <2>3
    <2>5. /\ g.rec = f.rec /\ g.begin = f.begin /\ g.pos = f.pos /\ g.index = i1
          /\ g.best = IF Better(f) THEN f.matched ELSE f.best
      BY DEF Elected, Frame
    <2> HIDE DEF g
    <2>6. PICK m \in [1..f.index -> Matched] :
             /\ \A i \in 1..f.index : <<es[i], f.begin, m[i]>> \in M /\ m[i] <= f.best
             /\ f.best = NPos \/ \E i \in 1..f.index : f.best = m[i]
      BY <2>3 DEF Longest
    <2> DEFINE l == [i \in 1..i1 |-> IF i = i1 THEN f.matched ELSE m[i]]
    <2>7. /\ l \in [1..i1 -> Matched] /\ l[i1] = f.matched
          /\ \A i \in 1..f.index : i \in 1..i1 /\ l[i] = m[i] /\ m[i] \in Matched
          /\ \A i \in 1..i1 : i = i1 \/ i \in 1..f.index
      <3>1. /\ \A i \in 1..f.index : i \in 1..i1 /\ i # i1
            /\ \A i \in 1..i1 : i = i1 \/ i \in 1..f.index
            /\ i1 \in 1..i1
        BY <1>1
      <3>2. QED
        BY <1>1, <3>1
    <2> HIDE DEF l
    <2>8. f.best <= g.best /\ f.matched <= g.best /\ g.best \in {f.best, f.matched}
      BY <1>1, <2>5 DEF Better, Matched, NPos
    <2>9. ASSUME NEW i \in 1..i1
          PROVE  <<es[i], f.begin, l[i]>> \in M /\ l[i] <= g.best
      <3>1. CASE i = i1
        BY <2>4, <2>7, <2>8, <3>1
      <3>2. CASE i # i1
        <4>1. i \in 1..f.index /\ l[i] = m[i] /\ m[i] \in Matched
          BY <2>7, <3>2
        <4>2. <<es[i], f.begin, m[i]>> \in M /\ m[i] <= f.best
          BY <2>6, <4>1
        <4>3. m[i] <= g.best
          BY <1>1, <2>8, <4>1, <4>2 DEF Matched, NPos
        <4>4. QED
          BY <4>1, <4>2, <4>3
      <3>3. QED
        BY <3>1, <3>2
    <2>10. g.best = NPos \/ \E i \in 1..i1 : g.best = l[i]
      <3>1. CASE g.best = f.matched
        BY <2>4, <2>7, <3>1
      <3>2. CASE g.best = f.best
        BY <2>6, <2>7, <3>2
      <3>3. QED
        BY <2>8, <3>1, <3>2
    <2>11. Longest(M, g.rec, g.begin, g.index, g.best)
      BY <2>5, <2>7, <2>9, <2>10 DEF Longest
    <2>12. g.pos = g.begin /\ g.index <= Len(es)
      BY <1>1, <2>3, <2>4, <2>5
    <2>13. QED
      BY <2>5, <2>11, <2>12 DEF Arrived, Elements, g
  <1>4. QED
    BY <1>2, <1>3

(* What a call is to answer: what its rule means at the start of the text. *)
Judged(call, n) == <<call.rule, 0, n>> \in Meant(call.input)

(* What a thread in the state st, with the activations F, has of its answer.*)
AnswersOf(st, F, call, answer, size) ==
    /\ st = "parsing" =>
          IF F = <<>> THEN Judged(call, answer)
          ELSE Answering(Meant(call.input), call.input, call.rule, F)
    /\ st = "done" => Judged(call, size)

(* The inductive invariant: every open activation has arrived where it is by*)
(* answers that are meant and waits for the next, up to parseInput().      *)
AnswersInv ==
    \A t \in Thread :
       /\ status[t] \in {"parsing", "done"} => parses[t] \in 1..Len(script[t])
       /\ AnswersOf(status[t], frames[t], Call(t), parsed[t], outcome[t].size)

(* A step of t is no step of another thread.                               *)
OnlyBy(t) ==
    \A u \in Thread : u # t =>
       /\ status'[u] = status[u] /\ frames'[u] = frames[u] /\ parses'[u] = parses[u]
       /\ parsed'[u] = parsed[u] /\ outcome'[u] = outcome[u]

(* It is enough to look at the thread that takes a step.                   *)
LEMMA StepAnswers ==
    ASSUME AnswersInv, NEW t \in Thread, OnlyBy(t), script' = script,
           status'[t] \in {"parsing", "done"} => parses'[t] \in 1..Len(script[t]),
           AnswersOf(status'[t], frames'[t], script[t][parses'[t]], parsed'[t], outcome'[t].size)
    PROVE  AnswersInv'
  <1>1. ASSUME NEW u \in Thread
        PROVE  /\ status'[u] \in {"parsing", "done"} => parses'[u] \in 1..Len(script'[u])
               /\ AnswersOf(status'[u], frames'[u], script'[u][parses'[u]], parsed'[u],
                            outcome'[u].size)
    <2>1. CASE u = t
      BY <2>1
    <2>2. CASE u # t
      BY <2>2 DEF AnswersInv, OnlyBy, Call
    <2>3. QED
      BY <2>1, <2>2
  <1>2. QED
    BY <1>1 DEF AnswersInv, Call

(* A step of a thread in its parse leaves its call what it is.             *)
Within(t) ==
    /\ script' = script /\ parses' = parses /\ outcome' = outcome
    /\ status'[t] \in {"parsing", "aborted"}
    /\ \A u \in Thread : u # t => status'[u] = status[u]

(* The innermost activation goes on by itself ...                          *)
LEMMA TopAnswers ==
    ASSUME NEW n \in Nat, TypedWith(n), AnswersInv, NEW t \in Thread,
           NEW phase, InPhase(t, phase)
    PROVE  /\ frames[t] \in Seq(Frame(n)) /\ frames[t] # <<>> /\ Top(t) = Last(frames[t])
           /\ Top(t) \in Frame(n) /\ Top(t).phase = phase
           /\ parses[t] \in 1..Len(script[t])
           /\ Answering(Meant(Call(t).input), Call(t).input, Call(t).rule, frames[t])
           /\ Goes(Meant(Call(t).input), Call(t).input, Top(t))
  <1>1. /\ frames[t] \in Seq(Frame(n)) /\ frames[t] # <<>> /\ Top(t) = Last(frames[t])
        /\ Top(t) \in Frame(n) /\ Top(t).phase = phase /\ status[t] = "parsing"
    BY TopOfThread DEF InPhase, FramesOf, Top
  <1>2. /\ parses[t] \in 1..Len(script[t])
        /\ Answering(Meant(Call(t).input), Call(t).input, Call(t).rule, frames[t])
    BY <1>1 DEF AnswersInv, AnswersOf
  <1>3. QED
    BY <1>1, <1>2 DEF Answering

(* ... becomes another state of the same activation ...                    *)
LEMMA BecomeAnswers ==
    ASSUME NEW n \in Nat, TypedWith(n), AnswersInv, NEW t \in Thread,
           NEW phase, InPhase(t, phase), Within(t), parsed' = parsed,
           NEW k \in Nat, n <= k, NEW g \in Frame(k), Become(t, g),
           g.rec = Top(t).rec, g.begin = Top(t).begin,
           Goes(Meant(Call(t).input), Call(t).input, g)
    PROVE  AnswersInv'
  <1> DEFINE F == frames[t]
             s == Call(t).input
             rule == Call(t).rule
             M == Meant(s)
             G == Append(Front(F), g)
  <1>1. /\ F \in Seq(Frame(n)) /\ F # <<>> /\ Answering(M, s, rule, F)
        /\ Top(t) = Last(F) /\ parses[t] \in 1..Len(script[t])
    BY TopAnswers
  <1>2. frames'[t] = G /\ \A u \in Thread : u # t => frames'[u] = frames[u]
    BY DEF Become, TypedWith, FramesOf
  <1>3. Goes(M, s, g)
    OBVIOUS
  <1>4. F \in Seq(Frame(k))
    BY <1>1, PointersStayValid, SeqMonotonic
  <1> HIDE DEF M, s, F
  <1>5. Answering(M, s, rule, G)
    BY <1>1, <1>3, <1>4, GoneOn
  <1>6. G # <<>>
    <2>1. Front(F) \in Seq(Frame(k))
      BY <1>1, <1>4, EndsOfSequence
    <2>2. QED
      BY <2>1, AppendEnds
  <1> HIDE DEF G
  <1>7. AnswersOf(status'[t], frames'[t], script[t][parses'[t]], parsed'[t], outcome'[t].size)
    BY <1>2, <1>5, <1>6 DEF AnswersOf, Within, Call, s, rule, M
  <1>8. OnlyBy(t)
    BY <1>2 DEF OnlyBy, Within
  <1>9. QED
    BY <1>1, <1>7, <1>8, StepAnswers DEF Within

(* ... calls feed() of an element ...                                      *)
LEMMA CallAnswers ==
    ASSUME NEW n \in Nat, TypedWith(n), AnswersInv, NEW t \in Thread,
           NEW phase, InPhase(t, phase), Within(t), parsed' = parsed,
           NEW k \in Nat, n <= k, NEW f \in Frame(k), NEW e \in Recognizer, CallFeed(t, f, e),
           f.rec = Top(t).rec, f.begin = Top(t).begin,
           Arrived(Meant(Call(t).input), Call(t).input, f),
           Asks(Call(t).input, [f EXCEPT !.phase = "fed"], e, f.pos)
    PROVE  AnswersInv'
  <1> DEFINE F == frames[t]
             s == Call(t).input
             rule == Call(t).rule
             M == Meant(s)
             g == [f EXCEPT !.phase = "fed"]
             G == Front(F) \o <<g, Activation(e, f.pos)>>
  <1>1. /\ F \in Seq(Frame(n)) /\ F # <<>> /\ Answering(M, s, rule, F)
        /\ Top(t) = Last(F) /\ parses[t] \in 1..Len(script[t])
    BY TopAnswers
  <1>2. frames'[t] = G /\ \A u \in Thread : u # t => frames'[u] = frames[u]
    BY DEF CallFeed, TypedWith, FramesOf
  <1>3. Arrived(M, s, f) /\ Asks(s, g, e, f.pos)
    OBVIOUS
  <1>4. F \in Seq(Frame(k))
    BY <1>1, PointersStayValid, SeqMonotonic
  <1> HIDE DEF M, s, F
  <1>5. /\ g \in Frame(k) /\ g.rec = f.rec /\ g.begin = f.begin /\ g.pos = f.pos
        /\ Waits(M, s, g, e, g.pos)
    BY <1>3, CallWaits
  <1> HIDE DEF g
  <1>6. Answering(M, s, rule, Front(F) \o <<g, Activation(e, g.pos)>>)
    BY <1>1, <1>4, <1>5, Called
  <1>7. G # <<>>
    <2> DEFINE a == Activation(e, f.pos)
    <2>1. Front(F) \in Seq(Frame(k)) /\ a \in Frame(k)
      BY <1>1, <1>4, EndsOfSequence, ActivationTyped DEF Frame
    <2> HIDE DEF a
    <2>2. Front(F) \o <<g, a>> = Append(Append(Front(F), g), a)
          /\ Append(Front(F), g) \in Seq(Frame(k))
      BY <1>5, <2>1, AppendTwo, AppendTyped
    <2>3. QED
      BY <2>1, <2>2, AppendEnds DEF a
  <1>8. Answering(M, s, rule, G)
    BY <1>5, <1>6
  <1> HIDE DEF G
  <1>9. AnswersOf(status'[t], frames'[t], script[t][parses'[t]], parsed'[t], outcome'[t].size)
    BY <1>2, <1>7, <1>8 DEF AnswersOf, Within, Call, s, rule, M
  <1>10. OnlyBy(t)
    BY <1>2 DEF OnlyBy, Within
  <1>11. QED
    BY <1>1, <1>9, <1>10, StepAnswers DEF Within

(* ... or returns its answer to the one below, or to parseInput().         *)
LEMMA ReturnAnswers ==
    ASSUME NEW n \in Nat, TypedWith(n), AnswersInv, NEW t \in Thread,
           InPhase(t, "end"), Within(t), Return(t)
    PROVE  AnswersInv'
  <1> DEFINE F == frames[t]
             s == Call(t).input
             rule == Call(t).rule
             M == Meant(s)
             G == Append(Front(Front(F)), [Last(Front(F)) EXCEPT !.matched = Last(F).matched])
  <1>1. /\ F \in Seq(Frame(n)) /\ F # <<>> /\ Answering(M, s, rule, F)
        /\ Top(t) = Last(F) /\ Last(F).phase = "end" /\ parses[t] \in 1..Len(script[t])
    BY TopAnswers
  <1>2. CASE Front(F) = <<>>
    <2>1. /\ frames'[t] = <<>> /\ parsed'[t] = Last(F).matched
          /\ \A u \in Thread : u # t => frames'[u] = frames[u] /\ parsed'[u] = parsed[u]
      BY <1>1, <1>2 DEF Return, TypedWith, FramesOf
    <2> HIDE DEF M, s, rule, F
    <2>2. <<rule, 0, Last(F).matched>> \in M
      BY <1>1, <1>2, Outermost
    <2>3. AnswersOf(status'[t], frames'[t], script[t][parses'[t]], parsed'[t],
                    outcome'[t].size)
      BY <2>1, <2>2 DEF AnswersOf, Within, Judged, Call, s, rule, M
    <2>4. OnlyBy(t)
      BY <2>1 DEF OnlyBy, Within
    <2>5. QED
      BY <1>1, <2>3, <2>4, StepAnswers DEF Within
  <1>3. CASE Front(F) # <<>>
    <2>1. /\ frames'[t] = G /\ parsed' = parsed
          /\ \A u \in Thread : u # t => frames'[u] = frames[u]
      BY <1>1, <1>3 DEF Return, TypedWith, FramesOf
    <2> HIDE DEF M, s, rule, F
    <2>2. Answering(M, s, rule, G)
      BY <1>1, <1>3, Returned
    <2>3. G # <<>>
      <3>1. /\ Front(F) \in Seq(Frame(n)) /\ Last(F) \in Frame(n)
        BY <1>1, EndsOfSequence
      <3>2. Front(Front(F)) \in Seq(Frame(n)) /\ Last(Front(F)) \in Frame(n)
        BY <1>3, <3>1, EndsOfSequence
      <3>3. [Last(Front(F)) EXCEPT !.matched = Last(F).matched] \in Frame(n)
        BY <3>1, <3>2 DEF Frame
      <3>4. QED
        BY <3>2, <3>3, AppendEnds
    <2> HIDE DEF G
    <2>4. AnswersOf(status'[t], frames'[t], script[t][parses'[t]], parsed'[t],
                    outcome'[t].size)
      BY <2>1, <2>2, <2>3 DEF AnswersOf, Within, Call, s, rule, M
    <2>5. OnlyBy(t)
      BY <2>1 DEF OnlyBy, Within
    <2>6. QED
      BY <1>1, <2>4, <2>5, StepAnswers DEF Within
  <1>4. QED
    BY <1>2, <1>3

(* A step of a _feed() that keeps to its thread.                           *)
LEMMA PlainFeedAnswers ==
    ASSUME NEW n \in Nat, TypedWith(n), AnswersInv, NEW t \in Thread, PlainFeed(t)
    PROVE  AnswersInv'
  <1> DEFINE f == Top(t)
             s == Call(t).input
             M == Meant(s)
  <1>1. PICK phase \in {"feed", "fed"} : InPhase(t, phase)
    BY DEF PlainFeed, FeedText, FeedDelegate, DelegateFed, FeedSequence, SequenceFed,
           FeedExclusive, ExclusiveFed, FeedLoop, LoopFed, Running
  <1>2. f \in Frame(n) /\ f.phase = phase /\ Goes(M, s, f) /\ n <= n
    BY <1>1, TopAnswers
  <1>3. Within(t) /\ parsed' = parsed
    <2>1. status[t] = "parsing"
      BY <1>1 DEF InPhase
    <2>2. UNCHANGED <<parseVars, handlerStack, root, heapVars>>
      BY DEF PlainFeed, FeedText, FeedDelegate, DelegateFed, FeedSequence, SequenceFed,
             FeedExclusive, ExclusiveFed, FeedLoop, LoopFed
    <2>3. QED
      BY <2>1, <2>2 DEF Within, parseVars
  <1>4. Closed(M, s)
    BY MeantCloses
  <1>5. ASSUME NEW g \in Frame(n), Become(t, g), g.rec = f.rec, g.begin = f.begin, Goes(M, s, g)
        PROVE  AnswersInv'
    BY <1>1, <1>2, <1>3, <1>5, BecomeAnswers
  <1>6. ASSUME NEW e \in Recognizer, CallFeed(t, f, e), Arrived(M, s, f),
               Asks(s, [f EXCEPT !.phase = "fed"], e, f.pos)
        PROVE  AnswersInv'
    BY <1>1, <1>2, <1>3, <1>6, CallAnswers
  <1> HIDE DEF M, s, f
  <1>7. ASSUME NEW m \in Matched, Become(t, Answer(f, m)), <<f.rec, f.begin, m>> \in M
        PROVE  AnswersInv'
    BY <1>2, <1>5, <1>7, AnswerFields, NextFrameTyped
  <1>8. phase = "feed" => Arrived(M, s, f)
    BY <1>2 DEF Goes
  <1>9. /\ f.rec \in Recognizer /\ f.matched \in Matched /\ f.total \in Matched /\ NPos \in Matched
        /\ MatchText(f.rec, s, f.pos) \in Matched
        /\ MoreElements(f) => Elements(f)[f.index + 1] \in Recognizer
        /\ Shape[f.rec].kind \in {"loop", "delegate"} => Elements(f)[1] \in Recognizer
    BY <1>2, FrameFields, RecognizerTyped DEF Matched
  <1>10. ASSUME NEW e, MoreElements(f), Shape[f.rec].kind \in {"sequence", "exclusive"},
                e = Elements(f)[f.index + 1]
         PROVE  Asks(s, [f EXCEPT !.phase = "fed"], e, f.pos)
    <2> DEFINE g == [f EXCEPT !.phase = "fed"]
    <2>1. g.rec = f.rec /\ g.pos = f.pos /\ g.index = f.index /\ g.phase = "fed"
      BY <1>2 DEF Frame
    <2> HIDE DEF g
    <2>2. Asks(s, g, e, f.pos)
      BY <1>10, <2>1 DEF Asks, MoreElements, Elements
    <2>3. QED
      BY <2>2 DEF g
  <1>11. ASSUME Shape[f.rec].kind \in {"loop", "delegate"},
                Shape[f.rec].kind = "loop" => LoopGoesOn(f.rec, f.index, s, f.pos)
         PROVE  Asks(s, [f EXCEPT !.phase = "fed"], Elements(f)[1], f.pos)
    <2> DEFINE g == [f EXCEPT !.phase = "fed"]
    <2>1. g.rec = f.rec /\ g.pos = f.pos /\ g.index = f.index /\ g.phase = "fed"
      BY <1>2 DEF Frame
    <2> HIDE DEF g
    <2>2. Asks(s, g, Elements(f)[1], f.pos)
      BY <1>11, <2>1 DEF Asks, Elements
    <2>3. QED
      BY <2>2 DEF g
  <1>a. ASSUME NEW ph, NEW kind, Running(t, ph, kind)
        PROVE  f.phase = ph /\ Shape[f.rec].kind = kind
    BY <1>a DEF Running, InPhase, f
  <1>12. CASE FeedText(t)
    <2>1. f.phase = "feed" /\ Shape[f.rec].kind = "text"
          /\ Become(t, Answer(f, MatchText(f.rec, s, f.pos)))
      BY <1>12, <1>a DEF FeedText, f, s
    <2>2. <<f.rec, f.begin, MatchText(f.rec, s, f.pos)>> \in M
      BY <1>2, <1>4, <1>8, <2>1, TextAnswers
    <2>3. QED
      BY <1>7, <1>9, <2>1, <2>2
  <1>13. CASE FeedDelegate(t)
    <2>1. f.phase = "feed" /\ Shape[f.rec].kind = "delegate" /\ CallFeed(t, f, Elements(f)[1])
      BY <1>13, <1>a DEF FeedDelegate, f
    <2>2. QED
      BY <1>2, <1>6, <1>8, <1>9, <1>11, <2>1
  <1>14. CASE DelegateFed(t)
    <2>1. f.phase = "fed" /\ Shape[f.rec].kind = "delegate" /\ Become(t, Answer(f, f.matched))
      BY <1>14, <1>a DEF DelegateFed, f
    <2>2. QED
      BY <1>2, <1>4, <1>7, <1>9, <2>1, DelegateAnswers
  <1>15. CASE FeedSequence(t)
    <2>1. f.phase = "feed" /\ Shape[f.rec].kind = "sequence"
          /\ IF MoreElements(f) THEN CallFeed(t, f, Elements(f)[f.index + 1])
             ELSE Become(t, Answer(f, f.total))
      BY <1>15, <1>a DEF FeedSequence, f
    <2>2. CASE MoreElements(f)
      BY <1>2, <1>6, <1>8, <1>9, <1>10, <2>1, <2>2
    <2>3. CASE ~MoreElements(f)
      BY <1>2, <1>4, <1>7, <1>8, <1>9, <2>1, <2>3, SequenceAnswers
    <2>4. QED
      BY <2>2, <2>3
  <1>16. CASE SequenceFed(t)
    <2>1. f.phase = "fed" /\ Shape[f.rec].kind = "sequence"
          /\ Become(t, IF f.matched = NPos THEN Answer(f, NPos) ELSE Advance(f))
      BY <1>16, <1>a DEF SequenceFed, f
    <2>2. CASE f.matched = NPos
      BY <1>2, <1>4, <1>7, <1>9, <2>1, <2>2, SequenceAnswers
    <2>3. CASE f.matched # NPos
      <3>1. Advance(f) \in Frame(n) /\ Arrived(M, s, Advance(f))
        BY <1>2, <1>4, <2>1, <2>3, SequenceAnswers, NextFrameTyped
      <3>2. Advance(f).rec = f.rec /\ Advance(f).begin = f.begin /\ Advance(f).phase = "feed"
        BY <1>2 DEF Advance, Frame
      <3>3. Goes(M, s, Advance(f))
        BY <3>1, <3>2 DEF Goes
      <3>4. QED
        BY <1>5, <2>1, <2>3, <3>1, <3>2, <3>3
    <2>4. QED
      BY <2>2, <2>3
  <1>17. CASE FeedExclusive(t)
    <2>1. f.phase = "feed" /\ Shape[f.rec].kind = "exclusive"
          /\ IF MoreElements(f) THEN CallFeed(t, f, Elements(f)[f.index + 1])
             ELSE Become(t, Answer(f, NPos))
      BY <1>17, <1>a DEF FeedExclusive, f
    <2>2. CASE MoreElements(f)
      BY <1>2, <1>6, <1>8, <1>9, <1>10, <2>1, <2>2
    <2>3. CASE ~MoreElements(f)
      BY <1>2, <1>4, <1>7, <1>8, <1>9, <2>1, <2>3, ExclusiveAnswers
    <2>4. QED
      BY <2>2, <2>3
  <1>18. CASE ExclusiveFed(t)
    <2> DEFINE g == [f EXCEPT !.index = @ + 1, !.phase = "feed"]
    <2>1. f.phase = "fed" /\ Shape[f.rec].kind = "exclusive"
          /\ Become(t, IF f.matched > 0 THEN Answer(f, f.matched) ELSE g)
      BY <1>18, <1>a DEF ExclusiveFed, f
    <2>2. CASE f.matched > 0
      BY <1>2, <1>4, <1>7, <1>9, <2>1, <2>2, ExclusiveAnswers
    <2>3. CASE ~(f.matched > 0)
      <3>1. Arrived(M, s, g)
        BY <1>2, <1>4, <2>1, <2>3, ExclusiveAnswers
      <3>2. g \in Frame(n) /\ g.rec = f.rec /\ g.begin = f.begin /\ g.phase = "feed"
        <4> DEFINE i == f.index + 1
        <4>1. i \in Nat
          BY <1>2, FrameFields
        <4> HIDE DEF i
        <4>2. [f EXCEPT !.index = i, !.phase = "feed"] \in Frame(n)
          BY <1>2, <4>1 DEF Frame, Phase
        <4>3. g \in Frame(n)
          BY <4>2 DEF i
        <4>4. QED
          BY <1>2, <4>3 DEF Frame
      <3> HIDE DEF g
      <3>3. Goes(M, s, g)
        BY <3>1, <3>2 DEF Goes
      <3>4. QED
        BY <1>5, <2>1, <2>3, <3>2, <3>3
    <2>4. QED
      BY <2>2, <2>3
  <1>19. LoopAnswer(f) \in Frame(n) /\ LoopAnswer(f).rec = f.rec /\ LoopAnswer(f).begin = f.begin
    <2>1. LoopAnswer(f) \in Frame(n)
      BY <1>2, NextFrameTyped
    <2>2. QED
      BY <1>2, <2>1 DEF LoopAnswer, Answer, Frame
  <1>20. CASE FeedLoop(t)
    <2>1. f.phase = "feed" /\ Shape[f.rec].kind = "loop"
          /\ IF LoopGoesOn(f.rec, f.index, s, f.pos) THEN CallFeed(t, f, Elements(f)[1])
             ELSE Become(t, LoopAnswer(f))
      BY <1>20, <1>a DEF FeedLoop, f, s
    <2>2. CASE LoopGoesOn(f.rec, f.index, s, f.pos)
      BY <1>2, <1>6, <1>8, <1>9, <1>11, <2>1, <2>2
    <2>3. CASE ~LoopGoesOn(f.rec, f.index, s, f.pos)
      <3>1. Goes(M, s, LoopAnswer(f))
        BY <1>2, <1>4, <1>8, <2>1, <2>3, LoopEnds
      <3>2. QED
        BY <1>5, <1>19, <2>1, <2>3, <3>1
    <2>4. QED
      BY <2>2, <2>3
  <1>21. CASE LoopFed(t)
    <2>1. f.phase = "fed" /\ Shape[f.rec].kind = "loop"
          /\ Become(t, IF f.matched = NPos THEN LoopAnswer(f) ELSE Repeated(f))
      BY <1>21, <1>a DEF LoopFed, f
    <2>2. /\ Arrived(M, s, f) /\ <<Elements(f)[1], f.pos, f.matched>> \in M
          /\ f.matched # NPos => Arrived(M, s, Repeated(f))
      BY <1>2, <2>1, LoopRepeats
    <2>3. CASE f.matched = NPos
      <3>1. Goes(M, s, LoopAnswer(f))
        BY <1>2, <1>4, <2>1, <2>2, <2>3, LoopEnds
      <3>2. QED
        BY <1>5, <1>19, <2>1, <2>3, <3>1
    <2>4. CASE f.matched # NPos
      <3>1. Repeated(f) \in Frame(n)
        BY <1>2, <2>4, NextFrameTyped
      <3>2. /\ Repeated(f).rec = f.rec /\ Repeated(f).begin = f.begin
            /\ Repeated(f).phase = "feed"
        BY <1>2 DEF Repeated, Advance, Frame
      <3>3. Goes(M, s, Repeated(f))
        BY <2>2, <2>4, <3>2 DEF Goes
      <3>4. QED
        BY <1>5, <2>1, <2>4, <3>1, <3>2, <3>3
    <2>5. QED
      BY <2>3, <2>4
  <1>22. QED
    BY <1>12, <1>13, <1>14, <1>15, <1>16, <1>17, <1>18, <1>20, <1>21 DEF PlainFeed

----------------------------------------------------------------------------
(* The steps on contexts keep to the call of their thread.                 *)
LEMMA WithinWhen ==
    ASSUME NEW t \in Thread, status[t] = "parsing", UNCHANGED <<script, parses, outcome>>,
           status' = status \/ \E ok : FatalUnless(t, ok), TypeOK
    PROVE  Within(t)
  <1>1. status \in [Thread -> Status]
    BY DEF TypeOK
  <1>2. CASE status' = status
    BY <1>2 DEF Within
  <1>3. CASE \E ok : FatalUnless(t, ok)
    BY <1>1, <1>3 DEF Within, FatalUnless
  <1>4. QED
    BY <1>2, <1>3

(* An activation that has begun.                                           *)
LEMMA BegunGoes ==
    ASSUME NEW n \in Nat, NEW f \in Frame(n), NEW M, NEW s, f.phase = "begin", Goes(M, s, f),
           NEW g, Alike(f, g), g.phase = "feed"
    PROVE  Goes(M, s, g)
  <1>1. Arrived(M, s, f)
    BY BeginArrived
  <1>2. Arrived(M, s, g)
    BY <1>1, ArrivedAlike
  <1>3. QED
    BY <1>2 DEF Goes

(* beginParse(), whatever context it takes and wherever that comes from.   *)
LEMMA BeginAnswers ==
    ASSUME NEW n \in Nat, TypedWith(n), AnswersInv, NEW t \in Thread, BeginParse(t)
    PROVE  AnswersInv'
  <1> DEFINE f == Top(t)
             s == Call(t).input
             M == Meant(s)
  <1>0. InPhase(t, "begin") /\ status[t] = "parsing"
    BY DEF BeginParse, BeginHandled, BeginPlain, InPhase
  <1>1. f \in Frame(n) /\ f.phase = "begin" /\ Goes(M, s, f)
    BY <1>0, TopAnswers
  <1>2. TypeOK
    BY TypeOKIsTypedWith
  <1>3. CASE BeginHandled(t)
    <2>1. PICK c \in 1..(Len(contexts) + 1) :
             /\ CreateContext(t, f.rec, c)
             /\ Become(t, [f EXCEPT !.phase = "feed", !.context = c,
                              !.mark = Len(contexts'[c].assignments)])
      BY <1>3 DEF BeginHandled, LastIterator
    <2>2. f.rec \in Handled /\ UNCHANGED <<parseVars, root>>
      BY <1>3 DEF BeginHandled
    <2>3. PICK m \in Nat : n <= m /\ contexts' \in HeapOf(m) /\ c \in 1..m
      BY <2>1, <2>2, CreateContextTyped DEF TypedWith
    <2>4. Frame(n) \subseteq Frame(m)
      BY <2>3, PointersStayValid
    <2> DEFINE mark == Len(contexts'[c].assignments)
               g == [f EXCEPT !.phase = "feed", !.context = c, !.mark = mark]
    <2>5. mark \in Nat /\ c \in Pointer(m)
      BY <2>3, AssignmentsTyped DEF Pointer
    <2>6. Become(t, g)
      BY <2>1
    <2> HIDE DEF mark, f, M, s
    <2>7. g \in Frame(m) /\ Alike(f, g) /\ g.phase = "feed"
      BY <1>1, <2>4, <2>5 DEF Frame, Phase, Alike
    <2> HIDE DEF g
    <2>8. Goes(M, s, g) /\ g.rec = f.rec /\ g.begin = f.begin
      BY <1>1, <2>7, BegunGoes DEF Alike
    <2>9. Within(t) /\ parsed' = parsed
      BY <1>0, <1>2, <2>2, WithinWhen DEF parseVars
    <2>10. QED
      BY <1>0, <2>3, <2>6, <2>7, <2>8, <2>9, BecomeAnswers DEF f, M, s
  <1>4. CASE BeginPlain(t)
    <2>1. /\ FatalUnless(t, handlerStack[t] # <<>>)
          /\ UNCHANGED <<parses, script, parsed, outcome>>
      BY <1>4 DEF BeginPlain
    <2>2. Within(t) /\ parsed' = parsed
      BY <1>0, <1>2, <2>1, WithinWhen
    <2>3. CASE handlerStack[t] = <<>>
      <3>1. UNCHANGED frames /\ status'[t] = "aborted"
        BY <1>2, <1>4, <2>3 DEF BeginPlain, FatalUnless, TypeOK
      <3>2. OnlyBy(t)
        BY <2>1, <2>2, <3>1 DEF OnlyBy, Within
      <3>3. AnswersOf(status'[t], frames'[t], script[t][parses'[t]], parsed'[t],
                      outcome'[t].size)
        BY <3>1 DEF AnswersOf
      <3>4. QED
        BY <2>1, <3>1, <3>2, <3>3, StepAnswers
    <2>4. CASE handlerStack[t] # <<>>
      <3> DEFINE mark == Len(contexts[Back(handlerStack[t])].assignments)
                 g == [f EXCEPT !.phase = "feed", !.mark = mark]
      <3>1. mark \in Nat
        <4>1. handlerStack[t] \in Seq(1..n)
          BY DEF TypedWith
        <4>2. QED
          BY <2>4, <4>1, BackTyped, AssignmentsTyped DEF TypedWith
      <3>2. Become(t, g)
        BY <1>4, <2>4 DEF BeginPlain, LastIterator
      <3> HIDE DEF mark, f, M, s
      <3>3. g \in Frame(n) /\ Alike(f, g) /\ g.phase = "feed"
        BY <1>1, <3>1 DEF Frame, Phase, Alike
      <3> HIDE DEF g
      <3>4. Goes(M, s, g) /\ g.rec = f.rec /\ g.begin = f.begin /\ n <= n
        BY <1>1, <3>3, BegunGoes DEF Alike
      <3>5. QED
        BY <1>0, <2>2, <3>2, <3>3, <3>4, BecomeAnswers DEF f, M, s
    <2>5. QED
      BY <2>3, <2>4
  <1>5. QED
    BY <1>3, <1>4 DEF BeginParse

(* branch() and the call of an alternative, the choice of the longest, and *)
(* the merge of its branch.                                                *)
LEMMA BranchAnswers ==
    ASSUME NEW n \in Nat, TypedWith(n), AnswersInv, NEW t \in Thread, SelectorBranch(t)
    PROVE  AnswersInv'
  <1> DEFINE f == Top(t)
             s == Call(t).input
             M == Meant(s)
             e == Elements(f)[f.index + 1]
             stack == handlerStack[t]
  <1>0. /\ InPhase(t, "feed") /\ status[t] = "parsing" /\ Shape[f.rec].kind = "selector"
        /\ MoreElements(f) /\ FatalUnless(t, stack # <<>>)
        /\ UNCHANGED <<parses, script, parsed, outcome, root>>
    BY DEF SelectorBranch, Running, InPhase
  <1>1. f \in Frame(n) /\ f.phase = "feed" /\ Goes(M, s, f)
    BY <1>0, TopAnswers
  <1>2. Arrived(M, s, f)
    BY <1>1 DEF Goes
  <1>3. e \in Recognizer
    BY <1>0, <1>1, RecognizerTyped
  <1>4. TypeOK
    BY TypeOKIsTypedWith
  <1>5. Within(t) /\ parsed' = parsed
    BY <1>0, <1>4, WithinWhen
  <1>6. CASE stack = <<>>
    <2>1. UNCHANGED frames /\ status'[t] = "aborted"
      BY <1>0, <1>4, <1>6 DEF SelectorBranch, FatalUnless, TypeOK
    <2>2. OnlyBy(t)
      BY <1>0, <1>5, <2>1 DEF OnlyBy, Within
    <2>3. AnswersOf(status'[t], frames'[t], script[t][parses'[t]], parsed'[t],
                    outcome'[t].size)
      BY <2>1 DEF AnswersOf
    <2>4. QED
      BY <1>0, <2>1, <2>2, <2>3, StepAnswers
  <1>7. CASE stack # <<>>
    <2> DEFINE h == contexts[Last(stack)].handler
    <2>1. PICK c \in 1..(Len(contexts) + 1) :
             /\ CreateContext(t, h, c)
             /\ CallFeed(t, [f EXCEPT !.branch = c], e)
      BY <1>7 DEF SelectorBranch
    <2>2. h \in Handled
      <3>1. stack \in Seq(1..n)
        BY DEF TypedWith
      <3>2. QED
        BY <1>7, <3>1, BackTyped, AssignmentsTyped DEF TypedWith
    <2> HIDE DEF h
    <2>3. PICK m \in Nat : n <= m /\ c \in 1..m
      BY <2>1, <2>2, CreateContextTyped DEF TypedWith
    <2>4. Frame(n) \subseteq Frame(m) /\ c \in Pointer(m)
      BY <2>3, PointersStayValid DEF Pointer
    <2> DEFINE g == [f EXCEPT !.branch = c]
               b == [g EXCEPT !.phase = "fed"]
    <2>5. CallFeed(t, g, e)
      BY <2>1
    <2> HIDE DEF f, M, s
    <2>6. g \in Frame(m) /\ Alike(f, g)
      BY <1>1, <2>4 DEF Frame, Alike
    <2> HIDE DEF g
    <2>7. /\ b.rec = g.rec /\ b.pos = g.pos /\ b.index = g.index /\ b.phase = "fed"
      BY <2>6 DEF Frame
    <2> HIDE DEF b
    <2>8. Asks(s, b, e, g.pos)
      BY <1>0, <2>6, <2>7 DEF Asks, Alike, MoreElements, Elements
    <2>9. Arrived(M, s, g) /\ g.rec = f.rec /\ g.begin = f.begin
      BY <1>2, <2>6, ArrivedAlike DEF Alike
    <2> HIDE DEF e
    <2>10. QED
      BY <1>0, <1>3, <1>5, <2>3, <2>5, <2>6, <2>8, <2>9, CallAnswers DEF f, M, s, b
  <1>8. QED
    BY <1>6, <1>7

LEMMA ElectAnswers ==
    ASSUME NEW n \in Nat, TypedWith(n), AnswersInv, NEW t \in Thread, SelectorFed(t)
    PROVE  AnswersInv'
  <1> DEFINE f == Top(t)
             s == Call(t).input
             M == Meant(s)
             g == Elected(f)
  <1>0. /\ InPhase(t, "fed") /\ status[t] = "parsing" /\ Shape[f.rec].kind = "selector"
        /\ Become(t, g) /\ UNCHANGED <<parses, script, parsed, outcome, root>>
    BY DEF SelectorFed, Running, InPhase
  <1>1. f \in Frame(n) /\ f.phase = "fed" /\ Goes(M, s, f) /\ n <= n
    BY <1>0, TopAnswers
  <1>2. Within(t) /\ parsed' = parsed
    <2>1. status' = status \/ \E ok : FatalUnless(t, ok)
      BY DEF SelectorFed
    <2>2. QED
      BY <1>0, <2>1, WithinWhen, TypeOKIsTypedWith
  <1>3. Closed(M, s)
    BY MeantCloses
  <1> HIDE DEF f, M, s
  <1>4. g \in Frame(n) /\ Arrived(M, s, g)
    BY <1>0, <1>1, <1>3, SelectorAnswers, NextFrameTyped
  <1>5. g.rec = f.rec /\ g.begin = f.begin /\ g.phase = "feed"
    BY <1>1 DEF Elected, Frame
  <1> HIDE DEF g
  <1>6. Goes(M, s, g)
    BY <1>4, <1>5 DEF Goes
  <1>7. QED
    BY <1>0, <1>1, <1>2, <1>4, <1>5, <1>6, BecomeAnswers DEF f, M, s

LEMMA MergeAnswers ==
    ASSUME NEW n \in Nat, TypedWith(n), AnswersInv, NEW t \in Thread, SelectorMerge(t)
    PROVE  AnswersInv'
  <1> DEFINE f == Top(t)
             s == Call(t).input
             M == Meant(s)
             g == [Answer(f, f.best) EXCEPT !.bestBranch = None]
  <1>0. /\ InPhase(t, "feed") /\ status[t] = "parsing" /\ Shape[f.rec].kind = "selector"
        /\ ~MoreElements(f)
        /\ Become(t, g) /\ UNCHANGED <<parses, script, parsed, outcome, root>>
    BY DEF SelectorMerge, Running, InPhase
  <1>1. f \in Frame(n) /\ f.phase = "feed" /\ Goes(M, s, f) /\ n <= n
    BY <1>0, TopAnswers
  <1>2. Within(t) /\ parsed' = parsed
    <2>1. status' = status \/ \E ok : FatalUnless(t, ok)
      BY DEF SelectorMerge
    <2>2. QED
      BY <1>0, <2>1, WithinWhen, TypeOKIsTypedWith
  <1>3. Closed(M, s)
    BY MeantCloses
  <1> HIDE DEF f, M, s
  <1>4. Arrived(M, s, f)
    BY <1>1 DEF Goes
  <1>5. <<f.rec, f.begin, f.best>> \in M /\ g \in Frame(n)
    BY <1>0, <1>1, <1>3, <1>4, SelectorAnswers, NextFrameTyped
  <1>6. g.rec = f.rec /\ g.begin = f.begin /\ g.phase = "end" /\ g.matched = f.best
    BY <1>1 DEF Answer, Frame
  <1> HIDE DEF g
  <1>7. Goes(M, s, g)
    BY <1>5, <1>6 DEF Goes
  <1>8. QED
    BY <1>0, <1>1, <1>2, <1>5, <1>6, <1>7, BecomeAnswers DEF f, M, s

(* endParse(), with or without a match: the element is kept or undone, and *)
(* the answer is returned.                                                 *)
LEMMA EndAnswers ==
    ASSUME NEW n \in Nat, TypedWith(n), AnswersInv, NEW t \in Thread, EndParse(t)
    PROVE  AnswersInv'
  <1>1. InPhase(t, "end") /\ Return(t) /\ UNCHANGED <<status, parses, script, outcome>>
    BY DEF EndParse, EndElement, DropElement, EndText, UndoText, Matching, Failing
  <1>2. Within(t)
    BY <1>1 DEF Within, InPhase
  <1>3. QED
    BY <1>1, <1>2, ReturnAnswers

----------------------------------------------------------------------------
(* A thread calls parseInput() ...                                         *)
LEMMA StartAnswers ==
    ASSUME NEW n \in Nat, TypedWith(n), AnswersInv, NEW t \in Thread, StartParse(t)
    PROVE  AnswersInv'
  <1> DEFINE i == parses[t] + 1
             call == script[t][i]
             a == Activation(call.rule, 0)
             s == call.input
             M == Meant(s)
  <1>1. /\ status'[t] = "parsing" /\ parses'[t] = i /\ frames'[t] = <<a>>
        /\ parses[t] < Len(script[t]) /\ script' = script /\ parsed' = parsed
        /\ outcome' = outcome
        /\ \A u \in Thread : u # t => /\ status'[u] = status[u] /\ parses'[u] = parses[u]
                                      /\ frames'[u] = frames[u]
    BY DEF StartParse, TypedWith, FramesOf
  <1>2. i \in 1..Len(script[t]) /\ call.rule \in Recognizer
    <2>1. script[t] \in Seq(Request) /\ parses[t] \in Nat
      BY DEF TypedWith
    <2>2. i \in 1..Len(script[t])
      BY <1>1, <2>1, LenProperties
    <2>3. call \in Request
      BY <2>1, <2>2, ElementOfSeq
    <2>4. QED
      BY <2>2, <2>3, GrammarAssumption DEF Request
  <1>3. a \in Frame(n) /\ a.rec = call.rule /\ a.begin = 0 /\ Goes(M, s, a)
    <2>1. a \in Frame(n)
      BY <1>2, ActivationTyped
    <2>2. QED
      BY <2>1 DEF Activation, Goes
  <1> HIDE DEF a, M, s
  <1>4. <<a>> # <<>> /\ Front(<<a>>) = <<>> /\ Last(<<a>>) = a
    <2>1. <<a>> = Append(<<>>, a) /\ <<>> \in Seq(Frame(n))
      BY <1>3
    <2>2. /\ Append(<<>>, a) # <<>> /\ Front(Append(<<>>, a)) = <<>>
          /\ Last(Append(<<>>, a)) = a
      BY <1>3, <2>1, AppendEnds
    <2>3. QED
      BY <2>1, <2>2
  <1>5. Answering(M, s, call.rule, <<a>>)
    <2>1. Chain(M, s, call.rule, <<>>, a.rec, a.begin)
      BY <1>3, ChainEmpty
    <2>2. QED
      BY <1>3, <1>4, <2>1 DEF Answering
  <1>6. AnswersOf(status'[t], frames'[t], script[t][parses'[t]], parsed'[t], outcome'[t].size)
    BY <1>1, <1>4, <1>5 DEF AnswersOf, M, s
  <1>7. OnlyBy(t)
    BY <1>1 DEF OnlyBy
  <1>8. QED
    BY <1>1, <1>2, <1>6, <1>7, StepAnswers

(* What the calls gave back is kept, for each thread.                      *)
OutcomesKept == outcome = [t \in Thread |-> outcome[t]]

(* ... and is given back what its rule answers.                            *)
LEMMA FinishAnswers ==
    ASSUME NEW n \in Nat, TypedWith(n), AnswersInv, OutcomesKept,
           NEW t \in Thread, FinishParse(t)
    PROVE  AnswersInv' /\ OutcomesKept'
  <1> DEFINE result == ParseResult(t)
  <1>1. /\ status[t] = "parsing" /\ frames[t] = <<>> /\ status'[t] = "done"
        /\ outcome' = [outcome EXCEPT ![t] = result]
        /\ UNCHANGED <<script, parses, frames, parsed>>
        /\ \A u \in Thread : u # t => status'[u] = status[u]
    BY DEF FinishParse, TypedWith
  <1>2. result.size = parsed[t]
    BY DEF ParseResult
  <1>3. Judged(Call(t), parsed[t]) /\ parses[t] \in 1..Len(script[t])
    BY <1>1 DEF AnswersInv, AnswersOf
  <1> HIDE DEF result
  <1>4. /\ OutcomesKept' /\ outcome'[t] = result
        /\ \A u \in Thread : u # t => outcome'[u] = outcome[u]
    BY <1>1 DEF OutcomesKept
  <1>5. AnswersOf(status'[t], frames'[t], script[t][parses'[t]], parsed'[t], outcome'[t].size)
    BY <1>1, <1>2, <1>3, <1>4 DEF AnswersOf, Call
  <1>6. OnlyBy(t)
    BY <1>1, <1>4 DEF OnlyBy
  <1>7. QED
    BY <1>1, <1>3, <1>4, <1>5, <1>6, StepAnswers

(* So the invariant holds at first, and each step keeps it.                *)
LEMMA InitAnswers == Init => AnswersInv /\ OutcomesKept
  BY DEF Init, AnswersInv, AnswersOf, OutcomesKept

LEMMA NextAnswers ==
    TypeOK /\ AnswersInv /\ OutcomesKept /\ [Next]_vars => AnswersInv' /\ OutcomesKept'
  <1> SUFFICES ASSUME TypeOK, AnswersInv, OutcomesKept, [Next]_vars
               PROVE  AnswersInv' /\ OutcomesKept'
    OBVIOUS
  <1>1. PICK n \in Nat : TypedWith(n)
    BY TypeOKIsTypedWith
  <1>2. ASSUME outcome' = outcome PROVE OutcomesKept'
    BY <1>2 DEF OutcomesKept
  <1>3. ASSUME NEW t \in Thread, StartParse(t) \/ Work(t)
        PROVE  AnswersInv' /\ OutcomesKept'
    <2>1. CASE StartParse(t)
      <3>1. outcome' = outcome
        BY <2>1 DEF StartParse
      <3>2. QED
        BY <1>1, <1>2, <2>1, <3>1, StartAnswers
    <2>2. CASE FinishParse(t)
      BY <1>1, <2>2, FinishAnswers
    <2>3. CASE BeginParse(t)
      <3>1. outcome' = outcome
        BY <2>3 DEF BeginParse, BeginHandled, BeginPlain, parseVars
      <3>2. QED
        BY <1>1, <1>2, <2>3, <3>1, BeginAnswers
    <2>4. CASE PlainFeed(t)
      <3>1. outcome' = outcome
        BY <2>4 DEF PlainFeed, FeedText, FeedDelegate, DelegateFed, FeedSequence, SequenceFed,
                    FeedExclusive, ExclusiveFed, FeedLoop, LoopFed, parseVars
      <3>2. QED
        BY <1>1, <1>2, <2>4, <3>1, PlainFeedAnswers
    <2>5. CASE SelectorStep(t)
      <3>1. outcome' = outcome
        BY <2>5 DEF SelectorStep, SelectorBranch, SelectorFed, SelectorMerge
      <3>2. QED
        BY <1>1, <1>2, <2>5, <3>1, BranchAnswers, ElectAnswers, MergeAnswers DEF SelectorStep
    <2>6. CASE EndParse(t)
      <3>1. outcome' = outcome
        BY <2>6 DEF EndParse, EndElement, DropElement, EndText, UndoText
      <3>2. QED
        BY <1>1, <1>2, <2>6, <3>1, EndAnswers
    <2>7. QED
      BY <1>3, <2>1, <2>2, <2>3, <2>4, <2>5, <2>6 DEF Work, Feed, PlainFeed, SelectorStep
  <1>4. CASE UNCHANGED vars
    <2>1. UNCHANGED <<status, script, parses, parsed, outcome, frames>>
      BY <1>4 DEF vars, parseVars
    <2>2. AnswersInv'
      <3>1. \A t \in Thread : Call(t)' = Call(t)
        BY <2>1 DEF Call
      <3>2. QED
        BY <2>1, <3>1 DEF AnswersInv
    <2>3. QED
      BY <1>2, <2>1, <2>2
  <1>5. QED
    BY <1>3, <1>4 DEF Next, AllDone

(* What parseInput() gives back as the size of the match is what the rule  *)
(* means at the start of the text.                                         *)
AnswersAreMeant == \A t \in Thread : status[t] = "done" => Judged(Call(t), outcome[t].size)

(* The invariant of all parses.                                            *)
LEMMA AnswersInvHolds == Spec => [](TypeOK /\ AnswersInv)
  <1>1. Init => TypeOK /\ AnswersInv /\ OutcomesKept
    BY InitTyped, InitAnswers
  <1>2. TypeOK /\ AnswersInv /\ OutcomesKept /\ [Next]_vars =>
           (TypeOK /\ AnswersInv /\ OutcomesKept)'
    BY NextTyped, NextAnswers
  <1>3. QED
    BY <1>1, <1>2, PTL DEF Spec

(* Recognizer::feed(), with its handlers, contexts, branches and undone    *)
(* elements, answers by the grammar alone: a parse that ends has matched the*)
(* text as the rule says, and one that gives npos could not have.          *)
THEOREM AnswersFollowTheGrammar == Spec => []AnswersAreMeant
  <1>1. AnswersInv => AnswersAreMeant
    BY DEF AnswersInv, AnswersOf, AnswersAreMeant
  <1>2. QED
    BY <1>1, AnswersInvHolds, PTL

(* Two calls for one rule and one text are given the same size, whoever makes*)
(* them and whatever happens meanwhile.                                    *)
SameCallSameSize ==
    \A t, u \in Thread :
       /\ status[t] = "done" /\ status[u] = "done"
       /\ Call(t).rule = Call(u).rule /\ Call(t).input = Call(u).input
       => outcome[t].size = outcome[u].size

(* The threads that share a Parser, its handlers and their caches of contexts*)
(* do not disturb the matches of each other.                               *)
THEOREM ThreadsAgree == Spec => []SameCallSameSize
  <1>1. ASSUME AnswersAreMeant, NEW t \in Thread, NEW u \in Thread,
               status[t] = "done", status[u] = "done",
               Call(t).rule = Call(u).rule, Call(t).input = Call(u).input
        PROVE  outcome[t].size = outcome[u].size
    <2> DEFINE s == Call(t).input
               r == Call(t).rule
               n == outcome[t].size
               m == outcome[u].size
    <2>1. <<r, 0, n>> \in Meant(s) /\ <<r, 0, m>> \in Meant(s)
      BY <1>1 DEF AnswersAreMeant, Judged
    <2>2. Meant(s) \subseteq Judgement
      BY DEF Meant
    <2> HIDE DEF s, r, n, m
    <2>3. <<r, 0, n>> \in Judgement /\ <<r, 0, m>> \in Judgement
      BY <2>1, <2>2
    <2>4. r \in Recognizer /\ 0 \in Nat /\ n \in Matched /\ m \in Matched
      BY <2>3 DEF Judgement
    <2>5. n = m
      BY <2>1, <2>4, MeantOnce
    <2>6. QED
      BY <2>5 DEF n, m
  <1>2. AnswersAreMeant => SameCallSameSize
    BY <1>1 DEF SameCallSameSize
  <1>3. QED
    BY <1>2, AnswersFollowTheGrammar, PTL

----------------------------------------------------------------------------
(* No recognizer of characters accepts the terminator of the input.        *)
TerminatorEnds ==
    \A r \in Recognizer : Shape[r].kind = "text" =>
       \A i \in 1..Len(Shape[r].text) : Nul \notin Shape[r].text[i]

(* Answers that stay within the text s.                                    *)
WithinText(s) == {j \in Judgement : j[3] > 0 => j[2] + j[3] <= Len(s)}

LEMMA WithinMeans ==
    ASSUME NEW s, NEW r \in Recognizer, NEW p \in Nat, NEW n \in Matched
    PROVE  <<r, p, n>> \in WithinText(s) <=> (n > 0 => p + n <= Len(s))
  <1>1. <<r, p, n>> \in Judgement
    BY DEF Judgement
  <1>2. QED
    BY <1>1 DEF WithinText

(* A trail of them that has moved on is within the text.                   *)
LEMMA TrailWithin ==
    ASSUME NEW s \in Seq(Char), NEW r \in Recognizer, NEW p \in Nat, NEW k \in Nat, NEW ends,
           Shape[r].kind = "loop" \/ k <= Len(Shape[r].elements),
           Trail(WithinText(s), r, p, k, ends)
    PROVE  ends[k] \in Nat /\ (ends[k] = p \/ ends[k] <= Len(s))
  <1> DEFINE T == {j \in Nat : j <= k => ends[j] = p \/ ends[j] <= Len(s)}
  <1>1. 0 \in T
    BY DEF Trail
  <1>2. ASSUME NEW j \in Nat, j \in T PROVE j + 1 \in T
    <2>1. SUFFICES ASSUME j + 1 <= k PROVE ends[j + 1] = p \/ ends[j + 1] <= Len(s)
      OBVIOUS
    <2>2. j <= k /\ j + 1 \in 1..k /\ (j + 1) - 1 = j
      BY <2>1
    <2> DEFINE e == ElementAt(r, j + 1)
               m == ends[j + 1] - ends[j]
    <2>3. e \in Recognizer
      BY <2>2, ElementsTyped
    <2>4. /\ ends[j] \in Nat /\ ends[j + 1] \in Nat /\ ends[j] <= ends[j + 1]
          /\ <<e, ends[j], m>> \in WithinText(s)
      BY <2>2 DEF Trail
    <2>5. m \in Nat /\ m \in Matched /\ ends[j] + m = ends[j + 1]
      BY <2>4 DEF Matched
    <2> HIDE DEF e, m
    <2>6. m > 0 => ends[j] + m <= Len(s)
      BY <2>3, <2>4, <2>5, WithinMeans
    <2>7. ends[j] = p \/ ends[j] <= Len(s)
      BY <1>2, <2>2
    <2>8. CASE m > 0
      BY <2>5, <2>6, <2>8
    <2>9. CASE m = 0
      BY <2>4, <2>5, <2>7, <2>9
    <2>10. QED
      BY <2>5, <2>8, <2>9
  <1>3. Nat \subseteq T
    <2> HIDE DEF T
    <2>1. QED
      BY <1>1, <1>2, UpFromZero
  <1>4. ends[k] \in Nat
    BY DEF Trail
  <1>5. QED
    BY <1>3, <1>4

(* What follows from them is within the text too.                          *)
LEMMA WithinCloses ==
    ASSUME TerminatorEnds, NEW s \in Seq(Char)
    PROVE  Closed(WithinText(s), s)
  <1> DEFINE W == WithinText(s)
  <1> SUFFICES ASSUME NEW r \in Recognizer, NEW p \in Nat, NEW n \in Matched,
                      Follows(W, s, r, p, n), n > 0
               PROVE  p + n <= Len(s)
    <2>1. \A r \in Recognizer, p \in Nat, n \in Matched :
             Follows(W, s, r, p, n) => <<r, p, n>> \in W
      BY WithinMeans
    <2>2. QED
      BY <2>1 DEF Closed
  <1>1. n \in Nat /\ n # NPos /\ Len(s) \in Nat
    BY LenProperties DEF Matched, NPos
  <1>2. CASE Shape[r].kind = "text"
    <2> DEFINE text == Shape[r].text
    <2>1. n = MatchText(r, s, p)
      BY <1>2 DEF Follows
    <2>2. n = Len(text) /\ \A i \in 1..Len(text) : CharAt(s, p + i - 1) \in text[i]
      BY <1>1, <2>1 DEF MatchText
    <2>3. n \in 1..Len(text) /\ CharAt(s, p + n - 1) \in text[n]
      BY <1>1, <2>2
    <2>4. Nul \notin text[n]
      BY <1>2, <2>3 DEF TerminatorEnds
    <2>5. p + n - 1 < Len(s)
      BY <2>3, <2>4 DEF CharAt
    <2>6. QED
      BY <1>1, <2>5
  <1>3. CASE Shape[r].kind = "delegate"
    <2>1. Shape[r].elements[1] \in Recognizer /\ <<Shape[r].elements[1], p, n>> \in W
      BY <1>3, ElementsTyped DEF Follows
    <2>2. QED
      BY <2>1, WithinMeans
  <1>4. CASE Shape[r].kind = "sequence"
    <2> DEFINE k == Len(Shape[r].elements)
    <2>1. InOrder(W, r, p, n)
      BY <1>4 DEF Follows
    <2>2. PICK ends \in [0..k -> Nat] : Trail(W, r, p, k, ends) /\ n = ends[k] - p
      BY <1>1, <2>1 DEF InOrder
    <2>3. k \in Nat
      BY ElementsTyped
    <2> HIDE DEF k
    <2>4. k <= Len(Shape[r].elements)
      BY <2>3 DEF k
    <2>5. ends[k] \in Nat /\ (ends[k] = p \/ ends[k] <= Len(s))
      BY <2>2, <2>3, <2>4, TrailWithin
    <2>6. QED
      BY <1>1, <2>2, <2>5
  <1>5. CASE Shape[r].kind = "loop"
    <2>1. Repeats(W, s, r, p, n)
      BY <1>5 DEF Follows
    <2>2. PICK k \in Nat : \E ends \in [0..k -> Nat] : Trail(W, r, p, k, ends) /\ n = ends[k] - p
      BY <1>1, <2>1 DEF Repeats
    <2>3. PICK ends \in [0..k -> Nat] : Trail(W, r, p, k, ends) /\ n = ends[k] - p
      BY <2>2
    <2>4. ends[k] \in Nat /\ (ends[k] = p \/ ends[k] <= Len(s))
      BY <1>5, <2>3, TrailWithin
    <2>5. QED
      BY <1>1, <2>3, <2>4
  <1>6. CASE Shape[r].kind = "exclusive"
    <2>1. PICK i \in 1..Len(Shape[r].elements) : <<Shape[r].elements[i], p, n>> \in W
      BY <1>1, <1>6 DEF Follows, FirstOf
    <2>2. QED
      BY <2>1, ElementsTyped, WithinMeans
  <1>7. CASE Shape[r].kind = "selector"
    <2>1. PICK i \in 1..Len(Shape[r].elements) : <<Shape[r].elements[i], p, n>> \in W
      BY <1>1, <1>7 DEF Follows, Longest
    <2>2. QED
      BY <2>1, ElementsTyped, WithinMeans
  <1>8. Shape[r].kind \in Kind
    BY ElementsTyped
  <1>9. QED
    BY <1>2, <1>3, <1>4, <1>5, <1>6, <1>7, <1>8 DEF Kind

(* Where no recognizer accepts the terminator, no parse counts it, or any- *)
(* thing after it.                                                         *)
THEOREM ParsesStayWithinInput ==
    ASSUME TerminatorEnds
    PROVE  Spec => []ParsedWithinInput
  <1>1. TypeOK /\ AnswersInv => ParsedWithinInput
    <2> SUFFICES ASSUME TypeOK, AnswersInv, NEW t \in Thread, status[t] = "done",
                        outcome[t].size # NPos
                 PROVE  outcome[t].size <= Len(Call(t).input)
      BY DEF ParsedWithinInput
    <2>1. Call(t) \in Request
      <3>1. script[t] \in Seq(Request) /\ parses[t] \in 1..Len(script[t])
        BY DEF TypeOK, AnswersInv
      <3>2. QED
        BY <3>1, ElementOfSeq DEF Call
    <2> DEFINE s == Call(t).input
               r == Call(t).rule
               n == outcome[t].size
    <2>2. s \in Seq(Char) /\ Len(s) \in Nat
      BY <2>1, LenProperties DEF Request
    <2>3. <<r, 0, n>> \in Meant(s)
      BY DEF AnswersInv, AnswersOf, Judged
    <2> HIDE DEF s, r, n
    <2>4. WithinText(s) \in SUBSET Judgement
      BY DEF WithinText
    <2>5. <<r, 0, n>> \in WithinText(s) /\ <<r, 0, n>> \in Judgement
      BY <2>2, <2>3, <2>4, WithinCloses DEF Meant
    <2>6. r \in Recognizer /\ n \in Matched
      BY <2>5 DEF Judgement
    <2>7. n > 0 => 0 + n <= Len(s)
      BY <2>5, <2>6, WithinMeans
    <2>8. n <= Len(s)
      BY <2>2, <2>6, <2>7 DEF Matched, NPos
    <2>9. QED
      BY <2>8 DEF s, n
  <1>2. QED
    BY <1>1, AnswersInvHolds, PTL

(* What is meant is in the language of the grammar: more derivations allow *)
(* more ...                                                                *)
LEMMA YieldsMore ==
    ASSUME NEW D, NEW E, D \subseteq E, NEW s, NEW r \in Recognizer, NEW p, NEW n,
           Yields(D, s, r, p, n)
    PROVE  Yields(E, s, r, p, n)
  <1>1. \A k, ends : Trail(D, r, p, k, ends) => Trail(E, r, p, k, ends)
    BY Zenon DEF Trail
  <1>2. Shape[r].kind \in Kind
    BY ElementsTyped
  <1>3. CASE Shape[r].kind = "text"
    BY <1>3 DEF Yields
  <1>4. CASE Shape[r].kind = "delegate"
    BY <1>4 DEF Yields
  <1>5. CASE Shape[r].kind = "sequence"
    <2> DEFINE k == Len(Shape[r].elements)
    <2>1. PICK ends \in [0..k -> Nat] : Trail(D, r, p, k, ends) /\ ends[k] = p + n
      BY <1>5 DEF Yields
    <2>2. Trail(E, r, p, k, ends)
      BY <1>1, <2>1
    <2>3. QED
      BY <1>5, <2>1, <2>2 DEF Yields
  <1>6. CASE Shape[r].kind = "loop"
    <2>1. PICK k \in Nat : \E ends \in [0..k -> Nat] :
             /\ Shape[r].min <= k /\ (Shape[r].max # Unbounded => k <= Shape[r].max)
             /\ Trail(D, r, p, k, ends) /\ ends[k] = p + n
      BY <1>6 DEF Yields
    <2>2. \E ends \in [0..k -> Nat] :
             /\ Shape[r].min <= k /\ (Shape[r].max # Unbounded => k <= Shape[r].max)
             /\ Trail(E, r, p, k, ends) /\ ends[k] = p + n
      BY <1>1, <2>1
    <2>3. QED
      BY <1>6, <2>2 DEF Yields
  <1>7. CASE Shape[r].kind \in {"exclusive", "selector"}
    BY <1>7 DEF Yields
  <1>8. QED
    BY <1>2, <1>3, <1>4, <1>5, <1>6, <1>7 DEF Kind

(* ... and what follows from derivations is one.                           *)
LEMMA DerivableCloses == ASSUME NEW s PROVE Derived(Derivable(s), s)
  <1> SUFFICES ASSUME NEW r \in Recognizer, NEW p \in Nat, NEW n \in Nat,
                      Yields(Derivable(s), s, r, p, n)
               PROVE  <<r, p, n>> \in Derivable(s)
    BY DEF Derived
  <1>1. ASSUME NEW D \in SUBSET Derivation, Derived(D, s) PROVE <<r, p, n>> \in D
    <2>1. Derivable(s) \subseteq D
      BY <1>1 DEF Derivable
    <2>2. Yields(D, s, r, p, n)
      BY <2>1, YieldsMore
    <2>3. QED
      BY <1>1, <2>2 DEF Derived
  <1>2. <<r, p, n>> \in Derivation
    BY DEF Derivation
  <1>3. QED
    BY <1>1, <1>2 DEF Derivable

(* The answers that are no match, or derivations.                          *)
DerivedAnswers(s) == {j \in Judgement : j[3] # NPos => j \in Derivable(s)}

LEMMA DerivedMeans ==
    ASSUME NEW s, NEW r \in Recognizer, NEW p \in Nat, NEW n \in Nat
    PROVE  <<r, p, n>> \in DerivedAnswers(s) <=> <<r, p, n>> \in Derivable(s)
  <1>1. <<r, p, n>> \in Judgement /\ n # NPos
    BY DEF Judgement, Matched, NPos
  <1>2. QED
    BY <1>1 DEF DerivedAnswers

LEMMA TrailDerived ==
    ASSUME NEW s, NEW r \in Recognizer, NEW p, NEW k \in Nat, NEW ends,
           Shape[r].kind = "loop" \/ k <= Len(Shape[r].elements),
           Trail(DerivedAnswers(s), r, p, k, ends)
    PROVE  Trail(Derivable(s), r, p, k, ends) /\ ends[k] \in Nat
  <1>1. ASSUME NEW i \in 1..k
        PROVE  <<ElementAt(r, i), ends[i - 1], ends[i] - ends[i - 1]>> \in Derivable(s)
    <2>1. ElementAt(r, i) \in Recognizer
      BY ElementsTyped
    <2>2. /\ ends[i - 1] \in Nat /\ ends[i] \in Nat /\ ends[i - 1] <= ends[i]
          /\ <<ElementAt(r, i), ends[i - 1], ends[i] - ends[i - 1]>> \in DerivedAnswers(s)
      BY DEF Trail
    <2>3. ends[i] - ends[i - 1] \in Nat
      BY <2>2
    <2>4. QED
      BY <2>1, <2>2, <2>3, DerivedMeans
  <1>2. QED
    BY <1>1 DEF Trail

LEMMA DerivedAnswersClose == ASSUME NEW s PROVE Closed(DerivedAnswers(s), s)
  <1> DEFINE W == DerivedAnswers(s)
             D == Derivable(s)
  <1> SUFFICES ASSUME NEW r \in Recognizer, NEW p \in Nat, NEW n \in Matched,
                      Follows(W, s, r, p, n), n # NPos
               PROVE  Yields(D, s, r, p, n)
    <2>1. ASSUME NEW r \in Recognizer, NEW p \in Nat, NEW n \in Matched, Follows(W, s, r, p, n)
          PROVE  <<r, p, n>> \in W
      <3>1. CASE n = NPos
        BY <3>1 DEF DerivedAnswers, Judgement
      <3>2. CASE n # NPos
        <4>1. n \in Nat
          BY <3>2 DEF Matched
        <4>2. Yields(D, s, r, p, n)
          BY <2>1, <3>2
        <4>3. QED
          BY <4>1, <4>2, DerivedMeans, DerivableCloses DEF Derived
      <3>3. QED
        BY <3>1, <3>2
    <2>2. QED
      BY <2>1 DEF Closed
  <1>1. n \in Nat
    BY DEF Matched
  <1>2. CASE Shape[r].kind = "text"
    BY <1>2 DEF Follows, Yields
  <1>3. CASE Shape[r].kind = "delegate"
    <2>1. Shape[r].elements[1] \in Recognizer /\ <<Shape[r].elements[1], p, n>> \in W
      BY <1>3, ElementsTyped DEF Follows
    <2>2. <<Shape[r].elements[1], p, n>> \in D
      BY <1>1, <2>1, DerivedMeans
    <2>3. QED
      BY <1>3, <2>2 DEF Yields
  <1>4. CASE Shape[r].kind = "sequence"
    <2> DEFINE k == Len(Shape[r].elements)
    <2>1. InOrder(W, r, p, n)
      BY <1>4 DEF Follows
    <2>2. PICK ends \in [0..k -> Nat] : Trail(W, r, p, k, ends) /\ n = ends[k] - p
      BY <2>1 DEF InOrder
    <2>3. k \in Nat
      BY ElementsTyped
    <2>4. Trail(D, r, p, k, ends) /\ ends[k] \in Nat
      <3>1. k <= Len(Shape[r].elements)
        BY <2>3
      <3> HIDE DEF k
      <3>2. QED
        BY <2>2, <2>3, <3>1, TrailDerived
    <2>5. ends[k] = p + n
      <3> HIDE DEF k
      <3>1. QED
        BY <2>2, <2>4
    <2>6. QED
      BY <1>4, <2>4, <2>5 DEF Yields
  <1>5. CASE Shape[r].kind = "loop"
    <2>1. Repeats(W, s, r, p, n)
      BY <1>5 DEF Follows
    <2>2. PICK k \in Nat : \E ends \in [0..k -> Nat] :
             /\ Trail(W, r, p, k, ends)
             /\ \A i \in 1..k : LoopGoesOn(r, i - 1, s, ends[i - 1])
             /\ n = IF k < Shape[r].min THEN NPos ELSE ends[k] - p
      BY <2>1 DEF Repeats
    <2>3. PICK ends \in [0..k -> Nat] :
             /\ Trail(W, r, p, k, ends)
             /\ \A i \in 1..k : LoopGoesOn(r, i - 1, s, ends[i - 1])
             /\ n = IF k < Shape[r].min THEN NPos ELSE ends[k] - p
      BY <2>2
    <2>4. Trail(D, r, p, k, ends) /\ ends[k] \in Nat
      BY <1>5, <2>3, TrailDerived
    <2>5. Shape[r].min \in Nat /\ Shape[r].max \in Nat \cup {Unbounded}
      BY ElementsTyped, GrammarAssumption
    <2>6. Shape[r].min <= k /\ n = ends[k] - p
      BY <2>3, <2>5
    <2>7. ends[k] = p + n
      BY <2>4, <2>6
    <2>8. Shape[r].max # Unbounded => k <= Shape[r].max
      <3> SUFFICES ASSUME Shape[r].max # Unbounded PROVE k <= Shape[r].max
        OBVIOUS
      <3>1. Shape[r].max \in Nat
        BY <2>5
      <3>2. CASE k = 0
        BY <3>1, <3>2
      <3>3. CASE k # 0
        <4>1. k \in 1..k
          BY <3>3
        <4>2. k - 1 < Shape[r].max
          BY <2>3, <4>1 DEF LoopGoesOn
        <4>3. QED
          BY <3>1, <4>2
      <3>4. QED
        BY <3>2, <3>3
    <2>9. QED
      BY <1>5, <2>4, <2>6, <2>7, <2>8 DEF Yields
  <1>6. CASE Shape[r].kind \in {"exclusive", "selector"}
    <2>1. PICK i \in 1..Len(Shape[r].elements) : <<Shape[r].elements[i], p, n>> \in W
      BY <1>6 DEF Follows, FirstOf, Longest
    <2>2. <<Shape[r].elements[i], p, n>> \in D
      BY <1>1, <2>1, ElementsTyped, DerivedMeans
    <2>3. QED
      BY <1>6, <2>2 DEF Yields
  <1>7. Shape[r].kind \in Kind
    BY ElementsTyped
  <1>8. QED
    BY <1>2, <1>3, <1>4, <1>5, <1>6, <1>7 DEF Kind

(* What a parse has matched could stand for its rule: the first way, or the*)
(* longest, is one that the grammar allows.  (Not all that it allows is    *)
(* matched.)                                                               *)
MatchesAreDerivable ==
    \A t \in Thread :
       status[t] = "done" /\ outcome[t].size # NPos =>
          <<Call(t).rule, 0, outcome[t].size>> \in Derivable(Call(t).input)

THEOREM MatchesAreInTheLanguage == Spec => []MatchesAreDerivable
  <1>1. AnswersAreMeant => MatchesAreDerivable
    <2> SUFFICES ASSUME AnswersAreMeant, NEW t \in Thread, status[t] = "done",
                        outcome[t].size # NPos
                 PROVE  <<Call(t).rule, 0, outcome[t].size>> \in Derivable(Call(t).input)
      BY DEF MatchesAreDerivable
    <2> DEFINE s == Call(t).input
               r == Call(t).rule
               n == outcome[t].size
    <2>1. <<r, 0, n>> \in Meant(s) /\ n # NPos
      BY DEF AnswersAreMeant, Judged
    <2> HIDE DEF s, r, n
    <2>2. DerivedAnswers(s) \in SUBSET Judgement
      BY DEF DerivedAnswers
    <2>3. <<r, 0, n>> \in DerivedAnswers(s) /\ <<r, 0, n>> \in Judgement
      BY <2>1, <2>2, DerivedAnswersClose DEF Meant
    <2>4. r \in Recognizer /\ n \in Nat
      BY <2>1, <2>3 DEF Judgement, Matched
    <2>5. <<r, 0, n>> \in Derivable(s)
      BY <2>3, <2>4, DerivedMeans
    <2>6. QED
      BY <2>5 DEF s, r, n
  <1>2. QED
    BY <1>1, AnswersFollowTheGrammar, PTL

==============================================================================
