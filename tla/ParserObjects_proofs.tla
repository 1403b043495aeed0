------------------------- MODULE ParserObjects_proofs -------------------------
(***************************************************************************)
(* parseInput() gives back what the grammar and its handlers say of the    *)
(* text, and nothing else: the size of the match, and the tree of objects  *)
(* of what is inside it (Contents).  Whatever the contexts held that were  *)
(* opened, tried, undone, merged, given back and used again on the way is  *)
(* not in it, however many threads parse with the same handlers.  So the   *)
(* parser does what Recognition promises, with the answers of Contents.    *)
(*                                                                         *)
(* First, that for every match there is one thing to be given; then, what  *)
(* the contexts stand for while a thread parses, step by step; last, that  *)
(* the object of the root is the one that is to be given.                  *)
(***************************************************************************)
EXTENDS ParserUndo_proofs, ParserAnswers_proofs, Contents

(* The equation of Nested, over the numbers up to n.                       *)
NestedAt(g, k) == g[k] = IF k = 0 THEN {} ELSE Over(g[k - 1])

NestsUpTo(g, n) == g = [k \in 0..n |-> g[k]] /\ \A k \in 0..n : NestedAt(g, k)

(* Two such functions agree as far as both go ...                          *)
LEMMA NestsOnce ==
    ASSUME NEW n \in Nat, NEW m \in Nat, NEW f, NEW g, NestsUpTo(f, n), NestsUpTo(g, m)
    PROVE  \A k \in Nat : k <= n /\ k <= m => f[k] = g[k]
  <1> DEFINE S == {k \in Nat : k <= n /\ k <= m => f[k] = g[k]}
  <1>1. 0 \in S
    <2>1. 0 \in 0..n /\ 0 \in 0..m
      OBVIOUS
    <2>2. NestedAt(f, 0) /\ NestedAt(g, 0)
      BY <2>1 DEF NestsUpTo
    <2>3. f[0] = {} /\ g[0] = {}
      BY <2>2 DEF NestedAt
    <2>4. QED
      BY <2>3
  <1>2. ASSUME NEW k \in Nat, k \in S PROVE k + 1 \in S
    <2>1. (k + 1) - 1 = k /\ k + 1 # 0
      OBVIOUS
    <2>2. CASE k + 1 <= n /\ k + 1 <= m
      <3>1. k + 1 \in 0..n /\ k + 1 \in 0..m /\ f[k] = g[k]
        BY <1>2, <2>2
      <3>2. NestedAt(f, k + 1) /\ NestedAt(g, k + 1)
        BY <3>1 DEF NestsUpTo
      <3>3. QED
        BY <2>1, <3>1, <3>2 DEF NestedAt
    <2>3. QED
      BY <2>2
  <1> HIDE DEF S
  <1>3. Nat \subseteq S
    BY <1>1, <1>2, UpFromZero
  <1>4. QED
    BY <1>3 DEF S

(* ... and there is one up to every number.                                *)
LEMMA NestsOn ==
    ASSUME NEW n \in Nat
    PROVE  \E g : NestsUpTo(g, n)
  <1> DEFINE S == {k \in Nat : \E g : NestsUpTo(g, k)}
  <1>1. 0 \in S
    <2> DEFINE g == [k \in 0..0 |-> {}]
    <2>1. NestsUpTo(g, 0)
      BY DEF NestsUpTo, NestedAt
    <2>2. QED
      BY <2>1
  <1>2. ASSUME NEW k \in Nat, k \in S PROVE k + 1 \in S
    <2>1. PICK g : NestsUpTo(g, k)
      BY <1>2
    <2> DEFINE f == [i \in 0..(k + 1) |-> IF i = k + 1 THEN Over(g[k]) ELSE g[i]]
    <2>2. f = [i \in 0..(k + 1) |-> f[i]]
      OBVIOUS
    <2>3. \A i \in 0..k : f[i] = g[i]
      OBVIOUS
    <2>4. f[k + 1] = Over(f[k])
      OBVIOUS
    <2> HIDE DEF f
    <2>5. ASSUME NEW i \in 0..(k + 1) PROVE NestedAt(f, i)
      <3>1. CASE i = k + 1
        <4>1. i # 0 /\ i - 1 = k
          BY <3>1
        <4>2. QED
          BY <2>4, <3>1, <4>1 DEF NestedAt
      <3>2. CASE i # k + 1
        <4>1. i \in 0..k /\ (i # 0 => i - 1 \in 0..k)
          BY <3>2
        <4>2. NestedAt(g, i)
          BY <2>1, <4>1 DEF NestsUpTo
        <4>3. QED
          BY <2>3, <4>1, <4>2 DEF NestedAt
      <3>3. QED
        BY <3>1, <3>2
    <2>6. NestsUpTo(f, k + 1)
      BY <2>2, <2>5 DEF NestsUpTo
    <2>7. QED
      BY <2>6
  <1> HIDE DEF S
  <1>3. Nat \subseteq S
    BY <1>1, <1>2, UpFromZero
  <1>4. QED
    BY <1>3 DEF S

(* There is such a function, so Nested is one.                             *)
LEMMA NestedIs ==
    \A k \in Nat : NestedAt(Nested, k)
  <1> DEFINE Up(n) == CHOOSE g : NestsUpTo(g, n)
             F == [k \in Nat |-> Up(k)[k]]
  <1>1. ASSUME NEW n \in Nat PROVE NestsUpTo(Up(n), n)
    BY NestsOn
  <1>2. ASSUME NEW k \in Nat PROVE F[k] = IF k = 0 THEN {} ELSE Over(F[k - 1])
    <2>1. F[k] = Up(k)[k] /\ k \in 0..k
      OBVIOUS
    <2>2. NestedAt(Up(k), k)
      BY <1>1, <2>1 DEF NestsUpTo
    <2>3. CASE k = 0
      BY <2>1, <2>2, <2>3 DEF NestedAt
    <2>4. CASE k # 0
      <3>1. k - 1 \in Nat /\ k - 1 <= k - 1 /\ k - 1 <= k
        BY <2>4
      <3>2. F[k - 1] = Up(k - 1)[k - 1]
        BY <3>1
      <3>3. NestsUpTo(Up(k), k) /\ NestsUpTo(Up(k - 1), k - 1)
        BY <1>1, <3>1
      <3> HIDE DEF F, Up
      <3>4. Up(k)[k - 1] = Up(k - 1)[k - 1]
        BY <3>1, <3>3, NestsOnce
      <3>5. QED
        BY <2>1, <2>2, <2>4, <3>2, <3>4 DEF NestedAt
    <2>5. QED
      BY <2>3, <2>4
  <1>3. F = [k \in Nat |-> F[k]]
    OBVIOUS
  <1> HIDE DEF F
  <1>4. F = [k \in Nat |-> IF k = 0 THEN {} ELSE Over(F[k - 1])]
    BY <1>2, <1>3
  <1>5. \E g : g = [k \in Nat |-> IF k = 0 THEN {} ELSE Over(g[k - 1])]
    BY <1>4
  <1>6. Nested = [k \in Nat |-> IF k = 0 THEN {} ELSE Over(Nested[k - 1])]
    BY <1>5, Zenon DEF Nested
  <1>7. ASSUME NEW k \in Nat PROVE NestedAt(Nested, k)
    BY <1>6 DEF NestedAt
  <1>8. QED
    BY <1>7

(* Parts nested less than j deep are nested less than k deep.              *)
LEMMA NestedGrows ==
    ASSUME NEW j \in Nat, NEW k \in Nat, j <= k
    PROVE  Nested[j] \subseteq Nested[k]
  <1> DEFINE S == {i \in Nat : Nested[i] \subseteq Nested[i + 1]}
             U == {i \in Nat : Nested[j] \subseteq Nested[j + i]}
  <1>1. 0 \in S
    BY NestedIs DEF NestedAt
  <1>2. ASSUME NEW i \in Nat, i \in S PROVE i + 1 \in S
    <2>1. Nested[i] \subseteq Nested[i + 1]
      BY <1>2
    <2>2. /\ i + 1 \in Nat /\ (i + 1) + 1 \in Nat /\ i + 1 # 0 /\ (i + 1) + 1 # 0
          /\ (i + 1) - 1 = i /\ ((i + 1) + 1) - 1 = i + 1
      OBVIOUS
    <2>3. NestedAt(Nested, i + 1) /\ NestedAt(Nested, (i + 1) + 1)
      BY <2>2, NestedIs
    <2>4. Nested[i + 1] = Over(Nested[i]) /\ Nested[(i + 1) + 1] = Over(Nested[i + 1])
      BY <2>2, <2>3 DEF NestedAt
    <2>5. Seq(Nested[i]) \subseteq Seq(Nested[i + 1])
      BY <2>1, SeqMonotonic
    <2>6. Over(Nested[i]) \subseteq Over(Nested[i + 1])
      <3> HIDE DEF S, U
      <3> QED BY <2>5 DEF Over
    <2>7. QED
      BY <2>4, <2>6
  <1>3. Nat \subseteq S
    <2> HIDE DEF S
    <2> QED BY <1>1, <1>2, UpFromZero
  <1>4. 0 \in U
    BY SMT
  <1>5. ASSUME NEW i \in Nat, i \in U PROVE i + 1 \in U
    <2>1. j + i \in Nat /\ j + (i + 1) = (j + i) + 1
      OBVIOUS
    <2>2. j + i \in S
      BY <1>3, <2>1
    <2>3. QED
      BY <1>5, <2>1, <2>2
  <1>6. Nat \subseteq U
    <2> HIDE DEF U
    <2> QED BY <1>4, <1>5, UpFromZero
  <1>7. k - j \in Nat /\ j + (k - j) = k
    OBVIOUS
  <1>8. k - j \in U
    BY <1>6, <1>7
  <1>9. QED
    BY <1>7, <1>8

(* Finitely many parts are nested less than some k deep.                   *)
LEMMA PartsNested ==
    ASSUME NEW x \in Seq(Part)
    PROVE  \E k \in Nat : x \in Seq(Nested[k])
  <1> DEFINE S == {m \in Nat : \E k \in Nat :
                      \A i \in 1..Len(x) : i <= m => x[i] \in Nested[k]}
  <1>1. Len(x) \in Nat /\ \A i \in 1..Len(x) : x[i] \in Part
    BY ElementOfSeq, LenProperties
  <1>2. 0 \in S
    OBVIOUS
  <1>3. ASSUME NEW m \in Nat, m \in S PROVE m + 1 \in S
    <2>1. PICK k \in Nat : \A i \in 1..Len(x) : i <= m => x[i] \in Nested[k]
      BY <1>3
    <2>2. CASE m + 1 \in 1..Len(x)
      <3>1. PICK l \in Nat : x[m + 1] \in Nested[l]
        BY <1>1, <2>2 DEF Part
      <3> DEFINE d == IF k <= l THEN l ELSE k
      <3>2. d \in Nat /\ k <= d /\ l <= d
        OBVIOUS
      <3> HIDE DEF d
      <3>3. Nested[k] \subseteq Nested[d] /\ Nested[l] \subseteq Nested[d]
        BY <3>2, NestedGrows
      <3>4. ASSUME NEW i \in 1..Len(x), i <= m + 1 PROVE x[i] \in Nested[d]
        <4>1. i <= m \/ i = m + 1
          BY <1>1, <3>4
        <4>2. QED
          BY <2>1, <3>1, <3>3, <4>1
      <3>5. QED
        BY <3>2, <3>4
    <2>3. CASE m + 1 \notin 1..Len(x)
      <3>1. \A i \in 1..Len(x) : i <= m
        BY <1>1, <2>3
      <3>2. QED
        BY <2>1, <3>1
    <2>4. QED
      BY <2>2, <2>3
  <1>4. Nat \subseteq S
    <2> HIDE DEF S
    <2> QED BY <1>2, <1>3, UpFromZero
  <1>5. PICK k \in Nat : \A i \in 1..Len(x) : i <= Len(x) => x[i] \in Nested[k]
    BY <1>1, <1>4
  <1>6. \A i \in 1..Len(x) : x[i] \in Nested[k]
    BY <1>1, <1>5
  <1>7. x \in Seq(Nested[k])
    <2>1. x = [i \in 1..Len(x) |-> x[i]]
      BY LenProperties
    <2>2. QED
      BY <1>1, <1>6, <2>1, SeqDef
  <1>8. QED
    BY <1>7

(* The parts are closed: an object of parts is one.                        *)
LEMMA PartsClosed ==
    ASSUME NEW r \in Recognizer, NEW p \in Nat, NEW n \in Nat
    PROVE  /\ Value(r, p, n) \in Part
           /\ \A x \in Seq(Part) : Object(r, p, n, x) \in Part
  <1>1. ASSUME NEW k \in Nat, NEW y \in Over(Nested[k]) PROVE y \in Part
    <2>1. k + 1 \in Nat /\ k + 1 # 0 /\ (k + 1) - 1 = k
      OBVIOUS
    <2>2. Nested[k + 1] = Over(Nested[k])
      BY <2>1, NestedIs DEF NestedAt
    <2>3. QED
      BY <2>1, <2>2 DEF Part
  <1>2. Value(r, p, n) \in Over(Nested[0])
    BY DEF Over
  <1>3. ASSUME NEW x \in Seq(Part) PROVE Object(r, p, n, x) \in Part
    <2>1. PICK k \in Nat : x \in Seq(Nested[k])
      BY PartsNested
    <2>2. Object(r, p, n, x) \in Over(Nested[k])
      BY <2>1 DEF Over
    <2>3. QED
      BY <1>1, <2>2
  <1>4. QED
    BY <1>1, <1>2, <1>3

----------------------------------------------------------------------------
(* More is given, more that follows.                                       *)
LEMMA InsideMore ==
    ASSUME NEW G, NEW F, G \subseteq F, NEW s, NEW h, NEW r \in Recognizer, NEW p, NEW x,
           Inside(G, s, h, r, p, x)
    PROVE  Inside(F, s, h, r, p, x)
  <1>1. \A k, ends, got : Gets(G, h, r, k, ends, got) => Gets(F, h, r, k, ends, got)
    BY Zenon DEF Gets
  <1>2. \A M, k, ends : Collects(G, M, h, r, p, k, ends, x) => Collects(F, M, h, r, p, k, ends, x)
    BY <1>1, Zenon DEF Collects
  <1>3. Shape[r].kind \in Kind
    BY ElementsTyped
  <1>4. \A e, q : <<h, e, q, x>> \in G => <<h, e, q, x>> \in F
    OBVIOUS
  <1> DEFINE M == Meant(s)
             es == Shape[r].elements
             Ends(k) == [0..k -> Nat]
             Goes1(k, ends) ==
                   /\ \A i \in 1..k : LoopGoesOn(r, i - 1, s, ends[i - 1])
                   /\ \/ ~LoopGoesOn(r, k, s, ends[k])
                      \/ <<ElementAt(r, k + 1), ends[k], NPos>> \in M
  <1>5. CASE Shape[r].kind = "text"
    BY <1>5 DEF Inside
  <1>6. CASE Shape[r].kind = "delegate"
    BY <1>4, <1>6 DEF Inside
  <1>7. CASE Shape[r].kind = "sequence"
    <2>1. \E ends \in [0..Len(es) -> Nat] : Collects(G, M, h, r, p, Len(es), ends, x)
      BY <1>7 DEF Inside
    <2>2. \E ends \in [0..Len(es) -> Nat] : Collects(F, M, h, r, p, Len(es), ends, x)
      BY <1>2, <2>1
    <2>3. QED
      BY <1>7, <2>2 DEF Inside
  <1>8. CASE Shape[r].kind = "loop"
    <2>1. \E k \in Nat : \E ends \in [0..k -> Nat] :
             Collects(G, M, h, r, p, k, ends, x) /\ Goes1(k, ends)
      BY <1>8 DEF Inside
    <2> HIDE DEF Goes1
    <2>2. \E k \in Nat : \E ends \in [0..k -> Nat] :
             Collects(F, M, h, r, p, k, ends, x) /\ Goes1(k, ends)
      BY <1>2, <2>1
    <2>3. QED
      BY <1>8, <2>2 DEF Inside, Goes1
  <1>9. CASE Shape[r].kind = "exclusive"
    BY <1>4, <1>9 DEF Inside
  <1>10. CASE Shape[r].kind = "selector"
    BY <1>4, <1>10 DEF Inside
  <1>11. QED
    BY <1>3, <1>5, <1>6, <1>7, <1>8, <1>9, <1>10 DEF Kind

(* ... so more gives more.                                                 *)
LEMMA GivesMore ==
    ASSUME NEW G, NEW F, G \subseteq F, NEW s, NEW h, NEW r \in Recognizer, NEW p, NEW x,
           Gives(G, s, h, r, p, x)
    PROVE  Gives(F, s, h, r, p, x)
  <1>1. \A y, d : Inside(G, s, d, r, p, y) => Inside(F, s, d, r, p, y)
    BY InsideMore
  <1>2. PICK n \in Matched :
           /\ <<r, p, n>> \in Meant(s)
           /\ n <= 0 => x = <<>>
           /\ n > 0 => \E y \in Seq(Part) :
                 IF r \in Handled THEN Inside(G, s, r, r, p, y) /\ x = Itself(h, r, p, n, y)
                 ELSE Inside(G, s, h, r, p, y) /\ x = y \o Itself(h, r, p, n, y)
    BY DEF Gives
  <1>3. n > 0 => \E y \in Seq(Part) :
           IF r \in Handled THEN Inside(F, s, r, r, p, y) /\ x = Itself(h, r, p, n, y)
           ELSE Inside(F, s, h, r, p, y) /\ x = y \o Itself(h, r, p, n, y)
    BY <1>1, <1>2
  <1>4. QED
    BY <1>2, <1>3 DEF Gives

(* What follows from what is given is given ...                            *)
LEMMA GivenCompletes == ASSUME NEW s PROVE Complete(Gifts(s), s)
  <1> SUFFICES ASSUME NEW h \in Handled, NEW r \in Recognizer, NEW p \in Nat,
                      NEW x \in Seq(Part), Gives(Gifts(s), s, h, r, p, x)
               PROVE  <<h, r, p, x>> \in Gifts(s)
    BY DEF Complete
  <1>1. ASSUME NEW G \in SUBSET Giving, Complete(G, s) PROVE <<h, r, p, x>> \in G
    <2>1. Gifts(s) \subseteq G
      BY <1>1 DEF Gifts
    <2>2. Gives(G, s, h, r, p, x)
      BY <2>1, GivesMore
    <2>3. QED
      BY <1>1, <2>2 DEF Complete
  <1>2. <<h, r, p, x>> \in Giving
    BY DEF Giving
  <1>3. QED
    BY <1>1, <1>2 DEF Gifts

(* ... and nothing else is.                                                *)
LEMMA GivenFollows ==
    ASSUME NEW s, NEW h \in Handled, NEW r \in Recognizer, NEW p \in Nat, NEW x \in Seq(Part),
           <<h, r, p, x>> \in Gifts(s)
    PROVE  Gives(Gifts(s), s, h, r, p, x)
  <1> DEFINE S == {g \in Giving : Gives(Gifts(s), s, g[1], g[2], g[3], g[4])}
  <1>1. \A a \in Handled, b \in Recognizer, c \in Nat, d \in Seq(Part) :
           <<a, b, c, d>> \in S <=> Gives(Gifts(s), s, a, b, c, d)
    BY DEF Giving
  <1>2. S \in SUBSET Giving
    OBVIOUS
  <1> HIDE DEF S
  <1>3. S \subseteq Gifts(s)
    <2>1. ASSUME NEW g \in S PROVE g \in Gifts(s)
      <3>1. PICK a \in Handled, b \in Recognizer, c \in Nat, d \in Seq(Part) : g = <<a, b, c, d>>
        BY <1>2 DEF Giving
      <3>2. Gives(Gifts(s), s, a, b, c, d)
        BY <1>1, <3>1
      <3>3. QED
        BY <3>1, <3>2, GivenCompletes DEF Complete
    <2>2. QED
      BY <2>1
  <1>4. Complete(S, s)
    <2>1. ASSUME NEW a \in Handled, NEW b \in Recognizer, NEW c \in Nat, NEW d \in Seq(Part),
                 Gives(S, s, a, b, c, d)
          PROVE  <<a, b, c, d>> \in S
      <3>1. Gives(Gifts(s), s, a, b, c, d)
        BY <1>3, <2>1, GivesMore
      <3>2. QED
        BY <1>1, <3>1
    <2>2. QED
      BY <2>1 DEF Complete
  <1>5. <<h, r, p, x>> \in S
    BY <1>2, <1>4 DEF Gifts
  <1>6. QED
    BY <1>1, <1>5

(* For each answer in S, every handler's element is given one thing.       *)
OneGift(G, r, p) ==
    \A h \in Handled :
       /\ \E y \in Seq(Part) : <<h, r, p, y>> \in G
       /\ \A y \in Seq(Part), z \in Seq(Part) :
             <<h, r, p, y>> \in G /\ <<h, r, p, z>> \in G => y = z

Gifted(S, G) ==
    \A r \in Recognizer, p \in Nat, n \in Matched : <<r, p, n>> \in S => OneGift(G, r, p)

(* So the elements along a trail give one sequence ...                     *)
LEMMA TrailGifted ==
    ASSUME NEW S, NEW G, Gifted(S, G), NEW r \in Recognizer, NEW p, NEW k \in Nat, NEW ends,
           Shape[r].kind = "loop" \/ k <= Len(Shape[r].elements), Trail(S, r, p, k, ends)
    PROVE  \A i \in 1..k : OneGift(G, ElementAt(r, i), ends[i - 1])
  <1> SUFFICES ASSUME NEW i \in 1..k PROVE OneGift(G, ElementAt(r, i), ends[i - 1])
    OBVIOUS
  <1>1. ElementAt(r, i) \in Recognizer
    BY ElementsTyped
  <1>2. /\ ends[i - 1] \in Nat /\ ends[i] \in Nat /\ ends[i - 1] <= ends[i]
        /\ <<ElementAt(r, i), ends[i - 1], ends[i] - ends[i - 1]>> \in S
    BY DEF Trail
  <1>3. ends[i] - ends[i - 1] \in Matched
    BY <1>2 DEF Matched
  <1>4. QED
    BY <1>1, <1>2, <1>3 DEF Gifted

(* ... there is one ...                                                    *)
LEMMA GetsSome ==
    ASSUME NEW S, NEW G, Gifted(S, G), NEW r \in Recognizer, NEW p, NEW k \in Nat, NEW ends,
           Shape[r].kind = "loop" \/ k <= Len(Shape[r].elements), Trail(S, r, p, k, ends),
           NEW h \in Handled
    PROVE  \E got \in [0..k -> Seq(Part)] : Gets(G, h, r, k, ends, got)
  <1> DEFINE T == {j \in Nat : j <= k =>
                      \E got \in [0..j -> Seq(Part)] : Gets(G, h, r, j, ends, got)}
  <1>1. 0 \in T
    <2> DEFINE got == [i \in 0..0 |-> <<>>]
    <2>1. got \in [0..0 -> Seq(Part)] /\ got[0] = <<>>
      BY EmptySeq
    <2>2. Gets(G, h, r, 0, ends, got)
      BY <2>1 DEF Gets
    <2>3. QED
      BY <2>1, <2>2
  <1>2. ASSUME NEW j \in Nat, j \in T PROVE j + 1 \in T
    <2>1. SUFFICES ASSUME j + 1 <= k
                   PROVE  \E got \in [0..(j + 1) -> Seq(Part)] : Gets(G, h, r, j + 1, ends, got)
      OBVIOUS
    <2>2. j <= k /\ j + 1 \in 1..k /\ (j + 1) - 1 = j
      BY <2>1
    <2>3. PICK got \in [0..j -> Seq(Part)] : Gets(G, h, r, j, ends, got)
      BY <1>2, <2>2
    <2>4. OneGift(G, ElementAt(r, j + 1), ends[j])
      BY <2>2, TrailGifted
    <2>5. PICK y \in Seq(Part) : <<h, ElementAt(r, j + 1), ends[j], y>> \in G
      BY <2>4 DEF OneGift
    <2> DEFINE more == [i \in 0..(j + 1) |-> IF i = j + 1 THEN got[j] \o y ELSE got[i]]
    <2>6. got[j] \in Seq(Part) /\ got[j] \o y \in Seq(Part)
      BY ConcatProperties
    <2>7. /\ more \in [0..(j + 1) -> Seq(Part)]
          /\ \A i \in 0..j : more[i] = got[i]
          /\ more[j + 1] = more[j] \o y
      BY <2>6
    <2> HIDE DEF more
    <2>8. more[0] = <<>>
      BY <2>3, <2>7 DEF Gets
    <2>9. ASSUME NEW i \in 1..(j + 1)
          PROVE  \E z \in Seq(Part) : <<h, ElementAt(r, i), ends[i - 1], z>> \in G
                                         /\ more[i] = more[i - 1] \o z
      <3>1. CASE i = j + 1
        BY <2>2, <2>5, <2>7, <3>1
      <3>2. CASE i # j + 1
        <4>1. i \in 1..j /\ i \in 0..j /\ i - 1 \in 0..j
          BY <3>2
        <4>2. \E z \in Seq(Part) : <<h, ElementAt(r, i), ends[i - 1], z>> \in G
                                      /\ got[i] = got[i - 1] \o z
          BY <2>3, <4>1 DEF Gets
        <4>3. QED
          BY <2>7, <4>1, <4>2
      <3>3. QED
        BY <3>1, <3>2
    <2>10. QED
      BY <2>7, <2>8, <2>9 DEF Gets
  <1> HIDE DEF T
  <1>3. Nat \subseteq T
    BY <1>1, <1>2, UpFromZero
  <1>4. QED
    BY <1>3 DEF T

(* ... and no other.                                                       *)
LEMMA GetsOnce ==
    ASSUME NEW S, NEW G, Gifted(S, G), NEW r \in Recognizer, NEW p, NEW k \in Nat, NEW ends,
           Shape[r].kind = "loop" \/ k <= Len(Shape[r].elements), Trail(S, r, p, k, ends),
           NEW h \in Handled, NEW a, NEW b,
           Gets(G, h, r, k, ends, a), Gets(G, h, r, k, ends, b)
    PROVE  a[k] = b[k]
  <1> DEFINE T == {j \in Nat : j <= k => a[j] = b[j]}
  <1>1. 0 \in T
    BY DEF Gets
  <1>2. ASSUME NEW j \in Nat, j \in T PROVE j + 1 \in T
    <2>1. SUFFICES ASSUME j + 1 <= k PROVE a[j + 1] = b[j + 1]
      OBVIOUS
    <2>2. j <= k /\ j + 1 \in 1..k /\ (j + 1) - 1 = j
      BY <2>1
    <2>3. OneGift(G, ElementAt(r, j + 1), ends[j])
      BY <2>2, TrailGifted
    <2>4. PICK y \in Seq(Part) : <<h, ElementAt(r, j + 1), ends[j], y>> \in G
                                    /\ a[j + 1] = a[j] \o y
      BY <2>2 DEF Gets
    <2>5. PICK z \in Seq(Part) : <<h, ElementAt(r, j + 1), ends[j], z>> \in G
                                    /\ b[j + 1] = b[j] \o z
      BY <2>2 DEF Gets
    <2>6. y = z
      BY <2>3, <2>4, <2>5 DEF OneGift
    <2>7. QED
      BY <1>2, <2>2, <2>4, <2>5, <2>6
  <1> HIDE DEF T
  <1>3. Nat \subseteq T
    BY <1>1, <1>2, UpFromZero
  <1>4. QED
    BY <1>3 DEF T

(* ... also when it is gathered along a trail that others may be on.       *)
Settled(S, s, G) == S \subseteq Meant(s) /\ Sure(S, Meant(s)) /\ Gifted(S, G)

(* There is no other trail that goes as far ...                            *)
LEMMA CollectsOnce ==
    ASSUME NEW S, NEW s, NEW G, Settled(S, s, G), NEW r \in Recognizer, NEW p \in Nat,
           NEW k \in Nat, Shape[r].kind = "loop" \/ k <= Len(Shape[r].elements),
           NEW ends \in [0..k -> Nat], Trail(S, r, p, k, ends), NEW h \in Handled,
           NEW d \in [0..k -> Nat], NEW x, Collects(G, Meant(s), h, r, p, k, d, x)
    PROVE  Collects(G, Meant(s), h, r, p, k, ends, x) /\ d = ends
  <1>1. Trail(Meant(s), r, p, k, d)
    BY DEF Collects
  <1>2. Agree(k, k, ends, d)
    BY <1>1, TrailsAgree DEF Settled
  <1>3. d = ends
    BY <1>2 DEF Agree
  <1>4. QED
    BY <1>3

(* ... so nothing else is gathered on the way ...                          *)
LEMMA OneCollected ==
    ASSUME NEW S, NEW s, NEW G, Settled(S, s, G), NEW r \in Recognizer, NEW p \in Nat,
           NEW k \in Nat, Shape[r].kind = "loop" \/ k <= Len(Shape[r].elements),
           NEW ends \in [0..k -> Nat], Trail(S, r, p, k, ends), NEW h \in Handled,
           NEW x, NEW y, \E d \in [0..k -> Nat] : Collects(G, Meant(s), h, r, p, k, d, x),
           \E d \in [0..k -> Nat] : Collects(G, Meant(s), h, r, p, k, d, y)
    PROVE  x = y
  <1>a. PICK d \in [0..k -> Nat] : Collects(G, Meant(s), h, r, p, k, d, x)
    OBVIOUS
  <1>b. PICK e \in [0..k -> Nat] : Collects(G, Meant(s), h, r, p, k, e, y)
    OBVIOUS
  <1>1. Collects(G, Meant(s), h, r, p, k, ends, x) /\ Collects(G, Meant(s), h, r, p, k, ends, y)
    BY <1>a, <1>b, CollectsOnce
  <1>2. PICK a : Gets(G, h, r, k, ends, a) /\ x = a[k]
    BY <1>1 DEF Collects
  <1>3. PICK b : Gets(G, h, r, k, ends, b) /\ y = b[k]
    BY <1>1 DEF Collects
  <1>4. QED
    BY <1>2, <1>3, GetsOnce DEF Settled

(* ... and something is.                                                   *)
LEMMA SomeCollected ==
    ASSUME NEW S, NEW s, NEW G, Settled(S, s, G), NEW r \in Recognizer, NEW p \in Nat,
           NEW k \in Nat, Shape[r].kind = "loop" \/ k <= Len(Shape[r].elements),
           NEW ends \in [0..k -> Nat], Trail(S, r, p, k, ends), NEW h \in Handled
    PROVE  \E x \in Seq(Part) : Collects(G, Meant(s), h, r, p, k, ends, x)
  <1>1. PICK got \in [0..k -> Seq(Part)] : Gets(G, h, r, k, ends, got)
    BY GetsSome DEF Settled
  <1>2. got[k] \in Seq(Part)
    OBVIOUS
  <1>3. Trail(Meant(s), r, p, k, ends)
    BY DEF Trail, Settled
  <1>4. Collects(G, Meant(s), h, r, p, k, ends, got[k])
    BY <1>1, <1>3 DEF Collects
  <1>5. QED
    BY <1>2, <1>4

(* What is inside a match that follows from answers in S: one thing.       *)
OneInside(G, s, h, r, p) ==
    /\ \E x \in Seq(Part) : Inside(G, s, h, r, p, x)
    /\ \A x \in Seq(Part), y \in Seq(Part) :
          Inside(G, s, h, r, p, x) /\ Inside(G, s, h, r, p, y) => x = y

(* A text has nothing inside ...                                           *)
LEMMA OneInText ==
    ASSUME NEW G, NEW s, NEW h, NEW r \in Recognizer, NEW p, Shape[r].kind = "text"
    PROVE  OneInside(G, s, h, r, p)
  <1> DEFINE none == <<>>
  <1>1. \A x : Inside(G, s, h, r, p, x) <=> x = none
    BY DEF Inside
  <1>2. none \in Seq(Part)
    BY EmptySeq
  <1> HIDE DEF none
  <1>3. QED
    BY <1>1, <1>2 DEF OneInside

(* ... a delegate what its element gives ...                               *)
LEMMA OneInDelegate ==
    ASSUME NEW S, NEW s, NEW G, Settled(S, s, G), NEW h \in Handled, NEW r \in Recognizer,
           NEW p \in Nat, NEW n \in Nat, n > 0, Follows(S, s, r, p, n),
           Shape[r].kind = "delegate"
    PROVE  OneInside(G, s, h, r, p)
  <1> DEFINE e == Shape[r].elements[1]
  <1>1. \A x : Inside(G, s, h, r, p, x) <=> <<h, e, p, x>> \in G
    BY DEF Inside
  <1>2. <<e, p, n>> \in S
    BY DEF Follows
  <1>3. e \in Recognizer /\ n \in Matched
    BY ElementsTyped DEF Matched
  <1>4. OneGift(G, e, p)
    BY <1>2, <1>3 DEF Settled, Gifted
  <1>5. QED
    BY <1>1, <1>4 DEF OneGift, OneInside

(* ... a sequence what its elements give, one after the other ...          *)
LEMMA OneInSequence ==
    ASSUME NEW S, NEW s, NEW G, Settled(S, s, G), NEW h \in Handled, NEW r \in Recognizer,
           NEW p \in Nat, NEW n \in Nat, n > 0, Follows(S, s, r, p, n),
           Shape[r].kind = "sequence"
    PROVE  OneInside(G, s, h, r, p)
  <1> DEFINE k == Len(Shape[r].elements)
             M == Meant(s)
  <1>1. k \in Nat
    BY ElementsTyped
  <1>2. \A x : Inside(G, s, h, r, p, x) <=>
           \E d \in [0..k -> Nat] : Collects(G, M, h, r, p, k, d, x)
    BY DEF Inside
  <1>3. InOrder(S, r, p, n)
    BY DEF Follows
  <1>4. n # NPos
    BY DEF NPos
  <1>5. PICK ends \in [0..k -> Nat] : Trail(S, r, p, k, ends)
    BY <1>3, <1>4 DEF InOrder
  <1> HIDE DEF k
  <1>6. k <= Len(Shape[r].elements)
    BY <1>1 DEF k
  <1>7. \E x \in Seq(Part) : Collects(G, M, h, r, p, k, ends, x)
    BY <1>1, <1>5, <1>6, SomeCollected
  <1>8. ASSUME NEW x \in Seq(Part), NEW y \in Seq(Part), Inside(G, s, h, r, p, x),
               Inside(G, s, h, r, p, y)
        PROVE  x = y
    <2>1. \E d \in [0..k -> Nat] : Collects(G, M, h, r, p, k, d, x)
      BY <1>2, <1>8
    <2>2. \E d \in [0..k -> Nat] : Collects(G, M, h, r, p, k, d, y)
      BY <1>2, <1>8
    <2>3. QED
      BY <1>1, <1>5, <1>6, <2>1, <2>2, OneCollected
  <1>9. QED
    BY <1>2, <1>5, <1>7, <1>8 DEF OneInside

(* A loop that stops after k repetitions, and one that stops after l.      *)
Stops(M, s, r, k, ends) ==
    /\ \A i \in 1..k : LoopGoesOn(r, i - 1, s, ends[i - 1])
    /\ \/ ~LoopGoesOn(r, k, s, ends[k])
       \/ <<ElementAt(r, k + 1), ends[k], NPos>> \in M

(* A loop stops after one number of repetitions only.                      *)
LEMMA StopsOnce ==
    ASSUME NEW U, NEW M, Sure(U, M), NEW s, NEW r \in Recognizer, Shape[r].kind = "loop",
           NEW p \in Nat, NEW k \in Nat, NEW l \in Nat, NEW e, NEW d,
           Trail(U, r, p, k, e), Trail(M, r, p, l, d), Stops(U, s, r, k, e), Stops(M, s, r, l, d)
    PROVE  k = l
  <1>1. Agree(k, l, e, d)
    BY TrailsAgree
  <1>2. \A i \in Nat : ElementAt(r, i + 1) \in Recognizer
    BY ElementsTyped DEF ElementAt
  <1>3. NPos \in Matched /\ ~(NPos >= 0) /\ Nat \subseteq Matched
    BY DEF Matched, NPos
  <1>4. CASE k < l
    <2>1. /\ k \in 0..k /\ k <= l /\ k + 1 \in 1..l /\ (k + 1) - 1 = k
      BY <1>4
    <2>2. e[k] = d[k]
      BY <1>1, <2>1 DEF Agree
    <2>3. LoopGoesOn(r, k, s, e[k])
      BY <2>1, <2>2 DEF Stops
    <2>4. <<ElementAt(r, k + 1), e[k], NPos>> \in U
      BY <2>3 DEF Stops
    <2>5. /\ d[k] \in Nat /\ d[k + 1] \in Nat /\ d[k] <= d[k + 1]
          /\ <<ElementAt(r, k + 1), d[k], d[k + 1] - d[k]>> \in M
      BY <2>1 DEF Trail
    <2>6. d[k + 1] - d[k] \in Nat
      BY <2>5
    <2>7. d[k + 1] - d[k] = NPos
      BY <1>2, <1>3, <2>2, <2>4, <2>5, <2>6 DEF Sure
    <2>8. QED
      BY <1>3, <2>6, <2>7
  <1>5. CASE l < k
    <2>1. /\ l \in 0..k /\ l <= l /\ l + 1 \in 1..k /\ (l + 1) - 1 = l
      BY <1>5
    <2>2. e[l] = d[l]
      BY <1>1, <2>1 DEF Agree
    <2>3. LoopGoesOn(r, l, s, d[l])
      BY <2>1, <2>2 DEF Stops
    <2>4. <<ElementAt(r, l + 1), d[l], NPos>> \in M
      BY <2>3 DEF Stops
    <2>5. /\ e[l] \in Nat /\ e[l + 1] \in Nat /\ e[l] <= e[l + 1]
          /\ <<ElementAt(r, l + 1), e[l], e[l + 1] - e[l]>> \in U
      BY <2>1 DEF Trail
    <2>6. e[l + 1] - e[l] \in Nat
      BY <2>5
    <2>7. e[l + 1] - e[l] = NPos
      BY <1>2, <1>3, <2>2, <2>4, <2>5, <2>6 DEF Sure
    <2>8. QED
      BY <1>3, <2>6, <2>7
  <1>6. QED
    BY <1>4, <1>5

(* So a loop has inside what its repetitions give ...                      *)
LEMMA OneInLoop ==
    ASSUME NEW S, NEW s, NEW G, Settled(S, s, G), NEW h \in Handled, NEW r \in Recognizer,
           NEW p \in Nat, NEW n \in Nat, n > 0, Follows(S, s, r, p, n),
           Shape[r].kind = "loop"
    PROVE  OneInside(G, s, h, r, p)
  <1> DEFINE M == Meant(s)
  <1>1. \A x : Inside(G, s, h, r, p, x) <=>
           \E k \in Nat : \E d \in [0..k -> Nat] :
              Collects(G, M, h, r, p, k, d, x) /\ Stops(M, s, r, k, d)
    BY DEF Inside, Stops
  <1>2. Repeats(S, s, r, p, n)
    BY DEF Follows
  <1>3. PICK k \in Nat : \E ends \in [0..k -> Nat] :
           Trail(S, r, p, k, ends) /\ Stops(S, s, r, k, ends)
    BY <1>2 DEF Repeats, Stops
  <1>4. PICK ends \in [0..k -> Nat] : Trail(S, r, p, k, ends) /\ Stops(S, s, r, k, ends)
    BY <1>3
  <1>5. Stops(M, s, r, k, ends)
    BY <1>4 DEF Stops, Settled
  <1>6. \E x \in Seq(Part) : Collects(G, M, h, r, p, k, ends, x)
    BY <1>4, SomeCollected
  <1>7. ASSUME NEW x, Inside(G, s, h, r, p, x)
        PROVE  \E d \in [0..k -> Nat] : Collects(G, M, h, r, p, k, d, x)
    <2>1. PICK l \in Nat : \E d \in [0..l -> Nat] :
             Collects(G, M, h, r, p, l, d, x) /\ Stops(M, s, r, l, d)
      BY <1>1, <1>7
    <2>2. PICK d \in [0..l -> Nat] : Collects(G, M, h, r, p, l, d, x) /\ Stops(M, s, r, l, d)
      BY <2>1
    <2>3. Trail(M, r, p, l, d)
      BY <2>2 DEF Collects
    <2>4. k = l
      BY <1>4, <2>2, <2>3, StopsOnce DEF Settled
    <2>5. QED
      BY <2>2, <2>4
  <1>8. ASSUME NEW x \in Seq(Part), NEW y \in Seq(Part), Inside(G, s, h, r, p, x),
               Inside(G, s, h, r, p, y)
        PROVE  x = y
    <2>1. \E d \in [0..k -> Nat] : Collects(G, M, h, r, p, k, d, x)
      BY <1>7, <1>8
    <2>2. \E d \in [0..k -> Nat] : Collects(G, M, h, r, p, k, d, y)
      BY <1>7, <1>8
    <2>3. QED
      BY <1>4, <2>1, <2>2, OneCollected
  <1>9. \E x \in Seq(Part) : Inside(G, s, h, r, p, x)
    BY <1>1, <1>5, <1>6
  <1>10. QED
    BY <1>8, <1>9 DEF OneInside

(* What the first alternative that matches gives.                          *)
LEMMA OneInExclusive ==
    ASSUME NEW S, NEW s, NEW G, Settled(S, s, G), NEW h \in Handled, NEW r \in Recognizer,
           NEW p \in Nat, NEW n \in Nat, n > 0, Follows(S, s, r, p, n),
           Shape[r].kind = "exclusive"
    PROVE  OneInside(G, s, h, r, p)
  <1> DEFINE es == Shape[r].elements
             M == Meant(s)
  <1>1. \A x : Inside(G, s, h, r, p, x) <=>
           \E i \in 1..Len(es) : IsFirst(M, r, p, i) /\ <<h, es[i], p, x>> \in G
    BY DEF Inside
  <1>2. FirstOf(S, r, p, n)
    BY DEF Follows
  <1>3. n # NPos /\ Nat \subseteq Matched /\ NPos \in Matched /\ 0 \in Matched /\ ~(NPos > 0)
    BY DEF NPos, Matched
  <1>4. PICK i \in 1..Len(es) : Refused(S, r, p, i - 1) /\ <<es[i], p, n>> \in S
    BY <1>2, <1>3 DEF FirstOf
  <1>5. /\ Len(es) \in Nat /\ S \subseteq M /\ \A j \in 1..Len(es) : es[j] \in Recognizer
        /\ Sure(S, M)
    BY ElementsTyped DEF Settled
  <1>6. Refused(M, r, p, i - 1)
    BY <1>4, <1>5 DEF Refused
  <1>7. IsFirst(M, r, p, i)
    BY <1>4, <1>5, <1>6 DEF IsFirst
  <1>8. ASSUME NEW j \in 1..Len(es), IsFirst(M, r, p, j) PROVE j = i
    <2>1. PICK m \in Nat : m > 0 /\ <<es[j], p, m>> \in M
      BY <1>8 DEF IsFirst
    <2>2. Refused(M, r, p, j - 1)
      BY <1>8 DEF IsFirst
    <2>3. CASE j < i
      <3>1. j \in 1..(i - 1)
        BY <1>5, <2>3
      <3>2. PICK q \in {NPos, 0} : <<es[j], p, q>> \in S
        BY <1>4, <3>1 DEF Refused
      <3>3. q = m
        BY <1>3, <1>5, <2>1, <3>2 DEF Sure
      <3>4. QED
        BY <1>3, <2>1, <3>2, <3>3
    <2>4. CASE i < j
      <3>1. i \in 1..(j - 1)
        BY <1>5, <2>4
      <3>2. PICK q \in {NPos, 0} : <<es[i], p, q>> \in M
        BY <2>2, <3>1 DEF Refused
      <3>3. n = q
        BY <1>3, <1>4, <1>5, <3>2 DEF Sure
      <3>4. QED
        BY <1>3, <3>2, <3>3
    <2>5. QED
      BY <1>5, <2>3, <2>4
  <1>9. OneGift(G, es[i], p)
    BY <1>3, <1>4, <1>5 DEF Settled, Gifted
  <1>10. \A x : Inside(G, s, h, r, p, x) <=> <<h, es[i], p, x>> \in G
    BY <1>1, <1>7, <1>8
  <1>11. QED
    BY <1>9, <1>10 DEF OneGift, OneInside

(* What the first of the longest gives.                                    *)
LEMMA OneInSelector ==
    ASSUME NEW S, NEW s, NEW G, Settled(S, s, G), NEW h \in Handled, NEW r \in Recognizer,
           NEW p \in Nat, NEW n \in Nat, n > 0, Follows(S, s, r, p, n),
           Shape[r].kind = "selector"
    PROVE  OneInside(G, s, h, r, p)
  <1> DEFINE es == Shape[r].elements
             M == Meant(s)
             k == Len(es)
  <1>1. \A x : Inside(G, s, h, r, p, x) <=>
           \E i \in 1..k : IsLongest(M, r, p, i) /\ <<h, es[i], p, x>> \in G
    BY DEF Inside
  <1>2. Longest(S, r, p, k, n)
    BY DEF Follows
  <1>3. n # NPos /\ Nat \subseteq Matched /\ \A q \in Matched : q \in Int
    BY DEF NPos, Matched
  <1>4. PICK m \in [1..k -> Matched] :
           /\ \A i \in 1..k : <<es[i], p, m[i]>> \in S /\ m[i] <= n
           /\ \E i \in 1..k : n = m[i]
    BY <1>2, <1>3 DEF Longest
  <1>5. /\ k \in Nat /\ S \subseteq M /\ \A j \in 1..k : es[j] \in Recognizer
        /\ Sure(S, M)
    BY ElementsTyped DEF Settled
  <1> DEFINE Best == {i \in 1..k : m[i] = n}
  <1>6. \E i \in Best : \A j \in Best : i <= j
    <2>1. Best \subseteq Nat /\ Best # {}
      BY <1>4
    <2> HIDE DEF Best
    <2>2. QED
      BY <2>1, LeastNumber
  <1>7. PICK i \in Best : \A j \in Best : i <= j
    BY <1>6
  <1>8. i \in 1..k /\ m[i] = n /\ <<es[i], p, n>> \in S
    BY <1>4
  <1> HIDE DEF k
  <1>9. IsLongest(M, r, p, i)
    <2>1. ASSUME NEW j \in 1..k
          PROVE  \E q \in Matched : <<es[j], p, q>> \in M /\ q <= n /\ (j < i => q < n)
      <3>1. <<es[j], p, m[j]>> \in M /\ m[j] <= n /\ m[j] \in Matched /\ m[j] \in Int
        BY <1>3, <1>4, <1>5
      <3>2. ASSUME j < i PROVE m[j] # n
        <4>1. j \notin Best
          BY <1>5, <1>7, <1>8, <3>2
        <4>2. QED
          BY <4>1
      <3>3. QED
        BY <3>1, <3>2
    <2>2. QED
      BY <1>5, <1>8, <2>1 DEF IsLongest, k
  <1>10. ASSUME NEW j \in 1..k, IsLongest(M, r, p, j) PROVE j = i
    <2>1. PICK l \in Nat :
             /\ <<es[j], p, l>> \in M
             /\ \A a \in 1..k : \E q \in Matched :
                   <<es[a], p, q>> \in M /\ q <= l /\ (a < j => q < l)
      BY <1>10 DEF IsLongest, k
    <2>2. <<es[j], p, m[j]>> \in S /\ m[j] \in Matched /\ m[j] <= n
      BY <1>4
    <2>3. m[j] = l
      BY <1>3, <1>5, <2>1, <2>2 DEF Sure
    <2>4. PICK q \in Matched : <<es[i], p, q>> \in M /\ q <= l /\ (i < j => q < l)
      BY <1>8, <2>1
    <2>5. n = q
      BY <1>3, <1>5, <1>8, <2>4 DEF Sure
    <2>6. m[j] = n /\ ~(i < j)
      BY <2>2, <2>3, <2>4, <2>5
    <2>7. i <= j
      BY <1>7, <2>6
    <2>8. QED
      BY <1>5, <1>8, <2>6, <2>7
  <1>11. OneGift(G, es[i], p)
    BY <1>3, <1>5, <1>8 DEF Settled, Gifted
  <1>12. \A x : Inside(G, s, h, r, p, x) <=> <<h, es[i], p, x>> \in G
    BY <1>1, <1>8, <1>9, <1>10
  <1>13. QED
    BY <1>11, <1>12 DEF OneGift, OneInside

(* ... for every kind of recognizer.                                       *)
LEMMA InsideOnce ==
    ASSUME NEW S, NEW s, NEW G, Settled(S, s, G), NEW h \in Handled, NEW r \in Recognizer,
           NEW p \in Nat, NEW n \in Nat, n > 0, Follows(S, s, r, p, n)
    PROVE  OneInside(G, s, h, r, p)
  <1>1. Shape[r].kind \in Kind
    BY ElementsTyped
  <1>2. QED
    BY <1>1, OneInText, OneInDelegate, OneInSequence, OneInLoop, OneInExclusive,
       OneInSelector DEF Kind

(* What is given is a sequence of parts.                                   *)
LEMMA ItselfTyped ==
    ASSUME NEW h, NEW r \in Recognizer, NEW p \in Nat, NEW n \in Nat, NEW x \in Seq(Part)
    PROVE  Itself(h, r, p, n, x) \in Seq(Part)
  <1>1. Value(r, p, n) \in Part /\ Object(r, p, n, x) \in Part
    BY PartsClosed
  <1> DEFINE v == Value(r, p, n)
             o == Object(r, p, n, x)
  <1> HIDE DEF v, o
  <1>2. <<v>> \in Seq(Part) /\ <<o>> \in Seq(Part) /\ <<>> \in Seq(Part)
    BY <1>1, EmptySeq DEF v, o
  <1>3. QED
    BY <1>2 DEF Itself, v, o

(* What a handler's element is given for a match of a recognizer.          *)
LEMMA OneGiftFollows ==
    ASSUME NEW S, NEW s, Settled(S, s, Gifts(s)), NEW r \in Recognizer, NEW p \in Nat,
           NEW n \in Matched, Follows(S, s, r, p, n), <<r, p, n>> \in Meant(s)
    PROVE  OneGift(Gifts(s), r, p)
  <1> DEFINE G == Gifts(s)
  <1>1. ASSUME NEW x, NEW d \in Handled, Gives(G, s, d, r, p, x)
        PROVE  /\ n <= 0 => x = <<>>
               /\ n > 0 => \E y \in Seq(Part) :
                     IF r \in Handled THEN Inside(G, s, r, r, p, y) /\ x = Itself(d, r, p, n, y)
                     ELSE Inside(G, s, d, r, p, y) /\ x = y \o Itself(d, r, p, n, y)
    <2>1. PICK m \in Matched :
             /\ <<r, p, m>> \in Meant(s)
             /\ m <= 0 => x = <<>>
             /\ m > 0 => \E y \in Seq(Part) :
                   IF r \in Handled THEN Inside(G, s, r, r, p, y) /\ x = Itself(d, r, p, m, y)
                   ELSE Inside(G, s, d, r, p, y) /\ x = y \o Itself(d, r, p, m, y)
      BY <1>1 DEF Gives
    <2>2. m = n
      BY <2>1, MeantOnce
    <2>3. QED
      BY <2>1, <2>2
  <1>2. ASSUME NEW h \in Handled
        PROVE  /\ \E y \in Seq(Part) : <<h, r, p, y>> \in G
               /\ \A y \in Seq(Part), z \in Seq(Part) :
                     <<h, r, p, y>> \in G /\ <<h, r, p, z>> \in G => y = z
    <2>1. ASSUME NEW y \in Seq(Part), Gives(G, s, h, r, p, y) PROVE <<h, r, p, y>> \in G
      BY <2>1, GivenCompletes DEF Complete
    <2>2. ASSUME NEW y \in Seq(Part), <<h, r, p, y>> \in G PROVE Gives(G, s, h, r, p, y)
      BY <2>2, GivenFollows
    <2>3. CASE n <= 0
      <3> DEFINE none == <<>>
      <3>1. none \in Seq(Part)
        BY EmptySeq
      <3>2. ~(n > 0)
        BY <2>3 DEF Matched, NPos
      <3>3. Gives(G, s, h, r, p, none)
        BY <3>2 DEF Gives
      <3>4. \A y \in Seq(Part) : <<h, r, p, y>> \in G => y = none
        BY <1>1, <2>2, <2>3
      <3> HIDE DEF none
      <3>5. QED
        BY <2>1, <3>1, <3>3, <3>4
    <2>4. CASE n > 0
      <3>1. n \in Nat /\ ~(n <= 0)
        BY <2>4 DEF Matched, NPos
      <3> DEFINE d == IF r \in Handled THEN r ELSE h
      <3>2. d \in Handled
        OBVIOUS
      <3> HIDE DEF d
      <3>3. OneInside(G, s, d, r, p)
        BY <2>4, <3>1, <3>2, InsideOnce
      <3>4. PICK x \in Seq(Part) : Inside(G, s, d, r, p, x)
        BY <3>3 DEF OneInside
      <3> DEFINE own(y) == Itself(h, r, p, n, y)
                 all(y) == IF r \in Handled THEN own(y) ELSE y \o own(y)
      <3>5. own(x) \in Seq(Part)
        BY <3>1, ItselfTyped
      <3>6. all(x) \in Seq(Part)
        BY <3>5, ConcatProperties
      <3>7. Gives(G, s, h, r, p, all(x))
        <4>1. IF r \in Handled THEN Inside(G, s, r, r, p, x) /\ all(x) = Itself(h, r, p, n, x)
              ELSE Inside(G, s, h, r, p, x) /\ all(x) = x \o Itself(h, r, p, n, x)
          BY <3>4 DEF d
        <4> HIDE DEF all
        <4>2. QED
          BY <3>1, <4>1 DEF Gives
      <3>8. ASSUME NEW y \in Seq(Part), <<h, r, p, y>> \in G PROVE y = all(x)
        <4>1. Gives(G, s, h, r, p, y)
          BY <2>2, <3>8
        <4>2. PICK z \in Seq(Part) :
                 IF r \in Handled THEN Inside(G, s, r, r, p, z) /\ y = Itself(h, r, p, n, z)
                 ELSE Inside(G, s, h, r, p, z) /\ y = z \o Itself(h, r, p, n, z)
          BY <1>1, <2>4, <4>1
        <4>3. Inside(G, s, d, r, p, z) /\ y = all(z)
          BY <4>2 DEF d
        <4>4. z = x
          BY <3>3, <3>4, <4>3 DEF OneInside
        <4>5. QED
          BY <4>3, <4>4
      <3> HIDE DEF all
      <3>9. QED
        BY <2>1, <3>6, <3>7, <3>8
    <2>5. n <= 0 \/ n > 0
      BY DEF Matched, NPos
    <2>6. QED
      BY <2>3, <2>4, <2>5
  <1>3. QED
    BY <1>2 DEF OneGift

(* For every answer, every handler's element is given one thing.           *)
LEMMA GivenOnce ==
    ASSUME NEW s
    PROVE  Gifted(Meant(s), Gifts(s))
  <1> DEFINE G == Gifts(s)
             S == {j \in Judgement : j \in Meant(s) /\ OneGift(G, j[1], j[2])}
  <1>1. \A a \in Recognizer, b \in Nat, c \in Matched :
           <<a, b, c>> \in S <=> <<a, b, c>> \in Meant(s) /\ OneGift(G, a, b)
    BY DEF Judgement
  <1>2. S \in SUBSET Judgement /\ S \subseteq Meant(s)
    OBVIOUS
  <1> HIDE DEF S
  <1>3. Sure(S, Meant(s))
    <2>1. ASSUME NEW a \in Recognizer, NEW b \in Nat, NEW c \in Matched, NEW d \in Matched,
                 <<a, b, c>> \in S, <<a, b, d>> \in Meant(s)
          PROVE  c = d
      BY <1>2, <2>1, MeantOnce
    <2>2. QED
      BY <2>1 DEF Sure
  <1>4. Settled(S, s, G)
    BY <1>1, <1>2, <1>3 DEF Settled, Gifted
  <1>5. Closed(S, s)
    <2>1. ASSUME NEW a \in Recognizer, NEW b \in Nat, NEW c \in Matched, Follows(S, s, a, b, c)
          PROVE  <<a, b, c>> \in S
      <3>1. Follows(Meant(s), s, a, b, c)
        BY <1>2, <2>1, FollowsMore
      <3>2. <<a, b, c>> \in Meant(s)
        BY <3>1, MeantCloses DEF Closed
      <3>3. OneGift(G, a, b)
        BY <1>4, <2>1, <3>2, OneGiftFollows
      <3>4. QED
        BY <1>1, <3>2, <3>3
    <2>2. QED
      BY <2>1 DEF Closed
  <1>6. Meant(s) \subseteq S
    BY <1>2, <1>5 DEF Meant
  <1>7. QED
    BY <1>1, <1>6 DEF Gifted

(* So there is one thing inside a match.                                   *)
LEMMA MeantInsideOnce ==
    ASSUME NEW s, NEW h \in Handled, NEW r \in Recognizer, NEW p \in Nat, NEW n \in Nat, n > 0,
           <<r, p, n>> \in Meant(s)
    PROVE  OneInside(Gifts(s), s, h, r, p)
  <1>1. Sure(Meant(s), Meant(s))
    BY MeantOnce DEF Sure
  <1>2. Settled(Meant(s), s, Gifts(s))
    BY <1>1, GivenOnce DEF Settled
  <1>3. n \in Matched
    BY DEF Matched
  <1>4. QED
    BY <1>2, <1>3, InsideOnce, MeantFollows

----------------------------------------------------------------------------
(* What an assignment stands for, when G is what each context stands for.  *)
PartOf(G, H, a) ==
    IF a.child = None THEN Value(a.rule, a.begin, a.count)
    ELSE Object(H[a.child].handler, a.begin, a.count, G[a.child])

PartsOf(G, H, c) ==
    [i \in DOMAIN H[c].assignments |-> PartOf(G, H, H[c].assignments[i])]

Solves(G, H) == G = [c \in DOMAIN H |-> PartsOf(G, H, c)]

(* Children rank below the context they are assigned to.                   *)
RankedBy(H, rank) ==
    /\ rank \in [DOMAIN H -> Nat]
    /\ \A c \in DOMAIN H : \A i \in DOMAIN H[c].assignments :
          LET child == H[c].assignments[i].child
          IN  child # None => rank[child] < rank[c]

(* The contexts stand for parts of X, without a cycle.                     *)
Full(H, X) ==
    /\ \E rank : RankedBy(H, rank)
    /\ Solves(Parts(H), H)
    /\ Parts(H) \in [DOMAIN H -> Seq(X)]

(* Without a cycle there is one solution: where two differ, they differ    *)
(* for a child, of lower rank.                                             *)
LEMMA OneSolution ==
    ASSUME NEW n \in Nat, NEW H \in HeapOf(n), NEW rank, RankedBy(H, rank),
           NEW G, Solves(G, H), NEW G2, Solves(G2, H)
    PROVE  G = G2
  <1> DEFINE Ranks == {rank[c] : c \in {d \in DOMAIN H : G[d] # G2[d]}}
  <1>1. DOMAIN H = 1..n
    BY DEF HeapOf
  <1>2. Ranks \subseteq Nat
    BY DEF RankedBy
  <1>3. CASE Ranks # {}
    <2>1. PICK m \in Ranks : \A k \in Ranks : m <= k
      BY <1>2, <1>3, LeastNumber
    <2>2. PICK c \in DOMAIN H : G[c] # G2[c] /\ rank[c] = m
      BY <2>1
    <2>3. ASSUME NEW i \in DOMAIN H[c].assignments
          PROVE  PartOf(G, H, H[c].assignments[i]) = PartOf(G2, H, H[c].assignments[i])
      <3> DEFINE child == H[c].assignments[i].child
      <3>1. CASE child = None
        BY <3>1 DEF PartOf
      <3>2. CASE child # None
        <4>1. child \in DOMAIN H
          <5>1. H[c].assignments \in Seq(Assignment(n)) /\ i \in DOMAIN H[c].assignments
            BY <1>1, AssignmentsTyped
          <5>2. H[c].assignments[i] \in Assignment(n)
            BY <5>1, ElementOfSeq
          <5>3. QED
            BY <1>1, <3>2, <5>2 DEF Assignment, Pointer, None
        <4>2. rank[child] < rank[c] /\ rank[child] \in Nat /\ rank[c] \in Nat
          BY <3>2, <4>1 DEF RankedBy
        <4>3. G[child] = G2[child]
          BY <2>1, <2>2, <4>1, <4>2
        <4>4. QED
          BY <4>3 DEF PartOf
      <3>3. QED
        BY <3>1, <3>2
    <2>4. PartsOf(G, H, c) = PartsOf(G2, H, c)
      BY <2>3 DEF PartsOf
    <2>5. G[c] = PartsOf(G, H, c) /\ G2[c] = PartsOf(G2, H, c)
      BY <2>2 DEF Solves
    <2>6. QED
      BY <2>2, <2>4, <2>5
  <1>4. CASE Ranks = {}
    <2>1. \A d \in DOMAIN H : G[d] = G2[d]
      BY <1>4
    <2>2. G = [c \in DOMAIN H |-> G[c]] /\ G2 = [c \in DOMAIN H |-> G2[c]]
      BY DEF Solves
    <2>3. QED
      BY <2>1, <2>2
  <1>5. QED
    BY <1>3, <1>4

(* So Parts() gives it.                                                    *)
LEMMA PartsSolve ==
    ASSUME NEW n \in Nat, NEW H \in HeapOf(n), NEW rank, RankedBy(H, rank),
           NEW G, Solves(G, H)
    PROVE  Parts(H) = G
  <1>1. Parts(H) = CHOOSE g : Solves(g, H)
    BY Zenon DEF Parts, Solves, PartsOf, PartOf
  <1>2. Solves(Parts(H), H)
    BY <1>1, Zenon
  <1>3. QED
    BY <1>2, OneSolution

(* A child of a context of the heap is one too.                            *)
LEMMA ChildTyped ==
    ASSUME NEW n \in Nat, NEW H \in HeapOf(n), NEW c \in 1..n,
           NEW i \in DOMAIN H[c].assignments
    PROVE  H[c].assignments[i] \in Assignment(n) /\ H[c].assignments[i].child \in 0..n
  <1>1. H[c].assignments \in Seq(Assignment(n))
    BY AssignmentsTyped
  <1>2. H[c].assignments[i] \in Assignment(n)
    BY <1>1, ElementOfSeq
  <1>3. QED
    BY <1>2 DEF Assignment, Pointer

(* What the contexts of W are given anew, when no context has one of them  *)
(* as a child.                                                             *)
Rewritten(G, W, V) == [c \in DOMAIN G |-> IF c \in W THEN V[c] ELSE G[c]]

Writes(n, H, H2, rank, W, b) ==
    /\ W \subseteq 1..n
    /\ \A e \in 1..n : H2[e].handler = H[e].handler
    /\ \A e \in 1..n : e \notin W => H2[e] = H[e]
    /\ \A e \in 1..n : \A i \in DOMAIN H2[e].assignments :
          H2[e].assignments[i].child \notin W
    /\ \A w \in W : \A i \in DOMAIN H2[w].assignments :
          H2[w].assignments[i].child # None => rank[H2[w].assignments[i].child] < b

GivenAnew(H, H2, X, W, V) ==
    V \in [W -> Seq(X)] /\ \A w \in W : V[w] = PartsOf(Parts(H), H2, w)

(* The others stand for what they did, those written for what is new.      *)
LEMMA WrittenParts ==
    ASSUME NEW n \in Nat, NEW H \in HeapOf(n), NEW H2 \in HeapOf(n), NEW X, Full(H, X),
           NEW rank, RankedBy(H, rank), NEW W, NEW b \in Nat,
           Writes(n, H, H2, rank, W, b), NEW V, GivenAnew(H, H2, X, W, V)
    PROVE  Full(H2, X) /\ Parts(H2) = Rewritten(Parts(H), W, V)
  <1>0. /\ \A e \in 1..n : H2[e].handler = H[e].handler
        /\ \A e \in 1..n : e \notin W => H2[e] = H[e]
        /\ \A e \in 1..n : \A i \in DOMAIN H2[e].assignments :
              H2[e].assignments[i].child \notin W
        /\ \A w \in W : \A i \in DOMAIN H2[w].assignments :
              H2[w].assignments[i].child # None => rank[H2[w].assignments[i].child] < b
        /\ V \in [W -> Seq(X)] /\ \A w \in W : V[w] = PartsOf(Parts(H), H2, w)
        /\ W \subseteq 1..n
    BY DEF Writes, GivenAnew
  <1> DEFINE G2 == Rewritten(Parts(H), W, V)
             rank2 == [c \in 1..n |-> IF c \in W THEN b ELSE rank[c]]
  <1>1. DOMAIN H = 1..n /\ DOMAIN H2 = 1..n
    BY DEF HeapOf
  <1>2. rank \in [1..n -> Nat]
    BY <1>1 DEF RankedBy
  <1>3. RankedBy(H2, rank2)
    <2>1. rank2 \in [1..n -> Nat]
      BY <1>2
    <2>2. ASSUME NEW c \in 1..n, NEW i \in DOMAIN H2[c].assignments,
                 H2[c].assignments[i].child # None
          PROVE  rank2[H2[c].assignments[i].child] < rank2[c]
      <3> DEFINE child == H2[c].assignments[i].child
      <3>1. child \in 1..n /\ child \notin W
        BY <1>0, <2>2, ChildTyped DEF None
      <3>2. rank2[child] = rank[child]
        BY <3>1
      <3>3. CASE c \in W
        BY <1>0, <2>2, <3>1, <3>2, <3>3
      <3>4. CASE c \notin W
        <4>1. H2[c] = H[c]
          BY <1>0, <3>4
        <4>2. rank[child] < rank[c]
          BY <1>1, <2>2, <4>1 DEF RankedBy
        <4>3. QED
          BY <3>2, <3>4, <4>2
      <3>5. QED
        BY <3>3, <3>4
    <2> HIDE DEF rank2
    <2>3. QED
      BY <1>1, <2>1, <2>2 DEF RankedBy
  <1>4. Parts(H) \in [1..n -> Seq(X)] /\ \A c \in 1..n : Parts(H)[c] = PartsOf(Parts(H), H, c)
    <2>1. Parts(H) = [c \in DOMAIN H |-> PartsOf(Parts(H), H, c)]
      BY DEF Full, Solves
    <2> DEFINE G == Parts(H)
    <2>2. G \in [1..n -> Seq(X)]
      BY <1>1 DEF Full
    <2>3. G = [c \in DOMAIN H |-> PartsOf(G, H, c)]
      BY <2>1
    <2> HIDE DEF G
    <2>4. \A c \in 1..n : G[c] = PartsOf(G, H, c)
      BY <1>1, <2>3
    <2>5. QED
      BY <2>2, <2>4 DEF G
  <1> DEFINE G == Parts(H)
  <1>5. G \in [1..n -> Seq(X)] /\ \A c \in 1..n : G[c] = PartsOf(G, H, c)
    BY <1>4
  <1> HIDE DEF G
  <1>6. G2 = [c \in 1..n |-> IF c \in W THEN V[c] ELSE G[c]]
    BY <1>5 DEF G, Rewritten
  <1>7. G2 \in [1..n -> Seq(X)]
    <2> HIDE DEF G2
    <2>1. \A c \in 1..n : (IF c \in W THEN V[c] ELSE G[c]) \in Seq(X)
      BY <1>0, <1>5
    <2>2. QED
      BY <1>6, <2>1
  <1>8. ASSUME NEW c \in 1..n PROVE G2[c] = PartsOf(G2, H2, c)
    <2>1. ASSUME NEW i \in DOMAIN H2[c].assignments
          PROVE  PartOf(G2, H2, H2[c].assignments[i]) = PartOf(G, H, H2[c].assignments[i])
      <3> DEFINE a == H2[c].assignments[i]
      <3>1. CASE a.child = None
        BY <3>1 DEF PartOf
      <3>2. CASE a.child # None
        <4>1. a.child \in 1..n /\ a.child \notin W
          BY <1>0, <3>2, ChildTyped DEF None
        <4> HIDE DEF a
        <4>2. G2[a.child] = G[a.child] /\ H2[a.child].handler = H[a.child].handler
          BY <1>0, <1>6, <4>1
        <4>3. QED
          BY <4>2 DEF PartOf, a
      <3>3. QED
        BY <3>1, <3>2
    <2>2. ASSUME NEW i \in DOMAIN H2[c].assignments
          PROVE  PartOf(G, H2, H2[c].assignments[i]) = PartOf(G, H, H2[c].assignments[i])
      <3>1. H2[c].assignments[i].child \in 0..n
        BY ChildTyped
      <3>2. QED
        BY <1>0, <3>1 DEF PartOf, None
    <2>3. PartsOf(G2, H2, c) = PartsOf(G, H2, c)
      BY <2>1, <2>2 DEF PartsOf
    <2>4. CASE c \in W
      BY <1>0, <1>6, <2>3, <2>4 DEF G
    <2>5. CASE c \notin W
      <3>1. H2[c] = H[c]
        BY <1>0, <2>5
      <3>2. PartsOf(G2, H2, c) = PartsOf(G, H, c)
        <4>1. \A i \in DOMAIN H2[c].assignments :
                 PartOf(G2, H2, H2[c].assignments[i]) = PartOf(G, H, H2[c].assignments[i])
          BY <2>1
        <4>2. QED
          BY <3>1, <4>1 DEF PartsOf
      <3>3. QED
        BY <1>5, <1>6, <2>5, <3>2
    <2>6. QED
      BY <2>4, <2>5
  <1>9. Solves(G2, H2)
    <2>1. G2 = [c \in 1..n |-> G2[c]]
      BY <1>7
    <2> HIDE DEF G2
    <2>2. G2 = [c \in 1..n |-> PartsOf(G2, H2, c)]
      BY <1>8, <2>1
    <2>3. QED
      BY <1>1, <2>2 DEF Solves
  <1>10. Parts(H2) = G2
    <2> HIDE DEF G2, rank2
    <2>1. QED
      BY <1>3, <1>9, PartsSolve
  <1>11. Full(H2, X)
    <2> HIDE DEF G2, rank2
    <2>1. QED
      BY <1>1, <1>3, <1>7, <1>9, <1>10 DEF Full
  <1>12. QED
    BY <1>10, <1>11 DEF G

(* What a context stands for has a part for each assignment.               *)
LEMMA PartsAt ==
    ASSUME NEW n \in Nat, NEW H \in HeapOf(n), NEW X, Full(H, X), NEW c \in 1..n
    PROVE  /\ Parts(H)[c] \in Seq(X) /\ Parts(H)[c] = PartsOf(Parts(H), H, c)
           /\ Len(Parts(H)[c]) = Len(H[c].assignments)
           /\ H[c].assignments = <<>> => Parts(H)[c] = <<>>
  <1> DEFINE G == Parts(H)
             u == H[c].assignments
  <1>1. DOMAIN H = 1..n
    BY DEF HeapOf
  <1>2. G \in [1..n -> Seq(X)] /\ G = [d \in DOMAIN H |-> PartsOf(G, H, d)]
    BY <1>1 DEF Full, Solves
  <1>3. u \in Seq(Assignment(n)) /\ Len(u) \in Nat /\ DOMAIN u = 1..Len(u)
    BY AssignmentsTyped
  <1>4. PartsOf(G, H, c) = [i \in 1..Len(u) |-> PartOf(G, H, u[i])]
    BY <1>3 DEF PartsOf
  <1> HIDE DEF G, u
  <1>5. G[c] \in Seq(X) /\ G[c] = PartsOf(G, H, c)
    BY <1>1, <1>2
  <1>6. Len(G[c]) = Len(u)
    <2>1. DOMAIN G[c] = 1..Len(u)
      BY <1>4, <1>5
    <2>2. DOMAIN G[c] = 1..Len(G[c]) /\ Len(G[c]) \in Nat
      BY <1>5, LenProperties
    <2>3. QED
      BY <1>3, <2>1, <2>2
  <1>7. u = <<>> => G[c] = <<>>
    <2>1. u = <<>> => Len(u) = 0
      OBVIOUS
    <2>2. QED
      BY <1>5, <1>6, <2>1, EmptySeq
  <1>8. QED
    BY <1>5, <1>6, <1>7 DEF G, u

(* A heap that has new contexts, and nothing in them.                      *)
LEMMA GrownParts ==
    ASSUME NEW n \in Nat, NEW m \in Nat, n <= m, NEW H \in HeapOf(n), NEW H2 \in HeapOf(m),
           NEW X, Full(H, X), \A d \in 1..n : H2[d] = H[d],
           \A d \in 1..m : d > n => H2[d].assignments = <<>>
    PROVE  Full(H2, X) /\ \A d \in 1..n : Parts(H2)[d] = Parts(H)[d]
  <1> DEFINE G == Parts(H)
  <1>1. DOMAIN H = 1..n /\ DOMAIN H2 = 1..m /\ 1..n \subseteq 1..m
    BY DEF HeapOf
  <1>2. PICK rank : RankedBy(H, rank)
    BY DEF Full
  <1> DEFINE rank2 == [c \in 1..m |-> IF c > n THEN 0 ELSE rank[c]]
             G2 == [c \in 1..m |-> IF c > n THEN <<>> ELSE G[c]]
  <1>3. rank \in [1..n -> Nat]
    BY <1>1, <1>2 DEF RankedBy
  <1>4. RankedBy(H2, rank2)
    <2>1. rank2 \in [1..m -> Nat]
      BY <1>3
    <2>2. ASSUME NEW c \in 1..m, NEW i \in DOMAIN H2[c].assignments,
                 H2[c].assignments[i].child # None
          PROVE  rank2[H2[c].assignments[i].child] < rank2[c]
      <3>1. c \in 1..n
        <4>1. c > n => DOMAIN H2[c].assignments = {}
          BY SMT
        <4>2. QED
          BY <4>1
      <3>2. H2[c] = H[c]
        BY <3>1
      <3>3. H[c].assignments[i].child \in 1..n
        BY <2>2, <3>1, <3>2, ChildTyped DEF None
      <3>4. rank[H[c].assignments[i].child] < rank[c]
        BY <1>1, <1>2, <2>2, <3>1, <3>2 DEF RankedBy
      <3>5. QED
        BY <3>1, <3>2, <3>3, <3>4
    <2> HIDE DEF rank2
    <2>3. QED
      BY <1>1, <2>1, <2>2 DEF RankedBy
  <1>5. \A c \in 1..n : G[c] \in Seq(X) /\ G[c] = PartsOf(G, H, c)
    BY PartsAt
  <1> HIDE DEF G, rank2
  <1>6. G2 \in [1..m -> Seq(X)]
    <2>1. <<>> \in Seq(X)
      BY EmptySeq
    <2>2. QED
      BY <1>5, <2>1
  <1>7. ASSUME NEW c \in 1..m PROVE G2[c] = PartsOf(G2, H2, c)
    <2>1. CASE c > n
      <3>1. DOMAIN H2[c].assignments = {} /\ G2[c] = <<>>
        BY <2>1
      <3>2. PartsOf(G2, H2, c) = <<>>
        BY <3>1 DEF PartsOf
      <3>3. QED
        BY <3>1, <3>2
    <2>2. CASE ~(c > n)
      <3>1. c \in 1..n /\ H2[c] = H[c] /\ G2[c] = G[c]
        BY <2>2
      <3>2. ASSUME NEW i \in DOMAIN H[c].assignments
            PROVE  PartOf(G2, H2, H[c].assignments[i]) = PartOf(G, H, H[c].assignments[i])
        <4> DEFINE a == H[c].assignments[i]
        <4>1. a.child \in 0..n
          BY <3>1, ChildTyped
        <4> HIDE DEF a
        <4>2. a.child # None => G2[a.child] = G[a.child] /\ H2[a.child] = H[a.child]
          BY <1>1, <4>1 DEF None
        <4> HIDE DEF G2
        <4>3. QED
          BY <4>2 DEF PartOf, a
      <3> HIDE DEF G2
      <3>3. PartsOf(G2, H2, c) = PartsOf(G, H, c)
        BY <3>1, <3>2 DEF PartsOf
      <3>4. QED
        BY <1>5, <3>1, <3>3
    <2>3. QED
      BY <2>1, <2>2
  <1>8. Solves(G2, H2)
    <2>1. G2 = [c \in 1..m |-> G2[c]]
      OBVIOUS
    <2> HIDE DEF G2
    <2>2. G2 = [c \in 1..m |-> PartsOf(G2, H2, c)]
      BY <1>7, <2>1
    <2>3. QED
      BY <1>1, <2>2 DEF Solves
  <1>9. \A d \in 1..n : G2[d] = G[d]
    BY <1>1
  <1> HIDE DEF G2
  <1>10. Parts(H2) = G2
    BY <1>4, <1>8, PartsSolve
  <1>11. QED
    BY <1>1, <1>4, <1>6, <1>8, <1>9, <1>10 DEF Full, G

(* createContext(): a context that stands for nothing.                     *)
LEMMA CreateParts ==
    ASSUME NEW n \in Nat, TypedWith(n), HoldersInv, NEW X, Full(contexts, X),
           NEW t, NEW h \in Handled, NEW c \in 1..(Len(contexts) + 1), CreateContext(t, h, c)
    PROVE  /\ Full(contexts', X)
           /\ Parts(contexts')[c] = <<>> /\ contexts'[c].handler = h
           /\ \A d \in 1..n : Parts(contexts')[d] = Parts(contexts)[d]
           /\ \A d \in 1..n : contexts'[d] = contexts[d]
  <1>1. contexts \in HeapOf(n) /\ Len(contexts) = n /\ cached \in [Handled -> Pointer(n)]
    BY DEF TypedWith, HeapOf
  <1>2. PICK m \in Nat : n <= m /\ contexts' \in HeapOf(m) /\ c \in 1..m
    BY <1>1, CreateContextTyped
  <1>3. contexts'[c] = NewContext(h) /\ \A d \in 1..n : contexts'[d] = contexts[d]
    BY CreateApart
  <1>4. contexts'[c].assignments = <<>> /\ contexts'[c].handler = h
    BY <1>3 DEF NewContext
  <1>5. \A d \in 1..m : d > n => d = c
    <2>1. Len(contexts') = m
      BY <1>2 DEF HeapOf
    <2>2. CASE contexts' = contexts
      BY <1>1, <2>1, <2>2
    <2>3. CASE contexts' = Append(contexts, NewContext(h)) /\ c = Len(contexts) + 1
      <3>1. Len(Append(contexts, NewContext(h))) = Len(contexts) + 1
        <4>1. contexts \in Seq(HandlerContext(n))
          BY <1>1 DEF HeapOf
        <4>2. QED
          BY <4>1
      <3>2. m = n + 1
        BY <1>1, <2>1, <2>3, <3>1
      <3>3. QED
        BY <1>1, <2>3, <3>2
    <2>4. QED
      BY <2>2, <2>3 DEF CreateContext
  <1> DEFINE H2 == contexts'
  <1>6. /\ H2 \in HeapOf(m) /\ \A d \in 1..n : H2[d] = contexts[d]
        /\ \A d \in 1..m : d > n => H2[d].assignments = <<>>
        /\ H2[c].assignments = <<>>
    BY <1>2, <1>3, <1>4, <1>5
  <1> HIDE DEF H2
  <1>7. Full(H2, X) /\ \A d \in 1..n : Parts(H2)[d] = Parts(contexts)[d]
    BY <1>1, <1>2, <1>6, GrownParts
  <1>8. Parts(H2)[c] = <<>>
    BY <1>2, <1>6, <1>7, PartsAt
  <1>9. QED
    BY <1>3, <1>4, <1>7, <1>8 DEF H2

(* A context that is no child has its assignments written: those it had,   *)
(* or some of them, and those of another child.                            *)
KeptOrGiven(H, d, kept, x) ==
    \A i \in DOMAIN kept : \/ kept[i].child \in {None, x}
                           \/ \E e \in {d, x} \ {None} : \E j \in DOMAIN H[e].assignments :
                                 kept[i].child = H[e].assignments[j].child

StandFor(H, kept) == [i \in DOMAIN kept |-> PartOf(Parts(H), H, kept[i])]

(* Of the contexts, d alone stands for something else: v.                  *)
OnlyChanged(H, H2, n, d, v) ==
    /\ Parts(H2)[d] = v
    /\ \A e \in 1..n : e # d => Parts(H2)[e] = Parts(H)[e]
    /\ \A e \in 1..n : H2[e].handler = H[e].handler

LEMMA AssignmentsGiven ==
    ASSUME NEW n \in Nat, NEW H \in HeapOf(n), NEW d \in 1..n,
           NEW kept \in Seq(Assignment(n))
    PROVE  [H EXCEPT ![d].assignments = kept] \in HeapOf(n)
  <1>1. d \in Nat /\ (d \in 1..n => kept \in Seq(Assignment(n)))
    OBVIOUS
  <1>2. QED
    BY <1>1, AssignTyped

(* Where one context alone is written, it alone stands for something else. *)
LEMMA RewriteParts ==
    ASSUME NEW n \in Nat, NEW H \in HeapOf(n), NEW H2 \in HeapOf(n), NEW X, Full(H, X),
           NEW d \in 1..n, ~InHeap(H, d), NEW kept \in Seq(Assignment(n)),
           Rewrites(H, H2, d, kept), NEW x \in 0..n, x # d,
           KeptOrGiven(H, d, kept, x),
           NEW v \in Seq(X), v = StandFor(H, kept)
    PROVE  Full(H2, X) /\ OnlyChanged(H, H2, n, d, v)
  <1>0. /\ \A i \in DOMAIN kept :
              \/ kept[i].child \in {None, x}
              \/ \E e \in {d, x} \ {None} : \E j \in DOMAIN H[e].assignments :
                    kept[i].child = H[e].assignments[j].child
        /\ v = [i \in DOMAIN kept |-> PartOf(Parts(H), H, kept[i])]
    BY DEF KeptOrGiven, StandFor
  <1>1. PICK rank : RankedBy(H, rank)
    BY DEF Full
  <1>2. DOMAIN H = 1..n /\ DOMAIN H2 = 1..n
    BY DEF HeapOf
  <1>3. rank \in [1..n -> Nat]
    BY <1>1, <1>2 DEF RankedBy
  <1> DEFINE b == rank[d] + (IF x = 0 THEN 0 ELSE rank[x]) + 1
             V == [w \in {d} |-> v]
             W == {d}
  <1>4. b \in Nat /\ W \subseteq 1..n /\ V \in [W -> Seq(X)]
    BY <1>3
  <1>4a. rank[d] < b /\ (x # 0 => rank[x] < b)
    BY <1>3
  <1>5. \A e \in 1..n : H2[e].handler = H[e].handler
    BY <1>2 DEF Rewrites
  <1>6. \A e \in 1..n : e \notin W => H2[e] = H[e]
    BY <1>2 DEF Rewrites
  <1>7. \A i \in DOMAIN kept : kept[i].child # d
    <2> SUFFICES ASSUME NEW i \in DOMAIN kept, kept[i].child = d PROVE FALSE
      OBVIOUS
    <2>1. \E e \in {d, x} \ {None} : \E j \in DOMAIN H[e].assignments :
             d = H[e].assignments[j].child
      BY <1>0 DEF None
    <2>2. {d, x} \ {None} \subseteq DOMAIN H
      BY <1>2 DEF None
    <2>3. QED
      BY <2>1, <2>2 DEF InHeap
  <1>8. \A e \in 1..n : \A i \in DOMAIN H2[e].assignments : H2[e].assignments[i].child \notin W
    <2>1. \A i \in DOMAIN H2[d].assignments : H2[d].assignments[i].child # d
      BY <1>7 DEF Rewrites
    <2>2. \A e \in 1..n : e # d => \A i \in DOMAIN H2[e].assignments :
             H2[e].assignments[i].child # d
      BY <1>2, <1>6 DEF InHeap
    <2>3. QED
      BY <2>1, <2>2
  <1> HIDE DEF b
  <1>9. \A w \in W : \A i \in DOMAIN H2[w].assignments :
          H2[w].assignments[i].child # None => rank[H2[w].assignments[i].child] < b
    <2> SUFFICES ASSUME NEW i \in DOMAIN kept, kept[i].child # None
                 PROVE  rank[kept[i].child] < b
      BY DEF Rewrites
    <2>1. CASE kept[i].child = x
      BY <1>4a, <2>1 DEF None
    <2>2. ASSUME NEW e \in {d, x} \ {None}, NEW j \in DOMAIN H[e].assignments,
                 kept[i].child = H[e].assignments[j].child
          PROVE  rank[kept[i].child] < b
      <3>0. e \in 1..n
        BY DEF None
      <3>1. rank[H[e].assignments[j].child] < rank[e]
        BY <1>1, <1>2, <2>2, <3>0 DEF RankedBy
      <3>2. H[e].assignments[j].child \in 1..n
        BY <2>2, <3>0, ChildTyped DEF None
      <3>3. rank[kept[i].child] < rank[e] /\ rank[kept[i].child] \in Nat /\ rank[e] \in Nat
        BY <1>3, <2>2, <3>0, <3>1, <3>2
      <3>4. rank[e] < b
        BY <1>4a, <3>0 DEF None
      <3>5. QED
        BY <1>4, <3>3, <3>4
    <2>3. QED
      BY <1>0, <2>1, <2>2
  <1>10. \A w \in W : V[w] = PartsOf(Parts(H), H2, w)
    <2>1. \A i \in DOMAIN kept : PartOf(Parts(H), H2, kept[i]) = PartOf(Parts(H), H, kept[i])
      <3>1. \A i \in DOMAIN kept : kept[i].child \in 0..n
        <4>1. \A i \in DOMAIN kept : kept[i] \in Assignment(n)
          BY ElementOfSeq
        <4>2. QED
          BY <4>1 DEF Assignment, Pointer
      <3>2. QED
        BY <1>5, <3>1 DEF PartOf, None
    <2>2. PartsOf(Parts(H), H2, d) = [i \in DOMAIN kept |-> PartOf(Parts(H), H2, kept[i])]
      BY DEF PartsOf, Rewrites
    <2>3. PartsOf(Parts(H), H2, d) = v
      BY <1>0, <2>1, <2>2
    <2>4. QED
      BY <2>3
  <1> HIDE DEF V, W
  <1>10a. Writes(n, H, H2, rank, W, b) /\ GivenAnew(H, H2, X, W, V)
    BY <1>4, <1>5, <1>6, <1>8, <1>9, <1>10 DEF Writes, GivenAnew
  <1>11. Full(H2, X) /\ Parts(H2) = Rewritten(Parts(H), W, V)
    <2>1. /\ RankedBy(H, rank) /\ b \in Nat /\ Full(H, X) /\ H \in HeapOf(n)
          /\ H2 \in HeapOf(n) /\ n \in Nat
      BY <1>1, <1>4
    <2>2. Writes(n, H, H2, rank, W, b)
      BY <1>10a
    <2>3. GivenAnew(H, H2, X, W, V)
      BY <1>10a
    <2>4. QED
      BY <2>1, <2>2, <2>3, WrittenParts
  <1>12. DOMAIN Parts(H) = 1..n
    BY <1>2 DEF Full
  <1>13. QED
    BY <1>5, <1>11, <1>12 DEF Rewritten, V, W, OnlyChanged

(* setChild().                                                             *)
LEMMA GiveParts ==
    ASSUME NEW n \in Nat, TypedWith(n), NEW X, Full(contexts, X),
           NEW d \in 1..n, ~InHeap(contexts, d),
           NEW r, NEW p \in Nat, NEW m \in Nat, NEW child \in Pointer(n), child # d,
           SetChild(d, r, p, m, child),
           IF child = None THEN r \notin Handled
           ELSE r \in Handled /\ contexts[child].handler = r,
           NEW gift \in Seq(X),
           gift = Itself(contexts[d].handler, r, p, m, Parts(contexts)[child])
    PROVE  /\ Full(contexts', X)
           /\ OnlyChanged(contexts, contexts', n, d, Parts(contexts)[d] \o gift)
  <1> DEFINE H == contexts
             h == contexts[d].handler
             u == contexts[d].assignments
             a == [rule |-> r, begin |-> p, count |-> m, child |-> child]
             G == Parts(contexts)
  <1>1. contexts \in HeapOf(n) /\ DOMAIN contexts = 1..n /\ contexts \in Heap(n)
    BY DEF TypedWith, HeapOf, Heap
  <1>2. G[d] \in Seq(X) /\ G[d] = PartsOf(G, contexts, d) /\ Len(G[d]) = Len(u)
    BY <1>1, PartsAt
  <1>3. h \in Handled /\ u \in Seq(Assignment(n)) /\ Len(u) \in Nat /\ DOMAIN u = 1..Len(u)
    BY <1>1, AssignmentsTyped
  <1>4. CASE r \notin Collected[h]
    <2>1. contexts' = contexts
      BY <1>4 DEF SetChild
    <2>2. gift = <<>>
      BY <1>4 DEF Itself
    <2>3. G[d] \o <<>> = G[d]
      BY <1>2, ConcatEmptySeq
    <2>4. QED
      BY <2>1, <2>2, <2>3 DEF OnlyChanged
  <1>5. CASE r \in Collected[h]
    <2>1. a \in Assignment(n)
      <3>1. r \in Rule
        BY <1>3, <1>5, GrammarAssumption
      <3>2. QED
        BY <3>1 DEF Assignment
    <2> DEFINE kept == Append(u, a)
               H2 == [contexts EXCEPT ![d].assignments = Append(@, a)]
               v == G[d] \o gift
               part == PartOf(G, contexts, a)
    <2>2. contexts' = H2
      BY <1>5 DEF SetChild
    <2>3. /\ kept \in Seq(Assignment(n)) /\ Len(kept) = Len(u) + 1
          /\ \A i \in 1..Len(u) : kept[i] = u[i]
          /\ kept[Len(u) + 1] = a
      BY <1>3, <2>1, AppendProperties
    <2>4. Rewrites(contexts, H2, d, kept)
      <3>1. H2 = [contexts EXCEPT ![d].assignments = kept]
        BY <1>1
      <3>2. QED
        BY <1>1, <3>1, HeapAt
    <2>5. H2 \in HeapOf(n)
      <3>1. H2 = [contexts EXCEPT ![d].assignments = kept]
        BY <1>1
      <3>2. QED
        <4> HIDE DEF kept, H2, a
        <4>1. [contexts EXCEPT ![d].assignments = kept] \in HeapOf(n)
          BY <1>1, <2>3, AssignmentsGiven
        <4>2. QED
          BY <3>1, <4>1
    <2>6. gift = <<part>>
      <3>1. CASE child = None
        BY <1>5, <3>1 DEF Itself, PartOf
      <3>2. CASE child # None
        BY <1>5, <3>2 DEF Itself, PartOf
      <3>3. QED
        BY <3>1, <3>2
    <2>7. v = [i \in DOMAIN kept |-> PartOf(G, contexts, kept[i])]
      <3>1. v \in Seq(X) /\ Len(v) = Len(u) + 1 /\ v[Len(u) + 1] = part
            /\ \A i \in 1..Len(u) : v[i] = G[d][i]
        <4>1. G[d] \in Seq(X) /\ <<part>> \in Seq(X) /\ Len(<<part>>) = 1 /\ <<part>>[1] = part
          BY <1>2, <2>6
        <4> HIDE DEF G, u, part
        <4>2. QED
          BY <1>2, <1>3, <2>6, <4>1, ConcatProperties
      <3>2. \A i \in 1..Len(u) : G[d][i] = PartOf(G, contexts, u[i])
        BY <1>2, <1>3 DEF PartsOf
      <3>3. DOMAIN kept = 1..(Len(u) + 1) /\ DOMAIN v = 1..(Len(u) + 1)
        <4>1. DOMAIN kept = 1..Len(kept) /\ DOMAIN v = 1..Len(v)
          BY <2>3, <3>1, LenProperties
        <4>2. QED
          BY <2>3, <3>1, <4>1
      <3> HIDE DEF v, G, u, kept
      <3>4. \A i \in 1..(Len(u) + 1) : v[i] = PartOf(G, contexts, kept[i])
        <4>1. \A i \in 1..(Len(u) + 1) : i \in 1..Len(u) \/ i = Len(u) + 1
          BY <1>3
        <4>2. QED
          BY <2>3, <3>1, <3>2, <4>1
      <3>5. v = [i \in DOMAIN v |-> v[i]]
        BY <3>1
      <3>6. QED
        BY <3>3, <3>4, <3>5
    <2>8. v \in Seq(X)
      BY <1>2, ConcatProperties
    <2>9. \A i \in DOMAIN kept : \/ kept[i].child \in {None, child}
                                 \/ \E j \in DOMAIN u : kept[i].child = u[j].child
      <3>1. DOMAIN kept = 1..(Len(u) + 1)
        BY <2>3, LenProperties
      <3>2. \A i \in 1..(Len(u) + 1) : i \in 1..Len(u) \/ i = Len(u) + 1
        BY <1>3
      <3>3. a.child = child
        OBVIOUS
      <3> HIDE DEF kept, a, u
      <3>4. QED
        BY <1>3, <2>3, <3>1, <3>2, <3>3
    <2>10. child \in 0..n /\ KeptOrGiven(contexts, d, kept, child) /\ v = StandFor(contexts, kept)
      <3>1. d \in {d, child} \ {None}
        BY DEF None
      <3> HIDE DEF kept, v
      <3>2. KeptOrGiven(contexts, d, kept, child)
        BY <2>9, <3>1 DEF KeptOrGiven
      <3>3. v = StandFor(contexts, kept)
        BY <2>7 DEF StandFor
      <3>4. QED
        BY <3>2, <3>3 DEF Pointer
    <2> HIDE DEF kept, H2, v, a
    <2>11. Full(H2, X) /\ OnlyChanged(contexts, H2, n, d, v)
      BY <1>1, <2>3, <2>4, <2>5, <2>8, <2>10, RewriteParts
    <2>12. QED
      BY <2>2, <2>11 DEF v
  <1>6. QED
    BY <1>4, <1>5

(* undoAssignments().                                                      *)
Undone(H, d, m) == [H EXCEPT ![d].assignments = Take(@, m)]

LEMMA TakeParts ==
    ASSUME NEW n \in Nat, NEW H \in HeapOf(n), NEW X, Full(H, X),
           NEW d \in 1..n, ~InHeap(H, d), NEW m \in Nat, m <= Len(H[d].assignments)
    PROVE  /\ Full(Undone(H, d, m), X)
           /\ OnlyChanged(H, Undone(H, d, m), n, d, Take(Parts(H)[d], m))
  <1> DEFINE H2 == Undone(H, d, m)
  <1> DEFINE u == H[d].assignments
             G == Parts(H)
             kept == Take(u, m)
             v == Take(G[d], m)
  <1>1. H \in Heap(n) /\ DOMAIN H = 1..n
    BY DEF HeapOf, Heap
  <1>2. u \in Seq(Assignment(n)) /\ Len(u) \in Nat /\ DOMAIN u = 1..Len(u) /\ m <= Len(u)
    BY AssignmentsTyped
  <1>3. G[d] \in Seq(X) /\ G[d] = PartsOf(G, H, d) /\ Len(G[d]) = Len(u)
    BY PartsAt
  <1>4. H2 = [H EXCEPT ![d].assignments = kept]
    BY <1>1 DEF Undone
  <1>5. G[d] = [i \in DOMAIN u |-> PartOf(G, H, u[i])]
    BY <1>3 DEF PartsOf
  <1>6. kept = SubSeq(u, 1, IF m < Len(u) THEN m ELSE Len(u))
        /\ v = SubSeq(G[d], 1, IF m < Len(G[d]) THEN m ELSE Len(G[d]))
    BY DEF Take
  <1> DEFINE g == G[d]
  <1>7. /\ g \in Seq(X) /\ Len(g) = Len(u) /\ g = [i \in DOMAIN u |-> PartOf(G, H, u[i])]
        /\ v = SubSeq(g, 1, IF m < Len(g) THEN m ELSE Len(g)) /\ v = Take(g, m)
    BY <1>3, <1>5, <1>6
  <1> HIDE DEF u, g, kept, v, H2
  <1>7a. (IF m < Len(u) THEN m ELSE Len(u)) = m
    <2> DEFINE l == Len(u)
    <2>1. l \in Nat /\ m <= l
      BY <1>2
    <2> HIDE DEF l
    <2>2. (IF m < l THEN m ELSE l) = m
      BY <2>1
    <2>3. QED
      BY <2>2 DEF l
  <1>8. kept = SubSeq(u, 1, m) /\ v = SubSeq(g, 1, m)
    BY <1>6, <1>7, <1>7a
  <1>9. kept \in Seq(Assignment(n)) /\ Len(kept) = m /\ \A j \in 1..m : kept[j] = u[j]
    <2>1. \A i \in 1..m : u[i] \in Assignment(n)
      BY <1>2, LenProperties, ElementOfSeq
    <2>2. QED
      BY <1>2, <1>8, <2>1, SubSeqProperties
  <1>10. v \in Seq(X) /\ Len(v) = m /\ \A j \in 1..m : v[j] = g[j]
    <2>1. \A i \in 1..m : g[i] \in X
      BY <1>2, <1>7, LenProperties, ElementOfSeq
    <2>2. QED
      BY <1>2, <1>8, <2>1, SubSeqProperties
  <1>11. DOMAIN kept = 1..m /\ DOMAIN v = 1..m
    BY <1>9, <1>10, LenProperties
  <1>12. v = StandFor(H, kept)
    <2> HIDE DEF G
    <2>1. \A j \in 1..m : v[j] = PartOf(G, H, kept[j])
      <3>1. \A j \in 1..m : j \in DOMAIN u
        <4> DEFINE l == Len(u)
        <4>1. l \in Nat /\ m <= l /\ DOMAIN u = 1..l
          BY <1>2
        <4> HIDE DEF l
        <4>2. QED
          BY <4>1
      <3>2. \A j \in DOMAIN u : g[j] = PartOf(G, H, u[j])
        BY <1>7
      <3>3. QED
        BY <1>9, <1>10, <3>1, <3>2
    <2>2. v = [j \in DOMAIN v |-> v[j]]
      BY <1>10
    <2>3. QED
      BY <1>11, <2>1, <2>2 DEF StandFor, G
  <1>13. KeptOrGiven(H, d, kept, 0)
    <2>1. \A i \in DOMAIN kept : i \in DOMAIN u /\ kept[i] = u[i]
      BY <1>2, <1>9, <1>11
    <2>2. d \in {d, 0} \ {None}
      BY DEF None
    <2>3. QED
      BY <2>1, <2>2 DEF KeptOrGiven, u
  <1>14. H2 \in HeapOf(n)
    BY <1>4, <1>9, AssignmentsGiven
  <1>15. Rewrites(H, H2, d, kept)
    BY <1>1, <1>4, HeapAt
  <1>16. 0 \in 0..n /\ 0 # d
    OBVIOUS
  <1>17. Full(H2, X) /\ OnlyChanged(H, H2, n, d, v)
    BY <1>9, <1>10, <1>12, <1>13, <1>14, <1>15, <1>16, RewriteParts
  <1>18. QED
    BY <1>7, <1>17 DEF g, H2

(* recycle().                                                              *)
LEMMA ClearParts ==
    ASSUME NEW n \in Nat, NEW H \in HeapOf(n), NEW X, Full(H, X), NEW d \in 1..n, ~InHeap(H, d)
    PROVE  /\ Cleared(H, d) \in HeapOf(n) /\ Full(Cleared(H, d), X)
           /\ OnlyChanged(H, Cleared(H, d), n, d, <<>>)
  <1> DEFINE H2 == Cleared(H, d)
             kept == <<>>
             v == <<>>
  <1>1. H \in Heap(n) /\ DOMAIN H = 1..n
    BY DEF HeapOf, Heap
  <1>2. H2 = [H EXCEPT ![d].assignments = kept]
    BY DEF Cleared
  <1>3. kept \in Seq(Assignment(n)) /\ v \in Seq(X) /\ DOMAIN kept = {}
    BY EmptySeq
  <1>4. v = StandFor(H, kept) /\ KeptOrGiven(H, d, kept, 0)
    BY <1>3 DEF StandFor, KeptOrGiven
  <1>5. v = kept
    OBVIOUS
  <1> HIDE DEF H2, kept, v
  <1>6. H2 \in HeapOf(n)
    BY <1>2, <1>3, AssignmentsGiven
  <1>7. Rewrites(H, H2, d, kept)
    BY <1>1, <1>2, HeapAt
  <1>8. 0 \in 0..n /\ 0 # d
    OBVIOUS
  <1>9. Full(H2, X) /\ OnlyChanged(H, H2, n, d, v)
    BY <1>3, <1>4, <1>6, <1>7, <1>8, RewriteParts
  <1>10. QED
    BY <1>6, <1>9 DEF H2, v

(* mergeAssignments(), and the branch is recycled.                         *)
BothChanged(H, H2, n, d, c) ==
    /\ Parts(H2)[d] = Parts(H)[d] \o Parts(H)[c]
    /\ \A e \in 1..n : e # d /\ e # c => Parts(H2)[e] = Parts(H)[e]
    /\ \A e \in 1..n : H2[e].handler = H[e].handler

LEMMA MergeParts ==
    ASSUME NEW n \in Nat, NEW H \in HeapOf(n), NEW X, Full(H, X),
           NEW d \in 1..n, NEW c \in 1..n, d # c, ~InHeap(H, d), ~InHeap(H, c),
           NEW H2, H2 = Cleared(Merged(H, d, c), c)
    PROVE  Full(H2, X) /\ BothChanged(H, H2, n, d, c)
  <1> DEFINE G == Parts(H)
             u == H[d].assignments
             w == H[c].assignments
             kept == u \o w
             v == G[d] \o G[c]
             H1 == Merged(H, d, c)
  <1>1. H \in Heap(n) /\ DOMAIN H = 1..n
    BY DEF HeapOf, Heap
  <1>2. /\ u \in Seq(Assignment(n)) /\ Len(u) \in Nat /\ DOMAIN u = 1..Len(u)
        /\ w \in Seq(Assignment(n)) /\ Len(w) \in Nat /\ DOMAIN w = 1..Len(w)
    BY AssignmentsTyped
  <1> DEFINE g == G[d]
             k == G[c]
  <1>3. /\ g \in Seq(X) /\ g = [i \in DOMAIN u |-> PartOf(G, H, u[i])] /\ Len(g) = Len(u)
        /\ k \in Seq(X) /\ k = [i \in DOMAIN w |-> PartOf(G, H, w[i])] /\ Len(k) = Len(w)
    BY PartsAt DEF PartsOf
  <1>4. H1 = [H EXCEPT ![d].assignments = kept]
    BY <1>1 DEF Merged
  <1>5. kept = u \o w /\ v = g \o k
    OBVIOUS
  <1> HIDE DEF u, w, g, k, kept, v
  <1>6. /\ kept \in Seq(Assignment(n)) /\ Len(kept) = Len(u) + Len(w)
        /\ \A i \in 1..(Len(u) + Len(w)) :
              kept[i] = IF i <= Len(u) THEN u[i] ELSE w[i - Len(u)]
    BY <1>2, <1>5, ConcatProperties
  <1>3a. g \in Seq(X) /\ k \in Seq(X) /\ Len(g) = Len(u) /\ Len(k) = Len(w)
    BY <1>3
  <1>3b. /\ v \in Seq(X) /\ Len(v) = Len(g) + Len(k)
         /\ \A i \in 1..(Len(g) + Len(k)) :
              v[i] = IF i <= Len(g) THEN g[i] ELSE k[i - Len(g)]
    <2>1. g \in Seq(X) /\ k \in Seq(X)
      BY <1>3a
    <2>2. QED
      BY <1>5, <2>1, ConcatProperties
  <1>7. /\ v \in Seq(X) /\ Len(v) = Len(u) + Len(w)
        /\ \A i \in 1..(Len(u) + Len(w)) :
              v[i] = IF i <= Len(u) THEN g[i] ELSE k[i - Len(u)]
    BY <1>3a, <1>3b
  <1>8. DOMAIN kept = 1..(Len(u) + Len(w)) /\ DOMAIN v = 1..(Len(u) + Len(w))
    BY <1>6, <1>7, LenProperties
  <1>9. \A i \in 1..(Len(u) + Len(w)) : IF i <= Len(u) THEN i \in DOMAIN u
                                       ELSE i - Len(u) \in DOMAIN w
    BY <1>2
  <1>10. v = StandFor(H, kept)
    <2> HIDE DEF G
    <2>1. \A i \in 1..(Len(u) + Len(w)) : v[i] = PartOf(G, H, kept[i])
      BY <1>3, <1>6, <1>7, <1>9
    <2>2. v = [j \in DOMAIN v |-> v[j]]
      BY <1>7
    <2>3. QED
      BY <1>8, <2>1, <2>2 DEF StandFor, G
  <1>11. KeptOrGiven(H, d, kept, c)
    <2>1. d \in {d, c} \ {None} /\ c \in {d, c} \ {None}
      BY DEF None
    <2>2. \A i \in DOMAIN kept : \/ \E j \in DOMAIN u : kept[i] = u[j]
                                \/ \E j \in DOMAIN w : kept[i] = w[j]
      BY <1>6, <1>8, <1>9
    <2>3. QED
      BY <2>1, <2>2 DEF KeptOrGiven, u, w
  <1> HIDE DEF H1
  <1>12. H1 \in HeapOf(n)
    BY <1>4, <1>6, AssignmentsGiven
  <1>13. Rewrites(H, H1, d, kept)
    BY <1>1, <1>4, HeapAt
  <1>14. c \in 0..n /\ c # d
    OBVIOUS
  <1>15. Full(H1, X) /\ OnlyChanged(H, H1, n, d, v)
    BY <1>6, <1>7, <1>10, <1>11, <1>12, <1>13, <1>14, RewriteParts
  <1>16. ~InHeap(H1, c)
    <2> SUFFICES ASSUME NEW e \in 1..n, NEW i \in DOMAIN H1[e].assignments,
                        H1[e].assignments[i].child = c
                 PROVE  FALSE
      BY <1>12 DEF InHeap, HeapOf
    <2>1. CASE e = d
      <3>1. i \in DOMAIN kept /\ kept[i].child = c
        BY <1>13, <2>1 DEF Rewrites
      <3>2. \E e2 \in {d, c} : \E j \in DOMAIN H[e2].assignments :
               H[e2].assignments[j].child = c
        <4>1. \/ \E j \in DOMAIN u : kept[i] = u[j]
              \/ \E j \in DOMAIN w : kept[i] = w[j]
          BY <1>6, <1>8, <1>9, <3>1
        <4>2. QED
          BY <3>1, <4>1 DEF u, w
      <3>3. QED
        BY <1>1, <3>2 DEF InHeap
    <2>2. CASE e # d
      <3>1. H1[e] = H[e]
        BY <1>1, <1>13, <2>2 DEF Rewrites
      <3>2. QED
        BY <1>1, <2>2, <3>1 DEF InHeap
    <2>3. QED
      BY <2>1, <2>2
  <1>17. H2 = Cleared(H1, c)
    BY DEF H1
  <1>18. Full(H2, X) /\ OnlyChanged(H1, H2, n, c, <<>>)
    BY <1>12, <1>15, <1>16, <1>17, ClearParts
  <1>19. v = Parts(H)[d] \o Parts(H)[c]
    BY DEF v, G
  <1>20. QED
    BY <1>15, <1>18, <1>19 DEF OnlyChanged, BothChanged

----------------------------------------------------------------------------
(* A text, the parts, and what a recognizer at a place of the text gives to *)
(* an element: w.gives[<<h, r, p>>], for the handler h of the element.     *)
World(s, X, T) == [text |-> s, part |-> X, gives |-> T]

(* What the first k elements of r gave, that ended at ends[1] .. ends[k].  *)
Run(w, h, r, k, ends, got) ==
    /\ got \in [0..k -> Seq(w.part)]
    /\ got[0] = <<>>
    /\ \A i \in 1..k : got[i] = got[i - 1] \o w.gives[<<h, ElementAt(r, i), ends[i - 1]>>]

Gathers(w, h, r, p, k, ends, x) ==
    /\ Trail(Meant(w.text), r, p, k, ends)
    /\ \E got \in [0..k -> Seq(w.part)] : Run(w, h, r, k, ends, got) /\ x = got[k]

(* Of the first k alternatives the i-th is the first of the longest.       *)
FirstLongest(M, r, p, k, i, n) ==
    LET es == Shape[r].elements
    IN  /\ i \in 1..k /\ n \in Nat /\ <<es[i], p, n>> \in M
        /\ \A j \in 1..k : \E m \in Matched :
              <<es[j], p, m>> \in M /\ m <= n /\ (j < i => m < n)

Repeating(s, r, k, ends) == \A i \in 1..k : LoopGoesOn(r, i - 1, s, ends[i - 1])

(* What is inside a match of r at p.                                       *)
InsideIn(w, h, r, p, x) ==
    LET es == Shape[r].elements
        M  == Meant(w.text)
    IN  CASE Shape[r].kind = "text"      -> x = <<>>
          [] Shape[r].kind = "delegate"  -> x = w.gives[<<h, es[1], p>>]
          [] Shape[r].kind = "sequence"  ->
                \E ends \in [0..Len(es) -> Nat] : Gathers(w, h, r, p, Len(es), ends, x)
          [] Shape[r].kind = "loop"      ->
                \E k \in Nat : \E ends \in [0..k -> Nat] :
                   /\ Gathers(w, h, r, p, k, ends, x)
                   /\ Repeating(w.text, r, k, ends)
                   /\ \/ ~LoopGoesOn(r, k, w.text, ends[k])
                      \/ <<ElementAt(r, k + 1), ends[k], NPos>> \in M
          [] Shape[r].kind = "exclusive" ->
                \E i \in 1..Len(es) : \E n \in Nat :
                   /\ n > 0 /\ Refused(M, r, p, i - 1) /\ <<es[i], p, n>> \in M
                   /\ x = w.gives[<<h, es[i], p>>]
          [] Shape[r].kind = "selector"  ->
                \E i \in 1..Len(es) : \E n \in Nat :
                   FirstLongest(M, r, p, Len(es), i, n) /\ x = w.gives[<<h, es[i], p>>]

(* What is given follows from what is inside.                              *)
GivesFor(w, h, r, p, n) ==
    /\ w.gives[<<h, r, p>>] \in Seq(w.part)
    /\ n <= 0 => w.gives[<<h, r, p>>] = <<>>
    /\ n > 0 => \A x \in Seq(w.part) :
          IF r \in Handled
          THEN InsideIn(w, r, r, p, x) => w.gives[<<h, r, p>>] = Itself(h, r, p, n, x)
          ELSE InsideIn(w, h, r, p, x) => w.gives[<<h, r, p>>] = x \o Itself(h, r, p, n, x)

Gathering(w) ==
    \A h \in Handled, r \in Recognizer, p \in Nat, n \in Matched :
        <<r, p, n>> \in Meant(w.text) => GivesFor(w, h, r, p, n)

(* What an activation has gathered, for an element with the handler h.     *)
Underway(w, h, f, x) ==
    CASE Shape[f.rec].kind = "sequence" ->
            \E ends \in [0..f.index -> Nat] :
               Gathers(w, h, f.rec, f.begin, f.index, ends, x) /\ ends[f.index] = f.pos
      [] Shape[f.rec].kind = "loop" ->
            \E k \in Nat : \E ends \in [0..k -> Nat] :
               /\ Gathers(w, h, f.rec, f.begin, k, ends, x) /\ ends[k] = f.pos
               /\ f.index = Counted(f.rec, k) /\ Repeating(w.text, f.rec, k, ends)
      [] OTHER -> x = <<>>

ByNow(w, h, f, x) ==
    CASE f.phase = "begin" -> x = <<>>
      [] f.phase = "end"   -> f.matched > 0 => InsideIn(w, h, f.rec, f.begin, x)
      [] OTHER             -> Underway(w, h, f, x)

(* What the element that an activation waits for is, and what the element  *)
(* finds in the context it is given to.                                    *)
Asked(f) == Elements(f)[IF Shape[f.rec].kind \in {"loop", "delegate"} THEN 1 ELSE f.index + 1]
Handed(f, own) == IF f.branch # None THEN <<>> ELSE own
Above(f, r)    == IF f.branch # None THEN f.branch ELSE Own(f, r)

(* What the best of the alternatives so far gave to its branch.            *)
BestGift(w, h, f, x) ==
    \E i \in 1..f.index :
       /\ FirstLongest(Meant(w.text), f.rec, f.begin, f.index, i, f.best)
       /\ x = w.gives[<<h, Elements(f)[i], f.begin>>]

Choosing(f) == Shape[f.rec].kind = "selector" /\ f.phase \in {"feed", "fed"}

(* What an activation has gathered on top of what it found.                *)
Gathered(w, h, f, before, own) ==
    /\ before \in Seq(w.part) /\ own \in Seq(w.part)
    /\ Plain(f) => f.mark = Len(before)
    /\ \E x \in Seq(w.part) :
          ByNow(w, h, f, x) /\ own = (IF f.context # None THEN <<>> ELSE before) \o x

(* What the contexts of an activation stand for, while others are tried.   *)
Holding(w, f, r, inner, H, before, own) ==
    LET h == H[Own(f, r)].handler
    IN  /\ f.context # None => H[f.context].handler = f.rec
        /\ f.bestBranch # None => H[f.bestBranch].handler = h
        /\ f.branch # None => H[f.branch].handler = h /\ Parts(H)[Own(f, r)] = own
        /\ inner /\ f.context # None => Parts(H)[r] = before
        /\ Choosing(f) =>
              /\ f.best = NPos <=> f.bestBranch = None
              /\ f.bestBranch # None => BestGift(w, h, f, Parts(H)[f.bestBranch])

(* An activation that found before in the context r below it: own is what  *)
(* the one it gives to had when it last looked.                            *)
FrameHas(w, f, r, inner, H, before, own) ==
    /\ Holding(w, f, r, inner, H, before, own)
    /\ Gathered(w, H[Own(f, r)].handler, f, before, own)

(* The innermost one, in the state it leaves the contexts in.              *)
TopHas(w, f, r, inner, H, before, own) ==
    LET h == H[Own(f, r)].handler
    IN  CASE f.phase = "begin"           -> inner => Parts(H)[r] = before
          [] f.phase \in {"feed", "end"} -> Parts(H)[Own(f, r)] = own
          [] f.phase = "fed"             ->
                Parts(H)[Above(f, r)] =
                   Handed(f, own) \o w.gives[<<h, Asked(f), f.pos>>]

(* The activations that wait, U[i] being what the i-th had gathered.       *)
Before(P, U, i) == IF i = 1 THEN <<>> ELSE Handed(P[i - 1], U[i - 1])
After(P, U)     == Before(P, U, Len(P) + 1)

BelowHas(w, P, U, H) ==
    /\ U \in Seq(Seq(w.part)) /\ Len(U) = Len(P)
    /\ \A i \in DOMAIN P : FrameHas(w, P[i], ReceiverOf(P, i), i # 1, H, Before(P, U, i), U[i])

FrameAt(w, P, f, H, before, own) == FrameHas(w, f, Base(P), P # <<>>, H, before, own)

AtTop(w, P, f, H, before, own) ==
    /\ FrameHas(w, f, Base(P), P # <<>>, H, before, own)
    /\ TopHas(w, f, Base(P), P # <<>>, H, before, own)

ThreadHas(w, F, H) ==
    F # <<>> => \E U \in Seq(Seq(w.part)) : \E own \in Seq(w.part) :
                   /\ BelowHas(w, Front(F), U, H)
                   /\ AtTop(w, Front(F), Last(F), H, After(Front(F), U), own)

(* The element that the parse has kept.                                    *)
RootHas(w, rule, st, F, rt, size, H) ==
    IF st = "parsing" /\ F = <<>> /\ size > 0
    THEN rt # None /\ H[rt].handler = rule /\ InsideIn(w, rule, rule, 0, Parts(H)[rt])
    ELSE rt = None

(* A thread in its call, and all threads, N[s] being what is given of s.   *)
WorldOf(N, X, call) == World(call.input, X, N[call.input])

ThreadContent(w, rule, st, F, rt, size, H) ==
    /\ st = "parsing" => ThreadHas(w, F, H)
    /\ RootHas(w, rule, st, F, rt, size, H)

ContentInv(N, X) ==
    /\ Full(contexts, X)
    /\ \A t \in Thread :
          ThreadContent(WorldOf(N, X, Call(t)), Call(t).rule, status[t], frames[t], root[t],
                        parsed[t], contexts)

----------------------------------------------------------------------------
(* What is said of an activation is kept where the contexts it mentions    *)
(* stand for the same.                                                     *)
Stays(H, H2, c) == Parts(H2)[c] = Parts(H)[c]
Serves(H, H2, c) == H2[c].handler = H[c].handler

KeptFor(f, r, inner, H, H2) ==
    /\ f.phase # "begin" => Serves(H, H2, Own(f, r))
    /\ f.bestBranch # None => Serves(H, H2, f.bestBranch) /\ Stays(H, H2, f.bestBranch)
    /\ f.branch # None => Serves(H, H2, f.branch) /\ Stays(H, H2, Own(f, r))
    /\ inner /\ f.context # None => Stays(H, H2, r)

(* So an activation has what it had.                                       *)
LEMMA FrameHasKept ==
    ASSUME NEW w, NEW f, NEW r, NEW inner \in BOOLEAN, NEW H, NEW H2, NEW before, NEW own,
           GoodFrame(f), KeptFor(f, r, inner, H, H2), FrameHas(w, f, r, inner, H, before, own)
    PROVE  FrameHas(w, f, r, inner, H2, before, own)
  <1>1. Holding(w, f, r, inner, H, before, own)
        /\ Gathered(w, H[Own(f, r)].handler, f, before, own)
    BY DEF FrameHas
  <1>2. CASE f.phase = "begin"
    <2>1. f.context = None /\ f.branch = None /\ f.bestBranch = None /\ ~Choosing(f)
      BY <1>2 DEF GoodFrame, Choosing
    <2>2. Holding(w, f, r, inner, H2, before, own)
      BY <2>1 DEF Holding
    <2>3. Gathered(w, H2[Own(f, r)].handler, f, before, own)
      BY <1>1, <1>2 DEF Gathered, ByNow
    <2>4. QED
      BY <2>2, <2>3 DEF FrameHas
  <1>3. CASE f.phase # "begin"
    <2>1. H2[Own(f, r)].handler = H[Own(f, r)].handler
      BY <1>3 DEF KeptFor, Serves
    <2>2. Gathered(w, H2[Own(f, r)].handler, f, before, own)
      BY <1>1, <2>1
    <2>3. f.context # None => H2[f.context].handler = H[f.context].handler
      BY <2>1 DEF Own
    <2>4. Holding(w, f, r, inner, H2, before, own)
      BY <1>1, <2>1, <2>3 DEF Holding, KeptFor, Serves, Stays
    <2>5. QED
      BY <2>2, <2>4 DEF FrameHas
  <1>4. QED
    BY <1>2, <1>3

TopKeptFor(f, r, inner, H, H2) ==
    /\ inner => Stays(H, H2, r)
    /\ f.phase # "begin" => Serves(H, H2, Own(f, r)) /\ Stays(H, H2, Own(f, r))
    /\ f.branch # None => Stays(H, H2, f.branch)

(* So the innermost one has what it had.                                   *)
LEMMA TopHasKept ==
    ASSUME NEW w, NEW f, NEW r, NEW inner \in BOOLEAN, NEW H, NEW H2, NEW before, NEW own,
           TopKeptFor(f, r, inner, H, H2), TopHas(w, f, r, inner, H, before, own),
           f.phase \in Phase
    PROVE  TopHas(w, f, r, inner, H2, before, own)
  BY DEF TopHas, TopKeptFor, Stays, Serves, Above, Phase

(* The activations that wait, from the last of them.                       *)
LEMMA BelowHasAppend ==
    ASSUME NEW n \in Nat, NEW w, NEW P \in Seq(Frame(n)), NEW f \in Frame(n), NEW H,
           NEW U \in Seq(Seq(w.part)), Len(U) = Len(P), NEW own \in Seq(w.part)
    PROVE  /\ BelowHas(w, Append(P, f), Append(U, own), H) <=>
                 /\ BelowHas(w, P, U, H)
                 /\ FrameHas(w, f, Base(P), P # <<>>, H, After(P, U), own)
           /\ After(Append(P, f), Append(U, own)) = Handed(f, own)
  <1> DEFINE W == Append(P, f)
             V == Append(U, own)
             m == Len(P)
             q == m + 1
             Y == Seq(w.part)
  <1>1. /\ m \in Nat /\ q = m + 1 /\ DOMAIN P = 1..m /\ DOMAIN W = 1..q /\ W[q] = f
        /\ (\A i \in 1..m : W[i] = P[i]) /\ Len(W) = q
    <2>1. /\ m \in Nat /\ DOMAIN P = 1..m /\ W \in Seq(Frame(n)) /\ Len(W) = m + 1
          /\ W[m + 1] = f /\ \A i \in 1..m : W[i] = P[i]
      BY LenProperties, AppendProperties
    <2> HIDE DEF W, m
    <2>2. QED
      BY <2>1, LenProperties
  <1>2. ReceiverOf(W, q) = Base(P) /\ \A i \in 1..m : ReceiverOf(W, i) = ReceiverOf(P, i)
    BY BaseIsLast
  <1>3. P # <<>> <=> q # 1
    BY <1>1, EmptySeq
  <1>4. V \in Seq(Y) /\ Len(V) = q /\ V[q] = own /\ \A i \in 1..m : V[i] = U[i]
    <2> HIDE DEF Y
    <2>1. U \in Seq(Y) /\ own \in Y /\ Len(U) = m
      BY DEF Y
    <2>2. V \in Seq(Y) /\ Len(V) = Len(U) + 1 /\ V[Len(U) + 1] = own
          /\ \A i \in 1..Len(U) : V[i] = U[i]
      BY <2>1, AppendProperties
    <2>3. QED
      BY <2>1, <2>2
  <1>a. Len(P) = m /\ U \in Seq(Y) /\ Len(U) = m
    OBVIOUS
  <1> HIDE DEF W, V, q, m, Y
  <1>5. 1..q = (1..m) \cup {q} /\ q \notin 1..m
    BY <1>1
  <1> DEFINE u == P # <<>>
  <1>b. u = (q # 1)
    BY <1>3
  <1> HIDE DEF u
  <1>6. \A i \in 1..m : Before(W, V, i) = Before(P, U, i)
    <2>1. \A i \in 1..m : i # 1 => i - 1 \in 1..m
      BY <1>1
    <2>2. QED
      BY <1>1, <1>4, <2>1 DEF Before
  <1>7. Before(W, V, q) = After(P, U)
    <2>1. q # 1 => q - 1 \in 1..m
      BY <1>1
    <2>2. Before(W, V, q) = Before(P, U, q)
      BY <1>1, <1>4, <2>1 DEF Before
    <2>3. QED
      BY <1>1, <1>a, <2>2 DEF After
  <1>8. After(W, V) = Handed(f, own)
    <2>1. q + 1 # 1 /\ (q + 1) - 1 = q
      BY <1>1
    <2>2. QED
      BY <1>1, <1>4, <2>1 DEF After, Before
  <1>9. (\A i \in DOMAIN W :
           FrameHas(w, W[i], ReceiverOf(W, i), i # 1, H, Before(W, V, i), V[i])) <=>
           /\ \A i \in DOMAIN P :
                 FrameHas(w, P[i], ReceiverOf(P, i), i # 1, H, Before(P, U, i), U[i])
           /\ FrameHas(w, f, Base(P), u, H, After(P, U), own)
    BY <1>1, <1>2, <1>4, <1>5, <1>6, <1>7, <1>b
  <1>10. V \in Seq(Seq(w.part)) /\ Len(V) = Len(W) /\ U \in Seq(Seq(w.part)) /\ Len(U) = Len(P)
    BY <1>1, <1>4, <1>a DEF Y
  <1>11. BelowHas(w, W, V, H) <=>
                 /\ BelowHas(w, P, U, H)
                 /\ FrameHas(w, f, Base(P), u, H, After(P, U), own)
    BY <1>9, <1>10 DEF BelowHas
  <1>12. QED
    BY <1>8, <1>11 DEF W, V, u

(* ... when there is one.                                                  *)
LEMMA BelowHasLast ==
    ASSUME NEW n \in Nat, NEW w, NEW P \in Seq(Frame(n)), P # <<>>, NEW H,
           NEW U, BelowHas(w, P, U, H)
    PROVE  \E V \in Seq(Seq(w.part)) : \E own \in Seq(w.part) :
              /\ BelowHas(w, Front(P), V, H)
              /\ FrameHas(w, Last(P), Base(Front(P)), Front(P) # <<>>, H, After(Front(P), V), own)
              /\ After(P, U) = Handed(Last(P), own)
  <1> DEFINE Y == Seq(w.part)
             V == Front(U)
             own == Last(U)
             Q == Front(P)
             f == Last(P)
  <1>1. U \in Seq(Y) /\ Len(U) = Len(P)
    BY DEF BelowHas
  <1>2. Q \in Seq(Frame(n)) /\ f \in Frame(n) /\ P = Append(Q, f)
    BY EndsAppend
  <1>3. U # <<>>
    BY <1>1, EmptySeq
  <1> HIDE DEF Y
  <1>4. V \in Seq(Y) /\ own \in Y /\ U = Append(V, own)
    BY <1>1, <1>3, EndsAppend
  <1>5. Len(V) = Len(Q)
    <2> HIDE DEF V, own, Q, f
    <2>1. Len(Append(V, own)) = Len(V) + 1 /\ Len(Append(Q, f)) = Len(Q) + 1
          /\ Len(V) \in Nat /\ Len(Q) \in Nat
      BY <1>2, <1>4, AppendProperties, LenProperties
    <2>2. QED
      BY <1>1, <1>2, <1>4, <2>1
  <1> HIDE DEF V, own, Q, f
  <1>6. BelowHas(w, Append(Q, f), Append(V, own), H)
    BY <1>2, <1>4
  <1>7. V \in Seq(Seq(w.part)) /\ own \in Seq(w.part)
    BY <1>4 DEF Y
  <1>8. /\ BelowHas(w, Q, V, H)
        /\ FrameHas(w, f, Base(Q), Q # <<>>, H, After(Q, V), own)
        /\ After(Append(Q, f), Append(V, own)) = Handed(f, own)
    BY <1>2, <1>5, <1>6, <1>7, BelowHasAppend
  <1>9. QED
    BY <1>2, <1>4, <1>7, <1>8 DEF Q, f

(* The waiting activations keep what they have when, of the contexts they  *)
(* opened, only the last is given something.                               *)
Quiet(P, H, H2) ==
    \A c : Holds(OpenedBy(P), c) =>
              Serves(H, H2, c) /\ (c # Last(OpenedBy(P)) => Stays(H, H2, c))

(* So every waiting activation has what it had.                            *)
LEMMA BelowHasKept ==
    ASSUME NEW n \in Nat, NEW w, NEW P \in Seq(Frame(n)), Waiting(P), NEW U, NEW H, NEW H2,
           BelowHas(w, P, U, H), NoRepetition(OpenedBy(P)), Quiet(P, H, H2)
    PROVE  BelowHas(w, P, U, H2)
  <1>1. ASSUME NEW i \in DOMAIN P
        PROVE  FrameHas(w, P[i], ReceiverOf(P, i), i # 1, H2, Before(P, U, i), U[i])
    <2> DEFINE f == P[i]
               r == ReceiverOf(P, i)
               inner == i # 1
               s == OpenedBy(P)
               before == Before(P, U, i)
               own == U[i]
    <2>1. DOMAIN P = 1..Len(P) /\ f \in Frame(n) /\ P # <<>>
      BY LenProperties, ElementOfSeq, EmptySeq
    <2>2. P[1].context # None
      BY <2>1, FirstOpened
    <2>3. /\ f.context # None => Holds(s, f.context)
          /\ f.bestBranch # None => Holds(s, f.bestBranch)
          /\ f.branch # None => Holds(s, f.branch)
          /\ inner => Holds(s, r)
          /\ inner /\ Opened(f) # <<>> => r # Last(s)
          /\ f.branch # None => /\ f.context # None => f.context # Last(s)
                                /\ f.bestBranch # None => f.bestBranch # Last(s)
      BY <2>1, <2>2, Mentioned
    <2>4. f.context # None \/ f.branch # None => Opened(f) # <<>>
      BY <2>1, OpenedTyped
    <2>5. (inner \/ f.context # None) /\ inner \in BOOLEAN
      BY <2>2
    <2>6. GoodFrame(f) /\ f.phase = "fed"
      BY DEF Waiting
    <2>7. FrameHas(w, f, r, inner, H, before, own)
      BY DEF BelowHas
    <2>8. \A c : Holds(s, c) => Serves(H, H2, c) /\ (c # Last(s) => Stays(H, H2, c))
      BY DEF Quiet
    <2>9. f.bestBranch # None => f.branch # None
      BY <2>6 DEF GoodFrame
    <2> HIDE DEF f, r, inner, s, before, own
    <2>10. KeptFor(f, r, inner, H, H2)
      BY <2>3, <2>4, <2>5, <2>8, <2>9 DEF KeptFor, Own
    <2>11. FrameHas(w, f, r, inner, H2, before, own)
      BY <2>5, <2>6, <2>7, <2>10, FrameHasKept
    <2>12. QED
      BY <2>11 DEF f, r, inner, s, before, own
  <1>2. QED
    BY <1>1 DEF BelowHas

(* The beginning of a sequence without repetition.                         *)
LEMMA DistinctPrefix ==
    ASSUME NEW X, NEW o \in Seq(X), NEW p \in Seq(X), NEW S, S = o \o p, NoRepetition(S)
    PROVE  NoRepetition(o)
  <1>1. /\ Len(o) \in Nat /\ DOMAIN o = 1..Len(o) /\ Len(p) \in Nat
    BY LenProperties
  <1>2. /\ S \in Seq(X) /\ Len(S) = Len(o) + Len(p)
        /\ \A i \in 1..(Len(o) + Len(p)) :
              S[i] = IF i <= Len(o) THEN o[i] ELSE p[i - Len(o)]
    BY ConcatProperties
  <1>3. DOMAIN S = 1..Len(S)
    BY <1>2, LenProperties
  <1>4. \A i \in DOMAIN o : i \in DOMAIN S /\ S[i] = o[i]
    BY <1>1, <1>2, <1>3
  <1>5. QED
    BY <1>4 DEF NoRepetition

(* A thread, from its innermost activation ...                             *)
LEMMA JoinHas ==
    ASSUME NEW n \in Nat, NEW w, NEW P \in Seq(Frame(n)), NEW f \in Frame(n), NEW H,
           NEW U, BelowHas(w, P, U, H), NEW own, AtTop(w, P, f, H, After(P, U), own)
    PROVE  ThreadHas(w, Append(P, f), H)
  <1>1. Front(Append(P, f)) = P /\ Last(Append(P, f)) = f
    BY AppendEnds
  <1>2. U \in Seq(Seq(w.part)) /\ own \in Seq(w.part)
    BY DEF BelowHas, AtTop, FrameHas, Gathered
  <1>3. QED
    BY <1>1, <1>2 DEF ThreadHas

(* ... and back.                                                           *)
LEMMA SplitHas ==
    ASSUME NEW w, NEW F, NEW H, ThreadHas(w, F, H), F # <<>>
    PROVE  \E U \in Seq(Seq(w.part)) : \E own \in Seq(w.part) :
              BelowHas(w, Front(F), U, H) /\ AtTop(w, Front(F), Last(F), H, After(Front(F), U), own)
  BY DEF ThreadHas

(* Whatever becomes of contexts that are not on its stack, a thread keeps  *)
(* what it has.                                                            *)
LEMMA ThreadHasKept ==
    ASSUME NEW n \in Nat, NEW w, NEW st, NEW F \in Seq(Frame(n)), NEW S, GoodThread(st, F, S),
           NoRepetition(S), NEW H, NEW H2, ThreadHas(w, F, H),
           \A c : Holds(S, c) => Serves(H, H2, c) /\ Stays(H, H2, c)
    PROVE  ThreadHas(w, F, H2)
  <1> SUFFICES ASSUME F # <<>> PROVE ThreadHas(w, F, H2)
    BY DEF ThreadHas
  <1> DEFINE P == Front(F)
             f == Last(F)
             r == Base(P)
             inner == P # <<>>
             o == OpenedBy(P)
  <1>1. /\ Waiting(P) /\ GoodFrame(f) /\ (P = <<>> => f.rec \in Handled)
        /\ P \in Seq(Frame(n)) /\ f \in Frame(n) /\ S = o \o Opened(f)
        /\ o \in Seq(1..n) /\ Opened(f) \in Seq(1..n)
    BY SplitThread
  <1>2. PICK U, own : BelowHas(w, P, U, H) /\ AtTop(w, P, f, H, After(P, U), own)
    BY SplitHas
  <1>3. F = Append(P, f)
    BY EndsAppend
  <1>4. /\ f.context # None => Holds(S, f.context)
        /\ f.bestBranch # None => Holds(S, f.bestBranch)
        /\ f.branch # None => Holds(S, f.branch)
        /\ inner => Holds(S, r)
        /\ \A c : Holds(o, c) => Holds(S, c)
    <2> HIDE DEF P, f
    <2>1. QED
      BY <1>1, TopMentioned DEF r, inner, o
  <1>5. NoRepetition(o)
    <2> HIDE DEF P, f, o
    <2>1. QED
      BY <1>1, DistinctPrefix
  <1>6. Quiet(P, H, H2)
    BY <1>4 DEF Quiet
  <1>7. BelowHas(w, P, U, H2)
    <2> HIDE DEF P
    <2>1. QED
      BY <1>1, <1>2, <1>5, <1>6, BelowHasKept DEF o
  <1>8. inner \in BOOLEAN /\ (f.phase # "begin" => inner \/ f.context # None) /\ f.phase \in Phase
        /\ (f.branch # None => f.phase # "begin")
    BY <1>1 DEF GoodFrame, Frame
  <1>9. FrameHas(w, f, r, inner, H, After(P, U), own) /\ TopHas(w, f, r, inner, H, After(P, U), own)
    BY <1>2 DEF AtTop
  <1>a. \A c : Holds(S, c) => Serves(H, H2, c) /\ Stays(H, H2, c)
    OBVIOUS
  <1>b. /\ r = Base(P) /\ inner = (P # <<>>)
    OBVIOUS
  <1> HIDE DEF P, f, r, inner, o
  <1>10. KeptFor(f, r, inner, H, H2)
    BY <1>4, <1>8, <1>a DEF KeptFor, Own
  <1>11. TopKeptFor(f, r, inner, H, H2)
    BY <1>4, <1>8, <1>a DEF TopKeptFor, Own
  <1>12. FrameHas(w, f, r, inner, H2, After(P, U), own)
    BY <1>1, <1>8, <1>9, <1>10, FrameHasKept
  <1>13. TopHas(w, f, r, inner, H2, After(P, U), own)
    BY <1>8, <1>9, <1>11, TopHasKept
  <1>14. AtTop(w, P, f, H2, After(P, U), own)
    BY <1>12, <1>13, <1>b DEF AtTop
  <1>15. QED
    BY <1>1, <1>3, <1>7, <1>14, JoinHas

(* The innermost activation goes on ...                                    *)
LEMMA BecomeHas ==
    ASSUME NEW n \in Nat, TypedWith(n), ThreadsInv, NEW t \in Thread,
           NEW phase, InPhase(t, phase), NEW m \in Nat, n <= m, NEW g \in Frame(m),
           Become(t, g), NEW P, P = Front(frames[t]), NEW w, NEW H, NEW U, BelowHas(w, P, U, H),
           NEW own, AtTop(w, P, g, H, After(P, U), own)
    PROVE  ThreadHas(w, frames'[t], H) /\ \A u \in Thread : u # t => frames'[u] = frames[u]
  <1>1. Front(frames[t]) \in Seq(Frame(n))
    BY TopThread
  <1>2. P \in Seq(Frame(m))
    BY <1>1, PointersStayValid, SeqMonotonic
  <1>3. frames'[t] = Append(P, g) /\ \A u \in Thread : u # t => frames'[u] = frames[u]
    BY DEF Become, TypedWith, FramesOf
  <1>4. ThreadHas(w, Append(P, g), H)
    BY <1>2, JoinHas
  <1>5. QED
    BY <1>3, <1>4

(* ... calls feed() on an element ...                                      *)
LEMMA CallHas ==
    ASSUME NEW n \in Nat, TypedWith(n), ThreadsInv, NEW t \in Thread,
           NEW phase, InPhase(t, phase), NEW m \in Nat, n <= m, NEW g \in Frame(m),
           NEW element \in Recognizer, CallFeed(t, g, element),
           NEW P, P = Front(frames[t]), NEW w, NEW H, NEW U, BelowHas(w, P, U, H),
           NEW own, FrameAt(w, P, Fed(g), H, After(P, U), own),
           Parts(H)[Base(Append(P, Fed(g)))] = Handed(g, own)
    PROVE  ThreadHas(w, frames'[t], H) /\ \A u \in Thread : u # t => frames'[u] = frames[u]
  <1> DEFINE fed == Fed(g)
             called == Activation(element, g.pos)
             W == Append(P, fed)
             V == Append(U, own)
             before == Handed(fed, own)
  <1>1. Front(frames[t]) \in Seq(Frame(n))
    BY TopThread
  <1>2. P \in Seq(Frame(m))
    BY <1>1, PointersStayValid, SeqMonotonic
  <1>3. fed \in Frame(m) /\ fed.pos = g.pos /\ g.pos \in Nat /\ fed.branch = g.branch
    BY DEF Frame, Phase, Fed
  <1>4. called \in Frame(m) /\ called.phase = "begin" /\ called.context = None
        /\ called.branch = None /\ called.bestBranch = None
    <2>1. called \in Frame(m)
      BY <1>3, ActivationTyped
    <2>2. QED
      BY <2>1 DEF Activation
  <1>5. frames'[t] = P \o <<fed, called>> /\ \A u \in Thread : u # t => frames'[u] = frames[u]
    BY DEF CallFeed, TypedWith, FramesOf, Fed
  <1>6. P \o <<fed, called>> = Append(W, called)
    <2> HIDE DEF called, fed
    <2> QED BY <1>2, <1>3, <1>4, AppendTwo
  <1>7. U \in Seq(Seq(w.part)) /\ Len(U) = Len(P) /\ own \in Seq(w.part)
    BY DEF BelowHas, FrameAt, FrameHas, Gathered
  <1>8. FrameHas(w, fed, Base(P), P # <<>>, H, After(P, U), own)
        /\ Parts(H)[Base(W)] = before
    BY <1>3 DEF Handed, FrameAt
  <1>9. W \in Seq(Frame(m)) /\ W # <<>>
    BY <1>2, <1>3, AppendEnds
  <1> HIDE DEF fed, called
  <1>10. BelowHas(w, W, V, H) /\ After(W, V) = before
    BY <1>2, <1>3, <1>7, <1>8, BelowHasAppend
  <1>11. before \in Seq(w.part) /\ before = before \o <<>> /\ <<>> \in Seq(w.part)
    <2>1. before \in Seq(w.part)
      BY <1>7, EmptySeq DEF Handed
    <2> HIDE DEF before
    <2>2. QED
      BY <2>1, EmptySeq, ConcatEmptySeq
  <1> HIDE DEF W, V, before
  <1>12. AtTop(w, W, called, H, before, before)
    <2>1. Gathered(w, H[Own(called, Base(W))].handler, called, before, before)
      BY <1>4, <1>11 DEF Gathered, Plain, ByNow
    <2>2. Holding(w, called, Base(W), W # <<>>, H, before, before)
      BY <1>4 DEF Holding, Choosing
    <2>3. TopHas(w, called, Base(W), W # <<>>, H, before, before)
      BY <1>4, <1>8 DEF TopHas
    <2>4. QED
      BY <2>1, <2>2, <2>3 DEF AtTop, FrameHas
  <1>13. ThreadHas(w, Append(W, called), H)
    BY <1>4, <1>9, <1>10, <1>12, JoinHas
  <1>14. QED
    BY <1>5, <1>6, <1>13

(* ... or returns: what it gave comes on top of what the one below had.    *)
LEMMA ReturnHas ==
    ASSUME NEW n \in Nat, TypedWith(n), ThreadsInv, NEW t \in Thread,
           NEW phase, InPhase(t, phase), Return(t), NEW P, P = Front(frames[t]),
           NEW w, NEW H, NEW U, BelowHas(w, P, U, H),
           P # <<>> => /\ Asked(Last(P)) = Top(t).rec /\ Last(P).pos = Top(t).begin
                       /\ Parts(H)[Base(P)] = After(P, U) \o
                             w.gives[<<H[Base(P)].handler, Top(t).rec, Top(t).begin>>]
    PROVE  ThreadHas(w, frames'[t], H) /\ \A u \in Thread : u # t => frames'[u] = frames[u]
  <1> DEFINE f == Top(t)
             q == f.matched
             p == [Last(P) EXCEPT !.matched = q]
  <1>1. P \in Seq(Frame(n)) /\ f \in Frame(n) /\ Waiting(P)
    BY TopThread
  <1>2. frames'[t] = (IF P = <<>> THEN <<>> ELSE Append(Front(P), p))
        /\ \A u \in Thread : u # t => frames'[u] = frames[u]
    BY DEF Return, TypedWith, FramesOf
  <1>a. /\ BelowHas(w, P, U, H)
        /\ P # <<>> => /\ Asked(Last(P)) = f.rec /\ Last(P).pos = f.begin
                       /\ Parts(H)[Base(P)] = After(P, U) \o
                             w.gives[<<H[Base(P)].handler, f.rec, f.begin>>]
    OBVIOUS
  <1>b. q \in Matched
    BY <1>1 DEF Frame
  <1> HIDE DEF f, q
  <1>3. CASE P = <<>>
    BY <1>2, <1>3 DEF ThreadHas
  <1>4. CASE P # <<>>
    <2> DEFINE Q == Front(P)
               g == Last(P)
    <2>1. /\ Q \in Seq(Frame(n)) /\ g \in Frame(n) /\ P = Append(Q, g) /\ GoodFrame(g)
          /\ g.phase = "fed"
      BY <1>1, <1>4, WaitingLess
    <2>2. PICK V \in Seq(Seq(w.part)), own \in Seq(w.part) :
             /\ BelowHas(w, Q, V, H)
             /\ FrameHas(w, g, Base(Q), Q # <<>>, H, After(Q, V), own)
             /\ After(P, U) = Handed(g, own)
      BY <1>1, <1>4, BelowHasLast
    <2>3. p = [g EXCEPT !.matched = q]
      OBVIOUS
    <2>4. /\ Asked(g) = f.rec /\ g.pos = f.begin
          /\ Parts(H)[Base(P)] = Handed(g, own) \o w.gives[<<H[Base(P)].handler, f.rec, f.begin>>]
      BY <1>4, <1>a, <2>2
    <2> HIDE DEF Q, g, p
    <2>5. /\ p \in Frame(n) /\ HoldsAs(g, p) /\ p.phase = g.phase /\ p.index = g.index
          /\ p.begin = g.begin /\ p.pos = g.pos /\ p.mark = g.mark /\ p.best = g.best
      BY <1>b, <2>1, <2>3 DEF Frame, HoldsAs
    <2> DEFINE before == After(Q, V)
               r == Base(Q)
               inner == Q # <<>>
    <2>6. /\ g.branch # None => Base(P) = g.branch
          /\ g.branch = None => Base(P) = Own(g, r)
      <3>1. g.branch = None => g.bestBranch = None
        BY <2>1 DEF GoodFrame
      <3>2. QED
        BY <2>1, <3>1, BaseAbove
    <2>7. FrameHas(w, g, r, inner, H, before, own)
      BY <2>2
    <2> HIDE DEF before, r, inner
    <2>8. Own(p, r) = Own(g, r) /\ (Plain(p) <=> Plain(g)) /\ (Choosing(p) <=> Choosing(g))
      BY <2>5 DEF HoldsAs, Own, Plain, Choosing
    <2>9. Gathered(w, H[Own(p, r)].handler, p, before, own)
      <3>1. \A h, x : ByNow(w, h, g, x) => ByNow(w, h, p, x)
        BY <2>1, <2>5 DEF ByNow, Underway, HoldsAs
      <3>2. QED
        BY <2>5, <2>7, <2>8, <3>1 DEF FrameHas, Gathered, HoldsAs
    <2>10. Holding(w, p, r, inner, H, before, own)
      <3>1. \A h, x : BestGift(w, h, g, x) => BestGift(w, h, p, x)
        BY <2>5 DEF BestGift, HoldsAs, Elements
      <3>2. QED
        BY <2>5, <2>7, <2>8, <3>1 DEF FrameHas, Holding, HoldsAs
    <2>11. TopHas(w, p, r, inner, H, before, own)
      <3>1. Above(p, r) = Base(P) /\ Handed(p, own) = Handed(g, own)
        BY <2>5, <2>6, <2>8 DEF Above, Handed, HoldsAs
      <3>2. H[Base(P)].handler = H[Own(p, r)].handler
        BY <2>6, <2>7, <2>8 DEF FrameHas, Holding
      <3>3. Asked(p) = f.rec /\ p.pos = f.begin
        BY <2>4, <2>5 DEF Asked, HoldsAs, Elements
      <3>4. QED
        BY <2>1, <2>4, <2>5, <3>1, <3>2, <3>3 DEF TopHas
    <2>12. AtTop(w, Q, p, H, After(Q, V), own)
      BY <2>9, <2>10, <2>11 DEF AtTop, FrameHas, before, r, inner
    <2>13. ThreadHas(w, Append(Q, p), H)
      BY <2>1, <2>2, <2>5, <2>12, JoinHas
    <2>14. QED
      BY <1>2, <1>4, <2>13 DEF Q
  <1>5. QED
    BY <1>3, <1>4

(* A step of t, as the others see it.                                      *)
OnlyOf(t) ==
    /\ script' = script
    /\ \A u \in Thread : u # t =>
          /\ status'[u] = status[u] /\ frames'[u] = frames[u] /\ parses'[u] = parses[u]
          /\ parsed'[u] = parsed[u] /\ root'[u] = root[u]

(* The contexts that are not on its stack stand for the same.              *)
LeavesOthers(n, S, H, H2) ==
    \A c \in 1..n : Serves(H, H2, c) /\ (~Holds(S, c) => Stays(H, H2, c))

LEMMA StepContent ==
    ASSUME NEW n \in Nat, TypedWith(n), ThreadsInv, HoldersInv, NEW N, NEW X, ContentInv(N, X),
           NEW t \in Thread, OnlyOf(t), LeavesOthers(n, handlerStack[t], contexts, contexts'),
           Full(contexts', X),
           ThreadContent(WorldOf(N, X, Call(t)'), Call(t)'.rule, status'[t], frames'[t], root'[t],
                         parsed'[t], contexts')
    PROVE  ContentInv(N, X)'
  <1>1. ASSUME NEW u \in Thread, u # t
        PROVE  ThreadContent(WorldOf(N, X, Call(u)'), Call(u)'.rule, status'[u], frames'[u],
                             root'[u], parsed'[u], contexts')
    <2> DEFINE w == WorldOf(N, X, Call(u))
               rule == Call(u).rule
               st == status[u]
               F == frames[u]
               S == handlerStack[u]
               rt == root[u]
               size == parsed[u]
               H == contexts
               H2 == contexts'
               S0 == handlerStack[t]
    <2>1. /\ status'[u] = st /\ frames'[u] = F /\ root'[u] = rt /\ parsed'[u] = size
          /\ Call(u)' = Call(u)
      BY <1>1 DEF OnlyOf, Call
    <2>2. ThreadContent(w, rule, st, F, rt, size, H)
      BY DEF ContentInv
    <2>3. GoodThread(st, F, S) /\ F \in Seq(Frame(n))
      BY DEF ThreadsInv, TypedWith, FramesOf
    <2>4. NoRepetition(S) /\ \A c : Holds(S, c) => c \in 1..n /\ ~Holds(S0, c)
      BY <1>1, StacksDistinct
    <2>5. rt # None => rt \in 1..n /\ ~Holds(S0, rt)
      <3>1. rt \in Pointer(n)
        BY DEF TypedWith
      <3>2. ASSUME rt # None PROVE ~Holds(S0, rt)
        <4>1. InRoots(root, rt)
          BY DEF InRoots
        <4>2. ~InStacks(handlerStack, rt)
          BY <3>2, <4>1 DEF HoldersInv, Apart, KindsApart, OneKind
        <4>3. QED
          BY <4>2 DEF InStacks, Holds
      <3>3. QED
        BY <3>1, <3>2 DEF Pointer, None
    <2>6. \A c \in 1..n : Serves(H, H2, c) /\ (~Holds(S0, c) => Stays(H, H2, c))
      BY DEF LeavesOthers
    <2> HIDE DEF w, rule, st, F, S, rt, size, H, H2, S0
    <2>7. st = "parsing" => ThreadHas(w, F, H2)
      <3>1. \A c : Holds(S, c) => Serves(H, H2, c) /\ Stays(H, H2, c)
        BY <2>4, <2>6
      <3>2. st = "parsing" => ThreadHas(w, F, H)
        BY <2>2 DEF ThreadContent
      <3>3. QED
        BY <2>3, <2>4, <3>1, <3>2, ThreadHasKept
    <2>8. RootHas(w, rule, st, F, rt, size, H2)
      <3>1. RootHas(w, rule, st, F, rt, size, H)
        BY <2>2 DEF ThreadContent
      <3>2. rt # None => Serves(H, H2, rt) /\ Stays(H, H2, rt)
        BY <2>5, <2>6
      <3>3. QED
        BY <3>1, <3>2 DEF RootHas, Serves, Stays
    <2>9. ThreadContent(w, rule, st, F, rt, size, H2)
      BY <2>7, <2>8 DEF ThreadContent
    <2>10. QED
      BY <2>1, <2>9 DEF w, rule, H2
  <1>2. \A u \in Thread :
          ThreadContent(WorldOf(N, X, Call(u)'), Call(u)'.rule, status'[u], frames'[u],
                        root'[u], parsed'[u], contexts')
    BY <1>1
  <1>3. QED
    BY <1>2 DEF ContentInv

(* A step inside the parse of t: what has to be shown.                     *)
Inner(t) ==
    /\ OnlyOf(t) /\ parses' = parses
    /\ status'[t] = "parsing"

LEMMA InnerContent ==
    ASSUME NEW n \in Nat, TypedWith(n), ThreadsInv, HoldersInv, NEW N, NEW X, ContentInv(N, X),
           NEW t \in Thread, Inner(t), LeavesOthers(n, handlerStack[t], contexts, contexts'),
           Full(contexts', X),
           ThreadHas(WorldOf(N, X, Call(t)), frames'[t], contexts'),
           RootHas(WorldOf(N, X, Call(t)), Call(t).rule, "parsing", frames'[t], root'[t],
                   parsed'[t], contexts')
    PROVE  ContentInv(N, X)'
  <1>1. Call(t)' = Call(t) /\ OnlyOf(t) /\ status'[t] = "parsing"
    BY DEF Inner, OnlyOf, Call
  <1>2. ThreadContent(WorldOf(N, X, Call(t)'), Call(t)'.rule, status'[t], frames'[t], root'[t],
                         parsed'[t], contexts')
    BY <1>1 DEF ThreadContent
  <1>3. QED
    BY <1>1, <1>2, StepContent

(* The innermost activation of a thread, and all that is known of it.      *)
Found(n, w, t, P, f, U, own) ==
    /\ P = Front(frames[t]) /\ f = Top(t)
    /\ BelowHas(w, P, U, contexts) /\ AtTop(w, P, f, contexts, After(P, U), own)
    /\ P \in Seq(Frame(n)) /\ f \in Frame(n) /\ Waiting(P) /\ GoodFrame(f)
    /\ P = <<>> => f.rec \in Handled
    /\ OpenedBy(P) \in Seq(1..n) /\ NoRepetition(OpenedBy(P))
    /\ handlerStack[t] = OpenedBy(P) \o Opened(f)
    /\ \A c : Holds(handlerStack[t], c) => c \in 1..n /\ ~InHeap(contexts, c)
    /\ \A c : Holds(OpenedBy(P), c) => Holds(handlerStack[t], c)
    /\ NoRepetition(handlerStack[t])
    /\ P # <<>> => Base(P) = Last(OpenedBy(P)) /\ Holds(OpenedBy(P), Base(P))
    /\ root[t] = None

LEMMA TopFound ==
    ASSUME NEW n \in Nat, TypedWith(n), ThreadsInv, HoldersInv, NEW N, NEW X, ContentInv(N, X),
           NEW t \in Thread, NEW phase, InPhase(t, phase)
    PROVE  \E U, own : Found(n, WorldOf(N, X, Call(t)), t, Front(frames[t]), Top(t), U, own)
  <1> DEFINE w == WorldOf(N, X, Call(t))
             F == frames[t]
             P == Front(F)
             f == Top(t)
             S == handlerStack[t]
             o == OpenedBy(P)
  <1>1. /\ P \in Seq(Frame(n)) /\ f \in Frame(n) /\ Waiting(P) /\ GoodFrame(f)
        /\ (P = <<>> => f.rec \in Handled) /\ f.phase = phase
        /\ o \in Seq(1..n) /\ S = o \o Opened(f) /\ F # <<>> /\ f = Last(F)
        /\ status[t] = "parsing"
    BY TopThread DEF Top
  <1>2. ThreadContent(w, Call(t).rule, status[t], F, root[t], parsed[t], contexts)
    BY DEF ContentInv
  <1>3. ThreadHas(w, F, contexts) /\ root[t] = None
    BY <1>1, <1>2 DEF ThreadContent, RootHas
  <1>4. PICK U, own : BelowHas(w, P, U, contexts) /\ AtTop(w, P, f, contexts, After(P, U), own)
    BY <1>1, <1>3, SplitHas
  <1>5. NoRepetition(S) /\ \A c : Holds(S, c) => c \in 1..n
    BY StacksDistinct
  <1>6. ASSUME NEW c, Holds(S, c) PROVE ~InHeap(contexts, c)
    <2>1. InStacks(handlerStack, c) /\ c # None
      BY <1>5, <1>6 DEF InStacks, Holds, None
    <2>2. QED
      BY <2>1 DEF HoldersInv, Apart, KindsApart, OneKind
  <1>a. P = Front(frames[t]) /\ f = Top(t) /\ S = handlerStack[t]
    OBVIOUS
  <1> HIDE DEF w, F, P, f, S, o
  <1>7. Opened(f) \in Seq(1..n)
    BY <1>1, OpenedTyped
  <1>8. NoRepetition(o)
    BY <1>1, <1>5, <1>7, DistinctPrefix
  <1>9. \A c : Holds(o, c) => Holds(S, c)
    BY <1>1, <1>7, HeldByConcat
  <1>10. P # <<>> => Base(P) = Last(o) /\ Holds(o, Base(P))
    <2>1. P # <<>> => o # <<>>
      BY <1>1, FirstOpened DEF o
    <2>2. Base(P) = Last(o)
      BY <1>1, BaseIsLast DEF o
    <2>3. QED
      BY <1>1, <2>1, <2>2, LastIsHeld
  <1>11. Found(n, w, t, P, f, U, own)
    BY <1>1, <1>3, <1>4, <1>5, <1>6, <1>8, <1>9, <1>10, <1>a DEF Found, o
  <1>12. QED
    BY <1>11 DEF w, P, f, F

----------------------------------------------------------------------------
(* An element more, with what it gave.                                     *)
GathersMore(w, h, r, p, k, ends, m, x) ==
    \E d \in [0..(k + 1) -> Nat] :
       /\ Gathers(w, h, r, p, k + 1, d, x)
       /\ d[k + 1] = ends[k] + m
       /\ \A i \in 0..k : d[i] = ends[i]

LEMMA RunMore ==
    ASSUME NEW w, NEW h, NEW r, NEW p, NEW k \in Nat, NEW ends \in [0..k -> Nat], NEW x,
           Gathers(w, h, r, p, k, ends, x), NEW m \in Nat,
           <<ElementAt(r, k + 1), ends[k], m>> \in Meant(w.text),
           NEW y \in Seq(w.part), y = w.gives[<<h, ElementAt(r, k + 1), ends[k]>>]
    PROVE  GathersMore(w, h, r, p, k, ends, m, x \o y)
  <1> DEFINE Y == Seq(w.part)
             M == Meant(w.text)
             gift(i, e) == w.gives[<<h, ElementAt(r, i), e>>]
             l == k + 1
  <1>1. Trail(M, r, p, k, ends)
    BY DEF Gathers
  <1>2. PICK got \in [0..k -> Y] : Run(w, h, r, k, ends, got) /\ x = got[k]
    BY DEF Gathers
  <1>3. Longer(M, r, p, k, ends, m)
    <2> HIDE DEF M
    <2>1. <<ElementAt(r, k + 1), ends[k], m>> \in M
      BY DEF M
    <2>2. QED
      BY <1>1, <2>1, TrailMore
  <1>4. PICK d \in [0..l -> Nat] :
           Trail(M, r, p, l, d) /\ d[l] = ends[k] + m /\ \A i \in 0..k : d[i] = ends[i]
    BY <1>3 DEF Longer
  <1> DEFINE more == [i \in 0..l |-> IF i = l THEN got[k] \o y ELSE got[i]]
  <1>5. /\ got[0] = <<>>
        /\ \A i \in 1..k : got[i] = got[i - 1] \o gift(i, ends[i - 1])
        /\ \A i \in 0..k : got[i] \in Y
    BY <1>2 DEF Run
  <1>6. y \in Y /\ y = gift(l, ends[k])
    OBVIOUS
  <1>7. got[k] \o y \in Y
    <2>1. got[k] \in Seq(w.part)
      BY <1>5
    <2>2. QED
      BY <2>1, ConcatProperties
  <1> DEFINE z == got[k] \o y
  <1>8. z \in Y /\ z = got[k] \o y /\ more = [i \in 0..l |-> IF i = l THEN z ELSE got[i]]
    BY <1>7
  <1> HIDE DEF Y, M, gift, z, more
  <1>9. /\ more \in [0..l -> Y] /\ more[l] = z /\ \A i \in 0..k : more[i] = got[i]
    <2>1. \A i \in 0..l : i # l => i \in 0..k
      OBVIOUS
    <2>2. l \in 0..l /\ \A i \in 0..k : i \in 0..l /\ i # l
      OBVIOUS
    <2> HIDE DEF l
    <2>3. QED
      BY <1>5, <1>8, <2>1, <2>2
  <1>10. \A i \in 1..l : more[i] = more[i - 1] \o gift(i, d[i - 1])
    <2>1. ASSUME NEW i \in 1..k PROVE more[i] = more[i - 1] \o gift(i, d[i - 1])
      <3>1. more[i] = got[i] /\ more[i - 1] = got[i - 1] /\ d[i - 1] = ends[i - 1]
        BY <1>4, <1>9
      <3>2. QED
        BY <1>5, <3>1
    <2>2. more[l] = more[l - 1] \o gift(l, d[l - 1])
      <3>1. l - 1 = k /\ more[k] = got[k] /\ d[k] = ends[k]
        BY <1>4, <1>9
      <3>2. QED
        BY <1>6, <1>8, <1>9, <3>1
    <2>3. \A i \in 1..l : i = l \/ i \in 1..k
      OBVIOUS
    <2> HIDE DEF l
    <2>4. QED
      BY <2>1, <2>2, <2>3
  <1>11. more[0] = <<>>
    BY <1>5, <1>9
  <1>12. Run(w, h, r, l, d, more)
    BY <1>9, <1>10, <1>11 DEF Run, Y, gift
  <1>13. Gathers(w, h, r, p, l, d, x \o y)
    <2>1. x \o y = more[l] /\ more \in [0..l -> Y]
      BY <1>2, <1>8, <1>9
    <2>2. QED
      BY <1>4, <1>12, <2>1 DEF Gathers, M, Y
  <1>14. QED
    BY <1>4, <1>13 DEF GathersMore

(* Before the first element nothing has been given.                        *)
GathersNone(w, h, r, p, k) ==
    \E ends \in [0..k -> Nat] : Gathers(w, h, r, p, k, ends, <<>>) /\ ends[k] = p
                                /\ \A i \in 1..k : FALSE

LEMMA RunBegins ==
    ASSUME NEW w, NEW h, NEW r, NEW p \in Nat
    PROVE  GathersNone(w, h, r, p, 0)
  <1> DEFINE ends == [i \in 0..0 |-> p]
             got == [i \in 0..0 |-> <<>>]
             Y == Seq(w.part)
  <1>1. ends \in [0..0 -> Nat] /\ ends[0] = p
    OBVIOUS
  <1>2. got \in [0..0 -> Y] /\ got[0] = <<>>
    <2>1. <<>> \in Y
      BY EmptySeq
    <2> HIDE DEF Y
    <2>2. QED
      BY <2>1
  <1>3. \A i \in 1..0 : FALSE
    OBVIOUS
  <1> HIDE DEF ends, got
  <1>4. Trail(Meant(w.text), r, p, 0, ends)
    BY <1>1, <1>3 DEF Trail
  <1>5. Run(w, h, r, 0, ends, got)
    BY <1>2, <1>3 DEF Run, Y
  <1>6. QED
    BY <1>1, <1>2, <1>3, <1>4, <1>5 DEF Gathers, Y, GathersNone

(* An activation that begins has gathered nothing.                         *)
LEMMA BegunUnderway ==
    ASSUME NEW n \in Nat, NEW f \in Frame(n), NEW M, NEW s, f.phase = "begin", Goes(M, s, f),
           NEW g, Alike(f, g), g.phase = "feed", NEW w, NEW h
    PROVE  ByNow(w, h, g, <<>>)
  <1> DEFINE r == f.rec
             p == f.begin
  <1>1. g.rec = r /\ g.begin = p /\ g.pos = p /\ g.index = 0 /\ p \in Nat /\ r \in Recognizer
    BY FrameFields DEF Goes, Alike
  <1> HIDE DEF r, p
  <1> DEFINE k == 0
  <1>a. GathersNone(w, h, r, p, k) /\ k \in Nat /\ g.index = k
    BY <1>1, RunBegins
  <1>b. Shape[r].kind = "loop" => Counted(r, k) = k
    <2>1. Shape[r].min \in Nat
      BY <1>1, ElementsTyped
    <2>2. QED
      BY <2>1 DEF Counted
  <1> HIDE DEF k
  <1>2. PICK ends \in [0..k -> Nat] : Gathers(w, h, r, p, k, ends, <<>>) /\ ends[k] = p
                                     /\ \A i \in 1..k : FALSE
    BY <1>a DEF GathersNone
  <1>3. CASE Shape[r].kind = "sequence"
    BY <1>1, <1>2, <1>3, <1>a DEF ByNow, Underway
  <1>4. CASE Shape[r].kind = "loop"
    <2>1. Repeating(w.text, r, k, ends)
      BY <1>2 DEF Repeating
    <2>2. QED
      BY <1>1, <1>2, <1>4, <1>a, <1>b, <2>1 DEF ByNow, Underway
  <1>5. CASE Shape[r].kind \notin {"sequence", "loop"}
    BY <1>1, <1>5 DEF ByNow, Underway
  <1>6. QED
    BY <1>3, <1>4, <1>5

(* What the innermost activation is given by the element it called.        *)
Gift(w, h, f) == IF f.phase = "fed" THEN w.gives[<<h, Asked(f), f.pos>>] ELSE <<>>

(* It is typed, and nothing for no character.                              *)
LEMMA GiftTyped ==
    ASSUME NEW n \in Nat, NEW f \in Frame(n), NEW w, Gathering(w), NEW h \in Handled,
           Goes(Meant(w.text), w.text, f), f.phase = "fed"
    PROVE  /\ Gift(w, h, f) = w.gives[<<h, Asked(f), f.pos>>] /\ Gift(w, h, f) \in Seq(w.part)
           /\ f.matched <= 0 => Gift(w, h, f) = <<>>
           /\ <<Asked(f), f.pos, f.matched>> \in Meant(w.text)
           /\ Arrived(Meant(w.text), w.text, f)
           /\ Shape[f.rec].kind \in {"sequence", "exclusive", "selector"} => MoreElements(f)
           /\ Shape[f.rec].kind = "loop" => LoopGoesOn(f.rec, f.index, w.text, f.pos)
           /\ Asked(f) \in Recognizer
  <1> DEFINE M == Meant(w.text)
  <1>1. PICK r \in Recognizer, p \in Nat : Waits(M, w.text, f, r, p) /\ <<r, p, f.matched>> \in M
    BY DEF Goes
  <1>2. r = Asked(f) /\ p = f.pos /\ Arrived(M, w.text, f)
        /\ (Shape[f.rec].kind \in {"sequence", "exclusive", "selector"} => MoreElements(f))
        /\ (Shape[f.rec].kind = "loop" => LoopGoesOn(f.rec, f.index, w.text, f.pos))
    <2>1. Shape[f.rec].kind \in Kind
      BY FrameFields
    <2>2. QED
      BY <1>1, <2>1 DEF Waits, Asks, Asked, Kind
  <1>3. f.matched \in Matched
    BY FrameFields
  <1>4. GivesFor(w, h, r, p, f.matched)
    BY <1>1, <1>3 DEF Gathering
  <1>5. QED
    BY <1>1, <1>2, <1>4 DEF GivesFor, Gift

(* A sequence with all its elements answers what they gave; one that goes  *)
(* on has one element more.                                                *)
LEMMA SequenceGathers ==
    ASSUME NEW n \in Nat, NEW f \in Frame(n), NEW w, Gathering(w), NEW h \in Handled,
           Shape[f.rec].kind = "sequence", NEW x \in Seq(w.part), ByNow(w, h, f, x)
    PROVE  /\ f.phase = "feed" /\ Arrived(Meant(w.text), w.text, f) /\ ~MoreElements(f) =>
                 \A m \in Matched : ByNow(w, h, Answer(f, m), x)
           /\ f.phase = "fed" /\ Goes(Meant(w.text), w.text, f) /\ f.matched # NPos =>
                 ByNow(w, h, Advance(f), x \o Gift(w, h, f))
  <1> DEFINE r == f.rec
             k == f.index
             es == Elements(f)
             p == f.begin
  <1>0. /\ f.matched \in Matched /\ f.pos \in Nat /\ k \in Nat /\ Len(es) \in Nat
    BY FrameFields
  <1>1. ASSUME f.phase \in {"feed", "fed"}
        PROVE  \E ends \in [0..k -> Nat] : Gathers(w, h, r, p, k, ends, x) /\ ends[k] = f.pos
    BY <1>1 DEF ByNow, Underway
  <1>2. ASSUME f.phase = "feed", Arrived(Meant(w.text), w.text, f), ~MoreElements(f),
               NEW m \in Matched
        PROVE  ByNow(w, h, Answer(f, m), x)
    <2>1. k <= Len(es)
      BY <1>2 DEF Arrived
    <2>2. k = Len(Shape[r].elements)
      BY <1>0, <1>2, <2>1 DEF MoreElements, Elements
    <2>3. InsideIn(w, h, r, p, x)
      BY <1>1, <1>2, <2>2 DEF InsideIn
    <2>4. Answer(f, m).phase = "end" /\ Answer(f, m).rec = r /\ Answer(f, m).begin = p
      BY AnswerFields
    <2>5. QED
      BY <2>3, <2>4 DEF ByNow
  <1>3. ASSUME f.phase = "fed", Goes(Meant(w.text), w.text, f), f.matched # NPos
        PROVE  ByNow(w, h, Advance(f), x \o Gift(w, h, f))
    <2> DEFINE y == Gift(w, h, f)
               g == Advance(f)
               pos == f.pos + f.matched
               total == f.total + f.matched
               index == k + 1
               z == x \o y
    <2>1. PICK ends \in [0..k -> Nat] : Gathers(w, h, r, p, k, ends, x) /\ ends[k] = f.pos
      BY <1>1, <1>3
    <2>2. f.matched \in Nat
      BY <1>0, <1>3 DEF Matched
    <2>3. Asked(f) = ElementAt(r, k + 1)
      BY DEF Asked, ElementAt, Elements
    <2>4. /\ y = w.gives[<<h, ElementAt(r, k + 1), ends[k]>>] /\ y \in Seq(w.part)
          /\ <<ElementAt(r, k + 1), ends[k], f.matched>> \in Meant(w.text)
      BY <1>3, <2>1, <2>3, GiftTyped
    <2>5. g = [f EXCEPT !.pos = pos, !.total = total, !.index = index, !.phase = "feed"]
      BY DEF Advance
    <2> HIDE DEF y, g, pos, total, index
    <2>6. g.rec = r /\ g.begin = p /\ g.pos = pos /\ g.index = index /\ g.phase = "feed"
      BY <2>5 DEF Frame
    <2> HIDE DEF r, k, p, z
    <2>7. GathersMore(w, h, r, p, k, ends, f.matched, z)
      BY <1>0, <2>1, <2>2, <2>4, RunMore DEF z
    <2>8. PICK d \in [0..(k + 1) -> Nat] :
             Gathers(w, h, r, p, k + 1, d, z) /\ d[k + 1] = ends[k] + f.matched
      BY <2>7 DEF GathersMore
    <2>9. d \in [0..index -> Nat] /\ Gathers(w, h, r, p, index, d, z) /\ d[index] = pos
      BY <2>1, <2>8 DEF index, pos
    <2>10. Shape[g.rec].kind = "sequence"
      BY <2>6 DEF r
    <2>11. Underway(w, h, g, z)
      BY <2>6, <2>9, <2>10 DEF Underway
    <2>12. ByNow(w, h, g, z)
      BY <2>6, <2>11 DEF ByNow
    <2>13. QED
      BY <2>12 DEF g, z, y
  <1>4. QED
    BY <1>2, <1>3

(* A loop that ends answers what its repetitions gave; one that goes on    *)
(* has one more.                                                           *)
LEMMA LoopGathers ==
    ASSUME NEW n \in Nat, NEW f \in Frame(n), NEW w, Gathering(w), NEW h \in Handled,
           Shape[f.rec].kind = "loop", NEW x \in Seq(w.part), ByNow(w, h, f, x)
    PROVE  /\ f.phase = "feed" /\ ~LoopGoesOn(f.rec, f.index, w.text, f.pos) =>
                 \A m \in Matched : ByNow(w, h, Answer(f, m), x)
           /\ f.phase = "fed" /\ Goes(Meant(w.text), w.text, f) /\ f.matched = NPos =>
                 \A m \in Matched : ByNow(w, h, Answer(f, m), x \o Gift(w, h, f))
           /\ f.phase = "fed" /\ Goes(Meant(w.text), w.text, f) /\ f.matched # NPos =>
                 ByNow(w, h, Repeated(f), x \o Gift(w, h, f))
  <1> DEFINE r == f.rec
             p == f.begin
             s == w.text
             Stands(k, ends) == /\ Gathers(w, h, r, p, k, ends, x) /\ ends[k] = f.pos
                                /\ f.index = Counted(r, k) /\ Repeating(s, r, k, ends)
  <1>0. /\ f.matched \in Matched /\ f.pos \in Nat /\ f.index \in Nat /\ r \in Recognizer
    BY FrameFields
  <1>1. ASSUME f.phase \in {"feed", "fed"}
        PROVE  \E k \in Nat : \E ends \in [0..k -> Nat] : Stands(k, ends)
    BY <1>1 DEF ByNow, Underway
  <1>2. ASSUME NEW k \in Nat, NEW ends \in [0..k -> Nat], Stands(k, ends),
               ~LoopGoesOn(r, f.index, s, f.pos) \/ <<Elements(f)[1], f.pos, NPos>> \in Meant(s),
               NEW m \in Matched
        PROVE  ByNow(w, h, Answer(f, m), x)
    <2>1. Answer(f, m).phase = "end" /\ Answer(f, m).rec = r /\ Answer(f, m).begin = p
      BY AnswerFields
    <2>2. ~LoopGoesOn(r, k, s, ends[k]) \/ <<ElementAt(r, k + 1), ends[k], NPos>> \in Meant(s)
      BY <1>0, <1>2, CountedStandsFor DEF ElementAt, Elements
    <2> HIDE DEF r
    <2>3. Shape[r].kind = "loop"
      BY DEF r
    <2>4. InsideIn(w, h, r, p, x)
      BY <1>2, <2>2, <2>3 DEF InsideIn
    <2>5. QED
      BY <2>1, <2>4 DEF ByNow, r
  <1>3. ASSUME f.phase = "fed", Goes(Meant(s), s, f), f.matched = NPos, NEW m \in Matched
        PROVE  ByNow(w, h, Answer(f, m), x \o Gift(w, h, f))
    <2>1. PICK k \in Nat : \E ends \in [0..k -> Nat] : Stands(k, ends)
      BY <1>1, <1>3
    <2>2. PICK ends \in [0..k -> Nat] : Stands(k, ends)
      BY <2>1
    <2>3. Gift(w, h, f) = <<>> /\ <<Elements(f)[1], f.pos, NPos>> \in Meant(s)
      <3>1. f.matched <= 0
        BY <1>3 DEF NPos
      <3>2. Asked(f) = Elements(f)[1]
        BY DEF Asked
      <3>3. QED
        BY <1>3, <3>1, <3>2, GiftTyped
    <2>4. x \o Gift(w, h, f) = x
      BY <2>3, ConcatEmptySeq
    <2>5. QED
      BY <1>2, <2>2, <2>3, <2>4
  <1>4. ASSUME f.phase = "fed", Goes(Meant(s), s, f), f.matched # NPos
        PROVE  ByNow(w, h, Repeated(f), x \o Gift(w, h, f))
    <2> DEFINE y == Gift(w, h, f)
               g == Repeated(f)
               pos == f.pos + f.matched
               z == x \o y
    <2>1. PICK k \in Nat : \E ends \in [0..k -> Nat] : Stands(k, ends)
      BY <1>1, <1>4
    <2>2. PICK ends \in [0..k -> Nat] : Stands(k, ends)
      BY <2>1
    <2>3. f.matched \in Nat
      BY <1>0, <1>4 DEF Matched
    <2>4. Asked(f) = ElementAt(r, k + 1)
      BY DEF Asked, ElementAt, Elements
    <2>5. /\ y = w.gives[<<h, ElementAt(r, k + 1), ends[k]>>] /\ y \in Seq(w.part)
          /\ <<ElementAt(r, k + 1), ends[k], f.matched>> \in Meant(s)
          /\ LoopGoesOn(r, f.index, s, f.pos)
      BY <1>4, <2>2, <2>4, GiftTyped
    <2>6. /\ g.rec = r /\ g.begin = p /\ g.pos = pos /\ g.phase = "feed"
          /\ g.index = Counted(r, k + 1)
      <3> DEFINE total == f.total + f.matched
                 more == f.index + 1
                 a == [f EXCEPT !.pos = pos, !.total = total, !.index = more, !.phase = "feed"]
      <3>1. Advance(f) = a
        BY DEF Advance
      <3>2. g = (IF Shape[f.rec].max = Unbounded /\ f.index >= Shape[f.rec].min
                 THEN [a EXCEPT !.index = f.index] ELSE a)
        BY <3>1 DEF Repeated
      <3>3. Counted(r, k + 1) = IF Shape[r].max = Unbounded /\ f.index >= Shape[r].min
                                THEN f.index ELSE more
        BY <1>0, <2>2, CountedStandsFor
      <3> HIDE DEF g, pos, total, more
      <3>4. a.rec = r /\ a.begin = p /\ a.pos = pos /\ a.phase = "feed" /\ a.index = more
            /\ [a EXCEPT !.index = f.index].rec = r /\ [a EXCEPT !.index = f.index].begin = p
            /\ [a EXCEPT !.index = f.index].pos = pos
            /\ [a EXCEPT !.index = f.index].phase = "feed"
            /\ [a EXCEPT !.index = f.index].index = f.index
        BY DEF Frame
      <3> HIDE DEF a
      <3>5. QED
        BY <3>2, <3>3, <3>4
    <2> HIDE DEF y, g
    <2>7. /\ Gathers(w, h, r, p, k, ends, x) /\ ends[k] = f.pos /\ Repeating(s, r, k, ends)
          /\ f.index = Counted(r, k)
      BY <2>2
    <2>8. LoopGoesOn(r, k, s, ends[k])
      BY <1>0, <2>5, <2>7, CountedStandsFor
    <2> HIDE DEF r, p, z, pos, s
    <2>9. GathersMore(w, h, r, p, k, ends, f.matched, z)
      BY <2>3, <2>5, <2>7, RunMore DEF z, s
    <2>10. PICK d \in [0..(k + 1) -> Nat] :
             /\ Gathers(w, h, r, p, k + 1, d, z) /\ d[k + 1] = ends[k] + f.matched
             /\ \A i \in 0..k : d[i] = ends[i]
      BY <2>9 DEF GathersMore
    <2>11. Repeating(s, r, k + 1, d)
      <3>1. ASSUME NEW i \in 1..(k + 1) PROVE LoopGoesOn(r, i - 1, s, d[i - 1])
        <4>1. CASE i = k + 1
          <5>1. i - 1 = k /\ d[k] = ends[k]
            BY <2>10, <4>1
          <5>2. QED
            BY <2>8, <5>1
        <4>2. CASE i # k + 1
          <5>1. i \in 1..k /\ d[i - 1] = ends[i - 1]
            BY <2>10, <4>2
          <5>2. QED
            BY <2>7, <5>1 DEF Repeating
        <4>3. QED
          BY <4>1, <4>2
      <3>2. QED
        BY <3>1 DEF Repeating
    <2> DEFINE l == k + 1
    <2>12. /\ l \in Nat /\ d \in [0..l -> Nat] /\ Gathers(w, h, r, p, l, d, z) /\ d[l] = pos
           /\ g.index = Counted(r, l) /\ Repeating(s, r, l, d)
      BY <2>6, <2>7, <2>10, <2>11 DEF pos
    <2> HIDE DEF l
    <2>13. Shape[g.rec].kind = "loop"
      BY <2>6 DEF r
    <2>14. Underway(w, h, g, z)
      BY <2>6, <2>12, <2>13 DEF Underway, s
    <2>15. ByNow(w, h, g, z)
      BY <2>6, <2>14 DEF ByNow
    <2>16. QED
      BY <2>15 DEF g, z, y
  <1>5. ASSUME f.phase = "feed", ~LoopGoesOn(f.rec, f.index, w.text, f.pos), NEW m \in Matched
        PROVE  ByNow(w, h, Answer(f, m), x)
    <2>1. PICK k \in Nat : \E ends \in [0..k -> Nat] : Stands(k, ends)
      BY <1>1, <1>5
    <2>2. PICK ends \in [0..k -> Nat] : Stands(k, ends)
      BY <2>1
    <2>3. QED
      BY <1>2, <1>5, <2>2
  <1>6. QED
    BY <1>3, <1>4, <1>5

(* A text has nothing inside, a delegate what its element gave, an         *)
(* exclusive selector what the alternative it takes gave.                  *)
LEMMA SimpleGathers ==
    ASSUME NEW n \in Nat, NEW f \in Frame(n), NEW w, Gathering(w), NEW h \in Handled,
           NEW x \in Seq(w.part), ByNow(w, h, f, x)
    PROVE  /\ Shape[f.rec].kind = "text" /\ f.phase = "feed" =>
                 \A m \in Matched : ByNow(w, h, Answer(f, m), x)
           /\ Shape[f.rec].kind = "delegate" /\ f.phase = "fed"
              /\ Goes(Meant(w.text), w.text, f) =>
                 ByNow(w, h, Answer(f, f.matched), x \o Gift(w, h, f))
           /\ Shape[f.rec].kind = "exclusive" /\ f.phase = "fed"
              /\ Goes(Meant(w.text), w.text, f) =>
                 /\ f.matched > 0 => ByNow(w, h, Answer(f, f.matched), x \o Gift(w, h, f))
                 /\ ~(f.matched > 0) => x \o Gift(w, h, f) = <<>>
           /\ Shape[f.rec].kind \in {"text", "delegate", "exclusive"}
              /\ f.phase \in {"feed", "fed"} => x = <<>>
  <1> DEFINE r == f.rec
             p == f.begin
             y == Gift(w, h, f)
             M == Meant(w.text)
  <1>0. f.matched \in Matched /\ f.pos \in Nat /\ f.index \in Nat /\ r \in Recognizer
        /\ Len(Elements(f)) \in Nat
    BY FrameFields
  <1>1. Shape[r].kind \in {"text", "delegate", "exclusive"} /\ f.phase \in {"feed", "fed"}
        => x = <<>>
    BY DEF ByNow, Underway
  <1>2. ASSUME NEW m \in Matched
        PROVE  Answer(f, m).rec = r /\ Answer(f, m).begin = p /\ Answer(f, m).phase = "end"
               /\ Answer(f, m).matched = m
    BY AnswerFields
  <1>3. ASSUME Shape[r].kind = "text", f.phase = "feed", NEW m \in Matched
        PROVE  ByNow(w, h, Answer(f, m), x)
    <2>1. InsideIn(w, h, r, p, x)
      BY <1>1, <1>3 DEF InsideIn
    <2>2. QED
      BY <1>2, <2>1 DEF ByNow
  <1>4. ASSUME f.phase = "fed", Goes(M, w.text, f),
               Shape[r].kind \in {"delegate", "exclusive"}
        PROVE  x \o y = y
    <2>1. x = <<>>
      BY <1>1, <1>4
    <2>2. y \in Seq(w.part)
      BY <1>4, GiftTyped
    <2> HIDE DEF y
    <2>3. <<>> \o y = y
      BY <2>2, ConcatEmptySeq
    <2>4. QED
      BY <2>1, <2>3
  <1>5. ASSUME Shape[r].kind = "delegate", f.phase = "fed", Goes(M, w.text, f)
        PROVE  ByNow(w, h, Answer(f, f.matched), x \o y)
    <2>1. y = w.gives[<<h, Asked(f), f.pos>>] /\ Arrived(M, w.text, f)
      BY <1>5, GiftTyped
    <2>2. Asked(f) = Shape[r].elements[1] /\ f.pos = p
      BY <1>5, <2>1 DEF Asked, Elements, Arrived
    <2>3. InsideIn(w, h, r, p, y)
      BY <1>5, <2>1, <2>2 DEF InsideIn
    <2>4. x \o y = y
      BY <1>4, <1>5
    <2>5. QED
      BY <1>0, <1>2, <2>3, <2>4 DEF ByNow
  <1>6. ASSUME Shape[r].kind = "exclusive", f.phase = "fed", Goes(M, w.text, f), f.matched > 0
        PROVE  ByNow(w, h, Answer(f, f.matched), x \o y)
    <2> DEFINE i == f.index + 1
               es == Shape[r].elements
    <2>1. /\ y = w.gives[<<h, Asked(f), f.pos>>] /\ Arrived(M, w.text, f) /\ MoreElements(f)
          /\ <<Asked(f), f.pos, f.matched>> \in M
      BY <1>6, GiftTyped
    <2>2. Asked(f) = es[i] /\ f.pos = p /\ Refused(M, r, p, f.index)
      BY <1>6, <2>1 DEF Asked, Elements, Arrived
    <2>3. i \in 1..Len(es) /\ i - 1 = f.index
      BY <1>0, <2>1 DEF MoreElements, Elements
    <2>4. f.matched \in Nat
      BY <1>0, <1>6 DEF Matched, NPos
    <2> HIDE DEF i, es, y
    <2>5. \E j \in 1..Len(es) : \E k \in Nat :
             k > 0 /\ Refused(M, r, p, j - 1) /\ <<es[j], p, k>> \in M
             /\ y = w.gives[<<h, es[j], p>>]
      BY <1>6, <2>1, <2>2, <2>3, <2>4
    <2>6. InsideIn(w, h, r, p, y)
      BY <1>6, <2>5 DEF InsideIn, es
    <2>7. x \o y = y
      BY <1>4, <1>6 DEF y
    <2>8. QED
      BY <1>0, <1>2, <2>6, <2>7 DEF ByNow, y
  <1>7. ASSUME Shape[r].kind = "exclusive", f.phase = "fed", Goes(M, w.text, f),
               ~(f.matched > 0)
        PROVE  x \o y = <<>>
    <2>1. f.matched <= 0
      BY <1>0, <1>7 DEF Matched, NPos
    <2>2. y = <<>>
      BY <1>7, <2>1, GiftTyped
    <2>3. QED
      BY <1>4, <1>7, <2>2
  <1>8. QED
    BY <1>1, <1>3, <1>5, <1>6, <1>7

(* What a recognizer that is no selector makes of its activation.          *)
GatherOn(w, h, f, g) ==
    /\ HoldsAs(f, g)
    /\ g.begin = f.begin /\ g.mark = f.mark
    /\ g.phase \in {"feed", "end"}
    /\ \A x \in Seq(w.part) : ByNow(w, h, f, x) => ByNow(w, h, g, x \o Gift(w, h, f))

LEMMA AnswerGathers ==
    ASSUME NEW n \in Nat, NEW f \in Frame(n), NEW w, NEW h, NEW m \in Matched,
           \A x \in Seq(w.part) :
              ByNow(w, h, f, x) /\ m > 0 => ByNow(w, h, Answer(f, m), x \o Gift(w, h, f))
    PROVE  Answer(f, m) \in Frame(n) /\ GatherOn(w, h, f, Answer(f, m))
  <1> DEFINE g == Answer(f, m)
  <1>1. g \in Frame(n)
    BY NextFrameTyped
  <1>2. /\ HoldsAs(f, g) /\ g.phase = "end" /\ g.matched = m /\ g.begin = f.begin
        /\ g.mark = f.mark
    BY DEF Frame, Answer, HoldsAs
  <1>a. \A x \in Seq(w.part) : ByNow(w, h, f, x) /\ m > 0
                                  => ByNow(w, h, g, x \o Gift(w, h, f))
    OBVIOUS
  <1> HIDE DEF g
  <1>3. \A x : ~(m > 0) => ByNow(w, h, g, x)
    BY <1>2 DEF ByNow
  <1>4. \A x \in Seq(w.part) : ByNow(w, h, f, x) => ByNow(w, h, g, x \o Gift(w, h, f))
    BY <1>3, <1>a
  <1>5. QED
    BY <1>1, <1>2, <1>4 DEF GatherOn, g

(* So does every step of a recognizer that is no selector.                 *)
LEMMA PlainGathers ==
    ASSUME NEW n \in Nat, TypedWith(n), NEW t \in Thread, PlainFeed(t),
           NEW w, Gathering(w), w.text = Call(t).input, NEW h \in Handled,
           Goes(Meant(w.text), w.text, Top(t))
    PROVE  \/ \E g \in Frame(n) : GatherOn(w, h, Top(t), g) /\ Become(t, g)
           \/ Top(t).phase = "feed" /\ Asked(Top(t)) \in Recognizer
              /\ CallFeed(t, Top(t), Asked(Top(t)))
  <1> DEFINE f == Top(t)
             Goal == \/ \E g \in Frame(n) : GatherOn(w, h, f, g) /\ Become(t, g)
                     \/ f.phase = "feed" /\ Asked(f) \in Recognizer /\ CallFeed(t, f, Asked(f))
             y == Gift(w, h, f)
             s == w.text
             M == Meant(s)
  <1>0. \E phase \in {"feed", "fed"} : InPhase(t, phase)
    BY PlainGoesOn
  <1>1. f \in Frame(n) /\ f.phase \in {"feed", "fed"} /\ Goes(M, s, f) /\ s = Call(t).input
    BY <1>0, TopOfThread DEF InPhase
  <1>2. /\ f.matched \in Matched /\ f.total \in Nat /\ NPos \in Matched /\ ~(NPos > 0)
        /\ f.pos \in Nat /\ f.index \in Nat /\ f.total \in Matched
    BY <1>1 DEF Frame, Matched, NPos
  <1>a. ASSUME f.phase = "feed", NEW x \in Seq(w.part) PROVE y = <<>> /\ x \o y = x
    <2>1. y = <<>>
      BY <1>a DEF Gift
    <2> HIDE DEF y
    <2>2. QED
      BY <1>a, <2>1, ConcatEmptySeq
  <1>b. f.phase = "feed" => Arrived(M, s, f)
    BY <1>1 DEF Goes
  <1>y. y = Gift(w, h, f)
    OBVIOUS
  <1> HIDE DEF f, y, s, M
  <1>3. ASSUME f.phase = "feed", CallFeed(t, f, Asked(f)), Asked(f) \in Recognizer PROVE Goal
    BY <1>3
  <1>4. ASSUME NEW m \in Matched, Become(t, Answer(f, m)),
               \A x \in Seq(w.part) :
                  ByNow(w, h, f, x) /\ m > 0 => ByNow(w, h, Answer(f, m), x \o y)
        PROVE  Goal
    <2> DEFINE g == Answer(f, m)
    <2>1. g \in Frame(n) /\ GatherOn(w, h, f, g)
      BY <1>1, <1>4, AnswerGathers DEF y
    <2>2. QED
      BY <1>4, <2>1
  <1>5. ASSUME NEW m \in Matched, Become(t, Answer(f, m)), f.phase = "feed",
               \A x \in Seq(w.part) : ByNow(w, h, f, x) => ByNow(w, h, Answer(f, m), x)
        PROVE  Goal
    BY <1>4, <1>5, <1>a
  <1>6. ASSUME NEW g, Become(t, g), g \in Frame(n), HoldsAs(f, g), g.begin = f.begin,
               g.mark = f.mark, g.phase = "feed",
               \A x \in Seq(w.part) : ByNow(w, h, f, x) => ByNow(w, h, g, x \o y)
        PROVE  Goal
    BY <1>6, <1>y DEF GatherOn
  <1>7. /\ MoreElements(f) => Elements(f)[f.index + 1] \in Recognizer
        /\ Shape[f.rec].kind \in {"loop", "delegate"} => Elements(f)[1] \in Recognizer
    BY <1>1, RecognizerTyped
  <1>8. Goal
    <2> HIDE DEF Goal
    <2>1. CASE FeedText(t)
      <3> DEFINE m == MatchText(f.rec, Call(t).input, f.pos)
      <3>1. /\ Become(t, Answer(f, m)) /\ f.phase = "feed" /\ Shape[f.rec].kind = "text"
        BY <2>1 DEF FeedText, Running, InPhase, f
      <3>2. m \in Matched
        BY <1>1, RecognizerTyped
      <3> HIDE DEF m
      <3>3. \A x \in Seq(w.part) : ByNow(w, h, f, x) => ByNow(w, h, Answer(f, m), x)
        BY <1>1, <3>1, <3>2, SimpleGathers
      <3>4. QED
        BY <1>5, <3>1, <3>2, <3>3
    <2>2. CASE FeedDelegate(t)
      <3>1. /\ CallFeed(t, f, Elements(f)[1]) /\ f.phase = "feed"
            /\ Shape[f.rec].kind = "delegate"
        BY <2>2 DEF FeedDelegate, Running, InPhase, f
      <3>2. QED
        BY <1>3, <1>7, <3>1 DEF Asked
    <2>3. CASE DelegateFed(t)
      <3>1. Become(t, Answer(f, f.matched)) /\ f.phase = "fed" /\ Shape[f.rec].kind = "delegate"
        BY <2>3 DEF DelegateFed, Running, InPhase, f
      <3>2. \A x \in Seq(w.part) : ByNow(w, h, f, x) => ByNow(w, h, Answer(f, f.matched), x \o y)
        BY <1>1, <3>1, SimpleGathers DEF y, M, s
      <3>3. QED
        BY <1>2, <1>4, <3>1, <3>2
    <2>4. CASE FeedSequence(t)
      <3>1. /\ f.phase = "feed" /\ Shape[f.rec].kind = "sequence"
            /\ \/ MoreElements(f) /\ CallFeed(t, f, Elements(f)[f.index + 1])
               \/ ~MoreElements(f) /\ Become(t, Answer(f, f.total))
        BY <2>4 DEF FeedSequence, Running, InPhase, f
      <3>2. CASE MoreElements(f) /\ CallFeed(t, f, Elements(f)[f.index + 1])
        BY <1>3, <1>7, <3>1, <3>2 DEF Asked
      <3>3. CASE ~MoreElements(f) /\ Become(t, Answer(f, f.total))
        <4>1. \A x \in Seq(w.part) : ByNow(w, h, f, x) => ByNow(w, h, Answer(f, f.total), x)
          BY <1>1, <1>2, <1>b, <3>1, <3>3, SequenceGathers DEF M, s
        <4>2. QED
          BY <1>2, <1>5, <3>1, <3>3, <4>1
      <3>4. QED
        BY <3>1, <3>2, <3>3
    <2>5. CASE SequenceFed(t)
      <3>1. /\ f.phase = "fed" /\ Shape[f.rec].kind = "sequence"
            /\ \/ Become(t, Answer(f, NPos))
               \/ f.matched # NPos /\ Become(t, Advance(f))
        BY <2>5 DEF SequenceFed, Running, InPhase, f
      <3>2. CASE Become(t, Answer(f, NPos))
        BY <1>2, <1>4, <3>2
      <3>3. CASE f.matched # NPos /\ Become(t, Advance(f))
        <4> DEFINE g == Advance(f)
        <4>1. g \in Frame(n) /\ HoldsAs(f, g) /\ g.begin = f.begin /\ g.mark = f.mark
              /\ g.phase = "feed"
          <5>1. g \in Frame(n)
            BY <1>1, <3>1, <3>3, NextFrameTyped
          <5>2. QED
            BY <1>1, <5>1 DEF Frame, HoldsAs, Advance
        <4>2. \A x \in Seq(w.part) : ByNow(w, h, f, x) => ByNow(w, h, g, x \o y)
          BY <1>1, <3>1, <3>3, SequenceGathers DEF M, s, y
        <4>3. QED
          BY <1>6, <3>3, <4>1, <4>2
      <3>4. QED
        BY <3>1, <3>2, <3>3
    <2>6. CASE FeedExclusive(t)
      <3>1. /\ f.phase = "feed" /\ Shape[f.rec].kind = "exclusive"
            /\ \/ MoreElements(f) /\ CallFeed(t, f, Elements(f)[f.index + 1])
               \/ Become(t, Answer(f, NPos))
        BY <2>6 DEF FeedExclusive, Running, InPhase, f
      <3>2. CASE MoreElements(f) /\ CallFeed(t, f, Elements(f)[f.index + 1])
        BY <1>3, <1>7, <3>1, <3>2 DEF Asked
      <3>3. CASE Become(t, Answer(f, NPos))
        BY <1>2, <1>4, <3>3
      <3>4. QED
        BY <3>1, <3>2, <3>3
    <2>7. CASE ExclusiveFed(t)
      <3> DEFINE index == f.index + 1
                 g == [f EXCEPT !.index = index, !.phase = "feed"]
      <3>1. /\ f.phase = "fed" /\ Shape[f.rec].kind = "exclusive"
            /\ \/ f.matched > 0 /\ Become(t, Answer(f, f.matched))
               \/ ~(f.matched > 0) /\ Become(t, g)
        BY <2>7 DEF ExclusiveFed, Running, InPhase, f
      <3>2. CASE f.matched > 0 /\ Become(t, Answer(f, f.matched))
        <4>1. \A x \in Seq(w.part) : ByNow(w, h, f, x) =>
                 ByNow(w, h, Answer(f, f.matched), x \o y)
          BY <1>1, <3>1, <3>2, SimpleGathers DEF M, s, y
        <4>2. QED
          BY <1>2, <1>4, <3>2, <4>1
      <3>3. CASE ~(f.matched > 0) /\ Become(t, g)
        <4>1. index \in Nat
          BY <1>1 DEF Frame
        <4> HIDE DEF index
        <4>2. /\ g \in Frame(n) /\ HoldsAs(f, g) /\ g.phase = "feed" /\ g.begin = f.begin
              /\ g.mark = f.mark
          BY <1>1, <4>1 DEF Frame, Phase, HoldsAs
        <4>a. Become(t, g)
          BY <3>3
        <4> HIDE DEF g
        <4>3. \A x \in Seq(w.part) : ByNow(w, h, f, x) => x \o y = <<>>
          BY <1>1, <3>1, <3>3, SimpleGathers DEF M, s, y
        <4>4. ByNow(w, h, g, <<>>)
          BY <3>1, <4>2 DEF ByNow, Underway, HoldsAs
        <4>5. \A x \in Seq(w.part) : ByNow(w, h, f, x) => ByNow(w, h, g, x \o y)
          BY <4>3, <4>4
        <4>6. QED
          BY <1>6, <4>2, <4>5, <4>a
      <3>4. QED
        BY <3>1, <3>2, <3>3
    <2>8. CASE FeedLoop(t)
      <3> DEFINE on == LoopGoesOn(f.rec, f.index, s, f.pos)
      <3>1. /\ f.phase = "feed" /\ Shape[f.rec].kind = "loop"
            /\ (on /\ CallFeed(t, f, Elements(f)[1])) \/ (~on /\ Become(t, LoopAnswer(f)))
        BY <1>1, <2>8 DEF FeedLoop, Running, InPhase, f
      <3>2. CASE CallFeed(t, f, Elements(f)[1])
        BY <1>3, <1>7, <3>1, <3>2 DEF Asked
      <3>3. CASE ~on /\ Become(t, LoopAnswer(f))
        <4>1. PICK m \in Matched : Become(t, Answer(f, m))
          BY <1>2, <3>3 DEF LoopAnswer
        <4>2. \A x \in Seq(w.part) : ByNow(w, h, f, x) => ByNow(w, h, Answer(f, m), x)
          BY <1>1, <3>1, <3>3, LoopGathers DEF s
        <4>3. QED
          BY <1>5, <3>1, <4>1, <4>2
      <3>4. QED
        BY <3>1, <3>2, <3>3
    <2>9. CASE LoopFed(t)
      <3>1. /\ f.phase = "fed" /\ Shape[f.rec].kind = "loop"
            /\ \/ f.matched = NPos /\ Become(t, LoopAnswer(f))
               \/ f.matched # NPos /\ Become(t, Repeated(f))
        BY <2>9 DEF LoopFed, Running, InPhase, f
      <3>2. CASE f.matched = NPos /\ Become(t, LoopAnswer(f))
        <4>1. PICK m \in Matched : Become(t, Answer(f, m))
          BY <1>2, <3>2 DEF LoopAnswer
        <4>2. \A x \in Seq(w.part) : ByNow(w, h, f, x) => ByNow(w, h, Answer(f, m), x \o y)
          BY <1>1, <3>1, <3>2, LoopGathers DEF s, M, y
        <4>3. QED
          BY <1>4, <4>1, <4>2
      <3>3. CASE f.matched # NPos /\ Become(t, Repeated(f))
        <4> DEFINE g == Repeated(f)
        <4>1. g \in Frame(n)
          BY <1>1, <3>1, <3>3, NextFrameTyped
        <4>2. HoldsAs(f, g) /\ g.begin = f.begin /\ g.mark = f.mark /\ g.phase = "feed"
          BY <1>1 DEF Frame, HoldsAs, Advance, Repeated
        <4>3. \A x \in Seq(w.part) : ByNow(w, h, f, x) => ByNow(w, h, g, x \o y)
          BY <1>1, <3>1, <3>3, LoopGathers DEF M, s, y
        <4>4. QED
          BY <1>6, <3>3, <4>1, <4>2, <4>3
      <3>4. QED
        BY <3>1, <3>2, <3>3
    <2>10. QED
      BY <2>1, <2>2, <2>3, <2>4, <2>5, <2>6, <2>7, <2>8, <2>9 DEF PlainFeed
  <1>9. QED
    BY <1>8 DEF f

----------------------------------------------------------------------------
(* What the steps of the parses rest on.                                   *)
Known(n, N, X) ==
    TypedWith(n) /\ ThreadsInv /\ HoldersInv /\ AnswersInv /\ ContentInv(N, X)

(* In every text, what is given follows from what is inside.               *)
Worlds(N, X) == \A s \in Seq(Char) : Gathering(World(s, X, N[s]))

(* The innermost activation of a thread, in the world of its call.         *)
InWorld(n, w, X, call, f) ==
    /\ Gathering(w) /\ w.text = call.input /\ w.part = X
    /\ Goes(Meant(w.text), w.text, f)
    /\ call \in Request

(* The innermost activation of a thread is in that world.                  *)
LEMMA TopWorld ==
    ASSUME NEW n \in Nat, NEW N, NEW X, Known(n, N, X), Worlds(N, X), NEW t \in Thread,
           NEW phase, InPhase(t, phase)
    PROVE  /\ InWorld(n, WorldOf(N, X, Call(t)), X, Call(t), Top(t)) /\ Top(t).phase = phase
           /\ \E U, own : Found(n, WorldOf(N, X, Call(t)), t, Front(frames[t]), Top(t), U, own)
  <1>1. TypedWith(n) /\ ThreadsInv /\ HoldersInv /\ AnswersInv /\ ContentInv(N, X)
    BY DEF Known
  <1>2. parses[t] \in 1..Len(script[t]) /\ Goes(Meant(Call(t).input), Call(t).input, Top(t))
        /\ Top(t).phase = phase
    BY <1>1, TopAnswers
  <1>3. Call(t) \in Request
    <2>1. script[t] \in Seq(Request)
      BY <1>1 DEF TypedWith
    <2>2. QED
      BY <1>2, <2>1, ElementOfSeq DEF Call
  <1>4. Gathering(WorldOf(N, X, Call(t)))
    <2>1. Call(t).input \in Seq(Char)
      BY <1>3 DEF Request
    <2>2. QED
      BY <2>1 DEF Worlds, WorldOf
  <1>5. WorldOf(N, X, Call(t)).text = Call(t).input /\ WorldOf(N, X, Call(t)).part = X
    BY DEF WorldOf, World
  <1>6. QED
    BY <1>1, <1>2, <1>3, <1>4, <1>5, TopFound DEF InWorld

(* A step of t that leaves it in its parse, with activations.              *)
LEMMA WorkContent ==
    ASSUME NEW n \in Nat, NEW N, NEW X, Known(n, N, X), ThreadsInv', NEW t \in Thread,
           Within(t), parsed' = parsed, root' = root, root[t] = None, frames'[t] # <<>>,
           \A u \in Thread : u # t => frames'[u] = frames[u],
           LeavesOthers(n, handlerStack[t], contexts, contexts'), Full(contexts', X),
           ThreadHas(WorldOf(N, X, Call(t)), frames'[t], contexts')
    PROVE  ContentInv(N, X)'
  <1>1. status'[t] = "parsing"
    <2>1. GoodThread(status'[t], frames'[t], handlerStack'[t])
      BY DEF ThreadsInv
    <2>2. QED
      BY <2>1 DEF GoodThread
  <1>2. Inner(t)
    BY <1>1 DEF Inner, OnlyOf, Within
  <1>3. RootHas(WorldOf(N, X, Call(t)), Call(t).rule, "parsing", frames'[t], root'[t],
                parsed'[t], contexts')
    BY DEF RootHas
  <1>4. QED
    BY <1>2, <1>3, InnerContent DEF Known

(* ... as when the innermost activation goes on or calls feed().           *)
LEMMA RunsOn ==
    ASSUME NEW n \in Nat, TypedWith(n), ThreadsInv, NEW t \in Thread,
           NEW phase, InPhase(t, phase), NEW m \in Nat, n <= m, NEW g \in Frame(m),
           Become(t, g) \/ \E e \in Recognizer : CallFeed(t, g, e)
    PROVE  frames'[t] # <<>>
  <1>1. Front(frames[t]) \in Seq(Frame(n))
    BY TopThread
  <1> DEFINE P == Front(frames[t])
  <1>2. P \in Seq(Frame(m))
    BY <1>1, PointersStayValid, SeqMonotonic
  <1>3. CASE Become(t, g)
    <2>1. frames'[t] = Append(P, g)
      BY <1>3 DEF Become, TypedWith, FramesOf
    <2> HIDE DEF P
    <2>2. QED
      BY <1>2, <2>1, AppendEnds
  <1>4. ASSUME NEW e \in Recognizer, CallFeed(t, g, e) PROVE frames'[t] # <<>>
    <2> DEFINE fed == Fed(g)
               called == Activation(e, g.pos)
    <2>1. frames'[t] = P \o <<fed, called>>
      BY <1>4 DEF CallFeed, TypedWith, FramesOf, Fed
    <2>2. fed \in Frame(m) /\ called \in Frame(m)
      <3>1. fed \in Frame(m) /\ g.pos \in Nat
        BY DEF Frame, Phase, Fed
      <3>2. QED
        BY <3>1, ActivationTyped
    <2> HIDE DEF P, fed, called
    <2>3. P \o <<fed, called>> = Append(Append(P, fed), called)
      BY <1>2, <2>2, AppendTwo
    <2>4. Append(P, fed) \in Seq(Frame(m))
      BY <1>2, <2>2, AppendEnds
    <2>5. QED
      BY <2>1, <2>2, <2>3, <2>4, AppendEnds
  <1>5. QED
    BY <1>3, <1>4

(* Where the contexts stay as they are.                                    *)
LEMMA SameHeap ==
    ASSUME NEW n, NEW S, NEW H
    PROVE  LeavesOthers(n, S, H, H)
  BY DEF LeavesOthers, Serves, Stays

(* What the element gave is gathered.                                      *)
LEMMA GatheredOn ==
    ASSUME NEW w, NEW h, NEW f, NEW g, NEW before, NEW own, Gathered(w, h, f, before, own),
           f.phase # "begin", GatherOn(w, h, f, g), Gift(w, h, f) \in Seq(w.part)
    PROVE  Gathered(w, h, g, before, own \o Gift(w, h, f))
  <1> DEFINE y == Gift(w, h, f)
             X == w.part
             base == IF f.context # None THEN <<>> ELSE before
  <1>1. PICK x \in Seq(X) : ByNow(w, h, f, x) /\ own = base \o x
    BY DEF Gathered
  <1>2. before \in Seq(X) /\ own \in Seq(X) /\ base \in Seq(X) /\ y \in Seq(X)
    BY EmptySeq DEF Gathered
  <1>a. y = Gift(w, h, f) /\ base = (IF g.context # None THEN <<>> ELSE before)
    BY DEF GatherOn, HoldsAs
  <1>b. X = w.part
    OBVIOUS
  <1> HIDE DEF y, X, base
  <1>3. x \o y \in Seq(X) /\ own \o y \in Seq(X)
    BY <1>2, ConcatProperties
  <1>4. own \o y = base \o (x \o y)
    <2> DEFINE z == own \o y
    <2>1. own = base \o x /\ z = own \o y
      BY <1>1
    <2> HIDE DEF z
    <2>2. z = base \o (x \o y)
      BY <1>1, <1>2, <2>1, ConcatThrice
    <2>3. QED
      BY <2>2 DEF z
  <1>5. ByNow(w, h, g, x \o y)
    BY <1>1, <1>a, <1>b DEF GatherOn
  <1>6. Plain(g) => g.mark = Len(before)
    BY DEF GatherOn, HoldsAs, Plain, Gathered
  <1> DEFINE z == x \o y
             z2 == own \o y
  <1>7. /\ z \in Seq(X) /\ z2 \in Seq(X) /\ z2 = base \o z /\ ByNow(w, h, g, z)
    BY <1>3, <1>4, <1>5
  <1> HIDE DEF z, z2
  <1>8. Gathered(w, h, g, before, z2)
    BY <1>2, <1>6, <1>7, <1>a, <1>b DEF Gathered
  <1>9. QED
    BY <1>8, <1>a DEF z2

(* The context that the innermost activation fills, and its handler.       *)
LEMMA TopOwn ==
    ASSUME NEW n \in Nat, TypedWith(n), NEW w, NEW t \in Thread, NEW P, NEW f, NEW U, NEW own,
           Found(n, w, t, P, f, U, own), f.phase # "begin"
    PROVE  /\ Own(f, Base(P)) \in 1..n
           /\ contexts[Own(f, Base(P))].handler \in Handled
           /\ P # <<>> => Base(P) \in 1..n
  <1> DEFINE r == Base(P)
             inner == P # <<>>
  <1>1. /\ f \in Frame(n) /\ GoodFrame(f) /\ (~inner => f.rec \in Handled)
        /\ inner => Holds(OpenedBy(P), r)
        /\ \A c : Holds(OpenedBy(P), c) => Holds(handlerStack[t], c)
        /\ \A c : Holds(handlerStack[t], c) => c \in 1..n
    BY DEF Found
  <1>2. inner => r \in 1..n
    BY <1>1
  <1> HIDE DEF r, inner
  <1>3. Own(f, r) \in 1..n
    BY <1>1, <1>2, OwnTyped
  <1>4. contexts[Own(f, r)].handler \in Handled
    BY <1>3, AssignmentsTyped DEF TypedWith
  <1>5. QED
    BY <1>2, <1>3, <1>4 DEF r, inner

(* The _feed() functions that open no branch.                              *)
LEMMA PlainFeedContent ==
    ASSUME NEW n \in Nat, NEW N, NEW X, Known(n, N, X), Worlds(N, X), ThreadsInv',
           NEW t \in Thread, PlainFeed(t)
    PROVE  ContentInv(N, X)'
  <1> DEFINE f == Top(t)
             P == Front(frames[t])
             r == Base(P)
             H == contexts
             inner == P # <<>>
             w == WorldOf(N, X, Call(t))
             h == H[Own(f, r)].handler
  <1>0. TypedWith(n) /\ ThreadsInv /\ HoldersInv
    BY DEF Known
  <1>1. PICK phase \in {"feed", "fed"} : InPhase(t, phase)
    BY <1>0, PlainGoesOn
  <1>2. Shape[f.rec].kind # "selector" /\ contexts' = H /\ root' = root /\ parsed' = parsed
        /\ UNCHANGED <<status, script, parses, outcome>>
    BY <1>0, PlainGoesOn DEF heapVars, parseVars
  <1>3. InWorld(n, w, X, Call(t), f) /\ f.phase = phase
    BY <1>1, TopWorld
  <1>4. PICK U, own : Found(n, w, t, P, f, U, own)
    BY <1>1, TopWorld
  <1>5. h \in Handled
    BY <1>0, <1>1, <1>3, <1>4, TopOwn
  <1>6. /\ P \in Seq(Frame(n)) /\ f \in Frame(n) /\ GoodFrame(f) /\ root[t] = None
        /\ BelowHas(w, P, U, H) /\ AtTop(w, P, f, H, After(P, U), own)
    BY <1>4 DEF Found
  <1>7. /\ Gathering(w) /\ w.text = Call(t).input /\ Goes(Meant(w.text), w.text, f)
    BY <1>3 DEF InWorld
  <1>8. \/ \E g \in Frame(n) : GatherOn(w, h, f, g) /\ Become(t, g)
        \/ f.phase = "feed" /\ Asked(f) \in Recognizer /\ CallFeed(t, f, Asked(f))
    <2> HIDE DEF w, h
    <2> QED BY <1>0, <1>5, <1>7, PlainGathers
  <1>9. f.branch = None /\ f.bestBranch = None /\ ~Choosing(f)
    BY <1>2, <1>6 DEF GoodFrame, Choosing
  <1>a. P = Front(frames[t]) /\ f = Top(t) /\ inner = (P # <<>>) /\ r = Base(P)
        /\ h = H[Own(f, r)].handler
    OBVIOUS
  <1>b. n <= n /\ Full(H, X)
    BY DEF Known, ContentInv
  <1>c. Within(t)
    BY <1>1, <1>2 DEF Within, InPhase
  <1> DEFINE before == After(P, U)
  <1>10. /\ Holding(w, f, r, inner, H, before, own) /\ Gathered(w, h, f, before, own)
         /\ TopHas(w, f, r, inner, H, before, own)
    BY <1>6 DEF AtTop, FrameHas
  <1>11. own \in Seq(w.part)
    BY <1>10 DEF Gathered
  <1>12. ASSUME ThreadHas(w, frames'[t], H), frames'[t] # <<>>,
                \A u \in Thread : u # t => frames'[u] = frames[u]
         PROVE  ContentInv(N, X)'
    <2>1. LeavesOthers(n, handlerStack[t], contexts, contexts')
      BY <1>2, SameHeap
    <2>2. QED
      BY <1>2, <1>6, <1>12, <1>b, <1>c, <2>1, WorkContent
  <1> HIDE DEF f, P, r, H, inner, w, h, before
  <1>13. CASE \E g \in Frame(n) : GatherOn(w, h, f, g) /\ Become(t, g)
    <2>1. PICK g \in Frame(n) : GatherOn(w, h, f, g) /\ Become(t, g)
      BY <1>13
    <2> DEFINE y == Gift(w, h, f)
    <2>2. HoldsAs(f, g) /\ g.phase \in {"feed", "end"}
      BY <2>1 DEF GatherOn
    <2>3. Own(g, r) = Own(f, r) /\ g.branch = None /\ g.bestBranch = None /\ ~Choosing(g)
          /\ g.context = f.context /\ g.rec = f.rec
      BY <1>2, <1>9, <2>2 DEF HoldsAs, Own, Choosing
    <2>4. y \in Seq(w.part)
      <3>1. CASE phase = "feed"
        BY <1>3, <3>1, EmptySeq DEF Gift
      <3>2. CASE phase = "fed"
        BY <1>3, <1>5, <1>6, <1>7, <3>2, GiftTyped
      <3>3. QED
        BY <1>1, <3>1, <3>2
    <2>5. Gathered(w, h, g, before, own \o y)
      BY <1>1, <1>3, <1>10, <2>1, <2>4, GatheredOn
    <2>6. Parts(H)[Own(f, r)] = own \o y
      <3>1. CASE phase = "feed"
        <4>1. y = <<>> /\ Parts(H)[Own(f, r)] = own
          BY <1>3, <1>10, <3>1 DEF Gift, TopHas
        <4> HIDE DEF y
        <4>2. own \o <<>> = own
          BY <1>11, ConcatEmptySeq
        <4>3. QED
          BY <4>1, <4>2
      <3>2. CASE phase = "fed"
        BY <1>3, <1>9, <1>10, <1>a, <3>2 DEF TopHas, Gift, Above, Handed
      <3>3. QED
        BY <1>1, <3>1, <3>2
    <2> DEFINE own2 == own \o y
    <2> HIDE DEF own2
    <2>7. Holding(w, g, r, inner, H, before, own2)
      BY <1>10, <2>3 DEF Holding
    <2>8. TopHas(w, g, r, inner, H, before, own2)
      BY <2>2, <2>3, <2>6 DEF TopHas, own2
    <2>9. AtTop(w, P, g, H, before, own2)
      BY <1>a, <2>3, <2>5, <2>7, <2>8 DEF AtTop, FrameHas, own2
    <2>10. ThreadHas(w, frames'[t], H) /\ \A u \in Thread : u # t => frames'[u] = frames[u]
      BY <1>0, <1>1, <1>6, <1>a, <1>b, <2>1, <2>9, BecomeHas DEF before
    <2>11. frames'[t] # <<>>
      BY <1>0, <1>1, <1>b, <2>1, RunsOn
    <2>12. QED
      BY <1>12, <2>10, <2>11
  <1>14. CASE f.phase = "feed" /\ Asked(f) \in Recognizer /\ CallFeed(t, f, Asked(f))
    <2> DEFINE fed == Fed(f)
               e == Asked(f)
    <2>1. /\ fed \in Frame(n) /\ fed.phase = "fed" /\ HoldsAs(f, fed) /\ fed.begin = f.begin
          /\ fed.mark = f.mark /\ fed.pos = f.pos /\ fed.index = f.index
      BY <1>6 DEF Frame, Phase, HoldsAs, Fed
    <2> HIDE DEF fed, e
    <2>2. Own(fed, r) = Own(f, r) /\ fed.branch = None /\ fed.bestBranch = None
          /\ ~Choosing(fed) /\ fed.context = f.context /\ fed.rec = f.rec
          /\ (Plain(fed) <=> Plain(f))
      BY <1>2, <1>9, <1>14, <2>1 DEF HoldsAs, Own, Choosing, Plain
    <2>3. \A x : ByNow(w, h, f, x) => ByNow(w, h, fed, x)
      BY <1>14, <2>1, <2>2 DEF ByNow, Underway
    <2>4. Gathered(w, h, fed, before, own)
      BY <1>10, <2>1, <2>2, <2>3 DEF Gathered
    <2>5. Holding(w, fed, r, inner, H, before, own)
      BY <1>10, <2>2 DEF Holding
    <2>6. FrameHas(w, fed, r, inner, H, before, own)
      BY <1>a, <2>2, <2>4, <2>5 DEF FrameHas
    <2>7. Base(Append(P, fed)) = Own(f, r)
      BY <1>6, <1>a, <2>1, <2>2, BaseAbove
    <2>8. Parts(H)[Base(Append(P, fed))] = Handed(f, own)
      BY <1>9, <1>10, <1>14, <2>7 DEF TopHas, Handed
    <2>9. CallFeed(t, f, e) /\ e \in Recognizer
      BY <1>14 DEF e
    <2>10. ThreadHas(w, frames'[t], H) /\ \A u \in Thread : u # t => frames'[u] = frames[u]
      <3>1. /\ FrameAt(w, P, Fed(f), H, After(P, U), own)
            /\ Parts(H)[Base(Append(P, Fed(f)))] = Handed(f, own)
        BY <1>a, <2>6, <2>8 DEF fed, before, FrameAt
      <3>2. P = Front(frames[t]) /\ BelowHas(w, P, U, H) /\ f \in Frame(n) /\ n <= n
        BY <1>6, <1>a, <1>b
      <3>3. QED
        BY <1>0, <1>1, <2>9, <3>1, <3>2, CallHas
    <2>11. frames'[t] # <<>>
      BY <1>0, <1>1, <1>6, <1>b, <2>9, RunsOn
    <2>12. QED
      BY <1>12, <2>10, <2>11
  <1>15. QED
    BY <1>8, <1>13, <1>14

(* What the activations below have, after a step of the innermost one.     *)
LEMMA BelowStays ==
    ASSUME NEW n \in Nat, NEW w, NEW t \in Thread, NEW P, NEW f, NEW U, NEW own,
           Found(n, w, t, P, f, U, own), NEW H2,
           \A c \in 1..n : /\ Serves(contexts, H2, c)
                           /\ Holds(OpenedBy(P), c) /\ c # Last(OpenedBy(P)) =>
                                 Stays(contexts, H2, c)
    PROVE  BelowHas(w, P, U, H2)
  <1>1. /\ BelowHas(w, P, U, contexts) /\ P \in Seq(Frame(n)) /\ Waiting(P)
        /\ NoRepetition(OpenedBy(P)) /\ \A c : Holds(OpenedBy(P), c) => c \in 1..n
    BY DEF Found
  <1>2. Quiet(P, contexts, H2)
    BY <1>1 DEF Quiet
  <1>3. QED
    BY <1>1, <1>2, BelowHasKept

(* ... that took a context, new or recycled.                               *)
LEMMA GrownHas ==
    ASSUME NEW n \in Nat, NEW w, NEW t \in Thread, NEW P, NEW f, NEW U, NEW own,
           Found(n, w, t, P, f, U, own), NEW H2, NEW S,
           \A d \in 1..n : Parts(H2)[d] = Parts(contexts)[d],
           \A d \in 1..n : H2[d] = contexts[d]
    PROVE  BelowHas(w, P, U, H2) /\ LeavesOthers(n, S, contexts, H2)
  <1>1. \A c \in 1..n : Serves(contexts, H2, c) /\ Stays(contexts, H2, c)
    BY DEF Serves, Stays
  <1>2. BelowHas(w, P, U, H2)
    BY <1>1, BelowStays
  <1>3. QED
    BY <1>1, <1>2 DEF LeavesOthers

(* beginParse() for a rule with a handler.                                 *)
LEMMA BeginHandledContent ==
    ASSUME NEW n \in Nat, NEW N, NEW X, Known(n, N, X), Worlds(N, X), ThreadsInv',
           NEW t \in Thread, BeginHandled(t)
    PROVE  ContentInv(N, X)'
  <1> DEFINE f == Top(t)
             P == Front(frames[t])
             r == Base(P)
             H2 == contexts'
             inner == P # <<>>
             w == WorldOf(N, X, Call(t))
  <1>0. TypedWith(n) /\ ThreadsInv /\ HoldersInv /\ Full(contexts, X)
    BY DEF Known, ContentInv
  <1>1. InPhase(t, "begin") /\ f.rec \in Handled /\ root' = root /\ parsed' = parsed
        /\ UNCHANGED <<status, script, parses, outcome>>
    BY DEF BeginHandled, parseVars
  <1>2. PICK c \in 1..(Len(contexts) + 1) :
           /\ CreateContext(t, f.rec, c)
           /\ Become(t, [f EXCEPT !.phase = "feed", !.context = c,
                            !.mark = LastIterator(contexts', c)])
    BY DEF BeginHandled
  <1>3. PICK m \in Nat : /\ n <= m
                         /\ contexts' \in HeapOf(m)
                         /\ c \in 1..m
    BY <1>0, <1>1, <1>2, CreateContextTyped DEF TypedWith
  <1>4. InWorld(n, w, X, Call(t), f) /\ f.phase = "begin"
    BY <1>1, TopWorld
  <1>5. PICK U, own : Found(n, w, t, P, f, U, own)
    BY <1>1, TopWorld
  <1>6. /\ P \in Seq(Frame(n)) /\ f \in Frame(n) /\ GoodFrame(f) /\ root[t] = None
        /\ AtTop(w, P, f, contexts, After(P, U), own)
    BY <1>5 DEF Found
  <1>7. Goes(Meant(w.text), w.text, f)
    BY <1>4 DEF InWorld
  <1>8. /\ Full(H2, X) /\ Parts(H2)[c] = <<>> /\ H2[c].handler = f.rec
        /\ \A d \in 1..n : Parts(H2)[d] = Parts(contexts)[d]
        /\ \A d \in 1..n : H2[d] = contexts[d]
    BY <1>0, <1>1, <1>2, CreateParts
  <1>9. /\ BelowHas(w, P, U, H2) /\ LeavesOthers(n, handlerStack[t], contexts, H2)
        /\ inner => Parts(H2)[r] = Parts(contexts)[r]
    <2>1. /\ \A d \in 1..n : Parts(H2)[d] = Parts(contexts)[d]
          /\ \A d \in 1..n : H2[d] = contexts[d]
      BY <1>8
    <2> HIDE DEF f, w, P, H2, inner
    <2>2. BelowHas(w, P, U, H2) /\ LeavesOthers(n, handlerStack[t], contexts, H2)
      BY <1>5, <2>1, GrownHas
    <2>3. inner => r \in 1..n
      BY <1>5 DEF Found, inner
    <2>4. QED
      BY <2>1, <2>2, <2>3
  <1>c. Within(t)
    BY <1>1 DEF Within, InPhase
  <1> DEFINE mark == LastIterator(contexts', c)
             g == [f EXCEPT !.phase = "feed", !.context = c, !.mark = mark]
             before == After(P, U)
  <1>10. mark \in Nat
    BY <1>3, AssignmentsTyped DEF LastIterator
  <1>11. f \in Frame(m)
    BY <1>3, <1>6, PointersStayValid
  <1>12. before \in Seq(w.part) /\ (inner => Parts(contexts)[r] = before)
    BY <1>4, <1>6 DEF AtTop, FrameHas, Gathered, TopHas
  <1>13. Become(t, g) /\ P = Front(frames[t]) /\ r = Base(P) /\ inner = (P # <<>>)
         /\ H2 = contexts' /\ f = Top(t)
    BY <1>2
  <1> HIDE DEF f, mark, P, r, H2, inner, w, before
  <1>14. /\ g \in Frame(m) /\ g.rec = f.rec /\ g.phase = "feed" /\ g.context = c
         /\ g.bestBranch = None /\ g.branch = None /\ g.best = NPos /\ c # None /\ Alike(f, g)
    <2>1. c \in Pointer(m) /\ c # None
      BY <1>3 DEF Pointer, None
    <2>2. f.bestBranch = None /\ f.branch = None /\ f.best = NPos
      BY <1>4, <1>6, <1>7 DEF GoodFrame, Goes
    <2>3. QED
      BY <1>10, <1>11, <2>1, <2>2 DEF Frame, Phase, Alike
  <1> HIDE DEF g
  <1>15. ~Plain(g) /\ Own(g, r) = c
    BY <1>14 DEF Plain, Own
  <1>16. ByNow(w, H2[Own(g, r)].handler, g, <<>>)
    BY <1>4, <1>6, <1>7, <1>14, BegunUnderway
  <1> DEFINE none == <<>>
  <1>17. none \in Seq(w.part) /\ none = <<>> \o none /\ none = <<>>
    BY EmptySeq
  <1> HIDE DEF none
  <1>18. Gathered(w, H2[Own(g, r)].handler, g, before, none)
    BY <1>12, <1>14, <1>15, <1>16, <1>17 DEF Gathered
  <1>19. Holding(w, g, r, inner, H2, before, none)
    BY <1>8, <1>9, <1>12, <1>14, <1>15 DEF Holding
  <1>20. TopHas(w, g, r, inner, H2, before, none)
    BY <1>8, <1>14, <1>15, <1>17 DEF TopHas
  <1>21. AtTop(w, P, g, H2, After(P, U), none)
    BY <1>13, <1>18, <1>19, <1>20 DEF AtTop, FrameHas, before
  <1>22. ThreadHas(w, frames'[t], H2) /\ \A u \in Thread : u # t => frames'[u] = frames[u]
    BY <1>0, <1>1, <1>3, <1>9, <1>13, <1>14, <1>21, BecomeHas
  <1>23. frames'[t] # <<>>
    BY <1>0, <1>1, <1>3, <1>13, <1>14, RunsOn
  <1>24. QED
    BY <1>1, <1>6, <1>8, <1>9, <1>13, <1>22, <1>23, <1>c, WorkContent DEF w

(* ... and for another, that adds to what is there.                        *)
LEMMA BeginPlainContent ==
    ASSUME NEW n \in Nat, NEW N, NEW X, Known(n, N, X), Worlds(N, X), ThreadsInv',
           NEW t \in Thread, BeginPlain(t)
    PROVE  ContentInv(N, X)'
  <1> DEFINE f == Top(t)
             P == Front(frames[t])
             r == Base(P)
             H == contexts
             inner == P # <<>>
             w == WorldOf(N, X, Call(t))
             S == handlerStack[t]
             mark == LastIterator(contexts, Back(S))
             g == [f EXCEPT !.phase = "feed", !.mark = mark]
  <1>0. TypedWith(n) /\ ThreadsInv /\ HoldersInv /\ Full(contexts, X)
    BY DEF Known, ContentInv
  <1>1. /\ InPhase(t, "begin") /\ f.rec \notin Handled /\ contexts' = contexts
        /\ S # <<>> => Become(t, g)
        /\ root' = root /\ parsed' = parsed /\ UNCHANGED <<script, parses, outcome>>
        /\ \E ok : FatalUnless(t, ok)
    BY DEF BeginPlain, heapVars
  <1>2. S # <<>> /\ S \in Seq(1..n)
    BY <1>0, <1>1, TopThread
  <1>3. InWorld(n, w, X, Call(t), f) /\ f.phase = "begin"
    BY <1>1, TopWorld
  <1>4. PICK U, own : Found(n, w, t, P, f, U, own)
    BY <1>1, TopWorld
  <1>5. /\ P \in Seq(Frame(n)) /\ f \in Frame(n) /\ GoodFrame(f) /\ root[t] = None
        /\ BelowHas(w, P, U, H) /\ AtTop(w, P, f, H, After(P, U), own)
        /\ P = <<>> => f.rec \in Handled
        /\ S = OpenedBy(P) \o Opened(f) /\ OpenedBy(P) \in Seq(1..n)
        /\ inner => r = Last(OpenedBy(P)) /\ Holds(OpenedBy(P), r)
        /\ \A c : Holds(OpenedBy(P), c) => c \in 1..n
    BY <1>4 DEF Found
  <1>6. Goes(Meant(w.text), w.text, f)
    BY <1>3 DEF InWorld
  <1>7. inner /\ r = Last(OpenedBy(P)) /\ r \in 1..n
    BY <1>1, <1>5
  <1>8. Back(S) = r
    <2>1. f.context = None /\ f.bestBranch = None /\ f.branch = None
      BY <1>3, <1>5 DEF GoodFrame
    <2> HIDE DEF f, P, r, S
    <2>2. OpenedBy(P) \o Opened(f) = OpenedBy(P)
      BY <1>5, <2>1, OpenedOnto DEF Onto
    <2>3. QED
      BY <1>2, <1>5, <1>7, <2>2 DEF Back
  <1>c. Within(t)
    <2>1. TypeOK
      BY <1>0, TypeOKIsTypedWith
    <2>2. status[t] = "parsing"
      BY <1>1 DEF InPhase
    <2>3. QED
      BY <1>1, <2>1, <2>2, WithinWhen
  <1> DEFINE now == After(P, U)
  <1>9. now \in Seq(w.part) /\ Parts(H)[r] = now
    BY <1>3, <1>5, <1>7 DEF AtTop, FrameHas, Gathered, TopHas
  <1>10. mark = Len(now) /\ mark \in Nat
    <2>1. Len(Parts(H)[r]) = Len(H[r].assignments)
      BY <1>0, <1>7, PartsAt DEF TypedWith
    <2>2. mark = Len(now)
      BY <1>8, <1>9, <2>1 DEF LastIterator
    <2>3. QED
      BY <1>9, <2>2, LenProperties
  <1>11. Become(t, g) /\ P = Front(frames[t]) /\ r = Base(P) /\ inner = (P # <<>>)
         /\ H = contexts /\ H = contexts' /\ f = Top(t)
    BY <1>1, <1>2
  <1> HIDE DEF f, mark, P, r, H, inner, w, now, S
  <1>12. /\ g \in Frame(n) /\ g.rec = f.rec /\ g.phase = "feed" /\ g.context = None
         /\ g.bestBranch = None /\ g.branch = None /\ g.best = NPos /\ g.mark = mark /\ Alike(f, g)
    <2>1. f.bestBranch = None /\ f.branch = None /\ f.best = NPos /\ f.context = None
      BY <1>3, <1>5, <1>6 DEF GoodFrame, Goes
    <2>2. QED
      BY <1>5, <1>10, <2>1 DEF Frame, Phase, Alike
  <1> HIDE DEF g
  <1>13. Own(g, r) = r
    BY <1>12 DEF Own
  <1>14. ByNow(w, H[Own(g, r)].handler, g, <<>>)
    BY <1>3, <1>5, <1>6, <1>12, BegunUnderway
  <1> DEFINE none == <<>>
  <1>15. none \in Seq(w.part) /\ now = now \o none /\ none = <<>>
    <2>1. now \o <<>> = now
      BY <1>9, ConcatEmptySeq
    <2>2. QED
      BY <2>1, EmptySeq
  <1> HIDE DEF none
  <1>16. Gathered(w, H[Own(g, r)].handler, g, now, now)
    BY <1>9, <1>10, <1>12, <1>14, <1>15 DEF Gathered
  <1>17. Holding(w, g, r, inner, H, now, now)
    BY <1>12 DEF Holding
  <1>18. TopHas(w, g, r, inner, H, now, now)
    BY <1>9, <1>12, <1>13 DEF TopHas
  <1>19. AtTop(w, P, g, H, After(P, U), now)
    BY <1>11, <1>16, <1>17, <1>18 DEF AtTop, FrameHas, now
  <1>a. n <= n
    OBVIOUS
  <1>20. ThreadHas(w, frames'[t], H) /\ \A u \in Thread : u # t => frames'[u] = frames[u]
    BY <1>0, <1>1, <1>5, <1>11, <1>12, <1>19, <1>a, BecomeHas
  <1>21. frames'[t] # <<>>
    BY <1>0, <1>1, <1>11, <1>12, <1>a, RunsOn
  <1>22. LeavesOthers(n, handlerStack[t], contexts, contexts')
    BY <1>1, SameHeap
  <1>23. QED
    BY <1>0, <1>1, <1>5, <1>11, <1>20, <1>21, <1>22, <1>c, WorkContent DEF w

(* A branch has the handler of the context that the selector fills.        *)
LEMMA StackTop ==
    ASSUME NEW n \in Nat, NEW w, NEW t \in Thread, NEW P, NEW f, NEW U, NEW own,
           Found(n, w, t, P, f, U, own), f.phase = "feed", handlerStack[t] # <<>>
    PROVE  contexts[Last(handlerStack[t])].handler = contexts[Own(f, Base(P))].handler
  <1> DEFINE S == handlerStack[t]
             o == OpenedBy(P)
             r == Base(P)
             base == Onto(o, f.context)
             best == f.bestBranch
             H == contexts
             before == After(P, U)
             inner == P # <<>>
  <1>1. /\ P \in Seq(Frame(n)) /\ f \in Frame(n) /\ GoodFrame(f) /\ o \in Seq(1..n)
        /\ S = o \o Opened(f) /\ (inner => r = Last(o)) /\ (~inner => f.rec \in Handled)
        /\ FrameHas(w, f, r, inner, H, before, own)
    BY DEF Found, AtTop
  <1>a. S = handlerStack[t] /\ r = Base(P) /\ H = contexts
    OBVIOUS
  <1> HIDE DEF S, o, r, H, before, inner
  <1>2. f.branch = None /\ f.context \in Pointer(n) /\ best \in Pointer(n)
    BY <1>1 DEF GoodFrame, Frame
  <1>3. base \in Seq(1..n) /\ S = Onto(base, best)
    <2>1. base \in Seq(1..n)
      BY <1>1, <1>2, OntoTyped
    <2>2. QED
      BY <1>1, <1>2, <2>1, OpenedOnto DEF Onto
  <1>4. CASE best # None
    <2>1. best \in 1..n /\ S = Append(base, best)
      BY <1>2, <1>3, <1>4 DEF Pointer, None, Onto
    <2>2. Last(S) = best
      <3> HIDE DEF base, best
      <3>1. Last(Append(base, best)) = best
        BY <1>3, <2>1, AppendEnds
      <3>2. QED
        BY <2>1, <3>1
    <2>3. H[best].handler = H[Own(f, r)].handler
      BY <1>1, <1>4 DEF FrameHas, Holding
    <2>4. QED
      BY <2>2, <2>3, <1>a
  <1>5. CASE best = None
    <2>1. S = base
      BY <1>3, <1>5 DEF Onto
    <2>2. CASE f.context # None
      <3> DEFINE ctx == f.context
      <3>1. ctx \in 1..n /\ S = Append(o, ctx)
        BY <1>2, <2>1, <2>2 DEF Pointer, None, Onto
      <3> HIDE DEF ctx
      <3>2. Last(S) = ctx
        BY <1>1, <3>1, AppendEnds
      <3>3. QED
        BY <2>2, <3>2, <1>a DEF Own, ctx
    <2>3. CASE f.context = None
      <3>1. S = o /\ Own(f, r) = r
        BY <2>1, <2>3 DEF Onto, Own
      <3>2. inner
        BY <1>1, <2>3 DEF GoodFrame
      <3>3. QED
        BY <1>1, <1>a, <3>1, <3>2
    <2>4. QED
      BY <2>2, <2>3
  <1>6. QED
    BY <1>4, <1>5

(* A selector tries an alternative on a branch that stands for nothing.    *)
LEMMA BranchContent ==
    ASSUME NEW n \in Nat, NEW N, NEW X, Known(n, N, X), Worlds(N, X), ThreadsInv',
           NEW t \in Thread, SelectorBranch(t)
    PROVE  ContentInv(N, X)'
  <1> DEFINE f == Top(t)
             P == Front(frames[t])
             r == Base(P)
             H == contexts
             H2 == contexts'
             inner == P # <<>>
             w == WorldOf(N, X, Call(t))
             S == handlerStack[t]
             h == contexts[Last(S)].handler
             e == Elements(f)[f.index + 1]
  <1>0. TypedWith(n) /\ ThreadsInv /\ HoldersInv /\ Full(contexts, X)
    BY DEF Known, ContentInv
  <1>1. InPhase(t, "feed") /\ Shape[f.rec].kind = "selector" /\ MoreElements(f)
        /\ root' = root /\ parsed' = parsed /\ UNCHANGED <<script, parses, outcome>>
        /\ \E ok : FatalUnless(t, ok)
    BY DEF SelectorBranch, Running
  <1>2. S # <<>> /\ S \in Seq(1..n)
    BY <1>0, <1>1, TopThread
  <1>3. PICK c \in 1..(Len(contexts) + 1) :
           /\ CreateContext(t, h, c)
           /\ CallFeed(t, [f EXCEPT !.branch = c], e)
    BY <1>2 DEF SelectorBranch
  <1>4. h \in Handled
    BY <1>0, <1>2, BackTyped, AssignmentsTyped DEF TypedWith
  <1>5. PICK m \in Nat : n <= m /\ contexts' \in HeapOf(m) /\ c \in 1..m
    <2> HIDE DEF h
    <2> QED BY <1>0, <1>3, <1>4, CreateContextTyped DEF TypedWith
  <1>6. /\ Full(H2, X) /\ Parts(H2)[c] = <<>> /\ H2[c].handler = h
        /\ \A d \in 1..n : Parts(H2)[d] = Parts(contexts)[d]
        /\ \A d \in 1..n : H2[d] = contexts[d]
    <2> HIDE DEF h
    <2> QED BY <1>0, <1>3, <1>4, CreateParts
  <1>7. InWorld(n, w, X, Call(t), f) /\ f.phase = "feed"
    BY <1>1, TopWorld
  <1>8. PICK U, own : Found(n, w, t, P, f, U, own)
    BY <1>1, TopWorld
  <1>9. /\ P \in Seq(Frame(n)) /\ f \in Frame(n) /\ GoodFrame(f) /\ root[t] = None
        /\ AtTop(w, P, f, H, After(P, U), own)
        /\ inner => r \in 1..n
    BY <1>8 DEF Found
  <1>c. Within(t)
    <2>1. TypeOK
      BY <1>0, TypeOKIsTypedWith
    <2>2. status[t] = "parsing"
      BY <1>1 DEF InPhase
    <2>3. QED
      BY <1>1, <2>1, <2>2, WithinWhen
  <1>10. BelowHas(w, P, U, H2) /\ LeavesOthers(n, S, contexts, H2)
    <2>1. /\ \A d \in 1..n : Parts(H2)[d] = Parts(contexts)[d]
          /\ \A d \in 1..n : H2[d] = contexts[d]
      BY <1>6
    <2> HIDE DEF f, w, P, H2, S
    <2>2. QED
      BY <1>8, <2>1, GrownHas
  <1>11. h = H[Own(f, r)].handler /\ Own(f, r) \in 1..n
    <2> HIDE DEF f, w, P
    <2>1. contexts[Last(handlerStack[t])].handler = contexts[Own(f, Base(P))].handler
      BY <1>2, <1>7, <1>8, StackTop
    <2>2. Own(f, Base(P)) \in 1..n
      BY <1>0, <1>7, <1>8, TopOwn
    <2>3. QED
      BY <2>1, <2>2
  <1>12. e \in Recognizer
    BY <1>0, <1>1, <1>9, RecognizerTyped
  <1>13. f \in Frame(m)
    BY <1>5, <1>9, PointersStayValid
  <1> DEFINE g == [f EXCEPT !.branch = c]
             fed == Fed(g)
             before == After(P, U)
  <1>14. /\ Holding(w, f, r, inner, H, before, own)
         /\ Gathered(w, H[Own(f, r)].handler, f, before, own)
         /\ TopHas(w, f, r, inner, H, before, own)
    BY <1>9 DEF AtTop, FrameHas
  <1>a. CallFeed(t, g, e) /\ P = Front(frames[t]) /\ r = Base(P) /\ inner = (P # <<>>)
         /\ H2 = contexts' /\ H = contexts /\ S = handlerStack[t] /\ f = Top(t)
    BY <1>3
  <1> HIDE DEF f, P, r, H, H2, inner, S, h, e, w, before
  <1>15. g \in Frame(m) /\ c # None
         /\ g.rec = f.rec /\ g.context = f.context /\ g.branch = c /\ g.bestBranch = f.bestBranch
         /\ g.begin = f.begin /\ g.mark = f.mark /\ g.pos = f.pos /\ g.index = f.index
         /\ g.best = f.best /\ g.phase = f.phase
    <2>1. c # None /\ c \in Pointer(m)
      BY <1>5 DEF Pointer, None
    <2>2. QED
      BY <1>13, <2>1 DEF Frame
  <1> HIDE DEF g
  <1>16. /\ fed \in Frame(m) /\ fed.phase = "fed" /\ fed.rec = f.rec /\ fed.context = f.context
         /\ fed.branch = c /\ fed.bestBranch = f.bestBranch /\ fed.index = f.index
         /\ fed.begin = f.begin /\ fed.mark = f.mark /\ fed.pos = f.pos
         /\ fed.best = f.best
    BY <1>7, <1>15 DEF Frame, Phase, Fed
  <1> HIDE DEF fed
  <1>17. (Plain(fed) <=> Plain(f)) /\ Own(fed, r) = Own(f, r) /\ Choosing(fed) /\ Choosing(f)
    BY <1>1, <1>7, <1>16 DEF Plain, Own, Choosing, f
  <1>18. H2[Own(f, r)].handler = h /\ Parts(H2)[Own(f, r)] = own
    <2>1. Parts(H)[Own(f, r)] = own
      BY <1>7, <1>14 DEF TopHas
    <2>2. QED
      BY <1>6, <1>11, <1>a, <2>1
  <1>19. Gathered(w, H2[Own(fed, r)].handler, fed, before, own)
    <2>1. \A x : ByNow(w, h, f, x) => ByNow(w, h, fed, x)
      BY <1>1, <1>7, <1>16 DEF ByNow, Underway, f
    <2>2. QED
      BY <1>11, <1>14, <1>16, <1>17, <1>18, <2>1 DEF Gathered
  <1>20. f.context \in 0..n /\ f.bestBranch \in 0..n
    BY <1>9 DEF Frame, Pointer
  <1>21. Holding(w, fed, r, inner, H2, before, own)
    <2>1. fed.context # None => H2[fed.context].handler = fed.rec
      BY <1>6, <1>14, <1>16, <1>20, <1>a DEF Holding, None
    <2>2. fed.bestBranch # None => H2[fed.bestBranch].handler = h
                                   /\ BestGift(w, h, fed, Parts(H2)[fed.bestBranch])
      <3>1. f.bestBranch # None => H[f.bestBranch].handler = h
                                   /\ BestGift(w, h, f, Parts(H)[f.bestBranch])
        BY <1>11, <1>14, <1>17 DEF Holding
      <3>2. \A x : BestGift(w, h, f, x) => BestGift(w, h, fed, x)
        BY <1>16 DEF BestGift, Elements
      <3>3. f.bestBranch # None => f.bestBranch \in 1..n
        BY <1>20 DEF None
      <3>4. QED
        BY <1>6, <1>16, <1>a, <3>1, <3>2, <3>3
    <2>3. fed.branch # None => H2[fed.branch].handler = h
      BY <1>6, <1>16
    <2>4. inner /\ fed.context # None => Parts(H2)[r] = before
      BY <1>6, <1>9, <1>14, <1>16, <1>a DEF Holding
    <2>5. fed.best = NPos <=> fed.bestBranch = None
      BY <1>14, <1>16, <1>17 DEF Holding
    <2>6. QED
      BY <1>17, <1>18, <2>1, <2>2, <2>3, <2>4, <2>5 DEF Holding
  <1>22. FrameAt(w, P, Fed(g), H2, After(P, U), own)
    BY <1>19, <1>21, <1>a DEF FrameAt, FrameHas, fed, before
  <1>23. Parts(H2)[Base(Append(P, Fed(g)))] = Handed(g, own)
    <2>1. P \in Seq(Frame(m))
      BY <1>5, <1>9, PointersStayValid, SeqMonotonic
    <2>2. Base(Append(P, fed)) = c
      BY <1>15, <1>16, <2>1, BaseAbove
    <2>3. QED
      BY <1>6, <1>15, <2>2 DEF Handed, fed
  <1>24. ThreadHas(w, frames'[t], H2) /\ \A u \in Thread : u # t => frames'[u] = frames[u]
    <2>1. TypedWith(n) /\ ThreadsInv /\ InPhase(t, "feed") /\ n <= m /\ g \in Frame(m)
      BY <1>0, <1>1, <1>5, <1>15
    <2>2. CallFeed(t, g, e) /\ P = Front(frames[t]) /\ BelowHas(w, P, U, H2)
      BY <1>10, <1>a
    <2> HIDE DEF fed
    <2>3. QED
      BY <1>12, <1>22, <1>23, <2>1, <2>2, CallHas, ZenonT(60)
  <1>25. frames'[t] # <<>>
    BY <1>0, <1>1, <1>5, <1>12, <1>15, <1>a, RunsOn
  <1>26. QED
    BY <1>1, <1>6, <1>9, <1>10, <1>24, <1>25, <1>a, <1>c, WorkContent DEF w

(* An alternative more: it is the first of the longest ...                 *)
LEMMA LongerIsFirst ==
    ASSUME NEW M, NEW r, NEW p, NEW k \in Nat, NEW b \in Matched, Longest(M, r, p, k, b),
           NEW n \in Nat, n > b, <<Shape[r].elements[k + 1], p, n>> \in M
    PROVE  FirstLongest(M, r, p, k + 1, k + 1, n)
  <1> DEFINE es == Shape[r].elements
             l == k + 1
  <1>1. PICK m \in [1..k -> Matched] : \A i \in 1..k : <<es[i], p, m[i]>> \in M /\ m[i] <= b
    BY DEF Longest
  <1>2. l \in 1..l /\ (\A j \in 1..l : j = l \/ (j \in 1..k /\ j < l)) /\ n \in Matched /\ n <= n
        /\ <<es[l], p, n>> \in M /\ ~(l < l)
    BY DEF Matched
  <1>3. \A j \in 1..k : m[j] \in Matched /\ m[j] < n /\ m[j] <= n
    <2>1. ASSUME NEW q \in Matched, q <= b PROVE q < n /\ q <= n
      BY <2>1 DEF Matched, NPos
    <2>2. \A j \in 1..k : m[j] \in Matched /\ m[j] <= b
      BY <1>1
    <2> QED BY <2>1, <2>2
  <1> HIDE DEF es, l
  <1>4. \A j \in 1..l : \E q \in Matched :
           <<es[j], p, q>> \in M /\ q <= n /\ (j < l => q < n)
    <2>1. SUFFICES ASSUME NEW j \in 1..l
                   PROVE \E q \in Matched : <<es[j], p, q>> \in M /\ q <= n /\ (j < l => q < n)
      OBVIOUS
    <2>2. CASE j = l
      BY <1>2, <2>2
    <2>3. CASE j \in 1..k
      BY <1>1, <1>3, <2>3
    <2>4. QED
      BY <1>2, <2>2, <2>3
  <1>5. FirstLongest(M, r, p, l, l, n)
    BY <1>2, <1>4 DEF FirstLongest, es
  <1>6. QED
    BY <1>5 DEF l

(* ... or the first of the longest is still the same.                      *)
LEMMA FirstIsStill ==
    ASSUME NEW M, NEW r, NEW p, NEW k \in Nat, NEW i, NEW b, FirstLongest(M, r, p, k, i, b),
           NEW n \in Matched, n <= b, <<Shape[r].elements[k + 1], p, n>> \in M
    PROVE  FirstLongest(M, r, p, k + 1, i, b)
  <1> DEFINE es == Shape[r].elements
             l == k + 1
  <1>1. /\ i \in 1..k /\ b \in Nat /\ <<es[i], p, b>> \in M
        /\ \A j \in 1..k : \E m \in Matched : <<es[j], p, m>> \in M /\ m <= b /\ (j < i => m < b)
    BY DEF FirstLongest
  <1>2. i \in 1..l /\ (\A j \in 1..l : j = l \/ j \in 1..k) /\ ~(l < i) /\ <<es[l], p, n>> \in M
    BY <1>1
  <1> HIDE DEF es, l
  <1>3. \A j \in 1..l : \E m \in Matched : <<es[j], p, m>> \in M /\ m <= b /\ (j < i => m < b)
    <2>1. SUFFICES ASSUME NEW j \in 1..l
                   PROVE \E m \in Matched : <<es[j], p, m>> \in M /\ m <= b /\ (j < i => m < b)
      OBVIOUS
    <2>2. CASE j = l
      BY <1>2, <2>2
    <2>3. CASE j \in 1..k
      BY <1>1, <2>3
    <2>4. QED
      BY <1>2, <2>2, <2>3
  <1>4. FirstLongest(M, r, p, l, i, b)
    BY <1>1, <1>2, <1>3 DEF FirstLongest, es
  <1>5. QED
    BY <1>4 DEF l

(* What an alternative that was tried gave, and who is the best now.       *)
Elects(w, h, f, g, y) ==
    /\ Better(f) => BestGift(w, h, g, y)
    /\ ~Better(f) /\ f.best # NPos => \A x : BestGift(w, h, f, x) => BestGift(w, h, g, x)

LEMMA ElectedGift ==
    ASSUME NEW n \in Nat, NEW f \in Frame(n), NEW w, Gathering(w), NEW h \in Handled,
           Goes(Meant(w.text), w.text, f), f.phase = "fed", Shape[f.rec].kind = "selector"
    PROVE  /\ Elected(f).index = f.index + 1
           /\ Elects(w, h, f, Elected(f), Gift(w, h, f))
  <1> DEFINE g == Elected(f)
             M == Meant(w.text)
             es == Elements(f)
             k == f.index
             l == k + 1
             y == Gift(w, h, f)
             won  == [f EXCEPT !.best = f.matched, !.bestBranch = f.branch, !.branch = None,
                               !.index = l, !.phase = "feed"]
             lost == [f EXCEPT !.branch = None, !.index = l, !.phase = "feed"]
  <1>1. /\ y = w.gives[<<h, Asked(f), f.pos>>] /\ <<Asked(f), f.pos, f.matched>> \in M
        /\ Arrived(M, w.text, f)
    BY GiftTyped
  <1>2. Asked(f) = es[l]
    BY DEF Asked
  <1>3. f.pos = f.begin /\ Longest(M, f.rec, f.begin, k, f.best)
    BY <1>1 DEF Arrived
  <1>4. k \in Nat /\ f.matched \in Matched /\ f.best \in Matched
    BY DEF Frame
  <1>5. /\ g.rec = f.rec /\ g.begin = f.begin
        /\ Better(f) => g.best = f.matched
        /\ ~Better(f) => g.best = f.best
    BY ElectedFrame
  <1>6. g.index = l
    <2>1. (Better(f) => g = won) /\ (~Better(f) => g = lost)
      BY DEF Elected
    <2> HIDE DEF g, l
    <2>2. won.index = l /\ lost.index = l
      BY DEF Frame
    <2>3. QED
      BY <2>1, <2>2
  <1>7. ASSUME Better(f) PROVE BestGift(w, h, g, y)
    <2>1. f.matched \in Nat /\ f.matched > f.best
      BY <1>4, <1>7 DEF Better, Matched, NPos
    <2>2. FirstLongest(M, f.rec, f.begin, l, l, f.matched)
      BY <1>1, <1>2, <1>3, <1>4, <2>1, LongerIsFirst DEF Elements
    <2>3. l \in 1..g.index /\ g.best = f.matched /\ Elements(g) = es
      BY <1>4, <1>5, <1>6, <1>7 DEF Elements
    <2>4. y = w.gives[<<h, Elements(g)[l], g.begin>>]
      BY <1>1, <1>2, <1>3, <1>5, <2>3
    <2> HIDE DEF g, l, M, y
    <2>5. QED
      BY <1>5, <1>6, <2>2, <2>3, <2>4 DEF BestGift, M
  <1>8. ASSUME ~Better(f), f.best # NPos, NEW x, BestGift(w, h, f, x) PROVE BestGift(w, h, g, x)
    <2>1. PICK i \in 1..k : FirstLongest(M, f.rec, f.begin, k, i, f.best)
                            /\ x = w.gives[<<h, es[i], f.begin>>]
      BY <1>8 DEF BestGift
    <2>2. f.matched <= f.best
      BY <1>4, <1>8 DEF Better, Matched, NPos
    <2>3. <<Shape[f.rec].elements[k + 1], f.begin, f.matched>> \in M
      BY <1>1, <1>2, <1>3 DEF Elements
    <2>4. FirstLongest(M, f.rec, f.begin, l, i, f.best)
      <3> HIDE DEF M
      <3> QED BY <1>4, <2>1, <2>2, <2>3, FirstIsStill
    <2>5. i \in 1..g.index /\ g.best = f.best /\ Elements(g) = es
      BY <1>4, <1>5, <1>6, <1>8 DEF Elements
    <2> HIDE DEF g, l, M, es
    <2>6. QED
      BY <1>5, <1>6, <2>1, <2>4, <2>5 DEF BestGift, M
  <1>9. QED
    BY <1>6, <1>7, <1>8 DEF Elects

(* The branch that loses stands for nothing; the others stay as they are.  *)
Spared(n, S, s2, X, H, H2) ==
    /\ Full(H2, X)
    /\ \A x \in 1..n : Serves(H, H2, x) /\ (~Holds(S, x) => Stays(H, H2, x))
    /\ \A x : Holds(s2, x) => x \in 1..n /\ Stays(H, H2, x)

LEMMA LoserCleared ==
    ASSUME NEW n \in Nat, TypedWith(n), ThreadsInv, HoldersInv, NEW X, Full(contexts, X),
           NEW t \in Thread, SelectorFed(t), NEW w, NEW P, NEW f, NEW U, NEW own,
           Found(n, w, t, P, f, U, own)
    PROVE  Spared(n, handlerStack[t], OpenedBy(P) \o Opened(Elected(f)), X, contexts, contexts')
  <1> DEFINE S == handlerStack[t]
             c == Loser(f)
             g == Elected(f)
             s2 == OpenedBy(P) \o Opened(g)
             s == RemoveFromStack(S, c)
  <1>1. /\ Running(t, "fed", "selector") /\ f = Top(t) /\ P = Front(frames[t])
        /\ P \in Seq(Frame(n)) /\ f \in Frame(n) /\ Waiting(P)
        /\ \A x : Holds(S, x) => x \in 1..n /\ ~InHeap(contexts, x)
    BY DEF SelectorFed, Found
  <1>2. g \in Frame(n)
    BY <1>1, ElectedFrame
  <1>3. s2 \in Seq(1..n)
    <2> HIDE DEF g
    <2> QED BY <1>1, <1>2, TopMentioned
  <1>4. \A x : Holds(s2, x) => x \in 1..n
    <2> HIDE DEF s2
    <2>1. DOMAIN s2 = 1..Len(s2)
      BY <1>3, LenProperties
    <2>2. QED
      BY <1>3, <2>1, ElementOfSeq DEF Holds
  <1>5. CASE c = None
    <2>1. contexts' = contexts
      BY <1>1, <1>5 DEF SelectorFed, heapVars
    <2> HIDE DEF s2
    <2>2. Spared(n, S, s2, X, contexts, contexts')
      BY <1>4, <2>1 DEF Spared, Serves, Stays
    <2>3. QED
      BY <2>2 DEF s2
  <1>6. CASE c # None
    <2>1. /\ contexts' = Cleared(contexts, c)
          /\ handlerStack' = [handlerStack EXCEPT ![t] = s]
      BY <1>1, <1>6 DEF SelectorFed
    <2>2. /\ c \in 1..n /\ s = s2 /\ (\E i \in DOMAIN S : S[i] = c)
          /\ \A hs2 : Restacked(handlerStack, hs2, t, s) => TakenOff(handlerStack, hs2, c)
      BY <1>1, <1>6, LoserOnStack
    <2>3. Restacked(handlerStack, handlerStack', t, s)
      BY <2>1 DEF TypedWith, Restacked
    <2>4. TakenOff(handlerStack, handlerStack', c) /\ handlerStack'[t] = s2
      BY <2>2, <2>3 DEF Restacked
    <2> HIDE DEF s2, c, s, S
    <2>5. ~Holds(s2, c) /\ Holds(S, c)
      BY <2>2, <2>4 DEF TakenOff, InStacks, Holds
    <2>6. Full(contexts', X) /\ OnlyChanged(contexts, contexts', n, c, <<>>)
      BY <1>1, <2>1, <2>2, <2>5, ClearParts DEF TypedWith
    <2>7. /\ \A x \in 1..n : Serves(contexts, contexts', x)
          /\ \A x \in 1..n : x # c => Stays(contexts, contexts', x)
      BY <2>6 DEF OnlyChanged, Serves, Stays
    <2>8. Spared(n, S, s2, X, contexts, contexts')
      BY <1>4, <2>5, <2>6, <2>7 DEF Spared
    <2>9. QED
      BY <2>8 DEF s2, S
  <1>7. QED
    BY <1>5, <1>6

(* An alternative has answered.                                            *)
LEMMA ElectContent ==
    ASSUME NEW n \in Nat, NEW N, NEW X, Known(n, N, X), Worlds(N, X), ThreadsInv',
           NEW t \in Thread, SelectorFed(t)
    PROVE  ContentInv(N, X)'
  <1> DEFINE f == Top(t)
             P == Front(frames[t])
             r == Base(P)
             H == contexts
             H2 == contexts'
             inner == P # <<>>
             w == WorldOf(N, X, Call(t))
             S == handlerStack[t]
             h == H[Own(f, r)].handler
             g == Elected(f)
             o == OpenedBy(P)
             s2 == o \o Opened(g)
             y == Gift(w, h, f)
  <1>0. TypedWith(n) /\ ThreadsInv /\ HoldersInv /\ Full(contexts, X)
    BY DEF Known, ContentInv
  <1>1. InPhase(t, "fed") /\ Shape[f.rec].kind = "selector" /\ Become(t, g)
        /\ root' = root /\ parsed' = parsed /\ UNCHANGED <<script, parses, outcome>>
        /\ (status' = status \/ \E ok : FatalUnless(t, ok))
    BY DEF SelectorFed, Running
  <1>2. InWorld(n, w, X, Call(t), f) /\ f.phase = "fed"
    BY <1>1, TopWorld
  <1>3. PICK U, own : Found(n, w, t, P, f, U, own)
    BY <1>1, TopWorld
  <1>4. /\ P \in Seq(Frame(n)) /\ f \in Frame(n) /\ GoodFrame(f) /\ root[t] = None
        /\ AtTop(w, P, f, H, After(P, U), own) /\ Waiting(P)
        /\ P = <<>> => f.rec \in Handled
    BY <1>3 DEF Found
  <1>5. Gathering(w) /\ Goes(Meant(w.text), w.text, f)
    BY <1>2 DEF InWorld
  <1>6. Spared(n, S, s2, X, H, H2)
    <2> HIDE DEF w, P, f
    <2> QED BY <1>0, <1>3, LoserCleared
  <1>7. h \in Handled /\ Own(f, r) \in 1..n
    <2> HIDE DEF w, P, f
    <2> QED BY <1>0, <1>2, <1>3, TopOwn
  <1>8. g.index = f.index + 1 /\ Elects(w, h, f, g, y)
    <2> HIDE DEF w, P, f, h
    <2> QED BY <1>1, <1>2, <1>4, <1>5, <1>7, ElectedGift DEF f
  <1>9. /\ g \in Frame(n) /\ g.rec = f.rec /\ g.context = f.context /\ g.branch = None
        /\ g.phase = "feed" /\ g.begin = f.begin /\ g.mark = f.mark
        /\ Better(f) => g.bestBranch = f.branch /\ g.best = f.matched
        /\ ~Better(f) => g.bestBranch = f.bestBranch /\ g.best = f.best
    BY <1>4, ElectedFrame
  <1>10. /\ g.context # None => Holds(s2, g.context)
         /\ g.bestBranch # None => Holds(s2, g.bestBranch)
         /\ P # <<>> => Holds(s2, r)
         /\ \A x : Holds(o, x) => Holds(s2, x)
    <2> HIDE DEF P, f, g
    <2> QED BY <1>4, <1>9, TopMentioned DEF o, r, s2
  <1>c. Within(t)
    <2>1. TypeOK
      BY <1>0, TypeOKIsTypedWith
    <2>2. status[t] = "parsing"
      BY <1>1 DEF InPhase
    <2>3. QED
      BY <1>1, <2>1, <2>2, WithinWhen
  <1>11. /\ Full(H2, X) /\ (\A x \in 1..n : Serves(H, H2, x))
         /\ (\A x \in 1..n : ~Holds(S, x) => Stays(H, H2, x))
         /\ \A x : Holds(s2, x) => x \in 1..n /\ Stays(H, H2, x)
    BY <1>6 DEF Spared
  <1>12. BelowHas(w, P, U, H2)
    <2>1. \A x \in 1..n : /\ Serves(contexts, H2, x)
                          /\ Holds(OpenedBy(P), x) => Stays(contexts, H2, x)
      BY <1>10, <1>11
    <2> HIDE DEF w, P, f, H2
    <2>2. QED
      BY <1>3, <2>1, BelowStays
  <1>13. LeavesOthers(n, handlerStack[t], contexts, contexts')
    BY <1>11 DEF LeavesOthers
  <1> DEFINE before == After(P, U)
  <1>14. /\ Holding(w, f, r, inner, H, before, own)
         /\ Gathered(w, H[Own(f, r)].handler, f, before, own)
         /\ TopHas(w, f, r, inner, H, before, own)
    BY <1>4 DEF AtTop, FrameHas
  <1>a. P = Front(frames[t]) /\ r = Base(P) /\ inner = (P # <<>>) /\ h = H[Own(f, r)].handler
         /\ H2 = contexts' /\ H = contexts /\ S = handlerStack[t] /\ f = Top(t)
         /\ y = Gift(w, h, f)
    OBVIOUS
  <1>15. Shape[f.rec].kind = "selector" /\ Shape[g.rec].kind = "selector"
    BY <1>1, <1>9
  <1> HIDE DEF f, P, r, H, H2, inner, S, h, g, o, s2, y, w, before
  <1>16. f.branch # None /\ Choosing(f) /\ Choosing(g)
    BY <1>2, <1>4, <1>9, <1>15 DEF GoodFrame, Choosing
  <1>17. (Plain(g) <=> Plain(f)) /\ Own(g, r) = Own(f, r)
    BY <1>2, <1>9 DEF Plain, Own
  <1>18. Holds(s2, Own(f, r))
    BY <1>2, <1>4, <1>9, <1>10, <1>a DEF Own, GoodFrame
  <1>19. H2[Own(g, r)].handler = h /\ Parts(H2)[Own(g, r)] = own
    <2>1. Parts(H)[Own(f, r)] = own
      BY <1>14, <1>16 DEF Holding
    <2>2. QED
      BY <1>7, <1>11, <1>17, <1>18, <1>a, <2>1 DEF Serves, Stays
  <1>20. Parts(H)[f.branch] = y /\ H[f.branch].handler = h
    <2>1. y \in Seq(w.part) /\ y = w.gives[<<h, Asked(f), f.pos>>]
      BY <1>2, <1>4, <1>5, <1>7, <1>a, GiftTyped
    <2>2. Parts(H)[f.branch] = <<>> \o w.gives[<<h, Asked(f), f.pos>>]
      BY <1>2, <1>14, <1>16, <1>a DEF TopHas, Above, Handed
    <2>3. <<>> \o y = y
      BY <2>1, ConcatEmptySeq
    <2>4. H[f.branch].handler = h
      BY <1>14, <1>16, <1>a DEF Holding
    <2>5. QED
      BY <2>1, <2>2, <2>3, <2>4
  <1>21. Gathered(w, H2[Own(g, r)].handler, g, before, own)
    <2>1. \A x : ByNow(w, h, f, x) => ByNow(w, h, g, x)
      BY <1>2, <1>9, <1>15 DEF ByNow, Underway
    <2>2. QED
      BY <1>9, <1>14, <1>17, <1>19, <1>a, <2>1 DEF Gathered
  <1>22. /\ g.bestBranch # None => /\ H2[g.bestBranch].handler = h
                                   /\ BestGift(w, h, g, Parts(H2)[g.bestBranch])
         /\ g.best = NPos <=> g.bestBranch = None
    <2>1. CASE Better(f)
      <3>1. g.bestBranch = f.branch /\ g.best = f.matched /\ f.matched # NPos
        BY <1>9, <2>1 DEF Better
      <3>2. BestGift(w, h, g, y)
        BY <1>8, <2>1 DEF Elects
      <3>3. Parts(H2)[f.branch] = y /\ H2[f.branch].handler = h
        BY <1>10, <1>11, <1>16, <1>20, <3>1 DEF Serves, Stays
      <3>4. QED
        BY <1>16, <3>1, <3>2, <3>3
    <2>2. CASE ~Better(f)
      <3>1. g.bestBranch = f.bestBranch /\ g.best = f.best
        BY <1>9, <2>2
      <3>2. /\ f.best = NPos <=> f.bestBranch = None
            /\ f.bestBranch # None => H[f.bestBranch].handler = h
                                      /\ BestGift(w, h, f, Parts(H)[f.bestBranch])
        BY <1>14, <1>16, <1>a DEF Holding
      <3>3. f.bestBranch # None => /\ H2[f.bestBranch].handler = h
                                   /\ Parts(H2)[f.bestBranch] = Parts(H)[f.bestBranch]
        BY <1>10, <1>11, <3>1, <3>2 DEF Serves, Stays
      <3>4. f.bestBranch # None => BestGift(w, h, g, Parts(H)[f.bestBranch])
        BY <1>8, <2>2, <3>2 DEF Elects
      <3>5. QED
        BY <3>1, <3>2, <3>3, <3>4
    <2>3. QED
      BY <2>1, <2>2
  <1>23. Holding(w, g, r, inner, H2, before, own)
    <2>1. g.context # None => H2[g.context].handler = g.rec
      BY <1>9, <1>10, <1>11, <1>14 DEF Holding, Serves
    <2>2. inner /\ g.context # None => Parts(H2)[r] = before
      BY <1>9, <1>10, <1>11, <1>14, <1>a DEF Holding, Stays
    <2>3. QED
      BY <1>9, <1>19, <1>22, <2>1, <2>2 DEF Holding
  <1>24. TopHas(w, g, r, inner, H2, before, own)
    BY <1>9, <1>19 DEF TopHas
  <1>25. AtTop(w, P, g, H2, After(P, U), own)
    BY <1>21, <1>23, <1>24, <1>a DEF AtTop, FrameHas, before
  <1>b. n <= n
    OBVIOUS
  <1>26. ThreadHas(w, frames'[t], H2) /\ \A u \in Thread : u # t => frames'[u] = frames[u]
    BY <1>0, <1>1, <1>9, <1>12, <1>25, <1>a, <1>b, BecomeHas
  <1>27. frames'[t] # <<>>
    BY <1>0, <1>1, <1>9, <1>b, RunsOn
  <1>28. QED
    BY <1>1, <1>4, <1>11, <1>13, <1>26, <1>27, <1>a, <1>c, WorkContent DEF w

(* What a selector has at the end, when its best branch gave z.            *)
LEMMA BestIsInside ==
    ASSUME NEW n \in Nat, NEW f \in Frame(n), NEW w, NEW h, Shape[f.rec].kind = "selector",
           f.phase = "feed", Goes(Meant(w.text), w.text, f), ~MoreElements(f),
           NEW z, BestGift(w, h, f, z)
    PROVE  InsideIn(w, h, f.rec, f.begin, z)
  <1> DEFINE es == Shape[f.rec].elements
             M  == Meant(w.text)
             k == Len(es)
  <1>1. f.index \in Nat /\ k \in Nat /\ f.index <= k /\ f.index >= k
    <2>1. f.index \in Nat /\ k \in Nat
      BY FrameFields DEF Elements
    <2>2. Arrived(M, w.text, f)
      BY DEF Goes
    <2>3. f.index <= k
      BY <2>2 DEF Arrived, Elements
    <2>4. QED
      BY <2>1, <2>3 DEF MoreElements, Elements
  <1>2. f.index = k
    BY <1>1
  <1>3. PICK i \in 1..k : FirstLongest(M, f.rec, f.begin, k, i, f.best)
                          /\ z = w.gives[<<h, es[i], f.begin>>]
    BY <1>2 DEF BestGift, Elements
  <1>4. f.best \in Nat
    BY <1>3 DEF FirstLongest
  <1>5. \E j \in 1..Len(es) : \E q \in Nat :
           FirstLongest(M, f.rec, f.begin, Len(es), j, q) /\ z = w.gives[<<h, es[j], f.begin>>]
    BY <1>3, <1>4
  <1>6. QED
    BY <1>5 DEF InsideIn

(* The best branch is merged into the context that it was taken from: the  *)
(* others are not touched.                                                 *)
Merges(n, S, o, X, H, H2, d, c, r, ctx) ==
    /\ Full(H2, X) /\ Parts(H2)[d] = Parts(H)[d] \o Parts(H)[c]
    /\ \A x \in 1..n : Serves(H, H2, x) /\ (~Holds(S, x) => Stays(H, H2, x))
    /\ \A x : Holds(o, x) /\ x # Last(o) => x \in 1..n /\ Stays(H, H2, x)
    /\ Holds(o, r) /\ ctx # None => Stays(H, H2, r)

LEMMA BestMerged ==
    ASSUME NEW n \in Nat, TypedWith(n), ThreadsInv, HoldersInv, NEW X, Full(contexts, X),
           NEW t \in Thread, SelectorMerge(t), NEW w, NEW P, NEW f, NEW U, NEW own,
           Found(n, w, t, P, f, U, own), f.bestBranch # None
    PROVE  Merges(n, handlerStack[t], OpenedBy(P), X, contexts, contexts', Own(f, Base(P)),
                  f.bestBranch, Base(P), f.context)
  <1> DEFINE S == handlerStack[t]
             c == f.bestBranch
             ctx == f.context
             r == Base(P)
             o == OpenedBy(P)
             u == Opened(f)
             d == Own(f, r)
             H == contexts
             H2 == contexts'
  <1>1. /\ f = Top(t) /\ P = Front(frames[t]) /\ P \in Seq(Frame(n)) /\ f \in Frame(n)
        /\ \A x : Holds(S, x) => x \in 1..n /\ ~InHeap(H, x)
        /\ o \in Seq(1..n) /\ NoRepetition(S) /\ S = o \o u
        /\ \A x : Holds(o, x) => Holds(S, x)
        /\ GoodFrame(f) /\ (P = <<>> => f.rec \in Handled)
        /\ (P # <<>> => r = Last(o) /\ Holds(o, r))
    BY DEF Found
  <1>2. r = Last(o)
    BY <1>1, BaseIsLast
  <1>3. c \in 1..n /\ d \in 1..n /\ d # c /\ H2 = Cleared(Merged(H, d, c), c)
    BY <1>1, <1>2, MergeEffect
  <1>4. /\ u \in Seq(1..n) /\ (ctx # None => Holds(u, ctx)) /\ Holds(u, c)
    BY <1>1, HeldByActivation
  <1>a. H = contexts /\ c # None /\ d = (IF ctx # None THEN ctx ELSE r)
    BY DEF Own
  <1>b. f.phase = "feed"
    BY <1>1 DEF SelectorMerge, Running, InPhase
  <1>c. ctx # None \/ Holds(o, r)
    BY <1>1, <1>b DEF GoodFrame
  <1>d. H \in HeapOf(n)
    BY DEF TypedWith
  <1>e. Full(H, X)
    OBVIOUS
  <1> HIDE DEF S, c, ctx, r, o, u, d, H, H2
  <1>5. \A x : Holds(u, x) => Holds(S, x) /\ ~Holds(o, x)
    <2>1. \A x : Holds(S, x) <=> Holds(o, x) \/ Holds(u, x)
      BY <1>1, <1>4, HeldByConcat
    <2>2. \A x : Holds(o, x) => ~Holds(u, x)
      <3>1. NoRepetition(o \o u)
        BY <1>1
      <3>2. \A x, y : Holds(o, x) /\ Holds(u, y) => x # y
        BY <1>1, <1>4, <3>1, ApartOnStack
      <3>3. QED
        BY <3>2
    <2>3. QED
      BY <2>1, <2>2
  <1>6. Holds(S, c) /\ Holds(S, d)
    BY <1>1, <1>4, <1>5, <1>a, <1>c
  <1>7. ~InHeap(H, c) /\ ~InHeap(H, d)
    BY <1>1, <1>6
  <1>8. /\ Full(H2, X)
        /\ Parts(H2)[d] = Parts(H)[d] \o Parts(H)[c]
        /\ \A e \in 1..n : e # d /\ e # c => Parts(H2)[e] = Parts(H)[e]
        /\ \A e \in 1..n : H2[e].handler = H[e].handler
    <2>1. Full(H2, X) /\ BothChanged(H, H2, n, d, c)
      BY <1>3, <1>7, <1>d, <1>e, MergeParts
    <2>2. QED
      BY <2>1 DEF BothChanged
  <1>9. \A x \in 1..n : Serves(H, H2, x) /\ (~Holds(S, x) => Stays(H, H2, x))
    BY <1>6, <1>8 DEF Serves, Stays
  <1>10. \A x : Holds(o, x) /\ x # Last(o) => x \in 1..n /\ Stays(H, H2, x)
    <2>1. ASSUME NEW x, Holds(o, x), x # Last(o) PROVE x \in 1..n /\ x # c /\ x # d
      <3>1. x \in 1..n /\ x # c
        BY <1>1, <1>4, <1>5, <2>1
      <3>2. x # d
        BY <1>2, <1>4, <1>5, <1>a, <2>1
      <3>3. QED
        BY <3>1, <3>2
    <2>2. QED
      BY <1>8, <2>1 DEF Stays
  <1>11. Holds(o, r) /\ ctx # None => Stays(H, H2, r)
    <2>1. SUFFICES ASSUME Holds(o, r), ctx # None PROVE Stays(H, H2, r)
      OBVIOUS
    <2>2. r \in 1..n /\ r # c /\ r # d
      BY <1>1, <1>4, <1>5, <1>a, <2>1
    <2>3. QED
      BY <1>8, <2>2 DEF Stays
  <1>12. Merges(n, S, o, X, H, H2, d, c, r, ctx)
    BY <1>8, <1>9, <1>10, <1>11 DEF Merges
  <1>13. QED
    BY <1>12 DEF S, c, ctx, r, o, d, H, H2

(* The last alternative has answered: the best branch is merged.           *)
LEMMA MergeContent ==
    ASSUME NEW n \in Nat, NEW N, NEW X, Known(n, N, X), Worlds(N, X), ThreadsInv',
           NEW t \in Thread, SelectorMerge(t)
    PROVE  ContentInv(N, X)'
  <1> DEFINE f == Top(t)
             P == Front(frames[t])
             r == Base(P)
             H == contexts
             H2 == contexts'
             inner == P # <<>>
             w == WorldOf(N, X, Call(t))
             S == handlerStack[t]
             c == f.bestBranch
             d == Own(f, r)
             h == H[d].handler
             g == [Answer(f, f.best) EXCEPT !.bestBranch = None]
             o == OpenedBy(P)
             z == Parts(H)[c]
  <1>0. TypedWith(n) /\ ThreadsInv /\ HoldersInv /\ Full(contexts, X)
    BY DEF Known, ContentInv
  <1>1. InPhase(t, "feed") /\ Shape[f.rec].kind = "selector" /\ Become(t, g) /\ ~MoreElements(f)
        /\ root' = root /\ parsed' = parsed /\ UNCHANGED <<script, parses, outcome>>
        /\ (status' = status \/ \E ok : FatalUnless(t, ok))
    BY DEF SelectorMerge, Running
  <1>2. InWorld(n, w, X, Call(t), f) /\ f.phase = "feed"
    BY <1>1, TopWorld
  <1>3. PICK U, own : Found(n, w, t, P, f, U, own)
    BY <1>1, TopWorld
  <1>4. /\ P \in Seq(Frame(n)) /\ f \in Frame(n) /\ GoodFrame(f) /\ root[t] = None
        /\ BelowHas(w, P, U, H) /\ AtTop(w, P, f, H, After(P, U), own)
        /\ inner => r = Last(o) /\ Holds(o, r)
        /\ \A x : Holds(o, x) => x \in 1..n
        /\ \A x : Holds(S, x) => x \in 1..n
        /\ S = o \o Opened(f) /\ o \in Seq(1..n)
    BY <1>3 DEF Found
  <1>5. Gathering(w) /\ Goes(Meant(w.text), w.text, f) /\ w.part = X
    BY <1>2 DEF InWorld
  <1>6. h \in Handled /\ d \in 1..n
    <2> HIDE DEF w, P, f
    <2> QED BY <1>0, <1>2, <1>3, TopOwn
  <1>7. c # None => Merges(n, S, o, X, H, H2, d, c, r, f.context)
    <2> HIDE DEF w, P, f
    <2>1. SelectorMerge(t)
      OBVIOUS
    <2>2. QED
      BY <1>0, <1>3, <2>1, BestMerged
  <1>8. c = None => H2 = H
    BY DEF SelectorMerge, heapVars
  <1>9. /\ g \in Frame(n) /\ g.rec = f.rec /\ g.context = f.context /\ g.branch = f.branch
        /\ g.bestBranch = None /\ g.phase = "end"
        /\ g.begin = f.begin /\ g.mark = f.mark /\ g.matched = f.best
    BY <1>4, MergedFrame
  <1>c. Within(t)
    <2>1. TypeOK
      BY <1>0, TypeOKIsTypedWith
    <2>2. status[t] = "parsing"
      BY <1>1 DEF InPhase
    <2>3. QED
      BY <1>1, <2>1, <2>2, WithinWhen
  <1>10. /\ Full(H2, X) /\ LeavesOthers(n, S, H, H2) /\ \A x \in 1..n : Serves(H, H2, x)
         /\ \A x \in 1..n : Holds(o, x) /\ x # Last(o) => Stays(H, H2, x)
    <2>1. CASE c = None
      BY <1>0, <1>8, <2>1 DEF LeavesOthers, Serves, Stays
    <2>2. CASE c # None
      BY <1>7, <2>2 DEF Merges, LeavesOthers
    <2>3. QED
      BY <2>1, <2>2
  <1>11. BelowHas(w, P, U, H2)
    <2>1. \A x \in 1..n : /\ Serves(contexts, H2, x)
                          /\ Holds(OpenedBy(P), x) /\ x # Last(OpenedBy(P)) =>
                                Stays(contexts, H2, x)
      BY <1>10
    <2> HIDE DEF w, P, f, H2
    <2>2. QED
      BY <1>3, <2>1, BelowStays
  <1> DEFINE before == After(P, U)
  <1>12. /\ Holding(w, f, r, inner, H, before, own)
         /\ Gathered(w, H[Own(f, r)].handler, f, before, own)
         /\ TopHas(w, f, r, inner, H, before, own)
    BY <1>4 DEF AtTop, FrameHas
  <1>13. c # None => z \in Seq(w.part)
    <2>1. c # None => c \in 1..n
      BY <1>4 DEF Frame, Pointer, None
    <2>2. QED
      BY <1>0, <1>5, <2>1, PartsAt DEF TypedWith
  <1>14. c # None => BestGift(w, h, f, z)
    BY <1>1, <1>2, <1>12 DEF Holding, Choosing
  <1>15. c # None => InsideIn(w, h, f.rec, f.begin, z)
    <2> HIDE DEF w, P, f, h, z, c
    <2>1. Shape[f.rec].kind = "selector" /\ ~MoreElements(f)
      BY <1>1 DEF f
    <2>2. ASSUME NEW x, BestGift(w, h, f, x) PROVE InsideIn(w, h, f.rec, f.begin, x)
      BY <1>2, <1>4, <1>5, <2>1, <2>2, BestIsInside
    <2>3. QED
      BY <1>14, <2>2
  <1>16. c = None => f.best = NPos
    BY <1>1, <1>2, <1>12 DEF Holding, Choosing
  <1>a. P = Front(frames[t]) /\ r = Base(P) /\ inner = (P # <<>>) /\ h = H[d].handler
         /\ H2 = contexts' /\ H = contexts /\ S = handlerStack[t] /\ f = Top(t)
         /\ d = Own(f, r) /\ (P = <<>> => f.rec \in Handled) /\ c = f.bestBranch /\ z = Parts(H)[c]
    BY <1>3 DEF Found
  <1>17. Shape[f.rec].kind = "selector" /\ Shape[g.rec].kind = "selector"
    BY <1>1, <1>9
  <1> HIDE DEF f, P, r, H, H2, inner, S, h, g, o, c, d, z, w, before
  <1>18. f.branch = None /\ ~Choosing(g) /\ g.branch = None
    BY <1>2, <1>4, <1>9 DEF GoodFrame, Choosing
  <1>19. (Plain(g) <=> Plain(f)) /\ Own(g, r) = d
    BY <1>2, <1>9, <1>a DEF Plain, Own
  <1>20. Parts(H)[d] = own /\ H2[d].handler = h
    <2>1. Parts(H)[d] = own
      BY <1>2, <1>12, <1>a DEF TopHas
    <2>2. QED
      BY <1>6, <1>10, <1>a, <2>1 DEF Serves
  <1>21. inner /\ g.context # None => Parts(H2)[r] = before
    <2>1. SUFFICES ASSUME inner, g.context # None PROVE Parts(H2)[r] = before
      OBVIOUS
    <2>2. Parts(H)[r] = before /\ Holds(o, r)
      BY <1>4, <1>9, <1>12, <2>1 DEF Holding
    <2>3. Stays(H, H2, r)
      <3>1. CASE c = None
        BY <1>8, <3>1 DEF Stays
      <3>2. CASE c # None
        BY <1>7, <1>9, <2>1, <2>2, <3>2 DEF Merges
      <3>3. QED
        BY <3>1, <3>2
    <2>4. QED
      BY <2>2, <2>3 DEF Stays
  <1>22. ASSUME NEW own2
         PROVE  Holding(w, g, r, inner, H2, before, own2)
    <2>1. g.context # None => H2[g.context].handler = g.rec
      BY <1>9, <1>12, <1>19, <1>20, <1>a DEF Holding, Own
    <2>2. QED
      BY <1>9, <1>18, <1>21, <2>1 DEF Holding
  <1>23. PICK x \in Seq(X) : ByNow(w, h, f, x)
                             /\ own = (IF f.context # None THEN <<>> ELSE before) \o x
    BY <1>5, <1>12, <1>a DEF Gathered
  <1>24. x = <<>>
    BY <1>2, <1>17, <1>23 DEF ByNow, Underway
  <1>25. before \in Seq(X) /\ own \in Seq(X) /\ (Plain(g) => g.mark = Len(before))
    BY <1>5, <1>9, <1>12, <1>19 DEF Gathered
  <1> DEFINE base == IF f.context # None THEN <<>> ELSE before
  <1>26. base \in Seq(X) /\ own = base
    <2>1. base \in Seq(X)
      BY <1>25, EmptySeq
    <2> HIDE DEF base
    <2>2. base \o <<>> = base
      BY <2>1, ConcatEmptySeq
    <2>3. QED
      BY <1>23, <1>24, <2>1, <2>2 DEF base
  <1>b. base = IF g.context # None THEN <<>> ELSE before
    BY <1>9
  <1> HIDE DEF base
  <1>27. \E own2 : AtTop(w, P, g, H2, After(P, U), own2)
    <2>1. CASE c = None
      <3>1. Gathered(w, h, g, before, own)
        <4>1. ByNow(w, h, g, x)
          BY <1>9, <1>16, <2>1 DEF ByNow, NPos
        <4>2. own = base \o x
          BY <1>23 DEF base
        <4>3. QED
          BY <1>5, <1>25, <1>b, <4>1, <4>2 DEF Gathered
      <3>2. TopHas(w, g, r, inner, H2, before, own)
        BY <1>8, <1>9, <1>19, <1>20, <2>1 DEF TopHas
      <3>3. AtTop(w, P, g, H2, After(P, U), own)
        BY <1>19, <1>20, <1>22, <1>a, <3>1, <3>2 DEF AtTop, FrameHas, before
      <3>4. QED
        BY <3>3
    <2>2. CASE c # None
      <3> DEFINE own2 == own \o z
      <3>1. own2 = base \o z /\ own2 \in Seq(X) /\ z \in Seq(X)
        BY <1>5, <1>13, <1>25, <1>26, <2>2, ConcatProperties
      <3>2. Parts(H2)[d] = own2
        BY <1>7, <1>20, <1>a, <2>2 DEF Merges
      <3> HIDE DEF own2
      <3>3. ByNow(w, h, g, z)
        BY <1>9, <1>15, <2>2 DEF ByNow
      <3>4. Gathered(w, h, g, before, own2)
        BY <1>5, <1>25, <1>b, <3>1, <3>3 DEF Gathered
      <3>5. TopHas(w, g, r, inner, H2, before, own2)
        BY <1>9, <1>19, <3>2 DEF TopHas
      <3>6. Holding(w, g, r, inner, H2, before, own2)
        BY <1>22
      <3>7. AtTop(w, P, g, H2, After(P, U), own2)
        BY <1>19, <1>20, <1>a, <3>4, <3>5, <3>6 DEF AtTop, FrameHas, before
      <3>8. QED
        BY <3>7
    <2>3. QED
      BY <2>1, <2>2
  <1>28. PICK own2 : AtTop(w, P, g, H2, After(P, U), own2)
    BY <1>27
  <1>d. n <= n
    OBVIOUS
  <1>29. ThreadHas(w, frames'[t], H2) /\ \A u \in Thread : u # t => frames'[u] = frames[u]
    BY <1>0, <1>1, <1>9, <1>11, <1>28, <1>a, <1>d, BecomeHas
  <1>30. frames'[t] # <<>>
    BY <1>0, <1>1, <1>9, <1>d, RunsOn
  <1>31. QED
    BY <1>1, <1>4, <1>10, <1>29, <1>30, <1>a, <1>c, WorkContent DEF w

----------------------------------------------------------------------------
(* The answer of the innermost activation: what is asked by the activation *)
(* below, or by parseInput(), and what is given with it.                   *)
Answers(w, rule, P, f) ==
    /\ P # <<>> => Asked(Last(P)) = f.rec /\ Last(P).pos = f.begin
    /\ P = <<>> => f.rec = rule /\ f.begin = 0
    /\ f.rec \in Recognizer /\ f.begin \in Nat /\ f.matched \in Matched
    /\ \A h \in Handled : GivesFor(w, h, f.rec, f.begin, f.matched)

LEMMA TopAnswer ==
    ASSUME NEW n \in Nat, NEW N, NEW X, Known(n, N, X), Worlds(N, X), NEW t \in Thread,
           InPhase(t, "end")
    PROVE  Answers(WorldOf(N, X, Call(t)), Call(t).rule, Front(frames[t]), Top(t))
  <1> DEFINE w == WorldOf(N, X, Call(t))
             F == frames[t]
             P == Front(F)
             f == Top(t)
             s == Call(t).input
             M == Meant(s)
             rule == Call(t).rule
  <1>0. TypedWith(n) /\ AnswersInv
    BY DEF Known
  <1>1. /\ F \in Seq(Frame(n)) /\ F # <<>> /\ f = Last(F) /\ f \in Frame(n) /\ f.phase = "end"
        /\ Answering(M, s, rule, F)
    BY <1>0, TopAnswers
  <1>2. InWorld(n, w, X, Call(t), f) /\ w.text = s
    BY TopWorld DEF InWorld
  <1>3. /\ P \in Seq(Frame(n)) /\ Chain(M, s, rule, P, f.rec, f.begin)
        /\ <<f.rec, f.begin, f.matched>> \in M
    <2>1. P \in Seq(Frame(n))
      BY <1>1, EndsOfSequence
    <2>2. QED
      BY <1>1, <2>1 DEF Answering, Goes
  <1>4. Gathering(w)
    BY <1>2 DEF InWorld
  <1> HIDE DEF w, F, P, f, s, rule
  <1>5. f.rec \in Recognizer /\ f.begin \in Nat /\ f.matched \in Matched
    BY <1>1, FrameFields
  <1>6. ASSUME NEW h \in Handled PROVE GivesFor(w, h, f.rec, f.begin, f.matched)
    BY <1>2, <1>3, <1>4, <1>5 DEF Gathering
  <1>7. ASSUME P # <<>> PROVE Asked(Last(P)) = f.rec /\ Last(P).pos = f.begin
    <2> DEFINE g == Last(P)
               Q == Front(P)
    <2>1. P = Append(Q, g) /\ Q \in Seq(Frame(n)) /\ g \in Frame(n)
      BY <1>3, <1>7, EndsAppend
    <2> HIDE DEF g, Q
    <2>2. Waits(M, s, g, f.rec, f.begin)
      BY <1>3, <2>1, ChainAppend
    <2>3. Shape[g.rec].kind \in Kind
      BY <2>1, FrameFields
    <2>4. Asked(g) = f.rec /\ g.pos = f.begin
      BY <2>2, <2>3 DEF Waits, Asks, Asked, Kind
    <2>5. QED
      BY <2>4 DEF g
  <1>8. P = <<>> => f.rec = rule /\ f.begin = 0
    BY <1>3, ChainEmpty
  <1>9. Answers(w, rule, P, f)
    BY <1>5, <1>6, <1>7, <1>8 DEF Answers
  <1>10. QED
    BY <1>9 DEF w, F, P, f, rule

(* What the activation below, and the element it fills, have when the      *)
(* innermost one has given what it gives.                                  *)
Gave(w, P, U, H, f) ==
    Parts(H)[Base(P)] = After(P, U) \o w.gives[<<H[Base(P)].handler, f.rec, f.begin>>]

(* A return to the activation below.                                       *)
LEMMA ReturnContent ==
    ASSUME NEW n \in Nat, NEW N, NEW X, Known(n, N, X), Worlds(N, X), ThreadsInv',
           NEW t \in Thread, InPhase(t, "end"), Return(t), Within(t), root' = root,
           NEW P, P = Front(frames[t]), P # <<>>, NEW U, NEW own,
           Found(n, WorldOf(N, X, Call(t)), t, P, Top(t), U, own),
           LeavesOthers(n, handlerStack[t], contexts, contexts'), Full(contexts', X),
           \A c \in 1..n : Holds(OpenedBy(P), c) /\ c # Last(OpenedBy(P)) =>
                              Stays(contexts, contexts', c),
           Gave(WorldOf(N, X, Call(t)), P, U, contexts', Top(t))
    PROVE  ContentInv(N, X)'
  <1> DEFINE f == Top(t)
             w == WorldOf(N, X, Call(t))
             H2 == contexts'
  <1>0. TypedWith(n) /\ ThreadsInv
    BY DEF Known
  <1>1. Answers(w, Call(t).rule, P, f)
    BY TopAnswer
  <1>2. /\ Found(n, w, t, P, f, U, own) /\ Gave(w, P, U, H2, f) /\ f = Top(t)
        /\ H2 = contexts'
    OBVIOUS
  <1>3. \A c \in 1..n : /\ Serves(contexts, H2, c)
                        /\ Holds(OpenedBy(P), c) /\ c # Last(OpenedBy(P)) =>
                              Stays(contexts, H2, c)
    BY DEF LeavesOthers
  <1>4. P \in Seq(Frame(n)) /\ root[t] = None
    BY DEF Found
  <1>a. w = WorldOf(N, X, Call(t))
    OBVIOUS
  <1> HIDE DEF w, f, H2
  <1>5. BelowHas(w, P, U, H2)
    BY <1>2, <1>3, BelowStays
  <1>6. P # <<>> => /\ Asked(Last(P)) = Top(t).rec /\ Last(P).pos = Top(t).begin
                    /\ Parts(H2)[Base(P)] = After(P, U) \o
                          w.gives[<<H2[Base(P)].handler, Top(t).rec, Top(t).begin>>]
    BY <1>1, <1>2 DEF Answers, Gave
  <1>7. ThreadHas(w, frames'[t], H2) /\ \A u \in Thread : u # t => frames'[u] = frames[u]
    BY <1>0, <1>5, <1>6, ReturnHas
  <1>8. frames'[t] # <<>> /\ parsed' = parsed
    <2> DEFINE p == [Last(P) EXCEPT !.matched = Top(t).matched]
               Q == Front(P)
    <2>1. frames'[t] = Append(Q, p) /\ parsed' = parsed
      BY <1>0 DEF Return, TypedWith, FramesOf
    <2>2. Q \in Seq(Frame(n)) /\ Last(P) \in Frame(n)
      BY <1>4, EndsOfSequence
    <2>3. p \in Frame(n)
      BY <1>1, <1>2, <2>2 DEF Answers, Frame
    <2> HIDE DEF p, Q
    <2>4. QED
      BY <2>1, <2>2, <2>3, AppendEnds
  <1>9. QED
    BY <1>2, <1>4, <1>7, <1>8, <1>a, WorkContent

(* The return to parseInput().                                             *)
LEMMA LastReturnContent ==
    ASSUME NEW n \in Nat, NEW N, NEW X, Known(n, N, X), NEW t \in Thread,
           Front(frames[t]) = <<>>, Return(t), Within(t), status' = status, status[t] = "parsing",
           \A u \in Thread : u # t => root'[u] = root[u],
           LeavesOthers(n, handlerStack[t], contexts, contexts'), Full(contexts', X),
           RootHas(WorldOf(N, X, Call(t)), Call(t).rule, "parsing", <<>>, root'[t],
                   Top(t).matched, contexts')
    PROVE  ContentInv(N, X)'
  <1>1. /\ frames'[t] = <<>> /\ parsed'[t] = Top(t).matched
        /\ \A u \in Thread : u # t => frames'[u] = frames[u] /\ parsed'[u] = parsed[u]
    BY DEF Return, Known, TypedWith, FramesOf
  <1>2. Inner(t)
    BY <1>1 DEF Inner, OnlyOf, Within
  <1>3. ThreadHas(WorldOf(N, X, Call(t)), frames'[t], contexts')
    BY <1>1 DEF ThreadHas
  <1>4. RootHas(WorldOf(N, X, Call(t)), Call(t).rule, "parsing", frames'[t], root'[t],
                parsed'[t], contexts')
    BY <1>1
  <1>5. QED
    BY <1>2, <1>3, <1>4, InnerContent DEF Known

(* What an activation that matched has gathered is what is inside.         *)
OnTop(w, P, U, own, f) ==
    \E x \in Seq(w.part) :
       /\ own = After(P, U) \o x
       /\ f.matched > 0 => InsideIn(w, contexts[Base(P)].handler, f.rec, f.begin, x)

LEMMA MatchedInside ==
    ASSUME NEW n \in Nat, NEW w, NEW t \in Thread, NEW P, NEW f, NEW U, NEW own,
           Found(n, w, t, P, f, U, own), f.phase = "end"
    PROVE  /\ After(P, U) \in Seq(w.part) /\ own \in Seq(w.part)
           /\ Parts(contexts)[Own(f, Base(P))] = own
           /\ Plain(f) => f.mark = Len(After(P, U))
           /\ f.context # None => contexts[f.context].handler = f.rec
           /\ P # <<>> /\ f.context # None => Parts(contexts)[Base(P)] = After(P, U)
           /\ f.matched > 0 /\ f.context # None => InsideIn(w, f.rec, f.rec, f.begin, own)
           /\ f.context = None => OnTop(w, P, U, own, f)
  <1> DEFINE r == Base(P)
             before == After(P, U)
             H == contexts
             inner == P # <<>>
             h == H[Own(f, r)].handler
  <1>1. /\ Holding(w, f, r, inner, H, before, own) /\ Gathered(w, h, f, before, own)
        /\ TopHas(w, f, r, inner, H, before, own)
    BY DEF Found, AtTop, FrameHas
  <1> HIDE DEF r, before, H, inner
  <1>2. PICK x \in Seq(w.part) : ByNow(w, h, f, x)
                                 /\ own = (IF f.context # None THEN <<>> ELSE before) \o x
    BY <1>1 DEF Gathered
  <1>3. f.matched > 0 => InsideIn(w, h, f.rec, f.begin, x)
    BY <1>2 DEF ByNow
  <1>4. ASSUME f.context # None
        PROVE  /\ own = x /\ h = f.rec /\ H[f.context].handler = f.rec
               /\ inner => Parts(H)[r] = before
    <2>1. own = x
      BY <1>2, <1>4, ConcatEmptySeq
    <2>2. QED
      BY <1>1, <1>4, <2>1 DEF Holding, Own
  <1>5. f.context = None => h = H[r].handler
    BY DEF Own
  <1>6. /\ before \in Seq(w.part) /\ own \in Seq(w.part) /\ Parts(H)[Own(f, r)] = own
        /\ Plain(f) => f.mark = Len(before)
    BY <1>1 DEF Gathered, TopHas
  <1>7. f.context = None => own = before \o x
    BY <1>2
  <1>8. /\ f.matched > 0 /\ f.context # None => InsideIn(w, f.rec, f.rec, f.begin, own)
        /\ f.context = None /\ f.matched > 0 => InsideIn(w, H[r].handler, f.rec, f.begin, x)
    BY <1>3, <1>4, <1>5
  <1>9. QED
    BY <1>2, <1>4, <1>6, <1>7, <1>8 DEF r, before, H, inner, OnTop

(* _endParse(), an element to keep.                                        *)
LEMMA EndElementContent ==
    ASSUME NEW n \in Nat, NEW N, NEW X, Known(n, N, X), Worlds(N, X), ThreadsInv',
           NEW t \in Thread, EndElement(t)
    PROVE  ContentInv(N, X)'
  <1> DEFINE f == Top(t)
             P == Front(frames[t])
             r == Base(P)
             H == contexts
             H2 == contexts'
             w == WorldOf(N, X, Call(t))
             S == handlerStack[t]
             o == OpenedBy(P)
             c == f.context
  <1>0. TypedWith(n) /\ ThreadsInv /\ HoldersInv /\ Full(contexts, X)
    BY DEF Known, ContentInv
  <1>1. /\ InPhase(t, "end") /\ f.matched > 0 /\ c # None /\ Return(t)
        /\ UNCHANGED <<status, script, parses, outcome>>
    BY DEF EndElement, Matching
  <1>2. Within(t)
    BY <1>1 DEF Within, InPhase
  <1>3. InWorld(n, w, X, Call(t), f) /\ f.phase = "end" /\ Answers(w, Call(t).rule, P, f)
    BY <1>1, TopWorld, TopAnswer
  <1>4. PICK U, own : Found(n, w, t, P, f, U, own)
    BY <1>1, TopWorld
  <1>5. /\ P # <<>> => r = Last(o) /\ Holds(o, r) /\ r \in 1..n
        /\ \A x : Holds(S, x) => x \in 1..n /\ ~InHeap(H, x)
        /\ \A x : Holds(o, x) => Holds(S, x)
        /\ NoRepetition(S) /\ o \in Seq(1..n) /\ root[t] = None
    BY <1>4 DEF Found
  <1>6. /\ own \in Seq(X) /\ Parts(H)[c] = own /\ H[c].handler = f.rec
        /\ InsideIn(w, f.rec, f.rec, f.begin, own) /\ w.part = X
        /\ P # <<>> => Parts(H)[r] = After(P, U)
    <2>1. Own(f, r) = c
      BY <1>1 DEF Own
    <2>2. w.part = X
      BY DEF WorldOf, World
    <2> HIDE DEF w, f, P
    <2>3. QED
      BY <1>1, <1>3, <1>4, <2>1, <2>2, MatchedInside
  <1>7. c \in 1..n /\ Pop(S) = o /\ S = Append(o, c)
    BY <1>0, <1>1, AtTheEnd
  <1>8. /\ f.begin \in Nat /\ f.matched \in Nat /\ f.rec \in Recognizer
        /\ \A h \in Handled : GivesFor(w, h, f.rec, f.begin, f.matched)
    BY <1>1, <1>3 DEF Answers, Matched, NPos
  <1>9. f.rec \in Handled
    <2>1. H[c].handler \in Handled
      BY <1>0, <1>7, AssignmentsTyped DEF TypedWith
    <2>2. QED
      BY <1>6, <2>1
  <1>10. CASE P = <<>>
    <2>1. o = <<>>
      BY <1>10, OpenedByEmpty
    <2>2. root' = [root EXCEPT ![t] = c] /\ contexts' = contexts
      BY <1>7, <2>1 DEF EndElement
    <2>3. root'[t] = c /\ \A u \in Thread : u # t => root'[u] = root[u]
      BY <1>0, <2>2 DEF TypedWith
    <2>4. LeavesOthers(n, handlerStack[t], contexts, contexts')
      BY <2>2, SameHeap
    <2>5. RootHas(w, Call(t).rule, "parsing", <<>>, root'[t], f.matched, contexts')
      <3>1. f.rec = Call(t).rule /\ f.begin = 0
        BY <1>3, <1>10 DEF Answers
      <3>2. QED
        BY <1>1, <1>6, <2>2, <2>3, <3>1 DEF RootHas
    <2>6. QED
      BY <1>0, <1>1, <1>2, <1>10, <2>2, <2>3, <2>4, <2>5, LastReturnContent DEF InPhase
  <1>11. CASE P # <<>>
    <2> DEFINE h == H[r].handler
               gift == w.gives[<<h, f.rec, f.begin>>]
    <2>1. SetChild(r, f.rec, f.begin, f.matched, c) /\ root' = root
      <3>1. o # <<>>
        BY <1>5, <1>11, LenProperties DEF Holds
      <3>2. QED
        BY <1>5, <1>7, <1>11, <3>1 DEF EndElement
    <2>2. h \in Handled
      BY <1>0, <1>5, <1>11, AssignmentsTyped DEF TypedWith
    <2>3. gift \in Seq(X) /\ gift = Itself(h, f.rec, f.begin, f.matched, Parts(H)[c])
      <3>1. GivesFor(w, h, f.rec, f.begin, f.matched)
        BY <1>8, <2>2
      <3>2. QED
        BY <1>1, <1>6, <1>9, <3>1 DEF GivesFor
    <2>4. c # r
      <3>1. S = o \o Opened(f) /\ f \in Frame(n)
        BY <1>4 DEF Found
      <3>2. Holds(Opened(f), c) /\ Opened(f) \in Seq(1..n)
        BY <1>1, <3>1, HeldByActivation
      <3> HIDE DEF f, c, o, r, S, P
      <3>3. QED
        BY <1>5, <1>11, <3>1, <3>2, ApartOnStack
    <2>5. Full(H2, X) /\ OnlyChanged(H, H2, n, r, Parts(H)[r] \o gift)
      <3>1. ~InHeap(contexts, r) /\ c \in Pointer(n)
        BY <1>5, <1>7, <1>11 DEF Pointer
      <3>2. IF c = None THEN f.rec \notin Handled
            ELSE f.rec \in Handled /\ contexts[c].handler = f.rec
        BY <1>1, <1>6, <1>9
      <3> HIDE DEF f, P, r, w, gift, c
      <3>3. QED
        BY <1>0, <1>5, <1>8, <1>11, <2>1, <2>3, <2>4, <3>1, <3>2, GiveParts DEF h
    <2>6. /\ Parts(H2)[r] = Parts(H)[r] \o gift
          /\ \A e \in 1..n : e # r => Parts(H2)[e] = Parts(H)[e]
          /\ \A e \in 1..n : H2[e].handler = H[e].handler
      BY <2>5 DEF OnlyChanged
    <2>7. LeavesOthers(n, handlerStack[t], contexts, contexts')
      <3>1. Holds(handlerStack[t], r)
        BY <1>5, <1>11
      <3>2. QED
        BY <2>6, <3>1 DEF LeavesOthers, Serves, Stays
    <2>8. \A e \in 1..n : Holds(OpenedBy(P), e) /\ e # Last(OpenedBy(P)) =>
                             Stays(contexts, contexts', e)
      BY <1>5, <1>11, <2>6 DEF Stays
    <2>9. Gave(w, P, U, contexts', f)
      BY <1>5, <1>6, <1>11, <2>6 DEF Gave
    <2>10. QED
      BY <1>1, <1>2, <1>4, <1>11, <2>1, <2>5, <2>7, <2>8, <2>9, ReturnContent
  <1>12. QED
    BY <1>10, <1>11

(* The contexts that are not the one on top of what is below.              *)
OthersStay(n, H, H2, r) == \A e \in 1..n : e # r => Parts(H2)[e] = Parts(H)[e]
AllServe(n, H, H2) == \A e \in 1..n : H2[e].handler = H[e].handler

(* A return that gave to the element below.                                *)
LEMMA GivenContent ==
    ASSUME NEW n \in Nat, NEW N, NEW X, Known(n, N, X), Worlds(N, X), ThreadsInv',
           NEW t \in Thread, InPhase(t, "end"), Return(t), Within(t), root' = root,
           NEW P, P = Front(frames[t]), P # <<>>, NEW U, NEW own,
           Found(n, WorldOf(N, X, Call(t)), t, P, Top(t), U, own), Full(contexts', X),
           OthersStay(n, contexts, contexts', Base(P)), AllServe(n, contexts, contexts'),
           Gave(WorldOf(N, X, Call(t)), P, U, contexts', Top(t))
    PROVE  ContentInv(N, X)'
  <1> DEFINE r == Base(P)
  <1>1. r = Last(OpenedBy(P)) /\ Holds(handlerStack[t], r)
    BY DEF Found
  <1>2. \A e \in 1..n : /\ Serves(contexts, contexts', e)
                        /\ e # r => Stays(contexts, contexts', e)
    BY DEF OthersStay, AllServe, Serves, Stays
  <1> HIDE DEF r
  <1>3. LeavesOthers(n, handlerStack[t], contexts, contexts')
    BY <1>1, <1>2 DEF LeavesOthers
  <1>4. \A e \in 1..n : Holds(OpenedBy(P), e) /\ e # Last(OpenedBy(P)) =>
                           Stays(contexts, contexts', e)
    BY <1>1, <1>2
  <1>5. QED
    BY <1>3, <1>4, ReturnContent

(* What is found, and what a plain activation has gathered.                *)
LEMMA TextFound ==
    ASSUME NEW n \in Nat, NEW N, NEW X, Known(n, N, X), Worlds(N, X), NEW t \in Thread,
           InPhase(t, "end"), Top(t).context = None,
           NEW P, P = Front(frames[t]), NEW w, w = WorldOf(N, X, Call(t))
    PROVE  /\ Answers(w, Call(t).rule, P, Top(t)) /\ w.part = X
           /\ P # <<>> /\ Base(P) \in 1..n /\ ~InHeap(contexts, Base(P))
           /\ Back(handlerStack[t]) = Base(P)
           /\ contexts[Base(P)].handler \in Handled /\ Top(t).rec \notin Handled
           /\ \E U, own : Found(n, w, t, P, Top(t), U, own)
  <1> DEFINE f == Top(t)
             r == Base(P)
             o == OpenedBy(P)
  <1>0. TypedWith(n) /\ ThreadsInv
    BY DEF Known
  <1>1. Answers(w, Call(t).rule, P, f) /\ f.phase = "end"
    BY TopAnswer, TopWorld
  <1>2. PICK U, own : Found(n, w, t, P, f, U, own)
    BY TopWorld
  <1>3. /\ GoodFrame(f) /\ (P = <<>> => f.rec \in Handled)
        /\ P # <<>> => r = Last(o) /\ Holds(o, r) /\ r \in 1..n /\ ~InHeap(contexts, r)
    BY <1>2 DEF Found
  <1>4. P # <<>> /\ f.rec \notin Handled
    BY <1>1, <1>3 DEF GoodFrame
  <1>5. handlerStack[t] = o
    BY <1>0, AtTheEnd
  <1>6. o # <<>>
    BY <1>3, <1>4, LenProperties DEF Holds
  <1>7. Back(handlerStack[t]) = r
    BY <1>3, <1>4, <1>5, <1>6 DEF Back
  <1>8. contexts[r].handler \in Handled
    BY <1>0, <1>3, <1>4, AssignmentsTyped DEF TypedWith
  <1>9. w.part = X
    BY DEF WorldOf, World
  <1>10. QED
    BY <1>1, <1>2, <1>3, <1>4, <1>7, <1>8, <1>9

(* _endParse(), a value.                                                   *)
LEMMA EndTextContent ==
    ASSUME NEW n \in Nat, NEW N, NEW X, Known(n, N, X), Worlds(N, X), ThreadsInv',
           NEW t \in Thread, EndText(t)
    PROVE  ContentInv(N, X)'
  <1> DEFINE f == Top(t)
             P == Front(frames[t])
             r == Base(P)
             H == contexts
             H2 == contexts'
             w == WorldOf(N, X, Call(t))
             h == contexts[r].handler
  <1>0. TypedWith(n) /\ ThreadsInv /\ HoldersInv /\ Full(contexts, X)
    BY DEF Known, ContentInv
  <1>1. /\ InPhase(t, "end") /\ f.matched > 0 /\ f.context = None /\ Return(t) /\ root' = root
        /\ UNCHANGED <<status, script, parses, outcome>>
    BY DEF EndText, Matching
  <1>2. Within(t)
    BY <1>1 DEF Within, InPhase
  <1>3. /\ Answers(w, Call(t).rule, P, f) /\ w.part = X
        /\ P # <<>> /\ r \in 1..n /\ ~InHeap(contexts, r)
        /\ Back(handlerStack[t]) = r /\ h \in Handled /\ f.rec \notin Handled
    BY <1>1, TextFound
  <1>4. PICK U, own : Found(n, w, t, P, f, U, own)
    BY <1>1, TopWorld
  <1>5. f.phase = "end"
    BY <1>1 DEF InPhase
  <1>6. PICK x \in Seq(X) : own = After(P, U) \o x /\ InsideIn(w, h, f.rec, f.begin, x)
    <2> HIDE DEF w, f, P
    <2>1. OnTop(w, P, U, own, f)
      BY <1>1, <1>4, <1>5, MatchedInside
    <2>2. QED
      BY <1>1, <1>3, <2>1 DEF OnTop
  <1>7. Parts(H)[r] = own /\ own \in Seq(X) /\ After(P, U) \in Seq(X)
    <2>1. Own(f, r) = r
      BY <1>1 DEF Own
    <2> HIDE DEF w, f, P
    <2>2. QED
      BY <1>3, <1>4, <1>5, <2>1, MatchedInside
  <1>8. /\ f.begin \in Nat /\ f.matched \in Nat /\ f.rec \in Recognizer
        /\ GivesFor(w, h, f.rec, f.begin, f.matched)
    BY <1>1, <1>3 DEF Answers, Matched, NPos
  <1> DEFINE g == Itself(h, f.rec, f.begin, f.matched, x)
             y == w.gives[<<h, f.rec, f.begin>>]
  <1>9. y = x \o g /\ y \in Seq(X)
    BY <1>1, <1>3, <1>6, <1>8 DEF GivesFor
  <1>10. f.rec \notin Rule => g = <<>>
    <2>1. Collected[h] \subseteq Rule
      BY <1>3, GrammarAssumption
    <2>2. QED
      BY <2>1 DEF Itself
  <1>11. g = Itself(h, f.rec, f.begin, f.matched, Parts(H)[None])
    BY <1>3 DEF Itself
  <1>12. g \in Seq(X)
    <2>1. g = <<>> \/ g = <<Value(f.rec, f.begin, f.matched)>>
      BY <1>3 DEF Itself
    <2>2. CASE g = <<>>
      BY <2>2, EmptySeq
    <2>3. CASE g = <<Value(f.rec, f.begin, f.matched)>>
      <3> DEFINE v == Value(f.rec, f.begin, f.matched)
                 l == Len(x) + 1
      <3>1. y = Append(x, v)
        <4> HIDE DEF v
        <4>1. y = x \o <<v>> /\ x \in Seq(X)
          BY <1>9, <2>3 DEF v
        <4>2. QED
          BY <4>1
      <3>2. v \in X
        <4> HIDE DEF v, y
        <4>1. l \in 1..Len(y) /\ y[l] = v
          BY <1>9, <3>1, AppendProperties, LenProperties
        <4>2. QED
          BY <1>9, <4>1, ElementOfSeq
      <3>3. QED
        BY <2>3, <3>2
    <2>4. QED
      BY <2>1, <2>2, <2>3
  <1>13. Full(H2, X) /\ OnlyChanged(H, H2, n, r, Parts(H)[r] \o g)
    <2>1. CASE f.rec \in Rule
      <3>1. SetChild(r, f.rec, f.begin, f.matched, None) /\ None \in Pointer(n) /\ None # r
        BY <1>3, <2>1 DEF EndText, Pointer, None
      <3>2. IF None = None THEN f.rec \notin Handled
            ELSE f.rec \in Handled /\ contexts[None].handler = f.rec
        BY <1>3
      <3> HIDE DEF f, P, r, w, g
      <3>3. QED
        BY <1>0, <1>3, <1>8, <1>11, <1>12, <3>1, <3>2, GiveParts
    <2>2. CASE f.rec \notin Rule
      <3>1. H2 = H /\ g = <<>>
        BY <1>10, <2>2 DEF EndText
      <3>2. Parts(H)[r] \o <<>> = Parts(H)[r]
        BY <1>7, ConcatEmptySeq
      <3> HIDE DEF f, P, r, w, g, H, H2
      <3>3. Full(H2, X) /\ OnlyChanged(H, H2, n, r, Parts(H)[r])
        BY <1>0, <3>1 DEF OnlyChanged, H
      <3>4. QED
        BY <3>1, <3>2, <3>3
    <2>3. QED
      BY <2>1, <2>2
  <1>14. /\ Parts(H2)[r] = own \o g /\ OthersStay(n, contexts, contexts', r)
         /\ AllServe(n, contexts, contexts')
    BY <1>7, <1>13 DEF OnlyChanged, OthersStay, AllServe
  <1>15. Gave(w, P, U, contexts', f)
    <2>1. contexts'[r].handler = h
      BY <1>3, <1>14 DEF AllServe
    <2>2. own \o g = After(P, U) \o y
      <3> DEFINE b == After(P, U)
                 z == own \o g
      <3>1. b \in Seq(X) /\ x \in Seq(X) /\ g \in Seq(X) /\ own = b \o x /\ z = own \o g
        BY <1>6, <1>7, <1>12
      <3>a. y = x \o g
        BY <1>9
      <3> HIDE DEF b, g, y, z
      <3>2. z = b \o (x \o g)
        BY <3>1, ConcatThrice
      <3>3. QED
        BY <3>2, <3>a DEF z, b
    <2>3. QED
      BY <1>14, <2>1, <2>2 DEF Gave
  <1>16. QED
    BY <1>1, <1>2, <1>3, <1>4, <1>13, <1>14, <1>15, GivenContent

(* ... and when nothing matched, what was assigned since is undone.        *)
LEMMA UndoTextContent ==
    ASSUME NEW n \in Nat, NEW N, NEW X, Known(n, N, X), Worlds(N, X), ThreadsInv',
           NEW t \in Thread, UndoText(t)
    PROVE  ContentInv(N, X)'
  <1> DEFINE f == Top(t)
             P == Front(frames[t])
             r == Base(P)
             H == contexts
             H2 == contexts'
             w == WorldOf(N, X, Call(t))
             h == contexts[r].handler
  <1>0. TypedWith(n) /\ ThreadsInv /\ HoldersInv /\ Full(contexts, X)
    BY DEF Known, ContentInv
  <1>1. /\ InPhase(t, "end") /\ f.matched <= 0 /\ f.context = None /\ Return(t) /\ root' = root
        /\ UNCHANGED <<status, script, parses, outcome>>
        /\ contexts' = [contexts EXCEPT ![Back(handlerStack[t])].assignments = Take(@, f.mark)]
    BY DEF UndoText, Failing
  <1>2. Within(t)
    BY <1>1 DEF Within, InPhase
  <1>3. /\ Answers(w, Call(t).rule, P, f) /\ w.part = X
        /\ P # <<>> /\ r \in 1..n /\ ~InHeap(contexts, r)
        /\ Back(handlerStack[t]) = r /\ h \in Handled /\ f.rec \notin Handled
    BY <1>1, TextFound
  <1>4. PICK U, own : Found(n, w, t, P, f, U, own)
    BY <1>1, TopWorld
  <1>5. f.phase = "end" /\ Plain(f) /\ Own(f, r) = r /\ f \in Frame(n)
    BY <1>1, <1>4 DEF InPhase, Plain, Own, Found
  <1> DEFINE before == After(P, U)
  <1>6. PICK x \in Seq(X) : own = before \o x
    <2> HIDE DEF w, f, P
    <2>1. OnTop(w, P, U, own, f)
      BY <1>1, <1>4, <1>5, MatchedInside
    <2>2. QED
      BY <1>1, <1>3, <2>1 DEF OnTop
  <1>7. Parts(H)[r] = own /\ own \in Seq(X) /\ before \in Seq(X) /\ f.mark = Len(before)
    <2> HIDE DEF w, f, P
    <2>1. QED
      BY <1>3, <1>4, <1>5, MatchedInside
  <1>8. H2 = Undone(H, r, f.mark)
    BY <1>1, <1>3 DEF Undone
  <1>9. f.mark \in Nat /\ f.mark <= Len(H[r].assignments) /\ Take(own, f.mark) = before
    <2>1. Len(Parts(H)[r]) = Len(H[r].assignments)
      BY <1>0, <1>3, PartsAt DEF TypedWith
    <2> DEFINE m == f.mark
    <2>2. m = Len(before) /\ Len(own) = Len(H[r].assignments)
      BY <1>7, <2>1
    <2> HIDE DEF before, m, H, r
    <2>3. m \in Nat /\ m <= Len(own) /\ Take(own, m) = before
      <3>1. /\ Len(before) \in Nat /\ Len(x) \in Nat /\ Len(own) = Len(before) + Len(x)
            /\ \A i \in 1..Len(before) : own[i] = before[i]
        BY <1>6, <1>7, ConcatProperties, LenProperties
      <3>2. m \in Nat /\ m <= Len(own)
        BY <2>2, <3>1
      <3>3. Take(own, m) = SubSeq(own, 1, m)
        <4> DEFINE l == Len(own)
        <4>1. l \in Nat /\ m \in Nat /\ m <= l
          BY <2>2, <3>1, <3>2
        <4> HIDE DEF l
        <4>2. (IF m < l THEN m ELSE l) = m
          BY <4>1
        <4>3. QED
          BY <4>2 DEF Take, l
      <3>4. SubSeq(own, 1, m) = before
        <4> DEFINE v == SubSeq(own, 1, m)
        <4>1. \A i \in 1..m : own[i] \in X
          BY <1>7, <3>1, <3>2, ElementOfSeq
        <4>2. v \in Seq(X) /\ Len(v) = m /\ \A i \in 1..m : v[i] = own[i]
          BY <1>7, <3>2, <4>1, SubSeqProperties
        <4> HIDE DEF v
        <4>3. v = before
          BY <1>7, <2>2, <3>1, <4>2
        <4>4. QED
          BY <4>3 DEF v
      <3>5. QED
        BY <3>2, <3>3, <3>4
    <2>4. QED
      BY <2>2, <2>3 DEF m
  <1>10. Full(H2, X) /\ OnlyChanged(H, H2, n, r, before)
    <2> DEFINE m == f.mark
    <2>1. contexts \in HeapOf(n) /\ m \in Nat /\ m <= Len(contexts[r].assignments)
          /\ Take(Parts(contexts)[r], m) = before /\ H2 = Undone(contexts, r, m)
      BY <1>0, <1>7, <1>8, <1>9 DEF TypedWith
    <2> HIDE DEF m, r, before, H2
    <2>2. Full(H2, X) /\ OnlyChanged(contexts, H2, n, r, Take(Parts(contexts)[r], m))
      BY <1>0, <1>3, <2>1, TakeParts
    <2>3. QED
      BY <2>1, <2>2
  <1>11. /\ Parts(H2)[r] = before /\ OthersStay(n, contexts, contexts', r)
         /\ AllServe(n, contexts, contexts')
    BY <1>10 DEF OnlyChanged, OthersStay, AllServe
  <1>12. Gave(w, P, U, contexts', f)
    <2>1. contexts'[r].handler = h
      BY <1>3, <1>11 DEF AllServe
    <2>2. w.gives[<<h, f.rec, f.begin>>] = <<>>
      <3>1. GivesFor(w, h, f.rec, f.begin, f.matched)
        BY <1>3 DEF Answers
      <3>2. QED
        BY <1>1, <3>1 DEF GivesFor
    <2>3. before \o <<>> = before
      <3> HIDE DEF before
      <3> QED BY <1>7, ConcatEmptySeq
    <2>4. QED
      BY <1>11, <2>1, <2>2, <2>3 DEF Gave
  <1>13. QED
    BY <1>1, <1>2, <1>3, <1>4, <1>10, <1>11, <1>12, GivenContent

(* _endParse(), an element that matched nothing: it is recycled.           *)
LEMMA DropElementContent ==
    ASSUME NEW n \in Nat, NEW N, NEW X, Known(n, N, X), Worlds(N, X), ThreadsInv',
           NEW t \in Thread, DropElement(t)
    PROVE  ContentInv(N, X)'
  <1> DEFINE f == Top(t)
             P == Front(frames[t])
             r == Base(P)
             H == contexts
             H2 == contexts'
             w == WorldOf(N, X, Call(t))
             S == handlerStack[t]
             o == OpenedBy(P)
             c == f.context
  <1>0. TypedWith(n) /\ ThreadsInv /\ HoldersInv /\ Full(contexts, X)
    BY DEF Known, ContentInv
  <1>1. /\ InPhase(t, "end") /\ f.matched <= 0 /\ c # None /\ Return(t) /\ root' = root
        /\ UNCHANGED <<status, script, parses, outcome>> /\ H2 = Cleared(H, c)
    BY DEF DropElement, Failing
  <1>2. Within(t)
    BY <1>1 DEF Within, InPhase
  <1>3. InWorld(n, w, X, Call(t), f) /\ f.phase = "end" /\ Answers(w, Call(t).rule, P, f)
    BY <1>1, TopWorld, TopAnswer
  <1>4. PICK U, own : Found(n, w, t, P, f, U, own)
    BY <1>1, TopWorld
  <1>5. /\ P # <<>> => r = Last(o) /\ Holds(o, r) /\ r \in 1..n
        /\ \A x : Holds(S, x) => x \in 1..n /\ ~InHeap(H, x)
        /\ \A x : Holds(o, x) => x \in 1..n
        /\ NoRepetition(S) /\ o \in Seq(1..n) /\ root[t] = None
        /\ S = o \o Opened(f) /\ f \in Frame(n)
    BY <1>4 DEF Found
  <1>6. /\ w.part = X /\ After(P, U) \in Seq(X)
        /\ P # <<>> => Parts(H)[r] = After(P, U)
    <2>1. w.part = X
      BY DEF WorldOf, World
    <2> HIDE DEF w, f, P
    <2>2. QED
      BY <1>1, <1>3, <1>4, <2>1, MatchedInside
  <1>7. Holds(S, c) /\ \A x : Holds(o, x) => x # c
    <2>1. Holds(Opened(f), c) /\ Opened(f) \in Seq(1..n)
      BY <1>1, <1>5, HeldByActivation
    <2> HIDE DEF f, c, o, S
    <2>2. Holds(S, c)
      BY <1>5, <2>1, HeldByConcat
    <2>3. \A x : Holds(o, x) => x # c
      BY <1>5, <2>1, ApartOnStack
    <2>4. QED
      BY <2>2, <2>3
  <1>8. Full(H2, X) /\ OnlyChanged(H, H2, n, c, <<>>)
    <2>1. contexts \in HeapOf(n) /\ c \in 1..n /\ ~InHeap(contexts, c)
      BY <1>0, <1>5, <1>7 DEF TypedWith
    <2>2. H2 = Cleared(contexts, c)
      BY <1>1
    <2> HIDE DEF c, H2
    <2>3. QED
      BY <1>0, <2>1, <2>2, ClearParts
  <1>9. \A e \in 1..n : Serves(H, H2, e) /\ (e # c => Stays(H, H2, e))
    BY <1>8 DEF OnlyChanged, Serves, Stays
  <1>10. LeavesOthers(n, handlerStack[t], contexts, contexts')
    BY <1>7, <1>9 DEF LeavesOthers
  <1>11. ~(f.matched > 0)
    BY <1>1, <1>3 DEF Answers, Matched, NPos
  <1>12. CASE P = <<>>
    <2>1. RootHas(w, Call(t).rule, "parsing", <<>>, root'[t], f.matched, contexts')
      BY <1>1, <1>5, <1>11 DEF RootHas
    <2>2. QED
      BY <1>0, <1>1, <1>2, <1>8, <1>10, <1>12, <2>1, LastReturnContent DEF InPhase
  <1>13. CASE P # <<>>
    <2>1. Parts(H2)[r] = After(P, U) /\ H2[r].handler = H[r].handler /\ H[r].handler \in Handled
      <3>1. H[r].handler \in Handled
        BY <1>0, <1>5, <1>13, AssignmentsTyped DEF TypedWith
      <3>2. QED
        BY <1>5, <1>6, <1>7, <1>9, <1>13, <3>1 DEF Serves, Stays
    <2>2. w.gives[<<H[r].handler, f.rec, f.begin>>] = <<>>
      <3>1. GivesFor(w, H[r].handler, f.rec, f.begin, f.matched)
        BY <1>3, <2>1 DEF Answers
      <3>2. QED
        BY <1>1, <3>1 DEF GivesFor
    <2>3. After(P, U) \o <<>> = After(P, U)
      BY <1>6, ConcatEmptySeq
    <2>4. Gave(w, P, U, contexts', f)
      BY <2>1, <2>2, <2>3 DEF Gave
    <2>5. \A e \in 1..n : Holds(OpenedBy(P), e) /\ e # Last(OpenedBy(P)) =>
                             Stays(contexts, contexts', e)
      BY <1>7, <1>9
    <2>6. QED
      BY <1>1, <1>2, <1>4, <1>8, <1>10, <1>13, <2>4, <2>5, ReturnContent
  <1>14. QED
    BY <1>12, <1>13

(* A thread calls parseInput(): nothing is gathered yet.                   *)
LEMMA StartContent ==
    ASSUME NEW n \in Nat, NEW N, NEW X, Known(n, N, X), NEW t \in Thread, StartParse(t)
    PROVE  ContentInv(N, X)'
  <1> DEFINE i == parses[t] + 1
             call == script[t][i]
             a == Activation(call.rule, 0)
             w == WorldOf(N, X, call)
             none == <<>>
  <1>0. TypedWith(n) /\ ThreadsInv /\ HoldersInv /\ ContentInv(N, X) /\ Full(contexts, X)
    BY DEF Known, ContentInv
  <1>1. /\ status'[t] = "parsing" /\ parses'[t] = i /\ frames'[t] = <<a>>
        /\ parses[t] < Len(script[t]) /\ script' = script /\ parsed' = parsed
        /\ root' = root /\ contexts' = contexts /\ status[t] # "parsing"
        /\ \A u \in Thread : u # t => /\ status'[u] = status[u] /\ parses'[u] = parses[u]
                                      /\ frames'[u] = frames[u]
    BY <1>0 DEF StartParse, TypedWith, FramesOf, heapVars
  <1>2. call.rule \in Recognizer
    <2>1. script[t] \in Seq(Request) /\ parses[t] \in Nat
      BY <1>0 DEF TypedWith
    <2>2. i \in 1..Len(script[t])
      BY <1>1, <2>1, LenProperties
    <2>3. call \in Request
      BY <2>1, <2>2, ElementOfSeq
    <2>4. QED
      BY <2>3, GrammarAssumption DEF Request
  <1>3. /\ a \in Frame(n) /\ a.phase = "begin" /\ a.context = None /\ a.branch = None
        /\ a.bestBranch = None /\ a.mark = 0
    <2>1. a \in Frame(n)
      BY <1>2, ActivationTyped
    <2>2. QED
      BY <2>1 DEF Activation
  <1>4. OnlyOf(t)
    BY <1>1 DEF OnlyOf
  <1>5. root[t] = None
    BY <1>0, <1>1 DEF ContentInv, ThreadContent, RootHas
  <1>6. Call(t)' = call
    BY <1>1 DEF Call
  <1>7. none \in Seq(w.part) /\ none \in Seq(Seq(w.part)) /\ none \in Seq(Frame(n))
        /\ none \o none = none /\ Len(none) = 0 /\ DOMAIN none = {}
    BY EmptySeq, ConcatEmptySeq
  <1>a. none = <<>> /\ <<a>> = Append(none, a)
    OBVIOUS
  <1> HIDE DEF a, none, call
  <1>8. After(none, none) = none
    BY <1>7, <1>a DEF After, Before
  <1>9. BelowHas(w, none, none, contexts)
    BY <1>7 DEF BelowHas
  <1>10. AtTop(w, none, a, contexts, After(none, none), none)
    <2>1. \A h : Gathered(w, h, a, none, none)
      BY <1>3, <1>7, <1>a DEF Gathered, ByNow, Plain
    <2>2. Holding(w, a, Base(none), none # <<>>, contexts, none, none)
      BY <1>3, <1>a DEF Holding, Choosing
    <2>3. TopHas(w, a, Base(none), none # <<>>, contexts, none, none)
      BY <1>3, <1>a DEF TopHas
    <2>4. QED
      BY <1>8, <2>1, <2>2, <2>3 DEF AtTop, FrameHas
  <1>11. ThreadHas(w, Append(none, a), contexts)
    BY <1>3, <1>7, <1>9, <1>10, JoinHas
  <1>12. LeavesOthers(n, handlerStack[t], contexts, contexts')
    BY <1>1, SameHeap
  <1>13. frames'[t] # <<>>
    BY <1>1, <1>3, <1>7, <1>a, AppendEnds
  <1>14. ThreadContent(WorldOf(N, X, Call(t)'), Call(t)'.rule, status'[t], frames'[t],
                       root'[t], parsed'[t], contexts')
    BY <1>1, <1>5, <1>6, <1>11, <1>13, <1>a DEF ThreadContent, RootHas
  <1>15. QED
    BY <1>0, <1>1, <1>4, <1>12, <1>14, StepContent

(* ... and is given back what the root stands for.                         *)
LEMMA FinishContent ==
    ASSUME NEW n \in Nat, NEW N, NEW X, Known(n, N, X), NEW t \in Thread, FinishParse(t)
    PROVE  ContentInv(N, X)'
  <1>0. TypedWith(n) /\ ThreadsInv /\ HoldersInv /\ ContentInv(N, X) /\ Full(contexts, X)
    BY DEF Known, ContentInv
  <1>1. /\ status'[t] = "done" /\ root'[t] = None /\ contexts' = contexts
        /\ OnlyOf(t)
    BY <1>0 DEF FinishParse, TypedWith, OnlyOf, heapVars
  <1>2. LeavesOthers(n, handlerStack[t], contexts, contexts')
    BY <1>1, SameHeap
  <1>3. ThreadContent(WorldOf(N, X, Call(t)'), Call(t)'.rule, status'[t], frames'[t], root'[t],
                      parsed'[t], contexts')
    BY <1>1 DEF ThreadContent, RootHas
  <1>4. QED
    BY <1>0, <1>1, <1>2, <1>3, StepContent

(* There is no context at first.                                           *)
LEMMA InitContent ==
    ASSUME NEW N, NEW X, Init
    PROVE  ContentInv(N, X)
  <1>1. contexts \in HeapOf(0) /\ DOMAIN contexts = {}
    <2>1. contexts = <<>>
      BY DEF Init
    <2>2. QED
      BY <2>1 DEF HeapOf
  <1> DEFINE rank == [c \in {} |-> 0]
             G == [c \in {} |-> <<>>]
  <1>2. RankedBy(contexts, rank) /\ Solves(G, contexts)
    BY <1>1 DEF RankedBy, Solves
  <1>3. Parts(contexts) = G
    <2> HIDE DEF rank, G
    <2> QED BY <1>1, <1>2, PartsSolve
  <1>4. Full(contexts, X)
    <2>1. G \in [{} -> Seq(X)]
      OBVIOUS
    <2> HIDE DEF rank, G
    <2>2. QED
      BY <1>1, <1>2, <1>3, <2>1 DEF Full
  <1>5. ASSUME NEW t \in Thread PROVE status[t] = "idle" /\ root[t] = None
    BY DEF Init
  <1>6. QED
    BY <1>4, <1>5 DEF ContentInv, ThreadContent, RootHas

(* So every step keeps what the contexts stand for.                        *)
LEMMA NextContent ==
    ASSUME NEW N, NEW X, Worlds(N, X), IInv, AnswersInv, ContentInv(N, X), IInv', [Next]_vars
    PROVE  ContentInv(N, X)'
  <1>1. PICK n \in Nat : TypedWith(n)
    BY TypeOKIsTypedWith DEF IInv
  <1>2. Known(n, N, X) /\ ThreadsInv'
    BY <1>1 DEF Known, IInv
  <1>3. ASSUME NEW t \in Thread, StartParse(t) \/ Work(t) PROVE ContentInv(N, X)'
    <2>1. CASE StartParse(t)
      BY <1>2, <2>1, StartContent
    <2>2. CASE FinishParse(t)
      BY <1>2, <2>2, FinishContent
    <2>3. CASE BeginParse(t)
      <3>1. CASE BeginHandled(t)
        BY <1>2, <3>1, BeginHandledContent
      <3>2. CASE BeginPlain(t)
        BY <1>2, <3>2, BeginPlainContent
      <3>3. QED
        BY <2>3, <3>1, <3>2 DEF BeginParse
    <2>4. CASE PlainFeed(t)
      BY <1>2, <2>4, PlainFeedContent
    <2>5. CASE SelectorStep(t)
      <3>1. CASE SelectorBranch(t)
        BY <1>2, <3>1, BranchContent
      <3>2. CASE SelectorFed(t)
        BY <1>2, <3>2, ElectContent
      <3>3. CASE SelectorMerge(t)
        BY <1>2, <3>3, MergeContent
      <3>4. QED
        BY <2>5, <3>1, <3>2, <3>3 DEF SelectorStep
    <2>6. CASE EndParse(t)
      <3>1. CASE EndElement(t)
        BY <1>2, <3>1, EndElementContent
      <3>2. CASE DropElement(t)
        BY <1>2, <3>2, DropElementContent
      <3>3. CASE EndText(t)
        BY <1>2, <3>3, EndTextContent
      <3>4. CASE UndoText(t)
        BY <1>2, <3>4, UndoTextContent
      <3>5. QED
        BY <2>6, <3>1, <3>2, <3>3, <3>4 DEF EndParse
    <2>7. QED
      BY <1>3, <2>1, <2>2, <2>3, <2>4, <2>5, <2>6 DEF Work, Feed, PlainFeed, SelectorStep
  <1>4. CASE UNCHANGED vars
    <2>1. UNCHANGED <<status, script, parses, parsed, frames, root, contexts>>
      BY <1>4 DEF vars, parseVars, heapVars
    <2>2. \A t \in Thread : Call(t)' = Call(t)
      BY <2>1 DEF Call
    <2>3. QED
      BY <2>1, <2>2 DEF ContentInv
  <1>5. QED
    BY <1>3, <1>4 DEF Next, AllDone

----------------------------------------------------------------------------
(* What is given, as a world for the parses.                               *)
GiftOf(s) == [k \in Handled \X Recognizer \X Nat |->
               CHOOSE x \in Seq(Part) : <<k[1], k[2], k[3], x>> \in Gifts(s)]

GivenWorld(s) == World(s, Part, GiftOf(s))

(* It is what is given, where the recognizer has an answer.                *)
LEMMA GiftIs ==
    ASSUME NEW s, NEW h \in Handled, NEW r \in Recognizer, NEW p \in Nat, NEW n \in Matched,
           <<r, p, n>> \in Meant(s)
    PROVE  /\ GiftOf(s)[<<h, r, p>>] \in Seq(Part)
           /\ \A x \in Seq(Part) : <<h, r, p, x>> \in Gifts(s) <=> x = GiftOf(s)[<<h, r, p>>]
  <1>1. OneGift(Gifts(s), r, p)
    BY GivenOnce DEF Gifted
  <1>2. GiftOf(s)[<<h, r, p>>] = CHOOSE x \in Seq(Part) : <<h, r, p, x>> \in Gifts(s)
    BY DEF GiftOf
  <1>3. QED
    BY <1>1, <1>2 DEF OneGift

(* What such a world has.                                                  *)
LEMMA WorldFields ==
    ASSUME NEW s
    PROVE  /\ GivenWorld(s).text = s /\ GivenWorld(s).part = Part
           /\ GivenWorld(s).gives = GiftOf(s)
  BY DEF GivenWorld, World

(* What is inside a match in that world is what is inside it.              *)
LEMMA GathersCollects ==
    ASSUME NEW s, NEW h \in Handled, NEW r \in Recognizer, NEW p \in Nat, NEW k \in Nat,
           Shape[r].kind = "loop" \/ k <= Len(Shape[r].elements),
           NEW ends \in [0..k -> Nat], NEW x, Gathers(GivenWorld(s), h, r, p, k, ends, x)
    PROVE  Collects(Gifts(s), Meant(s), h, r, p, k, ends, x)
  <1> DEFINE w == GivenWorld(s)
  <1>1. w.text = s /\ w.part = Part /\ w.gives = GiftOf(s)
    BY WorldFields
  <1> HIDE DEF w
  <1>2. /\ Trail(Meant(s), r, p, k, ends)
        /\ \E got \in [0..k -> Seq(Part)] : Run(w, h, r, k, ends, got) /\ x = got[k]
    BY <1>1 DEF Gathers, w
  <1>3. PICK got \in [0..k -> Seq(Part)] : Run(w, h, r, k, ends, got) /\ x = got[k]
    BY <1>2
  <1>4. ASSUME NEW i \in 1..k
        PROVE  \E y \in Seq(Part) : <<h, ElementAt(r, i), ends[i - 1], y>> \in Gifts(s)
                                       /\ got[i] = got[i - 1] \o y
    <2> DEFINE e == ElementAt(r, i)
               y == GiftOf(s)[<<h, e, ends[i - 1]>>]
    <2>1. got[i] = got[i - 1] \o y
      BY <1>1, <1>3 DEF Run
    <2>2. e \in Recognizer
      BY ElementsTyped
    <2>3. /\ ends[i - 1] \in Nat /\ ends[i] \in Nat /\ ends[i - 1] <= ends[i]
          /\ <<e, ends[i - 1], ends[i] - ends[i - 1]>> \in Meant(s)
      BY <1>2 DEF Trail
    <2>4. ends[i] - ends[i - 1] \in Matched
      BY <2>3 DEF Matched
    <2> HIDE DEF e
    <2>5. y \in Seq(Part) /\ <<h, e, ends[i - 1], y>> \in Gifts(s)
      BY <2>2, <2>3, <2>4, GiftIs
    <2>6. QED
      BY <2>1, <2>5 DEF e
  <1>5. got[0] = <<>>
    BY <1>3 DEF Run
  <1>6. Gets(Gifts(s), h, r, k, ends, got)
    BY <1>4, <1>5 DEF Gets
  <1>7. QED
    BY <1>2, <1>3, <1>6 DEF Collects

(* ... for every kind of recognizer.                                       *)
LEMMA InsideInWorld ==
    ASSUME NEW s, NEW h \in Handled, NEW r \in Recognizer, NEW p \in Nat, NEW n \in Nat, n > 0,
           <<r, p, n>> \in Meant(s), NEW x \in Seq(Part),
           InsideIn(GivenWorld(s), h, r, p, x)
    PROVE  Inside(Gifts(s), s, h, r, p, x)
  <1> DEFINE w == GivenWorld(s)
             G == Gifts(s)
             M == Meant(s)
             es == Shape[r].elements
  <1>1. w.text = s /\ w.part = Part /\ w.gives = GiftOf(s)
    BY WorldFields
  <1>2. /\ Shape[r].kind \in Kind /\ Len(es) \in Nat /\ \A i \in 1..Len(es) : es[i] \in Recognizer
        /\ Shape[r].kind = "delegate" => es[1] \in Recognizer
    BY ElementsTyped
  <1>3. n \in Matched /\ Nat \subseteq Matched
    BY DEF Matched
  <1>4. ASSUME NEW e \in Recognizer, NEW m \in Matched, <<e, p, m>> \in M,
               x = GiftOf(s)[<<h, e, p>>]
        PROVE  <<h, e, p, x>> \in G
    BY <1>4, GiftIs
  <1>a. InsideIn(w, h, r, p, x)
    OBVIOUS
  <1> HIDE DEF w
  <1>5. CASE Shape[r].kind = "text"
    BY <1>5 DEF Inside, InsideIn
  <1>6. CASE Shape[r].kind = "delegate"
    <2>1. Follows(M, s, r, p, n)
      BY <1>3, MeantFollows
    <2>2. <<es[1], p, n>> \in M
      BY <1>6, <2>1 DEF Follows
    <2>3. x = GiftOf(s)[<<h, es[1], p>>]
      BY <1>1, <1>6 DEF InsideIn, w
    <2>4. <<h, es[1], p, x>> \in G
      BY <1>2, <1>3, <1>4, <1>6, <2>2, <2>3
    <2>5. QED
      BY <1>6, <2>4 DEF Inside
  <1>7. CASE Shape[r].kind = "sequence"
    <2>1. PICK ends \in [0..Len(es) -> Nat] : Gathers(w, h, r, p, Len(es), ends, x)
      BY <1>7 DEF InsideIn, w
    <2>2. Len(es) <= Len(Shape[r].elements)
      BY <1>2
    <2>3. Collects(G, M, h, r, p, Len(es), ends, x)
      BY <1>2, <2>1, <2>2, GathersCollects DEF w
    <2>4. QED
      BY <1>7, <2>3 DEF Inside
  <1>8. CASE Shape[r].kind = "loop"
    <2>1. \E k \in Nat : \E ends \in [0..k -> Nat] :
             /\ Gathers(w, h, r, p, k, ends, x)
             /\ Repeating(s, r, k, ends)
             /\ \/ ~LoopGoesOn(r, k, s, ends[k])
                \/ <<ElementAt(r, k + 1), ends[k], NPos>> \in M
      BY <1>1, <1>8, <1>a DEF InsideIn
    <2>0. \E k \in Nat : \E ends \in [0..k -> Nat] :
             Gathers(w, h, r, p, k, ends, x) /\ Stops(M, s, r, k, ends)
      BY <2>1 DEF Stops, Repeating
    <2>2. PICK k \in Nat : \E ends \in [0..k -> Nat] :
             Gathers(w, h, r, p, k, ends, x) /\ Stops(M, s, r, k, ends)
      BY <2>0
    <2>3. PICK ends \in [0..k -> Nat] :
             Gathers(w, h, r, p, k, ends, x) /\ Stops(M, s, r, k, ends)
      BY <2>2
    <2>4. Collects(G, M, h, r, p, k, ends, x)
      BY <1>8, <2>3, GathersCollects DEF w
    <2>5. QED
      BY <1>8, <2>3, <2>4 DEF Inside, Stops
  <1>9. CASE Shape[r].kind = "exclusive"
    <2>1. PICK i \in 1..Len(es) : \E m \in Nat :
             /\ m > 0 /\ Refused(M, r, p, i - 1) /\ <<es[i], p, m>> \in M
             /\ x = GiftOf(s)[<<h, es[i], p>>]
      BY <1>1, <1>9 DEF InsideIn, w
    <2>2. IsFirst(M, r, p, i)
      BY <2>1 DEF IsFirst
    <2>3. <<h, es[i], p, x>> \in G
      BY <1>2, <1>3, <1>4, <2>1
    <2>4. QED
      BY <1>9, <2>2, <2>3 DEF Inside
  <1>10. CASE Shape[r].kind = "selector"
    <2>1. PICK i \in 1..Len(es) : \E m \in Nat :
             FirstLongest(M, r, p, Len(es), i, m) /\ x = GiftOf(s)[<<h, es[i], p>>]
      BY <1>1, <1>10 DEF InsideIn, w
    <2>2. PICK m \in Nat : FirstLongest(M, r, p, Len(es), i, m) /\ x = GiftOf(s)[<<h, es[i], p>>]
      BY <2>1
    <2>3. IsLongest(M, r, p, i) /\ <<es[i], p, m>> \in M
      BY <2>2 DEF IsLongest, FirstLongest
    <2>4. <<h, es[i], p, x>> \in G
      BY <1>2, <1>3, <1>4, <2>2, <2>3
    <2>5. QED
      BY <1>10, <2>3, <2>4 DEF Inside
  <1>11. QED
    BY <1>2, <1>5, <1>6, <1>7, <1>8, <1>9, <1>10 DEF Kind

(* So it is a world: what is given in it follows from what is inside.      *)
LEMMA GivenGathers ==
    ASSUME NEW s
    PROVE  Gathering(GivenWorld(s))
  <1> DEFINE w == GivenWorld(s)
  <1>1. w.text = s /\ w.part = Part /\ w.gives = GiftOf(s)
    BY WorldFields
  <1> HIDE DEF w
  <1> SUFFICES ASSUME NEW h \in Handled, NEW r \in Recognizer, NEW p \in Nat,
                      NEW n \in Matched, <<r, p, n>> \in Meant(s)
               PROVE  GivesFor(w, h, r, p, n)
    BY <1>1 DEF Gathering, w
  <1> DEFINE g == GiftOf(s)[<<h, r, p>>]
  <1>3. g \in Seq(Part) /\ \A x \in Seq(Part) : <<h, r, p, x>> \in Gifts(s) <=> x = g
    BY GiftIs
  <1>4. ASSUME NEW x \in Seq(Part), Gives(Gifts(s), s, h, r, p, x) PROVE x = g
    BY <1>3, <1>4, GivenCompletes DEF Complete
  <1>5. ASSUME n <= 0 PROVE g = <<>>
    <2> DEFINE none == <<>>
    <2>1. none \in Seq(Part) /\ ~(n > 0)
      BY <1>5, EmptySeq DEF Matched, NPos
    <2>2. Gives(Gifts(s), s, h, r, p, none)
      BY <2>1 DEF Gives
    <2> HIDE DEF none, g
    <2>3. g = none
      BY <1>4, <2>1, <2>2
    <2>4. QED
      BY <2>3 DEF none
  <1>6. ASSUME n > 0, NEW x \in Seq(Part)
        PROVE  IF r \in Handled
               THEN InsideIn(w, r, r, p, x) => g = Itself(h, r, p, n, x)
               ELSE InsideIn(w, h, r, p, x) => g = x \o Itself(h, r, p, n, x)
    <2>1. n \in Nat /\ ~(n <= 0)
      BY <1>6 DEF Matched, NPos
    <2>2. \A d \in Handled : InsideIn(w, d, r, p, x) => Inside(Gifts(s), s, d, r, p, x)
      BY <1>6, <2>1, InsideInWorld DEF w
    <2> DEFINE own == Itself(h, r, p, n, x)
    <2>3. own \in Seq(Part) /\ x \o own \in Seq(Part)
      BY <2>1, ItselfTyped, ConcatProperties
    <2>4. CASE r \in Handled
      <3>1. ASSUME InsideIn(w, r, r, p, x) PROVE Gives(Gifts(s), s, h, r, p, own)
        <4>1. Inside(Gifts(s), s, r, r, p, x)
          BY <2>2, <2>4, <3>1
        <4>2. QED
          BY <2>1, <2>4, <4>1 DEF Gives
      <3> HIDE DEF own, g
      <3>2. QED
        BY <1>4, <2>3, <2>4, <3>1 DEF own
    <2>5. CASE r \notin Handled
      <3>1. ASSUME InsideIn(w, h, r, p, x) PROVE Gives(Gifts(s), s, h, r, p, x \o own)
        <4>1. Inside(Gifts(s), s, h, r, p, x)
          BY <2>2, <3>1
        <4>2. QED
          BY <2>1, <2>5, <4>1 DEF Gives
      <3> HIDE DEF own, g
      <3>2. QED
        BY <1>4, <2>3, <2>5, <3>1 DEF own
    <2>6. QED
      BY <2>4, <2>5
  <1>7. QED
    BY <1>1, <1>3, <1>5, <1>6 DEF GivesFor

----------------------------------------------------------------------------
(* In every text, what is given is a world that the parses can be in.      *)
GiftsOf == [s \in Seq(Char) |-> GiftOf(s)]

(* They are.                                                               *)
LEMMA GiftsAreWorlds == Worlds(GiftsOf, Part)
  <1> SUFFICES ASSUME NEW s \in Seq(Char) PROVE Gathering(World(s, Part, GiftsOf[s]))
    BY DEF Worlds
  <1>1. GiftsOf[s] = GiftOf(s)
    BY DEF GiftsOf
  <1>2. QED
    BY <1>1, GivenGathers DEF GivenWorld

(* What the root stands for when a parse ends is what is inside the match. *)
Kept(t) ==
    parsed[t] > 0 =>
       /\ root[t] # None /\ contexts[root[t]].handler = Call(t).rule
       /\ Parts(contexts)[root[t]] \in Seq(Part)
       /\ Inside(Gifts(Call(t).input), Call(t).input, Call(t).rule, Call(t).rule, 0,
                 Parts(contexts)[root[t]])

(* ... whenever one ends.                                                  *)
LEMMA RootIsInside ==
    ASSUME IInv, AnswersInv, ContentInv(GiftsOf, Part), NEW t \in Thread,
           status[t] = "parsing", frames[t] = <<>>
    PROVE  /\ Call(t) \in Request /\ parsed[t] \in Matched /\ Judged(Call(t), parsed[t])
           /\ Kept(t)
           /\ parsed[t] <= 0 => root[t] = None
  <1> DEFINE call == Call(t)
             w == WorldOf(GiftsOf, Part, call)
             c == root[t]
  <1>1. PICK n \in Nat : TypedWith(n)
    BY TypeOKIsTypedWith DEF IInv
  <1>2. parses[t] \in 1..Len(script[t]) /\ Judged(call, parsed[t])
    BY DEF AnswersInv, AnswersOf
  <1>3. call \in Request
    <2>1. script[t] \in Seq(Request)
      BY <1>1 DEF TypedWith
    <2>2. QED
      BY <1>2, <2>1, ElementOfSeq DEF Call
  <1>4. parsed[t] \in Matched /\ c \in 0..n
    BY <1>1 DEF TypedWith, Pointer
  <1>5. w = GivenWorld(call.input)
    <2>1. call.input \in Seq(Char)
      BY <1>3 DEF Request
    <2>2. QED
      BY <2>1 DEF WorldOf, GivenWorld, GiftsOf
  <1>6. RootHas(w, call.rule, "parsing", <<>>, c, parsed[t], contexts)
    BY DEF ContentInv, ThreadContent
  <1>7. ASSUME parsed[t] > 0 PROVE Kept(t)
    <2>1. c # None /\ contexts[c].handler = call.rule
          /\ InsideIn(w, call.rule, call.rule, 0, Parts(contexts)[c])
      BY <1>6, <1>7 DEF RootHas
    <2>2. Parts(contexts)[c] \in Seq(Part)
      <3>1. Parts(contexts) \in [DOMAIN contexts -> Seq(Part)]
        BY DEF ContentInv, Full
      <3>2. c \in DOMAIN contexts
        BY <1>1, <1>4, <2>1 DEF None, TypedWith, HeapOf
      <3>3. QED
        BY <3>1, <3>2
    <2>3. parsed[t] \in Nat
      BY <1>4, <1>7 DEF Matched, NPos
    <2>4. call.rule \in Handled /\ call.rule \in Recognizer
      BY <1>3, GrammarAssumption DEF Request
    <2>5. <<call.rule, 0, parsed[t]>> \in Meant(call.input)
      BY <1>2 DEF Judged
    <2> HIDE DEF call, w, c
    <2>6. Inside(Gifts(call.input), call.input, call.rule, call.rule, 0, Parts(contexts)[c])
      BY <1>5, <1>7, <2>1, <2>2, <2>3, <2>4, <2>5, InsideInWorld
    <2>7. QED
      BY <2>1, <2>2, <2>6 DEF Kept, call, c
  <1>8. ASSUME parsed[t] <= 0 PROVE c = None
    <2>1. ~(parsed[t] > 0)
      BY <1>4, <1>8 DEF Matched, NPos
    <2>2. QED
      BY <1>6, <2>1 DEF RootHas
  <1>9. Kept(t)
    BY <1>7 DEF Kept
  <1>10. QED
    BY <1>2, <1>3, <1>4, <1>8, <1>9

(* A right answer, when there is an object ...                             *)
LEMMA RightObject ==
    ASSUME NEW req, NEW a \in Result, <<req.rule, 0, a.size>> \in Meant(req.input),
           ~(a.size <= 0), ~(req.full /\ a.size # Len(req.input)), NEW x \in Seq(Part),
           Inside(Gifts(req.input), req.input, req.rule, req.rule, 0, x),
           a.object = <<Object(req.rule, 0, a.size, x)>>
    PROVE  a \in RightAnswers(req)
  BY DEF RightAnswers

(* ... or when nothing is given back.                                      *)
LEMMA RightNothing ==
    ASSUME NEW req, NEW a \in Result, <<req.rule, 0, a.size>> \in Meant(req.input),
           a.size <= 0 \/ (req.full /\ a.size # Len(req.input)), a.object = <<>>
    PROVE  a \in RightAnswers(req)
  BY DEF RightAnswers

(* So what parseInput() gives back is a right answer to its call.          *)
LEMMA ResultIsRight ==
    ASSUME IInv, AnswersInv, ContentInv(GiftsOf, Part), NEW t \in Thread,
           status[t] = "parsing", frames[t] = <<>>
    PROVE  ParseResult(t) \in RightAnswers(Call(t))
  <1> DEFINE call == Call(t)
             n == parsed[t]
             a == ParseResult(t)
             x == Parts(contexts)[root[t]]
             o == Object(call.rule, 0, n, x)
             none == <<>>
             all == ~(call.full /\ n # Len(call.input))
  <1>1. /\ call \in Request /\ n \in Matched /\ Judged(call, n)
        /\ n <= 0 => root[t] = None
        /\ Kept(t)
    BY RootIsInside
  <1>2. a.size = n /\ a = [size |-> a.size, object |-> a.object]
    BY DEF ParseResult
  <1>3. CASE n > 0 /\ all
    <2>1. n \in Nat /\ ~(n <= 0)
      BY <1>1, <1>3 DEF Matched, NPos
    <2>2. /\ root[t] # None /\ contexts[root[t]].handler = call.rule /\ x \in Seq(Part)
          /\ Inside(Gifts(call.input), call.input, call.rule, call.rule, 0, x)
      BY <1>1, <1>3 DEF Kept
    <2>3. a.object = <<o>>
      BY <1>3, <2>2 DEF ParseResult, Realize
    <2>4. call.rule \in Recognizer
      BY <1>1, GrammarAssumption DEF Request
    <2>5. o \in Part
      BY <2>1, <2>2, <2>4, PartsClosed
    <2>6. <<o>> \in Seq(Part)
      <3> HIDE DEF o
      <3> QED BY <2>5
    <2>7. a \in Result
      <3> HIDE DEF a, o
      <3> QED BY <1>1, <1>2, <2>3, <2>6 DEF Result
    <2>8. /\ <<call.rule, 0, a.size>> \in Meant(call.input) /\ ~(a.size <= 0)
          /\ ~(call.full /\ a.size # Len(call.input))
          /\ a.object = <<Object(call.rule, 0, a.size, x)>>
      BY <1>1, <1>2, <1>3, <2>1, <2>3 DEF Judged
    <2> HIDE DEF a, call, x
    <2>9. a \in RightAnswers(call)
      BY <2>2, <2>7, <2>8, RightObject
    <2>10. QED
      BY <2>9 DEF a, call
  <1>4. CASE ~(n > 0 /\ all)
    <2>1. n <= 0 \/ ~all
      BY <1>1, <1>4 DEF Matched, NPos
    <2>2. a.object = none
      BY <1>1, <2>1 DEF ParseResult, Realize
    <2>3. none \in Seq(Part)
      BY EmptySeq
    <2>4. a \in Result
      <3> HIDE DEF a, none
      <3> QED BY <1>1, <1>2, <2>2, <2>3 DEF Result
    <2>5. /\ <<call.rule, 0, a.size>> \in Meant(call.input)
          /\ a.size <= 0 \/ (call.full /\ a.size # Len(call.input))
      BY <1>1, <1>2, <2>1 DEF Judged
    <2> HIDE DEF a, call
    <2>6. a \in RightAnswers(call)
      BY <2>2, <2>4, <2>5, RightNothing
    <2>7. QED
      BY <2>6 DEF a, call
  <1>5. QED
    BY <1>3, <1>4

(* A step of a thread inside parseInput() is none of what it promises.     *)
LEMMA InnerStutters ==
    ASSUME IInv, IInv', NEW t \in Thread, Work(t), ~FinishParse(t)
    PROVE  UNCHANGED <<status, script, parses, outcome>>
  <1>1. TypeOK /\ TypeOK' /\ ThreadsInv'
    BY DEF IInv
  <1>2. /\ status[t] = "parsing" /\ UNCHANGED <<script, parses, outcome>>
        /\ status' = status \/ \E ok : FatalUnless(t, ok)
    <2>1. CASE BeginHandled(t)
      BY <2>1 DEF BeginHandled, InPhase, parseVars
    <2>2. CASE BeginPlain(t)
      BY <2>2 DEF BeginPlain, InPhase
    <2>3. CASE EndParse(t)
      BY <2>3 DEF EndParse, EndElement, DropElement, EndText, UndoText, Matching, Failing, InPhase
    <2>4. CASE PlainFeed(t)
      BY <2>4 DEF PlainFeed, FeedText, FeedDelegate, DelegateFed, FeedSequence, SequenceFed,
                  FeedExclusive, ExclusiveFed, FeedLoop, LoopFed, Running, InPhase, parseVars
    <2>5. CASE SelectorBranch(t)
      BY <2>5 DEF SelectorBranch, Running, InPhase
    <2>6. CASE SelectorFed(t)
      BY <2>6 DEF SelectorFed, Running, InPhase
    <2>7. CASE SelectorMerge(t)
      BY <2>7 DEF SelectorMerge, Running, InPhase
    <2>8. QED
      BY <2>1, <2>2, <2>3, <2>4, <2>5, <2>6, <2>7 DEF Work, BeginParse, Feed, PlainFeed
  <1>3. Within(t)
    BY <1>1, <1>2, WithinWhen
  <1>4. status'[t] = "parsing"
    <2>1. GoodThread(status'[t], frames'[t], handlerStack'[t])
      BY <1>1 DEF ThreadsInv
    <2>2. QED
      BY <1>3, <2>1 DEF Within, GoodThread
  <1>5. \A u \in Thread : status'[u] = status[u]
    BY <1>2, <1>3, <1>4 DEF Within
  <1>6. status' = status
    BY <1>1, <1>5 DEF TypeOK
  <1>7. QED
    BY <1>2, <1>6

(* parseInput() as one step that gives a right answer.                     *)
Promise == INSTANCE Recognition WITH Outcomes <- RightAnswers

(* Before any call, nothing is promised ...                                *)
LEMMA InitPromised == Init => Promise!Init
  BY DEF Init, Promise!Init, NoOutcome, Promise!NoOutcome, NPos, Promise!NPos

(* ... and each step is one that was, or none.                             *)
LEMMA StepPromised ==
    ASSUME IInv, IInv', AnswersInv, ContentInv(GiftsOf, Part), [Next]_vars
    PROVE  [Promise!Next]_(Promise!vars)
  <1>1. ASSUME NEW t \in Thread, StartParse(t) PROVE Promise!Call(t)
    BY <1>1 DEF StartParse, Promise!Call
  <1>2. ASSUME NEW t \in Thread, FinishParse(t) PROVE Promise!Answer(t)
    <2>1. /\ status[t] = "parsing" /\ frames[t] = <<>>
          /\ status' = [status EXCEPT ![t] = "done"]
          /\ outcome' = [outcome EXCEPT ![t] = ParseResult(t)]
          /\ UNCHANGED <<parses, script>>
      BY <1>2 DEF FinishParse
    <2>2. ParseResult(t) \in RightAnswers(script[t][parses[t]])
      BY <2>1, ResultIsRight DEF Call
    <2>3. QED
      BY <2>1, <2>2 DEF Promise!Answer
  <1>3. ASSUME NEW t \in Thread, Work(t), ~FinishParse(t) PROVE UNCHANGED Promise!vars
    BY <1>3, InnerStutters DEF Promise!vars
  <1>4. CASE AllDone
    BY <1>4 DEF AllDone, vars, parseVars, Promise!AllDone, Promise!Next, Promise!vars
  <1>5. CASE UNCHANGED vars
    BY <1>5 DEF vars, parseVars, Promise!vars
  <1>6. QED
    BY <1>1, <1>2, <1>3, <1>4, <1>5 DEF Next, Promise!Next

(* The inductive invariant.                                                *)
PromiseInv == IInv /\ AnswersInv /\ ContentInv(GiftsOf, Part)

(* It holds, in the world of what is to be given.                          *)
LEMMA PromiseInvHolds == Spec => []PromiseInv
  <1>1. Init => ContentInv(GiftsOf, Part)
    BY InitContent
  <1>2. IInv /\ AnswersInv /\ ContentInv(GiftsOf, Part) /\ IInv' /\ [Next]_vars
           => ContentInv(GiftsOf, Part)'
    BY GiftsAreWorlds, NextContent
  <1>3. Spec => [](IInv /\ AnswersInv)
    BY IInvHolds, AnswersInvHolds, PTL
  <1>4. QED
    BY <1>1, <1>2, <1>3, PTL DEF Spec, PromiseInv

(* The parser does what it promises: whatever contexts are opened, tried,  *)
(* given back and used again on the way, by however many threads, each     *)
(* call of parseInput() gives a right answer to it.                        *)
THEOREM ParserKeepsPromise == Spec => Promise!Spec
  <1>1. PromiseInv /\ IInv' /\ [Next]_vars => [Promise!Next]_(Promise!vars)
    BY StepPromised DEF PromiseInv
  <1>2. PromiseInv /\ [Next]_vars => IInv'
    BY NextHolds DEF PromiseInv
  <1>3. QED
    BY <1>1, <1>2, InitPromised, PromiseInvHolds, PTL DEF Spec, Promise!Spec

(* A call has one right answer at most.                                    *)
LEMMA OneRightAnswer ==
    ASSUME NEW req \in Request, NEW a \in RightAnswers(req), NEW b \in RightAnswers(req)
    PROVE  a = b
  <1>1. req.rule \in Recognizer /\ req.rule \in Handled
    BY GrammarAssumption DEF Request
  <1>2. a \in Result /\ b \in Result /\ a.size \in Matched
        /\ <<req.rule, 0, a.size>> \in Meant(req.input)
        /\ <<req.rule, 0, b.size>> \in Meant(req.input)
    BY DEF RightAnswers, Result
  <1>3. a.size = b.size
    <2>1. b.size \in Matched
      BY <1>2 DEF Result
    <2>2. QED
      BY <1>1, <1>2, <2>1, MeantOnce
  <1>4. a.object = b.object
    <2>1. CASE a.size <= 0 \/ (req.full /\ a.size # Len(req.input))
      BY <1>3, <2>1 DEF RightAnswers
    <2>2. CASE ~(a.size <= 0 \/ (req.full /\ a.size # Len(req.input)))
      <3>1. PICK x \in Seq(Part) :
               /\ Inside(Gifts(req.input), req.input, req.rule, req.rule, 0, x)
               /\ a.object = <<Object(req.rule, 0, a.size, x)>>
        BY <2>2 DEF RightAnswers
      <3>2. PICK y \in Seq(Part) :
               /\ Inside(Gifts(req.input), req.input, req.rule, req.rule, 0, y)
               /\ b.object = <<Object(req.rule, 0, b.size, y)>>
        BY <1>3, <2>2 DEF RightAnswers
      <3>3. a.size \in Nat /\ a.size > 0
        BY <1>2, <2>2 DEF Matched, NPos
      <3>4. OneInside(Gifts(req.input), req.input, req.rule, req.rule, 0)
        BY <1>1, <1>2, <3>3, MeantInsideOnce
      <3>5. x = y
        BY <3>1, <3>2, <3>4 DEF OneInside
      <3>6. QED
        BY <1>3, <3>1, <3>2, <3>5
    <2>3. QED
      BY <2>1, <2>2
  <1>5. QED
    BY <1>2, <1>3, <1>4 DEF Result

(* What a thread was given back is a right answer to its call.             *)
ResultsAreRight == \A t \in Thread : status[t] = "done" => outcome[t] \in RightAnswers(Call(t))

OutcomeOf == outcome = [t \in Thread |-> outcome[t]]

(* Only the end of a parse changes what was given back.                    *)
LEMMA NextRight ==
    ASSUME PromiseInv, IInv', ResultsAreRight, OutcomeOf, [Next]_vars
    PROVE  (ResultsAreRight /\ OutcomeOf)'
  <1>0. status = [t \in Thread |-> status[t]] /\ parses = [t \in Thread |-> parses[t]]
    BY DEF PromiseInv, IInv, TypeOK
  <1>1. ASSUME NEW t \in Thread, StartParse(t) PROVE (ResultsAreRight /\ OutcomeOf)'
    <2>1. /\ status'[t] = "parsing" /\ script' = script /\ outcome' = outcome
          /\ \A u \in Thread : u # t => status'[u] = status[u] /\ parses'[u] = parses[u]
      BY <1>0, <1>1 DEF StartParse
    <2>2. QED
      BY <2>1 DEF ResultsAreRight, OutcomeOf, Call
  <1>2. ASSUME NEW t \in Thread, FinishParse(t) PROVE (ResultsAreRight /\ OutcomeOf)'
    <2>1. /\ status[t] = "parsing" /\ frames[t] = <<>>
          /\ script' = script /\ parses' = parses
          /\ outcome' = [outcome EXCEPT ![t] = ParseResult(t)]
          /\ \A u \in Thread : u # t => status'[u] = status[u]
      BY <1>0, <1>2 DEF FinishParse
    <2>2. ParseResult(t) \in RightAnswers(Call(t))
      BY <2>1, ResultIsRight DEF PromiseInv
    <2>3. /\ outcome'[t] = ParseResult(t)
          /\ \A u \in Thread : u # t => outcome'[u] = outcome[u]
          /\ OutcomeOf'
      BY <2>1 DEF OutcomeOf
    <2>4. QED
      BY <2>1, <2>2, <2>3 DEF ResultsAreRight, Call
  <1>3. ASSUME NEW t \in Thread, Work(t), ~FinishParse(t)
        PROVE  (ResultsAreRight /\ OutcomeOf)'
    BY <1>3, InnerStutters DEF PromiseInv, ResultsAreRight, OutcomeOf, Call
  <1>4. CASE AllDone
    BY <1>4 DEF AllDone, vars, parseVars, ResultsAreRight, OutcomeOf, Call
  <1>5. CASE UNCHANGED vars
    BY <1>5 DEF vars, parseVars, ResultsAreRight, OutcomeOf, Call
  <1>6. QED
    BY <1>1, <1>2, <1>3, <1>4, <1>5 DEF Next

(* So it is always a right answer.                                         *)
LEMMA RightHolds == Spec => [](PromiseInv /\ ResultsAreRight)
  <1>1. Init => ResultsAreRight /\ OutcomeOf
    BY DEF Init, ResultsAreRight, OutcomeOf
  <1>2. PromiseInv /\ IInv' /\ ResultsAreRight /\ OutcomeOf /\ [Next]_vars
           => (ResultsAreRight /\ OutcomeOf)'
    BY NextRight
  <1>3. PromiseInv /\ [Next]_vars => IInv'
    BY NextHolds DEF PromiseInv
  <1>4. QED
    BY <1>1, <1>2, <1>3, PromiseInvHolds, PTL DEF Spec

(* The whole answer of parseInput(), with the tree of its objects, depends *)
(* on the call alone: not on the thread, on what it or others parsed       *)
(* before, or on what they parse meanwhile with the same contexts.         *)
SameCallSameAnswer ==
    \A t, u \in Thread :
       status[t] = "done" /\ status[u] = "done" /\ Call(t) = Call(u) => outcome[t] = outcome[u]

THEOREM AnswersDependOnCalls == Spec => []SameCallSameAnswer
  <1>1. PromiseInv /\ ResultsAreRight => SameCallSameAnswer
    <2> SUFFICES ASSUME PromiseInv, ResultsAreRight, NEW t \in Thread, NEW u \in Thread,
                        status[t] = "done", status[u] = "done", Call(t) = Call(u)
                 PROVE  outcome[t] = outcome[u]
      BY DEF SameCallSameAnswer
    <2>1. outcome[t] \in RightAnswers(Call(t)) /\ outcome[u] \in RightAnswers(Call(t))
      BY DEF ResultsAreRight
    <2>2. Call(t) \in Request
      <3>1. script[t] \in Seq(Request)
        BY DEF PromiseInv, IInv, TypeOK
      <3>2. parses[t] \in 1..Len(script[t])
        BY DEF PromiseInv, AnswersInv
      <3>3. QED
        BY <3>1, <3>2, ElementOfSeq DEF Call
    <2>3. QED
      BY <2>1, <2>2, OneRightAnswer
  <1>2. QED
    BY <1>1, RightHolds, PTL

----------------------------------------------------------------------------
(* Parts of the places b to e of a text, in the order in which collectors  *)
(* get them: each has some characters and comes after the earlier ones,    *)
(* or holds them, if it is the characters of a rule that has no handler.   *)
Values == {Value(r, p, n) : r \in Recognizer, p \in Nat, n \in Nat}
End(x) == x.begin + x.count

Succeeds(x, y) ==
    \/ End(x) <= y.begin
    \/ y \in Values /\ y.begin <= x.begin /\ End(x) <= End(y)

Laid(x, b, e) ==
    /\ \A i \in 1..Len(x) : x[i].count > 0 /\ b <= x[i].begin /\ End(x[i]) <= e
    /\ \A i \in 1..Len(x), j \in 1..Len(x) : i < j => Succeeds(x[i], x[j])

(* The parts that are so inside, and theirs, all the way down.             *)
LaidWithin(T) ==
    \A z \in T : z \in Values \/ (z.parts \in Seq(T) /\ Laid(z.parts, z.begin, End(z)))

Tidy == UNION {T \in SUBSET Part : LaidWithin(T)}

(* Every part begins somewhere, and has a size.                            *)
LEMMA PartFields ==
    ASSUME NEW z \in Part
    PROVE  z.begin \in Nat /\ z.count \in Nat
  <1>1. PICK k \in Nat : z \in Nested[k]
    BY DEF Part
  <1>2. NestedAt(Nested, k)
    BY NestedIs
  <1>3. k # 0 /\ z \in Over(Nested[k - 1])
    BY <1>1, <1>2 DEF NestedAt
  <1> DEFINE X == Nested[k - 1]
  <1> HIDE DEF X
  <1>4. z \in Over(X)
    BY <1>3 DEF X
  <1>5. \/ \E r \in Recognizer, p \in Nat, n \in Nat : z = Value(r, p, n)
        \/ \E r \in Recognizer, p \in Nat, n \in Nat, x \in Seq(X) : z = Object(r, p, n, x)
    BY <1>4 DEF Over
  <1>6. QED
    BY <1>5 DEF Value, Object

(* The parts that are tidy inside are made of such parts.                  *)
LEMMA TidyIsLaid == Tidy \subseteq Part /\ LaidWithin(Tidy)
  <1>1. Tidy \subseteq Part
    BY DEF Tidy
  <1>2. ASSUME NEW z \in Tidy, z \notin Values
        PROVE  z.parts \in Seq(Tidy) /\ Laid(z.parts, z.begin, End(z))
    <2>1. PICK T \in SUBSET Part : LaidWithin(T) /\ z \in T
      BY DEF Tidy
    <2>2. z.parts \in Seq(T) /\ Laid(z.parts, z.begin, End(z))
      BY <1>2, <2>1 DEF LaidWithin
    <2>3. T \subseteq Tidy
      BY <2>1 DEF Tidy
    <2>4. Seq(T) \subseteq Seq(Tidy)
      BY <2>3, SeqMonotonic
    <2>5. QED
      BY <2>2, <2>4
  <1>3. QED
    BY <1>1, <1>2 DEF LaidWithin

LEMMA SetOfTidy ==
    ASSUME NEW z \in Part,
           z \in Values \/ (z.parts \in Seq(Tidy) /\ Laid(z.parts, z.begin, End(z)))
    PROVE  z \in Tidy
  <1> DEFINE T == Tidy \cup {z}
  <1>1. Tidy \subseteq T /\ T \in SUBSET Part /\ z \in T
    BY TidyIsLaid
  <1>2. Seq(Tidy) \subseteq Seq(T)
    BY <1>1, SeqMonotonic
  <1>3. ASSUME NEW y \in T, y \notin Values
        PROVE  y.parts \in Seq(T) /\ Laid(y.parts, y.begin, End(y))
    <2>1. CASE y = z
      BY <1>2, <1>3, <2>1
    <2>2. CASE y \in Tidy
      BY <1>2, <1>3, <2>2, TidyIsLaid DEF LaidWithin
    <2>3. QED
      BY <2>1, <2>2
  <1>4. LaidWithin(T)
    BY <1>3 DEF LaidWithin
  <1>5. QED
    BY <1>1, <1>4 DEF Tidy

(* An object of tidy parts laid in its place is tidy; so is a value.       *)
LEMMA TidyCloses ==
    ASSUME NEW r \in Recognizer, NEW p \in Nat, NEW n \in Nat
    PROVE  /\ Value(r, p, n) \in Tidy
           /\ \A x \in Seq(Tidy) : Laid(x, p, p + n) => Object(r, p, n, x) \in Tidy
  <1>1. Value(r, p, n) \in Tidy
    <2>1. Value(r, p, n) \in Values
      BY DEF Values
    <2>2. Value(r, p, n) \in Part
      BY PartsClosed
    <2>3. QED
      BY <2>1, <2>2, SetOfTidy
  <1>2. ASSUME NEW x \in Seq(Tidy), Laid(x, p, p + n) PROVE Object(r, p, n, x) \in Tidy
    <2> DEFINE z == Object(r, p, n, x)
    <2>1. Seq(Tidy) \subseteq Seq(Part)
      BY TidyIsLaid, SeqMonotonic
    <2>2. z \in Part
      BY <2>1, PartsClosed
    <2>3. z.parts = x /\ z.begin = p /\ z.count = n
      BY DEF Object
    <2> HIDE DEF z
    <2>4. End(z) = p + n
      BY <2>3 DEF End
    <2>5. z \in Tidy
      BY <1>2, <2>2, <2>3, <2>4, SetOfTidy
    <2>6. QED
      BY <2>5 DEF z
  <1>3. QED
    BY <1>1, <1>2

(* What is laid up to b and what is laid from b are laid together.         *)
LEMMA LaidConcat ==
    ASSUME NEW x \in Seq(Part), NEW y \in Seq(Part), NEW a \in Nat, NEW b \in Nat, NEW c \in Nat,
           a <= b, b <= c, Laid(x, a, b), Laid(y, b, c)
    PROVE  Laid(x \o y, a, c)
  <1> DEFINE w == x \o y
             k == Len(x)
             l == Len(y)
  <1>1. k \in Nat /\ l \in Nat /\ Len(w) = k + l
    BY ConcatProperties, LenProperties
  <1>2. /\ \A i \in 1..k : x[i] \in Part /\ w[i] = x[i]
        /\ \A i \in 1..l : y[i] \in Part
        /\ \A i \in 1..(k + l) : i > k => w[i] = y[i - k]
    BY <1>1, ConcatProperties, ElementOfSeq
  <1> HIDE DEF w
  <1>3. /\ \A i \in 1..k : x[i].count > 0 /\ a <= x[i].begin /\ End(x[i]) <= b
        /\ \A i \in 1..k, j \in 1..k : i < j => Succeeds(x[i], x[j])
        /\ \A i \in 1..l : y[i].count > 0 /\ b <= y[i].begin /\ End(y[i]) <= c
        /\ \A i \in 1..l, j \in 1..l : i < j => Succeeds(y[i], y[j])
    BY DEF Laid
  <1> HIDE DEF k, l
  <1>4. \A z \in Part : z.begin \in Nat /\ End(z) \in Nat
    BY PartFields DEF End
  <1>5. \A i \in 1..(k + l) : i > k => i - k \in 1..l
    BY <1>1
  <1>6. ASSUME NEW i \in 1..(k + l) PROVE w[i].count > 0 /\ a <= w[i].begin /\ End(w[i]) <= c
    <2>1. CASE i <= k
      <3>1. i \in 1..k
        BY <1>1, <2>1
      <3>2. End(x[i]) \in Nat /\ End(x[i]) <= b
        BY <1>2, <1>3, <1>4, <3>1
      <3>3. End(x[i]) <= c
        BY <3>2
      <3>4. QED
        BY <1>2, <1>3, <3>1, <3>3
    <2>2. CASE i > k
      <3>1. i - k \in 1..l /\ w[i] = y[i - k]
        BY <1>2, <1>5, <2>2
      <3>2. y[i - k].begin \in Nat /\ b <= y[i - k].begin
        BY <1>2, <1>3, <1>4, <3>1
      <3>3. a <= y[i - k].begin
        BY <3>2
      <3>4. QED
        BY <1>3, <3>1, <3>3
    <2>3. QED
      BY <1>1, <2>1, <2>2
  <1>7. ASSUME NEW i \in 1..(k + l), NEW j \in 1..(k + l), i < j PROVE Succeeds(w[i], w[j])
    <2>1. CASE j <= k
      <3>1. i \in 1..k /\ j \in 1..k
        BY <1>1, <1>7, <2>1
      <3>2. QED
        BY <1>2, <1>3, <1>7, <3>1
    <2>2. CASE i > k
      <3>1. i - k \in 1..l /\ j - k \in 1..l /\ i - k < j - k /\ j > k
        BY <1>1, <1>7, <2>2
      <3>2. w[i] = y[i - k] /\ w[j] = y[j - k]
        BY <1>2, <2>2, <3>1
      <3>3. QED
        BY <1>3, <3>1, <3>2
    <2>3. CASE i <= k /\ j > k
      <3>1. i \in 1..k /\ j - k \in 1..l
        BY <1>1, <2>3
      <3>2. w[i] = x[i] /\ w[j] = y[j - k]
        BY <1>2, <2>3, <3>1
      <3>3. /\ End(x[i]) \in Nat /\ End(x[i]) <= b
            /\ y[j - k].begin \in Nat /\ b <= y[j - k].begin
        BY <1>2, <1>3, <1>4, <3>1
      <3>4. End(x[i]) <= y[j - k].begin
        BY <3>3
      <3>5. QED
        BY <3>2, <3>4 DEF Succeeds
    <2>4. QED
      BY <1>1, <2>1, <2>2, <2>3
  <1>8. QED
    BY <1>1, <1>6, <1>7 DEF Laid, w

(* Nothing is laid anywhere, one part in its own place.                    *)
LEMMA LaidOne ==
    /\ \A b, e : Laid(<<>>, b, e)
    /\ \A z, b, e : z.count > 0 /\ b <= z.begin /\ End(z) <= e => Laid(<<z>>, b, e)
  <1>1. \A b, e : Laid(<<>>, b, e)
    BY DEF Laid
  <1>2. ASSUME NEW z, NEW b, NEW e, z.count > 0, b <= z.begin, End(z) <= e
        PROVE  Laid(<<z>>, b, e)
    <2> DEFINE x == <<z>>
    <2>1. Len(x) = 1 /\ x[1] = z
      OBVIOUS
    <2> HIDE DEF x
    <2>2. \A i \in 1..Len(x) : i = 1
      BY <2>1
    <2>3. Laid(x, b, e)
      BY <1>2, <2>1, <2>2 DEF Laid
    <2>4. QED
      BY <2>3 DEF x
  <1>3. QED
    BY <1>1, <1>2

(* What a rule gives: its object; or what is inside, and then, if it is    *)
(* collected, its characters, which hold what is inside.                   *)
LEMMA ItselfLaid ==
    ASSUME NEW h, NEW r \in Recognizer, NEW p \in Nat, NEW n \in Nat, n > 0,
           NEW y \in Seq(Tidy), Laid(y, p, p + n)
    PROVE  /\ Itself(h, r, p, n, y) \in Seq(Tidy)
           /\ Laid(Itself(h, r, p, n, y), p, p + n)
           /\ r \notin Handled => /\ y \o Itself(h, r, p, n, y) \in Seq(Tidy)
                                  /\ Laid(y \o Itself(h, r, p, n, y), p, p + n)
  <1> DEFINE v == Value(r, p, n)
             o == Object(r, p, n, y)
             e == p + n
             none == <<>>
  <1>1. v \in Tidy /\ o \in Tidy /\ v \in Values
    BY TidyCloses DEF Values
  <1>2. /\ v.begin = p /\ v.count = n /\ o.begin = p /\ o.count = n
        /\ e \in Nat /\ none \in Seq(Tidy)
    BY EmptySeq DEF Value, Object
  <1>3. Itself(h, r, p, n, y) = IF r \notin Collected[h] THEN none
                                ELSE IF r \in Handled THEN <<o>> ELSE <<v>>
    BY DEF Itself
  <1>4. Laid(none, p, e)
    BY LaidOne
  <1>a. Laid(y, p, e)
    OBVIOUS
  <1> HIDE DEF v, o, e, none
  <1>5. End(v) = e /\ End(o) = e
    BY <1>2 DEF End, e
  <1>6. <<v>> \in Seq(Tidy) /\ <<o>> \in Seq(Tidy)
    BY <1>1
  <1>7. Laid(<<v>>, p, e) /\ Laid(<<o>>, p, e)
    BY <1>2, <1>5, LaidOne
  <1>8. y \o <<v>> \in Seq(Tidy) /\ Laid(y \o <<v>>, p, e)
    <2> DEFINE w == y \o <<v>>
               k == Len(y)
    <2>1. k \in Nat /\ w \in Seq(Tidy) /\ Len(w) = k + 1
      BY <1>6, ConcatProperties, LenProperties
    <2>2. (\A i \in 1..k : w[i] = y[i] /\ y[i] \in Part) /\ w[k + 1] = v
      <3>1. \A i \in 1..k : y[i] \in Tidy
        BY ElementOfSeq
      <3>2. \A i \in 1..k : w[i] = y[i]
        BY <1>6, <2>1, ConcatProperties
      <3>3. w[k + 1] = v
        BY <1>6, <2>1
      <3>4. QED
        BY <3>1, <3>2, <3>3, TidyIsLaid
    <2>3. /\ \A i \in 1..k : y[i].count > 0 /\ p <= y[i].begin /\ End(y[i]) <= e
          /\ \A i \in 1..k, j \in 1..k : i < j => Succeeds(y[i], y[j])
      BY <1>a DEF Laid
    <2> HIDE DEF w, k
    <2>4. \A i \in 1..(k + 1) : w[i].count > 0 /\ p <= w[i].begin /\ End(w[i]) <= e
      <3>1. \A i \in 1..(k + 1) : i \in 1..k \/ i = k + 1
        BY <2>1
      <3>2. w[k + 1].count > 0 /\ p <= w[k + 1].begin /\ End(w[k + 1]) <= e
        BY <1>2, <1>5, <2>2
      <3>3. QED
        BY <2>2, <2>3, <3>1, <3>2
    <2>5. ASSUME NEW i \in 1..(k + 1), NEW j \in 1..(k + 1), i < j
          PROVE  Succeeds(w[i], w[j])
      <3>1. i \in 1..k /\ (j \in 1..k \/ j = k + 1)
        BY <2>1, <2>5
      <3>2. CASE j \in 1..k
        BY <2>2, <2>3, <2>5, <3>1, <3>2
      <3>3. CASE j = k + 1
        <4>1. v.begin <= y[i].begin /\ End(y[i]) <= End(v)
          BY <1>2, <1>5, <2>3, <3>1
        <4>2. Succeeds(y[i], v)
          BY <1>1, <4>1 DEF Succeeds
        <4>3. QED
          BY <2>2, <3>1, <3>3, <4>2
      <3>4. QED
        BY <3>1, <3>2, <3>3
    <2>6. Laid(w, p, e)
      BY <2>1, <2>4, <2>5 DEF Laid
    <2>7. QED
      BY <2>1, <2>6 DEF w
  <1>9. y \o none = y
    BY DEF none
  <1>10. QED
    BY <1>2, <1>3, <1>4, <1>6, <1>7, <1>8, <1>9, <1>a DEF e

(* The gifts for matches of some characters that are laid in their place.  *)
TidyGifts(s) ==
    {g \in Giving : \E n \in Matched :
        /\ <<g[2], g[3], n>> \in Meant(s)
        /\ n <= 0 => g[4] = <<>>
        /\ n > 0 => g[4] \in Seq(Tidy) /\ Laid(g[4], g[3], g[3] + n)}

(* Of one place and size there is one kind of them.                        *)
LEMMA TidyGift ==
    ASSUME NEW s, NEW h, NEW r \in Recognizer, NEW p \in Nat, NEW n \in Nat, NEW x,
           <<h, r, p, x>> \in TidyGifts(s), <<r, p, n>> \in Meant(s)
    PROVE  x \in Seq(Tidy) /\ Laid(x, p, p + n)
  <1>1. PICK m \in Matched :
           /\ <<r, p, m>> \in Meant(s)
           /\ m <= 0 => x = <<>>
           /\ m > 0 => x \in Seq(Tidy) /\ Laid(x, p, p + m)
    BY DEF TidyGifts
  <1>2. n \in Matched
    BY DEF Matched
  <1>3. m = n
    BY <1>1, <1>2, MeantOnce
  <1>4. CASE n > 0
    BY <1>1, <1>3, <1>4
  <1>5. CASE ~(n > 0)
    <2> DEFINE none == <<>>
    <2>1. x = none
      BY <1>1, <1>3, <1>5
    <2>2. none \in Seq(Tidy) /\ Laid(none, p, p + n)
      BY EmptySeq, LaidOne
    <2>3. QED
      BY <2>1, <2>2
  <1>6. QED
    BY <1>4, <1>5

(* Along a trail, what has been given so far is laid as far as it goes.    *)
LEMMA TrailLaid ==
    ASSUME NEW s, NEW h, NEW r \in Recognizer, NEW p \in Nat, NEW k \in Nat, NEW ends, NEW x,
           Shape[r].kind = "loop" \/ k <= Len(Shape[r].elements),
           Collects(TidyGifts(s), Meant(s), h, r, p, k, ends, x)
    PROVE  x \in Seq(Tidy) /\ p <= ends[k] /\ ends[k] \in Nat /\ Laid(x, p, ends[k])
  <1> DEFINE G == TidyGifts(s)
  <1>1. Trail(Meant(s), r, p, k, ends)
    BY DEF Collects
  <1>2. PICK got \in [0..k -> Seq(Part)] : Gets(G, h, r, k, ends, got) /\ x = got[k]
    BY DEF Collects
  <1> DEFINE Up(j) == /\ got[j] \in Seq(Tidy) /\ ends[j] \in Nat /\ p <= ends[j]
                      /\ Laid(got[j], p, ends[j])
             T == {j \in Nat : j <= k => Up(j)}
  <1>3. 0 \in T
    <2>1. ends[0] = p /\ got[0] = <<>>
      BY <1>1, <1>2 DEF Trail, Gets
    <2>2. <<>> \in Seq(Tidy) /\ Laid(<<>>, p, p)
      BY EmptySeq, LaidOne
    <2>3. QED
      BY <2>1, <2>2
  <1>4. ASSUME NEW j \in Nat, j \in T PROVE j + 1 \in T
    <2>1. SUFFICES ASSUME j + 1 <= k PROVE Up(j + 1)
      OBVIOUS
    <2>2. j <= k /\ j + 1 \in 1..k /\ (j + 1) - 1 = j
      BY <2>1
    <2> DEFINE e == ElementAt(r, j + 1)
    <2>3. e \in Recognizer
      BY <2>2, ElementsTyped
    <2>4. /\ ends[j] \in Nat /\ ends[j + 1] \in Nat /\ ends[j] <= ends[j + 1]
          /\ <<e, ends[j], ends[j + 1] - ends[j]>> \in Meant(s)
      BY <1>1, <2>2 DEF Trail
    <2>5. PICK y \in Seq(Part) : <<h, e, ends[j], y>> \in G /\ got[j + 1] = got[j] \o y
      BY <1>2, <2>2 DEF Gets
    <2> HIDE DEF e, G
    <2>6. /\ ends[j + 1] - ends[j] \in Nat
          /\ ends[j] + (ends[j + 1] - ends[j]) = ends[j + 1]
      BY <2>4
    <2>7. y \in Seq(Tidy) /\ Laid(y, ends[j], ends[j + 1])
      <3>1. y \in Seq(Tidy) /\ Laid(y, ends[j], ends[j] + (ends[j + 1] - ends[j]))
        BY <2>3, <2>4, <2>5, <2>6, TidyGift DEF G
      <3>2. QED
        BY <2>6, <3>1
    <2>8. Up(j)
      BY <1>4, <2>2
    <2>9. got[j] \o y \in Seq(Tidy) /\ Laid(got[j] \o y, p, ends[j + 1])
      <3>1. got[j] \in Seq(Part)
        BY <2>2
      <3>2. QED
        BY <2>4, <2>5, <2>7, <2>8, <3>1, LaidConcat, ConcatProperties
    <2>10. p <= ends[j + 1]
      BY <2>4, <2>8
    <2>11. QED
      BY <2>4, <2>5, <2>9, <2>10
  <1>5. Nat \subseteq T
    <2> HIDE DEF T
    <2>1. QED
      BY <1>3, <1>4, UpFromZero
  <1>6. Up(k)
    BY <1>5
  <1>7. QED
    BY <1>2, <1>6

(* What is inside a match is laid in its place: in a sequence ...          *)
LEMMA SequenceLaid ==
    ASSUME NEW s, NEW h, NEW r \in Recognizer, NEW p \in Nat, NEW n \in Nat, n > 0,
           <<r, p, n>> \in Meant(s), NEW x, Inside(TidyGifts(s), s, h, r, p, x),
           Shape[r].kind = "sequence"
    PROVE  x \in Seq(Tidy) /\ Laid(x, p, p + n)
  <1> DEFINE k == Len(Shape[r].elements)
             M == Meant(s)
  <1>1. k \in Nat
    BY ElementsTyped
  <1>2. PICK ends \in [0..k -> Nat] : Collects(TidyGifts(s), M, h, r, p, k, ends, x)
    BY DEF Inside
  <1> HIDE DEF k
  <1>3. k <= Len(Shape[r].elements) /\ k = Len(Shape[r].elements)
    BY <1>1 DEF k
  <1>4. x \in Seq(Tidy) /\ p <= ends[k] /\ ends[k] \in Nat /\ Laid(x, p, ends[k])
    BY <1>1, <1>2, <1>3, TrailLaid
  <1> DEFINE m == ends[k] - p
  <1>5. m \in Nat /\ m \in Matched /\ n \in Matched /\ p + m = ends[k]
    BY <1>4 DEF Matched
  <1>6. Trail(M, r, p, k, ends)
    BY <1>2 DEF Collects
  <1>7. k \in 0..Len(Shape[r].elements)
    BY <1>1, <1>3
  <1>8. InOrder(M, r, p, m)
    BY <1>3, <1>6, <1>7 DEF InOrder
  <1> HIDE DEF m
  <1>9. Follows(M, s, r, p, m)
    BY <1>8 DEF Follows
  <1>10. <<r, p, m>> \in M
    BY <1>5, <1>9, MeantCloses DEF Closed
  <1>11. m = n
    BY <1>5, <1>10, MeantOnce
  <1>12. QED
    BY <1>4, <1>5, <1>11

(* ... in a loop ...                                                       *)
LEMMA LoopLaid ==
    ASSUME NEW s, NEW h, NEW r \in Recognizer, NEW p \in Nat, NEW n \in Nat, n > 0,
           <<r, p, n>> \in Meant(s), NEW x, Inside(TidyGifts(s), s, h, r, p, x),
           Shape[r].kind = "loop"
    PROVE  x \in Seq(Tidy) /\ Laid(x, p, p + n)
  <1> DEFINE M == Meant(s)
  <1>1. PICK k \in Nat : \E ends \in [0..k -> Nat] :
           Collects(TidyGifts(s), M, h, r, p, k, ends, x) /\ Stops(M, s, r, k, ends)
    BY DEF Inside, Stops
  <1>2. PICK ends \in [0..k -> Nat] :
           Collects(TidyGifts(s), M, h, r, p, k, ends, x) /\ Stops(M, s, r, k, ends)
    BY <1>1
  <1>3. x \in Seq(Tidy) /\ p <= ends[k] /\ ends[k] \in Nat /\ Laid(x, p, ends[k])
    BY <1>2, TrailLaid
  <1> DEFINE m == IF k < Shape[r].min THEN NPos ELSE ends[k] - p
  <1>4. m \in Matched /\ n \in Matched /\ n # NPos
    BY <1>3 DEF Matched, NPos
  <1>5. Trail(M, r, p, k, ends)
    BY <1>2 DEF Collects
  <1>6. Repeats(M, s, r, p, m)
    <2>1. /\ \A i \in 1..k : LoopGoesOn(r, i - 1, s, ends[i - 1])
          /\ ~LoopGoesOn(r, k, s, ends[k]) \/ <<ElementAt(r, k + 1), ends[k], NPos>> \in M
      BY <1>2 DEF Stops
    <2> HIDE DEF M
    <2>2. QED
      BY <1>5, <2>1 DEF Repeats
  <1>7. Follows(M, s, r, p, m)
    <2> HIDE DEF m
    <2>1. QED
      BY <1>6 DEF Follows
  <1>8. m = n
    <2> HIDE DEF m
    <2>1. <<r, p, m>> \in M
      BY <1>4, <1>7, MeantCloses DEF Closed
    <2>2. QED
      BY <1>4, <2>1, MeantOnce
  <1>9. n = ends[k] - p
    <2>1. m = NPos \/ m = ends[k] - p
      OBVIOUS
    <2> HIDE DEF m
    <2>2. QED
      BY <1>4, <1>8, <2>1
  <1>10. p + n = ends[k]
    BY <1>3, <1>9
  <1>11. QED
    BY <1>3, <1>10

(* ... in the first alternative that matches ...                           *)
LEMMA FirstLaid ==
    ASSUME NEW s, NEW h, NEW r \in Recognizer, NEW p \in Nat, NEW n \in Nat, n > 0,
           <<r, p, n>> \in Meant(s), NEW x, Inside(TidyGifts(s), s, h, r, p, x),
           Shape[r].kind = "exclusive"
    PROVE  x \in Seq(Tidy) /\ Laid(x, p, p + n)
  <1> DEFINE es == Shape[r].elements
             M == Meant(s)
  <1>1. PICK i \in 1..Len(es) : IsFirst(M, r, p, i) /\ <<h, es[i], p, x>> \in TidyGifts(s)
    BY DEF Inside
  <1>2. PICK m \in Nat : Refused(M, r, p, i - 1) /\ m > 0 /\ <<es[i], p, m>> \in M
    BY <1>1 DEF IsFirst
  <1>3. m \in Matched /\ n \in Matched
    BY DEF Matched
  <1>4. FirstOf(M, r, p, m)
    BY <1>2 DEF FirstOf
  <1>5. <<r, p, m>> \in M
    <2>1. Follows(M, s, r, p, m)
      BY <1>4 DEF Follows
    <2>2. QED
      BY <1>3, <2>1, MeantCloses DEF Closed
  <1>6. m = n
    BY <1>3, <1>5, MeantOnce
  <1>7. es[i] \in Recognizer
    BY ElementsTyped
  <1>8. QED
    BY <1>1, <1>2, <1>6, <1>7, TidyGift

(* ... and in the first of the longest.                                    *)
LEMMA LongestLaid ==
    ASSUME NEW s, NEW h, NEW r \in Recognizer, NEW p \in Nat, NEW n \in Nat, n > 0,
           <<r, p, n>> \in Meant(s), NEW x, Inside(TidyGifts(s), s, h, r, p, x),
           Shape[r].kind = "selector"
    PROVE  x \in Seq(Tidy) /\ Laid(x, p, p + n)
  <1> DEFINE es == Shape[r].elements
             M == Meant(s)
             k == Len(es)
  <1>1. PICK i \in 1..k : IsLongest(M, r, p, i) /\ <<h, es[i], p, x>> \in TidyGifts(s)
    BY DEF Inside
  <1>2. PICK l \in Nat :
           /\ <<es[i], p, l>> \in M
           /\ \A j \in 1..k : \E q \in Matched : <<es[j], p, q>> \in M /\ q <= l
    BY <1>1 DEF IsLongest
  <1> DEFINE size(j) == CHOOSE q \in Matched : <<es[j], p, q>> \in M /\ q <= l
             m == [j \in 1..k |-> size(j)]
  <1>3. /\ m \in [1..k -> Matched]
        /\ \A j \in 1..k : <<es[j], p, m[j]>> \in M /\ m[j] <= l
    <2>1. \A j \in 1..k : size(j) \in Matched /\ <<es[j], p, size(j)>> \in M /\ size(j) <= l
      BY <1>2
    <2> HIDE DEF size
    <2>2. QED
      BY <2>1
  <1> HIDE DEF m
  <1>4. l \in Matched /\ n \in Matched /\ es[i] \in Recognizer
    BY ElementsTyped DEF Matched
  <1>5. l = m[i]
    <2>1. m[i] \in Matched /\ <<es[i], p, m[i]>> \in M
      BY <1>3
    <2>2. QED
      BY <1>2, <1>4, <2>1, MeantOnce
  <1>6. Longest(M, r, p, k, l)
    BY <1>3, <1>5 DEF Longest
  <1>7. <<r, p, l>> \in M
    <2>1. Follows(M, s, r, p, l)
      BY <1>6 DEF Follows
    <2>2. QED
      BY <1>4, <2>1, MeantCloses DEF Closed
  <1>8. l = n
    BY <1>4, <1>7, MeantOnce
  <1>9. QED
    BY <1>1, <1>2, <1>4, <1>8, TidyGift

LEMMA InsideLaid ==
    ASSUME NEW s, NEW h, NEW r \in Recognizer, NEW p \in Nat, NEW n \in Nat, n > 0,
           <<r, p, n>> \in Meant(s), NEW x, Inside(TidyGifts(s), s, h, r, p, x)
    PROVE  x \in Seq(Tidy) /\ Laid(x, p, p + n)
  <1>1. CASE Shape[r].kind = "text"
    <2> DEFINE none == <<>>
    <2>1. x = none
      BY <1>1 DEF Inside
    <2>2. none \in Seq(Tidy) /\ Laid(none, p, p + n)
      BY EmptySeq, LaidOne
    <2>3. QED
      BY <2>1, <2>2
  <1>2. CASE Shape[r].kind = "delegate"
    <2> DEFINE e == Shape[r].elements[1]
    <2>1. <<h, e, p, x>> \in TidyGifts(s)
      BY <1>2 DEF Inside
    <2>2. e \in Recognizer /\ n \in Matched
      BY <1>2, ElementsTyped DEF Matched
    <2>3. <<e, p, n>> \in Meant(s)
      BY <1>2, <2>2, MeantFollows DEF Follows
    <2> HIDE DEF e
    <2>4. QED
      BY <2>1, <2>2, <2>3, TidyGift
  <1>3. Shape[r].kind \in Kind
    BY ElementsTyped
  <1>4. QED
    BY <1>1, <1>2, <1>3, SequenceLaid, LoopLaid, FirstLaid, LongestLaid DEF Kind

(* So nothing else is given.                                               *)
LEMMA GiftsAreTidy == ASSUME NEW s PROVE Gifts(s) \subseteq TidyGifts(s)
  <1> DEFINE G == TidyGifts(s)
  <1>1. ASSUME NEW h \in Handled, NEW r \in Recognizer, NEW p \in Nat, NEW x \in Seq(Part),
               Gives(G, s, h, r, p, x)
        PROVE  <<h, r, p, x>> \in G
    <2>1. PICK n \in Matched :
             /\ <<r, p, n>> \in Meant(s)
             /\ n <= 0 => x = <<>>
             /\ n > 0 => \E y \in Seq(Part) :
                   IF r \in Handled THEN Inside(G, s, r, r, p, y) /\ x = Itself(h, r, p, n, y)
                   ELSE Inside(G, s, h, r, p, y) /\ x = y \o Itself(h, r, p, n, y)
      BY <1>1 DEF Gives
    <2>2. n > 0 => x \in Seq(Tidy) /\ Laid(x, p, p + n)
      <3> SUFFICES ASSUME n > 0 PROVE x \in Seq(Tidy) /\ Laid(x, p, p + n)
        OBVIOUS
      <3>1. n \in Nat
        BY DEF Matched, NPos
      <3>2. PICK y \in Seq(Part) :
               IF r \in Handled THEN Inside(G, s, r, r, p, y) /\ x = Itself(h, r, p, n, y)
               ELSE Inside(G, s, h, r, p, y) /\ x = y \o Itself(h, r, p, n, y)
        BY <2>1
      <3>3. y \in Seq(Tidy) /\ Laid(y, p, p + n)
        BY <2>1, <3>1, <3>2, InsideLaid
      <3> HIDE DEF G
      <3>4. QED
        BY <3>1, <3>2, <3>3, ItselfLaid
    <2>3. <<h, r, p, x>> \in Giving
      BY DEF Giving
    <2>4. QED
      BY <2>1, <2>2, <2>3 DEF TidyGifts
  <1>2. Complete(G, s)
    <2> HIDE DEF G
    <2>1. QED
      BY <1>1 DEF Complete
  <1>3. G \in SUBSET Giving
    BY DEF TidyGifts
  <1>4. QED
    BY <1>2, <1>3 DEF Gifts

(* A thread that has an answer has made a call.                            *)
LEMMA DoneCallTyped ==
    ASSUME PromiseInv, NEW t \in Thread, status[t] = "done"
    PROVE  Call(t) \in Request
  <1>1. script[t] \in Seq(Request)
    BY DEF PromiseInv, IInv, TypeOK
  <1>2. parses[t] \in 1..Len(script[t])
    BY DEF PromiseInv, AnswersInv
  <1>3. QED
    BY <1>1, <1>2, ElementOfSeq DEF Call

(* The object of a right answer is tidy, and within what was parsed.       *)
LEMMA RightIsTidy ==
    ASSUME NEW req \in Request, NEW a \in RightAnswers(req)
    PROVE  a.object \in Seq(Tidy) /\ Laid(a.object, 0, a.size)
  <1>1. req.rule \in Recognizer
    BY GrammarAssumption DEF Request
  <1>2. a \in Result /\ a.size \in Matched /\ <<req.rule, 0, a.size>> \in Meant(req.input)
    BY DEF RightAnswers, Result
  <1>3. CASE a.size <= 0 \/ (req.full /\ a.size # Len(req.input))
    <2> DEFINE none == <<>>
    <2>1. a.object = none
      BY <1>3 DEF RightAnswers
    <2>2. none \in Seq(Tidy) /\ Laid(none, 0, a.size)
      BY EmptySeq, LaidOne
    <2>3. QED
      BY <2>1, <2>2
  <1>4. CASE ~(a.size <= 0 \/ (req.full /\ a.size # Len(req.input)))
    <2>1. PICK x \in Seq(Part) :
             /\ Inside(Gifts(req.input), req.input, req.rule, req.rule, 0, x)
             /\ a.object = <<Object(req.rule, 0, a.size, x)>>
      BY <1>4 DEF RightAnswers
    <2> DEFINE n == a.size
               o == Object(req.rule, 0, n, x)
    <2>2. n \in Nat /\ n > 0 /\ 0 + n = n
      BY <1>2, <1>4 DEF Matched, NPos
    <2>3. Inside(TidyGifts(req.input), req.input, req.rule, req.rule, 0, x)
      BY <1>1, <2>1, GiftsAreTidy, InsideMore
    <2>4. x \in Seq(Tidy) /\ Laid(x, 0, 0 + n)
      BY <1>1, <1>2, <2>2, <2>3, InsideLaid
    <2>5. o \in Tidy
      BY <1>1, <2>2, <2>4, TidyCloses
    <2>6. o.begin = 0 /\ o.count = n /\ a.object = <<o>>
      BY <2>1 DEF Object
    <2> HIDE DEF o, n
    <2>7. End(o) = n
      BY <2>2, <2>6 DEF End
    <2>8. Laid(<<o>>, 0, n)
      BY <2>2, <2>6, <2>7, LaidOne
    <2>9. <<o>> \in Seq(Tidy)
      BY <2>5
    <2>10. QED
      BY <2>6, <2>8, <2>9 DEF n
  <1>5. QED
    BY <1>3, <1>4

(* What is given back is a tree of the text: collectors get their parts in *)
(* the order of the text, each inside the element that it is for, and two  *)
(* parts of an element overlap only where a rule that has no handler gives *)
(* its characters after what is inside it.  So it is at any depth.         *)
AnswersAreTrees ==
    \A t \in Thread : status[t] = "done" =>
       outcome[t].object \in Seq(Tidy) /\ Laid(outcome[t].object, 0, outcome[t].size)

THEOREM ObjectsFollowTheText == Spec => []AnswersAreTrees
  <1>1. PromiseInv /\ ResultsAreRight => AnswersAreTrees
    <2> SUFFICES ASSUME PromiseInv, ResultsAreRight, NEW t \in Thread, status[t] = "done"
                 PROVE  outcome[t].object \in Seq(Tidy)
                        /\ Laid(outcome[t].object, 0, outcome[t].size)
      BY DEF AnswersAreTrees
    <2>1. outcome[t] \in RightAnswers(Call(t))
      BY DEF ResultsAreRight
    <2>2. Call(t) \in Request
      BY DoneCallTyped
    <2>3. QED
      BY <2>1, <2>2, RightIsTidy
  <1>2. QED
    BY <1>1, RightHolds, PTL

==============================================================================
