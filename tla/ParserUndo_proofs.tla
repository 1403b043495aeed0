-------------------------- MODULE ParserUndo_proofs ---------------------------
(***************************************************************************)
(* undoAssignments() is exact, for every grammar, script and number of     *)
(* threads: the assignments that a failing activation drops are those of   *)
(* its own attempt. UndoInv says where in the input the assignments of     *)
(* every context are that an open activation can still write to; one lemma *)
(* per action shows that it is kept, given the inductive invariant of      *)
(* ParserSafety_proofs.                                                    *)
(***************************************************************************)
EXTENDS ParserSafety_proofs

(* The assignments of a context, and where they are in the input.          *)
Assigned(H, c)    == H[c].assignments
EndBy(H, c, p)    == \A j \in DOMAIN Assigned(H, c) :
                         Assigned(H, c)[j].begin + Assigned(H, c)[j].count <= p
From(H, c, p)     == \A j \in DOMAIN Assigned(H, c) : Assigned(H, c)[j].begin >= p

SplitAt(H, c, m, p) ==
    /\ m <= Len(Assigned(H, c))
    /\ \A j \in DOMAIN Assigned(H, c) :
          IF j <= m THEN Assigned(H, c)[j].begin + Assigned(H, c)[j].count <= p
          ELSE Assigned(H, c)[j].begin >= p

(* The context below the i-th activation.                                  *)
Under(F, i)      == FlattenSeq([j \in 1..(i - 1) |-> Opened(F[j])])
ReceiverOf(F, i) == Last(Under(F, i))

(* An activation that has begun without a handler: it assigns to the       *)
(* context below it, its own attempt from its mark on.                     *)
Plain(f) == f.phase # "begin" /\ f.context = None

(* The context that an activation fills: its own, or the one it found.     *)
Own(f, r) == IF f.context # None THEN f.context ELSE r

(* What an answer adds to the input that is used: NPos adds nothing.       *)
Gain(m) == IF m > 0 THEN m ELSE 0

(* Only sequences and loops move on before they answer.                    *)
Span(f) ==
    /\ f.begin <= f.pos
    /\ f.total = f.pos - f.begin
    /\ f.phase = "begin" => f.pos = f.begin
    /\ Shape[f.rec].kind \notin {"sequence", "loop"} => f.pos = f.begin

(* An activation, r the context below it.  An activation without a handler *)
(* has at its mark the border between what ends where it began and what    *)
(* begins there.  One with a handler, or that has not begun, leaves the    *)
(* context below it alone: all of it ends where the activation begins.     *)
(* Its own context, its branches and its best branch begin where it began, *)
(* and the best branch ends where its match does; while a selector tries   *)
(* its branches its own context gets nothing.                              *)
FrameMarks(f, r, H, inner) ==
    /\ Span(f)
    /\ Plain(f) => SplitAt(H, r, f.mark, f.begin)
    /\ inner /\ ~Plain(f) => EndBy(H, r, f.begin)
    /\ f.context # None => From(H, f.context, f.begin)
    /\ f.branch # None => From(H, f.branch, f.begin)
    /\ f.bestBranch # None => /\ From(H, f.bestBranch, f.begin)
                              /\ f.best >= 0 /\ EndBy(H, f.bestBranch, f.begin + f.best)
    /\ Shape[f.rec].kind = "selector" /\ f.phase \in {"feed", "fed"} =>
          EndBy(H, Own(f, r), f.begin)

(* The innermost activation: what its context has been given ends where    *)
(* the activation has arrived.                                             *)
TopReach(f, r, H) ==
    /\ f.phase = "feed" => EndBy(H, Own(f, r), f.pos)
    /\ f.phase = "fed" => EndBy(H, IF f.branch # None THEN f.branch ELSE Own(f, r),
                                f.pos + Gain(f.matched))
    /\ f.phase = "end" /\ f.matched > 0 => EndBy(H, Own(f, r), f.begin + f.matched)

(* Two activations of a thread, the first below the second: they are in    *)
(* the order of the input, and of two that assign to the same context the  *)
(* marks are in order.                                                     *)
Pair(f, rf, g, rg) ==
    /\ f.pos <= g.begin
    /\ Plain(f) /\ Plain(g) /\ rf = rg => f.mark <= g.mark

(* The activations that wait ...                                           *)
BelowMarks(P, H) ==
    /\ \A i \in DOMAIN P : FrameMarks(P[i], ReceiverOf(P, i), H, i # 1)
    /\ \A i, j \in DOMAIN P : i < j => Pair(P[i], ReceiverOf(P, i), P[j], ReceiverOf(P, j))
    /\ \A i \in DOMAIN P : i # 1 => P[i].begin = P[i - 1].pos

(* ... those below an activation that is called where the last of them has *)
(* arrived ...                                                             *)
AboveMarks(P, f, r) ==
    /\ P # <<>> => f.begin = Last(P).pos
    /\ \A i \in DOMAIN P : Pair(P[i], ReceiverOf(P, i), f, r)

(* ... and the activations of a thread.                                    *)
UndoThread(F, H) ==
    F # <<>> =>
       LET P == Front(F)
           f == Last(F)
           r == ReceiverOf(P, Len(P) + 1)
       IN  /\ BelowMarks(P, H)
           /\ AboveMarks(P, f, r)
           /\ FrameMarks(f, r, H, P # <<>>)
           /\ TopReach(f, r, H)

(* The inductive invariant: UndoIsExact is what it says of the marks.      *)
UndoInv == \A t \in Thread : UndoThread(frames[t], contexts)

(* A call of feed() changes nothing below.                                 *)
LEMMA UnderAppend ==
    ASSUME NEW n \in Nat, NEW P \in Seq(Frame(n)), NEW f \in Frame(n)
    PROVE  /\ \A i \in 1..(Len(P) + 1) : Under(Append(P, f), i) = Under(P, i)
           /\ Under(P, Len(P) + 1) = OpenedBy(P)
  <1>1. Len(P) \in Nat /\ DOMAIN P = 1..Len(P)
    BY LenProperties
  <1> DEFINE W == Append(P, f)
  <1>2. \A j \in 1..Len(P) : W[j] = P[j]
    BY AppendProperties
  <1> HIDE DEF W
  <1>3. ASSUME NEW i \in 1..(Len(P) + 1) PROVE Under(W, i) = Under(P, i)
    <2>1. \A j \in 1..(i - 1) : W[j] = P[j]
      BY <1>1, <1>2
    <2>2. [j \in 1..(i - 1) |-> Opened(W[j])] = [j \in 1..(i - 1) |-> Opened(P[j])]
      BY <2>1
    <2>3. QED
      BY <2>2 DEF Under
  <1>4. Under(P, Len(P) + 1) = OpenedBy(P)
    <2> DEFINE m == Len(P) + 1
    <2>1. m - 1 = Len(P)
      BY <1>1
    <2>2. 1..(m - 1) = DOMAIN P
      BY <1>1, <2>1
    <2> HIDE DEF m
    <2>3. [j \in 1..(m - 1) |-> Opened(P[j])] = [j \in DOMAIN P |-> Opened(P[j])]
      BY <2>2
    <2>4. QED
      BY <2>3 DEF Under, OpenedBy, m
  <1>5. QED
    BY <1>3, <1>4 DEF W

(* What is below an activation, what it has pushed, and what is above.     *)
LEMMA StackAround ==
    ASSUME NEW n \in Nat, NEW P \in Seq(Frame(n)), NEW i \in 1..Len(P)
    PROVE  \E rest \in Seq(1..n) :
              /\ Under(P, i) \in Seq(1..n) /\ Opened(P[i]) \in Seq(1..n)
              /\ OpenedBy(P) = (Under(P, i) \o Opened(P[i])) \o rest
  <1> DEFINE parts == [j \in DOMAIN P |-> Opened(P[j])]
             below == [j \in 1..(i - 1) |-> Opened(P[j])]
             m == i - 1
  <1>1. Len(P) \in Nat /\ DOMAIN P = 1..Len(P)
    BY LenProperties
  <1>2. parts \in Seq(Seq(1..n)) /\ Len(parts) = Len(P)
    BY OpenedParts
  <1>3. \A j \in 1..Len(P) : parts[j] = Opened(P[j]) /\ Opened(P[j]) \in Seq(1..n)
    BY <1>1, ElementOfSeq, OpenedTyped
  <1>4. m \in Nat /\ m = i - 1 /\ i \in 1..Len(parts) /\ m \in 0..Len(parts) /\ i \in 0..Len(parts)
        /\ m \in Int /\ 1 \in Int /\ i \in Int
    BY <1>1, <1>2
  <1>5. below \in Seq(Seq(1..n)) /\ Len(below) = m /\ \A j \in 1..m : below[j] = parts[j]
    <2>1. below = [j \in 1..m |-> Opened(P[j])]
      OBVIOUS
    <2> HIDE DEF below, m, parts
    <2>2. \A j \in 1..m : j \in 1..Len(P)
      BY <1>1, <1>4
    <2>3. QED
      BY <1>3, <1>4, <2>1, <2>2
  <1>a. Under(P, i) = FlattenSeq(below) /\ OpenedBy(P) = FlattenSeq(parts)
    BY DEF Under, OpenedBy
  <1> HIDE DEF parts, below, m
  <1>6. SubSeq(parts, 1, m) \in Seq(Seq(1..n)) /\ SubSeq(parts, 1, m) = below
    <2>1. \A j \in 1..m : parts[j] \in Seq(1..n)
      BY <1>1, <1>3, <1>4
    <2>2. /\ SubSeq(parts, 1, m) \in Seq(Seq(1..n))
          /\ Len(SubSeq(parts, 1, m)) = IF 1 <= m THEN m - 1 + 1 ELSE 0
          /\ \A j \in 1..(m - 1 + 1) : SubSeq(parts, 1, m)[j] = parts[1 + j - 1]
      BY <1>2, <1>4, <2>1, SubSeqProperties
    <2>3. Len(SubSeq(parts, 1, m)) = m /\ \A j \in 1..m : SubSeq(parts, 1, m)[j] = parts[j]
      BY <1>4, <2>2
    <2>4. QED
      BY <1>5, <2>2, <2>3, SeqEqual
  <1>7. SubSeq(parts, 1, i) = Append(below, parts[i])
    <2>1. SubSeq(parts, 1, i) = SubSeq(parts, 1, i - 1) \o <<parts[i]>>
      <3>1. 1 \in 1..Len(parts)
        BY <1>4
      <3>2. QED
        BY <1>2, <1>4, <3>1, SubSeqRecursiveSecond
    <2>2. parts[i] \in Seq(1..n)
      BY <1>3
    <2>3. QED
      BY <1>4, <1>5, <1>6, <2>1, <2>2, AppendIsConcat
  <1>8. PICK rest \in Seq(1..n) : FlattenSeq(parts) = FlattenSeq(SubSeq(parts, 1, i)) \o rest
    BY <1>2, <1>4, FlattenPrefix
  <1>9. /\ FlattenSeq(below) \in Seq(1..n)
        /\ FlattenSeq(SubSeq(parts, 1, i)) = FlattenSeq(below) \o Opened(P[i])
    BY <1>3, <1>5, <1>7, FlattenAppend
  <1>10. QED
    BY <1>a, <1>3, <1>8, <1>9

----------------------------------------------------------------------------
(* The contexts an activation and those below it have opened.              *)
LEMMA UnderNotEmpty ==
    ASSUME NEW n \in Nat, NEW P \in Seq(Frame(n)), NEW i \in 1..(Len(P) + 1), i # 1,
           P[1].context # None
    PROVE  Under(P, i) # <<>>
  <1> DEFINE F == [j \in 1..(i - 1) |-> P[j]]
             m == i - 1
  <1>1. Len(P) \in Nat /\ \A j \in 1..Len(P) : P[j] \in Frame(n)
    BY LenProperties, ElementOfSeq
  <1>2. m \in Nat /\ m # 0 /\ m = i - 1 /\ m <= Len(P)
    BY <1>1
  <1>3. F \in Seq(Frame(n)) /\ Len(F) = m /\ F[1].context # None /\ DOMAIN F = 1..m
    <2>1. F = [j \in 1..m |-> P[j]]
      OBVIOUS
    <2> HIDE DEF F, m
    <2>2. \A j \in 1..m : P[j] \in Frame(n)
      BY <1>1, <1>2
    <2>3. F \in Seq(Frame(n)) /\ Len(F) = m /\ DOMAIN F = 1..m
      BY <1>2, <2>1, <2>2
    <2>4. F[1] = P[1]
      BY <1>2, <2>1
    <2>5. QED
      BY <2>3, <2>4
  <1>4. OpenedBy(F) = Under(P, i)
    <2>1. [j \in DOMAIN F |-> Opened(F[j])] = [j \in 1..(i - 1) |-> Opened(P[j])]
      OBVIOUS
    <2>2. QED
      BY <2>1 DEF OpenedBy, Under
  <1> HIDE DEF F
  <1>5. F # <<>>
    BY <1>2, <1>3, EmptySeq
  <1>6. QED
    BY <1>3, <1>4, <1>5, OpenedByFirst

(* Where on the stack the contexts of a waiting activation are.            *)
LEMMA Mentioned ==
    ASSUME NEW n \in Nat, NEW P \in Seq(Frame(n)), NEW i \in 1..Len(P),
           i # 1 => P[1].context # None
    PROVE  /\ P[i].context # None => Holds(OpenedBy(P), P[i].context)
           /\ P[i].bestBranch # None => Holds(OpenedBy(P), P[i].bestBranch)
           /\ P[i].branch # None => Holds(OpenedBy(P), P[i].branch)
           /\ i # 1 => Holds(OpenedBy(P), ReceiverOf(P, i))
           /\ NoRepetition(OpenedBy(P)) =>
                 /\ i # 1 /\ Opened(P[i]) # <<>> => ReceiverOf(P, i) # Last(OpenedBy(P))
                 /\ P[i].branch # None =>
                       /\ P[i].context # None => P[i].context # Last(OpenedBy(P))
                       /\ P[i].bestBranch # None => P[i].bestBranch # Last(OpenedBy(P))
  <1> DEFINE f == P[i]
             X == 1..n
             u == Under(P, i)
             p == Pushed(f.context)
             q == Pushed(f.bestBranch)
             w == p \o q
             v == Pushed(f.branch)
             o == w \o v
             s == OpenedBy(P)
  <1>1. f \in Frame(n)
    BY ElementOfSeq
  <1>2. PICK rest \in Seq(X) : u \in Seq(X) /\ s = (u \o o) \o rest
    BY StackAround DEF Opened
  <1>3. p \in Seq(X) /\ q \in Seq(X) /\ v \in Seq(X)
    <2>1. f.context \in Pointer(n) /\ f.bestBranch \in Pointer(n) /\ f.branch \in Pointer(n)
      BY <1>1 DEF Frame
    <2>2. QED
      BY <2>1, EmptySeq, OntoTyped
  <1>4. /\ f.context # None => Holds(p, f.context)
        /\ f.bestBranch # None => Holds(q, f.bestBranch)
        /\ f.branch # None => Holds(v, f.branch) /\ v # <<>>
    BY DEF Pushed, Holds
  <1>5. i # 1 => u # <<>> /\ ReceiverOf(P, i) = Last(u)
    <2>1. i \in 1..(Len(P) + 1)
      BY LenProperties
    <2>2. QED
      BY <2>1, UnderNotEmpty DEF ReceiverOf
  <1>6. Opened(P[i]) = o
    BY DEF Opened
  <1> DEFINE ctx == f.context
             best == f.bestBranch
             branch == f.branch
             r == ReceiverOf(P, i)
             inner == i # 1
  <1>a. w = p \o q /\ o = w \o v
    OBVIOUS
  <1> HIDE DEF f, u, p, q, v, s, w, o, X, ctx, best, branch, r, inner
  <1>b. /\ ctx # None => Holds(p, ctx)
        /\ best # None => Holds(q, best)
        /\ branch # None => Holds(v, branch) /\ v # <<>>
        /\ inner => u # <<>> /\ r = Last(u)
    BY <1>4, <1>5 DEF ctx, best, branch, inner, r
  <1>7. w \in Seq(X) /\ o \in Seq(X) /\ u \o o \in Seq(X)
    BY <1>2, <1>3, <1>a, ConcatProperties
  <1>8. \A x : Holds(s, x) <=> Holds(u, x) \/ Holds(p, x) \/ Holds(q, x) \/ Holds(v, x)
                              \/ Holds(rest, x)
    <2>1. \A x : Holds(w, x) <=> Holds(p, x) \/ Holds(q, x)
      BY <1>3, <1>a, HeldByConcat
    <2>2. \A x : Holds(o, x) <=> Holds(w, x) \/ Holds(v, x)
      BY <1>3, <1>7, <1>a, HeldByConcat
    <2>3. \A x : Holds(u \o o, x) <=> Holds(u, x) \/ Holds(o, x)
      BY <1>2, <1>7, HeldByConcat
    <2>4. \A x : Holds(s, x) <=> Holds(u \o o, x) \/ Holds(rest, x)
      BY <1>2, <1>7, HeldByConcat
    <2>5. QED
      BY <2>1, <2>2, <2>3, <2>4
  <1>9. inner => Holds(u, r)
    BY <1>2, <1>b, LastIsHeld
  <1>10. ASSUME NoRepetition(s), inner, o # <<>> PROVE r # Last(s)
    <2> DEFINE y == o \o rest
    <2>1. y \in Seq(X) /\ y # <<>>
      BY <1>2, <1>7, <1>10, ConcatProperties, ConcatEqualIffEmpty
    <2>2. s = u \o y
      <3>1. \A x, z : x = u \o o /\ z = x \o rest => z = u \o (o \o rest)
        BY <1>2, <1>7, ConcatThrice
      <3>2. QED
        BY <1>2, <3>1
    <2> HIDE DEF y
    <2>3. QED
      BY <1>2, <1>9, <1>10, <2>1, <2>2, NotLast
  <1>11. ASSUME NoRepetition(s), v # <<>>, NEW x, Holds(p, x) \/ Holds(q, x) PROVE x # Last(s)
    <2> DEFINE h == u \o w
               y == v \o rest
    <2>1. /\ h \in Seq(X) /\ y \in Seq(X) /\ y # <<>>
      BY <1>2, <1>3, <1>7, <1>11, ConcatProperties, ConcatEqualIffEmpty
    <2>2. Holds(h, x)
      BY <1>2, <1>3, <1>7, <1>11, <1>a, HeldByConcat
    <2>3. u \o o = h \o v
      <3>1. \A x1, z : x1 = u \o w /\ z = x1 \o v => z = u \o (w \o v)
        <4>1. u \in Seq(X) /\ w \in Seq(X) /\ v \in Seq(X)
          BY <1>2, <1>3, <1>7
        <4>2. QED
          BY <4>1, ConcatThrice
      <3>2. QED
        BY <1>a, <3>1
    <2> HIDE DEF h
    <2>4. s = h \o y
      <3>1. \A x1, z : x1 = h \o v /\ z = x1 \o rest => z = h \o (v \o rest)
        <4>1. h \in Seq(X) /\ v \in Seq(X) /\ rest \in Seq(X)
          BY <1>2, <1>3, <2>1
        <4>2. QED
          BY <4>1, ConcatThrice
      <3>2. QED
        BY <1>2, <2>3, <3>1
    <2> HIDE DEF y
    <2>5. QED
      BY <1>11, <2>1, <2>2, <2>4, NotLast
  <1>12. /\ ctx # None => Holds(s, ctx)
         /\ best # None => Holds(s, best)
         /\ branch # None => Holds(s, branch)
         /\ inner => Holds(s, r)
         /\ NoRepetition(s) =>
               /\ inner /\ o # <<>> => r # Last(s)
               /\ branch # None => /\ ctx # None => ctx # Last(s)
                                   /\ best # None => best # Last(s)
    BY <1>8, <1>9, <1>10, <1>11, <1>b
  <1>13. QED
    BY <1>6, <1>12 DEF f, ctx, best, branch, inner, r, s

----------------------------------------------------------------------------
(* A context keeps its first k assignments; those past them begin at b or  *)
(* after it.                                                               *)
Extends(H, H2, d, k, b) ==
    /\ k \in Nat /\ k <= Len(Assigned(H, d)) /\ k <= Len(Assigned(H2, d))
    /\ \A j \in DOMAIN Assigned(H2, d) :
          IF j <= k THEN j \in DOMAIN Assigned(H, d) /\ Assigned(H2, d)[j] = Assigned(H, d)[j]
          ELSE Assigned(H2, d)[j].begin >= b
AssignmentsOf(H, c) == \E n \in Nat : Assigned(H, c) \in Seq(Assignment(n))

(* The assignments are a sequence of numbers from and to.                  *)
LEMMA AssignedTyped ==
    ASSUME NEW H, NEW c, AssignmentsOf(H, c)
    PROVE  /\ Len(Assigned(H, c)) \in Nat
           /\ DOMAIN Assigned(H, c) = 1..Len(Assigned(H, c))
           /\ \A j \in DOMAIN Assigned(H, c) : Assigned(H, c)[j].begin \in Nat
                                               /\ Assigned(H, c)[j].count \in Nat
  <1> DEFINE s == Assigned(H, c)
  <1>1. PICK n \in Nat : s \in Seq(Assignment(n))
    BY DEF AssignmentsOf
  <1> HIDE DEF s
  <1>2. Len(s) \in Nat /\ DOMAIN s = 1..Len(s) /\ \A j \in DOMAIN s : s[j] \in Assignment(n)
    BY <1>1, LenProperties, ElementOfSeq
  <1>3. \A j \in DOMAIN s : s[j].begin \in Nat /\ s[j].count \in Nat
    BY <1>2 DEF Assignment
  <1>4. QED
    BY <1>2, <1>3 DEF s

(* What a longer context keeps.                                            *)
LEMMA ExtendedFrom ==
    ASSUME NEW H, NEW H2, NEW d, NEW k, NEW b \in Nat, Extends(H, H2, d, k, b),
           AssignmentsOf(H, d), AssignmentsOf(H2, d), NEW p \in Nat, p <= b
    PROVE  /\ From(H, d, p) => From(H2, d, p)
           /\ \A m \in Nat : m <= k /\ SplitAt(H, d, m, p) => SplitAt(H2, d, m, p)
  <1>1. \A j \in DOMAIN Assigned(H2, d) : Assigned(H2, d)[j].begin \in Nat /\ j \in Nat
    BY AssignedTyped
  <1>2. k \in Nat /\ Len(Assigned(H2, d)) \in Nat
    BY AssignedTyped DEF Extends
  <1>3. From(H, d, p) => From(H2, d, p)
    BY <1>1, <1>2 DEF From, Extends
  <1>4. ASSUME NEW m \in Nat, m <= k, SplitAt(H, d, m, p) PROVE SplitAt(H2, d, m, p)
    BY <1>1, <1>2, <1>4 DEF SplitAt, Extends
  <1>5. QED
    BY <1>3, <1>4

Same(H, H2, c) == Assigned(H2, c) = Assigned(H, c)

(* Of the same assignments the same holds.                                 *)
LEMMA SameAssignments ==
    ASSUME NEW H, NEW H2, NEW c, Same(H, H2, c)
    PROVE  /\ \A p : EndBy(H2, c, p) <=> EndBy(H, c, p)
           /\ \A p : From(H2, c, p) <=> From(H, c, p)
           /\ \A m, p : SplitAt(H2, c, m, p) <=> SplitAt(H, c, m, p)
  BY DEF Same, EndBy, From, SplitAt

(* What an activation says of the assignments is kept where the contexts   *)
(* it mentions are.                                                        *)
SameFor(H, H2, f, r, inner) ==
    /\ inner => Same(H, H2, r)
    /\ f.context # None => Same(H, H2, f.context)
    /\ f.bestBranch # None => Same(H, H2, f.bestBranch)
    /\ f.branch # None => Same(H, H2, f.branch)

(* An activation whose contexts are left alone.                            *)
LEMMA FrameSame ==
    ASSUME NEW H, NEW H2, NEW f, NEW r, NEW inner \in BOOLEAN, SameFor(H, H2, f, r, inner),
           inner \/ f.context # None \/ f.phase = "begin"
    PROVE  /\ FrameMarks(f, r, H, inner) => FrameMarks(f, r, H2, inner)
           /\ TopReach(f, r, H) => TopReach(f, r, H2)
  <1>1. /\ inner => /\ \A p : EndBy(H, r, p) => EndBy(H2, r, p)
                    /\ \A m, p : SplitAt(H, r, m, p) => SplitAt(H2, r, m, p)
        /\ \A c \in {f.context, f.bestBranch, f.branch} : c # None =>
              \A p : (EndBy(H, c, p) => EndBy(H2, c, p)) /\ (From(H, c, p) => From(H2, c, p))
    BY SameAssignments DEF SameFor
  <1>2. FrameMarks(f, r, H, inner) => FrameMarks(f, r, H2, inner)
    BY <1>1 DEF FrameMarks, Plain, Own
  <1>3. TopReach(f, r, H) => TopReach(f, r, H2)
    BY <1>1 DEF TopReach, Own
  <1>4. QED
    BY <1>2, <1>3

(* A write to one context, d, that a waiting activation waits for.         *)
LEMMA WaitingFrameKept ==
    ASSUME NEW n \in Nat, NEW f \in Frame(n), f.phase = "fed", GoodFrame(f),
           NEW H, NEW H2, NEW r, NEW inner \in BOOLEAN, FrameMarks(f, r, H, inner),
           inner \/ f.context # None,
           NEW d, NEW k, NEW b \in Nat, Extends(H, H2, d, k, b), f.begin <= b,
           AssignmentsOf(H, d), AssignmentsOf(H2, d),
           inner /\ r # d => Same(H, H2, r),
           f.context # None /\ f.context # d => Same(H, H2, f.context),
           f.bestBranch # None /\ f.bestBranch # d => Same(H, H2, f.bestBranch),
           f.branch # None /\ f.branch # d => Same(H, H2, f.branch),
           inner /\ (f.context # None \/ f.branch # None) => r # d,
           f.branch # None => /\ f.context # None => f.context # d
                              /\ f.bestBranch # None => f.bestBranch # d,
           f.context = None /\ r = d => f.mark <= k
    PROVE  FrameMarks(f, r, H2, inner)
  <1>0. f.begin \in Nat /\ f.mark \in Nat
    BY DEF Frame
  <1>1. /\ From(H, d, f.begin) => From(H2, d, f.begin)
        /\ \A m \in Nat : m <= k /\ SplitAt(H, d, m, f.begin) => SplitAt(H2, d, m, f.begin)
    BY <1>0, ExtendedFrom
  <1>2. /\ inner /\ r # d => /\ \A p : EndBy(H, r, p) => EndBy(H2, r, p)
                             /\ \A m, p : SplitAt(H, r, m, p) => SplitAt(H2, r, m, p)
        /\ \A c \in {f.context, f.bestBranch, f.branch} : c # None /\ c # d =>
              \A p : (EndBy(H, c, p) => EndBy(H2, c, p)) /\ (From(H, c, p) => From(H2, c, p))
    BY SameAssignments
  <1>3. f.branch = None => f.bestBranch = None /\ Shape[f.rec].kind # "selector"
    BY DEF GoodFrame
  <1>4. Span(f)
    BY DEF FrameMarks
  <1>5. Plain(f) => SplitAt(H2, r, f.mark, f.begin)
    BY <1>0, <1>1, <1>2 DEF FrameMarks, Plain
  <1>6. inner /\ ~Plain(f) => EndBy(H2, r, f.begin)
    BY <1>2 DEF FrameMarks, Plain
  <1>7. /\ f.context # None => From(H2, f.context, f.begin)
        /\ f.branch # None => From(H2, f.branch, f.begin)
    BY <1>1, <1>2 DEF FrameMarks
  <1>8. f.bestBranch # None => /\ From(H2, f.bestBranch, f.begin)
                               /\ f.best >= 0 /\ EndBy(H2, f.bestBranch, f.begin + f.best)
    BY <1>2, <1>3 DEF FrameMarks
  <1>9. Shape[f.rec].kind = "selector" /\ f.phase \in {"feed", "fed"} =>
           EndBy(H2, Own(f, r), f.begin)
    BY <1>2, <1>3 DEF FrameMarks, Own
  <1>10. QED
    BY <1>4, <1>5, <1>6, <1>7, <1>8, <1>9 DEF FrameMarks

----------------------------------------------------------------------------
(* The context that the innermost activation finds below it.               *)
Base(P) == ReceiverOf(P, Len(P) + 1)

(* It is the last of the handler stack below.                              *)
LEMMA BaseIsLast ==
    ASSUME NEW n \in Nat, NEW P \in Seq(Frame(n)), NEW f \in Frame(n)
    PROVE  /\ Base(P) = Last(OpenedBy(P)) /\ OpenedBy(P) \in Seq(1..n)
           /\ ReceiverOf(Append(P, f), Len(P) + 1) = Base(P)
           /\ \A i \in 1..Len(P) : ReceiverOf(Append(P, f), i) = ReceiverOf(P, i)
  <1>1. Len(P) \in Nat
    BY LenProperties
  <1>2. OpenedBy(P) \in Seq(1..n)
    BY OpenedByAppend
  <1>3. /\ \A i \in 1..(Len(P) + 1) : Under(Append(P, f), i) = Under(P, i)
        /\ Under(P, Len(P) + 1) = OpenedBy(P)
    BY UnderAppend
  <1>4. QED
    BY <1>1, <1>2, <1>3 DEF Base, ReceiverOf

(* The activations that wait, from the last of them.                       *)
LEMMA BelowOfAppend ==
    ASSUME NEW n \in Nat, NEW P \in Seq(Frame(n)), NEW f \in Frame(n), NEW H
    PROVE  BelowMarks(Append(P, f), H) <=>
              /\ BelowMarks(P, H)
              /\ AboveMarks(P, f, Base(P))
              /\ FrameMarks(f, Base(P), H, P # <<>>)
  <1> DEFINE W == Append(P, f)
             m == Len(P)
             q == m + 1
  <1>1. /\ m \in Nat /\ q = m + 1 /\ DOMAIN P = 1..m /\ DOMAIN W = 1..q /\ W[q] = f
        /\ \A i \in 1..m : W[i] = P[i]
    <2>1. /\ m \in Nat /\ DOMAIN P = 1..m /\ W \in Seq(Frame(n)) /\ Len(W) = m + 1
          /\ W[m + 1] = f /\ \A i \in 1..m : W[i] = P[i]
      BY LenProperties, AppendProperties
    <2> HIDE DEF W, m
    <2>2. QED
      BY <2>1, LenProperties
  <1>2. ReceiverOf(W, q) = Base(P) /\ \A i \in 1..m : ReceiverOf(W, i) = ReceiverOf(P, i)
    BY BaseIsLast
  <1>3. (P # <<>> <=> q # 1) /\ (P # <<>> => Last(P) = P[m])
    BY <1>1, EmptySeq DEF Last
  <1>a. Len(P) = m
    OBVIOUS
  <1> HIDE DEF W, q, m
  <1>4. 1..q = (1..m) \cup {q} /\ q \notin 1..m
    BY <1>1
  <1> DEFINE u == P # <<>>
  <1>b. u = (q # 1)
    BY <1>3
  <1> HIDE DEF u
  <1>5. (\A i \in DOMAIN W : FrameMarks(W[i], ReceiverOf(W, i), H, i # 1)) <=>
           /\ \A i \in DOMAIN P : FrameMarks(P[i], ReceiverOf(P, i), H, i # 1)
           /\ FrameMarks(f, Base(P), H, u)
    BY <1>1, <1>2, <1>4, <1>b
  <1>6. (\A i, j \in DOMAIN W : i < j => Pair(W[i], ReceiverOf(W, i), W[j], ReceiverOf(W, j))) <=>
           /\ \A i, j \in DOMAIN P : i < j => Pair(P[i], ReceiverOf(P, i), P[j], ReceiverOf(P, j))
           /\ \A i \in DOMAIN P : Pair(P[i], ReceiverOf(P, i), f, Base(P))
    <2>1. \A i \in 1..m : i < q /\ ~(q < i)
      BY <1>1
    <2>2. ~(q < q)
      BY <1>1
    <2>3. QED
      BY <1>1, <1>2, <1>4, <2>1, <2>2
  <1>7. (\A i \in DOMAIN W : i # 1 => W[i].begin = W[i - 1].pos) <=>
           /\ \A i \in DOMAIN P : i # 1 => P[i].begin = P[i - 1].pos
           /\ P # <<>> => f.begin = Last(P).pos
    <2>1. \A i \in 1..m : i # 1 => i - 1 \in 1..m
      BY <1>1
    <2>2. q # 1 => q - 1 \in 1..m /\ q - 1 = m
      BY <1>1
    <2>3. QED
      BY <1>1, <1>3, <1>4, <2>1, <2>2
  <1>8. QED
    BY <1>5, <1>6, <1>7 DEF BelowMarks, AboveMarks, W, u

(* The invariant of a thread, from its innermost activation.               *)
LEMMA JoinUndo ==
    ASSUME NEW n \in Nat, NEW P \in Seq(Frame(n)), NEW f \in Frame(n), NEW H,
           BelowMarks(P, H), AboveMarks(P, f, Base(P)), FrameMarks(f, Base(P), H, P # <<>>),
           TopReach(f, Base(P), H)
    PROVE  UndoThread(Append(P, f), H)
  <1>1. Front(Append(P, f)) = P /\ Last(Append(P, f)) = f
    BY AppendEnds
  <1>2. QED
    BY <1>1 DEF UndoThread, Base

(* ... and back.                                                           *)
LEMMA SplitUndo ==
    ASSUME NEW F, NEW H, UndoThread(F, H), F # <<>>
    PROVE  /\ BelowMarks(Front(F), H) /\ AboveMarks(Front(F), Last(F), Base(Front(F)))
           /\ FrameMarks(Last(F), Base(Front(F)), H, Front(F) # <<>>)
           /\ TopReach(Last(F), Base(Front(F)), H)
  BY DEF UndoThread, Base

(* The outermost activation has an element.                                *)
LEMMA FirstOpened ==
    ASSUME NEW n \in Nat, NEW P \in Seq(Frame(n)), P # <<>>, Waiting(P)
    PROVE  P[1].context # None /\ OpenedBy(P) # <<>>
  <1>1. 1 \in DOMAIN P
    BY LenProperties, EmptySeq
  <1>2. P[1].context # None
    BY <1>1 DEF Waiting, GoodFrame
  <1>3. QED
    BY <1>2, OpenedByFirst

(* A step that gives assignments to a context, or takes some away, keeps   *)
(* what is said of the waiting activations: the context is the last of     *)
(* those they opened or none of them.                                      *)
LEMMA BelowWritten ==
    ASSUME NEW n \in Nat, NEW P \in Seq(Frame(n)), Waiting(P), NEW H, NEW H2, BelowMarks(P, H),
           NoRepetition(OpenedBy(P)),
           NEW d, NEW k, NEW b \in Nat, Extends(H, H2, d, k, b),
           AssignmentsOf(H, d), AssignmentsOf(H2, d),
           d = Last(OpenedBy(P)) \/ ~Holds(OpenedBy(P), d),
           \A i \in DOMAIN P : P[i].begin <= b,
           \A i \in DOMAIN P : P[i].context = None /\ ReceiverOf(P, i) = d => P[i].mark <= k,
           \A c : Holds(OpenedBy(P), c) /\ c # d => Same(H, H2, c)
    PROVE  BelowMarks(P, H2)
  <1>1. SUFFICES ASSUME NEW i \in DOMAIN P PROVE FrameMarks(P[i], ReceiverOf(P, i), H2, i # 1)
    BY DEF BelowMarks
  <1> DEFINE f == P[i]
             r == ReceiverOf(P, i)
             s == OpenedBy(P)
             inner == i # 1
  <1>2. DOMAIN P = 1..Len(P) /\ f \in Frame(n) /\ P # <<>>
    BY LenProperties, ElementOfSeq, EmptySeq
  <1>3. P[1].context # None
    BY <1>2, FirstOpened
  <1>4. GoodFrame(f) /\ f.phase = "fed"
    BY DEF Waiting
  <1>5. FrameMarks(f, r, H, inner)
    BY DEF BelowMarks
  <1>6. /\ f.context # None => Holds(s, f.context)
        /\ f.bestBranch # None => Holds(s, f.bestBranch)
        /\ f.branch # None => Holds(s, f.branch)
        /\ inner => Holds(s, r)
        /\ inner /\ Opened(f) # <<>> => r # Last(s)
        /\ f.branch # None => /\ f.context # None => f.context # Last(s)
                              /\ f.bestBranch # None => f.bestBranch # Last(s)
    BY <1>2, <1>3, Mentioned
  <1>7. f.context # None \/ f.branch # None => Opened(f) # <<>>
    BY <1>2, OpenedTyped
  <1>8. inner \/ f.context # None
    BY <1>3
  <1>9. /\ inner \in BOOLEAN
        /\ \A c : Holds(s, c) /\ c # d => Same(H, H2, c)
        /\ d = Last(s) \/ ~Holds(s, d)
        /\ f.begin <= b /\ (f.context = None /\ r = d => f.mark <= k)
    OBVIOUS
  <1> HIDE DEF f, r, s, inner
  <1>10. FrameMarks(f, r, H2, inner)
    <2>1. /\ inner /\ r # d => Same(H, H2, r)
          /\ f.context # None /\ f.context # d => Same(H, H2, f.context)
          /\ f.bestBranch # None /\ f.bestBranch # d => Same(H, H2, f.bestBranch)
          /\ f.branch # None /\ f.branch # d => Same(H, H2, f.branch)
      BY <1>6, <1>9
    <2>2. /\ inner /\ (f.context # None \/ f.branch # None) => r # d
          /\ f.branch # None => /\ f.context # None => f.context # d
                                /\ f.bestBranch # None => f.bestBranch # d
      BY <1>6, <1>7, <1>9
    <2>3. QED
      BY <1>2, <1>4, <1>5, <1>8, <1>9, <2>1, <2>2, WaitingFrameKept
  <1>11. QED
    BY <1>10 DEF f, r, inner

(* A step that leaves their contexts alone keeps it too.                   *)
LEMMA BelowSame ==
    ASSUME NEW n \in Nat, NEW P \in Seq(Frame(n)), Waiting(P), NEW H, NEW H2, BelowMarks(P, H),
           \A c : Holds(OpenedBy(P), c) => Same(H, H2, c)
    PROVE  BelowMarks(P, H2)
  <1>1. SUFFICES ASSUME NEW i \in DOMAIN P PROVE FrameMarks(P[i], ReceiverOf(P, i), H2, i # 1)
    BY DEF BelowMarks
  <1> DEFINE f == P[i]
             r == ReceiverOf(P, i)
             inner == i # 1
  <1>2. DOMAIN P = 1..Len(P) /\ f \in Frame(n) /\ P # <<>>
    BY LenProperties, ElementOfSeq, EmptySeq
  <1>3. P[1].context # None
    BY <1>2, FirstOpened
  <1>4. SameFor(H, H2, f, r, inner)
    BY <1>2, <1>3, Mentioned DEF SameFor
  <1>5. inner \/ f.context # None
    BY <1>3
  <1>6. FrameMarks(f, r, H, inner) /\ inner \in BOOLEAN
    BY DEF BelowMarks
  <1> HIDE DEF f, r, inner
  <1>7. FrameMarks(f, r, H2, inner)
    BY <1>4, <1>5, <1>6, FrameSame
  <1>8. QED
    BY <1>7 DEF f, r, inner

(* What the innermost activation mentions.                                 *)
LEMMA TopMentioned ==
    ASSUME NEW n \in Nat, NEW P \in Seq(Frame(n)), Waiting(P), NEW f \in Frame(n)
    PROVE  LET s == OpenedBy(P) \o Opened(f)
           IN  /\ s \in Seq(1..n)
               /\ f.context # None => Holds(s, f.context)
               /\ f.bestBranch # None => Holds(s, f.bestBranch)
               /\ f.branch # None => Holds(s, f.branch)
               /\ P # <<>> => Holds(s, Base(P)) /\ Holds(OpenedBy(P), Base(P))
               /\ \A c : Holds(OpenedBy(P), c) => Holds(s, c)
               /\ NoRepetition(s) /\ f.branch # None =>
                     /\ f.context # None => f.context # f.branch
                     /\ f.bestBranch # None => f.bestBranch # f.branch
               /\ NoRepetition(s) /\ P # <<>> =>
                     /\ f.context # None => f.context # Base(P)
                     /\ f.bestBranch # None => f.bestBranch # Base(P)
                     /\ f.branch # None => f.branch # Base(P)
  <1> DEFINE F == Append(P, f)
             q == Len(P) + 1
             s == OpenedBy(P) \o Opened(f)
  <1>1. OpenedBy(P) \in Seq(1..n) /\ Opened(f) \in Seq(1..n) /\ OpenedBy(F) = s
    BY OpenedByAppend, OpenedTyped
  <1>2. F \in Seq(Frame(n)) /\ Len(F) = q /\ F[q] = f /\ q \in Nat /\ q # 0
        /\ \A i \in 1..Len(P) : F[i] = P[i]
    BY AppendProperties, LenProperties
  <1>3. P # <<>> <=> q # 1
    BY EmptySeq
  <1>4. P # <<>> => F[1].context # None /\ OpenedBy(P) # <<>>
    <2>1. ASSUME P # <<>> PROVE P[1].context # None /\ OpenedBy(P) # <<>> /\ 1 \in 1..Len(P)
      BY <2>1, FirstOpened, EmptySeq
    <2>2. QED
      BY <1>2, <2>1
  <1>5. s \in Seq(1..n)
    BY <1>1, ConcatProperties
  <1>6. ReceiverOf(F, q) = Base(P) /\ Base(P) = Last(OpenedBy(P))
    BY BaseIsLast
  <1> HIDE DEF F, q
  <1>7. /\ f.context # None => Holds(s, f.context)
        /\ f.bestBranch # None => Holds(s, f.bestBranch)
        /\ f.branch # None => Holds(s, f.branch)
    <2>1. q \in 1..Len(F) /\ (q # 1 => F[1].context # None)
      BY <1>2, <1>3, <1>4
    <2>2. QED
      BY <1>1, <1>2, <2>1, Mentioned
  <1>8. \A c : Holds(OpenedBy(P), c) => Holds(s, c)
    BY <1>1, HeldByConcat
  <1>9. P # <<>> => Holds(OpenedBy(P), Base(P))
    BY <1>1, <1>4, <1>6, LastIsHeld
  <1> DEFINE p == Pushed(f.context)
             y == Pushed(f.bestBranch)
             w == p \o y
             v == Pushed(f.branch)
             o == OpenedBy(P)
             X == 1..n
  <1>10. p \in Seq(X) /\ y \in Seq(X) /\ v \in Seq(X) /\ o \in Seq(X)
    <2>1. f.context \in Pointer(n) /\ f.bestBranch \in Pointer(n) /\ f.branch \in Pointer(n)
      BY DEF Frame
    <2>2. QED
      BY <1>1, <2>1, OntoTyped
  <1>11. /\ f.context # None => Holds(p, f.context)
         /\ f.bestBranch # None => Holds(y, f.bestBranch)
         /\ f.branch # None => v = <<f.branch>> /\ f.branch \in X
    BY DEF Pushed, Holds, Frame, Pointer, None
  <1>12. Opened(f) = w \o v /\ s = o \o Opened(f)
    BY DEF Opened
  <1>a. w = p \o y
    OBVIOUS
  <1> DEFINE ctx == f.context
             best == f.bestBranch
             branch == f.branch
             base == Base(P)
             inner == P # <<>>
  <1>b. /\ ctx # None => Holds(p, ctx)
        /\ best # None => Holds(y, best)
        /\ branch # None => v = <<branch>> /\ branch \in X
        /\ inner => Holds(o, base) /\ o # <<>> /\ base = Last(o)
    BY <1>4, <1>6, <1>9, <1>11
  <1> HIDE DEF s, p, y, v, w, o, X, ctx, best, branch, base, inner
  <1>13. w \in Seq(X) /\ w \o v \in Seq(X) /\ o \o w \in Seq(X)
    BY <1>10, <1>a, ConcatProperties
  <1>14. ASSUME NoRepetition(s), branch # None, NEW x, Holds(p, x) \/ Holds(y, x)
         PROVE  x # branch
    <2> DEFINE h == o \o w
    <2>1. h \in Seq(X) /\ Holds(h, x)
      BY <1>10, <1>13, <1>14, <1>a, HeldByConcat
    <2>2. s = h \o v
      <3>1. \A x1, z : x1 = o \o w /\ z = x1 \o v => z = o \o (w \o v)
        <4>1. o \in Seq(X) /\ w \in Seq(X) /\ v \in Seq(X)
          BY <1>10, <1>13
        <4>2. QED
          BY <4>1, ConcatThrice
      <3>2. QED
        BY <1>12, <3>1
    <2> HIDE DEF h
    <2>3. v = <<branch>> /\ branch \in X
      BY <1>14, <1>b
    <2>a. v # <<>>
      BY <2>3
    <2>4. Last(s) = branch
      <3>1. s = Append(h, branch)
        BY <2>1, <2>2, <2>3, AppendConcat
      <3>2. QED
        BY <2>1, <2>3, <3>1, AppendEnds
    <2>5. QED
      BY <1>10, <1>14, <2>1, <2>2, <2>a, <2>4, NotLast
  <1>15. ASSUME NoRepetition(s), inner, NEW x, Holds(w \o v, x) PROVE x # base
    <2>1. Holds(o, base)
      BY <1>b, <1>15
    <2> DEFINE z == w \o v
    <2>2. z \in Seq(X) /\ s = o \o z /\ Holds(z, x)
      BY <1>12, <1>13, <1>15
    <2> HIDE DEF z
    <2>3. /\ Len(o) \in Nat /\ DOMAIN o = 1..Len(o) /\ Len(z) \in Nat /\ DOMAIN z = 1..Len(z)
          /\ s \in Seq(X) /\ DOMAIN s = 1..(Len(o) + Len(z))
          /\ \A i \in 1..(Len(o) + Len(z)) : s[i] = IF i <= Len(o) THEN o[i] ELSE z[i - Len(o)]
      <3>1. /\ Len(o) \in Nat /\ DOMAIN o = 1..Len(o) /\ Len(z) \in Nat /\ DOMAIN z = 1..Len(z)
        BY <1>10, <2>2, LenProperties
      <3>2. /\ s \in Seq(X) /\ Len(s) = Len(o) + Len(z)
            /\ \A i \in 1..(Len(o) + Len(z)) : s[i] = IF i <= Len(o) THEN o[i] ELSE z[i - Len(o)]
        BY <1>10, <2>2, ConcatProperties
      <3>3. DOMAIN s = 1..Len(s)
        BY <3>2, LenProperties
      <3>4. QED
        BY <3>1, <3>2, <3>3
    <2>4. PICK i \in DOMAIN o : o[i] = base
      BY <2>1 DEF Holds
    <2>5. PICK j \in DOMAIN z : z[j] = x
      BY <2>2 DEF Holds
    <2>6. i \in DOMAIN s /\ s[i] = base /\ j + Len(o) \in DOMAIN s /\ s[j + Len(o)] = x
          /\ i # j + Len(o)
      <3>1. j + Len(o) \in 1..(Len(o) + Len(z)) /\ ~(j + Len(o) <= Len(o))
            /\ j + Len(o) - Len(o) = j
        BY <2>3
      <3>2. s[j + Len(o)] = x
        BY <2>3, <2>5, <3>1
      <3>3. QED
        BY <2>3, <2>4, <3>1, <3>2
    <2>7. QED
      BY <1>15, <2>6 DEF NoRepetition
  <1>16. \A x : Holds(w \o v, x) <=> Holds(p, x) \/ Holds(y, x) \/ Holds(v, x)
    <2>1. \A x : Holds(w, x) <=> Holds(p, x) \/ Holds(y, x)
      BY <1>10, <1>a, HeldByConcat
    <2>2. \A x : Holds(w \o v, x) <=> Holds(w, x) \/ Holds(v, x)
      BY <1>10, <1>13, HeldByConcat
    <2>3. QED
      BY <2>1, <2>2
  <1>17. branch # None => Holds(v, branch)
    BY <1>b DEF Holds
  <1>18. /\ NoRepetition(s) /\ branch # None =>
               /\ ctx # None => ctx # branch
               /\ best # None => best # branch
         /\ NoRepetition(s) /\ inner =>
               /\ ctx # None => ctx # base
               /\ best # None => best # base
               /\ branch # None => branch # base
    BY <1>14, <1>15, <1>16, <1>17, <1>b
  <1>19. QED
    BY <1>5, <1>7, <1>8, <1>9, <1>18 DEF s, ctx, best, branch, base, inner, o

(* Whatever happens to contexts that are not on its stack, the invariant   *)
(* of a thread is kept.                                                    *)
LEMMA ThreadSame ==
    ASSUME NEW n \in Nat, NEW st, NEW F \in Seq(Frame(n)), NEW S, GoodThread(st, F, S),
           NEW H, NEW H2, UndoThread(F, H), \A c : Holds(S, c) => Same(H, H2, c)
    PROVE  UndoThread(F, H2)
  <1> SUFFICES ASSUME F # <<>> PROVE UndoThread(F, H2)
    BY DEF UndoThread
  <1> DEFINE P == Front(F)
             f == Last(F)
             r == Base(P)
             inner == P # <<>>
  <1>1. /\ Waiting(P) /\ GoodFrame(f) /\ (P = <<>> => f.rec \in Handled)
        /\ P \in Seq(Frame(n)) /\ f \in Frame(n) /\ S = OpenedBy(P) \o Opened(f)
    BY SplitThread
  <1>2. BelowMarks(P, H) /\ AboveMarks(P, f, r)
        /\ FrameMarks(f, r, H, inner) /\ TopReach(f, r, H)
    BY SplitUndo
  <1>3. F = Append(P, f)
    BY EndsAppend
  <1> HIDE DEF P, f
  <1>4. BelowMarks(P, H2)
    BY <1>1, <1>2, TopMentioned, BelowSame
  <1>5. SameFor(H, H2, f, r, inner) /\ inner \in BOOLEAN
    BY <1>1, TopMentioned DEF SameFor
  <1>6. inner \/ f.context # None \/ f.phase = "begin"
    BY <1>1 DEF GoodFrame
  <1> HIDE DEF r, inner
  <1>7. FrameMarks(f, r, H2, inner) /\ TopReach(f, r, H2)
    BY <1>2, <1>5, <1>6, FrameSame
  <1>8. QED
    BY <1>1, <1>2, <1>3, <1>4, <1>7, JoinUndo DEF r, inner

----------------------------------------------------------------------------
(* The assignments of a context have their type.                           *)
LEMMA HeapAssignments ==
    ASSUME NEW n \in Nat, NEW heap \in HeapOf(n), NEW c \in 1..n
    PROVE  AssignmentsOf(heap, c) /\ Assigned(heap, c) \in Seq(Assignment(n))
  BY AssignmentsTyped DEF AssignmentsOf, Assigned

(* No context is twice on the handler stacks.                              *)
LEMMA StacksDistinct ==
    ASSUME NEW n \in Nat, TypedWith(n), HoldersInv
    PROVE  /\ \A t \in Thread : NoRepetition(handlerStack[t])
           /\ \A t, u \in Thread : \A c : Holds(handlerStack[t], c) /\ Holds(handlerStack[u], c)
                 => t = u
           /\ \A t \in Thread : \A c : Holds(handlerStack[t], c) => c \in 1..n
  <1>1. StacksApart(handlerStack)
    BY DEF HoldersInv, Apart
  <1>2. ASSUME NEW t \in Thread, NEW c, Holds(handlerStack[t], c) PROVE c \in 1..n
    <2> DEFINE s == handlerStack[t]
    <2>1. s \in Seq(1..n)
      BY DEF TypedWith
    <2>2. Holds(s, c)
      BY <1>2
    <2> HIDE DEF s
    <2>3. QED
      BY <2>1, <2>2, LenProperties, ElementOfSeq DEF Holds
  <1>3. QED
    BY <1>1, <1>2 DEF StacksApart, NoRepetition, Holds

(* A step of one thread: the others neither see nor feel it.               *)
LEMMA StepUndo ==
    ASSUME NEW n \in Nat, TypedWith(n), ThreadsInv, HoldersInv, UndoInv, NEW t \in Thread,
           \A u \in Thread : u # t => frames'[u] = frames[u],
           \A c \in 1..n : ~Holds(handlerStack[t], c) => Same(contexts, contexts', c),
           UndoThread(frames'[t], contexts')
    PROVE  UndoInv'
  <1>1. ASSUME NEW u \in Thread, u # t PROVE UndoThread(frames[u], contexts')
    <2> DEFINE F == frames[u]
               S == handlerStack[u]
               st == status[u]
               H == contexts
               H2 == contexts'
    <2>1. GoodThread(st, F, S) /\ UndoThread(F, H) /\ F \in Seq(Frame(n))
      BY DEF ThreadsInv, UndoInv, TypedWith, FramesOf
    <2>2. \A c : Holds(S, c) => Same(H, H2, c)
      BY <1>1, StacksDistinct
    <2> HIDE DEF F, S, st, H, H2
    <2>3. UndoThread(F, H2)
      BY <2>1, <2>2, ThreadSame
    <2>4. QED
      BY <2>3 DEF F, H2
  <1>2. QED
    BY <1>1 DEF UndoInv

(* The innermost activation, with what the invariant says of it.           *)
LEMMA TopUndo ==
    ASSUME NEW n \in Nat, TypedWith(n), ThreadsInv, HoldersInv, UndoInv, NEW t \in Thread,
           NEW phase, InPhase(t, phase)
    PROVE  LET P == Front(frames[t])
               f == Top(t)
               r == Base(P)
           IN  /\ BelowMarks(P, contexts) /\ AboveMarks(P, f, r)
               /\ FrameMarks(f, r, contexts, P # <<>>) /\ TopReach(f, r, contexts)
               /\ P \in Seq(Frame(n)) /\ f \in Frame(n) /\ Waiting(P) /\ GoodFrame(f)
               /\ P = <<>> => f.rec \in Handled
               /\ f.phase = phase
               /\ OpenedBy(P) \in Seq(1..n) /\ NoRepetition(OpenedBy(P))
               /\ NoRepetition(OpenedBy(P) \o Opened(f))
               /\ handlerStack[t] = OpenedBy(P) \o Opened(f)
               /\ \A c \in 1..n : AssignmentsOf(contexts, c)
               /\ \A i \in DOMAIN P : P[i].begin <= f.begin
               /\ P # <<>> => r \in 1..n /\ Holds(OpenedBy(P), r) /\ r = Last(OpenedBy(P))
                              /\ OpenedBy(P) # <<>>
               /\ \A c : Holds(OpenedBy(P), c) => Holds(handlerStack[t], c)
  <1> DEFINE P == Front(frames[t])
             f == Top(t)
             r == Base(P)
             F == frames[t]
             o == OpenedBy(P)
             S == handlerStack[t]
  <1>1. /\ P \in Seq(Frame(n)) /\ f \in Frame(n) /\ Waiting(P) /\ GoodFrame(f)
        /\ (P = <<>> => f.rec \in Handled) /\ f.phase = phase
        /\ o \in Seq(1..n) /\ S = o \o Opened(f) /\ F # <<>> /\ f = Last(F)
    BY TopThread DEF Top
  <1>2. UndoThread(F, contexts)
    BY DEF UndoInv
  <1>3. /\ BelowMarks(P, contexts) /\ AboveMarks(P, f, r)
        /\ FrameMarks(f, r, contexts, P # <<>>) /\ TopReach(f, r, contexts)
    BY <1>1, <1>2, SplitUndo
  <1>4. NoRepetition(S) /\ \A c : Holds(S, c) => c \in 1..n
    BY StacksDistinct
  <1>5. \A c \in 1..n : AssignmentsOf(contexts, c)
    BY HeapAssignments DEF TypedWith
  <1> HIDE DEF P, f, r, F, o, S
  <1>6. Opened(f) \in Seq(1..n)
    BY <1>1, OpenedTyped
  <1>7. NoRepetition(o)
    <2>1. /\ Len(o) \in Nat /\ DOMAIN o = 1..Len(o) /\ Len(Opened(f)) \in Nat
      BY <1>1, <1>6, LenProperties
    <2>2. /\ S \in Seq(1..n) /\ Len(S) = Len(o) + Len(Opened(f))
          /\ \A i \in 1..(Len(o) + Len(Opened(f))) :
                S[i] = IF i <= Len(o) THEN o[i] ELSE Opened(f)[i - Len(o)]
      BY <1>1, <1>6, ConcatProperties
    <2>3. DOMAIN S = 1..Len(S)
      BY <2>2, LenProperties
    <2>4. \A i \in DOMAIN o : i \in DOMAIN S /\ S[i] = o[i]
      BY <2>1, <2>2, <2>3
    <2>5. QED
      BY <1>4, <2>4 DEF NoRepetition
  <1>8. \A i \in DOMAIN P : P[i].begin <= f.begin
    <2>1. ASSUME NEW i \in DOMAIN P PROVE P[i].begin <= f.begin
      <3>1. P[i] \in Frame(n) /\ P[i].pos <= f.begin
        BY <1>1, <1>3, LenProperties, ElementOfSeq DEF AboveMarks, Pair
      <3>2. P[i].begin <= P[i].pos
        BY <1>3 DEF BelowMarks, FrameMarks, Span
      <3>3. P[i].begin \in Nat /\ P[i].pos \in Nat /\ f.begin \in Nat
        BY <1>1, <3>1 DEF Frame
      <3>4. QED
        BY <3>1, <3>2, <3>3
    <2>2. QED
      BY <2>1
  <1>9. \A c : Holds(o, c) => Holds(S, c)
    BY <1>1, <1>6, HeldByConcat
  <1>10. P # <<>> => r \in 1..n /\ Holds(o, r) /\ r = Last(o) /\ o # <<>>
    <2>1. P # <<>> => o # <<>>
      BY <1>1, FirstOpened DEF o
    <2>2. r = Last(o)
      BY <1>1, BaseIsLast DEF r, o
    <2>3. QED
      BY <1>1, <2>1, <2>2, LastIsHeld
  <1>11. QED
    BY <1>1, <1>3, <1>4, <1>5, <1>7, <1>8, <1>9, <1>10 DEF P, f, r, F, o, S

(* The innermost activation goes on where it began.                        *)
LEMMA AboveAgain ==
    ASSUME NEW P, NEW f, NEW r, AboveMarks(P, f, r), NEW g, g.begin = f.begin,
           Plain(g) => Plain(f) /\ g.mark = f.mark
    PROVE  AboveMarks(P, g, r)
  BY DEF AboveMarks, Pair

(* The innermost activation goes on.                                       *)
LEMMA BecomeUndo ==
    ASSUME NEW n \in Nat, TypedWith(n), ThreadsInv, NEW t \in Thread,
           NEW phase, InPhase(t, phase), NEW m \in Nat, n <= m, NEW g \in Frame(m),
           Become(t, g), NEW P, P = Front(frames[t]),
           BelowMarks(P, contexts'), AboveMarks(P, g, Base(P)),
           FrameMarks(g, Base(P), contexts', P # <<>>), TopReach(g, Base(P), contexts')
    PROVE  UndoThread(frames'[t], contexts') /\ \A u \in Thread : u # t => frames'[u] = frames[u]
  <1>1. Front(frames[t]) \in Seq(Frame(n))
    BY TopThread
  <1>2. P \in Seq(Frame(m))
    BY <1>1, PointersStayValid, SeqMonotonic
  <1>3. frames'[t] = Append(P, g) /\ \A u \in Thread : u # t => frames'[u] = frames[u]
    BY DEF Become, TypedWith, FramesOf
  <1> DEFINE H == contexts'
  <1>4. BelowMarks(P, H) /\ FrameMarks(g, Base(P), H, P # <<>>) /\ TopReach(g, Base(P), H)
    OBVIOUS
  <1> HIDE DEF H
  <1>5. UndoThread(Append(P, g), H)
    BY <1>2, <1>4, JoinUndo
  <1>6. QED
    BY <1>3, <1>5 DEF H

(* The context that an element called by an activation finds.              *)
LEMMA BaseAbove ==
    ASSUME NEW n \in Nat, NEW P \in Seq(Frame(n)), NEW f \in Frame(n)
    PROVE  /\ f.branch # None => Base(Append(P, f)) = f.branch
           /\ f.branch = None /\ f.bestBranch = None =>
                 Base(Append(P, f)) = Own(f, Base(P))
  <1> DEFINE o == OpenedBy(P)
             W == Append(P, f)
  <1>1. o \in Seq(1..n) /\ OpenedBy(W) = o \o Opened(f) /\ W \in Seq(Frame(n))
    BY OpenedByAppend, AppendProperties
  <1>2. Base(P) = Last(o) /\ Base(W) = Last(OpenedBy(W))
    <2>1. Base(P) = Last(o)
      BY BaseIsLast
    <2> HIDE DEF W
    <2>2. QED
      BY <1>1, <2>1, BaseIsLast
  <1> HIDE DEF o, W
  <1>3. o \o Opened(f) = Onto(Onto(Onto(o, f.context), f.bestBranch), f.branch)
    BY <1>1, OpenedOnto
  <1>4. f.context \in Pointer(n) /\ f.bestBranch \in Pointer(n) /\ f.branch \in Pointer(n)
    BY DEF Frame
  <1> DEFINE s == Onto(o, f.context)
             v == Onto(s, f.bestBranch)
  <1>5. s \in Seq(1..n)
    BY <1>1, <1>4, OntoTyped
  <1>6. v \in Seq(1..n)
    BY <1>4, <1>5, OntoTyped
  <1>7. ASSUME f.branch # None PROVE Base(W) = f.branch
    <2>1. f.branch \in 1..n
      BY <1>4, <1>7 DEF Pointer, None
    <2>2. Onto(v, f.branch) = Append(v, f.branch)
      BY <1>7 DEF Onto
    <2> HIDE DEF v
    <2>3. Last(Append(v, f.branch)) = f.branch
      BY <1>6, <2>1, AppendEnds
    <2>4. QED
      BY <1>1, <1>2, <1>3, <2>2, <2>3 DEF v
  <1>8. ASSUME f.branch = None, f.bestBranch = None PROVE Base(W) = Own(f, Base(P))
    <2>1. Base(W) = Last(s)
      BY <1>1, <1>2, <1>3, <1>8 DEF Onto
    <2>2. CASE f.context = None
      BY <1>2, <2>1, <2>2 DEF Onto, Own
    <2>3. CASE f.context # None
      <3>1. f.context \in 1..n
        BY <1>4, <2>3 DEF Pointer, None
      <3>2. s = Append(o, f.context)
        BY <2>3 DEF Onto
      <3>3. QED
        BY <1>1, <2>1, <2>3, <3>1, <3>2, AppendEnds DEF Own
    <2>4. QED
      BY <2>2, <2>3
  <1>9. QED
    BY <1>7, <1>8 DEF W

(* An activation that waits for the element it has called.                 *)
Fed(g) == [g EXCEPT !.phase = "fed"]

(* It calls feed() on an element.                                          *)
LEMMA CallUndo ==
    ASSUME NEW n \in Nat, TypedWith(n), ThreadsInv, NEW t \in Thread,
           NEW phase, InPhase(t, phase), NEW m \in Nat, n <= m, NEW g \in Frame(m),
           NEW element \in Recognizer, CallFeed(t, g, element),
           NEW P, P = Front(frames[t]),
           BelowMarks(P, contexts'), AboveMarks(P, Fed(g), Base(P)),
           FrameMarks(Fed(g), Base(P), contexts', P # <<>>),
           EndBy(contexts', Base(Append(P, Fed(g))), g.pos)
    PROVE  UndoThread(frames'[t], contexts') /\ \A u \in Thread : u # t => frames'[u] = frames[u]
  <1> DEFINE fed == Fed(g)
             called == Activation(element, g.pos)
             W == Append(P, fed)
             H == contexts'
  <1>1. Front(frames[t]) \in Seq(Frame(n))
    BY TopThread
  <1>2. P \in Seq(Frame(m))
    BY <1>1, PointersStayValid, SeqMonotonic
  <1>3. fed \in Frame(m) /\ fed.pos = g.pos /\ g.pos \in Nat
    BY DEF Frame, Phase, Fed
  <1>4. called \in Frame(m) /\ called.phase = "begin" /\ called.context = None
        /\ called.begin = g.pos /\ called.pos = g.pos /\ called.total = 0
        /\ called.branch = None /\ called.bestBranch = None
    <2>1. called \in Frame(m)
      BY <1>3, ActivationTyped
    <2>2. QED
      BY <2>1 DEF Activation
  <1>5. frames'[t] = P \o <<fed, called>> /\ \A u \in Thread : u # t => frames'[u] = frames[u]
    BY DEF CallFeed, TypedWith, FramesOf, Fed
  <1>6. P \o <<fed, called>> = Append(W, called)
    <2> HIDE DEF called, fed
    <2> QED BY <1>2, <1>3, <1>4, AppendTwo
  <1>7. W \in Seq(Frame(m)) /\ W # <<>> /\ Front(W) = P /\ Last(W) = fed
    BY <1>2, <1>3, AppendEnds
  <1>8. /\ BelowMarks(P, H) /\ AboveMarks(P, fed, Base(P)) /\ FrameMarks(fed, Base(P), H, P # <<>>)
        /\ EndBy(H, Base(W), g.pos)
    OBVIOUS
  <1> HIDE DEF called, H, fed
  <1>9. BelowMarks(W, H)
    BY <1>2, <1>3, <1>8, BelowOfAppend
  <1>10. AboveMarks(W, called, Base(W))
    <2>1. ~Plain(called)
      BY <1>4 DEF Plain
    <2>2. ASSUME NEW i \in DOMAIN W PROVE W[i].pos <= called.begin
      <3> DEFINE q == Len(P) + 1
      <3>1. /\ Len(P) \in Nat /\ DOMAIN W = 1..q /\ W[q] = fed /\ DOMAIN P = 1..Len(P)
            /\ \A j \in 1..Len(P) : W[j] = P[j]
        <4>1. /\ W \in Seq(Frame(m)) /\ Len(W) = q /\ W[q] = fed
              /\ \A j \in 1..Len(P) : W[j] = P[j]
          BY <1>2, <1>3, AppendProperties
        <4>2. Len(P) \in Nat /\ DOMAIN P = 1..Len(P)
          BY <1>2, LenProperties
        <4> HIDE DEF W
        <4>3. DOMAIN W = 1..Len(W)
          BY <4>1, LenProperties
        <4>4. QED
          BY <4>1, <4>2, <4>3
      <3> HIDE DEF W
      <3>2. CASE i = q
        BY <1>3, <1>4, <3>1, <3>2
      <3>3. CASE i # q
        <4>1. i \in DOMAIN P /\ W[i] = P[i]
          BY <3>1, <3>3
        <4>2. P[i].pos <= fed.begin /\ fed.begin <= fed.pos
          BY <1>8, <4>1 DEF AboveMarks, Pair, FrameMarks, Span
        <4>3. P[i] \in Frame(m)
          BY <1>2, <4>1, LenProperties, ElementOfSeq
        <4>4. P[i].pos \in Nat /\ fed.begin \in Nat
          BY <1>3, <4>3 DEF Frame
        <4>5. QED
          BY <1>3, <1>4, <4>1, <4>2, <4>4
      <3>4. QED
        BY <3>2, <3>3
    <2> HIDE DEF W
    <2>3. QED
      BY <1>3, <1>4, <1>7, <2>1, <2>2 DEF AboveMarks, Pair
  <1>11. FrameMarks(called, Base(W), H, W # <<>>) /\ TopReach(called, Base(W), H)
    <2> HIDE DEF W
    <2>1. Span(called) /\ ~Plain(called)
      BY <1>3, <1>4 DEF Span, Plain
    <2>2. QED
      BY <1>4, <1>8, <2>1 DEF FrameMarks, TopReach
  <1> HIDE DEF W
  <1>12. UndoThread(Append(W, called), H)
    BY <1>4, <1>7, <1>9, <1>10, <1>11, JoinUndo
  <1>13. QED
    BY <1>5, <1>6, <1>12 DEF H

(* It returns: what it has matched is what the activation below has        *)
(* gained.                                                                 *)
LEMMA ReturnUndo ==
    ASSUME NEW n \in Nat, TypedWith(n), ThreadsInv, NEW t \in Thread,
           NEW phase, InPhase(t, phase), Return(t),
           NEW P, P = Front(frames[t]), BelowMarks(P, contexts'), AboveMarks(P, Top(t), Base(P)),
           P # <<>> => EndBy(contexts', Base(P), Top(t).begin + Gain(Top(t).matched))
    PROVE  UndoThread(frames'[t], contexts') /\ \A u \in Thread : u # t => frames'[u] = frames[u]
  <1> DEFINE f == Top(t)
             q == f.matched
             H == contexts'
             p == [Last(P) EXCEPT !.matched = q]
  <1>1. P \in Seq(Frame(n)) /\ f \in Frame(n) /\ Waiting(P)
    BY TopThread
  <1>2. frames'[t] = (IF P = <<>> THEN <<>> ELSE Append(Front(P), p))
        /\ \A u \in Thread : u # t => frames'[u] = frames[u]
    BY DEF Return, TypedWith, FramesOf
  <1>a. /\ BelowMarks(P, H) /\ AboveMarks(P, f, Base(P))
        /\ P # <<>> => EndBy(H, Base(P), f.begin + Gain(q))
    OBVIOUS
  <1>b. q \in Matched
    BY <1>1 DEF Frame
  <1> HIDE DEF f, q, H
  <1>3. CASE P = <<>>
    BY <1>2, <1>3 DEF UndoThread
  <1>4. CASE P # <<>>
    <2> DEFINE Q == Front(P)
               g == Last(P)
    <2>1. /\ Q \in Seq(Frame(n)) /\ g \in Frame(n) /\ P = Append(Q, g) /\ GoodFrame(g)
          /\ g.phase = "fed"
      BY <1>1, <1>4, WaitingLess
    <2>2. f.begin = g.pos
      BY <1>4, <1>a DEF AboveMarks
    <2> HIDE DEF Q, g
    <2>3. BelowMarks(Q, H) /\ AboveMarks(Q, g, Base(Q)) /\ FrameMarks(g, Base(Q), H, Q # <<>>)
      BY <1>a, <2>1, BelowOfAppend
    <2>4. /\ p \in Frame(n) /\ p.matched = q /\ HoldsAs(g, p) /\ p.phase = g.phase
          /\ p.begin = g.begin /\ p.pos = g.pos /\ p.total = g.total /\ p.mark = g.mark
          /\ p.best = g.best
      <3>1. p = [g EXCEPT !.matched = q]
        BY DEF g
      <3> HIDE DEF p
      <3>2. QED
        BY <1>b, <2>1, <3>1 DEF Frame, HoldsAs
    <2> HIDE DEF p
    <2>5. AboveMarks(Q, p, Base(Q))
      <3>1. Plain(p) <=> Plain(g)
        BY <2>4 DEF Plain, HoldsAs
      <3>2. QED
        BY <2>3, <2>4, <3>1, AboveAgain
    <2>6. FrameMarks(p, Base(Q), H, Q # <<>>)
      BY <2>3, <2>4 DEF FrameMarks, Span, Plain, Own, HoldsAs
    <2>7. TopReach(p, Base(Q), H)
      <3>1. /\ g.branch # None => Base(P) = g.branch
            /\ g.branch = None => Base(P) = Own(g, Base(Q))
        <4>1. g.branch = None => g.bestBranch = None
          BY <2>1 DEF GoodFrame
        <4>2. QED
          BY <2>1, <4>1, BaseAbove
      <3>2. EndBy(H, IF p.branch # None THEN p.branch ELSE Own(p, Base(Q)), p.pos + Gain(p.matched))
        BY <1>4, <1>a, <2>2, <2>4, <3>1 DEF HoldsAs, Own
      <3>3. QED
        BY <2>1, <2>4, <3>2 DEF TopReach
    <2>8. UndoThread(Append(Q, p), H)
      BY <2>1, <2>3, <2>4, <2>5, <2>6, <2>7, JoinUndo
    <2>9. QED
      BY <1>2, <1>4, <2>8 DEF Q, H
  <1>5. QED
    BY <1>3, <1>4

----------------------------------------------------------------------------
(* What ends at a place ends at every later one.                           *)
LEMMA EndByMore ==
    ASSUME NEW H, NEW c, AssignmentsOf(H, c), NEW p \in Int, NEW q \in Int, p <= q,
           EndBy(H, c, p)
    PROVE  EndBy(H, c, q)
  <1>1. \A j \in DOMAIN Assigned(H, c) : Assigned(H, c)[j].begin \in Nat
                                         /\ Assigned(H, c)[j].count \in Nat
    BY AssignedTyped
  <1>2. QED
    BY <1>1 DEF EndBy

(* Where the assignments an activation has made so far may end.            *)
Reaches(f) == IF f.phase = "fed" THEN f.pos + Gain(f.matched) ELSE f.pos

(* What a recognizer that is no selector makes of its activation.          *)
NextOf(f, g) ==
    /\ HoldsAs(f, g)
    /\ g.begin = f.begin /\ g.mark = f.mark
    /\ g.phase \in {"feed", "end"}
    /\ Span(g)
    /\ g.phase = "feed" => Reaches(f) <= g.pos
    /\ g.phase = "end" /\ g.matched > 0 => Reaches(f) <= g.begin + g.matched

(* An activation answers.                                                  *)
LEMMA AnswerNext ==
    ASSUME NEW n \in Nat, NEW f \in Frame(n), Span(f), f.phase \in {"feed", "fed"},
           NEW m \in Matched, m > 0 => Reaches(f) <= f.begin + m
    PROVE  Answer(f, m) \in Frame(n) /\ NextOf(f, Answer(f, m))
  <1> DEFINE g == Answer(f, m)
  <1>1. g \in Frame(n)
    BY NextFrameTyped
  <1>2. /\ HoldsAs(f, g) /\ g.phase = "end" /\ g.matched = m /\ g.begin = f.begin
        /\ g.mark = f.mark /\ g.pos = f.pos /\ g.total = f.total
    BY DEF Frame, Answer, HoldsAs
  <1> HIDE DEF g
  <1>3. Span(g)
    BY <1>2 DEF Span, HoldsAs
  <1>4. QED
    BY <1>1, <1>2, <1>3 DEF NextOf, g

(* A sequence or a loop moves on.                                          *)
LEMMA AdvanceNext ==
    ASSUME NEW n \in Nat, NEW f \in Frame(n), Span(f), f.phase = "fed", f.matched # NPos,
           Shape[f.rec].kind \in {"sequence", "loop"}
    PROVE  /\ Advance(f) \in Frame(n) /\ NextOf(f, Advance(f))
           /\ Repeated(f) \in Frame(n) /\ NextOf(f, Repeated(f))
  <1> DEFINE pos == f.pos + f.matched
             total == f.total + f.matched
             index == f.index + 1
             g == Advance(f)
  <1>1. g = [f EXCEPT !.pos = pos, !.total = total, !.index = index, !.phase = "feed"]
    BY DEF Advance
  <1>2. g \in Frame(n) /\ Repeated(f) \in Frame(n)
    BY NextFrameTyped
  <1>3. /\ f.pos \in Nat /\ f.matched \in Nat /\ f.begin \in Nat /\ f.total \in Nat
    BY DEF Frame, Matched
  <1>4. /\ pos \in Nat /\ total = pos - f.begin /\ f.begin <= pos
        /\ Reaches(f) = pos
    BY <1>3 DEF Span, Reaches, Gain
  <1> HIDE DEF pos, total, index, g
  <1>5. /\ HoldsAs(f, g) /\ g.phase = "feed" /\ g.begin = f.begin
        /\ g.mark = f.mark /\ g.pos = pos /\ g.total = total
    BY <1>1 DEF Frame, HoldsAs
  <1>6. Span(g)
    BY <1>4, <1>5 DEF Span, HoldsAs
  <1>7. pos <= pos
    BY <1>4
  <1>8. NextOf(f, g)
    BY <1>4, <1>5, <1>6, <1>7 DEF NextOf
  <1>9. NextOf(f, Repeated(f))
    <2> DEFINE h == [g EXCEPT !.index = f.index]
    <2>1. Repeated(f) = g \/ Repeated(f) = h
      BY DEF Repeated, g
    <2>2. /\ HoldsAs(f, h) /\ h.phase = "feed" /\ h.begin = f.begin
          /\ h.mark = f.mark /\ h.pos = pos /\ h.total = total
      BY <1>2, <1>5 DEF Frame, HoldsAs
    <2> HIDE DEF h
    <2>3. Span(h)
      BY <1>4, <2>2 DEF Span, HoldsAs
    <2>4. NextOf(f, h)
      BY <1>4, <1>7, <2>2, <2>3 DEF NextOf
    <2>5. QED
      BY <1>8, <2>1, <2>4
  <1>10. QED
    BY <1>2, <1>8, <1>9 DEF g

(* Every step of a recognizer that is no selector is such a step, or a     *)
(* call.                                                                   *)
LEMMA PlainNext ==
    ASSUME NEW n \in Nat, TypedWith(n), NEW t \in Thread, PlainFeed(t), Span(Top(t))
    PROVE  \/ \E g \in Frame(n) : NextOf(Top(t), g) /\ Become(t, g)
           \/ Top(t).phase = "feed" /\ \E e \in Recognizer : CallFeed(t, Top(t), e)
  <1> DEFINE f == Top(t)
             Goal == \/ \E g \in Frame(n) : NextOf(f, g) /\ Become(t, g)
                     \/ f.phase = "feed" /\ \E e \in Recognizer : CallFeed(t, f, e)
  <1>0. \E phase \in {"feed", "fed"} : InPhase(t, phase)
    BY PlainGoesOn
  <1>1. f \in Frame(n) /\ Span(f) /\ f.phase \in {"feed", "fed"}
    BY <1>0, TopOfThread DEF InPhase
  <1>2. /\ f.matched \in Matched /\ f.total \in Nat /\ NPos \in Matched /\ f.pos \in Nat
        /\ f.begin \in Nat /\ ~(NPos > 0) /\ f.total = f.pos - f.begin
        /\ Gain(NPos) = 0 /\ \A m \in Matched : m <= 0 => Gain(m) = 0
        /\ \A m \in Matched : m > 0 => Gain(m) = m
    BY <1>1 DEF Frame, Matched, NPos, Span, Gain
  <1>3. f.total \in Matched
    BY <1>2 DEF Matched
  <1>4. \A r \in {"text", "delegate", "exclusive", "selector"} :
           Shape[f.rec].kind = r => f.pos = f.begin
    BY <1>1 DEF Span
  <1> HIDE DEF f
  <1>5. ASSUME NEW e \in Recognizer, CallFeed(t, f, e), f.phase = "feed" PROVE Goal
    BY <1>5
  <1>6. ASSUME NEW g \in Frame(n), Become(t, g), NextOf(f, g) PROVE Goal
    BY <1>6
  <1>7. ASSUME NEW m \in Matched, Become(t, Answer(f, m)),
               m > 0 => Reaches(f) <= f.begin + m
        PROVE Goal
    <2> DEFINE g == Answer(f, m)
    <2>1. g \in Frame(n) /\ NextOf(f, g)
      BY <1>1, <1>7, AnswerNext
    <2> HIDE DEF Goal
    <2>2. QED
      BY <1>6, <1>7, <2>1
  <1>8. ASSUME Become(t, LoopAnswer(f)) \/ Become(t, Answer(f, f.total)),
               Reaches(f) = f.pos
        PROVE Goal
    <2>1. Become(t, Answer(f, f.total)) \/ Become(t, Answer(f, NPos))
      BY <1>8 DEF LoopAnswer
    <2>2. Reaches(f) <= f.begin + f.total
      BY <1>2, <1>8
    <2> HIDE DEF Goal
    <2>3. QED
      BY <1>2, <1>3, <1>7, <2>1, <2>2
  <1>9. f.phase = "feed" => Reaches(f) = f.pos
    BY DEF Reaches
  <1>10. f.phase = "fed" => Reaches(f) = f.pos + Gain(f.matched)
    BY DEF Reaches
  <1>11. Goal
    <2> HIDE DEF Goal
    <2>1. CASE FeedText(t)
      <3> DEFINE m == MatchText(f.rec, Call(t).input, f.pos)
      <3>1. /\ Become(t, Answer(f, m)) /\ f.phase = "feed" /\ Shape[f.rec].kind = "text"
        BY <2>1 DEF FeedText, Running, InPhase, f
      <3>2. m \in Matched
        BY <1>1, RecognizerTyped
      <3> HIDE DEF m
      <3>3. m > 0 => Reaches(f) <= f.begin + m
        BY <1>2, <1>4, <1>9, <3>1, <3>2 DEF Matched
      <3>4. QED
        BY <1>7, <3>1, <3>2, <3>3
    <2>2. CASE FeedDelegate(t)
      BY <1>1, <1>5, <2>2, RecognizerTyped DEF FeedDelegate, Running, InPhase, f
    <2>3. CASE DelegateFed(t)
      <3>1. Become(t, Answer(f, f.matched)) /\ f.phase = "fed" /\ Shape[f.rec].kind = "delegate"
        BY <2>3 DEF DelegateFed, Running, InPhase, f
      <3>2. f.matched > 0 => Reaches(f) <= f.begin + f.matched
        BY <1>2, <1>4, <1>10, <3>1 DEF Matched
      <3>3. QED
        BY <1>2, <1>7, <3>1, <3>2
    <2>4. CASE FeedSequence(t)
      <3>1. /\ f.phase = "feed"
            /\ \/ MoreElements(f) /\ CallFeed(t, f, Elements(f)[f.index + 1])
               \/ Become(t, Answer(f, f.total))
        BY <2>4 DEF FeedSequence, Running, InPhase, f
      <3>2. QED
        BY <1>1, <1>5, <1>8, <1>9, <3>1, RecognizerTyped
    <2>5. CASE SequenceFed(t)
      <3>1. /\ f.phase = "fed" /\ Shape[f.rec].kind = "sequence"
            /\ \/ Become(t, Answer(f, NPos))
               \/ f.matched # NPos /\ Become(t, Advance(f))
        BY <2>5 DEF SequenceFed, Running, InPhase, f
      <3>2. QED
        BY <1>1, <1>2, <1>6, <1>7, <3>1, AdvanceNext
    <2>6. CASE FeedExclusive(t)
      <3>1. /\ f.phase = "feed"
            /\ \/ MoreElements(f) /\ CallFeed(t, f, Elements(f)[f.index + 1])
               \/ Become(t, Answer(f, NPos))
        BY <2>6 DEF FeedExclusive, Running, InPhase, f
      <3>2. QED
        BY <1>1, <1>2, <1>5, <1>7, <3>1, RecognizerTyped
    <2>7. CASE ExclusiveFed(t)
      <3> DEFINE index == f.index + 1
                 g == [f EXCEPT !.index = index, !.phase = "feed"]
      <3>1. /\ f.phase = "fed" /\ Shape[f.rec].kind = "exclusive"
            /\ \/ f.matched > 0 /\ Become(t, Answer(f, f.matched))
               \/ ~(f.matched > 0) /\ Become(t, g)
        BY <2>7 DEF ExclusiveFed, Running, InPhase, f
      <3>2. CASE f.matched > 0 /\ Become(t, Answer(f, f.matched))
        <4>1. f.matched > 0 => Reaches(f) <= f.begin + f.matched
          BY <1>2, <1>4, <1>10, <3>1 DEF Matched
        <4>2. QED
          BY <1>2, <1>7, <3>2, <4>1
      <3>3. CASE ~(f.matched > 0) /\ Become(t, g)
        <4>1. index \in Nat
          BY <1>1 DEF Frame
        <4> HIDE DEF index
        <4>2. /\ g \in Frame(n) /\ HoldsAs(f, g) /\ g.phase = "feed" /\ g.begin = f.begin
              /\ g.mark = f.mark /\ g.pos = f.pos /\ g.total = f.total
          BY <1>1, <4>1 DEF Frame, Phase, HoldsAs
        <4>a. Become(t, g)
          BY <3>3
        <4> HIDE DEF g
        <4>3. Span(g)
          BY <1>1, <4>2 DEF Span, HoldsAs
        <4>4. Reaches(f) <= g.pos
          BY <1>2, <1>10, <3>1, <3>3, <4>2 DEF Matched, NPos
        <4>5. NextOf(f, g)
          BY <4>2, <4>3, <4>4 DEF NextOf
        <4>6. QED
          BY <1>6, <4>2, <4>5, <4>a
      <3>4. QED
        BY <3>1, <3>2, <3>3
    <2>8. CASE FeedLoop(t)
      <3>1. /\ f.phase = "feed" /\ Shape[f.rec].kind = "loop"
            /\ CallFeed(t, f, Elements(f)[1]) \/ Become(t, LoopAnswer(f))
        BY <2>8 DEF FeedLoop, Running, InPhase, f
      <3>2. QED
        BY <1>1, <1>5, <1>8, <1>9, <3>1, RecognizerTyped
    <2>9. CASE LoopFed(t)
      <3>1. /\ f.phase = "fed" /\ Shape[f.rec].kind = "loop"
            /\ \/ f.matched = NPos /\ Become(t, LoopAnswer(f))
               \/ f.matched # NPos /\ Become(t, Repeated(f))
        BY <2>9 DEF LoopFed, Running, InPhase, f
      <3>2. f.matched = NPos => Reaches(f) = f.pos
        BY <1>2, <1>10, <3>1
      <3>3. QED
        BY <1>1, <1>6, <1>8, <3>1, <3>2, AdvanceNext
    <2>10. QED
      BY <2>1, <2>2, <2>3, <2>4, <2>5, <2>6, <2>7, <2>8, <2>9 DEF PlainFeed
  <1>12. QED
    BY <1>11 DEF f

----------------------------------------------------------------------------
(* The context that an activation fills exists.                            *)
LEMMA OwnTyped ==
    ASSUME NEW n \in Nat, NEW f \in Frame(n), NEW r, NEW inner, GoodFrame(f),
           f.phase # "begin", ~inner => f.rec \in Handled, inner => r \in 1..n
    PROVE  Own(f, r) \in 1..n
  BY DEF Own, GoodFrame, Frame, Pointer, None

(* A step that leaves the contexts alone.                                  *)
LEMMA HeapKeptUndo ==
    ASSUME NEW n \in Nat, TypedWith(n), ThreadsInv, HoldersInv, UndoInv, NEW t \in Thread,
           \A u \in Thread : u # t => frames'[u] = frames[u], contexts' = contexts,
           UndoThread(frames'[t], contexts')
    PROVE  UndoInv'
  BY StepUndo DEF Same

(* A recognizer that is no selector.                                       *)
LEMMA PlainFeedUndo ==
    ASSUME NEW n \in Nat, TypedWith(n), ThreadsInv, HoldersInv, UndoInv, NEW t \in Thread,
           PlainFeed(t)
    PROVE  UndoInv'
  <1> DEFINE f == Top(t)
             P == Front(frames[t])
             r == Base(P)
             H == contexts
             inner == P # <<>>
  <1>1. PICK phase \in {"feed", "fed"} : InPhase(t, phase)
    BY PlainGoesOn
  <1>2. Shape[f.rec].kind # "selector" /\ contexts' = H
    BY PlainGoesOn DEF heapVars
  <1>3. /\ BelowMarks(P, H) /\ AboveMarks(P, f, r)
        /\ FrameMarks(f, r, H, inner) /\ TopReach(f, r, H)
        /\ P \in Seq(Frame(n)) /\ f \in Frame(n) /\ GoodFrame(f)
        /\ P = <<>> => f.rec \in Handled
        /\ f.phase = phase
        /\ \A c \in 1..n : AssignmentsOf(H, c)
        /\ P # <<>> => r \in 1..n
    BY <1>1, TopUndo
  <1>4. Span(f)
    BY <1>3 DEF FrameMarks
  <1>5. \/ \E g \in Frame(n) : NextOf(f, g) /\ Become(t, g)
        \/ f.phase = "feed" /\ \E e \in Recognizer : CallFeed(t, f, e)
    BY <1>4, PlainNext
  <1>6. f.branch = None /\ f.bestBranch = None
    BY <1>2, <1>3 DEF GoodFrame
  <1>7. AssignmentsOf(H, Own(f, r))
    <2>1. ~inner => f.rec \in Handled
      BY <1>3
    <2>2. f.phase # "begin"
      BY <1>1, <1>3
    <2> HIDE DEF f, r, inner
    <2>3. Own(f, r) \in 1..n
      BY <1>3, <2>1, <2>2, OwnTyped DEF inner
    <2>4. QED
      BY <1>3, <2>3
  <1>a. P = Front(frames[t]) /\ f = Top(t) /\ inner = (P # <<>>) /\ r = Base(P)
    OBVIOUS
  <1>8. EndBy(H, Own(f, r), Reaches(f))
    BY <1>1, <1>3, <1>6 DEF TopReach, Reaches
  <1>9. Reaches(f) \in Int
    BY <1>3 DEF Frame, Matched, NPos, Reaches, Gain
  <1>10. CASE \E g \in Frame(n) : NextOf(f, g) /\ Become(t, g)
    <2>1. PICK g \in Frame(n) : NextOf(f, g) /\ Become(t, g)
      BY <1>10
    <2> HIDE DEF f, P, r, H, inner
    <2>2. /\ HoldsAs(f, g) /\ g.begin = f.begin /\ g.mark = f.mark /\ g.phase \in {"feed", "end"}
          /\ Span(g)
      BY <2>1 DEF NextOf
    <2>3. Own(g, r) = Own(f, r) /\ g.branch = None /\ g.bestBranch = None
          /\ (Plain(g) <=> Plain(f)) /\ Shape[g.rec].kind # "selector"
      BY <1>1, <1>2, <1>3, <1>6, <2>2 DEF HoldsAs, Own, Plain
    <2>4. AboveMarks(P, g, r)
      BY <1>3, <2>2, <2>3, AboveAgain
    <2>5. FrameMarks(g, r, H, inner)
      BY <1>3, <2>2, <2>3 DEF FrameMarks, HoldsAs
    <2>6. TopReach(g, r, H)
      <3>1. g.pos \in Int /\ g.begin \in Int /\ (g.matched > 0 => g.begin + g.matched \in Int)
        BY <2>1 DEF Frame, Matched, NPos
      <3>2. g.phase = "feed" => EndBy(H, Own(g, r), g.pos)
        <4>1. g.phase = "feed" => Reaches(f) <= g.pos
          BY <2>1 DEF NextOf
        <4>2. QED
          BY <1>7, <1>8, <1>9, <2>3, <3>1, <4>1, EndByMore
      <3>3. g.phase = "end" /\ g.matched > 0 => EndBy(H, Own(g, r), g.begin + g.matched)
        <4>1. g.phase = "end" /\ g.matched > 0 => Reaches(f) <= g.begin + g.matched
          BY <2>1 DEF NextOf
        <4>2. QED
          BY <1>7, <1>8, <1>9, <2>3, <3>1, <4>1, EndByMore
      <3>4. QED
        BY <2>2, <3>2, <3>3 DEF TopReach
    <2>7. n <= n /\ H = contexts'
      BY <1>2
    <2>8. UndoThread(frames'[t], contexts') /\ \A u \in Thread : u # t => frames'[u] = frames[u]
      BY <1>1, <1>3, <1>a, <2>1, <2>4, <2>5, <2>6, <2>7, BecomeUndo
    <2>9. QED
      BY <1>2, <2>8, HeapKeptUndo DEF H
  <1>11. CASE f.phase = "feed" /\ \E e \in Recognizer : CallFeed(t, f, e)
    <2>1. PICK e \in Recognizer : CallFeed(t, f, e)
      BY <1>11
    <2> DEFINE fed == Fed(f)
    <2>2. /\ fed \in Frame(n) /\ fed.phase = "fed" /\ HoldsAs(f, fed) /\ fed.begin = f.begin
          /\ fed.mark = f.mark /\ fed.pos = f.pos /\ fed.total = f.total
      BY <1>3 DEF Frame, Phase, HoldsAs, Fed
    <2> HIDE DEF f, P, r, H, inner, fed
    <2>3. Own(fed, r) = Own(f, r) /\ fed.branch = None /\ fed.bestBranch = None
          /\ (Plain(fed) <=> Plain(f)) /\ Shape[fed.rec].kind # "selector"
      BY <1>2, <1>6, <1>11, <2>2 DEF HoldsAs, Own, Plain
    <2>4. AboveMarks(P, fed, r)
      BY <1>3, <2>2, <2>3, AboveAgain
    <2>5. FrameMarks(fed, r, H, inner)
      <3>1. Span(fed)
        BY <1>4, <2>2 DEF Span, HoldsAs
      <3>2. QED
        BY <1>3, <2>2, <2>3, <3>1 DEF FrameMarks, HoldsAs
    <2>6. EndBy(H, Base(Append(P, fed)), f.pos)
      <3>1. Base(Append(P, fed)) = Own(fed, r)
        BY <1>3, <2>2, <2>3, BaseAbove DEF r
      <3>2. QED
        BY <1>8, <1>11, <2>3, <3>1 DEF Reaches
    <2>7. n <= n /\ H = contexts'
      BY <1>2
    <2>8. UndoThread(frames'[t], contexts') /\ \A u \in Thread : u # t => frames'[u] = frames[u]
      BY <1>1, <1>3, <1>a, <2>1, <2>4, <2>5, <2>6, <2>7, CallUndo DEF fed
    <2>9. QED
      BY <1>2, <2>8, HeapKeptUndo DEF H
  <1>12. QED
    BY <1>5, <1>10, <1>11

(* parseInput() begins and ends.                                           *)
LEMMA ParseUndo ==
    ASSUME NEW n \in Nat, TypedWith(n), ThreadsInv, HoldersInv, UndoInv, NEW t \in Thread,
           StartParse(t) \/ FinishParse(t)
    PROVE  UndoInv'
  <1>1. CASE StartParse(t)
    <2> DEFINE f == Activation(script[t][parses[t] + 1].rule, 0)
               Z == <<>>
    <2>1. /\ frames' = [frames EXCEPT ![t] = <<f>>]
          /\ parses[t] < Len(script[t])
          /\ contexts' = contexts
      BY <1>1 DEF StartParse, heapVars
    <2>2. script[t] \in Seq(Request) /\ parses[t] \in Nat
      BY DEF TypedWith
    <2>3. parses[t] + 1 \in 1..Len(script[t])
      BY <2>1, <2>2, LenProperties
    <2>4. script[t][parses[t] + 1].rule \in Recognizer
      <3>1. script[t][parses[t] + 1] \in Request
        BY <2>2, <2>3, ElementOfSeq
      <3>2. QED
        BY <3>1, GrammarAssumption DEF Request
    <2>5. /\ f \in Frame(0) /\ f.phase = "begin" /\ f.context = None /\ f.begin = 0 /\ f.pos = 0
          /\ f.bestBranch = None /\ f.branch = None /\ f.total = 0
      BY <2>4, ActivationTyped DEF Activation
    <2>6. frames'[t] = <<f>> /\ \A u \in Thread : u # t => frames'[u] = frames[u]
      BY <2>1 DEF TypedWith, FramesOf
    <2> HIDE DEF f
    <2>7. Z \in Seq(Frame(0)) /\ <<f>> = Append(Z, f)
      BY EmptySeq
    <2>a. Z = <<>> /\ DOMAIN Z = {}
      OBVIOUS
    <2> DEFINE inner == Z # <<>>
    <2>b. inner = FALSE
      OBVIOUS
    <2> HIDE DEF Z, inner
    <2>8. /\ BelowMarks(Z, contexts') /\ AboveMarks(Z, f, Base(Z))
          /\ FrameMarks(f, Base(Z), contexts', inner) /\ TopReach(f, Base(Z), contexts')
      <3>1. Span(f) /\ ~Plain(f)
        BY <2>5 DEF Span, Plain
      <3>2. BelowMarks(Z, contexts') /\ AboveMarks(Z, f, Base(Z))
        BY <2>a DEF BelowMarks, AboveMarks
      <3>3. QED
        BY <2>5, <2>b, <3>1, <3>2 DEF FrameMarks, TopReach
    <2>9. UndoThread(Append(Z, f), contexts')
      BY <2>5, <2>7, <2>8, JoinUndo DEF inner
    <2>10. QED
      BY <2>1, <2>6, <2>7, <2>9, HeapKeptUndo
  <1>2. CASE FinishParse(t)
    BY <1>2 DEF FinishParse, heapVars, UndoInv
  <1>3. QED
    BY <1>1, <1>2

----------------------------------------------------------------------------
(* A step that leaves every context there is alone, and may add one.       *)
LEMMA HeapGrownUndo ==
    ASSUME NEW n \in Nat, TypedWith(n), ThreadsInv, HoldersInv, UndoInv, NEW t \in Thread,
           \A d \in 1..n : contexts'[d] = contexts[d],
           \A u \in Thread : u # t => frames'[u] = frames[u],
           UndoThread(frames'[t], contexts')
    PROVE  UndoInv'
  BY StepUndo DEF Same, Assigned

(* A new or reused context is none of those below.                         *)
LEMMA BelowGrown ==
    ASSUME NEW n \in Nat, TypedWith(n), ThreadsInv, HoldersInv, UndoInv, NEW t \in Thread,
           NEW phase, InPhase(t, phase), \A d \in 1..n : contexts'[d] = contexts[d]
    PROVE  LET P == Front(frames[t])
           IN  BelowMarks(P, contexts') /\ (P # <<>> => Same(contexts, contexts', Base(P)))
  <1> DEFINE P == Front(frames[t])
             H == contexts
             H2 == contexts'
  <1>1. /\ BelowMarks(P, H) /\ P \in Seq(Frame(n)) /\ Waiting(P)
        /\ P # <<>> => Base(P) \in 1..n
        /\ \A c : Holds(OpenedBy(P), c) => Holds(handlerStack[t], c)
    BY TopUndo
  <1>2. \A c \in 1..n : Same(H, H2, c)
    BY DEF Same, Assigned
  <1>3. \A c : Holds(OpenedBy(P), c) => Same(H, H2, c)
    BY <1>1, <1>2, StacksDistinct
  <1> HIDE DEF P, H, H2
  <1>4. BelowMarks(P, H2)
    BY <1>1, <1>3, BelowSame
  <1>5. QED
    BY <1>1, <1>2, <1>4 DEF P, H, H2

(* beginParse() for a rule with a handler.                                 *)
LEMMA BeginHandledUndo ==
    ASSUME NEW n \in Nat, TypedWith(n), ThreadsInv, HoldersInv, UndoInv, NEW t \in Thread,
           BeginHandled(t)
    PROVE  UndoInv'
  <1> DEFINE f == Top(t)
             P == Front(frames[t])
             r == Base(P)
             H == contexts
             H2 == contexts'
             inner == P # <<>>
  <1>1. InPhase(t, "begin") /\ f.rec \in Handled
    BY DEF BeginHandled
  <1>2. PICK c \in 1..(Len(contexts) + 1) :
           /\ CreateContext(t, f.rec, c)
           /\ Become(t, [f EXCEPT !.phase = "feed", !.context = c,
                            !.mark = LastIterator(contexts', c)])
    BY DEF BeginHandled
  <1>3. PICK m \in Nat : /\ n <= m
                         /\ contexts' \in HeapOf(m)
                         /\ c \in 1..m
    BY <1>1, <1>2, CreateContextTyped DEF TypedWith
  <1>4. /\ BelowMarks(P, H) /\ AboveMarks(P, f, r) /\ FrameMarks(f, r, H, inner)
        /\ P \in Seq(Frame(n)) /\ f \in Frame(n) /\ GoodFrame(f) /\ f.phase = "begin"
    BY <1>1, TopUndo
  <1>5. contexts'[c] = NewContext(f.rec) /\ \A d \in 1..n : contexts'[d] = contexts[d]
    BY <1>1, <1>2, CreateApart
  <1>6. BelowMarks(P, H2) /\ (inner => Same(H, H2, r))
    BY <1>1, <1>5, BelowGrown
  <1> DEFINE mark == LastIterator(contexts', c)
             g == [f EXCEPT !.phase = "feed", !.context = c, !.mark = mark]
  <1>7. mark \in Nat
    BY <1>3, AssignmentsTyped DEF LastIterator
  <1>8. f \in Frame(m)
    BY <1>3, <1>4, PointersStayValid
  <1>9. Become(t, g) /\ P = Front(frames[t]) /\ r = Base(P) /\ inner = (P # <<>>)
    BY <1>2
  <1>10. DOMAIN Assigned(H2, c) = {}
    BY <1>5 DEF NewContext, Assigned
  <1> HIDE DEF f, mark, P, r, H, inner
  <1>11. /\ g \in Frame(m) /\ g.rec = f.rec /\ g.phase = "feed" /\ g.context = c /\ g.pos = f.pos
         /\ g.bestBranch = None /\ g.branch = None /\ g.begin = f.begin /\ g.total = f.total
         /\ c # None
    <2>1. c \in Pointer(m) /\ c # None
      BY <1>3 DEF Pointer, None
    <2>2. f.bestBranch = None /\ f.branch = None
      BY <1>4 DEF GoodFrame
    <2>3. QED
      BY <1>7, <1>8, <2>1, <2>2 DEF Frame, Phase
  <1>12. ~Plain(g) /\ ~Plain(f) /\ Own(g, r) = c
    BY <1>4, <1>11 DEF Plain, Own
  <1> HIDE DEF g
  <1>13. AboveMarks(P, g, r)
    BY <1>4, <1>11, <1>12, AboveAgain
  <1>14. Span(g) /\ f.pos = f.begin
    BY <1>4, <1>11 DEF FrameMarks, Span
  <1>15. \A p : EndBy(H2, c, p) /\ From(H2, c, p)
    BY <1>10 DEF EndBy, From
  <1>16. inner => EndBy(H2, r, g.begin)
    BY <1>4, <1>6, <1>11, <1>12, SameAssignments DEF FrameMarks
  <1>17. FrameMarks(g, r, H2, inner)
    BY <1>11, <1>12, <1>14, <1>15, <1>16 DEF FrameMarks
  <1>18. TopReach(g, r, H2)
    BY <1>11, <1>12, <1>15 DEF TopReach
  <1>19. UndoThread(frames'[t], contexts') /\ \A u \in Thread : u # t => frames'[u] = frames[u]
    BY <1>1, <1>3, <1>6, <1>9, <1>11, <1>13, <1>17, <1>18, BecomeUndo
  <1>20. QED
    BY <1>5, <1>19, HeapGrownUndo

(* beginParse() for another: the mark is put where the assignments end.    *)
LEMMA BeginPlainUndo ==
    ASSUME NEW n \in Nat, TypedWith(n), ThreadsInv, HoldersInv, UndoInv, NEW t \in Thread,
           BeginPlain(t)
    PROVE  UndoInv'
  <1> DEFINE f == Top(t)
             P == Front(frames[t])
             r == Base(P)
             H == contexts
             inner == P # <<>>
             S == handlerStack[t]
             mark == LastIterator(contexts, Back(S))
             g == [f EXCEPT !.phase = "feed", !.mark = mark]
  <1>1. /\ InPhase(t, "begin") /\ f.rec \notin Handled /\ contexts' = contexts
        /\ S # <<>> => Become(t, g)
    BY DEF BeginPlain, heapVars
  <1>2. S # <<>> /\ S \in Seq(1..n)
    BY <1>1, TopThread
  <1>3. /\ BelowMarks(P, H) /\ AboveMarks(P, f, r) /\ FrameMarks(f, r, H, inner)
        /\ P \in Seq(Frame(n)) /\ f \in Frame(n) /\ GoodFrame(f) /\ f.phase = "begin"
        /\ P = <<>> => f.rec \in Handled
        /\ S = OpenedBy(P) \o Opened(f) /\ OpenedBy(P) \in Seq(1..n)
        /\ P # <<>> => r = Last(OpenedBy(P))
        /\ \A c \in 1..n : AssignmentsOf(H, c)
        /\ P # <<>> => r \in 1..n
    BY <1>1, TopUndo
  <1>4. inner /\ r = Last(OpenedBy(P)) /\ AssignmentsOf(H, r)
    BY <1>1, <1>3
  <1>5. Back(S) = r
    <2>1. f.context = None /\ f.bestBranch = None /\ f.branch = None
      BY <1>3 DEF GoodFrame
    <2> HIDE DEF f, P, r, S
    <2>2. OpenedBy(P) \o Opened(f) = OpenedBy(P)
      BY <1>3, <2>1, OpenedOnto DEF Onto
    <2>3. QED
      BY <1>2, <1>3, <1>4, <2>2 DEF Back
  <1>6. mark = Len(Assigned(H, r))
    BY <1>5 DEF LastIterator, Assigned
  <1>7. mark \in Nat /\ DOMAIN Assigned(H, r) = 1..mark
    BY <1>4, <1>6, AssignedTyped
  <1>a. P = Front(frames[t]) /\ inner = (P # <<>>) /\ r = Base(P) /\ H = contexts'
    BY <1>1
  <1>8. Become(t, g)
    BY <1>1, <1>2
  <1> HIDE DEF f, P, r, H, inner, S, mark
  <1>9. /\ g \in Frame(n) /\ g.rec = f.rec /\ g.phase = "feed" /\ g.context = f.context
        /\ g.pos = f.pos /\ g.mark = mark /\ f.context = None
        /\ g.bestBranch = None /\ g.branch = None /\ g.begin = f.begin /\ g.total = f.total
    <2>1. f.bestBranch = None /\ f.branch = None /\ f.context = None
      BY <1>3 DEF GoodFrame
    <2>2. QED
      BY <1>3, <1>7, <2>1 DEF Frame, Phase
  <1> HIDE DEF g
  <1>10. Plain(g) /\ ~Plain(f) /\ Own(g, r) = r
    BY <1>3, <1>9 DEF Plain, Own
  <1>11. Span(g) /\ f.pos = f.begin
    BY <1>3, <1>9 DEF FrameMarks, Span
  <1>12. EndBy(H, r, g.begin) /\ EndBy(H, r, g.pos)
    BY <1>3, <1>4, <1>9, <1>10, <1>11 DEF FrameMarks
  <1>13. SplitAt(H, r, mark, g.begin)
    BY <1>6, <1>7, <1>12 DEF SplitAt, EndBy
  <1>14. FrameMarks(g, r, H, inner)
    BY <1>9, <1>10, <1>11, <1>12, <1>13 DEF FrameMarks
  <1>15. TopReach(g, r, H)
    BY <1>9, <1>10, <1>12 DEF TopReach
  <1>16. AboveMarks(P, g, r)
    <2>1. ASSUME NEW i \in DOMAIN P PROVE Pair(P[i], ReceiverOf(P, i), g, r)
      <3>1. P[i].pos <= f.begin
        BY <1>3 DEF AboveMarks, Pair
      <3>2. ASSUME Plain(P[i]), ReceiverOf(P, i) = r PROVE P[i].mark <= g.mark
        <4>1. SplitAt(H, r, P[i].mark, P[i].begin)
          BY <1>3, <3>2 DEF BelowMarks, FrameMarks
        <4>2. QED
          BY <1>6, <1>9, <4>1 DEF SplitAt
      <3>3. QED
        BY <1>9, <3>1, <3>2 DEF Pair
    <2>2. QED
      BY <1>3, <1>9, <2>1 DEF AboveMarks
  <1>17. n <= n
    OBVIOUS
  <1>18. UndoThread(frames'[t], contexts') /\ \A u \in Thread : u # t => frames'[u] = frames[u]
    BY <1>1, <1>3, <1>8, <1>9, <1>a, <1>14, <1>15, <1>16, <1>17, BecomeUndo
  <1>19. QED
    BY <1>1, <1>18, HeapKeptUndo

----------------------------------------------------------------------------
(* What an activation has pushed.                                          *)
LEMMA HeldByActivation ==
    ASSUME NEW n \in Nat, NEW f \in Frame(n)
    PROVE  /\ Opened(f) \in Seq(1..n)
           /\ f.context # None => Holds(Opened(f), f.context)
           /\ f.bestBranch # None => Holds(Opened(f), f.bestBranch)
           /\ f.branch # None => Holds(Opened(f), f.branch)
           /\ f.context # None /\ f.bestBranch # None /\ NoRepetition(Opened(f)) =>
                 f.context # f.bestBranch
  <1> DEFINE p == Pushed(f.context)
             q == Pushed(f.bestBranch)
             v == Pushed(f.branch)
             w == p \o q
             X == 1..n
  <1>1. f.context \in Pointer(n) /\ f.bestBranch \in Pointer(n) /\ f.branch \in Pointer(n)
    BY DEF Frame
  <1>2. p \in Seq(X) /\ q \in Seq(X) /\ v \in Seq(X)
    <2>1. <<>> \in Seq(X)
      BY EmptySeq
    <2>2. QED
      BY <1>1, <2>1, OntoTyped
  <1>3. /\ f.context # None => Holds(p, f.context)
        /\ f.bestBranch # None => Holds(q, f.bestBranch)
        /\ f.branch # None => Holds(v, f.branch)
    BY DEF Pushed, Holds
  <1>4. Opened(f) = w \o v
    BY DEF Opened
  <1> DEFINE ctx == f.context
             best == f.bestBranch
             branch == f.branch
  <1>5. /\ ctx # None => Holds(p, ctx)
        /\ best # None => Holds(q, best)
        /\ branch # None => Holds(v, branch)
    BY <1>3
  <1>a. w = p \o q
    OBVIOUS
  <1> HIDE DEF p, q, v, w, X, ctx, best, branch
  <1>6. w \in Seq(X) /\ w \o v \in Seq(X)
    BY <1>2, <1>a, ConcatProperties
  <1>7. \A x : Holds(w, x) <=> Holds(p, x) \/ Holds(q, x)
    BY <1>2, <1>a, HeldByConcat
  <1>8. \A x : Holds(w \o v, x) <=> Holds(w, x) \/ Holds(v, x)
    BY <1>2, <1>6, HeldByConcat
  <1>9. ASSUME ctx # None, best # None, NoRepetition(w \o v) PROVE ctx # best
    <2>1. NoRepetition(w)
      <3>1. /\ Len(w) \in Nat /\ DOMAIN w = 1..Len(w) /\ Len(v) \in Nat
        BY <1>2, <1>6, LenProperties
      <3> DEFINE s == w \o v
      <3>2. /\ s \in Seq(X) /\ Len(s) = Len(w) + Len(v)
            /\ \A i \in 1..(Len(w) + Len(v)) : s[i] = IF i <= Len(w) THEN w[i] ELSE v[i - Len(w)]
        BY <1>2, <1>6, ConcatProperties
      <3>3. DOMAIN s = 1..Len(s) /\ NoRepetition(s)
        BY <1>9, <3>2, LenProperties
      <3> HIDE DEF s
      <3>4. \A i \in DOMAIN w : i \in DOMAIN s /\ s[i] = w[i]
        BY <3>1, <3>2, <3>3
      <3>5. QED
        BY <3>3, <3>4 DEF NoRepetition
    <2>2. QED
      BY <1>2, <1>5, <1>9, <1>a, <2>1, ApartOnStack
  <1>10. QED
    BY <1>4, <1>5, <1>6, <1>7, <1>8, <1>9 DEF ctx, best, branch, X

(* A context that is given more assignments.                               *)
LEMMA Lengthened ==
    ASSUME NEW n \in Nat, NEW u \in Seq(Assignment(n)), NEW v \in Seq(Assignment(n)),
           NEW H, NEW H2, NEW d, Assigned(H, d) = u, Assigned(H2, d) = u \o v,
           NEW p \in Nat, \A j \in DOMAIN v : v[j].begin >= p
    PROVE  /\ Extends(H, H2, d, Len(u), p)
           /\ AssignmentsOf(H, d) /\ AssignmentsOf(H2, d)
           /\ \A q : EndBy(H, d, q) /\ (\A j \in DOMAIN v : v[j].begin + v[j].count <= q)
                        => EndBy(H2, d, q)
  <1> DEFINE w == u \o v
  <1>1. /\ Len(u) \in Nat /\ DOMAIN u = 1..Len(u) /\ Len(v) \in Nat /\ DOMAIN v = 1..Len(v)
    BY LenProperties
  <1>2. /\ w \in Seq(Assignment(n)) /\ Len(w) = Len(u) + Len(v)
        /\ \A i \in 1..(Len(u) + Len(v)) : w[i] = IF i <= Len(u) THEN u[i] ELSE v[i - Len(u)]
    BY ConcatProperties
  <1>3. DOMAIN w = 1..(Len(u) + Len(v)) /\ Assigned(H2, d) = w
    BY <1>2, LenProperties
  <1> HIDE DEF w
  <1>4. \A i \in DOMAIN w : /\ i <= Len(u) => i \in DOMAIN u /\ w[i] = u[i]
                            /\ ~(i <= Len(u)) => i - Len(u) \in DOMAIN v /\ w[i] = v[i - Len(u)]
    <2>1. ASSUME NEW i \in DOMAIN w, ~(i <= Len(u)) 
          PROVE i - Len(u) \in DOMAIN v /\ w[i] = v[i - Len(u)]
      BY <1>1, <1>2, <1>3, <2>1
    <2>2. ASSUME NEW i \in DOMAIN w, i <= Len(u) PROVE i \in DOMAIN u /\ w[i] = u[i]
      BY <1>1, <1>2, <1>3, <2>2
    <2>3. QED
      BY <2>1, <2>2
  <1>5. AssignmentsOf(H, d) /\ AssignmentsOf(H2, d)
    BY <1>2, <1>3 DEF AssignmentsOf
  <1>6. Len(u) <= Len(w) /\ Len(u) <= Len(u)
    BY <1>1, <1>2
  <1>7. Extends(H, H2, d, Len(u), p)
    <2>1. \A j \in DOMAIN w : IF j <= Len(u) THEN j \in DOMAIN u /\ w[j] = u[j]
                              ELSE w[j].begin >= p
      BY <1>4
    <2>2. QED
      BY <1>1, <1>3, <1>6, <2>1 DEF Extends
  <1>8. ASSUME NEW q, EndBy(H, d, q), \A j \in DOMAIN v : v[j].begin + v[j].count <= q
        PROVE  EndBy(H2, d, q)
    <2>1. \A j \in DOMAIN u : u[j].begin + u[j].count <= q
      BY <1>8 DEF EndBy
    <2>2. \A j \in DOMAIN w : w[j].begin + w[j].count <= q
      BY <1>4, <1>8, <2>1
    <2>3. QED
      BY <1>3, <2>2 DEF EndBy
  <1>9. QED
    BY <1>5, <1>7, <1>8

(* The marks of the waiting activations are among the assignments.         *)
LEMMA MarksBelow ==
    ASSUME NEW P, NEW H, NEW d, BelowMarks(P, H), Waiting(P)
    PROVE  \A i \in DOMAIN P : P[i].context = None /\ ReceiverOf(P, i) = d =>
              P[i].mark <= Len(Assigned(H, d))
  <1>1. SUFFICES ASSUME NEW i \in DOMAIN P, P[i].context = None, ReceiverOf(P, i) = d
                 PROVE  P[i].mark <= Len(Assigned(H, d))
    OBVIOUS
  <1>2. Plain(P[i])
    BY <1>1 DEF Plain, Waiting
  <1>3. QED
    BY <1>1, <1>2 DEF BelowMarks, FrameMarks, SplitAt

----------------------------------------------------------------------------
(* A selector tries an alternative on a branch without assignments.        *)
LEMMA BranchUndo ==
    ASSUME NEW n \in Nat, TypedWith(n), ThreadsInv, HoldersInv, UndoInv, NEW t \in Thread,
           SelectorBranch(t)
    PROVE  UndoInv'
  <1> DEFINE f == Top(t)
             P == Front(frames[t])
             r == Base(P)
             H == contexts
             H2 == contexts'
             inner == P # <<>>
             S == handlerStack[t]
             h == contexts[Last(S)].handler
             e == Elements(f)[f.index + 1]
  <1>1. InPhase(t, "feed") /\ Shape[f.rec].kind = "selector" /\ MoreElements(f)
    BY DEF SelectorBranch, Running
  <1>2. S # <<>> /\ S \in Seq(1..n)
    BY <1>1, TopThread
  <1>3. PICK c \in 1..(Len(contexts) + 1) :
           /\ CreateContext(t, h, c)
           /\ CallFeed(t, [f EXCEPT !.branch = c], e)
    BY <1>2 DEF SelectorBranch
  <1>4. h \in Handled
    BY <1>2, BackTyped, AssignmentsTyped DEF TypedWith
  <1>5. PICK m \in Nat : n <= m /\ contexts' \in HeapOf(m) /\ c \in 1..m
    <2> HIDE DEF h
    <2> QED BY <1>3, <1>4, CreateContextTyped DEF TypedWith
  <1>6. contexts'[c] = NewContext(h) /\ \A d \in 1..n : contexts'[d] = contexts[d]
    <2> HIDE DEF h
    <2> QED BY <1>3, <1>4, CreateApart
  <1>7. /\ BelowMarks(P, H) /\ AboveMarks(P, f, r)
        /\ FrameMarks(f, r, H, inner) /\ TopReach(f, r, H)
        /\ P \in Seq(Frame(n)) /\ f \in Frame(n) /\ GoodFrame(f) /\ f.phase = "feed"
        /\ P = <<>> => f.rec \in Handled
        /\ P # <<>> => r \in 1..n
    BY <1>1, TopUndo
  <1>8. BelowMarks(P, H2) /\ (inner => Same(H, H2, r))
    BY <1>1, <1>6, BelowGrown
  <1>9. e \in Recognizer
    BY <1>1, <1>7, RecognizerTyped
  <1>10. f \in Frame(m)
    BY <1>5, <1>7, PointersStayValid
  <1>11. \A d \in 1..n : Same(H, H2, d)
    BY <1>6 DEF Same, Assigned
  <1>12. DOMAIN Assigned(H2, c) = {}
    BY <1>6 DEF NewContext, Assigned
  <1> DEFINE g == [f EXCEPT !.branch = c]
             fed == Fed(g)
  <1>13. CallFeed(t, g, e) /\ P = Front(frames[t]) /\ r = Base(P) /\ inner = (P # <<>>)
         /\ H2 = contexts' /\ (~inner => f.rec \in Handled) /\ (inner => r \in 1..n)
    BY <1>3, <1>7
  <1> HIDE DEF f, P, r, H, H2, inner, S, h, e
  <1>14. Own(f, r) \in 1..n
    BY <1>7, <1>13, OwnTyped
  <1>15. g \in Frame(m) /\ c # None /\ c \in Pointer(m)
         /\ g.rec = f.rec /\ g.context = f.context /\ g.branch = c /\ g.bestBranch = f.bestBranch
         /\ g.begin = f.begin /\ g.mark = f.mark /\ g.pos = f.pos /\ g.total = f.total
         /\ g.best = f.best /\ g.phase = f.phase
    <2>1. c # None /\ c \in Pointer(m)
      BY <1>5 DEF Pointer, None
    <2>2. QED
      BY <1>10, <2>1 DEF Frame
  <1> HIDE DEF g
  <1>16. /\ fed \in Frame(m) /\ fed.phase = "fed" /\ fed.rec = f.rec /\ fed.context = f.context
         /\ fed.branch = c /\ fed.bestBranch = f.bestBranch
         /\ fed.begin = f.begin /\ fed.mark = f.mark /\ fed.pos = f.pos /\ fed.total = f.total
         /\ fed.best = f.best
    BY <1>15 DEF Frame, Phase, Fed
  <1> HIDE DEF fed
  <1>17. (Plain(fed) <=> Plain(f)) /\ Own(fed, r) = Own(f, r)
    BY <1>7, <1>16 DEF Plain, Own
  <1>18. AboveMarks(P, fed, r)
    BY <1>7, <1>16, <1>17, AboveAgain
  <1>19. Span(fed)
    BY <1>7, <1>16 DEF FrameMarks, Span
  <1>20. Plain(f) => inner
    BY <1>7, <1>13 DEF Plain, GoodFrame
  <1>21. \A p : EndBy(H2, c, p) /\ From(H2, c, p)
    BY <1>12 DEF EndBy, From
  <1>22. Plain(fed) => SplitAt(H2, r, fed.mark, fed.begin)
    BY <1>7, <1>8, <1>16, <1>17, <1>20, SameAssignments DEF FrameMarks
  <1>23. inner /\ ~Plain(fed) => EndBy(H2, r, fed.begin)
    BY <1>7, <1>8, <1>16, <1>17, SameAssignments DEF FrameMarks
  <1>24. fed.context # None => From(H2, fed.context, fed.begin)
    <2>1. f.context # None => f.context \in 1..n
      BY <1>7 DEF Frame, Pointer, None
    <2>2. QED
      BY <1>7, <1>11, <1>16, <2>1, SameAssignments DEF FrameMarks
  <1>25. fed.bestBranch # None => /\ From(H2, fed.bestBranch, fed.begin)
                                  /\ fed.best >= 0
                                  /\ EndBy(H2, fed.bestBranch, fed.begin + fed.best)
    <2>1. f.bestBranch # None => f.bestBranch \in 1..n
      BY <1>7 DEF Frame, Pointer, None
    <2>2. QED
      BY <1>7, <1>11, <1>16, <2>1, SameAssignments DEF FrameMarks
  <1>26. EndBy(H2, Own(fed, r), fed.begin)
    <2>1. EndBy(H, Own(f, r), f.begin)
      BY <1>1, <1>7 DEF FrameMarks, f
    <2>2. QED
      BY <1>11, <1>14, <1>16, <1>17, <2>1, SameAssignments
  <1>27. FrameMarks(fed, r, H2, inner)
    BY <1>16, <1>19, <1>21, <1>22, <1>23, <1>24, <1>25, <1>26 DEF FrameMarks
  <1>28. EndBy(H2, Base(Append(P, fed)), g.pos)
    <2>1. P \in Seq(Frame(m))
      BY <1>5, <1>7, PointersStayValid, SeqMonotonic
    <2>2. Base(Append(P, fed)) = c
      BY <1>15, <1>16, <2>1, BaseAbove
    <2>3. QED
      BY <1>21, <2>2
  <1>29. UndoThread(frames'[t], contexts') /\ \A u \in Thread : u # t => frames'[u] = frames[u]
    BY <1>1, <1>5, <1>8, <1>9, <1>13, <1>15, <1>18, <1>27, <1>28, CallUndo DEF fed
  <1>30. QED
    BY <1>6, <1>29, HeapGrownUndo

(* The activation of a selector that has elected an alternative.           *)
LEMMA ElectedFrame ==
    ASSUME NEW n \in Nat, NEW f \in Frame(n)
    PROVE  LET g == Elected(f)
           IN  /\ g \in Frame(n) /\ g.rec = f.rec /\ g.context = f.context /\ g.branch = None
               /\ g.phase = "feed" /\ g.begin = f.begin /\ g.mark = f.mark /\ g.pos = f.pos
               /\ g.total = f.total
               /\ Better(f) => g.bestBranch = f.branch /\ g.best = f.matched
               /\ ~Better(f) => g.bestBranch = f.bestBranch /\ g.best = f.best
  <1> DEFINE index == f.index + 1
             won  == [f EXCEPT !.best = f.matched, !.bestBranch = f.branch, !.branch = None,
                               !.index = index, !.phase = "feed"]
             lost == [f EXCEPT !.branch = None, !.index = index, !.phase = "feed"]
             g == Elected(f)
  <1>1. g \in Frame(n)
    BY NextFrameTyped
  <1>2. (Better(f) => g = won) /\ (~Better(f) => g = lost)
    BY DEF Elected
  <1> HIDE DEF index, g
  <1>3. /\ won.context = f.context /\ won.branch = None /\ won.bestBranch = f.branch
        /\ won.rec = f.rec /\ won.phase = "feed" /\ won.begin = f.begin /\ won.mark = f.mark
        /\ won.pos = f.pos /\ won.total = f.total /\ won.best = f.matched
    BY DEF Frame
  <1>4. /\ lost.context = f.context /\ lost.branch = None /\ lost.bestBranch = f.bestBranch
        /\ lost.rec = f.rec /\ lost.phase = "feed" /\ lost.begin = f.begin /\ lost.mark = f.mark
        /\ lost.pos = f.pos /\ lost.total = f.total /\ lost.best = f.best
    BY DEF Frame
  <1> HIDE DEF won, lost
  <1>5. QED
    BY <1>1, <1>2, <1>3, <1>4 DEF g

(* An alternative is elected, or loses: the branch that is recycled is     *)
(* mentioned by no activation any more.                                    *)
LEMMA ElectUndo ==
    ASSUME NEW n \in Nat, TypedWith(n), ThreadsInv, HoldersInv, UndoInv, NEW t \in Thread,
           SelectorFed(t)
    PROVE  UndoInv'
  <1> DEFINE f == Top(t)
             P == Front(frames[t])
             r == Base(P)
             H == contexts
             H2 == contexts'
             inner == P # <<>>
             S == handlerStack[t]
             g == Elected(f)
             c == Loser(f)
             o == OpenedBy(P)
             s2 == o \o Opened(g)
  <1>1. /\ Running(t, "fed", "selector") /\ InPhase(t, "fed") /\ Shape[f.rec].kind = "selector"
        /\ Become(t, g)
    BY DEF SelectorFed, Running
  <1>2. /\ BelowMarks(P, H) /\ AboveMarks(P, f, r)
        /\ FrameMarks(f, r, H, inner) /\ TopReach(f, r, H)
        /\ P \in Seq(Frame(n)) /\ f \in Frame(n) /\ GoodFrame(f) /\ f.phase = "fed"
        /\ P = <<>> => f.rec \in Handled
        /\ Waiting(P)
    BY <1>1, TopUndo
  <1>3. f.branch # None
    BY <1>1, <1>2 DEF GoodFrame
  <1>4. /\ g \in Frame(n) /\ g.rec = f.rec /\ g.context = f.context /\ g.branch = None
        /\ g.phase = "feed" /\ g.begin = f.begin /\ g.mark = f.mark /\ g.pos = f.pos
        /\ g.total = f.total
        /\ Better(f) => g.bestBranch = f.branch /\ g.best = f.matched
        /\ ~Better(f) => g.bestBranch = f.bestBranch /\ g.best = f.best
    BY <1>2, ElectedFrame
  <1>a. P = Front(frames[t]) /\ r = Base(P) /\ inner = (P # <<>>)
         /\ H2 = contexts' /\ (~inner => f.rec \in Handled) /\ H = contexts
         /\ inner \in BOOLEAN
    BY <1>2
  <1>5. \A x : Holds(s2, x) => Same(H, H2, x)
    <2>1. CASE c = None
      BY <2>1 DEF SelectorFed, heapVars, Same
    <2>2. CASE c # None
      <3>1. /\ contexts' = Cleared(contexts, c)
            /\ handlerStack' = [handlerStack EXCEPT ![t] = RemoveFromStack(@, c)]
        BY <2>2 DEF SelectorFed
      <3> DEFINE s == RemoveFromStack(S, c)
      <3>2. /\ c \in 1..n /\ s = s2
            /\ \A hs2 : Restacked(handlerStack, hs2, t, s) => TakenOff(handlerStack, hs2, c)
        BY <1>1, <2>2, LoserOnStack
      <3>3. Restacked(handlerStack, handlerStack', t, s)
        BY <3>1 DEF TypedWith, Restacked
      <3>4. TakenOff(handlerStack, handlerStack', c) /\ handlerStack'[t] = s2
        BY <3>2, <3>3 DEF Restacked
      <3> HIDE DEF s2, c, s, H, H2
      <3>5. ~Holds(s2, c)
        BY <3>4 DEF TakenOff, InStacks, Holds
      <3>6. \A x \in 1..n : x # c => contexts'[x] = contexts[x]
        BY <3>1, <3>2, ClearedHeap
      <3>7. \A x : Holds(s2, x) => x \in 1..n
        <4>1. s2 \in Seq(1..n)
          BY <3>2, LoserOnStack, <1>1, <2>2 DEF c, s
        <4>2. QED
          BY <4>1, LenProperties, ElementOfSeq DEF Holds
      <3>8. QED
        BY <3>5, <3>6, <3>7 DEF Same, Assigned, H, H2
    <2>3. QED
      BY <2>1, <2>2
  <1>6. \A x \in 1..n : ~Holds(S, x) => Same(H, H2, x)
    <2>1. CASE c = None
      BY <2>1 DEF SelectorFed, heapVars, Same
    <2>2. CASE c # None
      <3>1. contexts' = Cleared(contexts, c)
        BY <2>2 DEF SelectorFed
      <3>2. c \in 1..n /\ \E i \in DOMAIN S : S[i] = c
        BY <1>1, <2>2, LoserOnStack
      <3>3. \A x \in 1..n : x # c => contexts'[x] = contexts[x]
        BY <3>1, <3>2, ClearedHeap
      <3>4. QED
        BY <3>2, <3>3 DEF Same, Assigned, Holds
    <2>3. QED
      BY <2>1, <2>2
  <1> HIDE DEF f, P, r, H, H2, inner, S, g, c, o
  <1>7. (Plain(g) <=> Plain(f)) /\ Own(g, r) = Own(f, r)
    BY <1>2, <1>4 DEF Plain, Own
  <1>8. AboveMarks(P, g, r)
    BY <1>2, <1>4, <1>7, AboveAgain
  <1>9. Span(g) /\ f.pos = f.begin
    BY <1>1, <1>2, <1>4 DEF FrameMarks, Span
  <1>10. EndBy(H, Own(g, r), g.begin)
    BY <1>1, <1>2, <1>4, <1>7 DEF FrameMarks
  <1>11. g.bestBranch # None => /\ From(H, g.bestBranch, g.begin)
                                /\ g.best >= 0
                                /\ EndBy(H, g.bestBranch, g.begin + g.best)
    <2>1. CASE Better(f)
      <3>1. f.matched \in Nat /\ Gain(f.matched) = f.matched
        BY <1>2, <2>1 DEF Better, Frame, Matched, NPos, Gain
      <3>2. EndBy(H, f.branch, f.pos + Gain(f.matched))
        BY <1>2, <1>3 DEF TopReach
      <3>3. From(H, f.branch, f.begin)
        BY <1>2, <1>3 DEF FrameMarks
      <3>4. QED
        BY <1>4, <1>9, <2>1, <3>1, <3>2, <3>3
    <2>2. CASE ~Better(f)
      BY <1>2, <1>4, <2>2 DEF FrameMarks
    <2>3. QED
      BY <2>1, <2>2
  <1>12. FrameMarks(g, r, H, inner)
    BY <1>2, <1>4, <1>7, <1>9, <1>10, <1>11 DEF FrameMarks
  <1>13. TopReach(g, r, H)
    BY <1>4, <1>9, <1>10 DEF TopReach
  <1>14. /\ g.context # None => Holds(s2, g.context)
         /\ g.bestBranch # None => Holds(s2, g.bestBranch)
         /\ g.branch # None => Holds(s2, g.branch)
         /\ P # <<>> => Holds(s2, r)
         /\ \A x : Holds(o, x) => Holds(s2, x)
    BY <1>2, <1>4, TopMentioned DEF r, o
  <1>15. BelowMarks(P, H2)
    <2>1. \A x : Holds(o, x) => Same(H, H2, x)
      BY <1>5, <1>14
    <2>2. QED
      BY <1>2, <2>1, BelowSame DEF o
  <1>16. SameFor(H, H2, g, r, inner)
    BY <1>5, <1>14, <1>a DEF SameFor
  <1>17. inner \/ g.context # None
    BY <1>2, <1>4, <1>a DEF GoodFrame
  <1>18. FrameMarks(g, r, H2, inner) /\ TopReach(g, r, H2)
    BY <1>12, <1>13, <1>16, <1>17, <1>a, FrameSame
  <1>19. n <= n
    OBVIOUS
  <1>20. UndoThread(frames'[t], contexts') /\ \A u \in Thread : u # t => frames'[u] = frames[u]
    BY <1>1, <1>4, <1>8, <1>15, <1>18, <1>19, <1>a, BecomeUndo
  <1>21. \A x \in 1..n : ~Holds(handlerStack[t], x) => Same(contexts, contexts', x)
    BY <1>6, <1>a DEF S
  <1>22. QED
    BY <1>20, <1>21, StepUndo

----------------------------------------------------------------------------
(* What electing the best branch does to the contexts.                     *)
LEMMA MergeEffect ==
    ASSUME NEW n \in Nat, TypedWith(n), ThreadsInv, HoldersInv, NEW t \in Thread,
           SelectorMerge(t), Top(t).bestBranch # None
    PROVE  LET f == Top(t)
               o == OpenedBy(Front(frames[t]))
               c == f.bestBranch
               d == Own(f, Last(o))
           IN  /\ c \in 1..n /\ d \in 1..n /\ d # c
               /\ Assigned(contexts', d) = Assigned(contexts, d) \o Assigned(contexts, c)
               /\ \A e \in 1..n : e # d /\ e # c => Same(contexts, contexts', e)
               /\ contexts' = Cleared(Merged(contexts, d, c), c)
  <1> DEFINE f == Top(t)
             o == OpenedBy(Front(frames[t]))
             S == handlerStack[t]
             c == f.bestBranch
             base == Onto(o, f.context)
             d == Own(f, Last(o))
  <1>1. InPhase(t, "feed")
    BY DEF SelectorMerge, Running
  <1>2. /\ f \in Frame(n) /\ f.phase = "feed" /\ GoodFrame(f) /\ o \in Seq(1..n)
        /\ S = o \o Opened(f) /\ S \in Seq(1..n)
        /\ f.context = None => o # <<>>
    BY <1>1, TopThread
  <1>3. f.branch = None /\ f.context \in Pointer(n) /\ f.bestBranch \in Pointer(n)
    BY <1>2 DEF GoodFrame, Frame
  <1>4. base \in Seq(1..n) /\ Back(base) = d /\ d \in 1..n
    <2>1. base \in Seq(1..n)
      BY <1>2, <1>3, OntoTyped
    <2>2. CASE f.context = None
      <3>1. base = o /\ d = Last(o)
        BY <2>2 DEF Onto, Own
      <3>2. Last(o) \in 1..n
        BY <1>2, <2>2, LastIsHeld
      <3>3. QED
        BY <1>2, <2>1, <2>2, <3>1, <3>2 DEF Back
    <2>3. CASE f.context # None
      <3>1. f.context \in 1..n
        BY <1>3, <2>3 DEF Pointer, None
      <3>2. Back(Append(o, f.context)) = f.context
        BY <1>2, <3>1, PopAppend
      <3>3. QED
        BY <2>1, <2>3, <3>1, <3>2 DEF Onto, Own
    <2>4. QED
      BY <2>2, <2>3
  <1>5. S = Onto(base, c)
    BY <1>2, <1>3, OpenedOnto DEF Onto
  <1>6. c \in 1..n /\ S = Append(base, c)
    BY <1>3, <1>5 DEF Pointer, None, Onto
  <1>7. Pop(S) = base
    BY <1>4, <1>6, PopAppend
  <1>8. contexts' = Cleared(Merged(contexts, d, c), c)
    BY <1>4, <1>7 DEF SelectorMerge
  <1>9. NoRepetition(S) 
    BY StacksDistinct
  <1> HIDE DEF f, o, S, c, base, d
  <1>10. d # c
    <2>1. base # <<>>
      <3>1. CASE base = <<>>
        BY <1>4, <3>1 DEF Back, None
      <3>2. QED
        BY <3>1
    <2>2. Last(base) = d
      BY <1>4, <2>1 DEF Back
    <2>3. Holds(base, d)
      BY <1>4, <2>1, <2>2, LastIsHeld
    <2> DEFINE v == <<c>>
    <2>4. v \in Seq(1..n) /\ Holds(v, c)
      BY <1>6 DEF Holds
    <2>5. S = base \o v
      BY <1>4, <1>6, AppendConcat
    <2> HIDE DEF v
    <2>6. NoRepetition(base \o v)
      BY <1>9, <2>5
    <2>7. QED
      BY <1>4, <2>3, <2>4, <2>6, ApartOnStack
  <1>11. contexts \in Heap(n) /\ DOMAIN contexts = 1..n /\ HeapApart(contexts)
    BY HeldTyped DEF HoldersInv, Apart
  <1>12. Moved(contexts, contexts', d, c)
    BY <1>4, <1>6, <1>8, <1>10, <1>11, MovedApart
  <1>13. /\ contexts'[d] = [contexts[d] EXCEPT !.assignments = @ \o contexts[c].assignments]
         /\ \A e \in 1..n : e # d /\ e # c => contexts'[e] = contexts[e]
    BY <1>11, <1>12 DEF Moved
  <1>14. contexts[d] \in HandlerContext(n)
    BY <1>4, <1>11, HeapAt
  <1>15. contexts'[d].assignments = contexts[d].assignments \o contexts[c].assignments
    BY <1>13, <1>14 DEF HandlerContext
  <1>16. QED
    BY <1>4, <1>6, <1>8, <1>10, <1>13, <1>15 DEF Assigned, Same, f, o, c, d

(* The activation of a selector that has given its best branch.            *)
LEMMA MergedFrame ==
    ASSUME NEW n \in Nat, NEW f \in Frame(n)
    PROVE  LET g == [Answer(f, f.best) EXCEPT !.bestBranch = None]
           IN  /\ g \in Frame(n) /\ g.rec = f.rec /\ g.context = f.context
               /\ g.branch = f.branch /\ g.bestBranch = None /\ g.phase = "end"
               /\ g.begin = f.begin /\ g.mark = f.mark /\ g.pos = f.pos
               /\ g.total = f.total /\ g.matched = f.best
  <1> DEFINE a == [f EXCEPT !.phase = "end", !.matched = f.best]
             g == [Answer(f, f.best) EXCEPT !.bestBranch = None]
  <1>1. g \in Frame(n)
    BY NextFrameTyped
  <1>2. g = [a EXCEPT !.bestBranch = None]
    BY DEF Answer
  <1> HIDE DEF g
  <1>3. /\ a.rec = f.rec /\ a.context = f.context /\ a.branch = f.branch /\ a.phase = "end"
        /\ a.begin = f.begin /\ a.mark = f.mark /\ a.pos = f.pos /\ a.total = f.total
        /\ a.matched = f.best
    BY DEF Frame
  <1>4. a \in Frame(n)
    BY DEF Frame, Phase
  <1> HIDE DEF a
  <1>5. /\ g.rec = a.rec /\ g.context = a.context /\ g.branch = a.branch
        /\ g.bestBranch = None /\ g.phase = a.phase /\ g.begin = a.begin /\ g.mark = a.mark
        /\ g.pos = a.pos /\ g.total = a.total /\ g.matched = a.matched
    BY <1>2, <1>4 DEF Frame
  <1>6. QED
    BY <1>1, <1>3, <1>5 DEF g

(* The best branch is merged: all of it begins where the selector began,   *)
(* behind what the context already has, and ends where the selector ends.  *)
LEMMA MergeUndo ==
    ASSUME NEW n \in Nat, TypedWith(n), ThreadsInv, HoldersInv, UndoInv, NEW t \in Thread,
           SelectorMerge(t)
    PROVE  UndoInv'
  <1> DEFINE f == Top(t)
             P == Front(frames[t])
             r == Base(P)
             H == contexts
             H2 == contexts'
             inner == P # <<>>
             S == handlerStack[t]
             g == [Answer(f, f.best) EXCEPT !.bestBranch = None]
             c == f.bestBranch
             d == Own(f, r)
             o == OpenedBy(P)
             w == Opened(f)
  <1>1. InPhase(t, "feed") /\ Shape[f.rec].kind = "selector" /\ Become(t, g)
    BY DEF SelectorMerge, Running
  <1>2. /\ BelowMarks(P, H) /\ AboveMarks(P, f, r)
        /\ FrameMarks(f, r, H, inner) /\ TopReach(f, r, H)
        /\ P \in Seq(Frame(n)) /\ f \in Frame(n) /\ GoodFrame(f) /\ f.phase = "feed"
        /\ P = <<>> => f.rec \in Handled
        /\ Waiting(P)
    BY <1>1, TopUndo
  <1>3. /\ o \in Seq(1..n) /\ NoRepetition(o) /\ NoRepetition(o \o w) /\ S = o \o w
        /\ \A x \in 1..n : AssignmentsOf(H, x)
        /\ \A i \in DOMAIN P : P[i].begin <= f.begin
        /\ P # <<>> => r \in 1..n /\ Holds(o, r) /\ r = Last(o)
        /\ \A x : Holds(o, x) => Holds(S, x)
    BY <1>1, TopUndo
  <1>4. /\ g \in Frame(n) /\ g.rec = f.rec /\ g.context = f.context /\ g.branch = f.branch
        /\ g.bestBranch = None /\ g.phase = "end"
        /\ g.begin = f.begin /\ g.mark = f.mark /\ g.pos = f.pos
        /\ g.total = f.total /\ g.matched = f.best
    BY <1>2, MergedFrame
  <1>5. f.branch = None
    BY <1>2 DEF GoodFrame
  <1>6. r = Last(o)
    BY <1>2, BaseIsLast
  <1>7. c # None =>
           /\ c \in 1..n /\ d \in 1..n /\ d # c
           /\ Assigned(H2, d) = Assigned(H, d) \o Assigned(H, c)
           /\ \A e \in 1..n : e # d /\ e # c => Same(H, H2, e)
    BY <1>6, MergeEffect
  <1>8. c = None => contexts' = contexts
    BY DEF SelectorMerge, heapVars
  <1>9. /\ w \in Seq(1..n)
        /\ f.context # None => Holds(w, f.context)
        /\ c # None => Holds(w, c)
        /\ f.context # None /\ c # None /\ NoRepetition(w) => f.context # c
    BY <1>2, HeldByActivation
  <1>10. \A x : Holds(w, x) => Holds(S, x)
    BY <1>3, <1>9, HeldByConcat
  <1>11. \A x : Holds(w, x) => ~Holds(o, x)
    BY <1>3, <1>9, ApartOnStack
  <1>12. \A x \in 1..n : Assigned(H, x) \in Seq(Assignment(n))
    BY HeapAssignments DEF TypedWith
  <1>13. \A x : Holds(o, x) => x \in 1..n
    <2>1. DOMAIN o = 1..Len(o)
      BY <1>3, LenProperties
    <2>2. QED
      BY <1>3, <2>1, ElementOfSeq DEF Holds
  <1>a. P = Front(frames[t]) /\ r = Base(P) /\ inner = (P # <<>>)
        /\ H2 = contexts' /\ (~inner => f.rec \in Handled) /\ H = contexts
        /\ inner \in BOOLEAN /\ o = OpenedBy(P) /\ d = Own(f, r) /\ c = f.bestBranch
        /\ (inner => r \in 1..n) /\ S = handlerStack[t]
    BY <1>2, <1>3
  <1> HIDE DEF f, P, r, H, H2, inner, S, g, c, d, o, w
  <1>14. d \in 1..n /\ f.begin \in Nat /\ f.best \in Int /\ AssignmentsOf(H, d)
    <2>1. d \in 1..n
      BY <1>2, <1>a, OwnTyped
    <2>2. f.best \in Int
      BY <1>2 DEF Frame, Matched, NPos
    <2>3. QED
      BY <1>2, <1>3, <2>1, <2>2 DEF Frame
  <1>15. (Plain(g) <=> Plain(f)) /\ Own(g, r) = d
    BY <1>2, <1>4, <1>a DEF Plain, Own
  <1>16. AboveMarks(P, g, r)
    BY <1>2, <1>4, <1>15, AboveAgain
  <1>17. Span(g)
    BY <1>2, <1>4 DEF FrameMarks, Span
  <1>18. EndBy(H, d, f.begin)
    BY <1>1, <1>2, <1>a DEF FrameMarks, f
  <1>19. f.best > 0 => EndBy(H, d, f.begin + f.best)
    BY <1>14, <1>18, EndByMore
  <1>20. CASE c = None
    <2>1. H2 = H
      BY <1>8, <1>20, <1>a
    <2>2. FrameMarks(g, r, H, inner)
      BY <1>2, <1>4, <1>5, <1>15, <1>17 DEF FrameMarks
    <2>3. TopReach(g, r, H)
      BY <1>4, <1>15, <1>19 DEF TopReach
    <2>4. n <= n
      OBVIOUS
    <2>5. UndoThread(frames'[t], contexts') /\ \A u \in Thread : u # t => frames'[u] = frames[u]
      BY <1>1, <1>2, <1>4, <1>16, <1>a, <2>1, <2>2, <2>3, <2>4, BecomeUndo
    <2>6. QED
      BY <1>8, <1>20, <2>5, HeapKeptUndo
  <1>21. CASE c # None
    <2> DEFINE u == Assigned(H, d)
               v == Assigned(H, c)
               k == Len(u)
    <2>1. /\ c \in 1..n /\ d # c /\ u \in Seq(Assignment(n)) /\ v \in Seq(Assignment(n))
          /\ Assigned(H2, d) = u \o v
          /\ \A e \in 1..n : e # d /\ e # c => Same(H, H2, e)
      BY <1>7, <1>12, <1>14, <1>21
    <2>2. From(H, c, f.begin) /\ f.best >= 0 /\ EndBy(H, c, f.begin + f.best)
      BY <1>2, <1>21, <1>a DEF FrameMarks
    <2>3. \A j \in DOMAIN v : v[j].begin >= f.begin
      BY <2>2 DEF From
    <2>4. \A j \in DOMAIN v : v[j].begin + v[j].count <= f.begin + f.best
      BY <2>2 DEF EndBy
    <2>a. u = Assigned(H, d) /\ k = Len(u)
      OBVIOUS
    <2> HIDE DEF u, v, k
    <2>5. /\ Extends(H, H2, d, k, f.begin) /\ AssignmentsOf(H2, d)
          /\ \A q : EndBy(H, d, q) /\ (\A j \in DOMAIN v : v[j].begin + v[j].count <= q)
                       => EndBy(H2, d, q)
      BY <1>14, <2>1, <2>3, <2>a, Lengthened
    <2>6. /\ From(H, d, f.begin) => From(H2, d, f.begin)
          /\ \A m \in Nat : m <= k /\ SplitAt(H, d, m, f.begin) => SplitAt(H2, d, m, f.begin)
      <3>1. f.begin <= f.begin
        BY <1>14
      <3>2. QED
        BY <1>14, <2>5, <3>1, ExtendedFrom
    <2>7. Holds(w, c) /\ ~Holds(o, c)
      BY <1>9, <1>11, <1>21
    <2>8. BelowMarks(P, H2)
      <3>1. d = Last(o) \/ ~Holds(o, d)
        BY <1>6, <1>9, <1>11, <1>a DEF Own
      <3>2. \A i \in DOMAIN P : P[i].context = None /\ ReceiverOf(P, i) = d => P[i].mark <= k
        <4>1. \A i \in DOMAIN P : P[i].context = None /\ ReceiverOf(P, i) = d =>
                P[i].mark <= Len(Assigned(H, d))
          BY <1>2, MarksBelow
        <4>2. QED
          BY <4>1, <2>a
      <3>3. \A x : Holds(o, x) /\ x # d => Same(H, H2, x)
        BY <1>13, <2>1, <2>7
      <3>4. k \in Nat
        BY <2>5 DEF Extends
      <3>5. QED
        BY <1>2, <1>3, <1>14, <1>a, <2>5, <3>1, <3>2, <3>3, <3>4, BelowWritten
    <2>9. Plain(g) => SplitAt(H2, r, g.mark, g.begin)
      <3>1. SUFFICES ASSUME Plain(g) PROVE SplitAt(H2, r, g.mark, g.begin)
        OBVIOUS
      <3>2. d = r
        BY <1>4, <1>a, <3>1 DEF Plain, Own
      <3>3. SplitAt(H, d, f.mark, f.begin)
        BY <1>2, <1>15, <3>1, <3>2 DEF FrameMarks
      <3>4. f.mark \in Nat /\ f.mark <= k
        BY <1>2, <2>a, <3>3 DEF SplitAt, Frame
      <3>5. QED
        BY <1>4, <2>6, <3>2, <3>3, <3>4
    <2>10. inner /\ ~Plain(g) => EndBy(H2, r, g.begin)
      <3>1. SUFFICES ASSUME inner, ~Plain(g) PROVE EndBy(H2, r, g.begin)
        OBVIOUS
      <3>2. f.context # None /\ d = f.context
        BY <1>4, <1>a, <3>1 DEF Plain, Own
      <3>3. r \in 1..n /\ Holds(o, r)
        BY <1>3, <1>a, <3>1
      <3>4. r # d /\ r # c
        BY <1>9, <1>11, <2>7, <3>2, <3>3
      <3>5. Same(H, H2, r)
        BY <2>1, <3>3, <3>4
      <3>6. EndBy(H, r, f.begin)
        BY <1>2, <1>15, <3>1 DEF FrameMarks
      <3>7. QED
        BY <1>4, <3>5, <3>6, SameAssignments
    <2>11. g.context # None => From(H2, g.context, g.begin)
      <3>1. SUFFICES ASSUME g.context # None PROVE From(H2, g.context, g.begin)
        OBVIOUS
      <3>2. d = g.context /\ f.context # None /\ f.context = d
        BY <1>4, <1>a, <3>1 DEF Own
      <3>3. From(H, d, f.begin)
        BY <1>2, <3>2 DEF FrameMarks
      <3>4. QED
        BY <1>4, <2>6, <3>2, <3>3
    <2>12. FrameMarks(g, r, H2, inner)
      BY <1>4, <1>5, <1>17, <2>9, <2>10, <2>11 DEF FrameMarks
    <2>13. TopReach(g, r, H2)
      <3>1. f.best > 0 => EndBy(H2, d, f.begin + f.best)
        BY <1>19, <2>4, <2>5
      <3>2. QED
        BY <1>4, <1>15, <3>1 DEF TopReach
    <2>14. n <= n
      OBVIOUS
    <2>15. UndoThread(frames'[t], contexts') /\ \A x \in Thread : x # t => frames'[x] = frames[x]
      BY <1>1, <1>4, <1>16, <1>a, <2>8, <2>12, <2>13, <2>14, BecomeUndo
    <2>16. Holds(S, d) /\ Holds(S, c)
      <3>1. Holds(w, d) \/ Holds(o, d)
        <4>1. CASE f.context # None
          BY <1>9, <1>a, <4>1 DEF Own
        <4>2. CASE f.context = None
          <5>1. inner
            BY <1>2, <1>a, <4>2 DEF GoodFrame
          <5>2. QED
            BY <1>3, <1>a, <4>2, <5>1 DEF Own
        <4>3. QED
          BY <4>1, <4>2
      <3>2. QED
        BY <1>3, <1>10, <2>7, <3>1
    <2>17. \A x \in 1..n : ~Holds(handlerStack[t], x) => Same(contexts, contexts', x)
      BY <1>a, <2>1, <2>16
    <2>18. QED
      BY <2>15, <2>17, StepUndo
  <1>22. QED
    BY <1>20, <1>21

----------------------------------------------------------------------------
(* What setChild() does to the assignments: at most one more, v.           *)
Given(H, H2, n, d, v, begin, count) ==
    /\ v \in Seq(Assignment(n))
    /\ \A j \in DOMAIN v : v[j].begin = begin /\ v[j].count = count
    /\ Assigned(H2, d) = Assigned(H, d) \o v
    /\ \A e \in 1..n : e # d => Same(H, H2, e)

(* setChild(), whether or not the handler collects the rule.               *)
LEMMA SetChildGiven ==
    ASSUME NEW n \in Nat, TypedWith(n), HoldersInv, NEW d \in 1..n,
           NEW rule, NEW begin \in Nat, NEW count \in Nat, NEW child \in Pointer(n),
           SetChild(d, rule, begin, count, child)
    PROVE  \E v : Given(contexts, contexts', n, d, v, begin, count)
  <1>1. contexts \in HeapOf(n) /\ contexts \in Heap(n) /\ DOMAIN contexts = 1..n
    BY HeldTyped DEF TypedWith
  <1>2. Assigned(contexts, d) \in Seq(Assignment(n))
    BY <1>1, HeapAssignments
  <1>3. CASE rule \in Collected[contexts[d].handler]
    <2> DEFINE a == [rule |-> rule, begin |-> begin, count |-> count, child |-> child]
               v == <<a>>
    <2>1. a \in Assignment(n) /\ a.begin = begin /\ a.count = count
      <3>1. contexts[d].handler \in Handled
        BY <1>1, AssignmentsTyped
      <3>2. rule \in Rule
        BY <1>3, <3>1, GrammarAssumption
      <3>3. QED
        BY <3>2 DEF Assignment
    <2>2. contexts' = [contexts EXCEPT ![d].assignments = Append(contexts[d].assignments, a)]
      BY <1>3 DEF SetChild
    <2> HIDE DEF a
    <2>3. Rewrites(contexts, contexts', d, Append(contexts[d].assignments, a))
      BY <1>1, <2>2, HeapAt
    <2>4. v \in Seq(Assignment(n)) /\ DOMAIN v = {1} /\ v[1] = a
      BY <2>1
    <2>5. Append(Assigned(contexts, d), a) = Assigned(contexts, d) \o v
      BY <1>2, <2>1, AppendIsConcat
    <2>6. \A e \in 1..n : e # d => Same(contexts, contexts', e)
      BY <1>1, <2>3 DEF Rewrites, Same, Assigned
    <2>7. Assigned(contexts', d) = Assigned(contexts, d) \o v
      BY <2>3, <2>5 DEF Rewrites, Assigned
    <2> HIDE DEF v
    <2>8. Given(contexts, contexts', n, d, v, begin, count)
      BY <2>1, <2>4, <2>6, <2>7 DEF Given
    <2>9. QED
      BY <2>8
  <1>4. CASE rule \notin Collected[contexts[d].handler]
    <2> DEFINE v == <<>>
    <2>1. contexts' = contexts
      BY <1>4 DEF SetChild
    <2>2. v \in Seq(Assignment(n)) /\ DOMAIN v = {}
      BY EmptySeq
    <2>3. Assigned(contexts, d) \o v = Assigned(contexts, d)
      BY <1>2, ConcatEmptySeq
    <2>4. Given(contexts, contexts', n, d, v, begin, count)
      BY <2>1, <2>2, <2>3 DEF Given, Same
    <2>5. QED
      BY <2>4
  <1>5. QED
    BY <1>3, <1>4

(* An element is given what an activation that ends has matched.           *)
LEMMA GivenUndo ==
    ASSUME NEW n \in Nat, TypedWith(n), ThreadsInv, HoldersInv, UndoInv, NEW t \in Thread,
           InPhase(t, "end"), Top(t).matched > 0, Return(t),
           NEW P, P = Front(frames[t]), P # <<>>,
           EndBy(contexts, Base(P), Top(t).begin + Top(t).matched),
           NEW v, Given(contexts, contexts', n, Base(P), v, Top(t).begin, Top(t).matched)
    PROVE  UndoInv'
  <1> DEFINE f == Top(t)
             r == Base(P)
             H == contexts
             H2 == contexts'
             o == OpenedBy(P)
             u == Assigned(H, r)
             k == Len(u)
  <1>1. /\ BelowMarks(P, H) /\ AboveMarks(P, f, r)
        /\ P \in Seq(Frame(n)) /\ f \in Frame(n) /\ Waiting(P)
    BY TopUndo
  <1>2. /\ o \in Seq(1..n) /\ NoRepetition(o)
        /\ \A x \in 1..n : AssignmentsOf(H, x)
        /\ \A i \in DOMAIN P : P[i].begin <= f.begin
        /\ r \in 1..n /\ Holds(o, r) /\ r = Last(o)
        /\ \A x : Holds(o, x) => Holds(handlerStack[t], x)
    BY TopUndo
  <1>3. f.begin \in Nat /\ f.matched \in Nat /\ Gain(f.matched) = f.matched
    BY <1>1 DEF Frame, Matched, NPos, Gain
  <1>4. u \in Seq(Assignment(n))
    BY <1>2, HeapAssignments DEF TypedWith
  <1>5. \A x : Holds(o, x) => x \in 1..n
    <2>1. DOMAIN o = 1..Len(o)
      BY <1>2, LenProperties
    <2>2. QED
      BY <1>2, <2>1, ElementOfSeq DEF Holds
  <1>6. /\ v \in Seq(Assignment(n)) /\ Assigned(H2, r) = u \o v
        /\ \A j \in DOMAIN v : v[j].begin = f.begin /\ v[j].count = f.matched
        /\ \A e \in 1..n : e # r => Same(H, H2, e)
        /\ EndBy(H, r, f.begin + f.matched)
    BY DEF Given
  <1>a. P = Front(frames[t]) /\ r = Base(P) /\ H2 = contexts' /\ H = contexts
        /\ o = OpenedBy(P) /\ u = Assigned(H, r) /\ k = Len(u)
    OBVIOUS
  <1> HIDE DEF f, r, H, H2, o, u, k
  <1>7. \A j \in DOMAIN v : v[j].begin >= f.begin /\ v[j].begin + v[j].count <= f.begin + f.matched
    BY <1>3, <1>6
  <1>8. /\ Extends(H, H2, r, k, f.begin) /\ AssignmentsOf(H2, r) /\ AssignmentsOf(H, r)
        /\ \A q : EndBy(H, r, q) /\ (\A j \in DOMAIN v : v[j].begin + v[j].count <= q)
                     => EndBy(H2, r, q)
    <2>1. \A j \in DOMAIN v : v[j].begin >= f.begin
      BY <1>7
    <2>2. QED
      BY <1>3, <1>4, <1>6, <1>a, <2>1, Lengthened
  <1>9. EndBy(H2, r, f.begin + Gain(f.matched))
    BY <1>3, <1>6, <1>7, <1>8
  <1>10. BelowMarks(P, H2)
    <2>1. \A i \in DOMAIN P : P[i].context = None /\ ReceiverOf(P, i) = r => P[i].mark <= k
      <3>1. \A i \in DOMAIN P : P[i].context = None /\ ReceiverOf(P, i) = r =>
                P[i].mark <= Len(Assigned(H, r))
        BY <1>1, MarksBelow
      <3>2. QED
        BY <3>1, <1>a
    <2>2. \A x : Holds(o, x) /\ x # r => Same(H, H2, x)
      BY <1>5, <1>6
    <2>3. k \in Nat
      BY <1>8 DEF Extends
    <2>4. QED
      BY <1>1, <1>2, <1>3, <1>a, <1>8, <2>1, <2>2, <2>3, BelowWritten
  <1>11. /\ BelowMarks(P, contexts') /\ AboveMarks(P, Top(t), Base(P))
         /\ EndBy(contexts', Base(P), Top(t).begin + Gain(Top(t).matched))
    BY <1>1, <1>9, <1>10, <1>a DEF f
  <1>12. UndoThread(frames'[t], contexts') /\ \A x \in Thread : x # t => frames'[x] = frames[x]
    BY <1>11, ReturnUndo
  <1>13. \A x \in 1..n : ~Holds(handlerStack[t], x) => Same(contexts, contexts', x)
    BY <1>2, <1>6, <1>a
  <1>14. QED
    BY <1>12, <1>13, StepUndo

(* _endParse(), an element to keep.                                        *)
LEMMA EndElementUndo ==
    ASSUME NEW n \in Nat, TypedWith(n), ThreadsInv, HoldersInv, UndoInv, NEW t \in Thread,
           EndElement(t)
    PROVE  UndoInv'
  <1> DEFINE f == Top(t)
             P == Front(frames[t])
             r == Base(P)
             o == OpenedBy(P)
  <1>1. InPhase(t, "end") /\ f.matched > 0 /\ f.context # None /\ Return(t)
    BY DEF EndElement, Matching
  <1>2. /\ BelowMarks(P, contexts) /\ AboveMarks(P, f, r) /\ FrameMarks(f, r, contexts, P # <<>>)
        /\ f \in Frame(n)
        /\ P # <<>> => r \in 1..n /\ r = Last(o) /\ o # <<>>
        /\ \A c \in 1..n : AssignmentsOf(contexts, c)
    BY <1>1, TopUndo
  <1>3. f.context \in 1..n /\ Pop(handlerStack[t]) = o
    BY <1>1, AtTheEnd
  <1>4. f.begin \in Nat /\ f.matched \in Nat /\ f.context \in Pointer(n)
    BY <1>1, <1>2 DEF Frame, Matched, NPos
  <1>5. CASE P = <<>>
    <2>1. contexts' = contexts
      <3>1. o = <<>>
        BY <1>5, OpenedByEmpty
      <3>2. QED
        BY <1>3, <3>1 DEF EndElement
    <2>2. UndoThread(frames'[t], contexts') /\ \A x \in Thread : x # t => frames'[x] = frames[x]
      BY <1>1, <1>2, <1>5, <2>1, ReturnUndo
    <2>3. QED
      BY <2>1, <2>2, HeapKeptUndo
  <1>6. CASE P # <<>>
    <2>1. SetChild(r, f.rec, f.begin, f.matched, f.context)
      BY <1>2, <1>3, <1>6 DEF EndElement
    <2>2. PICK v : Given(contexts, contexts', n, r, v, f.begin, f.matched)
      <3> HIDE DEF f, r
      <3> QED BY <1>2, <1>4, <1>6, <2>1, SetChildGiven
    <2>3. EndBy(contexts, r, f.begin + f.matched)
      <3>1. EndBy(contexts, r, f.begin)
        BY <1>1, <1>2, <1>6 DEF FrameMarks, Plain
      <3>2. AssignmentsOf(contexts, r)
        BY <1>2, <1>6
      <3> HIDE DEF f, r
      <3>3. QED
        BY <1>4, <3>1, <3>2, EndByMore
    <2>4. QED
      BY <1>1, <1>6, <2>2, <2>3, GivenUndo
  <1>7. QED
    BY <1>5, <1>6

(* _endParse(), a value.                                                   *)
LEMMA EndTextUndo ==
    ASSUME NEW n \in Nat, TypedWith(n), ThreadsInv, HoldersInv, UndoInv, NEW t \in Thread,
           EndText(t)
    PROVE  UndoInv'
  <1> DEFINE f == Top(t)
             P == Front(frames[t])
             r == Base(P)
             o == OpenedBy(P)
  <1>1. InPhase(t, "end") /\ f.matched > 0 /\ f.context = None /\ Return(t)
    BY DEF EndText, Matching
  <1>2. /\ BelowMarks(P, contexts) /\ AboveMarks(P, f, r) /\ TopReach(f, r, contexts)
        /\ f \in Frame(n) /\ GoodFrame(f) /\ f.phase = "end"
        /\ P = <<>> => f.rec \in Handled
        /\ P # <<>> => r \in 1..n /\ r = Last(o) /\ o # <<>>
    BY <1>1, TopUndo
  <1>3. handlerStack[t] = o
    BY <1>1, AtTheEnd
  <1>4. f.begin \in Nat /\ f.matched \in Nat /\ None \in Pointer(n)
    BY <1>1, <1>2 DEF Frame, Matched, NPos, Pointer, None
  <1>5. P # <<>>
    BY <1>1, <1>2 DEF GoodFrame
  <1>6. EndBy(contexts, r, f.begin + f.matched)
    BY <1>1, <1>2 DEF TopReach, Own
  <1>7. CASE f.rec \in Rule
    <2>1. SetChild(r, f.rec, f.begin, f.matched, None)
      BY <1>2, <1>3, <1>5, <1>7 DEF EndText, Back
    <2>2. PICK v : Given(contexts, contexts', n, r, v, f.begin, f.matched)
      <3> HIDE DEF f, r
      <3> QED BY <1>2, <1>4, <1>5, <2>1, SetChildGiven
    <2>3. QED
      BY <1>1, <1>5, <1>6, <2>2, GivenUndo
  <1>8. CASE f.rec \notin Rule
    <2>1. contexts' = contexts
      BY <1>8 DEF EndText
    <2>2. Gain(f.matched) = f.matched
      BY <1>1 DEF Gain
    <2>3. UndoThread(frames'[t], contexts') /\ \A x \in Thread : x # t => frames'[x] = frames[x]
      BY <1>1, <1>2, <1>6, <2>1, <2>2, ReturnUndo
    <2>4. QED
      BY <2>1, <2>3, HeapKeptUndo
  <1>9. QED
    BY <1>7, <1>8

(* _endParse(), an element that matched nothing.                           *)
LEMMA DropElementUndo ==
    ASSUME NEW n \in Nat, TypedWith(n), ThreadsInv, HoldersInv, UndoInv, NEW t \in Thread,
           DropElement(t)
    PROVE  UndoInv'
  <1> DEFINE f == Top(t)
             P == Front(frames[t])
             r == Base(P)
             o == OpenedBy(P)
             w == Opened(f)
             c == f.context
  <1>1. InPhase(t, "end") /\ f.matched <= 0 /\ c # None /\ Return(t)
        /\ contexts' = Cleared(contexts, c)
    BY DEF DropElement, Failing
  <1>2. /\ BelowMarks(P, contexts) /\ AboveMarks(P, f, r) /\ FrameMarks(f, r, contexts, P # <<>>)
        /\ P \in Seq(Frame(n)) /\ f \in Frame(n) /\ Waiting(P)
        /\ P # <<>> => r \in 1..n /\ Holds(o, r)
        /\ o \in Seq(1..n) /\ NoRepetition(o \o w) /\ handlerStack[t] = o \o w
    BY <1>1, TopUndo
  <1>3. c \in 1..n
    BY <1>1, AtTheEnd
  <1>4. w \in Seq(1..n) /\ Holds(w, c)
    BY <1>1, <1>2, HeldByActivation
  <1>5. ~Holds(o, c) /\ Holds(handlerStack[t], c)
    <2> HIDE DEF o, w, c
    <2>1. \A x : Holds(o, x) => x # c
      BY <1>2, <1>4, ApartOnStack
    <2>2. Holds(o \o w, c)
      BY <1>2, <1>4, HeldByConcat
    <2>3. QED
      BY <1>2, <2>1, <2>2
  <1>6. \A e \in 1..n : e # c => Same(contexts, contexts', e)
    <2>1. \A e \in 1..n : e # c => contexts'[e] = contexts[e]
      BY <1>1, <1>3, ClearedHeap
    <2>2. QED
      BY <2>1 DEF Same, Assigned
  <1>7. f.matched \in Int /\ f.begin \in Nat /\ f.begin + Gain(f.matched) = f.begin
    BY <1>1, <1>2 DEF Frame, Matched, NPos, Gain
  <1>8. BelowMarks(P, contexts')
    <2>1. \A x : Holds(o, x) => Same(contexts, contexts', x)
      <3>1. \A x : Holds(o, x) => x \in 1..n
        <4>1. DOMAIN o = 1..Len(o)
          BY <1>2, LenProperties
        <4>2. QED
          BY <1>2, <4>1, ElementOfSeq DEF Holds
      <3>2. QED
        BY <1>5, <1>6, <3>1
    <2>2. QED
      BY <1>2, <2>1, BelowSame
  <1>9. P # <<>> => EndBy(contexts', r, f.begin + Gain(f.matched))
    <2>1. SUFFICES ASSUME P # <<>> PROVE EndBy(contexts', r, f.begin)
      BY <1>7
    <2>2. EndBy(contexts, r, f.begin)
      BY <1>1, <1>2, <2>1 DEF FrameMarks, Plain
    <2>3. Same(contexts, contexts', r)
      BY <1>2, <1>5, <1>6, <2>1
    <2>4. QED
      BY <2>2, <2>3, SameAssignments
  <1>10. UndoThread(frames'[t], contexts') /\ \A x \in Thread : x # t => frames'[x] = frames[x]
    BY <1>1, <1>2, <1>8, <1>9, ReturnUndo
  <1>11. \A x \in 1..n : ~Holds(handlerStack[t], x) => Same(contexts, contexts', x)
    BY <1>5, <1>6
  <1>12. QED
    BY <1>10, <1>11, StepUndo

(* undoAssignments() keeps what is below the mark, all of which ends where *)
(* the attempt began.                                                      *)
LEMMA UndoTextUndo ==
    ASSUME NEW n \in Nat, TypedWith(n), ThreadsInv, HoldersInv, UndoInv, NEW t \in Thread,
           UndoText(t)
    PROVE  UndoInv'
  <1> DEFINE f == Top(t)
             P == Front(frames[t])
             r == Base(P)
             o == OpenedBy(P)
             H == contexts
             H2 == contexts'
             u == Assigned(H, r)
             kept == Take(u, f.mark)
             m == f.mark
  <1>1. InPhase(t, "end") /\ f.matched <= 0 /\ f.context = None /\ Return(t)
    BY DEF UndoText, Failing
  <1>2. /\ BelowMarks(P, H) /\ AboveMarks(P, f, r) /\ FrameMarks(f, r, H, P # <<>>)
        /\ P \in Seq(Frame(n)) /\ f \in Frame(n) /\ Waiting(P) /\ GoodFrame(f) /\ f.phase = "end"
        /\ P = <<>> => f.rec \in Handled
    BY <1>1, TopUndo
  <1>3. /\ P # <<>> => r \in 1..n /\ r = Last(o) /\ Holds(o, r) /\ o # <<>>
        /\ o \in Seq(1..n) /\ NoRepetition(o)
        /\ \A x \in 1..n : AssignmentsOf(H, x)
        /\ \A i \in DOMAIN P : P[i].begin <= f.begin
        /\ \A x : Holds(o, x) => Holds(handlerStack[t], x)
    BY <1>1, TopUndo
  <1>4. handlerStack[t] = o
    BY <1>1, AtTheEnd
  <1>5. P # <<>>
    BY <1>1, <1>2 DEF GoodFrame
  <1>6. f.begin \in Nat /\ m \in Nat /\ f.begin + Gain(f.matched) = f.begin
    <2>1. f \in Frame(n) /\ f.matched <= 0
      BY <1>1, <1>2
    <2> HIDE DEF f
    <2>2. f.begin \in Nat /\ f.mark \in Nat /\ f.matched \in Matched
      BY <2>1 DEF Frame
    <2>3. Gain(f.matched) = 0
      BY <2>1, <2>2 DEF Matched, NPos, Gain
    <2>4. QED
      BY <2>2, <2>3
  <1>7. contexts' = [contexts EXCEPT ![r].assignments = kept]
    BY <1>3, <1>4, <1>5 DEF UndoText, Back, Assigned
  <1>8. Rewrites(H, H2, r, kept) /\ u \in Seq(Assignment(n))
    <2>1. contexts \in Heap(n) /\ DOMAIN contexts = 1..n
      BY HeldTyped
    <2> HIDE DEF kept, r
    <2>2. Rewrites(H, H2, r, kept)
      BY <1>3, <1>5, <1>7, <2>1, HeapAt
    <2>3. QED
      BY <1>3, <1>5, <2>2, HeapAssignments DEF TypedWith, r
  <1>9. Assigned(H2, r) = kept /\ \A e \in 1..n : e # r => Same(H, H2, e)
    <2>1. DOMAIN contexts = 1..n
      BY HeldTyped
    <2>2. QED
      BY <1>8, <2>1 DEF Rewrites, Assigned, Same
  <1>10. Plain(f)
    BY <1>1, <1>2 DEF Plain
  <1>11. m <= Len(u) /\ \A j \in DOMAIN u : j <= m => u[j].begin + u[j].count <= f.begin
    BY <1>2, <1>10 DEF FrameMarks, SplitAt
  <1>12. \A i \in DOMAIN P : P[i].context = None /\ ReceiverOf(P, i) = r => P[i].mark <= m
    <2>1. SUFFICES ASSUME NEW i \in DOMAIN P, P[i].context = None, ReceiverOf(P, i) = r
                   PROVE  P[i].mark <= m
      OBVIOUS
    <2>2. Plain(P[i])
      BY <1>2, <2>1 DEF Plain, Waiting
    <2>3. QED
      BY <1>2, <1>10, <2>1, <2>2 DEF AboveMarks, Pair
  <1>a. P = Front(frames[t]) /\ r = Base(P) /\ H2 = contexts' /\ H = contexts
        /\ o = OpenedBy(P) /\ u = Assigned(H, r) /\ m = f.mark /\ r \in 1..n /\ f = Top(t)
    BY <1>3, <1>5
  <1>b. kept = SubSeq(u, 1, IF m < Len(u) THEN m ELSE Len(u))
    BY DEF Take
  <1> HIDE DEF f, P, r, o, H, H2, u, kept, m
  <1>13. kept \in Seq(Assignment(n)) /\ Len(kept) = m /\ \A j \in 1..m : kept[j] = u[j]
    <2>1. Len(u) \in Nat /\ \A i \in 1..m : u[i] \in Assignment(n)
      BY <1>6, <1>8, <1>11, LenProperties, ElementOfSeq
    <2>2. kept = SubSeq(u, 1, m)
      BY <1>b, <1>11, <2>1, <1>6
    <2>3. QED
      BY <1>6, <1>8, <1>11, <2>1, <2>2, SubSeqProperties
  <1>14. DOMAIN kept = 1..m /\ DOMAIN u = 1..Len(u) /\ Len(u) \in Nat
    BY <1>8, <1>13, LenProperties
  <1>15. AssignmentsOf(H2, r) /\ AssignmentsOf(H, r)
    BY <1>3, <1>9, <1>13, <1>a DEF AssignmentsOf
  <1>16. Extends(H, H2, r, m, f.begin)
    <2>1. m <= Len(kept)
      BY <1>6, <1>13
    <2>2. \A j \in DOMAIN kept : j <= m /\ j \in DOMAIN u /\ kept[j] = u[j]
      BY <1>6, <1>11, <1>13, <1>14
    <2>3. QED
      BY <1>6, <1>9, <1>11, <1>a, <2>1, <2>2 DEF Extends
  <1>17. EndBy(H2, r, f.begin)
    <2>1. \A j \in DOMAIN kept : kept[j].begin + kept[j].count <= f.begin
      BY <1>6, <1>11, <1>13, <1>14
    <2>2. QED
      BY <1>9, <2>1 DEF EndBy
  <1>18. BelowMarks(P, H2)
    <2>1. \A x : Holds(o, x) /\ x # r => Same(H, H2, x)
      <3>1. \A x : Holds(o, x) => x \in 1..n
        <4>1. DOMAIN o = 1..Len(o)
          BY <1>3, LenProperties
        <4>2. QED
          BY <1>3, <4>1, ElementOfSeq DEF Holds
      <3>2. QED
        BY <1>9, <3>1
    <2>2. QED
      BY <1>2, <1>3, <1>5, <1>6, <1>12, <1>15, <1>16, <1>a, <2>1, BelowWritten
  <1>19. /\ BelowMarks(P, contexts') /\ AboveMarks(P, Top(t), Base(P))
         /\ EndBy(contexts', Base(P), Top(t).begin + Gain(Top(t).matched))
    BY <1>2, <1>6, <1>17, <1>18, <1>a
  <1>20. UndoThread(frames'[t], contexts') /\ \A x \in Thread : x # t => frames'[x] = frames[x]
    BY <1>1, <1>19, <1>a, ReturnUndo
  <1>21. \A x \in 1..n : ~Holds(handlerStack[t], x) => Same(contexts, contexts', x)
    BY <1>3, <1>5, <1>9, <1>a
  <1>22. QED
    BY <1>20, <1>21, StepUndo

----------------------------------------------------------------------------
(* Before the first parse there is no activation.                          *)
LEMMA InitUndo == Init => UndoInv
  BY DEF Init, UndoInv, UndoThread

(* Every step of every thread keeps the marks in their places.             *)
LEMMA NextUndo == IInv /\ UndoInv /\ [Next]_vars => UndoInv'
  <1> SUFFICES ASSUME IInv, UndoInv, [Next]_vars PROVE UndoInv'
    OBVIOUS
  <1>1. PICK n \in Nat : TypedWith(n)
    BY TypeOKIsTypedWith DEF IInv
  <1>2. ThreadsInv /\ HoldersInv
    BY DEF IInv
  <1>3. ASSUME NEW t \in Thread, StartParse(t) \/ Work(t)
        PROVE  UndoInv'
    <2>1. CASE StartParse(t) \/ FinishParse(t)
      BY <1>1, <1>2, <2>1, ParseUndo
    <2>2. CASE BeginParse(t)
      BY <1>1, <1>2, <2>2, BeginHandledUndo, BeginPlainUndo DEF BeginParse
    <2>3. CASE PlainFeed(t)
      BY <1>1, <1>2, <2>3, PlainFeedUndo
    <2>4. CASE SelectorStep(t)
      BY <1>1, <1>2, <2>4, BranchUndo, ElectUndo, MergeUndo DEF SelectorStep
    <2>5. CASE EndParse(t)
      BY <1>1, <1>2, <2>5, EndElementUndo, DropElementUndo, EndTextUndo, UndoTextUndo
         DEF EndParse
    <2>6. QED
      BY <1>3, <2>1, <2>2, <2>3, <2>4, <2>5 DEF Work, Feed, PlainFeed, SelectorStep
  <1>4. ASSUME UNCHANGED vars PROVE UndoInv'
    <2>1. UNCHANGED <<frames, contexts>>
      BY <1>4 DEF vars, heapVars
    <2>2. QED
      BY <2>1 DEF UndoInv
  <1>5. QED
    BY <1>3, <1>4 DEF Next, AllDone

(* What the invariant says of the activations without a handler is what    *)
(* undoAssignments() relies on.                                            *)
LEMMA MarksAreExact == IInv /\ UndoInv => UndoIsExact
  <1> SUFFICES ASSUME IInv, UndoInv, NEW t \in Thread, NEW i \in DOMAIN frames[t],
                      frames[t][i].phase # "begin", frames[t][i].context = None
               PROVE  LET f == frames[t][i]
                      IN  SplitAt(contexts, Receiver(t, i), f.mark, f.begin)
    BY DEF UndoIsExact, SplitAt, Assigned
  <1>1. PICK n \in Nat : TypedWith(n)
    BY TypeOKIsTypedWith DEF IInv
  <1> DEFINE F == frames[t]
             P == Front(F)
             f == Last(F)
  <1>2. F \in Seq(Frame(n)) /\ F # <<>> /\ UndoThread(F, contexts)
    BY <1>1 DEF TypedWith, FramesOf, UndoInv
  <1>3. /\ BelowMarks(P, contexts) /\ AboveMarks(P, f, Base(P))
        /\ FrameMarks(f, Base(P), contexts, P # <<>>)
    BY <1>2, SplitUndo
  <1>4. P \in Seq(Frame(n)) /\ f \in Frame(n) /\ F = Append(P, f)
    BY <1>2, EndsAppend
  <1>5. BelowMarks(F, contexts)
    BY <1>3, <1>4, BelowOfAppend
  <1>6. Receiver(t, i) = ReceiverOf(F, i)
    BY DEF Receiver, ReceiverOf, Under
  <1>7. QED
    BY <1>5, <1>6 DEF BelowMarks, FrameMarks, Plain

(* Whatever the grammar, the threads and the texts, undoAssignments()      *)
(* erases what the failing activation assigned and no more: every          *)
(* activation without a handler finds below its mark assignments that end  *)
(* where it began or before, and above the mark those of its own attempt.  *)
THEOREM UndoErasesTheAttempt == Spec => []UndoIsExact
  <1>1. Spec => []UndoInv
    <2>1. IInv /\ UndoInv /\ [Next]_vars => UndoInv'
      BY NextUndo
    <2>2. QED
      BY <2>1, InitUndo, IInvHolds, PTL DEF Spec
  <1>2. QED
    BY <1>1, IInvHolds, MarksAreExact, PTL

==============================================================================
