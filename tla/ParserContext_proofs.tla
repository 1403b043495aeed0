------------------------ MODULE ParserContext_proofs -------------------------
(***************************************************************************)
(* Type correctness of ParserContext, for every grammar, script and number *)
(* of threads: no frame, stack, cache or assignment points to a context    *)
(* that does not exist. Then lemmas for the other proofs about a parse:    *)
(* sequences and their flattening, what the open activations of feed()     *)
(* have pushed on the handler stack, what a thread is while it parses, and *)
(* the places that hold a HandlerContext (stacks, roots, children of       *)
(* assignments, caches) with the operations on them that keep every        *)
(* context in one place.                                                   *)
(*                                                                         *)
(* FlattenSeq is a recursive function of the library. What it computes is  *)
(* shown by taking the first place where two functions with its equation   *)
(* would differ.                                                           *)
(***************************************************************************)
EXTENDS ParserContext, SequenceTheorems, WellFoundedInduction, TLAPS

(* Appending a context leaves every pointer valid.                         *)
LEMMA PointersStayValid ==
    ASSUME NEW m \in Nat, NEW n \in Nat, m <= n
    PROVE  /\ Pointer(m) \subseteq Pointer(n)
           /\ Frame(m) \subseteq Frame(n)
           /\ Assignment(m) \subseteq Assignment(n)
           /\ HandlerContext(m) \subseteq HandlerContext(n)
  <1>1. Pointer(m) \subseteq Pointer(n)
    BY DEF Pointer
  <1>2. Frame(m) \subseteq Frame(n)
    BY <1>1 DEF Frame
  <1>3. Assignment(m) \subseteq Assignment(n)
    BY <1>1 DEF Assignment
  <1>4. Seq(Assignment(m)) \subseteq Seq(Assignment(n))
    BY <1>3, SeqMonotonic
  <1>5. HandlerContext(m) \subseteq HandlerContext(n)
    BY <1>4 DEF HandlerContext
  <1>6. QED
    BY <1>1, <1>2, <1>3, <1>5

(* The ends of a sequence that is not empty.                               *)
LEMMA EndsOfSequence ==
    ASSUME NEW S, NEW s \in Seq(S), s # <<>>
    PROVE  /\ Last(s) \in S
           /\ Front(s) \in Seq(S)
           /\ Len(s) \in Nat \ {0}
           /\ Last(s) = s[Len(s)]
           /\ Len(Front(s)) = Len(s) - 1
           /\ \A i \in 1..(Len(s) - 1) : Front(s)[i] = s[i]
  <1>1. Len(s) \in Nat /\ Len(s) # 0
    BY EmptySeq
  <1>2. \A i \in 1..(Len(s) - 1) : s[i] \in S
    BY <1>1, ElementOfSeq
  <1>3. Last(s) \in S
    BY <1>1, ElementOfSeq DEF Last
  <1> DEFINE n == Len(s) - 1
  <1>4. n \in Nat
    BY <1>1
  <1> HIDE DEF n
  <1>5. /\ SubSeq(s, 1, n) \in Seq(S)
        /\ Len(SubSeq(s, 1, n)) = IF 1 <= n THEN n - 1 + 1 ELSE 0
        /\ \A i \in 1..(n - 1 + 1) : SubSeq(s, 1, n)[i] = s[1 + i - 1]
    BY <1>1, <1>2, <1>4, SubSeqProperties DEF n
  <1>6. Len(SubSeq(s, 1, n)) = n /\ \A i \in 1..n : SubSeq(s, 1, n)[i] = s[i]
    BY <1>4, <1>5
  <1>7. QED
    BY <1>1, <1>3, <1>5, <1>6 DEF Front, Last, n

(* Take, Pop and RemoveFromStack give back a piece of what they are given. *)
LEMMA PiecesOfSequence ==
    ASSUME NEW S, NEW s \in Seq(S)
    PROVE  /\ \A n \in Nat : Take(s, n) \in Seq(S)
           /\ Pop(s) \in Seq(S)
           /\ \A c : RemoveFromStack(s, c) \in Seq(S)
  <1>1. Len(s) \in Nat /\ DOMAIN s = 1..Len(s) /\ \A i \in 1..Len(s) : s[i] \in S
    BY LenProperties, ElementOfSeq
  <1>2. ASSUME NEW m \in Int, NEW n \in Int, m >= 1, n <= Len(s)
        PROVE  SubSeq(s, m, n) \in Seq(S)
    BY <1>1, <1>2, SubSeqProperties
  <1>3. \A n \in Nat : Take(s, n) \in Seq(S)
    BY <1>1, <1>2 DEF Take
  <1>4. Pop(s) \in Seq(S)
    BY EndsOfSequence, EmptySeq DEF Pop
  <1>5. ASSUME NEW c PROVE RemoveFromStack(s, c) \in Seq(S)
    <2>1. CASE \E i \in DOMAIN s : IsLastPlace(s, c, i)
      <3> DEFINE k == CHOOSE i \in DOMAIN s : IsLastPlace(s, c, i)
      <3>1. k \in 1..Len(s)
        BY <1>1, <2>1
      <3> HIDE DEF k
      <3>2. /\ 1 \in Int /\ k - 1 \in Int /\ k - 1 <= Len(s)
            /\ k + 1 \in Int /\ Len(s) \in Int /\ k + 1 >= 1
        BY <1>1, <3>1
      <3>5. SubSeq(s, 1, k - 1) \in Seq(S) /\ SubSeq(s, k + 1, Len(s)) \in Seq(S)
        BY <1>2, <3>2
      <3>3. SubSeq(s, 1, k - 1) \o SubSeq(s, k + 1, Len(s)) \in Seq(S)
        BY <3>5, ConcatProperties
      <3>4. QED
        BY <2>1, <3>3 DEF RemoveFromStack, RemoveAt, k
    <2>2. CASE ~\E i \in DOMAIN s : IsLastPlace(s, c, i)
      BY <2>2 DEF RemoveFromStack
    <2>3. QED
      BY <2>1, <2>2
  <1>6. QED
    BY <1>3, <1>4, <1>5

(* The steps on the activations of a thread, with n contexts to point to.  *)
FramesOf(n) == [Thread -> Seq(Frame(n))]

LEMMA TopTyped ==
    ASSUME NEW n \in Nat, NEW t \in Thread, frames \in FramesOf(n), frames[t] # <<>>
    PROVE  Top(t) \in Frame(n) /\ Front(frames[t]) \in Seq(Frame(n))
  BY EndsOfSequence DEF Top, FramesOf

LEMMA AppendTyped ==
    ASSUME NEW S, NEW s \in Seq(S), NEW e \in S
    PROVE  Append(s, e) \in Seq(S)
  OBVIOUS

LEMMA ActivationTyped ==
    ASSUME NEW n \in Nat, NEW r \in Recognizer, NEW pos \in Nat
    PROVE  Activation(r, pos) \in Frame(n)
  BY DEF Activation, Frame, Phase, Pointer, None, NPos, Matched

LEMMA BecomeTyped ==
    ASSUME NEW n \in Nat, NEW t \in Thread, frames \in FramesOf(n), frames[t] # <<>>,
           NEW f \in Frame(n), Become(t, f)
    PROVE  frames' \in FramesOf(n)
  <1>1. Append(Front(frames[t]), f) \in Seq(Frame(n))
    BY TopTyped, AppendTyped
  <1>2. QED
    BY <1>1 DEF Become, FramesOf

LEMMA CallFeedTyped ==
    ASSUME NEW n \in Nat, NEW t \in Thread, frames \in FramesOf(n), frames[t] # <<>>,
           NEW f \in Frame(n), NEW e \in Recognizer, CallFeed(t, f, e)
    PROVE  frames' \in FramesOf(n)
  <1> DEFINE called == <<[f EXCEPT !.phase = "fed"], Activation(e, f.pos)>>
  <1>1. f.pos \in Nat /\ [f EXCEPT !.phase = "fed"] \in Frame(n)
    BY DEF Frame, Phase
  <1>2. Activation(e, f.pos) \in Frame(n)
    BY <1>1, ActivationTyped
  <1>3. called \in Seq(Frame(n))
    BY <1>1, <1>2
  <1> HIDE DEF called
  <1>4. Front(frames[t]) \o called \in Seq(Frame(n))
    BY <1>3, TopTyped, ConcatProperties
  <1>5. QED
    BY <1>4 DEF CallFeed, FramesOf, called

LEMMA ReturnTyped ==
    ASSUME NEW n \in Nat, NEW t \in Thread, frames \in FramesOf(n), frames[t] # <<>>,
           parsed \in [Thread -> Matched], Return(t)
    PROVE  frames' \in FramesOf(n) /\ parsed' \in [Thread -> Matched]
  <1> DEFINE below == Front(frames[t])
  <1>1. below \in Seq(Frame(n)) /\ Top(t) \in Frame(n)
    BY TopTyped
  <1>2. Top(t).matched \in Matched
    BY <1>1 DEF Frame
  <1> HIDE DEF below
  <1>3. CASE below = <<>>
    <2>1. /\ frames' = [frames EXCEPT ![t] = <<>>]
          /\ parsed' = [parsed EXCEPT ![t] = Top(t).matched]
      BY <1>3 DEF Return, below
    <2>2. <<>> \in Seq(Frame(n))
      BY EmptySeq
    <2>3. QED
      BY <1>2, <2>1, <2>2 DEF FramesOf
  <1>4. CASE below # <<>>
    <2> DEFINE answered == [Last(below) EXCEPT !.matched = Top(t).matched]
    <2>1. /\ frames' = [frames EXCEPT ![t] = Append(Front(below), answered)]
          /\ UNCHANGED parsed
      BY <1>4 DEF Return, below
    <2>2. Last(below) \in Frame(n) /\ Front(below) \in Seq(Frame(n))
      BY <1>1, <1>4, EndsOfSequence
    <2>3. answered \in Frame(n)
      BY <1>2, <2>2 DEF Frame
    <2> HIDE DEF answered
    <2>4. Append(Front(below), answered) \in Seq(Frame(n))
      BY <2>2, <2>3, AppendTyped
    <2>5. QED
      BY <2>1, <2>4 DEF FramesOf
  <1>5. QED
    BY <1>3, <1>4

(* The steps on the contexts.                                              *)
HeapOf(n) == {heap \in Seq(HandlerContext(n)) : Len(heap) = n}

LEMMA AssignTyped ==
    ASSUME NEW n \in Nat, NEW heap \in HeapOf(n), NEW c \in Nat,
           NEW as, c \in 1..n => as \in Seq(Assignment(n))
    PROVE  [heap EXCEPT ![c].assignments = as] \in HeapOf(n)
  <1>1. heap \in Seq(HandlerContext(n)) /\ Len(heap) = n /\ DOMAIN heap = 1..n
    BY LenProperties DEF HeapOf
  <1>2. CASE c \in 1..n
    <2> DEFINE new == [heap[c] EXCEPT !.assignments = as]
    <2>1. heap[c] \in HandlerContext(n)
      BY <1>1, <1>2, ElementOfSeq
    <2>2. new \in HandlerContext(n)
      BY <1>2, <2>1 DEF HandlerContext
    <2>3. [heap EXCEPT ![c].assignments = as] = [heap EXCEPT ![c] = new]
      BY DEF new
    <2> HIDE DEF new
    <2>4. /\ [heap EXCEPT ![c] = new] \in Seq(HandlerContext(n))
          /\ Len([heap EXCEPT ![c] = new]) = n
      BY <1>1, <1>2, <2>2, ExceptSeq
    <2>5. QED
      BY <2>3, <2>4 DEF HeapOf
  <1>3. CASE c \notin 1..n
    <2>1. heap \in [1..n -> HandlerContext(n)]
      BY <1>1, LenProperties
    <2>2. [heap EXCEPT ![c].assignments = as] = heap
      BY <1>3, <2>1
    <2>3. QED
      BY <2>2
  <1>4. QED
    BY <1>2, <1>3

LEMMA AssignmentsTyped ==
    ASSUME NEW n \in Nat, NEW heap \in HeapOf(n), NEW c \in 1..n
    PROVE  /\ heap[c].assignments \in Seq(Assignment(n))
           /\ heap[c].handler \in Handled
           /\ Len(heap[c].assignments) \in Nat
  <1>1. heap[c] \in HandlerContext(n)
    BY ElementOfSeq DEF HeapOf
  <1>2. heap[c].assignments \in Seq(Assignment(n)) /\ heap[c].handler \in Handled
    BY <1>1 DEF HandlerContext
  <1>3. QED
    BY <1>2, LenProperties

LEMMA ClearedTyped ==
    ASSUME NEW n \in Nat, NEW heap \in HeapOf(n), NEW c \in Nat
    PROVE  Cleared(heap, c) \in HeapOf(n)
  <1>1. <<>> \in Seq(Assignment(n))
    BY EmptySeq
  <1>2. QED
    BY <1>1, AssignTyped DEF Cleared

LEMMA MergedTyped ==
    ASSUME NEW n \in Nat, NEW heap \in HeapOf(n), NEW c \in Nat, NEW other \in 1..n
    PROVE  Merged(heap, c, other) \in HeapOf(n)
  <1> DEFINE as == heap[c].assignments \o heap[other].assignments
  <1>1. ASSUME c \in 1..n PROVE as \in Seq(Assignment(n))
    BY <1>1, AssignmentsTyped, ConcatProperties
  <1>2. [heap EXCEPT ![c].assignments = as] \in HeapOf(n)
    BY <1>1, AssignTyped
  <1>3. Merged(heap, c, other) = [heap EXCEPT ![c].assignments = as]
    BY DEF Merged
  <1>4. QED
    BY <1>2, <1>3

LEMMA SetChildTyped ==
    ASSUME NEW n \in Nat, contexts \in HeapOf(n), NEW c \in Nat, NEW r,
           NEW begin \in Nat, NEW count \in Nat, NEW child \in Pointer(n),
           SetChild(c, r, begin, count, child)
    PROVE  contexts' \in HeapOf(n)
  <1> DEFINE a == [rule |-> r, begin |-> begin, count |-> count, child |-> child]
             as == Append(contexts[c].assignments, a)
  <1>1. CASE r \in Collected[contexts[c].handler]
    <2>1. ASSUME c \in 1..n PROVE as \in Seq(Assignment(n))
      <3>1. contexts[c].handler \in Handled
        BY <2>1, AssignmentsTyped
      <3>2. r \in Rule
        BY <1>1, <3>1, GrammarAssumption
      <3>3. a \in Assignment(n)
        BY <3>2 DEF Assignment
      <3> HIDE DEF a
      <3>4. QED
        BY <2>1, <3>3, AssignmentsTyped, AppendTyped
    <2>2. [contexts EXCEPT ![c].assignments = as] \in HeapOf(n)
      BY <2>1, AssignTyped
    <2>3. contexts' = [contexts EXCEPT ![c].assignments = as]
      BY <1>1 DEF SetChild
    <2>4. QED
      BY <2>2, <2>3
  <1>2. CASE r \notin Collected[contexts[c].handler]
    BY <1>2 DEF SetChild
  <1>3. QED
    BY <1>1, <1>2

(* createContext() gives back a context that exists, the handler's cached  *)
(* one or a new one.                                                       *)
LEMMA CreateContextTyped ==
    ASSUME NEW n \in Nat, contexts \in HeapOf(n), cached \in [Handled -> Pointer(n)],
           NEW t, NEW h \in Handled, NEW c \in 1..(Len(contexts) + 1),
           CreateContext(t, h, c)
    PROVE  \E m \in Nat :
              /\ n <= m
              /\ contexts' \in HeapOf(m)
              /\ cached' \in [Handled -> Pointer(m)]
              /\ c \in 1..m
  <1>1. CASE cached[h] # None /\ c = cached[h] /\ UNCHANGED contexts
             /\ cached' = [cached EXCEPT ![h] = None]
    <2>1. cached' \in [Handled -> Pointer(n)]
      BY <1>1 DEF Pointer, None
    <2>2. c \in 1..n
      BY <1>1 DEF Pointer, None
    <2>3. QED
      BY <1>1, <2>1, <2>2
  <1>2. CASE contexts' = Append(contexts, NewContext(h)) /\ c = Len(contexts) + 1
             /\ UNCHANGED cached
    <2>1. contexts \in Seq(HandlerContext(n)) /\ Len(contexts) = n
      BY DEF HeapOf
    <2>2. contexts \in Seq(HandlerContext(n + 1)) /\ Pointer(n) \subseteq Pointer(n + 1)
      BY <2>1, PointersStayValid, SeqMonotonic
    <2>3. NewContext(h) \in HandlerContext(n + 1)
      BY EmptySeq DEF NewContext, HandlerContext
    <2>4. Append(contexts, NewContext(h)) \in Seq(HandlerContext(n + 1))
      BY <2>2, <2>3, AppendTyped
    <2>5. Len(Append(contexts, NewContext(h))) = n + 1
      BY <2>1
    <2>6. contexts' \in HeapOf(n + 1)
      BY <1>2, <2>4, <2>5 DEF HeapOf
    <2>7. QED
      BY <1>2, <2>1, <2>2, <2>6
  <1>3. QED
    BY <1>1, <1>2 DEF CreateContext

LEMMA ReleaseContextTyped ==
    ASSUME NEW n \in Nat, cached \in [Handled -> Pointer(n)], NEW t, NEW c \in Pointer(n),
           ReleaseContext(t, c)
    PROVE  cached' \in [Handled -> Pointer(n)]
  BY DEF ReleaseContext

(* What a recognizer gives its activation.                                 *)
LEMMA RecognizerTyped ==
    ASSUME NEW n \in Nat, NEW f \in Frame(n)
    PROVE  /\ MoreElements(f) => Elements(f)[f.index + 1] \in Recognizer
           /\ Shape[f.rec].kind \in {"loop", "delegate"} => Elements(f)[1] \in Recognizer
           /\ Shape[f.rec].min \in Nat
           /\ \A input, pos : MatchText(f.rec, input, pos) \in Matched
  <1>1. f.rec \in Recognizer /\ f.index \in Nat
    BY DEF Frame
  <1>2. Shape[f.rec] \in [kind : Kind, text : Seq(SUBSET (Char \cup {Nul})),
                          elements : Seq(Recognizer),
                          min : Nat, max : Nat \cup {Unbounded}]
    BY <1>1, GrammarAssumption
  <1>3. /\ Elements(f) \in Seq(Recognizer)
        /\ Len(Elements(f)) \in Nat
        /\ Len(Shape[f.rec].text) \in Nat
    BY <1>2, LenProperties DEF Elements
  <1>4. ASSUME MoreElements(f) PROVE Elements(f)[f.index + 1] \in Recognizer
    <2>1. f.index + 1 \in 1..Len(Elements(f))
      BY <1>1, <1>3, <1>4 DEF MoreElements
    <2>2. QED
      BY <1>3, <2>1, ElementOfSeq
  <1>5. ASSUME Shape[f.rec].kind \in {"loop", "delegate"} PROVE Elements(f)[1] \in Recognizer
    <2>1. \A r \in Recognizer :
             Shape[r].kind \in {"loop", "delegate"} => Len(Shape[r].elements) = 1
      BY GrammarAssumption, Zenon
    <2>2. Len(Shape[f.rec].elements) = 1
      BY <1>1, <1>5, <2>1, Zenon
    <2>3. 1 \in 1..Len(Elements(f))
      BY <2>2 DEF Elements
    <2>4. QED
      BY <1>3, <2>3, ElementOfSeq
  <1>6. \A input, pos : MatchText(f.rec, input, pos) \in Matched
    BY <1>3 DEF MatchText, Matched
  <1>7. QED
    BY <1>2, <1>4, <1>5, <1>6

(* The next states of an activation.                                       *)
LEMMA UpdatedFrameTyped ==
    ASSUME NEW n \in Nat, NEW f \in Frame(n)
    PROVE  /\ \A i \in Nat : [f EXCEPT !.index = i] \in Frame(n)
           /\ \A c \in Pointer(n) : [f EXCEPT !.branch = c] \in Frame(n)
           /\ \A c \in Pointer(n) : [f EXCEPT !.bestBranch = c] \in Frame(n)
  BY DEF Frame

LEMMA NextFrameTyped ==
    ASSUME NEW n \in Nat, NEW f \in Frame(n)
    PROVE  /\ \A m \in Matched : Answer(f, m) \in Frame(n)
           /\ f.matched # NPos => Advance(f) \in Frame(n)
           /\ f.matched # NPos => Repeated(f) \in Frame(n)
           /\ LoopAnswer(f) \in Frame(n)
           /\ Elected(f) \in Frame(n)
           /\ Loser(f) \in Pointer(n)
           /\ [Answer(f, f.best) EXCEPT !.bestBranch = None] \in Frame(n)
           /\ \A c \in Pointer(n) : [f EXCEPT !.branch = c] \in Frame(n)
  <1>1. \A m \in Matched : Answer(f, m) \in Frame(n)
    BY DEF Answer, Frame, Phase
  <1>2. ASSUME f.matched # NPos PROVE Advance(f) \in Frame(n)
    <2>1. /\ f.pos + f.matched \in Nat
          /\ f.total + f.matched \in Nat
          /\ f.index + 1 \in Nat
      BY <1>2 DEF Frame, Matched
    <2> DEFINE pos == f.pos + f.matched
               total == f.total + f.matched
               index == f.index + 1
    <2>2. Advance(f) = [f EXCEPT !.pos = pos, !.total = total, !.index = index,
                                 !.phase = "feed"]
      BY DEF Advance
    <2> HIDE DEF pos, total, index
    <2>3. pos \in Nat /\ total \in Nat /\ index \in Nat
      BY <2>1 DEF pos, total, index
    <2>4. QED
      BY <2>2, <2>3 DEF Frame, Phase
  <1>3. ASSUME f.matched # NPos PROVE Repeated(f) \in Frame(n)
    <2>1. f.index \in Nat
      BY DEF Frame
    <2>2. [Advance(f) EXCEPT !.index = f.index] \in Frame(n)
      BY <1>2, <1>3, <2>1, UpdatedFrameTyped
    <2>3. QED
      BY <1>2, <1>3, <2>2 DEF Repeated
  <1>4. LoopAnswer(f) \in Frame(n)
    <2>1. (IF f.index < Shape[f.rec].min THEN NPos ELSE f.total) \in Matched
      BY DEF Frame, Matched
    <2>2. QED
      BY <1>1, <2>1 DEF LoopAnswer
  <1>5. Elected(f) \in Frame(n) /\ Loser(f) \in Pointer(n)
    <2> DEFINE index == f.index + 1
               won  == [f EXCEPT !.best = f.matched, !.bestBranch = f.branch, !.branch = 0,
                                 !.index = index, !.phase = "feed"]
               lost == [f EXCEPT !.branch = 0, !.index = index, !.phase = "feed"]
    <2>1. Elected(f) \in {won, lost}
      BY DEF Elected, None
    <2>2. index \in Nat /\ 0 \in Pointer(n)
      BY DEF Frame, Pointer
    <2> HIDE DEF index
    <2>3. won \in Frame(n) /\ lost \in Frame(n)
      BY <2>2 DEF Frame, Phase
    <2>4. Loser(f) \in Pointer(n)
      BY DEF Loser, Frame
    <2>5. QED
      BY <2>1, <2>3, <2>4
  <1>6. [Answer(f, f.best) EXCEPT !.bestBranch = None] \in Frame(n)
    <2>1. Answer(f, f.best) \in Frame(n)
      BY <1>1 DEF Frame
    <2>2. QED
      BY <2>1, UpdatedFrameTyped DEF Pointer, None
  <1>7. \A c \in Pointer(n) : [f EXCEPT !.branch = c] \in Frame(n)
    BY UpdatedFrameTyped
  <1>8. QED
    BY <1>1, <1>2, <1>3, <1>4, <1>5, <1>6, <1>7

(* TypeOK, with the number of contexts named.                              *)
TypedWith(n) ==
    /\ status \in [Thread -> Status]
    /\ script \in [Thread -> Seq(Request)]
    /\ parses \in [Thread -> Nat]
    /\ parsed \in [Thread -> Matched]
    /\ frames \in FramesOf(n)
    /\ handlerStack \in [Thread -> Seq(1..n)]
    /\ root \in [Thread -> Pointer(n)]
    /\ contexts \in HeapOf(n)
    /\ cached \in [Handled -> Pointer(n)]

LEMMA TypeOKIsTypedWith == TypeOK <=> \E n \in Nat : TypedWith(n)
  <1>1. ASSUME TypeOK PROVE \E n \in Nat : TypedWith(n)
    <2>1. Len(contexts) \in Nat
      BY <1>1, LenProperties DEF TypeOK
    <2>2. TypedWith(Len(contexts))
      BY <1>1 DEF TypeOK, TypedWith, FramesOf, HeapOf
    <2>3. QED
      BY <2>1, <2>2
  <1>2. ASSUME NEW n \in Nat, TypedWith(n) PROVE TypeOK
    BY <1>2 DEF TypeOK, TypedWith, FramesOf, HeapOf
  <1>3. QED
    BY <1>1, <1>2

(* The two halves of a step of a thread: what it needs to be where it is.  *)
LEMMA TopOfThread ==
    ASSUME NEW n \in Nat, TypedWith(n), NEW t \in Thread, NEW phase, InPhase(t, phase)
    PROVE  /\ frames \in FramesOf(n) /\ frames[t] # <<>>
           /\ Top(t) \in Frame(n)
  BY TopTyped DEF TypedWith, InPhase

LEMMA BackTyped ==
    ASSUME NEW n \in Nat, NEW stack \in Seq(1..n)
    PROVE  /\ Back(stack) \in Pointer(n)
           /\ stack # <<>> => Back(stack) \in 1..n /\ Last(stack) \in 1..n
           /\ Back(Pop(stack)) \in Pointer(n)
           /\ Pop(stack) \in Seq(1..n)
           /\ \A c \in 1..n : Append(stack, c) \in Seq(1..n)
  <1>1. ASSUME NEW s \in Seq(1..n)
        PROVE  /\ Back(s) \in Pointer(n)
               /\ s # <<>> => Back(s) \in 1..n /\ Last(s) \in 1..n
    <2>1. s # <<>> => Last(s) \in 1..n
      BY EndsOfSequence
    <2>2. QED
      BY <2>1 DEF Back, Pointer, None
  <1>2. Pop(stack) \in Seq(1..n)
    BY PiecesOfSequence
  <1>3. \A c \in 1..n : Append(stack, c) \in Seq(1..n)
    BY AppendTyped
  <1>4. QED
    BY <1>1, <1>2, <1>3

(* feed() begins.                                                          *)
LEMMA BeginTyped ==
    ASSUME NEW n \in Nat, TypedWith(n), NEW t \in Thread, BeginParse(t)
    PROVE  \E m \in Nat : TypedWith(m)'
  <1>0. /\ frames \in FramesOf(n) /\ frames[t] # <<>>
        /\ Top(t) \in Frame(n)
        /\ handlerStack[t] \in Seq(1..n)
    BY TopOfThread DEF BeginParse, BeginHandled, BeginPlain, TypedWith
  <1>1. CASE BeginHandled(t)
    <2>1. PICK c \in 1..(Len(contexts) + 1) :
             /\ CreateContext(t, Top(t).rec, c)
             /\ handlerStack' = [handlerStack EXCEPT ![t] = Append(@, c)]
             /\ Become(t, [Top(t) EXCEPT !.phase = "feed", !.context = c,
                              !.mark = Len(contexts'[c].assignments)])
      BY <1>1 DEF BeginHandled, LastIterator
    <2>2. Top(t).rec \in Handled
      BY <1>1 DEF BeginHandled, LastIterator
    <2>3. PICK m \in Nat : /\ n <= m
                           /\ contexts' \in HeapOf(m)
                           /\ cached' \in [Handled -> Pointer(m)]
                           /\ c \in 1..m
      BY <2>1, <2>2, CreateContextTyped DEF TypedWith
    <2>4. /\ 1..n \subseteq 1..m
          /\ Pointer(n) \subseteq Pointer(m)
          /\ Frame(n) \subseteq Frame(m)
          /\ Seq(1..n) \subseteq Seq(1..m)
          /\ Seq(Frame(n)) \subseteq Seq(Frame(m))
      BY <2>3, PointersStayValid, SeqMonotonic
    <2>5. frames \in FramesOf(m) /\ Top(t) \in Frame(m)
      BY <1>0, <2>4 DEF FramesOf
    <2>6. handlerStack' \in [Thread -> Seq(1..m)]
      <3>1. handlerStack \in [Thread -> Seq(1..m)]
        BY <2>4 DEF TypedWith
      <3>2. Append(handlerStack[t], c) \in Seq(1..m)
        BY <2>3, <3>1, AppendTyped
      <3>3. QED
        BY <2>1, <3>1, <3>2
    <2> DEFINE mark == Len(contexts'[c].assignments)
               f == [Top(t) EXCEPT !.phase = "feed", !.context = c, !.mark = mark]
    <2>7. mark \in Nat
      BY <2>3, AssignmentsTyped
    <2> HIDE DEF mark
    <2>8. f \in Frame(m)
      <3>1. c \in Pointer(m)
        BY <2>3 DEF Pointer
      <3>2. QED
        BY <2>5, <2>7, <3>1 DEF Frame, Phase
    <2>9. frames' \in FramesOf(m)
      <3>1. Become(t, f)
        BY <2>1 DEF mark
      <3> HIDE DEF f
      <3>2. QED
        BY <1>0, <2>5, <2>8, <3>1, BecomeTyped
    <2>10. root' \in [Thread -> Pointer(m)]
      BY <1>1, <2>4 DEF BeginHandled, TypedWith
    <2>11. /\ status' \in [Thread -> Status] /\ script' \in [Thread -> Seq(Request)]
           /\ parses' \in [Thread -> Nat] /\ parsed' \in [Thread -> Matched]
      BY <1>1 DEF BeginHandled, TypedWith, parseVars
    <2>12. QED
      BY <2>3, <2>6, <2>9, <2>10, <2>11 DEF TypedWith
  <1>2. CASE BeginPlain(t)
    <2>1. status' \in [Thread -> Status]
      BY <1>2 DEF BeginPlain, FatalUnless, TypedWith, Status
    <2>2. frames' \in FramesOf(n)
      <3>1. CASE handlerStack[t] = <<>>
        BY <1>0, <1>2, <3>1 DEF BeginPlain
      <3>2. CASE handlerStack[t] # <<>>
        <4> DEFINE mark == Len(contexts[Back(handlerStack[t])].assignments)
                   f == [Top(t) EXCEPT !.phase = "feed", !.mark = mark]
        <4>1. mark \in Nat
          BY <1>0, <3>2, BackTyped, AssignmentsTyped DEF TypedWith
        <4>2. Become(t, f)
          BY <1>2, <3>2 DEF BeginPlain, LastIterator
        <4> HIDE DEF mark
        <4>3. f \in Frame(n)
          BY <1>0, <4>1 DEF Frame, Phase
        <4> HIDE DEF f
        <4>4. QED
          BY <1>0, <4>2, <4>3, BecomeTyped
      <3>3. QED
        BY <3>1, <3>2
    <2>3. QED
      BY <1>2, <2>1, <2>2 DEF BeginPlain, TypedWith, heapVars
  <1>3. QED
    BY <1>1, <1>2 DEF BeginParse

(* feed() ends.                                                            *)
LEMMA EndTyped ==
    ASSUME NEW n \in Nat, TypedWith(n), NEW t \in Thread, EndParse(t)
    PROVE  TypedWith(n)'
  <1> DEFINE f == Top(t)
             stack == handlerStack[t]
  <1>0. InPhase(t, "end") /\ Return(t)
    BY DEF EndParse, EndElement, DropElement, EndText, UndoText, Matching, Failing
  <1>1. /\ frames \in FramesOf(n) /\ frames[t] # <<>>
        /\ f \in Frame(n)
        /\ stack \in Seq(1..n)
    BY <1>0, TopOfThread DEF TypedWith
  <1>2. frames' \in FramesOf(n) /\ parsed' \in [Thread -> Matched]
    BY <1>0, <1>1, ReturnTyped DEF TypedWith
  <1>3. /\ f.context \in Pointer(n)
        /\ f.rec \in Recognizer
        /\ f.begin \in Nat
        /\ f.mark \in Nat
        /\ Matching(t) => f.matched \in Nat
    BY <1>1 DEF Frame, Matching, Matched, NPos
  <1>4. /\ Pop(stack) \in Seq(1..n)
        /\ Pop(stack) # <<>> => Last(Pop(stack)) \in 1..n
        /\ Back(stack) \in Pointer(n)
    BY <1>1, BackTyped
  <1>5. contexts \in HeapOf(n) /\ cached \in [Handled -> Pointer(n)]
    BY DEF TypedWith
  <1> HIDE DEF f, stack
  <1>6. CASE EndElement(t)
    <2>1. /\ handlerStack' = [handlerStack EXCEPT ![t] = Pop(stack)]
          /\ UNCHANGED <<status, parses, script, outcome, cached>>
          /\ Matching(t)
      BY <1>6 DEF EndElement, f, stack
    <2>2. handlerStack' \in [Thread -> Seq(1..n)]
      BY <1>4, <2>1 DEF TypedWith
    <2>3. contexts' \in HeapOf(n) /\ root' \in [Thread -> Pointer(n)]
      <3>1. CASE Pop(stack) # <<>>
        <4>1. /\ SetChild(Last(Pop(stack)), f.rec, f.begin, f.matched, f.context)
              /\ UNCHANGED root
          BY <1>6, <3>1 DEF EndElement, f, stack
        <4>2. Last(Pop(stack)) \in Nat
          BY <1>4, <3>1
        <4>3. contexts' \in HeapOf(n)
          BY <1>3, <1>5, <2>1, <4>1, <4>2, SetChildTyped
        <4>4. QED
          BY <4>1, <4>3 DEF TypedWith
      <3>2. CASE Pop(stack) = <<>>
        <4>1. root' = [root EXCEPT ![t] = f.context] /\ UNCHANGED contexts
          BY <1>6, <3>2 DEF EndElement, f, stack
        <4>2. QED
          BY <1>3, <4>1 DEF TypedWith
      <3>3. QED
        BY <3>1, <3>2
    <2>4. QED
      BY <1>2, <2>1, <2>2, <2>3 DEF TypedWith
  <1>7. CASE DropElement(t)
    <2>1. /\ handlerStack' = [handlerStack EXCEPT ![t] = Pop(stack)]
          /\ contexts' = Cleared(contexts, f.context)
          /\ ReleaseContext(t, f.context)
          /\ UNCHANGED <<status, parses, script, outcome, root>>
      BY <1>7 DEF DropElement, f, stack
    <2>2. handlerStack' \in [Thread -> Seq(1..n)]
      BY <1>4, <2>1 DEF TypedWith
    <2>3. contexts' \in HeapOf(n)
      BY <1>3, <1>5, <2>1, ClearedTyped DEF Pointer
    <2>4. cached' \in [Handled -> Pointer(n)]
      BY <1>3, <1>5, <2>1, ReleaseContextTyped
    <2>5. QED
      BY <1>2, <2>1, <2>2, <2>3, <2>4 DEF TypedWith
  <1>8. CASE EndText(t)
    <2>1. /\ UNCHANGED <<status, parses, script, outcome, handlerStack, root, cached>>
          /\ Matching(t)
          /\ \/ SetChild(Back(stack), f.rec, f.begin, f.matched, None)
             \/ UNCHANGED contexts
      BY <1>8 DEF EndText, f, stack
    <2>2. Back(stack) \in Nat /\ None \in Pointer(n)
      BY <1>4 DEF Pointer, None
    <2>3. contexts' \in HeapOf(n)
      BY <1>3, <1>5, <2>1, <2>2, SetChildTyped
    <2>4. QED
      BY <1>2, <2>1, <2>3 DEF TypedWith
  <1>9. CASE UndoText(t)
    <2> DEFINE c == Back(stack)
               kept == Take(contexts[c].assignments, f.mark)
    <2>1. /\ UNCHANGED <<status, parses, script, outcome, handlerStack, root, cached>>
          /\ contexts' = [contexts EXCEPT ![c].assignments = kept]
      BY <1>9 DEF UndoText, f, stack
    <2>2. c \in Nat
      BY <1>4 DEF Pointer
    <2> HIDE DEF c
    <2>3. ASSUME c \in 1..n PROVE kept \in Seq(Assignment(n))
      BY <1>3, <1>5, <2>3, AssignmentsTyped, PiecesOfSequence
    <2> HIDE DEF kept
    <2>4. contexts' \in HeapOf(n)
      BY <1>5, <2>1, <2>2, <2>3, AssignTyped
    <2>5. QED
      BY <1>2, <2>1, <2>4 DEF TypedWith
  <1>10. QED
    BY <1>6, <1>7, <1>8, <1>9 DEF EndParse

(* The _feed() of the recognizers that only call and return.               *)
PlainFeed(t) ==
    \/ FeedText(t)
    \/ FeedDelegate(t)  \/ DelegateFed(t)
    \/ FeedSequence(t)  \/ SequenceFed(t)
    \/ FeedExclusive(t) \/ ExclusiveFed(t)
    \/ FeedLoop(t)      \/ LoopFed(t)

LEMMA PlainFeedTyped ==
    ASSUME NEW n \in Nat, TypedWith(n), NEW t \in Thread, PlainFeed(t)
    PROVE  TypedWith(n)'
  <1> DEFINE f == Top(t)
  <1>0. PICK phase \in Phase : InPhase(t, phase)
    BY DEF PlainFeed, FeedText, FeedDelegate, DelegateFed, FeedSequence, SequenceFed,
           FeedExclusive, ExclusiveFed, FeedLoop, LoopFed, Running, Phase
  <1>1. /\ frames \in FramesOf(n) /\ frames[t] # <<>>
        /\ f \in Frame(n)
    BY <1>0, TopOfThread
  <1>2. f.matched \in Matched /\ f.total \in Matched /\ NPos \in Matched
    BY <1>1 DEF Frame, Matched
  <1> HIDE DEF f
  <1>3. ASSUME NEW e \in Recognizer, CallFeed(t, f, e) PROVE frames' \in FramesOf(n)
    BY <1>1, <1>3, CallFeedTyped
  <1>4. ASSUME NEW g \in Frame(n), Become(t, g) PROVE frames' \in FramesOf(n)
    BY <1>1, <1>4, BecomeTyped
  <1>5. UNCHANGED <<parseVars, handlerStack, root, heapVars>>
    BY DEF PlainFeed, FeedText, FeedDelegate, DelegateFed, FeedSequence, SequenceFed,
           FeedExclusive, ExclusiveFed, FeedLoop, LoopFed
  <1>6. frames' \in FramesOf(n)
    <2>1. CASE FeedText(t)
      BY <1>1, <1>4, <2>1, RecognizerTyped, NextFrameTyped DEF FeedText, f
    <2>2. CASE FeedDelegate(t)
      BY <1>1, <1>3, <2>2, RecognizerTyped DEF FeedDelegate, Running, f
    <2>3. CASE DelegateFed(t)
      BY <1>1, <1>2, <1>4, <2>3, NextFrameTyped DEF DelegateFed, f
    <2>4. CASE FeedSequence(t)
      BY <1>1, <1>2, <1>3, <1>4, <2>4, RecognizerTyped, NextFrameTyped DEF FeedSequence, f
    <2>5. CASE SequenceFed(t)
      BY <1>1, <1>2, <1>4, <2>5, NextFrameTyped DEF SequenceFed, f
    <2>6. CASE FeedExclusive(t)
      BY <1>1, <1>2, <1>3, <1>4, <2>6, RecognizerTyped, NextFrameTyped DEF FeedExclusive, f
    <2>7. CASE ExclusiveFed(t)
      <3> DEFINE index == f.index + 1
      <3>1. index \in Nat
        BY <1>1 DEF Frame
      <3> HIDE DEF index
      <3>2. [f EXCEPT !.index = index, !.phase = "feed"] \in Frame(n)
        BY <1>1, <3>1 DEF Frame, Phase
      <3>3. QED
        BY <1>1, <1>2, <1>4, <2>7, <3>2, NextFrameTyped DEF ExclusiveFed, f, index
    <2>8. CASE FeedLoop(t)
      BY <1>1, <1>3, <1>4, <2>8, RecognizerTyped, NextFrameTyped DEF FeedLoop, Running, f
    <2>9. CASE LoopFed(t)
      BY <1>1, <1>4, <2>9, NextFrameTyped DEF LoopFed, f
    <2>10. QED
      BY <2>1, <2>2, <2>3, <2>4, <2>5, <2>6, <2>7, <2>8, <2>9 DEF PlainFeed
  <1>7. QED
    BY <1>5, <1>6 DEF TypedWith, parseVars, heapVars

(* The selector, and the branches of its alternatives.                     *)
SelectorStep(t) == SelectorBranch(t) \/ SelectorFed(t) \/ SelectorMerge(t)

LEMMA BranchTyped ==
    ASSUME NEW n \in Nat, TypedWith(n), NEW t \in Thread, SelectorBranch(t)
    PROVE  \E m \in Nat : TypedWith(m)'
  <1> DEFINE f == Top(t)
             stack == handlerStack[t]
  <1>1. /\ frames \in FramesOf(n) /\ frames[t] # <<>>
        /\ f \in Frame(n)
        /\ stack \in Seq(1..n)
    BY TopOfThread DEF SelectorBranch, Running, TypedWith
  <1>2. Elements(f)[f.index + 1] \in Recognizer
    BY <1>1, RecognizerTyped DEF SelectorBranch
  <1>3. status' \in [Thread -> Status]
    BY DEF SelectorBranch, FatalUnless, TypedWith, Status
  <1>4. UNCHANGED <<parses, script, parsed, outcome, root>>
    BY DEF SelectorBranch
  <1>5. CASE stack = <<>>
    <2>1. UNCHANGED <<frames, handlerStack, heapVars>>
      BY <1>5 DEF SelectorBranch
    <2>2. QED
      BY <1>3, <1>4, <2>1 DEF TypedWith, heapVars
  <1>6. CASE stack # <<>>
    <2> DEFINE h == contexts[Last(stack)].handler
    <2>1. PICK c \in 1..(Len(contexts) + 1) :
             /\ CreateContext(t, h, c)
             /\ handlerStack' = [handlerStack EXCEPT ![t] = Append(@, c)]
             /\ CallFeed(t, [f EXCEPT !.branch = c], Elements(f)[f.index + 1])
      BY <1>6 DEF SelectorBranch
    <2>2. h \in Handled
      BY <1>1, <1>6, BackTyped, AssignmentsTyped DEF TypedWith
    <2> HIDE DEF h
    <2>3. PICK m \in Nat : /\ n <= m
                           /\ contexts' \in HeapOf(m)
                           /\ cached' \in [Handled -> Pointer(m)]
                           /\ c \in 1..m
      BY <2>1, <2>2, CreateContextTyped DEF TypedWith
    <2>4. /\ 1..n \subseteq 1..m
          /\ Pointer(n) \subseteq Pointer(m)
          /\ Frame(n) \subseteq Frame(m)
          /\ Seq(1..n) \subseteq Seq(1..m)
          /\ Seq(Frame(n)) \subseteq Seq(Frame(m))
      BY <2>3, PointersStayValid, SeqMonotonic
    <2>5. frames \in FramesOf(m) /\ f \in Frame(m)
      BY <1>1, <2>4 DEF FramesOf
    <2>6. handlerStack' \in [Thread -> Seq(1..m)]
      <3>1. handlerStack \in [Thread -> Seq(1..m)]
        BY <2>4 DEF TypedWith
      <3>2. Append(handlerStack[t], c) \in Seq(1..m)
        BY <2>3, <3>1, AppendTyped
      <3>3. QED
        BY <2>1, <3>1, <3>2
    <2> HIDE DEF f
    <2>7. [f EXCEPT !.branch = c] \in Frame(m)
      BY <2>3, <2>5, UpdatedFrameTyped DEF Pointer
    <2>8. frames' \in FramesOf(m)
      BY <1>1, <1>2, <2>1, <2>5, <2>7, CallFeedTyped
    <2>9. root' \in [Thread -> Pointer(m)]
      BY <1>4, <2>4 DEF TypedWith
    <2>10. QED
      BY <1>3, <1>4, <2>3, <2>6, <2>8, <2>9 DEF TypedWith
  <1>7. QED
    BY <1>5, <1>6

LEMMA ElectTyped ==
    ASSUME NEW n \in Nat, TypedWith(n), NEW t \in Thread, SelectorFed(t)
    PROVE  TypedWith(n)'
  <1> DEFINE f == Top(t)
             loser == Loser(f)
  <1>1. /\ frames \in FramesOf(n) /\ frames[t] # <<>>
        /\ f \in Frame(n)
        /\ handlerStack[t] \in Seq(1..n)
    BY TopOfThread DEF SelectorFed, Running, TypedWith
  <1>2. Elected(f) \in Frame(n) /\ loser \in Pointer(n)
    BY <1>1, NextFrameTyped
  <1>3. frames' \in FramesOf(n)
    BY <1>1, <1>2, BecomeTyped DEF SelectorFed
  <1>4. UNCHANGED <<parses, script, parsed, outcome, root>>
    BY DEF SelectorFed
  <1>5. CASE loser = None
    <2>1. UNCHANGED <<status, handlerStack, heapVars>>
      BY <1>5 DEF SelectorFed
    <2>2. QED
      BY <1>3, <1>4, <2>1 DEF TypedWith, heapVars
  <1>6. CASE loser # None
    <2>1. /\ FatalUnless(t, \E i \in DOMAIN handlerStack[t] : handlerStack[t][i] = loser)
          /\ handlerStack' = [handlerStack EXCEPT ![t] = RemoveFromStack(@, loser)]
          /\ contexts' = Cleared(contexts, loser)
          /\ ReleaseContext(t, loser)
      BY <1>6 DEF SelectorFed
    <2> HIDE DEF loser
    <2>2. status' \in [Thread -> Status]
      BY <2>1 DEF FatalUnless, TypedWith, Status
    <2>3. RemoveFromStack(handlerStack[t], loser) \in Seq(1..n)
      BY <1>1, PiecesOfSequence
    <2>4. handlerStack' \in [Thread -> Seq(1..n)]
      BY <2>1, <2>3 DEF TypedWith
    <2>5. contexts' \in HeapOf(n)
      BY <1>2, <2>1, ClearedTyped DEF TypedWith, Pointer
    <2>6. cached' \in [Handled -> Pointer(n)]
      BY <1>2, <2>1, ReleaseContextTyped DEF TypedWith
    <2>7. QED
      BY <1>3, <1>4, <2>2, <2>4, <2>5, <2>6 DEF TypedWith
  <1>7. QED
    BY <1>5, <1>6

LEMMA MergeTyped ==
    ASSUME NEW n \in Nat, TypedWith(n), NEW t \in Thread, SelectorMerge(t)
    PROVE  TypedWith(n)'
  <1> DEFINE f == Top(t)
             best == f.bestBranch
             below == Pop(handlerStack[t])
  <1>1. /\ frames \in FramesOf(n) /\ frames[t] # <<>>
        /\ f \in Frame(n)
        /\ handlerStack[t] \in Seq(1..n)
    BY TopOfThread DEF SelectorMerge, Running, TypedWith
  <1>2. best \in Pointer(n)
    BY <1>1 DEF Frame
  <1>3. frames' \in FramesOf(n)
    <2>1. [Answer(f, f.best) EXCEPT !.bestBranch = None] \in Frame(n)
      BY <1>1, NextFrameTyped
    <2>2. QED
      BY <1>1, <2>1, BecomeTyped DEF SelectorMerge
  <1>4. UNCHANGED <<parses, script, parsed, outcome, root>>
    BY DEF SelectorMerge
  <1>5. below \in Seq(1..n) /\ Back(below) \in Pointer(n)
    BY <1>1, BackTyped
  <1>6. CASE best = None
    <2>1. UNCHANGED <<status, handlerStack, heapVars>>
      BY <1>6 DEF SelectorMerge
    <2>2. QED
      BY <1>3, <1>4, <2>1 DEF TypedWith, heapVars
  <1>7. CASE best # None
    <2>1. /\ FatalUnless(t, Back(handlerStack[t]) = best)
          /\ handlerStack' = [handlerStack EXCEPT ![t] = below]
          /\ contexts' = Cleared(Merged(contexts, Back(below), best), best)
          /\ ReleaseContext(t, best)
      BY <1>7 DEF SelectorMerge
    <2> HIDE DEF best, below
    <2>2. status' \in [Thread -> Status]
      BY <2>1 DEF FatalUnless, TypedWith, Status
    <2>3. handlerStack' \in [Thread -> Seq(1..n)]
      BY <1>5, <2>1 DEF TypedWith
    <2>4. best \in 1..n /\ Back(below) \in Nat
      BY <1>2, <1>5, <1>7 DEF Pointer, None
    <2>5. Merged(contexts, Back(below), best) \in HeapOf(n)
      BY <2>4, MergedTyped DEF TypedWith
    <2>6. contexts' \in HeapOf(n)
      BY <2>1, <2>4, <2>5, ClearedTyped
    <2>7. cached' \in [Handled -> Pointer(n)]
      BY <1>2, <2>1, ReleaseContextTyped DEF TypedWith
    <2>8. QED
      BY <1>3, <1>4, <2>2, <2>3, <2>6, <2>7 DEF TypedWith
  <1>8. QED
    BY <1>6, <1>7

(* parseInput() begins and ends.                                           *)
LEMMA ParseTyped ==
    ASSUME NEW n \in Nat, TypedWith(n), NEW t \in Thread, StartParse(t) \/ FinishParse(t)
    PROVE  TypedWith(n)'
  <1>1. CASE StartParse(t)
    <2>1. /\ status' = [status EXCEPT ![t] = "parsing"]
          /\ parses' = [parses EXCEPT ![t] = @ + 1]
          /\ frames' = [frames EXCEPT ![t] =
                            <<Activation(script[t][parses[t] + 1].rule, 0)>>]
          /\ parses[t] < Len(script[t])
          /\ UNCHANGED <<script, handlerStack, root, parsed, outcome, heapVars>>
      BY <1>1 DEF StartParse
    <2>2. script[t] \in Seq(Request) /\ parses[t] \in Nat
      BY DEF TypedWith
    <2>3. parses[t] + 1 \in 1..Len(script[t])
      BY <2>1, <2>2, LenProperties
    <2>4. script[t][parses[t] + 1].rule \in Handled
      <3>1. script[t][parses[t] + 1] \in Request
        BY <2>2, <2>3, ElementOfSeq
      <3>2. QED
        BY <3>1 DEF Request
    <2>5. script[t][parses[t] + 1].rule \in Recognizer
      BY <2>4, GrammarAssumption
    <2>6. <<Activation(script[t][parses[t] + 1].rule, 0)>> \in Seq(Frame(n))
      BY <2>5, ActivationTyped
    <2>7. frames' \in FramesOf(n)
      BY <2>1, <2>6 DEF TypedWith, FramesOf
    <2>8. status' \in [Thread -> Status] /\ parses' \in [Thread -> Nat]
      BY <2>1, <2>2 DEF TypedWith, Status
    <2>9. QED
      BY <2>1, <2>7, <2>8 DEF TypedWith, heapVars
  <1>2. CASE FinishParse(t)
    <2>1. /\ status' = [status EXCEPT ![t] = "done"]
          /\ root' = [root EXCEPT ![t] = None]
          /\ handlerStack' = [handlerStack EXCEPT ![t] = <<>>]
          /\ UNCHANGED <<script, parses, frames, parsed, heapVars>>
      BY <1>2 DEF FinishParse
    <2>2. <<>> \in Seq(1..n) /\ None \in Pointer(n)
      BY EmptySeq DEF Pointer, None
    <2>3. QED
      BY <2>1, <2>2 DEF TypedWith, Status, heapVars
  <1>3. QED
    BY <1>1, <1>2

LEMMA InitTyped == Init => TypeOK
  <1> SUFFICES ASSUME Init PROVE TypedWith(0)
    BY TypeOKIsTypedWith
  <1>1. \A S : <<>> \in Seq(S) /\ Len(<<>>) = 0
    BY EmptySeq
  <1>2. script \in [Thread -> Seq(Request)]
    BY ScriptAssumption DEF Init
  <1>3. /\ status \in [Thread -> Status] /\ parses \in [Thread -> Nat]
        /\ parsed \in [Thread -> Matched] /\ root \in [Thread -> Pointer(0)]
        /\ cached \in [Handled -> Pointer(0)]
    BY DEF Init, Status, Matched, Pointer, None
  <1>4. /\ frames \in FramesOf(0) /\ handlerStack \in [Thread -> Seq(1..0)]
        /\ contexts \in HeapOf(0)
    BY <1>1 DEF Init, FramesOf, HeapOf
  <1>5. QED
    BY <1>2, <1>3, <1>4 DEF TypedWith

LEMMA NextTyped == TypeOK /\ [Next]_vars => TypeOK'
  <1> SUFFICES ASSUME TypeOK, [Next]_vars PROVE \E m \in Nat : TypedWith(m)'
    <2>1. ASSUME NEW m \in Nat, TypedWith(m)' PROVE TypeOK'
      BY <2>1 DEF TypeOK, TypedWith, FramesOf, HeapOf
    <2>2. QED
      BY <2>1
  <1>1. PICK n \in Nat : TypedWith(n)
    BY TypeOKIsTypedWith
  <1>2. ASSUME NEW t \in Thread, StartParse(t) \/ Work(t)
        PROVE  \E m \in Nat : TypedWith(m)'
    <2>1. CASE StartParse(t) \/ FinishParse(t)
      BY <1>1, <2>1, ParseTyped
    <2>2. CASE BeginParse(t)
      BY <1>1, <2>2, BeginTyped
    <2>3. CASE PlainFeed(t)
      BY <1>1, <2>3, PlainFeedTyped
    <2>4. CASE SelectorStep(t)
      BY <1>1, <2>4, BranchTyped, ElectTyped, MergeTyped DEF SelectorStep
    <2>5. CASE EndParse(t)
      BY <1>1, <2>5, EndTyped
    <2>6. QED
      BY <1>2, <2>1, <2>2, <2>3, <2>4, <2>5 DEF Work, Feed, PlainFeed, SelectorStep
  <1>3. CASE UNCHANGED vars
    BY <1>1, <1>3 DEF vars, parseVars, heapVars, TypedWith
  <1>4. QED
    BY <1>2, <1>3 DEF Next, AllDone

(* Throughout any parse of any input with any grammar, by any number of    *)
(* threads, every variable of Parser::parseInput() and its ParserContext   *)
(* has its type and every pointer of an activation, of the handler stack,  *)
(* of an assignment or of a cache is null or points to a HandlerContext    *)
(* that was created.                                                       *)
THEOREM TypeCorrect == Spec => []TypeOK
  <1>1. QED
    BY InitTyped, NextTyped, PTL DEF Spec

----------------------------------------------------------------------------
(* A set on which a relation is well-founded has minimal elements.         *)
LEMMA LeastIn ==
    ASSUME NEW R, NEW S, IsWellFoundedOn(R, S), NEW T, T \subseteq S, T # {}
    PROVE  \E x \in T : \A y \in T : ~(<<y, x>> \in R)
  BY WFMin, Zenon

(* A set of natural numbers has a least one.                               *)
LEMMA LeastNumber ==
    ASSUME NEW T, T \subseteq Nat, T # {}
    PROVE  \E n \in T : \A m \in T : n <= m
  <1>1. IsWellFoundedOn(OpToRel(<, Nat), Nat)
    BY NatLessThanWellFounded
  <1>2. PICK n \in T : \A m \in T : ~(<<m, n>> \in OpToRel(<, Nat))
    BY <1>1, LeastIn, Zenon
  <1>3. ASSUME NEW m \in T PROVE n <= m
    <2>0. n \in Nat /\ m \in Nat
      OBVIOUS
    <2>1. ~(<<m, n>> \in OpToRel(<, Nat))
      BY <1>2
    <2>2. ~(m < n)
      <3> SUFFICES ASSUME m < n PROVE FALSE
        OBVIOUS
      <3>1. <<m, n>> \in Nat \X Nat /\ <<m, n>>[1] < <<m, n>>[2]
        BY <2>0
      <3>2. QED
        BY <2>1, <3>1, Zenon DEF OpToRel
    <2>3. QED
      BY <2>0, <2>2
  <1>4. QED
    BY <1>3

(* Induction over the numbers, for the members of a set.                   *)
LEMMA UpFromZero ==
    ASSUME NEW S, 0 \in S, \A k \in Nat : k \in S => k + 1 \in S
    PROVE  Nat \subseteq S
  <1> DEFINE T == Nat \ S
  <1> SUFFICES ASSUME T # {} PROVE FALSE
    OBVIOUS
  <1>1. T \subseteq Nat
    OBVIOUS
  <1>2. \E n \in T : \A m \in T : n <= m
    <2> HIDE DEF T
    <2> QED BY <1>1, LeastNumber
  <1>3. PICK n \in T : \A m \in T : n <= m
    BY <1>2
  <1>4. n \in Nat /\ n # 0
    OBVIOUS
  <1>5. n - 1 \in Nat /\ ~(n <= n - 1) /\ (n - 1) + 1 = n
    BY <1>4
  <1>6. n - 1 \in S
    BY <1>3, <1>5
  <1>7. QED
    BY <1>5, <1>6

(* The equation of FlattenSeq, over the first n parts.                     *)
Flattens(g, parts, n) ==
    g = [i \in 1..n |-> IF i = 1 THEN parts[i] ELSE g[i - 1] \o parts[i]]

LEMMA FlattensAt ==
    ASSUME NEW parts, NEW n \in Nat, NEW g, Flattens(g, parts, n)
    PROVE  \A i \in 1..n : g[i] = IF i = 1 THEN parts[i] ELSE g[i - 1] \o parts[i]
  BY DEF Flattens

(* One function satisfies it.                                              *)
LEMMA FlattensOnce ==
    ASSUME NEW parts, NEW n \in Nat, NEW g, Flattens(g, parts, n),
           NEW h, Flattens(h, parts, n)
    PROVE  \A i \in 1..n : g[i] = h[i]
  <1> DEFINE T == {i \in 1..n : g[i] # h[i]}
  <1> SUFFICES ASSUME T # {} PROVE FALSE
    OBVIOUS
  <1>1. PICK i \in T : \A j \in T : i <= j
    <2>1. T \subseteq Nat
      OBVIOUS
    <2> HIDE DEF T
    <2>2. QED
      BY <2>1, LeastNumber
  <1>2. i \in 1..n /\ g[i] # h[i]
    OBVIOUS
  <1>a. g[i] = IF i = 1 THEN parts[i] ELSE g[i - 1] \o parts[i]
    BY <1>2, FlattensAt
  <1>b. h[i] = IF i = 1 THEN parts[i] ELSE h[i - 1] \o parts[i]
    BY <1>2, FlattensAt
  <1>3. CASE i = 1
    BY <1>2, <1>3, <1>a, <1>b
  <1>4. CASE i # 1
    <2>1. i - 1 \in 1..n /\ i - 1 \notin T
      BY <1>1, <1>4
    <2>2. g[i - 1] = h[i - 1]
      BY <2>1
    <2>3. QED
      BY <1>2, <1>4, <2>2, <1>a, <1>b
  <1>5. QED
    BY <1>3, <1>4

(* There is such a function.                                               *)
LEMMA FlattensSome ==
    ASSUME NEW S, NEW parts \in Seq(Seq(S)), NEW n \in 0..Len(parts)
    PROVE  \E g \in [1..n -> Seq(S)] : Flattens(g, parts, n)
  <1> DEFINE Good(k) == \E g \in [1..k -> Seq(S)] : Flattens(g, parts, k)
             T == {k \in 0..Len(parts) : ~Good(k)}
  <1>0. Len(parts) \in Nat /\ \A i \in 1..Len(parts) : parts[i] \in Seq(S)
    BY LenProperties, ElementOfSeq
  <1> SUFFICES ASSUME T # {} PROVE FALSE
    OBVIOUS
  <1>1. PICK k \in T : \A j \in T : k <= j
    <2>1. T \subseteq Nat
      BY <1>0
    <2> HIDE DEF T
    <2>2. QED
      BY <2>1, LeastNumber
  <1>2. k \in 0..Len(parts) /\ ~Good(k)
    OBVIOUS
  <1> HIDE DEF Good
  <1>3. CASE k = 0
    <2>1. Flattens([i \in 1..0 |-> <<>>], parts, 0) /\ [i \in 1..0 |-> <<>>] \in [1..0 -> Seq(S)]
      BY DEF Flattens
    <2>2. QED
      BY <1>2, <1>3, <2>1 DEF Good
  <1>4. CASE k # 0
    <2>1. k - 1 \in 0..Len(parts) /\ k - 1 \notin T
      BY <1>0, <1>1, <1>2, <1>4
    <2>2. Good(k - 1)
      BY <2>1
    <2>3. PICK g \in [1..(k - 1) -> Seq(S)] : Flattens(g, parts, k - 1)
      BY <2>2 DEF Good
    <2> DEFINE h == [i \in 1..k |-> IF i = 1 THEN parts[i] ELSE g[i - 1] \o parts[i]]
    <2>4. \A i \in 1..(k - 1) : h[i] = g[i]
      <3>1. k - 1 \in Nat /\ \A i \in 1..(k - 1) : i \in 1..k
        BY <1>0, <2>1
      <3>2. \A i \in 1..(k - 1) : g[i] = IF i = 1 THEN parts[i] ELSE g[i - 1] \o parts[i]
        BY <2>3, <3>1, Zenon DEF Flattens
      <3>3. QED
        BY <3>1, <3>2
    <2>5. \A i \in 1..k : i # 1 => g[i - 1] = h[i - 1]
      <3> HIDE DEF h
      <3> QED BY <1>2, <2>4
    <2>6. Flattens(h, parts, k)
      <3>1. h = [i \in 1..k |-> IF i = 1 THEN parts[i] ELSE h[i - 1] \o parts[i]]
        BY <2>5
      <3>2. QED
        BY <3>1 DEF Flattens
    <2>7. h \in [1..k -> Seq(S)]
      <3>1. ASSUME NEW i \in 1..k, i # 1 PROVE g[i - 1] \o parts[i] \in Seq(S)
        <4>1. g[i - 1] \in Seq(S) /\ parts[i] \in Seq(S)
          BY <1>0, <1>2, <3>1
        <4>2. QED
          BY <4>1, ConcatProperties
      <3>2. \A i \in 1..k : i = 1 => parts[i] \in Seq(S)
        BY <1>0, <1>2
      <3>3. QED
        BY <3>1, <3>2
    <2>8. QED
      BY <1>2, <2>6, <2>7 DEF Good
  <1>5. QED
    BY <1>3, <1>4

(* So FlattenSeq is its last value.                                        *)
LEMMA FlattenSeqIs ==
    ASSUME NEW parts, Len(parts) \in Nat, Len(parts) # 0,
           NEW g, Flattens(g, parts, Len(parts))
    PROVE  FlattenSeq(parts) = g[Len(parts)]
  <1> DEFINE n == Len(parts)
             Eq(f) == f = [i \in 1..n |-> IF i = 1 THEN parts[i] ELSE f[i - 1] \o parts[i]]
             flatten == CHOOSE f : Eq(f)
  <1>1. FlattenSeq(parts) = flatten[n]
    BY DEF FlattenSeq
  <1>2. Eq(g)
    BY DEF Flattens
  <1>3. Eq(flatten)
    <2> HIDE DEF Eq
    <2> QED BY <1>2
  <1>4. Flattens(flatten, parts, n)
    BY <1>3 DEF Flattens
  <1> HIDE DEF flatten
  <1>5. \A i \in 1..n : flatten[i] = g[i]
    BY <1>4, FlattensOnce
  <1>6. n \in 1..n
    OBVIOUS
  <1>7. QED
    BY <1>1, <1>5, <1>6

(* The empty sequence flattens to itself, one more part adds its elements. *)
LEMMA FlattenEmpty == FlattenSeq(<<>>) = <<>>
  BY DEF FlattenSeq

LEMMA FlattenAppend ==
    ASSUME NEW S, NEW parts \in Seq(Seq(S)), NEW part \in Seq(S)
    PROVE  /\ FlattenSeq(parts) \in Seq(S)
           /\ FlattenSeq(Append(parts, part)) = FlattenSeq(parts) \o part
  <1> DEFINE n == Len(parts)
             longer == Append(parts, part)
  <1>1. n \in Nat
    BY LenProperties
  <1>2. /\ longer \in Seq(Seq(S)) /\ Len(longer) = n + 1
        /\ longer[n + 1] = part
        /\ \A i \in 1..n : longer[i] = parts[i]
    BY AppendProperties
  <1> HIDE DEF longer
  <1>3. PICK g \in [1..(n + 1) -> Seq(S)] : Flattens(g, longer, n + 1)
    <2>1. n + 1 \in 0..Len(longer)
      BY <1>1, <1>2
    <2>2. QED
      BY <1>2, <2>1, FlattensSome
  <1>4. FlattenSeq(longer) = g[n + 1]
    BY <1>1, <1>2, <1>3, FlattenSeqIs
  <1>5. \A i \in 1..(n + 1) : g[i] = IF i = 1 THEN longer[i] ELSE g[i - 1] \o longer[i]
    <2>1. n + 1 \in Nat
      BY <1>1
    <2>2. QED
      BY <1>3, Zenon DEF Flattens
  <1>6. CASE n = 0
    <2>1. parts = <<>>
      BY <1>6
    <2>2. FlattenSeq(longer) = part
      BY <1>2, <1>4, <1>5, <1>6
    <2>3. FlattenSeq(parts) = <<>> /\ <<>> \in Seq(S) /\ <<>> \o part = part
      BY <2>1, FlattenEmpty, ConcatEmptySeq
    <2>4. QED
      BY <2>2, <2>3 DEF longer
  <1>7. CASE n # 0
    <2> DEFINE h == [i \in 1..n |-> g[i]]
    <2>1. ASSUME NEW i \in 1..n
          PROVE  h[i] = IF i = 1 THEN parts[i] ELSE h[i - 1] \o parts[i]
      <3>1. i \in 1..(n + 1) /\ longer[i] = parts[i] /\ (i # 1 => i - 1 \in 1..n)
        BY <1>1, <1>2
      <3>2. g[i] = IF i = 1 THEN longer[i] ELSE g[i - 1] \o longer[i]
        BY <1>5, <3>1
      <3>3. QED
        BY <3>1, <3>2
    <2>2. Flattens(h, parts, n)
      BY <2>1 DEF Flattens
    <2>3. FlattenSeq(parts) = h[n]
      BY <1>1, <1>7, <2>2, FlattenSeqIs
    <2>4. h[n] = g[n] /\ g[n] \in Seq(S) /\ g[n + 1] = g[n] \o part
      <3>1. n \in 1..n /\ n \in 1..(n + 1) /\ n + 1 \in 1..(n + 1) /\ n + 1 # 1 /\ n + 1 - 1 = n
        BY <1>1, <1>7
      <3>2. ASSUME NEW i \in 1..(n + 1), i = n + 1 PROVE g[i] = g[n] \o longer[i]
        <4>1. i # 1 /\ i - 1 = n
          BY <3>1, <3>2
        <4>2. QED
          BY <1>5, <4>1
      <3>3. h[n] = g[n] /\ g[n] \in Seq(S)
        BY <3>1
      <3>4. g[n + 1] = g[n] \o longer[n + 1]
        BY <3>1, <3>2
      <3>5. QED
        BY <1>2, <3>3, <3>4
    <2>5. QED
      BY <1>4, <2>3, <2>4 DEF longer
  <1>8. QED
    BY <1>6, <1>7

(* Concatenation is associative.                                           *)
LEMMA ConcatThrice ==
    ASSUME NEW S, NEW p \in Seq(S), NEW q \in Seq(S), NEW r \in Seq(S)
    PROVE  \A x, y : x = p \o q /\ y = x \o r => y = p \o (q \o r)
  BY ConcatAssociative

(* The first parts flatten to a prefix.                                    *)
LEMMA FlattenPrefix ==
    ASSUME NEW S, NEW parts \in Seq(Seq(S)), NEW m \in 0..Len(parts)
    PROVE  \E rest \in Seq(S) :
              FlattenSeq(parts) = FlattenSeq(SubSeq(parts, 1, m)) \o rest
  <1> DEFINE Good(k) == \E rest \in Seq(S) : FlattenSeq(SubSeq(parts, 1, k))
                                   = FlattenSeq(SubSeq(parts, 1, m)) \o rest
             T == {k \in m..Len(parts) : ~Good(k)}
  <1>0. Len(parts) \in Nat /\ m \in Nat /\ \A i \in 1..Len(parts) : parts[i] \in Seq(S)
    BY LenProperties, ElementOfSeq
  <1>1. ASSUME NEW k \in 0..Len(parts) PROVE SubSeq(parts, 1, k) \in Seq(Seq(S))
    <2>1. \A i \in 1..k : parts[i] \in Seq(S)
      BY <1>0
    <2>2. k \in Int /\ 1 \in Int
      BY <1>0
    <2>3. QED
      BY <2>1, <2>2, SubSeqProperties
  <1>2. FlattenSeq(SubSeq(parts, 1, m)) \in Seq(S)
    <2>1. <<>> \in Seq(S)
      OBVIOUS
    <2>2. QED
      BY <1>1, <2>1, FlattenAppend
  <1>3. T = {}
    <2> SUFFICES ASSUME T # {} PROVE FALSE
      OBVIOUS
    <2>1. PICK k \in T : \A j \in T : k <= j
      <3>1. T \subseteq Nat
        BY <1>0
      <3> HIDE DEF T
      <3>2. QED
        BY <3>1, LeastNumber
    <2>2. k \in m..Len(parts) /\ ~Good(k)
      OBVIOUS
    <2> HIDE DEF Good
    <2>3. CASE k = m
      <3>1. <<>> \in Seq(S) /\ FlattenSeq(SubSeq(parts, 1, m))
                 = FlattenSeq(SubSeq(parts, 1, m)) \o <<>>
        BY <1>2, ConcatEmptySeq
      <3>2. QED
        BY <2>2, <2>3, <3>1 DEF Good
    <2>4. CASE k # m
      <3>1. k - 1 \in m..Len(parts) /\ k - 1 \notin T /\ k \in 1..Len(parts)
            /\ k - 1 \in 0..Len(parts)
        BY <1>0, <2>1, <2>2, <2>4
      <3>2. Good(k - 1)
        BY <3>1
      <3>3. PICK rest \in Seq(S) : FlattenSeq(SubSeq(parts, 1, k - 1))
                                   = FlattenSeq(SubSeq(parts, 1, m)) \o rest
        BY <3>2 DEF Good
      <3>4. SubSeq(parts, 1, k) = Append(SubSeq(parts, 1, k - 1), parts[k])
        <4>1. SubSeq(parts, 1, k) = SubSeq(parts, 1, k - 1) \o <<parts[k]>>
          <5>1. 1 \in 1..Len(parts) /\ k \in 1..Len(parts)
            BY <1>0, <3>1
          <5>2. QED
            BY <1>0, <3>1, <5>1, SubSeqRecursiveSecond
        <4>2. parts[k] \in Seq(S)
          BY <1>0, <3>1
        <4>3. QED
          BY <1>1, <3>1, <4>1, <4>2, AppendIsConcat
      <3>5. FlattenSeq(SubSeq(parts, 1, k)) = FlattenSeq(SubSeq(parts, 1, k - 1)) \o parts[k]
        <4>1. parts[k] \in Seq(S) /\ SubSeq(parts, 1, k - 1) \in Seq(Seq(S))
          BY <1>0, <1>1, <3>1
        <4>2. QED
          BY <3>4, <4>1, FlattenAppend
      <3>6. parts[k] \in Seq(S) /\ rest \o parts[k] \in Seq(S)
        BY <1>0, <3>1, ConcatProperties
      <3>7. FlattenSeq(SubSeq(parts, 1, k))
               = FlattenSeq(SubSeq(parts, 1, m)) \o (rest \o parts[k])
        <4> DEFINE first == FlattenSeq(SubSeq(parts, 1, m))
                   shorter == FlattenSeq(SubSeq(parts, 1, k - 1))
                   whole == FlattenSeq(SubSeq(parts, 1, k))
                   part == parts[k]
        <4>1. first \in Seq(S) /\ rest \in Seq(S) /\ part \in Seq(S)
              /\ shorter = first \o rest /\ whole = shorter \o part
          BY <1>2, <3>3, <3>5, <3>6
        <4> HIDE DEF first, shorter, whole, part
        <4>2. whole = first \o (rest \o part)
          BY <4>1, ConcatThrice
        <4>3. QED
          BY <4>2 DEF first, whole, part
      <3>8. QED
        BY <2>2, <3>6, <3>7 DEF Good
    <2>5. QED
      BY <2>3, <2>4
  <1>4. Good(Len(parts))
    <2>1. Len(parts) \in m..Len(parts)
      BY <1>0
    <2> HIDE DEF Good
    <2>2. QED
      BY <1>3, <2>1
  <1>5. SubSeq(parts, 1, Len(parts)) = parts
    BY SubSeqFull
  <1>6. QED
    BY <1>4, <1>5

(* In a sequence without repetition, what is before the end is not last.   *)
NoRepetition(s) == \A i, j \in DOMAIN s : s[i] = s[j] => i = j
Holds(s, x)     == \E i \in DOMAIN s : s[i] = x

(* What a concatenation holds.                                             *)
LEMMA HeldByConcat ==
    ASSUME NEW X, NEW u \in Seq(X), NEW v \in Seq(X), NEW x
    PROVE  Holds(u \o v, x) <=> Holds(u, x) \/ Holds(v, x)
  <1>1. /\ Len(u) \in Nat /\ DOMAIN u = 1..Len(u) /\ Len(v) \in Nat /\ DOMAIN v = 1..Len(v)
    BY LenProperties
  <1> DEFINE w == u \o v
  <1>2. /\ w \in Seq(X) /\ Len(w) = Len(u) + Len(v)
        /\ \A i \in 1..(Len(u) + Len(v)) : w[i] = IF i <= Len(u) THEN u[i] ELSE v[i - Len(u)]
    BY ConcatProperties
  <1>3. DOMAIN w = 1..(Len(u) + Len(v))
    BY <1>2, LenProperties
  <1> HIDE DEF w
  <1>4. ASSUME NEW i \in DOMAIN w, w[i] = x PROVE Holds(u, x) \/ Holds(v, x)
    <2>1. CASE i <= Len(u)
      BY <1>1, <1>2, <1>3, <1>4, <2>1 DEF Holds
    <2>2. CASE ~(i <= Len(u))
      <3>1. i - Len(u) \in DOMAIN v /\ v[i - Len(u)] = x
        BY <1>1, <1>2, <1>3, <1>4, <2>2
      <3>2. QED
        BY <3>1 DEF Holds
    <2>3. QED
      BY <2>1, <2>2
  <1>5. ASSUME NEW i \in DOMAIN u, u[i] = x PROVE Holds(w, x)
    <2>1. i \in DOMAIN w /\ w[i] = x
      BY <1>1, <1>2, <1>3, <1>5
    <2>2. QED
      BY <2>1 DEF Holds
  <1>6. ASSUME NEW i \in DOMAIN v, v[i] = x PROVE Holds(w, x)
    <2>1. i + Len(u) \in 1..(Len(u) + Len(v)) /\ ~(i + Len(u) <= Len(u))
          /\ i + Len(u) - Len(u) = i
      BY <1>1
    <2>2. w[i + Len(u)] = x
      BY <1>2, <1>6, <2>1
    <2>3. QED
      BY <1>3, <2>1, <2>2 DEF Holds
  <1>7. QED
    BY <1>4, <1>5, <1>6 DEF Holds, w

LEMMA NotLast ==
    ASSUME NEW X, NEW u \in Seq(X), NEW v \in Seq(X), v # <<>>, NoRepetition(u \o v),
           NEW x, Holds(u, x)
    PROVE  x # Last(u \o v)
  <1>1. /\ Len(u) \in Nat /\ DOMAIN u = 1..Len(u) /\ Len(v) \in Nat /\ Len(v) # 0
    BY LenProperties, EmptySeq
  <1> DEFINE w == u \o v
  <1>2. /\ w \in Seq(X) /\ Len(w) = Len(u) + Len(v)
        /\ \A i \in 1..(Len(u) + Len(v)) : w[i] = IF i <= Len(u) THEN u[i] ELSE v[i - Len(u)]
    BY ConcatProperties
  <1>3. DOMAIN w = 1..(Len(u) + Len(v)) /\ NoRepetition(w)
    BY <1>2, LenProperties
  <1> HIDE DEF w
  <1>4. Last(w) = w[Len(w)] /\ w # <<>>
    BY <1>1, <1>2, EmptySeq DEF Last
  <1>5. PICK i \in DOMAIN u : u[i] = x
    BY DEF Holds
  <1>6. i \in DOMAIN w /\ w[i] = x /\ Len(w) \in DOMAIN w /\ i # Len(w)
    BY <1>1, <1>2, <1>3, <1>5
  <1>7. QED
    BY <1>3, <1>4, <1>6 DEF NoRepetition, w

(* The last element is held.                                               *)
LEMMA LastIsHeld ==
    ASSUME NEW X, NEW s \in Seq(X), s # <<>>
    PROVE  Holds(s, Last(s)) /\ Last(s) \in X
  <1>1. Last(s) = s[Len(s)] /\ Len(s) \in Nat \ {0} /\ Last(s) \in X
    BY EmptySeq, LenProperties, ElementOfSeq DEF Last
  <1>2. Len(s) \in DOMAIN s
    BY <1>1, LenProperties
  <1>3. QED
    BY <1>1, <1>2 DEF Holds

(* Two contexts at different places of a stack are different.              *)
LEMMA ApartOnStack ==
    ASSUME NEW X, NEW u \in Seq(X), NEW v \in Seq(X), NoRepetition(u \o v),
           NEW x, NEW y, Holds(u, x), Holds(v, y)
    PROVE  x # y
  <1> DEFINE s == u \o v
  <1>1. /\ Len(u) \in Nat /\ DOMAIN u = 1..Len(u) /\ Len(v) \in Nat /\ DOMAIN v = 1..Len(v)
    BY LenProperties
  <1>2. /\ s \in Seq(X) /\ Len(s) = Len(u) + Len(v)
        /\ \A i \in 1..(Len(u) + Len(v)) : s[i] = IF i <= Len(u) THEN u[i] ELSE v[i - Len(u)]
    BY ConcatProperties
  <1>3. DOMAIN s = 1..Len(s)
    BY <1>2, LenProperties
  <1>4. PICK i \in DOMAIN u : u[i] = x
    BY DEF Holds
  <1>5. PICK j \in DOMAIN v : v[j] = y
    BY DEF Holds
  <1> HIDE DEF s
  <1>6. i \in DOMAIN s /\ s[i] = x
    BY <1>1, <1>2, <1>3, <1>4
  <1>7. /\ j + Len(u) \in 1..(Len(u) + Len(v)) /\ ~(j + Len(u) <= Len(u))
        /\ j + Len(u) - Len(u) = j
    BY <1>1
  <1>8. j + Len(u) \in DOMAIN s /\ s[j + Len(u)] = y
    BY <1>2, <1>3, <1>5, <1>7
  <1>9. i # j + Len(u)
    BY <1>1, <1>7
  <1>10. QED
    BY <1>6, <1>8, <1>9 DEF NoRepetition, s

----------------------------------------------------------------------------
(* What a thread's activations have pushed, outermost first.               *)
OpenedBy(F) == FlattenSeq([i \in DOMAIN F |-> Opened(F[i])])

(* What one activation has pushed, and when that is nothing.               *)
LEMMA OpenedTyped ==
    ASSUME NEW n \in Nat, NEW f \in Frame(n)
    PROVE  /\ Opened(f) \in Seq(1..n)
           /\ Opened(f) = <<>> <=> f.context = None /\ f.bestBranch = None /\ f.branch = None
           /\ f.bestBranch = None /\ f.branch = None => Opened(f) = Pushed(f.context)
  <1>1. ASSUME NEW c \in Pointer(n) 
        PROVE Pushed(c) \in Seq(1..n) /\ (Pushed(c) = <<>> <=> c = None)
    <2>1. CASE c = None
      BY <2>1 DEF Pushed
    <2>2. CASE c # None
      <3>1. c \in 1..n
        BY <2>2 DEF None, Pointer
      <3>2. Pushed(c) = <<c>> /\ <<c>> \in Seq(1..n) /\ <<c>> # <<>>
        BY <2>2, <3>1 DEF Pushed
      <3>3. QED
        BY <2>2, <3>2
    <2>3. QED
      BY <2>1, <2>2
  <1>2. f.context \in Pointer(n) /\ f.bestBranch \in Pointer(n) /\ f.branch \in Pointer(n)
    BY DEF Frame
  <1>3. /\ Pushed(f.context) \in Seq(1..n)
        /\ Pushed(f.bestBranch) \in Seq(1..n)
        /\ Pushed(f.branch) \in Seq(1..n)
        /\ Pushed(f.context) = <<>> <=> f.context = None
        /\ Pushed(f.bestBranch) = <<>> <=> f.bestBranch = None
        /\ Pushed(f.branch) = <<>> <=> f.branch = None
    BY <1>1, <1>2
  <1> DEFINE x == Pushed(f.context)
             y == Pushed(f.bestBranch)
             z == Pushed(f.branch)
             T == 1..n
  <1>4. x \in Seq(T) /\ y \in Seq(T) /\ z \in Seq(T)
    BY <1>3
  <1>5. Opened(f) = (x \o y) \o z
    BY DEF Opened
  <1> HIDE DEF x, y, z, T
  <1>6. x \o y \in Seq(T) /\ (x \o y) \o z \in Seq(T)
    BY <1>4, ConcatProperties
  <1>7. ((x \o y) \o z = <<>>) <=> (x = <<>> /\ y = <<>> /\ z = <<>>)
    BY <1>4, <1>6, ConcatEqualIffEmpty
  <1>8. y = <<>> /\ z = <<>> => (x \o y) \o z = x
    BY <1>4, ConcatEmptySeq
  <1>9. QED
    BY <1>3, <1>5, <1>6, <1>7, <1>8 DEF x, y, z, T

(* No activation has pushed nothing.                                       *)
LEMMA OpenedByEmpty == OpenedBy(<<>>) = <<>>
  BY FlattenEmpty DEF OpenedBy

(* The parts that OpenedBy() flattens.                                     *)
LEMMA OpenedParts ==
    ASSUME NEW n \in Nat, NEW F \in Seq(Frame(n))
    PROVE  /\ [i \in DOMAIN F |-> Opened(F[i])] \in Seq(Seq(1..n))
           /\ Len([i \in DOMAIN F |-> Opened(F[i])]) = Len(F)
  <1>1. Len(F) \in Nat /\ DOMAIN F = 1..Len(F) /\ \A i \in 1..Len(F) : F[i] \in Frame(n)
    BY LenProperties, ElementOfSeq
  <1>2. \A i \in 1..Len(F) : Opened(F[i]) \in Seq(1..n)
    BY <1>1, OpenedTyped
  <1>3. QED
    BY <1>1, <1>2

(* A call of feed() adds what the new activation pushes.                   *)
LEMMA OpenedByAppend ==
    ASSUME NEW n \in Nat, NEW F \in Seq(Frame(n)), NEW f \in Frame(n)
    PROVE  /\ OpenedBy(F) \in Seq(1..n)
           /\ OpenedBy(Append(F, f)) = OpenedBy(F) \o Opened(f)
  <1> DEFINE parts == [i \in DOMAIN F |-> Opened(F[i])]
             more == [i \in DOMAIN Append(F, f) |-> Opened(Append(F, f)[i])]
  <1>1. Len(F) \in Nat /\ DOMAIN F = 1..Len(F)
    BY LenProperties
  <1>2. /\ DOMAIN Append(F, f) = 1..(Len(F) + 1)
        /\ Append(F, f)[Len(F) + 1] = f
        /\ \A i \in 1..Len(F) : Append(F, f)[i] = F[i]
        /\ Append(F, f) \in Seq(Frame(n))
        /\ Len(Append(F, f)) = Len(F) + 1
    BY <1>1, AppendProperties, LenProperties
  <1>3. parts \in Seq(Seq(1..n)) /\ Len(parts) = Len(F) /\ Opened(f) \in Seq(1..n)
    BY OpenedParts, OpenedTyped
  <1>3a. more \in Seq(Seq(1..n)) /\ Len(more) = Len(F) + 1
    BY <1>2, OpenedParts
  <1>4. more = Append(parts, Opened(f))
    <2>1. \A i \in 1..Len(F) : more[i] = parts[i]
      BY <1>1, <1>2
    <2>2. more[Len(F) + 1] = Opened(f)
      BY <1>1, <1>2
    <2>3. /\ Append(parts, Opened(f)) \in Seq(Seq(1..n))
          /\ Len(Append(parts, Opened(f))) = Len(F) + 1
          /\ \A i \in 1..Len(F) : Append(parts, Opened(f))[i] = parts[i]
          /\ Append(parts, Opened(f))[Len(F) + 1] = Opened(f)
      <3> HIDE DEF parts
      <3> QED BY <1>3, AppendProperties
    <2> HIDE DEF parts, more
    <2>4. \A i \in 1..Len(more) : more[i] = Append(parts, Opened(f))[i]
      BY <1>1, <1>3a, <2>1, <2>2, <2>3
    <2>5. QED
      BY <1>3a, <2>3, <2>4, SeqEqual
  <1> HIDE DEF parts, more
  <1>5. FlattenSeq(parts) \in Seq(1..n) /\ FlattenSeq(more) = FlattenSeq(parts) \o Opened(f)
    BY <1>3, <1>4, FlattenAppend
  <1>6. QED
    BY <1>5 DEF OpenedBy, parts, more

(* The element of the outermost activation is on the stack.                *)
LEMMA OpenedByFirst ==
    ASSUME NEW n \in Nat, NEW F \in Seq(Frame(n)), F # <<>>, F[1].context # None
    PROVE  OpenedBy(F) # <<>>
  <1> DEFINE parts == [i \in DOMAIN F |-> Opened(F[i])]
  <1>1. Len(F) \in Nat \ {0} /\ DOMAIN F = 1..Len(F) /\ F[1] \in Frame(n)
    BY LenProperties, ElementOfSeq, EmptySeq
  <1>2. parts[1] = Opened(F[1]) /\ Opened(F[1]) # <<>> /\ Opened(F[1]) \in Seq(1..n)
    BY <1>1, OpenedTyped
  <1>3. parts \in Seq(Seq(1..n)) /\ Len(parts) = Len(F)
    BY OpenedParts
  <1> HIDE DEF parts
  <1>4. PICK rest \in Seq(1..n) : FlattenSeq(parts) = FlattenSeq(SubSeq(parts, 1, 1)) \o rest
    <2>1. 1 \in 0..Len(parts)
      BY <1>1, <1>3
    <2>2. QED
      BY <1>3, <2>1, FlattenPrefix
  <1>5. FlattenSeq(SubSeq(parts, 1, 1)) = Opened(F[1])
    <2>0. 1 \in 1..Len(parts)
      BY <1>1, <1>3
    <2>1. SubSeq(parts, 1, 1) = <<parts[1]>>
      <3>1. SubSeq(parts, 1, 1) = <<parts[1]>> \o SubSeq(parts, 1 + 1, 1)
        BY <1>3, <2>0, SubSeqRecursiveFirst
      <3>2. SubSeq(parts, 1 + 1, 1) = <<>>
        BY SubSeqEmpty
      <3>3. <<parts[1]>> \in Seq(Seq(1..n))
        BY <1>2
      <3>4. QED
        BY <3>1, <3>2, <3>3, ConcatEmptySeq
    <2>2. <<parts[1]>> = Append(<<>>, parts[1])
      OBVIOUS
    <2>3. <<>> \in Seq(Seq(1..n)) /\ parts[1] \in Seq(1..n)
      BY <1>2
    <2>4. FlattenSeq(Append(<<>>, parts[1])) = FlattenSeq(<<>>) \o parts[1]
      BY <2>3, FlattenAppend
    <2>5. <<>> \o parts[1] = parts[1]
      BY <2>3, ConcatEmptySeq
    <2>6. QED
      BY <1>2, <2>1, <2>2, <2>4, <2>5, FlattenEmpty
  <1>6. FlattenSeq(parts) # <<>>
    BY <1>2, <1>4, <1>5, ConcatEqualIffEmpty
  <1>7. QED
    BY <1>6 DEF OpenedBy, parts

----------------------------------------------------------------------------
(* What an activation holds in each of its phases.                         *)
GoodFrame(f) ==
    /\ f.phase = "begin" => f.context = None
    /\ f.phase # "begin" => (f.context # None <=> f.rec \in Handled)
    /\ f.branch # None => f.phase = "fed"
    /\ f.phase = "fed" /\ Shape[f.rec].kind = "selector" => f.branch # None
    /\ f.bestBranch # None => f.phase \in {"feed", "fed"}
    /\ f.branch # None \/ f.bestBranch # None => Shape[f.rec].kind = "selector"

(* The activations that wait for the one they called; the outermost is of  *)
(* a rule with a handler.                                                  *)
Waiting(F) ==
    /\ F # <<>> => F[1].rec \in Handled
    /\ \A i \in DOMAIN F : GoodFrame(F[i]) /\ F[i].phase = "fed"

(* A thread: its status, its activations, and on its handler stack exactly *)
(* what they have pushed.                                                  *)
GoodThread(st, F, S) ==
    /\ st # "aborted"
    /\ F # <<>> => /\ st = "parsing"
                   /\ Waiting(Front(F))
                   /\ GoodFrame(Last(F))
                   /\ Front(F) = <<>> => Last(F).rec \in Handled
    /\ S = OpenedBy(F)

(* Every thread is such a thread: the first part of the inductive          *)
(* invariant.                                                              *)
ThreadsInv == \A t \in Thread : GoodThread(status[t], frames[t], handlerStack[t])

(* Front, Last and Append.                                                 *)
LEMMA AppendEnds ==
    ASSUME NEW X, NEW s \in Seq(X), NEW e \in X
    PROVE  Append(s, e) # <<>> /\ Front(Append(s, e)) = s /\ Last(Append(s, e)) = e
           /\ Append(s, e) \in Seq(X)
  <1>1. /\ Append(s, e) \in Seq(X) /\ Append(s, e) # <<>>
        /\ Len(Append(s, e)) = Len(s) + 1
        /\ \A i \in 1..Len(s) : Append(s, e)[i] = s[i]
        /\ Append(s, e)[Len(s) + 1] = e
    BY AppendProperties
  <1> DEFINE w == Append(s, e)
  <1>2. w \in Seq(X) /\ w # <<>> /\ Len(w) = Len(s) + 1 /\ Len(s) \in Nat
    BY <1>1, LenProperties
  <1>3. \A i \in 1..Len(s) : w[i] = s[i]
    BY <1>1
  <1>4. w[Len(s) + 1] = e
    BY <1>1
  <1> HIDE DEF w
  <1>5. /\ Last(w) = w[Len(w)] /\ Front(w) \in Seq(X) /\ Len(Front(w)) = Len(w) - 1
        /\ \A i \in 1..(Len(w) - 1) : Front(w)[i] = w[i]
    BY <1>2, EndsOfSequence
  <1>6. Len(Front(w)) = Len(s) /\ \A i \in 1..Len(Front(w)) : Front(w)[i] = s[i]
    BY <1>2, <1>3, <1>5
  <1>7. Front(w) = s
    BY <1>5, <1>6, SeqEqual
  <1>8. QED
    BY <1>2, <1>4, <1>5, <1>7 DEF w

(* A sequence is its Front with its Last appended.                         *)
LEMMA EndsAppend ==
    ASSUME NEW X, NEW s \in Seq(X), s # <<>>
    PROVE  s = Append(Front(s), Last(s)) /\ Front(s) \in Seq(X) /\ Last(s) \in X
  <1> DEFINE p == Front(s)
             e == Last(s)
  <1>1. /\ e \in X /\ p \in Seq(X) /\ Len(s) \in Nat \ {0} /\ e = s[Len(s)]
        /\ Len(p) = Len(s) - 1 /\ \A i \in 1..(Len(s) - 1) : p[i] = s[i]
    BY EndsOfSequence
  <1> HIDE DEF p, e
  <1>2. /\ Append(p, e) \in Seq(X) /\ Len(Append(p, e)) = Len(p) + 1
        /\ \A i \in 1..Len(p) : Append(p, e)[i] = p[i]
        /\ Append(p, e)[Len(p) + 1] = e
    BY <1>1, AppendProperties
  <1>3. Len(s) = Len(Append(p, e)) /\ \A i \in 1..Len(s) : s[i] = Append(p, e)[i]
    BY <1>1, <1>2
  <1>4. s = Append(p, e)
    BY <1>2, <1>3, SeqEqual
  <1>5. QED
    BY <1>1, <1>4 DEF p, e

(* A thread that parses, seen from its innermost activation, and back.     *)
LEMMA SplitThread ==
    ASSUME NEW n \in Nat, NEW st, NEW F \in Seq(Frame(n)), NEW S, F # <<>>,
           GoodThread(st, F, S)
    PROVE  /\ st = "parsing" /\ Waiting(Front(F)) /\ GoodFrame(Last(F))
           /\ Front(F) = <<>> => Last(F).rec \in Handled
           /\ Front(F) \in Seq(Frame(n)) /\ Last(F) \in Frame(n)
           /\ OpenedBy(Front(F)) \in Seq(1..n) /\ Opened(Last(F)) \in Seq(1..n)
           /\ S = OpenedBy(Front(F)) \o Opened(Last(F))
  <1>1. F = Append(Front(F), Last(F)) /\ Front(F) \in Seq(Frame(n)) /\ Last(F) \in Frame(n)
    BY EndsAppend
  <1>2. OpenedBy(F) = OpenedBy(Front(F)) \o Opened(Last(F))
        /\ OpenedBy(Front(F)) \in Seq(1..n)
    BY <1>1, OpenedByAppend
  <1>3. Opened(Last(F)) \in Seq(1..n)
    BY <1>1, OpenedTyped
  <1>4. QED
    BY <1>1, <1>2, <1>3 DEF GoodThread

(* ... and back: the activations below, with an innermost one.             *)
LEMMA JoinThread ==
    ASSUME NEW n \in Nat, NEW P \in Seq(Frame(n)), NEW f \in Frame(n), NEW S,
           Waiting(P), GoodFrame(f), P = <<>> => f.rec \in Handled,
           S = OpenedBy(P) \o Opened(f)
    PROVE  GoodThread("parsing", Append(P, f), S)
  <1>1. Append(P, f) # <<>> /\ Front(Append(P, f)) = P /\ Last(Append(P, f)) = f
    BY AppendEnds
  <1>2. OpenedBy(Append(P, f)) = OpenedBy(P) \o Opened(f)
    BY OpenedByAppend
  <1>3. QED
    BY <1>1, <1>2 DEF GoodThread

(* An activation that calls feed() waits with the others.                  *)
LEMMA WaitingMore ==
    ASSUME NEW n \in Nat, NEW P \in Seq(Frame(n)), NEW f \in Frame(n),
           Waiting(P), GoodFrame(f), P = <<>> => f.rec \in Handled, f.phase = "fed"
    PROVE  Waiting(Append(P, f))
  <1>1. /\ Append(P, f) \in Seq(Frame(n))
        /\ Len(Append(P, f)) = Len(P) + 1
        /\ \A i \in 1..Len(P) : Append(P, f)[i] = P[i]
        /\ Append(P, f)[Len(P) + 1] = f
    BY AppendProperties
  <1>2. Len(P) \in Nat /\ DOMAIN P = 1..Len(P) /\ DOMAIN Append(P, f) = 1..(Len(P) + 1)
        /\ (P = <<>> => Len(P) = 0) /\ (P # <<>> => Len(P) # 0)
    BY <1>1, LenProperties, EmptySeq
  <1> DEFINE W == Append(P, f)
  <1>3. /\ \A i \in 1..Len(P) : W[i] = P[i]
        /\ W[Len(P) + 1] = f
        /\ DOMAIN W = 1..(Len(P) + 1)
    BY <1>1, <1>2
  <1> HIDE DEF W
  <1>4. W[1].rec \in Handled
    BY <1>2, <1>3 DEF Waiting
  <1>5. \A i \in DOMAIN W : GoodFrame(W[i]) /\ W[i].phase = "fed"
    <2>1. ASSUME NEW i \in 1..(Len(P) + 1) PROVE GoodFrame(W[i]) /\ W[i].phase = "fed"
      <3>1. CASE i = Len(P) + 1
        BY <1>3, <3>1
      <3>2. CASE i # Len(P) + 1
        <4>1. i \in 1..Len(P)
          BY <1>2, <3>2
        <4>2. QED
          BY <1>2, <1>3, <4>1 DEF Waiting
      <3>3. QED
        BY <3>1, <3>2
    <2>2. QED
      BY <1>3, <2>1
  <1>6. QED
    BY <1>4, <1>5 DEF Waiting, W

(* The innermost of the waiting activations is resumed.                    *)
LEMMA WaitingLess ==
    ASSUME NEW n \in Nat, NEW P \in Seq(Frame(n)), P # <<>>, Waiting(P)
    PROVE  /\ Waiting(Front(P)) /\ GoodFrame(Last(P)) /\ Last(P).phase = "fed"
           /\ Front(P) = <<>> => Last(P).rec \in Handled
           /\ Front(P) \in Seq(Frame(n)) /\ Last(P) \in Frame(n)
           /\ P = Append(Front(P), Last(P))
  <1>1. /\ Last(P) \in Frame(n) /\ Front(P) \in Seq(Frame(n)) /\ Len(P) \in Nat \ {0}
        /\ Last(P) = P[Len(P)] /\ Len(Front(P)) = Len(P) - 1
        /\ \A i \in 1..(Len(P) - 1) : Front(P)[i] = P[i]
    BY EndsOfSequence
  <1> DEFINE Q == Front(P)
  <1>2. /\ Q \in Seq(Frame(n)) /\ Len(Q) = Len(P) - 1 /\ DOMAIN Q = 1..Len(Q)
        /\ \A i \in 1..(Len(P) - 1) : Q[i] = P[i]
        /\ (Q = <<>> => Len(Q) = 0) /\ (Q # <<>> => Len(Q) # 0)
    BY <1>1, LenProperties, EmptySeq
  <1> HIDE DEF Q
  <1>3. DOMAIN P = 1..Len(P) /\ Len(P) \in Nat \ {0}
    BY <1>1, LenProperties
  <1>4. Waiting(Q)
    BY <1>2, <1>3 DEF Waiting
  <1>5. Q = <<>> => P[Len(P)].rec \in Handled
    BY <1>2, <1>3 DEF Waiting
  <1>6. GoodFrame(P[Len(P)]) /\ P[Len(P)].phase = "fed"
    BY <1>3 DEF Waiting
  <1>7. QED
    BY <1>1, <1>4, <1>5, <1>6, EndsAppend DEF Q

(* Appending two elements.                                                 *)
LEMMA AppendTwo ==
    ASSUME NEW X, NEW s \in Seq(X), NEW d \in X, NEW e \in X
    PROVE  s \o <<d, e>> = Append(Append(s, d), e)
  <1> DEFINE W == Append(s, d)
             V == Append(W, e)
             Y == s \o <<d, e>>
  <1>1. /\ W \in Seq(X) /\ Len(W) = Len(s) + 1 /\ W[Len(s) + 1] = d
        /\ \A i \in 1..Len(s) : W[i] = s[i]
    BY AppendProperties
  <1>2. /\ V \in Seq(X) /\ Len(V) = Len(W) + 1 /\ V[Len(W) + 1] = e
        /\ \A i \in 1..Len(W) : V[i] = W[i]
    <2> HIDE DEF W
    <2> QED BY <1>1, AppendProperties
  <1>3. <<d, e>> \in Seq(X) /\ Len(<<d, e>>) = 2 /\ <<d, e>>[1] = d /\ <<d, e>>[2] = e
    OBVIOUS
  <1>4. /\ Y \in Seq(X) /\ Len(Y) = Len(s) + 2
        /\ \A i \in 1..(Len(s) + 2) :
              Y[i] = IF i <= Len(s) THEN s[i] ELSE <<d, e>>[i - Len(s)]
    BY <1>3, ConcatProperties
  <1>5. Len(s) \in Nat
    BY LenProperties
  <1> HIDE DEF W, V, Y
  <1>6. \A i \in 1..(Len(s) + 2) : Y[i] = V[i]
    <2>1. ASSUME NEW i \in 1..(Len(s) + 2) PROVE Y[i] = V[i]
      <3>1. CASE i <= Len(s)
        BY <1>1, <1>2, <1>4, <1>5, <3>1
      <3>2. CASE i = Len(s) + 1
        BY <1>1, <1>2, <1>3, <1>4, <1>5, <3>2
      <3>3. CASE i = Len(s) + 2
        BY <1>1, <1>2, <1>3, <1>4, <1>5, <3>3
      <3>4. QED
        BY <1>5, <3>1, <3>2, <3>3
    <2>2. QED
      BY <2>1
  <1>7. Y = V
    BY <1>1, <1>2, <1>4, <1>5, <1>6, SeqEqual
  <1>8. QED
    BY <1>7 DEF W, V, Y

(* The three ways the activations of a thread change.                      *)
LEMMA CallThread ==
    ASSUME NEW n \in Nat, NEW P \in Seq(Frame(n)), NEW f \in Frame(n), NEW g \in Frame(n),
           NEW S, Waiting(P), GoodFrame(f), P = <<>> => f.rec \in Handled, f.phase = "fed",
           GoodFrame(g), Opened(g) = <<>>, S = OpenedBy(P) \o Opened(f)
    PROVE  GoodThread("parsing", P \o <<f, g>>, S)
  <1> DEFINE W == Append(P, f)
  <1>1. Waiting(W) /\ W \in Seq(Frame(n)) /\ W # <<>>
    BY WaitingMore, AppendEnds
  <1>2. OpenedBy(W) = S /\ S \in Seq(1..n)
    <2>1. OpenedBy(P) \in Seq(1..n) /\ Opened(f) \in Seq(1..n)
      BY OpenedByAppend, OpenedTyped
    <2>2. OpenedBy(P) \o Opened(f) \in Seq(1..n)
      BY <2>1, ConcatProperties
    <2>3. QED
      BY <2>2, OpenedByAppend
  <1>3. P \o <<f, g>> = Append(W, g)
    BY AppendTwo
  <1> HIDE DEF W
  <1>4. S = OpenedBy(W) \o Opened(g)
    BY <1>2, ConcatEmptySeq
  <1>5. GoodThread("parsing", Append(W, g), S)
    BY <1>1, <1>4, JoinThread
  <1>6. QED
    BY <1>3, <1>5

(* feed() returns: the activation below has its answer.                    *)
LEMMA ReturnThread ==
    ASSUME NEW n \in Nat, NEW P \in Seq(Frame(n)), NEW m \in Matched, NEW S,
           Waiting(P), S = OpenedBy(P)
    PROVE  GoodThread("parsing",
               IF P = <<>> THEN <<>> ELSE Append(Front(P), [Last(P) EXCEPT !.matched = m]), S)
  <1>1. CASE P = <<>>
    BY <1>1 DEF GoodThread
  <1>2. CASE P # <<>>
    <2> DEFINE f == [Last(P) EXCEPT !.matched = m]
    <2>1. /\ Waiting(Front(P)) /\ GoodFrame(Last(P)) /\ Last(P).phase = "fed"
          /\ Front(P) = <<>> => Last(P).rec \in Handled
          /\ Front(P) \in Seq(Frame(n)) /\ Last(P) \in Frame(n)
          /\ P = Append(Front(P), Last(P))
      BY <1>2, WaitingLess
    <2>2. f \in Frame(n)
      BY <2>1 DEF Frame
    <2>3. /\ f.rec = Last(P).rec /\ f.phase = Last(P).phase /\ f.context = Last(P).context
          /\ f.branch = Last(P).branch /\ f.bestBranch = Last(P).bestBranch
      BY <2>1 DEF Frame
    <2> HIDE DEF f
    <2>4. GoodFrame(f) /\ Opened(f) = Opened(Last(P))
      BY <2>1, <2>3 DEF GoodFrame, Opened
    <2>5. S = OpenedBy(Front(P)) \o Opened(f)
      BY <2>1, <2>4, OpenedByAppend
    <2>6. GoodThread("parsing", Append(Front(P), f), S)
      BY <2>1, <2>2, <2>3, <2>4, <2>5, JoinThread
    <2>7. QED
      BY <1>2, <2>6 DEF f
  <1>3. QED
    BY <1>1, <1>2

----------------------------------------------------------------------------
(* The four kinds of places that hold a context.                           *)
InStacks(hs, c) == \E t \in Thread : \E i \in DOMAIN hs[t] : hs[t][i] = c
InRoots(rt, c)  == \E t \in Thread : rt[t] = c
InHeap(heap, c) == \E d \in DOMAIN heap : \E i \in DOMAIN heap[d].assignments :
                       heap[d].assignments[i].child = c
InCaches(cch, c) == \E h \in Handled : cch[h] = c

(* No context is held twice on the stacks, by two threads as root, by two  *)
(* assignments, by two caches ...                                          *)
StacksApart(hs) ==
    \A t, u \in Thread : \A i \in DOMAIN hs[t], j \in DOMAIN hs[u] :
        hs[t][i] = hs[u][j] => t = u /\ i = j
RootsApart(rt) ==
    \A t, u \in Thread : rt[t] # None /\ rt[t] = rt[u] => t = u
HeapApart(heap) ==
    \A d, e \in DOMAIN heap :
        \A i \in DOMAIN heap[d].assignments, j \in DOMAIN heap[e].assignments :
            /\ heap[d].assignments[i].child # None
            /\ heap[d].assignments[i].child = heap[e].assignments[j].child
            => d = e /\ i = j
CachesApart(cch) ==
    \A g, h \in Handled : cch[g] # None /\ cch[g] = cch[h] => g = h

(* ... nor in places of two kinds.                                         *)
OneKind(hs, rt, heap, cch, c) ==
    /\ InStacks(hs, c) => ~InRoots(rt, c) /\ ~InHeap(heap, c) /\ ~InCaches(cch, c)
    /\ InRoots(rt, c) => ~InHeap(heap, c) /\ ~InCaches(cch, c)
    /\ InHeap(heap, c) => ~InCaches(cch, c)

KindsApart(hs, rt, heap, cch) ==
    \A c : c # None => OneKind(hs, rt, heap, cch, c)

Apart(hs, rt, heap, cch) ==
    /\ StacksApart(hs) /\ RootsApart(rt) /\ HeapApart(heap) /\ CachesApart(cch)
    /\ KindsApart(hs, rt, heap, cch)

(* Nothing holds the context.                                              *)
Unheld(hs, rt, heap, cch, c) ==
    ~InStacks(hs, c) /\ ~InRoots(rt, c) /\ ~InHeap(heap, c) /\ ~InCaches(cch, c)

(* The types that the lemmas on places need.                               *)
Stacks  == [Thread -> Seq(Nat)]
Roots   == [Thread -> Nat]
Caches  == [Handled -> Nat]
Heap(m) == Seq(HandlerContext(m))

(* The stack of a thread becomes s; a context is taken off it.             *)
Restacked(hs, hs2, t, s) ==
    /\ hs2[t] = s
    /\ \A u \in Thread : u # t => hs2[u] = hs[u]

(* The context is no longer on the stacks, the others are where they were. *)
TakenOff(hs, hs2, c) ==
    /\ StacksApart(hs2)
    /\ InStacks(hs, c)
    /\ ~InStacks(hs2, c)
    /\ \A x : InStacks(hs2, x) => InStacks(hs, x)

(* A context that nothing holds is pushed; a context is taken off a stack. *)
LEMMA PushedApart ==
    ASSUME NEW hs \in Stacks, NEW t \in Thread, NEW c \in Nat,
           StacksApart(hs), ~InStacks(hs, c),
           NEW hs2, hs2[t] = Append(hs[t], c),
           \A u \in Thread : u # t => hs2[u] = hs[u]
    PROVE  StacksApart(hs2) /\ \A x : InStacks(hs2, x) => InStacks(hs, x) \/ x = c
  <1>1. hs[t] \in Seq(Nat) /\ hs2[t] = Append(hs[t], c)
        /\ \A u \in Thread : hs[u] \in Seq(Nat) /\ (u # t => hs2[u] = hs[u])
    BY DEF Stacks
  <1>2. /\ Len(hs[t]) \in Nat /\ DOMAIN hs[t] = 1..Len(hs[t])
        /\ Append(hs[t], c) \in Seq(Nat) /\ Len(Append(hs[t], c)) = Len(hs[t]) + 1
        /\ \A i \in 1..Len(hs[t]) : Append(hs[t], c)[i] = hs[t][i]
        /\ Append(hs[t], c)[Len(hs[t]) + 1] = c
    BY <1>1, AppendProperties, LenProperties
  <1>3. DOMAIN hs2[t] = 1..(Len(hs[t]) + 1)
    BY <1>1, <1>2, LenProperties
  <1>4. \A u \in Thread : \A i \in DOMAIN hs2[u] :
           \/ u = t /\ i = Len(hs[t]) + 1 /\ hs2[u][i] = c
           \/ i \in DOMAIN hs[u] /\ hs2[u][i] = hs[u][i]
    <2>1. ASSUME NEW u \in Thread, NEW i \in DOMAIN hs2[u]
          PROVE  \/ u = t /\ i = Len(hs[t]) + 1 /\ hs2[u][i] = c
                 \/ i \in DOMAIN hs[u] /\ hs2[u][i] = hs[u][i]
      <3>1. CASE u = t
        <4>1. i \in 1..(Len(hs[t]) + 1) /\ hs2[u] = Append(hs[t], c)
          BY <1>1, <1>3, <3>1
        <4>2. CASE i = Len(hs[t]) + 1
          BY <1>2, <3>1, <4>1, <4>2
        <4>3. CASE i \in 1..Len(hs[t])
          BY <1>2, <3>1, <4>1, <4>3
        <4>4. QED
          BY <1>2, <4>1, <4>2, <4>3
      <3>2. CASE u # t
        BY <1>1, <3>2
      <3>3. QED
        BY <3>1, <3>2
    <2>2. QED
      BY <2>1
  <1>5. \A u \in Thread : \A i \in DOMAIN hs[u] : hs[u][i] # c
    BY DEF InStacks
  <1>6. StacksApart(hs2)
    <2>1. SUFFICES ASSUME NEW u \in Thread, NEW v \in Thread,
                          NEW i \in DOMAIN hs2[u], NEW j \in DOMAIN hs2[v],
                          hs2[u][i] = hs2[v][j]
                   PROVE  u = v /\ i = j
      BY DEF StacksApart
    <2>2. QED
      BY <1>4, <1>5, <2>1 DEF StacksApart
  <1>7. ASSUME NEW x, InStacks(hs2, x) PROVE InStacks(hs, x) \/ x = c
    BY <1>4, <1>7 DEF InStacks
  <1>8. QED
    BY <1>6, <1>7

(* A context is taken off a stack, wherever _removeBranch() finds it.      *)
LEMMA RemovedApart ==
    ASSUME NEW hs \in Stacks, NEW t \in Thread, NEW k \in 1..Len(hs[t]), StacksApart(hs),
           NEW s \in Seq(Nat), Len(s) = Len(hs[t]) - 1,
           \A i \in 1..Len(s) : s[i] = IF i < k THEN hs[t][i] ELSE hs[t][i + 1],
           NEW hs2, Restacked(hs, hs2, t, s)
    PROVE  TakenOff(hs, hs2, hs[t][k])
  <1>1. hs[t] \in Seq(Nat) /\ hs2[t] = s
        /\ \A u \in Thread : u # t => hs2[u] = hs[u]
    BY DEF Stacks, Restacked
  <1>2. /\ Len(hs[t]) \in Nat /\ DOMAIN hs[t] = 1..Len(hs[t])
        /\ DOMAIN s = 1..(Len(hs[t]) - 1)
    BY <1>1, LenProperties
  <1>3. ASSUME NEW i \in DOMAIN s
        PROVE  \E j \in DOMAIN hs[t] : s[i] = hs[t][j] /\ j # k /\ j = IF i < k THEN i ELSE i + 1
    <2>1. i \in 1..Len(s) /\ i \in Nat /\ i + 1 \in DOMAIN hs[t] /\ i \in DOMAIN hs[t]
      BY <1>2
    <2>2. CASE i < k
      BY <2>1, <2>2
    <2>3. CASE ~(i < k)
      <3>1. i + 1 # k
        BY <2>1, <2>3
      <3>2. QED
        BY <2>1, <2>3, <3>1
    <2>4. QED
      BY <2>2, <2>3
  <1>4. ASSUME NEW u \in Thread, NEW v \in Thread, NEW i \in DOMAIN hs2[u], NEW j \in DOMAIN hs2[v],
               hs2[u][i] = hs2[v][j]
        PROVE  u = v /\ i = j
    <2>1. CASE u = t /\ v = t
      <3>0. i \in DOMAIN s /\ j \in DOMAIN s /\ s[i] = s[j]
        BY <1>1, <1>4, <2>1
      <3>1. PICK p \in DOMAIN hs[t] : s[i] = hs[t][p] /\ p = IF i < k THEN i ELSE i + 1
        BY <1>3, <3>0
      <3>2. PICK q \in DOMAIN hs[t] : s[j] = hs[t][q] /\ q = IF j < k THEN j ELSE j + 1
        BY <1>3, <3>0
      <3>3. p = q
        <4>1. hs[t][p] = hs[t][q]
          BY <3>0, <3>1, <3>2
        <4>2. QED
          BY <4>1 DEF StacksApart
      <3>4. i \in Int /\ j \in Int /\ k \in Int
        BY <1>2, <3>0
      <3>5. QED
        BY <2>1, <3>1, <3>2, <3>3, <3>4
    <2>2. CASE u = t /\ v # t
      <3>1. PICK p \in DOMAIN hs[t] : s[i] = hs[t][p]
        BY <1>1, <1>3, <2>2
      <3>2. hs[t][p] = hs[v][j] /\ j \in DOMAIN hs[v]
        BY <1>1, <1>4, <2>2, <3>1
      <3>3. QED
        BY <2>2, <3>2 DEF StacksApart
    <2>3. CASE u # t /\ v = t
      <3>1. PICK p \in DOMAIN hs[t] : s[j] = hs[t][p]
        BY <1>1, <1>3, <2>3
      <3>2. hs[t][p] = hs[u][i] /\ i \in DOMAIN hs[u]
        BY <1>1, <1>4, <2>3, <3>1
      <3>3. QED
        BY <2>3, <3>2 DEF StacksApart
    <2>4. CASE u # t /\ v # t
      <3>1. hs[u][i] = hs[v][j] /\ i \in DOMAIN hs[u] /\ j \in DOMAIN hs[v]
        BY <1>1, <1>4, <2>4
      <3>2. QED
        BY <3>1 DEF StacksApart
    <2>5. QED
      BY <2>1, <2>2, <2>3, <2>4
  <1>5. ASSUME NEW u \in Thread, NEW i \in DOMAIN hs2[u]
        PROVE  \E j \in DOMAIN hs[u] : hs2[u][i] = hs[u][j] /\ (u = t => j # k)
    <2>1. CASE u = t
      BY <1>1, <1>3, <2>1
    <2>2. CASE u # t
      BY <1>1, <2>2
    <2>3. QED
      BY <2>1, <2>2
  <1>6. ASSUME NEW x, InStacks(hs2, x) PROVE InStacks(hs, x)
    BY <1>5, <1>6 DEF InStacks
  <1>7. ~InStacks(hs2, hs[t][k])
    <2> SUFFICES ASSUME NEW u \in Thread, NEW i \in DOMAIN hs2[u], hs2[u][i] = hs[t][k]
                 PROVE  FALSE
      BY DEF InStacks
    <2>1. PICK j \in DOMAIN hs[u] : hs2[u][i] = hs[u][j] /\ (u = t => j # k)
      BY <1>5
    <2>2. k \in DOMAIN hs[t] /\ hs[u][j] = hs[t][k]
      BY <1>2, <2>1
    <2>3. u = t /\ j = k
      BY <2>2 DEF StacksApart
    <2>4. QED
      BY <2>1, <2>3
  <1>8. StacksApart(hs2)
    BY <1>4 DEF StacksApart
  <1>9. InStacks(hs, hs[t][k])
    <2>1. k \in DOMAIN hs[t]
      BY <1>2
    <2>2. QED
      BY <2>1 DEF InStacks
  <1>10. QED
    BY <1>6, <1>7, <1>8, <1>9 DEF TakenOff

(* A root or a cache is set, to None or to a context that no other holds.  *)
LEMMA RootSetApart ==
    ASSUME NEW rt \in Roots, NEW t \in Thread, NEW c \in Nat, RootsApart(rt),
           c = None \/ ~InRoots(rt, c), NEW rt2, rt2 = [rt EXCEPT ![t] = c]
    PROVE  RootsApart(rt2) /\ \A x : InRoots(rt2, x) => InRoots(rt, x) \/ x = c
  <1>1. rt2[t] = c /\ \A u \in Thread : u # t => rt2[u] = rt[u]
    BY DEF Roots
  <1>2. RootsApart(rt2)
    BY <1>1 DEF RootsApart, InRoots
  <1>3. \A x : InRoots(rt2, x) => InRoots(rt, x) \/ x = c
    BY <1>1 DEF InRoots
  <1>4. QED
    BY <1>2, <1>3

(* The same of a cache; an emptied cache no longer holds its context.      *)
LEMMA CacheSetApart ==
    ASSUME NEW cch \in Caches, NEW h \in Handled, NEW c \in Nat, CachesApart(cch),
           c = None \/ ~InCaches(cch, c), NEW cch2, cch2 = [cch EXCEPT ![h] = c]
    PROVE  /\ CachesApart(cch2)
           /\ \A x : InCaches(cch2, x) => InCaches(cch, x) \/ x = c
           /\ cch[h] # None /\ c = None => ~InCaches(cch2, cch[h])
  <1>1. cch2[h] = c /\ \A g \in Handled : g # h => cch2[g] = cch[g]
    BY DEF Caches
  <1>2. CachesApart(cch2)
    BY <1>1 DEF CachesApart, InCaches
  <1>3. \A x : InCaches(cch2, x) => InCaches(cch, x) \/ x = c
    BY <1>1 DEF InCaches
  <1>4. cch[h] # None /\ c = None => ~InCaches(cch2, cch[h])
    BY <1>1 DEF CachesApart, InCaches
  <1>5. QED
    BY <1>2, <1>3, <1>4

(* Steps on the assignments of the contexts.                               *)
Rewrites(heap, heap2, d, kept) ==
    /\ DOMAIN heap2 = DOMAIN heap
    /\ heap2[d].assignments = kept
    /\ heap2[d].handler = heap[d].handler
    /\ \A e \in DOMAIN heap : e # d => heap2[e] = heap[e]

(* A context of the heap and its assignments.                              *)
LEMMA HeapAt ==
    ASSUME NEW m \in Nat, NEW heap \in Heap(m), NEW d \in DOMAIN heap
    PROVE  /\ heap[d] \in HandlerContext(m)
           /\ heap[d].assignments \in Seq(Assignment(m))
           /\ Len(heap[d].assignments) \in Nat
           /\ DOMAIN heap[d].assignments = 1..Len(heap[d].assignments)
           /\ \A i \in DOMAIN heap[d].assignments : heap[d].assignments[i] \in Assignment(m)
           /\ \A kept : Rewrites(heap, [heap EXCEPT ![d].assignments = kept], d, kept)
  <1>1. heap[d] \in HandlerContext(m)
    BY LenProperties, ElementOfSeq DEF Heap
  <1>2. heap[d].assignments \in Seq(Assignment(m))
    BY <1>1 DEF HandlerContext
  <1> DEFINE s == heap[d].assignments
  <1>3. /\ Len(s) \in Nat /\ DOMAIN s = 1..Len(s)
        /\ \A i \in DOMAIN s : s[i] \in Assignment(m)
    <2> HIDE DEF s
    <2>1. s \in Seq(Assignment(m))
      BY <1>2 DEF s
    <2>2. QED
      BY <2>1, LenProperties, ElementOfSeq
  <1>4. ASSUME NEW kept
        PROVE Rewrites(heap, [heap EXCEPT ![d].assignments = kept], d, kept)
    BY <1>1 DEF HandlerContext, Rewrites
  <1>5. QED
    BY <1>1, <1>2, <1>3, <1>4

(* setChild() appends an assignment: its child must be held by nothing.    *)
LEMMA AssignedApart ==
    ASSUME NEW m \in Nat, NEW heap \in Heap(m), NEW d \in DOMAIN heap, HeapApart(heap),
           NEW a \in Assignment(m), a.child = None \/ ~InHeap(heap, a.child),
           NEW heap2, Rewrites(heap, heap2, d, Append(heap[d].assignments, a))
    PROVE  HeapApart(heap2) /\ \A x : InHeap(heap2, x) => InHeap(heap, x) \/ x = a.child
  <1> DEFINE s == heap[d].assignments
  <1>0. s = heap[d].assignments
    OBVIOUS
  <1>1. s \in Seq(Assignment(m)) /\ Len(s) \in Nat /\ DOMAIN s = 1..Len(s)
    BY HeapAt
  <1>2. /\ DOMAIN heap2 = DOMAIN heap /\ heap2[d].assignments = Append(s, a)
        /\ \A e \in DOMAIN heap : e # d => heap2[e] = heap[e]
    BY DEF Rewrites
  <1> HIDE DEF s
  <1>3. /\ DOMAIN Append(s, a) = 1..(Len(s) + 1) /\ Append(s, a)[Len(s) + 1] = a
        /\ \A i \in 1..Len(s) : Append(s, a)[i] = s[i]
    <2>1. /\ Append(s, a) \in Seq(Assignment(m)) /\ Len(Append(s, a)) = Len(s) + 1
          /\ Append(s, a)[Len(s) + 1] = a
          /\ \A i \in 1..Len(s) : Append(s, a)[i] = s[i]
      BY <1>1, AppendProperties
    <2>2. QED
      BY <2>1, LenProperties
  <1>4. ASSUME NEW e \in DOMAIN heap2, NEW i \in DOMAIN heap2[e].assignments
        PROVE  /\ e \in DOMAIN heap
               /\ \/ e = d /\ i = Len(s) + 1 /\ heap2[e].assignments[i].child = a.child
                  \/ /\ i \in DOMAIN heap[e].assignments
                     /\ heap2[e].assignments[i].child = heap[e].assignments[i].child
    <2>1. CASE e = d
      BY <1>0, <1>1, <1>2, <1>3, <2>1
    <2>2. CASE e # d
      BY <1>2, <2>2
    <2>3. QED
      BY <2>1, <2>2
  <1>5. \A e \in DOMAIN heap : \A i \in DOMAIN heap[e].assignments :
           a.child = None \/ heap[e].assignments[i].child # a.child
    BY DEF InHeap
  <1> HIDE DEF s
  <1>6. HeapApart(heap2)
    <2>1. SUFFICES ASSUME NEW e \in DOMAIN heap2, NEW f \in DOMAIN heap2,
                          NEW i \in DOMAIN heap2[e].assignments,
                          NEW j \in DOMAIN heap2[f].assignments,
                          heap2[e].assignments[i].child # None,
                          heap2[e].assignments[i].child = heap2[f].assignments[j].child
                   PROVE  e = f /\ i = j
      BY DEF HeapApart
    <2>2. /\ e \in DOMAIN heap
          /\ \/ e = d /\ i = Len(s) + 1 /\ heap2[e].assignments[i].child = a.child
             \/ /\ i \in DOMAIN heap[e].assignments
                /\ heap2[e].assignments[i].child = heap[e].assignments[i].child
      BY <1>4
    <2>3. /\ f \in DOMAIN heap
          /\ \/ f = d /\ j = Len(s) + 1 /\ heap2[f].assignments[j].child = a.child
             \/ /\ j \in DOMAIN heap[f].assignments
                /\ heap2[f].assignments[j].child = heap[f].assignments[j].child
      BY <1>4
    <2>4. QED
      BY <1>5, <2>1, <2>2, <2>3 DEF HeapApart
  <1>7. ASSUME NEW x, InHeap(heap2, x) PROVE InHeap(heap, x) \/ x = a.child
    <2>1. PICK e \in DOMAIN heap2 : \E i \in DOMAIN heap2[e].assignments :
                  heap2[e].assignments[i].child = x
      BY <1>7 DEF InHeap
    <2>2. PICK i \in DOMAIN heap2[e].assignments : heap2[e].assignments[i].child = x
      BY <2>1
    <2>3. QED
      BY <1>4, <2>2 DEF InHeap
  <1>8. QED
    BY <1>6, <1>7

(* Assignments are dropped from the end.                                   *)
LEMMA DroppedApart ==
    ASSUME NEW m \in Nat, NEW heap \in Heap(m), NEW d \in DOMAIN heap, HeapApart(heap),
           NEW kept \in Seq(Assignment(m)), Len(kept) <= Len(heap[d].assignments),
           \A i \in 1..Len(kept) : kept[i] = heap[d].assignments[i],
           NEW heap2, Rewrites(heap, heap2, d, kept)
    PROVE  HeapApart(heap2) /\ \A x : InHeap(heap2, x) => InHeap(heap, x)
  <1> DEFINE s == heap[d].assignments
  <1>0. s = heap[d].assignments
    OBVIOUS
  <1>1. s \in Seq(Assignment(m)) /\ Len(s) \in Nat /\ DOMAIN s = 1..Len(s)
    BY HeapAt
  <1>2. /\ DOMAIN heap2 = DOMAIN heap /\ heap2[d].assignments = kept
        /\ \A e \in DOMAIN heap : e # d => heap2[e] = heap[e]
    BY DEF Rewrites
  <1>3. DOMAIN kept = 1..Len(kept) /\ Len(kept) \in Nat
    BY LenProperties
  <1>5. Len(kept) <= Len(s) /\ \A i \in 1..Len(kept) : kept[i] = s[i]
    OBVIOUS
  <1> HIDE DEF s
  <1>4. ASSUME NEW e \in DOMAIN heap2, NEW i \in DOMAIN heap2[e].assignments
        PROVE  /\ e \in DOMAIN heap
               /\ i \in DOMAIN heap[e].assignments
               /\ heap2[e].assignments[i].child = heap[e].assignments[i].child
    <2>1. CASE e = d
      <3>1. heap2[e].assignments = kept /\ i \in 1..Len(kept)
        BY <1>2, <1>3, <2>1
      <3>2. i \in DOMAIN s
        BY <1>1, <1>3, <1>5, <3>1
      <3>3. kept[i] = s[i]
        BY <1>5, <3>1
      <3>4. QED
        BY <1>0, <1>2, <2>1, <3>1, <3>2, <3>3
    <2>2. CASE e # d
      BY <1>2, <2>2
    <2>3. QED
      BY <2>1, <2>2
  <1>6. HeapApart(heap2)
    <2>1. SUFFICES ASSUME NEW e \in DOMAIN heap2, NEW f \in DOMAIN heap2,
                          NEW i \in DOMAIN heap2[e].assignments,
                          NEW j \in DOMAIN heap2[f].assignments,
                          heap2[e].assignments[i].child # None,
                          heap2[e].assignments[i].child = heap2[f].assignments[j].child
                   PROVE  e = f /\ i = j
      BY DEF HeapApart
    <2>2. /\ e \in DOMAIN heap /\ i \in DOMAIN heap[e].assignments
          /\ heap2[e].assignments[i].child = heap[e].assignments[i].child
      BY <1>4
    <2>3. /\ f \in DOMAIN heap /\ j \in DOMAIN heap[f].assignments
          /\ heap2[f].assignments[j].child = heap[f].assignments[j].child
      BY <1>4
    <2>4. /\ heap[e].assignments[i].child # None
          /\ heap[e].assignments[i].child = heap[f].assignments[j].child
      BY <2>1, <2>2, <2>3
    <2>5. QED
      BY <2>2, <2>3, <2>4 DEF HeapApart
  <1>7. ASSUME NEW x, InHeap(heap2, x) PROVE InHeap(heap, x)
    BY <1>4, <1>7 DEF InHeap
  <1>8. QED
    BY <1>6, <1>7

(* A new context holds nothing.                                            *)
LEMMA CreatedApart ==
    ASSUME NEW m \in Nat, NEW heap \in Heap(m), HeapApart(heap), NEW h \in Handled,
           NEW heap2, heap2 = Append(heap, NewContext(h))
    PROVE  HeapApart(heap2) /\ \A x : InHeap(heap2, x) => InHeap(heap, x)
  <1>1. Len(heap) \in Nat /\ DOMAIN heap = 1..Len(heap)
    BY LenProperties DEF Heap
  <1>2. NewContext(h) \in HandlerContext(m) /\ DOMAIN NewContext(h).assignments = {}
    BY DEF NewContext, HandlerContext
  <1>3. /\ DOMAIN heap2 = 1..(Len(heap) + 1) /\ heap2[Len(heap) + 1] = NewContext(h)
        /\ \A i \in 1..Len(heap) : heap2[i] = heap[i]
    <2>1. /\ heap2 \in Seq(HandlerContext(m)) /\ Len(heap2) = Len(heap) + 1
          /\ heap2[Len(heap) + 1] = NewContext(h)
          /\ \A i \in 1..Len(heap) : heap2[i] = heap[i]
      BY <1>2, AppendProperties DEF Heap
    <2>2. QED
      BY <2>1, LenProperties
  <1>4. ASSUME NEW e \in DOMAIN heap2, NEW i \in DOMAIN heap2[e].assignments
        PROVE  e \in DOMAIN heap /\ heap2[e] = heap[e]
    BY <1>1, <1>2, <1>3
  <1>5. HeapApart(heap2)
    BY <1>4 DEF HeapApart
  <1>6. ASSUME NEW x, InHeap(heap2, x) PROVE InHeap(heap, x)
    BY <1>4, <1>6 DEF InHeap
  <1>7. QED
    BY <1>5, <1>6

(* The assignments of e are moved behind those of d.                       *)
Moved(heap, moved, d, e) ==
    /\ HeapApart(moved)
    /\ \A x : InHeap(moved, x) => InHeap(heap, x)
    /\ DOMAIN moved = DOMAIN heap
    /\ moved[d] = [heap[d] EXCEPT !.assignments = @ \o heap[e].assignments]
    /\ moved[e] = [heap[e] EXCEPT !.assignments = <<>>]
    /\ \A f \in DOMAIN heap : f # d /\ f # e => moved[f] = heap[f]

(* merge() then recycle(): every child keeps the one assignment it has.    *)
LEMMA MovedApart ==
    ASSUME NEW m \in Nat, NEW heap \in Heap(m), NEW d \in DOMAIN heap, NEW e \in DOMAIN heap,
           d # e, HeapApart(heap)
    PROVE  Moved(heap, Cleared(Merged(heap, d, e), e), d, e)
  <1> DEFINE s == heap[d].assignments
             r == heap[e].assignments
             merged == Merged(heap, d, e)
             moved == Cleared(merged, e)
  <1>1. /\ s \in Seq(Assignment(m)) /\ Len(s) \in Nat /\ DOMAIN s = 1..Len(s)
        /\ r \in Seq(Assignment(m)) /\ Len(r) \in Nat /\ DOMAIN r = 1..Len(r)
        /\ heap[d] \in HandlerContext(m) /\ heap[e] \in HandlerContext(m)
    BY HeapAt
  <1>2. /\ DOMAIN moved = DOMAIN heap
        /\ moved[d] = [heap[d] EXCEPT !.assignments = s \o r]
        /\ moved[e] = [heap[e] EXCEPT !.assignments = <<>>]
        /\ \A f \in DOMAIN heap : f # d /\ f # e => moved[f] = heap[f]
    BY DEF Merged, Cleared
  <1>3. moved[d].assignments = s \o r /\ moved[e].assignments = <<>>
    BY <1>1, <1>2 DEF HandlerContext
  <1>a. s = heap[d].assignments /\ r = heap[e].assignments
    OBVIOUS
  <1> HIDE DEF s, r, moved
  <1>4. /\ DOMAIN (s \o r) = 1..(Len(s) + Len(r))
        /\ \A i \in 1..(Len(s) + Len(r)) : (s \o r)[i] = IF i <= Len(s) THEN s[i] ELSE r[i - Len(s)]
    <2>1. /\ s \o r \in Seq(Assignment(m)) /\ Len(s \o r) = Len(s) + Len(r)
          /\ \A i \in 1..(Len(s) + Len(r)) :
                (s \o r)[i] = IF i <= Len(s) THEN s[i] ELSE r[i - Len(s)]
      BY <1>1, ConcatProperties
    <2>2. QED
      BY <2>1, LenProperties
  <1> DEFINE Before(f, i, g, j) ==
                /\ g \in DOMAIN heap /\ j \in DOMAIN heap[g].assignments
                /\ moved[f].assignments[i].child = heap[g].assignments[j].child
                /\ \/ f # d /\ g = f /\ g # e /\ j = i
                   \/ f = d /\ g = d /\ j = i /\ i <= Len(s)
                   \/ f = d /\ g = e /\ j = i - Len(s) /\ i > Len(s)
  <1>5. ASSUME NEW f \in DOMAIN moved, NEW i \in DOMAIN moved[f].assignments
        PROVE  f \in DOMAIN heap /\ \E g, j : Before(f, i, g, j)
    <2>1. CASE f = d
      <3>1. i \in 1..(Len(s) + Len(r)) /\ moved[f].assignments = s \o r
        BY <1>3, <1>4, <2>1
      <3>2. moved[f].assignments[i] = IF i <= Len(s) THEN s[i] ELSE r[i - Len(s)]
        BY <1>4, <3>1
      <3>3. CASE i <= Len(s)
        <4>1. i \in DOMAIN heap[d].assignments
          BY <1>1, <1>a, <3>1, <3>3
        <4>2. moved[f].assignments[i].child = heap[d].assignments[i].child
          BY <1>a, <3>2, <3>3
        <4>3. Before(f, i, d, i)
          BY <2>1, <3>3, <4>1, <4>2
        <4>4. QED
          BY <1>2, <2>1, <4>3
      <3>4. CASE ~(i <= Len(s))
        <4>1. i - Len(s) \in DOMAIN r /\ i > Len(s)
          BY <1>1, <3>1, <3>4
        <4>2. moved[f].assignments[i].child = heap[e].assignments[i - Len(s)].child
          BY <1>a, <3>2, <3>4
        <4>3. Before(f, i, e, i - Len(s))
          BY <1>a, <2>1, <4>1, <4>2
        <4>4. QED
          BY <1>2, <2>1, <4>3
      <3>5. QED
        BY <3>3, <3>4
    <2>2. CASE f = e
      BY <1>3, <2>2
    <2>3. CASE f # d /\ f # e
      <3>1. moved[f] = heap[f] /\ f \in DOMAIN heap
        BY <1>2, <2>3
      <3>2. Before(f, i, f, i)
        BY <2>3, <3>1
      <3>3. QED
        BY <3>1, <3>2
    <2>4. QED
      BY <2>1, <2>2, <2>3
  <1>6. ASSUME NEW f \in DOMAIN moved, NEW i \in DOMAIN moved[f].assignments,
               NEW f2 \in DOMAIN moved, NEW i2 \in DOMAIN moved[f2].assignments,
               moved[f].assignments[i].child # None,
               moved[f].assignments[i].child = moved[f2].assignments[i2].child
        PROVE  f = f2 /\ i = i2
    <2>1. PICK g, j : Before(f, i, g, j)
      BY <1>5
    <2>2. PICK g2, j2 : Before(f2, i2, g2, j2)
      BY <1>5
    <2>3. g = g2 /\ j = j2
      <3>1. /\ heap[g].assignments[j].child # None
            /\ heap[g].assignments[j].child = heap[g2].assignments[j2].child
        BY <1>6, <2>1, <2>2
      <3>2. QED
        BY <2>1, <2>2, <3>1 DEF HeapApart
    <2>4. f = d => i \in Int
      BY <1>1, <1>3, <1>4
    <2>5. f2 = d => i2 \in Int
      BY <1>1, <1>3, <1>4
    <2>6. QED
      BY <1>1, <2>1, <2>2, <2>3, <2>4, <2>5
  <1>7. ASSUME NEW x, InHeap(moved, x) PROVE InHeap(heap, x)
    <2>1. PICK f \in DOMAIN moved : \E i \in DOMAIN moved[f].assignments :
                  moved[f].assignments[i].child = x
      BY <1>7 DEF InHeap
    <2>2. PICK i \in DOMAIN moved[f].assignments : moved[f].assignments[i].child = x
      BY <2>1
    <2>3. PICK g, j : Before(f, i, g, j)
      BY <1>5
    <2>4. QED
      BY <2>2, <2>3 DEF InHeap
  <1>8. HeapApart(moved)
    BY <1>6 DEF HeapApart
  <1>9. QED
    BY <1>2, <1>7, <1>8 DEF Moved, moved, s, r

----------------------------------------------------------------------------
(* The cached contexts are as createContext() makes them.                  *)
Clean(heap, cch) == \A h \in Handled : cch[h] # None => heap[cch[h]] = NewContext(h)

(* The second part of the inductive invariant: no context is held twice,   *)
(* the cached ones are clean.                                              *)
HoldersInv == Apart(handlerStack, root, contexts, cached) /\ Clean(contexts, cached)

(* The types of the places, and that they hold existing contexts.          *)
LEMMA HeldTyped ==
    ASSUME NEW n \in Nat, TypedWith(n)
    PROVE  /\ handlerStack \in Stacks /\ root \in Roots /\ cached \in Caches
           /\ contexts \in Heap(n) /\ DOMAIN contexts = 1..n /\ Len(contexts) = n
           /\ \A c : InStacks(handlerStack, c) \/ InHeap(contexts, c) => c \in Pointer(n)
           /\ \A c : InRoots(root, c) \/ InCaches(cached, c) => c \in Pointer(n)
           /\ \A t \in Thread : handlerStack[t] \in Seq(1..n)
  <1>1. /\ handlerStack \in [Thread -> Seq(1..n)]
        /\ root \in [Thread -> Pointer(n)]
        /\ contexts \in Seq(HandlerContext(n)) /\ Len(contexts) = n
        /\ cached \in [Handled -> Pointer(n)]
    BY DEF TypedWith, HeapOf
  <1>2. 1..n \subseteq Nat /\ Pointer(n) \subseteq Nat /\ 1..n \subseteq Pointer(n)
    BY DEF Pointer
  <1>3. Seq(1..n) \subseteq Seq(Nat)
    BY <1>2, SeqMonotonic
  <1>4. handlerStack \in Stacks /\ root \in Roots /\ cached \in Caches /\ contexts \in Heap(n)
    BY <1>1, <1>2, <1>3 DEF Stacks, Roots, Caches, Heap
  <1>5. DOMAIN contexts = 1..n
    BY <1>1, LenProperties
  <1>6. ASSUME NEW c, InStacks(handlerStack, c) PROVE c \in Pointer(n)
    <2>1. PICK t \in Thread : \E i \in DOMAIN handlerStack[t] : handlerStack[t][i] = c
      BY <1>6 DEF InStacks
    <2>2. handlerStack[t] \in Seq(1..n)
      BY <1>1
    <2>3. \A i \in DOMAIN handlerStack[t] : handlerStack[t][i] \in 1..n
      BY <2>2, ElementOfSeq, LenProperties
    <2>4. QED
      BY <1>2, <2>1, <2>3
  <1>7. ASSUME NEW c, InHeap(contexts, c) PROVE c \in Pointer(n)
    <2>1. PICK d \in DOMAIN contexts : \E i \in DOMAIN contexts[d].assignments :
             contexts[d].assignments[i].child = c
      BY <1>7 DEF InHeap
    <2>2. \A i \in DOMAIN contexts[d].assignments : contexts[d].assignments[i] \in Assignment(n)
      BY <1>4, HeapAt
    <2>3. QED
      BY <2>1, <2>2 DEF Assignment
  <1>8. \A c : InRoots(root, c) \/ InCaches(cached, c) => c \in Pointer(n)
    BY <1>1 DEF InRoots, InCaches
  <1>9. QED
    BY <1>1, <1>4, <1>5, <1>6, <1>7, <1>8

(* Where every place but one keeps what it held.                           *)
LEMMA KindsKept ==
    ASSUME NEW hs, NEW rt, NEW heap, NEW cch, KindsApart(hs, rt, heap, cch),
           NEW hs2, NEW rt2, NEW heap2, NEW cch2, NEW c,
           c = None \/ OneKind(hs2, rt2, heap2, cch2, c),
           \A x : x # c => (InStacks(hs2, x) => InStacks(hs, x)),
           \A x : x # c => (InRoots(rt2, x) => InRoots(rt, x)),
           \A x : x # c => (InHeap(heap2, x) => InHeap(heap, x)),
           \A x : x # c => (InCaches(cch2, x) => InCaches(cch, x))
    PROVE  KindsApart(hs2, rt2, heap2, cch2)
  <1>1. SUFFICES ASSUME NEW x, x # None PROVE OneKind(hs2, rt2, heap2, cch2, x)
    BY DEF KindsApart
  <1>2. CASE x = c
    BY <1>1, <1>2
  <1>3. CASE x # c
    <2>1. OneKind(hs, rt, heap, cch, x)
      BY <1>1 DEF KindsApart
    <2>2. /\ InStacks(hs2, x) => InStacks(hs, x)
          /\ InRoots(rt2, x) => InRoots(rt, x)
          /\ InHeap(heap2, x) => InHeap(heap, x)
          /\ InCaches(cch2, x) => InCaches(cch, x)
      BY <1>3
    <2>3. QED
      BY <2>1, <2>2 DEF OneKind
  <1>4. QED
    BY <1>2, <1>3

(* createContext() hands out a clean context that nothing holds.           *)
LEMMA CreateApart ==
    ASSUME NEW n \in Nat, TypedWith(n), HoldersInv, NEW t, NEW h \in Handled,
           NEW c \in 1..(Len(contexts) + 1), CreateContext(t, h, c)
    PROVE  /\ Apart(handlerStack, root, contexts', cached')
           /\ Clean(contexts', cached')
           /\ Unheld(handlerStack, root, contexts', cached', c)
           /\ contexts'[c] = NewContext(h)
           /\ \A d \in 1..n : contexts'[d] = contexts[d]
  <1>1. /\ handlerStack \in Stacks /\ root \in Roots /\ cached \in Caches
        /\ contexts \in Heap(n) /\ DOMAIN contexts = 1..n /\ Len(contexts) = n
        /\ \A x : InStacks(handlerStack, x) \/ InHeap(contexts, x) => x \in Pointer(n)
        /\ \A x : InRoots(root, x) \/ InCaches(cached, x) => x \in Pointer(n)
    BY HeldTyped
  <1>2. /\ StacksApart(handlerStack) /\ RootsApart(root) /\ HeapApart(contexts)
        /\ CachesApart(cached) /\ KindsApart(handlerStack, root, contexts, cached)
        /\ Clean(contexts, cached)
    BY DEF HoldersInv, Apart
  <1>3. CASE /\ cached[h] # None /\ c = cached[h] /\ contexts' = contexts
             /\ cached' = [cached EXCEPT ![h] = None]
    <2>1. /\ CachesApart(cached') /\ ~InCaches(cached', c)
          /\ \A x : InCaches(cached', x) => InCaches(cached, x) \/ x = None
      <3>1. None \in Nat
        BY DEF None
      <3>2. QED
        BY <1>1, <1>2, <1>3, <3>1, CacheSetApart
    <2>2. KindsApart(handlerStack, root, contexts', cached')
      BY <1>2, <1>3, <2>1 DEF KindsApart, OneKind
    <2>3. InCaches(cached, c) /\ c # None
      BY <1>3 DEF InCaches
    <2>4. Unheld(handlerStack, root, contexts', cached', c)
      BY <1>2, <1>3, <2>1, <2>3 DEF KindsApart, OneKind, Unheld
    <2>5. contexts'[c] = NewContext(h) /\ Clean(contexts', cached')
      <3>1. contexts'[c] = NewContext(h)
        BY <1>2, <1>3 DEF Clean
      <3>2. ASSUME NEW g \in Handled, cached'[g] # None
            PROVE contexts'[cached'[g]] = NewContext(g)
        <4>1. cached'[g] = cached[g]
          BY <1>1, <1>3, <3>2 DEF Caches
        <4>2. QED
          BY <1>2, <1>3, <3>2, <4>1 DEF Clean
      <3>3. QED
        BY <3>1, <3>2 DEF Clean
    <2>6. QED
      BY <1>2, <1>3, <2>1, <2>2, <2>4, <2>5 DEF Apart
  <1>4. CASE /\ c = Len(contexts) + 1 /\ contexts' = Append(contexts, NewContext(h))
             /\ cached' = cached
    <2>1. HeapApart(contexts') /\ \A x : InHeap(contexts', x) => InHeap(contexts, x)
      BY <1>1, <1>2, <1>4, CreatedApart
    <2>2. KindsApart(handlerStack, root, contexts', cached')
      BY <1>2, <1>4, <2>1 DEF KindsApart, OneKind
    <2>3. c \notin Pointer(n)
      BY <1>1, <1>4 DEF Pointer
    <2>4. Unheld(handlerStack, root, contexts', cached', c)
      BY <1>1, <1>4, <2>1, <2>3 DEF Unheld
    <2>5. contexts'[c] = NewContext(h) /\ \A d \in 1..n : contexts'[d] = contexts[d]
      <3>1. contexts \in Seq(HandlerContext(n)) /\ NewContext(h) \in HandlerContext(n)
        BY <1>1, EmptySeq DEF Heap, NewContext, HandlerContext
      <3>2. QED
        BY <1>1, <1>4, <3>1, AppendProperties
    <2>6. Clean(contexts', cached')
      <3>1. ASSUME NEW g \in Handled, cached'[g] # None
            PROVE contexts'[cached'[g]] = NewContext(g)
        <4>1. cached[g] \in Pointer(n) /\ cached[g] # None
          BY <1>1, <1>4, <3>1 DEF InCaches
        <4>2. cached[g] \in 1..n
          BY <4>1 DEF Pointer, None
        <4>3. QED
          BY <1>2, <1>4, <2>5, <4>1, <4>2 DEF Clean
      <3>2. QED
        BY <3>1 DEF Clean
    <2>7. QED
      BY <1>2, <1>4, <2>1, <2>2, <2>4, <2>5, <2>6 DEF Apart
  <1>5. QED
    BY <1>3, <1>4 DEF CreateContext, heapVars

(* A context that nothing holds is pushed on a stack.                      *)
LEMMA PushApart ==
    ASSUME NEW hs \in Stacks, NEW rt, NEW heap, NEW cch, Apart(hs, rt, heap, cch),
           NEW t \in Thread, NEW c \in Nat, Unheld(hs, rt, heap, cch, c),
           NEW hs2, hs2[t] = Append(hs[t], c), \A u \in Thread : u # t => hs2[u] = hs[u]
    PROVE  Apart(hs2, rt, heap, cch)
  <1>1. StacksApart(hs2) /\ \A x : InStacks(hs2, x) => InStacks(hs, x) \/ x = c
    <2>1. StacksApart(hs) /\ ~InStacks(hs, c)
      BY DEF Apart, Unheld
    <2>2. QED
      BY <2>1, PushedApart
  <1>2. OneKind(hs2, rt, heap, cch, c)
    BY DEF OneKind, Unheld
  <1>3. KindsApart(hs2, rt, heap, cch)
    BY <1>1, <1>2, KindsKept DEF Apart
  <1>4. QED
    BY <1>1, <1>3 DEF Apart

(* recycle(): a cleared context that nothing holds goes to its cache.      *)
LEMMA ReleaseApart ==
    ASSUME NEW hs, NEW rt, NEW heap, NEW cch \in Caches, Apart(hs, rt, heap, cch),
           Clean(heap, cch), NEW c \in Nat, Unheld(hs, rt, heap, cch, c),
           NEW h \in Handled, heap[c] = NewContext(h),
           NEW cch2, cch2 = cch \/ cch2 = [cch EXCEPT ![h] = c]
    PROVE  Apart(hs, rt, heap, cch2) /\ Clean(heap, cch2)
  <1>1. CASE cch2 = cch
    BY <1>1
  <1>2. CASE cch2 = [cch EXCEPT ![h] = c]
    <2>1. CachesApart(cch2) /\ \A x : InCaches(cch2, x) => InCaches(cch, x) \/ x = c
      BY <1>2, CacheSetApart DEF Apart, Unheld
    <2>2. OneKind(hs, rt, heap, cch2, c)
      BY DEF OneKind, Unheld
    <2>3. KindsApart(hs, rt, heap, cch2)
      BY <2>1, <2>2, KindsKept DEF Apart
    <2>4. Clean(heap, cch2)
      BY <1>2 DEF Clean, Caches
    <2>5. QED
      BY <2>1, <2>3, <2>4 DEF Apart
  <1>3. QED
    BY <1>1, <1>2

----------------------------------------------------------------------------
(* Where _removeBranch() finds the branch of the innermost activation: at  *)
(* the end of the stack, or just below the best branch.                    *)
LEMMA RemoveLast ==
    ASSUME NEW X, NEW s \in Seq(X), NEW c \in X
    PROVE  /\ RemoveFromStack(Append(s, c), c) = s
           /\ Len(s) + 1 \in DOMAIN Append(s, c) /\ Append(s, c)[Len(s) + 1] = c
  <1> DEFINE w == Append(s, c)
             n == Len(s)
  <1>1. /\ w \in Seq(X) /\ Len(w) = n + 1 /\ n \in Nat /\ w[n + 1] = c
        /\ \A i \in 1..n : w[i] = s[i]
    BY AppendProperties, LenProperties
  <1> HIDE DEF w, n
  <1>2. DOMAIN w = 1..(n + 1)
    BY <1>1, LenProperties
  <1>3. IsLastPlace(w, c, n + 1) /\ \A i \in DOMAIN w : IsLastPlace(w, c, i) => i = n + 1
    BY <1>1, <1>2 DEF IsLastPlace
  <1>4. n + 1 \in DOMAIN w
    BY <1>1, <1>2
  <1>5. (CHOOSE i \in DOMAIN w : IsLastPlace(w, c, i)) = n + 1
    BY <1>3, <1>4
  <1>6. RemoveFromStack(w, c) = RemoveAt(w, n + 1)
    BY <1>3, <1>4, <1>5 DEF RemoveFromStack
  <1>7. RemoveAt(w, n + 1) = s
    <2>1. RemoveAt(w, n + 1) = SubSeq(w, 1, (n + 1) - 1) \o SubSeq(w, (n + 1) + 1, Len(w))
      BY DEF RemoveAt
    <2>2. (n + 1) - 1 = n /\ (n + 1) + 1 > Len(w)
      BY <1>1
    <2>3. SubSeq(w, (n + 1) + 1, Len(w)) = <<>>
      BY <1>1, <2>2, SubSeqEmpty
    <2>4. SubSeq(w, 1, n) = s
      <3>1. \A i \in 1..n : w[i] \in X
        BY <1>1, ElementOfSeq
      <3>2. /\ SubSeq(w, 1, n) \in Seq(X)
            /\ Len(SubSeq(w, 1, n)) = n
            /\ \A i \in 1..n : SubSeq(w, 1, n)[i] = w[i]
        BY <1>1, <3>1, SubSeqProperties
      <3>3. Len(s) = n
        BY DEF n
      <3>4. QED
        BY <1>1, <3>2, <3>3, SeqEqual
    <2>5. QED
      BY <2>1, <2>2, <2>3, <2>4, ConcatEmptySeq
  <1>8. QED
    BY <1>1, <1>4, <1>6, <1>7 DEF w, n

(* _removeBranch() of the context below the last one.                      *)
LEMMA RemoveBelowLast ==
    ASSUME NEW X, NEW s \in Seq(X), NEW c \in X, NEW d \in X, c # d
    PROVE  RemoveFromStack(Append(Append(s, c), d), c) = Append(s, d)
  <1> DEFINE v == Append(s, c)
             w == Append(v, d)
             n == Len(s)
             u == Append(s, d)
             x == RemoveAt(w, n + 1)
  <1>1. /\ v \in Seq(X) /\ Len(v) = n + 1 /\ n \in Nat /\ v[n + 1] = c
        /\ \A i \in 1..n : v[i] = s[i]
    BY AppendProperties, LenProperties
  <1>0. /\ u \in Seq(X) /\ Len(u) = n + 1 /\ u[n + 1] = d
        /\ \A i \in 1..n : u[i] = s[i]
    BY AppendProperties
  <1>2. /\ w \in Seq(X) /\ Len(w) = n + 2 /\ w[n + 2] = d /\ w[n + 1] = c
        /\ \A i \in 1..n : w[i] = s[i]
    <2> HIDE DEF v, n
    <2>1. /\ w \in Seq(X) /\ Len(w) = Len(v) + 1 /\ w[Len(v) + 1] = d
          /\ \A i \in 1..Len(v) : w[i] = v[i]
      BY <1>1, AppendProperties
    <2>2. Len(v) + 1 = n + 2 /\ n + 1 \in 1..Len(v) /\ \A i \in 1..n : i \in 1..Len(v)
      BY <1>1
    <2> HIDE DEF w
    <2>3. w[n + 1] = v[n + 1]
      BY <2>1, <2>2
    <2>4. QED
      BY <1>1, <2>1, <2>2, <2>3
  <1> HIDE DEF v, w, n, u, x
  <1>3. DOMAIN w = 1..(n + 2)
    BY <1>2, LenProperties
  <1>4. IsLastPlace(w, c, n + 1) /\ \A i \in DOMAIN w : IsLastPlace(w, c, i) => i = n + 1
    BY <1>1, <1>2, <1>3 DEF IsLastPlace
  <1>5. n + 1 \in DOMAIN w
    BY <1>1, <1>3
  <1>6. (CHOOSE i \in DOMAIN w : IsLastPlace(w, c, i)) = n + 1
    BY <1>4, <1>5
  <1>7. RemoveFromStack(w, c) = x
    BY <1>4, <1>5, <1>6 DEF RemoveFromStack, x
  <1>8. x = u
    <2> DEFINE p == SubSeq(w, 1, n)
               q == SubSeq(w, n + 2, n + 2)
    <2>1. x = SubSeq(w, 1, (n + 1) - 1) \o SubSeq(w, (n + 1) + 1, Len(w))
      BY DEF RemoveAt, x
    <2>2. (n + 1) - 1 = n /\ (n + 1) + 1 = n + 2
      BY <1>1
    <2>3. x = p \o q
      BY <1>2, <2>1, <2>2
    <2>4. \A i \in 1..(n + 2) : w[i] \in X
      BY <1>2, ElementOfSeq
    <2>5. /\ p \in Seq(X) /\ Len(p) = n
          /\ \A i \in 1..n : p[i] = w[i]
      BY <1>1, <1>2, <2>4, SubSeqProperties
    <2>6. q \in Seq(X) /\ Len(q) = 1 /\ q[1] = w[n + 2]
      <3> DEFINE m == n + 2
      <3>1. m \in Nat /\ m <= Len(w) /\ m >= 1 /\ \A i \in m..m : w[i] \in X
        BY <1>1, <1>2, <2>4
      <3> HIDE DEF m
      <3>2. /\ SubSeq(w, m, m) \in Seq(X)
            /\ Len(SubSeq(w, m, m)) = IF m <= m THEN m - m + 1 ELSE 0
            /\ \A i \in 1..(m - m + 1) : SubSeq(w, m, m)[i] = w[m + i - 1]
        BY <3>1, SubSeqProperties
      <3>3. m - m + 1 = 1 /\ m + 1 - 1 = m
        BY <3>1
      <3>4. Len(SubSeq(w, m, m)) = 1 /\ SubSeq(w, m, m)[1] = w[m]
        BY <3>1, <3>2, <3>3
      <3>5. QED
        BY <3>2, <3>4 DEF m
    <2> HIDE DEF p, q
    <2>7. /\ x \in Seq(X) /\ Len(x) = n + 1
          /\ \A i \in 1..(n + 1) : x[i] = IF i <= n THEN p[i] ELSE q[i - n]
      <3>1. /\ p \o q \in Seq(X) /\ Len(p \o q) = Len(p) + Len(q)
            /\ \A i \in 1..(Len(p) + Len(q)) :
                  (p \o q)[i] = IF i <= Len(p) THEN p[i] ELSE q[i - Len(p)]
        BY <2>5, <2>6, ConcatProperties
      <3>2. QED
        BY <1>1, <2>3, <2>5, <2>6, <3>1
    <2>8. ASSUME NEW i \in 1..(n + 1) PROVE x[i] = u[i]
      <3>1. CASE i <= n
        BY <1>0, <1>1, <1>2, <2>5, <2>7, <3>1
      <3>2. CASE ~(i <= n)
        <4>1. i = n + 1 /\ i - n = 1
          BY <1>1, <3>2
        <4>2. QED
          BY <1>0, <1>2, <2>6, <2>7, <3>2, <4>1
      <3>3. QED
        BY <3>1, <3>2
    <2>9. QED
      BY <1>0, <2>7, <2>8, SeqEqual
  <1>9. QED
    BY <1>2, <1>5, <1>7, <1>8 DEF v, w, n, u

(* Append is a concatenation.                                              *)
LEMMA AppendConcat ==
    ASSUME NEW X, NEW s \in Seq(X), NEW c \in X
    PROVE  Append(s, c) = s \o <<c>> /\ s \o <<>> = s
  BY ConcatEmptySeq

(* Popping and clearing the last of a stack.                               *)
LEMMA PopApart ==
    ASSUME NEW n \in Nat, NEW hs \in [Thread -> Seq(1..n)], NEW t \in Thread,
           NEW s \in Seq(1..n), NEW c \in 1..n, hs[t] = Append(s, c), StacksApart(hs),
           NEW hs2, Restacked(hs, hs2, t, s)
    PROVE  TakenOff(hs, hs2, c)
  <1>1. hs \in Stacks /\ s \in Seq(Nat)
    <2>1. Seq(1..n) \subseteq Seq(Nat)
      BY SeqMonotonic
    <2>2. QED
      BY <2>1 DEF Stacks
  <1> DEFINE w == Append(s, c)
             k == Len(s) + 1
  <1>2. /\ Len(w) = Len(s) + 1 /\ Len(s) \in Nat /\ w[k] = c
        /\ \A i \in 1..Len(s) : w[i] = s[i]
        /\ DOMAIN w = 1..(Len(s) + 1)
    BY AppendProperties, LenProperties
  <1>3. hs[t] = w
    OBVIOUS
  <1> HIDE DEF w
  <1>4. /\ k \in 1..Len(hs[t]) /\ Len(s) = Len(hs[t]) - 1 /\ hs[t][k] = c
        /\ k \in DOMAIN hs[t]
    BY <1>2, <1>3
  <1>5. \A i \in 1..Len(s) : s[i] = IF i < k THEN hs[t][i] ELSE hs[t][i + 1]
    BY <1>2, <1>3
  <1> HIDE DEF k
  <1>6. TakenOff(hs, hs2, hs[t][k])
    BY <1>1, <1>4, <1>5, RemovedApart
  <1>7. QED
    BY <1>4, <1>6

----------------------------------------------------------------------------
(* A stack with one more context on it, if it is one.                      *)
Onto(s, c) == IF c = None THEN s ELSE Append(s, c)

(* Onto() pushes what Pushed() names.                                      *)
LEMMA OntoTyped ==
    ASSUME NEW n \in Nat, NEW s \in Seq(1..n), NEW c \in Pointer(n)
    PROVE  /\ Onto(s, c) \in Seq(1..n)
           /\ s \o Pushed(c) = Onto(s, c)
           /\ Pushed(c) \in Seq(1..n)
  <1>1. CASE c = None
    BY <1>1, AppendConcat, EmptySeq, ConcatEmptySeq DEF Onto, Pushed
  <1>2. CASE c # None
    <2>1. c \in 1..n
      BY <1>2 DEF Pointer, None
    <2>2. Append(s, c) = s \o <<c>> /\ <<c>> \in Seq(1..n)
      BY <2>1, AppendConcat
    <2>3. QED
      BY <1>2, <2>1, <2>2, AppendTyped DEF Onto, Pushed
  <1>3. QED
    BY <1>1, <1>2

(* An activation has pushed its element, its best branch and its branch,   *)
(* in that order.                                                          *)
LEMMA OpenedOnto ==
    ASSUME NEW n \in Nat, NEW s \in Seq(1..n), NEW f \in Frame(n)
    PROVE  s \o Opened(f) = Onto(Onto(Onto(s, f.context), f.bestBranch), f.branch)
  <1> DEFINE X == 1..n
             p == Pushed(f.context)
             q == Pushed(f.bestBranch)
             r == Pushed(f.branch)
  <1>1. f.context \in Pointer(n) /\ f.bestBranch \in Pointer(n) /\ f.branch \in Pointer(n)
    BY DEF Frame
  <1>2. p \in Seq(X) /\ q \in Seq(X) /\ r \in Seq(X) /\ s \in Seq(X)
    BY <1>1, OntoTyped
  <1>3. Onto(s, f.context) = s \o p /\ Onto(s, f.context) \in Seq(X)
    BY <1>1, OntoTyped
  <1>4. /\ Onto(Onto(s, f.context), f.bestBranch) = (s \o p) \o q
        /\ Onto(Onto(s, f.context), f.bestBranch) \in Seq(X)
    BY <1>1, <1>3, OntoTyped
  <1>5. Onto(Onto(Onto(s, f.context), f.bestBranch), f.branch) = ((s \o p) \o q) \o r
    BY <1>1, <1>4, OntoTyped
  <1>6. Opened(f) = (p \o q) \o r
    BY DEF Opened
  <1> HIDE DEF X, p, q, r
  <1>7. p \o q \in Seq(X) /\ s \o p \in Seq(X)
    BY <1>2, ConcatProperties
  <1>8. (s \o p) \o q = s \o (p \o q)
    BY <1>2, ConcatAssociative
  <1>9. (s \o (p \o q)) \o r = s \o ((p \o q) \o r)
    <2> DEFINE w == p \o q
    <2>1. w \in Seq(X)
      BY <1>7
    <2> HIDE DEF w
    <2>2. \A x, y : x = s \o w /\ y = x \o r => y = s \o (w \o r)
      BY <1>2, <2>1, ConcatThrice
    <2>3. QED
      BY <2>2 DEF w
  <1>10. QED
    BY <1>5, <1>6, <1>8, <1>9

(* A thread that has its element is not without one to assign to.          *)
LEMMA StackNotEmpty ==
    ASSUME NEW n \in Nat, NEW F \in Seq(Frame(n)), F # <<>>, NEW st, NEW S,
           GoodThread(st, F, S), Last(F).phase # "begin" \/ Last(F).rec \notin Handled
    PROVE  /\ S \in Seq(1..n) /\ S # <<>>
           /\ Last(F).context = None => OpenedBy(Front(F)) # <<>>
  <1> DEFINE P == Front(F)
             f == Last(F)
  <1>1. /\ Waiting(P) /\ GoodFrame(f) /\ (P = <<>> => f.rec \in Handled)
        /\ P \in Seq(Frame(n)) /\ f \in Frame(n)
        /\ OpenedBy(P) \in Seq(1..n) /\ Opened(f) \in Seq(1..n)
        /\ S = OpenedBy(P) \o Opened(f)
    BY SplitThread
  <1>2. f.phase # "begin" \/ f.rec \notin Handled
    OBVIOUS
  <1> HIDE DEF P, f
  <1>3. S \in Seq(1..n) /\ (S = <<>> <=> OpenedBy(P) = <<>> /\ Opened(f) = <<>>)
    BY <1>1, ConcatProperties, ConcatEqualIffEmpty
  <1>4. CASE P = <<>>
    <2>1. f.context # None
      BY <1>1, <1>2, <1>4 DEF GoodFrame
    <2>2. Opened(f) # <<>>
      BY <1>1, <2>1, OpenedTyped
    <2>3. QED
      BY <1>3, <2>1, <2>2 DEF P, f
  <1>5. CASE P # <<>>
    <2>1. P[1].context # None
      <3>1. 1 \in DOMAIN P
        BY <1>1, <1>5, LenProperties, EmptySeq
      <3>2. GoodFrame(P[1]) /\ P[1].phase = "fed" /\ P[1].rec \in Handled
        BY <1>1, <1>5, <3>1 DEF Waiting
      <3>3. QED
        BY <3>2 DEF GoodFrame
    <2>2. OpenedBy(P) # <<>>
      BY <1>1, <1>5, <2>1, OpenedByFirst
    <2>3. QED
      BY <1>3, <2>2 DEF P, f
  <1>6. QED
    BY <1>4, <1>5

(* A step of one thread.                                                   *)
OthersKept(t) ==
    \A u \in Thread : u # t =>
        /\ status'[u] = status[u]
        /\ frames'[u] = frames[u]
        /\ handlerStack'[u] = handlerStack[u]

(* A step of one thread leaves the others good.                            *)
LEMMA ThreadStep ==
    ASSUME ThreadsInv, NEW t \in Thread, OthersKept(t),
           GoodThread(status'[t], frames'[t], handlerStack'[t])
    PROVE  ThreadsInv'
  BY DEF ThreadsInv, OthersKept

(* The innermost activation of a thread, and the stack below it.           *)
LEMMA TopThread ==
    ASSUME NEW n \in Nat, TypedWith(n), ThreadsInv, NEW t \in Thread, NEW phase, InPhase(t, phase)
    PROVE  /\ frames[t] \in Seq(Frame(n)) /\ frames[t] # <<>> /\ Top(t).phase = phase
           /\ status[t] = "parsing" /\ Waiting(Front(frames[t])) /\ GoodFrame(Top(t))
           /\ Front(frames[t]) = <<>> => Top(t).rec \in Handled
           /\ Front(frames[t]) \in Seq(Frame(n)) /\ Top(t) \in Frame(n)
           /\ OpenedBy(Front(frames[t])) \in Seq(1..n)
           /\ handlerStack[t] = OpenedBy(Front(frames[t])) \o Opened(Top(t))
           /\ handlerStack[t] \in Seq(1..n)
           /\ phase # "begin" \/ Top(t).rec \notin Handled =>
                 /\ handlerStack[t] # <<>>
                 /\ Top(t).context = None => OpenedBy(Front(frames[t])) # <<>>
  <1> DEFINE F == frames[t]
             st == status[t]
             S == handlerStack[t]
  <1>1. F \in Seq(Frame(n)) /\ F # <<>> /\ Last(F).phase = phase
        /\ Top(t) = Last(F) /\ S \in Seq(1..n)
    BY DEF TypedWith, FramesOf, InPhase, Top
  <1>2. GoodThread(st, F, S)
    BY DEF ThreadsInv
  <1> HIDE DEF F, st, S
  <1>3. /\ st = "parsing" /\ Waiting(Front(F)) /\ GoodFrame(Last(F))
        /\ Front(F) = <<>> => Last(F).rec \in Handled
        /\ Front(F) \in Seq(Frame(n)) /\ Last(F) \in Frame(n)
        /\ OpenedBy(Front(F)) \in Seq(1..n) /\ Opened(Last(F)) \in Seq(1..n)
        /\ S = OpenedBy(Front(F)) \o Opened(Last(F))
    BY <1>1, <1>2, SplitThread
  <1>4. phase # "begin" \/ Last(F).rec \notin Handled =>
           /\ S # <<>>
           /\ Last(F).context = None => OpenedBy(Front(F)) # <<>>
    BY <1>1, <1>2, StackNotEmpty
  <1>5. QED
    BY <1>1, <1>3, <1>4 DEF F, st, S

(* Two activations of the same recognizer that hold the same contexts.     *)
HoldsAs(f, g) ==
    /\ g.rec = f.rec
    /\ g.context = f.context
    /\ g.bestBranch = f.bestBranch
    /\ g.branch = f.branch

(* The innermost activation goes on, with the stack it must then have.     *)
LEMMA BecomeThread ==
    ASSUME NEW n \in Nat, TypedWith(n), ThreadsInv, NEW t \in Thread,
           NEW phase, InPhase(t, phase), NEW m \in Nat, n <= m, NEW g \in Frame(m),
           Become(t, g), GoodFrame(g), g.rec = Top(t).rec,
           handlerStack'[t] = OpenedBy(Front(frames[t])) \o Opened(g),
           status' = status, \A u \in Thread : u # t => handlerStack'[u] = handlerStack[u]
    PROVE  ThreadsInv'
  <1> DEFINE P == Front(frames[t])
  <1>1. /\ status[t] = "parsing" /\ Waiting(P) /\ (P = <<>> => Top(t).rec \in Handled)
        /\ P \in Seq(Frame(n))
    BY TopThread
  <1>2. P \in Seq(Frame(m))
    BY <1>1, PointersStayValid, SeqMonotonic
  <1>3. frames'[t] = Append(P, g) /\ \A u \in Thread : u # t => frames'[u] = frames[u]
    BY DEF Become, TypedWith, FramesOf
  <1> HIDE DEF P
  <1>4. GoodThread("parsing", Append(P, g), handlerStack'[t])
    BY <1>1, <1>2, JoinThread DEF P
  <1>5. QED
    BY <1>1, <1>3, <1>4, ThreadStep DEF OthersKept

(* It calls feed() on an element.                                          *)
LEMMA CalledThread ==
    ASSUME NEW n \in Nat, TypedWith(n), ThreadsInv, NEW t \in Thread,
           NEW phase, InPhase(t, phase), NEW m \in Nat, n <= m, NEW g \in Frame(m),
           NEW element \in Recognizer,
           CallFeed(t, g, element), GoodFrame([g EXCEPT !.phase = "fed"]), g.rec = Top(t).rec,
           handlerStack'[t] = OpenedBy(Front(frames[t])) \o Opened(g),
           status' = status, \A u \in Thread : u # t => handlerStack'[u] = handlerStack[u]
    PROVE  ThreadsInv'
  <1> DEFINE P == Front(frames[t])
             fed == [g EXCEPT !.phase = "fed"]
             called == Activation(element, g.pos)
  <1>1. /\ status[t] = "parsing" /\ Waiting(P) /\ (P = <<>> => Top(t).rec \in Handled)
        /\ P \in Seq(Frame(n))
    BY TopThread
  <1>2. P \in Seq(Frame(m))
    BY <1>1, PointersStayValid, SeqMonotonic
  <1>3. fed \in Frame(m) /\ fed.phase = "fed" /\ HoldsAs(g, fed) /\ g.pos \in Nat
    BY DEF Frame, HoldsAs, Phase
  <1>4. called \in Frame(m) /\ GoodFrame(called) /\ Opened(called) = <<>>
    <2>1. called \in Frame(m)
      BY <1>3, ActivationTyped
    <2>2. called.phase = "begin" /\ called.context = None /\ called.bestBranch = None
          /\ called.branch = None
      BY DEF Activation
    <2> HIDE DEF called
    <2>3. QED
      BY <2>1, <2>2, OpenedTyped DEF GoodFrame
  <1>5. GoodFrame(fed)
    OBVIOUS
  <1>6. frames'[t] = P \o <<fed, called>> /\ \A u \in Thread : u # t => frames'[u] = frames[u]
    BY DEF CallFeed, TypedWith, FramesOf
  <1>7. Opened(fed) = Opened(g)
    BY <1>3 DEF Opened, HoldsAs
  <1>8. fed.rec = Top(t).rec
    BY <1>3 DEF HoldsAs
  <1> HIDE DEF P, fed, called
  <1>9. handlerStack'[t] = OpenedBy(P) \o Opened(fed)
    BY <1>7 DEF P
  <1>10. GoodThread("parsing", P \o <<fed, called>>, handlerStack'[t])
    BY <1>1, <1>2, <1>3, <1>4, <1>5, <1>8, <1>9, CallThread
  <1>11. QED
    BY <1>1, <1>6, <1>10, ThreadStep DEF OthersKept

(* It returns, with what it pushed taken off.                              *)
LEMMA ReturnedThread ==
    ASSUME NEW n \in Nat, TypedWith(n), ThreadsInv, NEW t \in Thread,
           NEW phase, InPhase(t, phase), Return(t),
           handlerStack'[t] = OpenedBy(Front(frames[t])),
           status' = status, \A u \in Thread : u # t => handlerStack'[u] = handlerStack[u]
    PROVE  ThreadsInv'
  <1> DEFINE P == Front(frames[t])
             m == Top(t).matched
             F == IF P = <<>> THEN <<>> ELSE Append(Front(P), [Last(P) EXCEPT !.matched = m])
  <1>1. status[t] = "parsing" /\ Waiting(P) /\ P \in Seq(Frame(n)) /\ Top(t) \in Frame(n)
    BY TopThread
  <1>2. m \in Matched
    BY <1>1 DEF Frame
  <1>3. frames'[t] = F /\ \A u \in Thread : u # t => frames'[u] = frames[u]
    BY DEF Return, TypedWith, FramesOf
  <1>4. handlerStack'[t] = OpenedBy(P)
    OBVIOUS
  <1> HIDE DEF P, m
  <1>5. GoodThread("parsing", F, handlerStack'[t])
    BY <1>1, <1>2, <1>4, ReturnThread
  <1> HIDE DEF F
  <1>6. QED
    BY <1>1, <1>3, <1>5, ThreadStep DEF OthersKept

----------------------------------------------------------------------------
(* A context taken off a stack and cleared may go to its handler's cache.  *)
LEMMA RecycleApart ==
    ASSUME NEW n \in Nat, TypedWith(n), HoldersInv, NEW t, NEW c \in 1..n,
           ReleaseContext(t, c), NEW hs2, TakenOff(handlerStack, hs2, c),
           NEW heap2, HeapApart(heap2), \A x : InHeap(heap2, x) => InHeap(contexts, x),
           heap2[c] = NewContext(contexts[c].handler),
           \A e \in 1..n : heap2[e] = contexts[e] \/ InStacks(handlerStack, e)
    PROVE  Apart(hs2, root, heap2, cached') /\ Clean(heap2, cached')
  <1>1. /\ RootsApart(root) /\ CachesApart(cached) /\ Clean(contexts, cached)
        /\ KindsApart(handlerStack, root, contexts, cached)
    BY DEF HoldersInv, Apart
  <1>a. /\ StacksApart(hs2) /\ InStacks(handlerStack, c) /\ ~InStacks(hs2, c)
        /\ \A x : InStacks(hs2, x) => InStacks(handlerStack, x)
    BY DEF TakenOff
  <1>2. c # None /\ ~InRoots(root, c) /\ ~InHeap(contexts, c) /\ ~InCaches(cached, c)
    BY <1>1, <1>a DEF KindsApart, OneKind, None
  <1>3. KindsApart(hs2, root, heap2, cached)
    BY <1>1, <1>a DEF KindsApart, OneKind
  <1>4. Clean(heap2, cached)
    <2>1. SUFFICES ASSUME NEW h \in Handled, cached[h] # None
                   PROVE  heap2[cached[h]] = NewContext(h)
      BY DEF Clean
    <2>2. InCaches(cached, cached[h])
      BY DEF InCaches
    <2>3. cached[h] \in Pointer(n)
      BY <2>2, HeldTyped
    <2>4. cached[h] \in 1..n
      BY <2>1, <2>3 DEF Pointer, None
    <2>5. ~InStacks(handlerStack, cached[h])
      BY <1>1, <2>1, <2>2 DEF KindsApart, OneKind
    <2>6. QED
      BY <1>1, <2>1, <2>4, <2>5 DEF Clean
  <1>5. Apart(hs2, root, heap2, cached) /\ Unheld(hs2, root, heap2, cached, c)
    BY <1>1, <1>a, <1>2, <1>3 DEF Apart, Unheld
  <1>6. cached \in Caches /\ contexts[c].handler \in Handled /\ c \in Nat
    <2>1. contexts \in HeapOf(n)
      BY DEF TypedWith
    <2>2. QED
      BY <2>1, HeldTyped, AssignmentsTyped
  <1>7. cached' = cached \/ cached' = [cached EXCEPT ![contexts[c].handler] = c]
    BY DEF ReleaseContext
  <1>8. QED
    BY <1>4, <1>5, <1>6, <1>7, ReleaseApart

(* recycle() clears one context and no other.                              *)
LEMMA ClearedHeap ==
    ASSUME NEW n \in Nat, TypedWith(n), HoldersInv, NEW c \in 1..n
    PROVE  /\ HeapApart(Cleared(contexts, c))
           /\ \A x : InHeap(Cleared(contexts, c), x) => InHeap(contexts, x)
           /\ Cleared(contexts, c)[c] = NewContext(contexts[c].handler)
           /\ \A e \in 1..n : e # c => Cleared(contexts, c)[e] = contexts[e]
  <1>1. contexts \in Heap(n) /\ DOMAIN contexts = 1..n /\ HeapApart(contexts)
    BY HeldTyped DEF HoldersInv, Apart
  <1> DEFINE heap2 == Cleared(contexts, c)
  <1> DEFINE kept == <<>>
  <1>2. Rewrites(contexts, heap2, c, kept)
    BY <1>1, HeapAt DEF Cleared
  <1>4. Len(contexts[c].assignments) \in Nat /\ contexts[c] \in HandlerContext(n)
    BY <1>1, HeapAt
  <1>5. heap2[c] = NewContext(contexts[c].handler)
    BY <1>1, <1>4 DEF Cleared, NewContext, HandlerContext
  <1>3. /\ kept \in Seq(Assignment(n)) /\ Len(kept) <= Len(contexts[c].assignments)
        /\ \A i \in 1..Len(kept) : kept[i] = contexts[c].assignments[i]
    BY <1>4, EmptySeq
  <1> HIDE DEF heap2, kept
  <1>6. HeapApart(heap2)
    BY <1>1, <1>2, <1>3, DroppedApart
  <1>7. \A x : InHeap(heap2, x) => InHeap(contexts, x)
    BY <1>1, <1>2, <1>3, DroppedApart
  <1>8. \A e \in 1..n : e # c => heap2[e] = contexts[e]
    BY <1>1, <1>2 DEF Rewrites
  <1>9. QED
    BY <1>5, <1>6, <1>7, <1>8 DEF heap2

(* setChild() on an element of the stack, with a child nothing else holds. *)
LEMMA AssignApart ==
    ASSUME NEW n \in Nat, TypedWith(n), NEW hs2, NEW rt2,
           Apart(hs2, rt2, contexts, cached), Clean(contexts, cached),
           NEW d \in 1..n, InStacks(hs2, d),
           NEW r, NEW begin \in Nat, NEW count \in Nat, NEW child \in Pointer(n),
           child = None \/ Unheld(hs2, rt2, contexts, cached, child),
           SetChild(d, r, begin, count, child)
    PROVE  Apart(hs2, rt2, contexts', cached) /\ Clean(contexts', cached)
  <1>1. /\ contexts \in Heap(n) /\ DOMAIN contexts = 1..n /\ HeapApart(contexts)
        /\ contexts \in HeapOf(n) /\ d # None
    <2>1. contexts \in Heap(n) /\ DOMAIN contexts = 1..n
      BY HeldTyped
    <2>2. HeapApart(contexts) /\ contexts \in HeapOf(n) /\ d # None
      BY DEF Apart, TypedWith, None
    <2>3. QED
      BY <2>1, <2>2
  <1>2. CASE r \in Collected[contexts[d].handler]
    <2> DEFINE a == [rule |-> r, begin |-> begin, count |-> count, child |-> child]
    <2>1. a \in Assignment(n) /\ a.child = child
      <3>1. contexts[d].handler \in Handled
        BY <1>1, AssignmentsTyped
      <3>2. r \in Rule
        BY <1>2, <3>1, GrammarAssumption
      <3>3. QED
        BY <3>2 DEF Assignment
    <2>2. Rewrites(contexts, contexts', d, Append(contexts[d].assignments, a))
      <3>1. contexts' = [contexts EXCEPT ![d].assignments = Append(contexts[d].assignments, a)]
        BY <1>2 DEF SetChild
      <3> HIDE DEF a
      <3>2. QED
        BY <1>1, <3>1, HeapAt
    <2> HIDE DEF a
    <2>3. a.child = None \/ ~InHeap(contexts, a.child)
      BY <2>1 DEF Unheld
    <2>4. HeapApart(contexts')
      BY <1>1, <2>1, <2>2, <2>3, AssignedApart
    <2>5. \A x : InHeap(contexts', x) => InHeap(contexts, x) \/ x = child
      <3>1. \A x : InHeap(contexts', x) => InHeap(contexts, x) \/ x = a.child
        BY <1>1, <2>1, <2>2, <2>3, AssignedApart
      <3>2. QED
        BY <2>1, <3>1
    <2>6. KindsApart(hs2, rt2, contexts', cached)
      <3>1. child = None \/ OneKind(hs2, rt2, contexts', cached, child)
        BY DEF Unheld, OneKind
      <3>2. KindsApart(hs2, rt2, contexts, cached)
        BY DEF Apart
      <3>3. QED
        BY <2>5, <3>1, <3>2, KindsKept
    <2>7. Clean(contexts', cached)
      <3>1. ~InCaches(cached, d)
        BY <1>1 DEF Apart, KindsApart, OneKind
      <3>2. \A e \in DOMAIN contexts : e # d => contexts'[e] = contexts[e]
        BY <2>2 DEF Rewrites
      <3>3. \A h \in Handled : cached[h] # None => cached[h] \in DOMAIN contexts /\ cached[h] # d
        BY <1>1, <3>1 DEF TypedWith, Pointer, None, InCaches
      <3>4. QED
        BY <3>2, <3>3 DEF Clean
    <2>8. QED
      BY <2>4, <2>6, <2>7 DEF Apart
  <1>3. CASE r \notin Collected[contexts[d].handler]
    BY <1>3 DEF SetChild
  <1>4. QED
    BY <1>2, <1>3

(* The last context of a stack is on it.                                   *)
LEMMA LastInStack ==
    ASSUME NEW n \in Nat, NEW hs \in [Thread -> Seq(1..n)], NEW t \in Thread, hs[t] # <<>>
    PROVE  InStacks(hs, Last(hs[t])) /\ Last(hs[t]) \in 1..n /\ Back(hs[t]) = Last(hs[t])
  <1> DEFINE s == hs[t]
  <1>1. s \in Seq(1..n) /\ s # <<>>
    OBVIOUS
  <1> HIDE DEF s
  <1>2. Last(s) = s[Len(s)] /\ Len(s) \in Nat \ {0} /\ Last(s) \in 1..n
    BY <1>1, EndsOfSequence
  <1>3. Len(s) \in DOMAIN s
    BY <1>1, <1>2, LenProperties
  <1>4. InStacks(hs, Last(s))
    BY <1>2, <1>3 DEF InStacks, s
  <1>5. QED
    BY <1>1, <1>2, <1>4 DEF s, Back

(* Pop and Back undo a push.                                               *)
LEMMA PopAppend ==
    ASSUME NEW X, NEW s \in Seq(X), NEW c \in X
    PROVE  Pop(Append(s, c)) = s /\ Back(Append(s, c)) = c /\ Append(s, c) # <<>>
  <1> DEFINE w == Append(s, c)
  <1>1. w # <<>> /\ Front(w) = s /\ Last(w) = c
    BY AppendEnds
  <1> HIDE DEF w
  <1>2. QED
    BY <1>1 DEF Pop, Back, w
==============================================================================
