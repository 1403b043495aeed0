------------------------- MODULE ParserSafety_proofs --------------------------
(***************************************************************************)
(* The safety of ParserContext, for every grammar, script and number of    *)
(* threads: the fatal() tests never stop the program, the handler stack is *)
(* exactly what the open activations have pushed, every context is held in *)
(* one place, and the cached contexts are clean. One lemma per action      *)
(* shows that it keeps the inductive invariant, which is the type of the   *)
(* state, ThreadsInv and HoldersInv.                                       *)
(***************************************************************************)
EXTENDS ParserContext_proofs, FiniteSetTheorems

(* A step that touches no context keeps every holder.                      *)
LEMMA HoldersUnchanged ==
    ASSUME HoldersInv, UNCHANGED <<handlerStack, root, contexts, cached>>
    PROVE  HoldersInv'
  BY DEF HoldersInv

(* parseInput() begins and ends with an empty handler stack.               *)
LEMMA ParseHolds ==
    ASSUME NEW n \in Nat, TypedWith(n), ThreadsInv, HoldersInv, NEW t \in Thread,
           StartParse(t) \/ FinishParse(t)
    PROVE  ThreadsInv' /\ HoldersInv'
  <1>0. GoodThread(status[t], frames[t], handlerStack[t])
    BY DEF ThreadsInv
  <1>1. CASE StartParse(t)
    <2> DEFINE f == Activation(script[t][parses[t] + 1].rule, 0)
    <2>1. /\ status' = [status EXCEPT ![t] = "parsing"]
          /\ frames' = [frames EXCEPT ![t] = <<f>>]
          /\ parses[t] < Len(script[t]) /\ status[t] \in {"idle", "done"}
          /\ UNCHANGED <<handlerStack, root, contexts, cached>>
      BY <1>1 DEF StartParse, heapVars
    <2>2. script[t] \in Seq(Request) /\ parses[t] \in Nat
      BY DEF TypedWith
    <2>3. parses[t] + 1 \in 1..Len(script[t])
      BY <2>1, <2>2, LenProperties
    <2>4. script[t][parses[t] + 1].rule \in Handled
      <3>1. script[t][parses[t] + 1] \in Request
        BY <2>2, <2>3, ElementOfSeq
      <3>2. QED
        BY <3>1 DEF Request
    <2>5. script[t][parses[t] + 1].rule \in Recognizer
      BY <2>4, GrammarAssumption
    <2>6. /\ f \in Frame(0) /\ f.rec \in Handled /\ f.phase = "begin" /\ f.context = None
          /\ f.bestBranch = None /\ f.branch = None
      BY <2>4, <2>5, ActivationTyped DEF Activation
    <2>7. frames[t] = <<>> /\ handlerStack[t] = <<>>
      BY <1>0, <2>1, OpenedByEmpty DEF GoodThread
    <2> HIDE DEF f
    <2>8. GoodFrame(f) /\ Opened(f) = <<>>
      BY <2>6, OpenedTyped DEF GoodFrame
    <2>9. /\ <<>> \in Seq(Frame(0)) /\ Waiting(<<>>) /\ <<f>> = Append(<<>>, f)
          /\ <<>> = OpenedBy(<<>>) \o Opened(f)
      BY <2>8, OpenedByEmpty, EmptySeq DEF Waiting
    <2>10. GoodThread("parsing", Append(<<>>, f), <<>>)
      BY <2>6, <2>8, <2>9, JoinThread
    <2>11. /\ frames'[t] = <<f>> /\ status'[t] = "parsing" /\ handlerStack'[t] = <<>>
           /\ OthersKept(t)
      BY <2>1, <2>7 DEF TypedWith, FramesOf, OthersKept
    <2>12. ThreadsInv'
      BY <2>9, <2>10, <2>11, ThreadStep
    <2>13. QED
      BY <2>1, <2>12, HoldersUnchanged
  <1>2. CASE FinishParse(t)
    <2>1. /\ status' = [status EXCEPT ![t] = "done"]
          /\ root' = [root EXCEPT ![t] = None]
          /\ handlerStack' = [handlerStack EXCEPT ![t] = <<>>]
          /\ frames[t] = <<>>
          /\ UNCHANGED <<frames, contexts, cached>>
      BY <1>2 DEF FinishParse, heapVars
    <2>2. handlerStack[t] = <<>>
      BY <1>0, <2>1, OpenedByEmpty DEF GoodThread
    <2>3. handlerStack' = handlerStack
      BY <2>1, <2>2 DEF TypedWith
    <2>4. ThreadsInv'
      <3>1. OthersKept(t) /\ status'[t] = "done" /\ frames'[t] = <<>> /\ handlerStack'[t] = <<>>
        BY <2>1, <2>2, <2>3 DEF TypedWith, OthersKept
      <3>2. GoodThread("done", <<>>, <<>>)
        BY OpenedByEmpty DEF GoodThread
      <3>3. QED
        BY <3>1, <3>2, ThreadStep
    <2>5. RootsApart(root') /\ \A x : InRoots(root', x) => InRoots(root, x) \/ x = None
      <3>1. root \in Roots /\ None \in Nat /\ RootsApart(root)
        BY HeldTyped DEF None, HoldersInv, Apart
      <3>2. QED
        BY <2>1, <3>1, RootSetApart
    <2>6. KindsApart(handlerStack, root', contexts, cached)
      BY <2>5, KindsKept DEF HoldersInv, Apart
    <2>7. HoldersInv'
      BY <2>1, <2>3, <2>5, <2>6 DEF HoldersInv, Apart
    <2>8. QED
      BY <2>4, <2>7
  <1>3. QED
    BY <1>1, <1>2

(* beginParse() for a rule with a handler.                                 *)
LEMMA BeginHandledHolds ==
    ASSUME NEW n \in Nat, TypedWith(n), ThreadsInv, HoldersInv, NEW t \in Thread, BeginHandled(t)
    PROVE  ThreadsInv' /\ HoldersInv'
  <1> DEFINE f == Top(t)
             o == OpenedBy(Front(frames[t]))
  <1>1. /\ InPhase(t, "begin") /\ f.rec \in Handled
        /\ UNCHANGED <<parseVars, root>>
    BY DEF BeginHandled
  <1>2. PICK c \in 1..(Len(contexts) + 1) :
           /\ CreateContext(t, f.rec, c)
           /\ handlerStack' = [handlerStack EXCEPT ![t] = Append(@, c)]
           /\ Become(t, [f EXCEPT !.phase = "feed", !.context = c,
                            !.mark = LastIterator(contexts', c)])
    BY DEF BeginHandled
  <1>3. PICK m \in Nat : /\ n <= m
                         /\ contexts' \in HeapOf(m)
                         /\ cached' \in [Handled -> Pointer(m)]
                         /\ c \in 1..m
    BY <1>1, <1>2, CreateContextTyped DEF TypedWith
  <1>4. /\ f \in Frame(n) /\ f.phase = "begin" /\ GoodFrame(f) /\ o \in Seq(1..n)
        /\ handlerStack[t] = o \o Opened(f) /\ handlerStack[t] \in Seq(1..n)
    BY <1>1, TopThread
  <1>5. f.context = None /\ f.bestBranch = None /\ f.branch = None
    BY <1>4 DEF GoodFrame
  <1> DEFINE mark == LastIterator(contexts', c)
             g == [f EXCEPT !.phase = "feed", !.context = c, !.mark = mark]
  <1>6. mark \in Nat
    BY <1>3, AssignmentsTyped DEF LastIterator
  <1>7. f \in Frame(m)
    BY <1>3, <1>4, PointersStayValid
  <1> HIDE DEF f, o, mark
  <1>8. /\ g \in Frame(m) /\ g.rec = f.rec /\ g.phase = "feed" /\ g.context = c
        /\ g.bestBranch = None /\ g.branch = None
    <2>1. c \in Pointer(m)
      BY <1>3 DEF Pointer
    <2>2. QED
      BY <1>5, <1>6, <1>7, <2>1 DEF Frame, Phase
  <1>9. c # None
    BY <1>3 DEF None
  <1>10. Become(t, g)
    BY <1>2 DEF f, mark
  <1> HIDE DEF g
  <1>11. GoodFrame(g)
    BY <1>1, <1>8, <1>9 DEF GoodFrame
  <1>12. handlerStack[t] = o
    BY <1>4, <1>5, OpenedOnto DEF Onto
  <1>13. handlerStack'[t] = o \o Opened(g)
    <2>1. handlerStack'[t] = Append(o, c)
      BY <1>2, <1>12 DEF TypedWith
    <2>2. o \in Seq(1..m)
      BY <1>3, <1>4, SeqMonotonic
    <2>3. o \o Opened(g) = Append(o, c)
      BY <1>8, <1>9, <2>2, OpenedOnto DEF Onto
    <2>4. QED
      BY <2>1, <2>3
  <1>14. /\ status' = status
         /\ \A u \in Thread : u # t => handlerStack'[u] = handlerStack[u]
         /\ handlerStack'[t] = Append(handlerStack[t], c)
    BY <1>1, <1>2 DEF parseVars, TypedWith
  <1>15. ThreadsInv'
    BY <1>1, <1>3, <1>8, <1>10, <1>11, <1>13, <1>14, BecomeThread DEF f, o
  <1>16. HoldersInv'
    <2>1. /\ Apart(handlerStack, root, contexts', cached')
          /\ Clean(contexts', cached')
          /\ Unheld(handlerStack, root, contexts', cached', c)
      BY <1>1, <1>2, CreateApart
    <2>2. handlerStack \in Stacks /\ c \in Nat
      BY HeldTyped
    <2>3. Apart(handlerStack', root, contexts', cached')
      BY <1>14, <2>1, <2>2, PushApart
    <2>4. QED
      BY <1>1, <2>1, <2>3 DEF HoldersInv
  <1>17. QED
    BY <1>15, <1>16

(* beginParse() for another: the element it belongs to is there.           *)
LEMMA BeginPlainHolds ==
    ASSUME NEW n \in Nat, TypedWith(n), ThreadsInv, HoldersInv, NEW t \in Thread, BeginPlain(t)
    PROVE  ThreadsInv' /\ HoldersInv'
  <1> DEFINE f == Top(t)
             o == OpenedBy(Front(frames[t]))
             mark == LastIterator(contexts, Back(handlerStack[t]))
             g == [f EXCEPT !.phase = "feed", !.mark = mark]
  <1>1. /\ InPhase(t, "begin") /\ f.rec \notin Handled
        /\ UNCHANGED <<handlerStack, root, contexts, cached>>
        /\ FatalUnless(t, handlerStack[t] # <<>>)
        /\ handlerStack[t] # <<>> => Become(t, g)
    BY DEF BeginPlain, heapVars
  <1>2. /\ f \in Frame(n) /\ f.phase = "begin" /\ GoodFrame(f)
        /\ handlerStack[t] = o \o Opened(f) /\ handlerStack[t] \in Seq(1..n)
        /\ handlerStack[t] # <<>>
    BY <1>1, TopThread
  <1>3. status' = status /\ Become(t, g)
    BY <1>1, <1>2 DEF FatalUnless, TypedWith
  <1>4. mark \in Nat
    <2>1. Back(handlerStack[t]) \in 1..n
      BY <1>2, BackTyped
    <2>2. QED
      BY <2>1, AssignmentsTyped DEF TypedWith, LastIterator
  <1> HIDE DEF f, o, mark
  <1>5. g \in Frame(n) /\ HoldsAs(f, g) /\ g.phase = "feed"
    BY <1>2, <1>4 DEF Frame, Phase, HoldsAs
  <1> HIDE DEF g
  <1>6. GoodFrame(g) /\ Opened(g) = Opened(f)
    BY <1>1, <1>2, <1>5 DEF GoodFrame, HoldsAs, Opened
  <1>7. handlerStack'[t] = o \o Opened(g) /\ g.rec = f.rec
    BY <1>1, <1>2, <1>5, <1>6 DEF HoldsAs
  <1>8. ThreadsInv'
    BY <1>1, <1>3, <1>5, <1>6, <1>7, BecomeThread DEF f, o
  <1>9. QED
    BY <1>1, <1>8, HoldersUnchanged

----------------------------------------------------------------------------
(* A recognizer that is no selector goes on, answers, or calls feed() of   *)
(* an element.                                                             *)
GoesOn(t, n) ==
    \/ \E g \in Frame(n) : /\ HoldsAs(Top(t), g)
                           /\ g.phase \in {"feed", "end"}
                           /\ Become(t, g)
    \/ \E element \in Recognizer : CallFeed(t, Top(t), element)

(* The changes that a _feed() makes to its own variables push and pop      *)
(* nothing.                                                                *)
LEMMA NextFrameHolds ==
    ASSUME NEW n \in Nat, NEW f \in Frame(n)
    PROVE  /\ \A m : HoldsAs(f, Answer(f, m)) /\ Answer(f, m).phase = "end"
           /\ HoldsAs(f, Advance(f)) /\ Advance(f).phase = "feed"
           /\ HoldsAs(f, Repeated(f)) /\ Repeated(f).phase = "feed"
           /\ HoldsAs(f, LoopAnswer(f)) /\ LoopAnswer(f).phase = "end"
  <1>1. \A m : HoldsAs(f, Answer(f, m)) /\ Answer(f, m).phase = "end"
    BY DEF Frame, Answer, HoldsAs
  <1>2. HoldsAs(f, Advance(f)) /\ Advance(f).phase = "feed"
    <2> DEFINE pos == f.pos + f.matched
               total == f.total + f.matched
               index == f.index + 1
    <2>1. Advance(f) = [f EXCEPT !.pos = pos, !.total = total, !.index = index,
                                 !.phase = "feed"]
      BY DEF Advance
    <2> HIDE DEF pos, total, index
    <2>2. QED
      BY <2>1 DEF Frame, HoldsAs
  <1>3. HoldsAs(f, Repeated(f)) /\ Repeated(f).phase = "feed"
    <2> DEFINE g == Advance(f)
    <2>1. Repeated(f) \in {g, [g EXCEPT !.index = f.index]}
      BY DEF Repeated
    <2>2. /\ DOMAIN g = DOMAIN f /\ "phase" \in DOMAIN f /\ "rec" \in DOMAIN f
          /\ "context" \in DOMAIN f /\ "bestBranch" \in DOMAIN f /\ "branch" \in DOMAIN f
      BY DEF Advance, Frame
    <2>3. HoldsAs(f, g) /\ g.phase = "feed"
      BY <1>2
    <2> HIDE DEF g
    <2> DEFINE h == [g EXCEPT !.index = f.index]
    <2>4. /\ h.rec = g.rec /\ h.context = g.context /\ h.bestBranch = g.bestBranch
          /\ h.branch = g.branch /\ h.phase = g.phase
      BY <2>2
    <2>5. HoldsAs(f, h) /\ h.phase = "feed"
      BY <2>3, <2>4 DEF HoldsAs
    <2> HIDE DEF h
    <2>6. QED
      BY <2>1, <2>3, <2>5 DEF h
  <1>4. QED
    BY <1>1, <1>2, <1>3 DEF LoopAnswer

(* Every step of a recognizer that is no selector is such a step.          *)
LEMMA PlainGoesOn ==
    ASSUME NEW n \in Nat, TypedWith(n), NEW t \in Thread, PlainFeed(t)
    PROVE  /\ GoesOn(t, n)
           /\ \E phase \in {"feed", "fed"} : InPhase(t, phase)
           /\ Shape[Top(t).rec].kind # "selector"
           /\ UNCHANGED <<parseVars, handlerStack, root, heapVars>>
  <1> DEFINE f == Top(t)
  <1>0. /\ \E phase \in {"feed", "fed"} : InPhase(t, phase)
        /\ Shape[Top(t).rec].kind # "selector"
    BY DEF PlainFeed, FeedText, FeedDelegate, DelegateFed, FeedSequence, SequenceFed,
           FeedExclusive, ExclusiveFed, FeedLoop, LoopFed, Running
  <1>1. f \in Frame(n)
    BY <1>0, TopOfThread
  <1>2. f.matched \in Matched /\ f.total \in Matched /\ NPos \in Matched
    BY <1>1 DEF Frame, Matched
  <1>5. UNCHANGED <<parseVars, handlerStack, root, heapVars>>
    BY DEF PlainFeed, FeedText, FeedDelegate, DelegateFed, FeedSequence, SequenceFed,
           FeedExclusive, ExclusiveFed, FeedLoop, LoopFed
  <1> HIDE DEF f
  <1>3. ASSUME NEW e \in Recognizer, CallFeed(t, f, e) PROVE GoesOn(t, n)
    BY <1>3 DEF GoesOn, f
  <1>4. ASSUME NEW g \in Frame(n), Become(t, g), HoldsAs(f, g), g.phase \in {"feed", "end"}
        PROVE GoesOn(t, n)
    BY <1>4 DEF GoesOn, f
  <1>6. GoesOn(t, n)
    <2>1. CASE FeedText(t)
      BY <1>1, <1>4, <2>1, RecognizerTyped, NextFrameTyped, NextFrameHolds DEF FeedText, f
    <2>2. CASE FeedDelegate(t)
      BY <1>1, <1>3, <2>2, RecognizerTyped DEF FeedDelegate, Running, f
    <2>3. CASE DelegateFed(t)
      BY <1>1, <1>2, <1>4, <2>3, NextFrameTyped, NextFrameHolds DEF DelegateFed, f
    <2>4. CASE FeedSequence(t)
      BY <1>1, <1>2, <1>3, <1>4, <2>4, RecognizerTyped, NextFrameTyped, NextFrameHolds
         DEF FeedSequence, f
    <2>5. CASE SequenceFed(t)
      BY <1>1, <1>2, <1>4, <2>5, NextFrameTyped, NextFrameHolds DEF SequenceFed, f
    <2>6. CASE FeedExclusive(t)
      BY <1>1, <1>2, <1>3, <1>4, <2>6, RecognizerTyped, NextFrameTyped, NextFrameHolds
         DEF FeedExclusive, f
    <2>7. CASE ExclusiveFed(t)
      <3> DEFINE index == f.index + 1
                 g == [f EXCEPT !.index = index, !.phase = "feed"]
      <3>1. index \in Nat
        BY <1>1 DEF Frame
      <3> HIDE DEF index
      <3>2. g \in Frame(n) /\ HoldsAs(f, g) /\ g.phase = "feed"
        BY <1>1, <3>1 DEF Frame, Phase, HoldsAs
      <3>3. Become(t, Answer(f, f.matched)) \/ Become(t, g)
        BY <2>7 DEF ExclusiveFed, f, index
      <3> HIDE DEF g
      <3>4. QED
        BY <1>1, <1>2, <1>4, <3>2, <3>3, NextFrameTyped, NextFrameHolds
    <2>8. CASE FeedLoop(t)
      BY <1>1, <1>3, <1>4, <2>8, RecognizerTyped, NextFrameTyped, NextFrameHolds
         DEF FeedLoop, Running, f
    <2>9. CASE LoopFed(t)
      BY <1>1, <1>4, <2>9, NextFrameTyped, NextFrameHolds DEF LoopFed, f
    <2>10. QED
      BY <2>1, <2>2, <2>3, <2>4, <2>5, <2>6, <2>7, <2>8, <2>9 DEF PlainFeed
  <1>7. QED
    BY <1>0, <1>5, <1>6

(* These steps keep the invariant.                                         *)
LEMMA PlainFeedHolds ==
    ASSUME NEW n \in Nat, TypedWith(n), ThreadsInv, HoldersInv, NEW t \in Thread, PlainFeed(t)
    PROVE  ThreadsInv' /\ HoldersInv'
  <1> DEFINE f == Top(t)
             o == OpenedBy(Front(frames[t]))
  <1>1. /\ GoesOn(t, n)
        /\ Shape[f.rec].kind # "selector"
        /\ status' = status /\ UNCHANGED <<handlerStack, root, contexts, cached>>
    BY PlainGoesOn DEF parseVars, heapVars
  <1>2. PICK phase \in {"feed", "fed"} : InPhase(t, phase)
    BY PlainGoesOn
  <1>3. /\ f \in Frame(n) /\ f.phase = phase /\ GoodFrame(f)
        /\ handlerStack[t] = o \o Opened(f)
    BY <1>2, TopThread
  <1>4. f.branch = None /\ f.bestBranch = None /\ (f.context # None <=> f.rec \in Handled)
    BY <1>1, <1>3 DEF GoodFrame
  <1> HIDE DEF f, o
  <1>5. ThreadsInv'
    <2>1. CASE \E g \in Frame(n) : HoldsAs(f, g) /\ g.phase \in {"feed", "end"} /\ Become(t, g)
      <3>1. PICK g \in Frame(n) : HoldsAs(f, g) /\ g.phase \in {"feed", "end"} /\ Become(t, g)
        BY <2>1
      <3>2. GoodFrame(g) /\ Opened(g) = Opened(f) /\ g.rec = f.rec
        BY <1>1, <1>4, <3>1 DEF GoodFrame, HoldsAs, Opened
      <3>3. handlerStack'[t] = o \o Opened(g)
        BY <1>1, <1>3, <3>2
      <3>4. QED
        BY <1>1, <1>2, <3>1, <3>2, <3>3, BecomeThread DEF f, o
    <2>2. CASE \E e \in Recognizer : CallFeed(t, f, e)
      <3>1. PICK e \in Recognizer : CallFeed(t, f, e)
        BY <2>2
      <3> DEFINE fed == [f EXCEPT !.phase = "fed"]
      <3>2. HoldsAs(f, fed) /\ fed.phase = "fed"
        BY <1>3 DEF HoldsAs, Frame
      <3> HIDE DEF fed
      <3>3. GoodFrame(fed)
        BY <1>1, <1>4, <3>2 DEF GoodFrame, HoldsAs
      <3>4. handlerStack'[t] = o \o Opened(f)
        BY <1>1, <1>3
      <3>5. QED
        BY <1>1, <1>2, <1>3, <3>1, <3>3, <3>4, CalledThread DEF f, o, fed
    <2>3. QED
      BY <1>1, <2>1, <2>2 DEF GoesOn, f
  <1>6. QED
    BY <1>1, <1>5, HoldersUnchanged

(* endParse(): what the activation that answers holds.                     *)
LEMMA AtTheEnd ==
    ASSUME NEW n \in Nat, TypedWith(n), ThreadsInv, NEW t \in Thread, InPhase(t, "end")
    PROVE  LET f == Top(t)
               o == OpenedBy(Front(frames[t]))
           IN  /\ f \in Frame(n) /\ o \in Seq(1..n)
               /\ handlerStack[t] = Onto(o, f.context) /\ handlerStack[t] # <<>>
               /\ f.context # None => /\ f.context \in 1..n
                                      /\ handlerStack[t] = Append(o, f.context)
                                      /\ Pop(handlerStack[t]) = o
               /\ f.context = None => handlerStack[t] = o
  <1> DEFINE f == Top(t)
             o == OpenedBy(Front(frames[t]))
             S == handlerStack[t]
  <1>1. /\ f \in Frame(n) /\ f.phase = "end" /\ GoodFrame(f) /\ o \in Seq(1..n)
        /\ S = o \o Opened(f) /\ S \in Seq(1..n) /\ S # <<>>
    BY TopThread
  <1> HIDE DEF f, o, S
  <1>2. f.bestBranch = None /\ f.branch = None /\ f.context \in Pointer(n)
    BY <1>1 DEF GoodFrame, Frame
  <1>3. S = Onto(o, f.context)
    BY <1>1, <1>2, OpenedOnto DEF Onto
  <1>4. ASSUME f.context # None
        PROVE  f.context \in 1..n /\ S = Append(o, f.context) /\ Pop(S) = o
    <2>1. f.context \in 1..n
      BY <1>2, <1>4 DEF Pointer, None
    <2>2. QED
      BY <1>1, <1>3, <1>4, <2>1, PopAppend DEF Onto
  <1>5. f.context = None => S = o
    BY <1>3 DEF Onto
  <1>6. QED
    BY <1>1, <1>3, <1>4, <1>5 DEF f, o, S

(* _endParse(), an element to keep: it moves from the stack to an          *)
(* assignment of the element below, or to the root.                        *)
LEMMA EndElementHolds ==
    ASSUME NEW n \in Nat, TypedWith(n), ThreadsInv, HoldersInv, NEW t \in Thread, EndElement(t)
    PROVE  ThreadsInv' /\ HoldersInv'
  <1> DEFINE f == Top(t)
             o == OpenedBy(Front(frames[t]))
             c == f.context
  <1>1. /\ InPhase(t, "end") /\ f.matched > 0 /\ c # None /\ Return(t)
        /\ status' = status /\ cached' = cached
    BY DEF EndElement, Matching
  <1>2. /\ f \in Frame(n) /\ o \in Seq(1..n) /\ c \in 1..n
        /\ handlerStack[t] = Append(o, c) /\ Pop(handlerStack[t]) = o
    BY <1>1, AtTheEnd
  <1>3. /\ handlerStack' = [handlerStack EXCEPT ![t] = o]
        /\ o # <<>> => SetChild(Last(o), f.rec, f.begin, f.matched, c) /\ root' = root
        /\ o = <<>> => root' = [root EXCEPT ![t] = c] /\ contexts' = contexts
    BY <1>2 DEF EndElement
  <1>4. handlerStack \in [Thread -> Seq(1..n)]
    BY DEF TypedWith
  <1>5. /\ StacksApart(handlerStack) /\ RootsApart(root) /\ HeapApart(contexts)
        /\ CachesApart(cached) /\ KindsApart(handlerStack, root, contexts, cached)
        /\ Clean(contexts, cached)
    BY DEF HoldersInv, Apart
  <1>6. f.begin \in Nat /\ f.matched \in Nat /\ c \in Pointer(n) /\ c \in Nat
    BY <1>1, <1>2 DEF Frame, Matched, NPos
  <1> HIDE DEF f, o, c
  <1>7. /\ handlerStack'[t] = o
        /\ \A u \in Thread : u # t => handlerStack'[u] = handlerStack[u]
        /\ handlerStack' \in [Thread -> Seq(1..n)]
    BY <1>2, <1>3, <1>4
  <1>8. ThreadsInv'
    BY <1>1, <1>7, ReturnedThread DEF o
  <1> DEFINE hs2 == handlerStack'
  <1>9. TakenOff(handlerStack, hs2, c)
    <2>1. Restacked(handlerStack, hs2, t, o)
      BY <1>7 DEF Restacked
    <2>2. QED
      BY <1>2, <1>4, <1>5, <2>1, PopApart
  <1> HIDE DEF hs2
  <1>10. KindsApart(hs2, root, contexts, cached)
    BY <1>5, <1>9 DEF KindsApart, OneKind, TakenOff
  <1>11. Unheld(hs2, root, contexts, cached, c)
    BY <1>1, <1>5, <1>9 DEF KindsApart, OneKind, Unheld, TakenOff
  <1>12. CASE o # <<>>
    <2>1. Apart(hs2, root, contexts, cached)
      BY <1>5, <1>9, <1>10 DEF Apart, TakenOff
    <2>2. InStacks(hs2, Last(o)) /\ Last(o) \in 1..n
      BY <1>7, <1>12, LastInStack DEF hs2
    <2>3. SetChild(Last(o), f.rec, f.begin, f.matched, c) /\ root' = root
      BY <1>3, <1>12
    <2>4. Apart(hs2, root, contexts', cached) /\ Clean(contexts', cached)
      BY <1>5, <1>6, <1>11, <2>1, <2>2, <2>3, AssignApart
    <2>5. QED
      BY <1>1, <1>8, <2>3, <2>4 DEF HoldersInv, hs2
  <1>13. CASE o = <<>>
    <2>1. root' = [root EXCEPT ![t] = c] /\ contexts' = contexts
      BY <1>3, <1>13
    <2>2. RootsApart(root') /\ \A x : InRoots(root', x) => InRoots(root, x) \/ x = c
      <3>1. root \in Roots /\ ~InRoots(root, c)
        BY <1>11, HeldTyped DEF Unheld
      <3>2. QED
        BY <1>5, <1>6, <2>1, <3>1, RootSetApart
    <2>3. KindsApart(hs2, root', contexts, cached)
      <3>1. OneKind(hs2, root', contexts, cached, c)
        BY <1>11 DEF Unheld, OneKind
      <3>2. QED
        BY <1>10, <2>2, <3>1, KindsKept
    <2>4. Apart(hs2, root', contexts, cached)
      BY <1>5, <1>9, <2>2, <2>3 DEF Apart, TakenOff
    <2>5. QED
      BY <1>1, <1>5, <1>8, <2>1, <2>4 DEF HoldersInv, hs2
  <1>14. QED
    BY <1>12, <1>13

(* _endParse(), an element that matched nothing: it moves from the stack   *)
(* to its cache.                                                           *)
LEMMA DropElementHolds ==
    ASSUME NEW n \in Nat, TypedWith(n), ThreadsInv, HoldersInv, NEW t \in Thread, DropElement(t)
    PROVE  ThreadsInv' /\ HoldersInv'
  <1> DEFINE f == Top(t)
             o == OpenedBy(Front(frames[t]))
             c == f.context
  <1>1. /\ InPhase(t, "end") /\ c # None /\ Return(t)
        /\ contexts' = Cleared(contexts, c) /\ ReleaseContext(t, c)
        /\ status' = status /\ root' = root
    BY DEF DropElement, Failing
  <1>2. /\ f \in Frame(n) /\ o \in Seq(1..n) /\ c \in 1..n
        /\ handlerStack[t] = Append(o, c) /\ Pop(handlerStack[t]) = o
    BY <1>1, AtTheEnd
  <1>3. handlerStack' = [handlerStack EXCEPT ![t] = o]
    BY <1>2 DEF DropElement
  <1>4. handlerStack \in [Thread -> Seq(1..n)] /\ StacksApart(handlerStack)
    BY DEF TypedWith, HoldersInv, Apart
  <1> HIDE DEF f, o, c
  <1>5. /\ handlerStack'[t] = o
        /\ \A u \in Thread : u # t => handlerStack'[u] = handlerStack[u]
    BY <1>2, <1>3, <1>4
  <1>6. ThreadsInv'
    BY <1>1, <1>5, ReturnedThread DEF o
  <1> DEFINE hs2 == handlerStack'
  <1>7. TakenOff(handlerStack, hs2, c)
    <2>1. Restacked(handlerStack, hs2, t, o)
      BY <1>5 DEF Restacked
    <2>2. QED
      BY <1>2, <1>4, <2>1, PopApart
  <1> HIDE DEF hs2
  <1> DEFINE heap2 == Cleared(contexts, c)
  <1>8. /\ HeapApart(heap2) /\ \A x : InHeap(heap2, x) => InHeap(contexts, x)
        /\ heap2[c] = NewContext(contexts[c].handler)
        /\ \A e \in 1..n : e # c => heap2[e] = contexts[e]
    BY <1>2, ClearedHeap
  <1>9. contexts' = heap2
    BY <1>1
  <1> HIDE DEF heap2
  <1>10. \A e \in 1..n : heap2[e] = contexts[e] \/ InStacks(handlerStack, e)
    BY <1>7, <1>8 DEF TakenOff
  <1>11. Apart(hs2, root, heap2, cached') /\ Clean(heap2, cached')
    BY <1>1, <1>2, <1>7, <1>8, <1>10, RecycleApart
  <1>12. QED
    BY <1>1, <1>6, <1>9, <1>11 DEF HoldersInv, hs2

(* _endParse(), a value: an assignment without a child.                    *)
LEMMA EndTextHolds ==
    ASSUME NEW n \in Nat, TypedWith(n), ThreadsInv, HoldersInv, NEW t \in Thread, EndText(t)
    PROVE  ThreadsInv' /\ HoldersInv'
  <1> DEFINE f == Top(t)
             o == OpenedBy(Front(frames[t]))
             d == Back(handlerStack[t])
  <1>1. /\ InPhase(t, "end") /\ f.matched > 0 /\ f.context = None /\ Return(t)
        /\ \/ SetChild(d, f.rec, f.begin, f.matched, None)
           \/ contexts' = contexts
        /\ status' = status /\ UNCHANGED <<handlerStack, root, cached>>
    BY DEF EndText, Matching
  <1>2. f \in Frame(n) /\ handlerStack[t] = o /\ handlerStack[t] # <<>>
    BY <1>1, AtTheEnd
  <1>3. f.begin \in Nat /\ f.matched \in Nat /\ None \in Pointer(n)
    BY <1>1, <1>2 DEF Frame, Matched, NPos, Pointer, None
  <1>4. d \in 1..n /\ InStacks(handlerStack, d)
    BY <1>2, LastInStack DEF TypedWith
  <1> HIDE DEF f, o, d
  <1>5. ThreadsInv'
    BY <1>1, <1>2, ReturnedThread DEF o
  <1>6. Apart(handlerStack, root, contexts', cached) /\ Clean(contexts', cached)
    BY <1>1, <1>3, <1>4, AssignApart DEF HoldersInv
  <1>7. QED
    BY <1>1, <1>5, <1>6 DEF HoldersInv

(* _endParse(), undoAssignments(): the children of the dropped assignments *)
(* are held by nothing any more.                                           *)
LEMMA UndoTextHolds ==
    ASSUME NEW n \in Nat, TypedWith(n), ThreadsInv, HoldersInv, NEW t \in Thread, UndoText(t)
    PROVE  ThreadsInv' /\ HoldersInv'
  <1> DEFINE f == Top(t)
             o == OpenedBy(Front(frames[t]))
             d == Back(handlerStack[t])
             s == contexts[d].assignments
             kept == Take(s, f.mark)
  <1>1. /\ InPhase(t, "end") /\ f.context = None /\ Return(t)
        /\ contexts' = [contexts EXCEPT ![d].assignments = kept]
        /\ status' = status /\ UNCHANGED <<handlerStack, root, cached>>
    BY DEF UndoText, Failing
  <1>2. f \in Frame(n) /\ handlerStack[t] = o /\ handlerStack[t] # <<>>
    BY <1>1, AtTheEnd
  <1>3. d \in 1..n /\ InStacks(handlerStack, d)
    BY <1>2, LastInStack DEF TypedWith
  <1>4. f.mark \in Nat
    BY <1>2 DEF Frame
  <1>5. /\ contexts \in Heap(n) /\ DOMAIN contexts = 1..n /\ HeapApart(contexts)
        /\ Clean(contexts, cached) /\ KindsApart(handlerStack, root, contexts, cached)
        /\ StacksApart(handlerStack) /\ RootsApart(root) /\ CachesApart(cached)
    BY HeldTyped DEF HoldersInv, Apart
  <1> HIDE DEF f, o, d
  <1>6. s \in Seq(Assignment(n)) /\ Rewrites(contexts, contexts', d, kept)
    BY <1>1, <1>3, <1>5, HeapAt
  <1> HIDE DEF s
  <1>7. /\ kept \in Seq(Assignment(n)) /\ Len(kept) <= Len(s)
        /\ \A i \in 1..Len(kept) : kept[i] = s[i]
    <2> DEFINE m == IF f.mark < Len(s) THEN f.mark ELSE Len(s)
    <2>1. m \in Nat /\ m <= Len(s) /\ \A i \in 1..m : s[i] \in Assignment(n)
      BY <1>4, <1>6, LenProperties, ElementOfSeq
    <2>2. kept = SubSeq(s, 1, m)
      BY DEF Take
    <2> HIDE DEF m, kept
    <2>3. /\ kept \in Seq(Assignment(n)) /\ Len(kept) = m
          /\ \A i \in 1..m : kept[i] = s[i]
      BY <2>1, <2>2, SubSeqProperties
    <2>4. QED
      BY <2>1, <2>3
  <1> HIDE DEF kept
  <1>8. ThreadsInv'
    BY <1>1, <1>2, ReturnedThread DEF o
  <1>9. /\ Len(kept) <= Len(contexts[d].assignments)
        /\ \A i \in 1..Len(kept) : kept[i] = contexts[d].assignments[i]
    BY <1>7 DEF s
  <1>10. HeapApart(contexts')
    BY <1>3, <1>5, <1>6, <1>7, <1>9, DroppedApart
  <1>11. \A x : InHeap(contexts', x) => InHeap(contexts, x)
    BY <1>3, <1>5, <1>6, <1>7, <1>9, DroppedApart
  <1>12. KindsApart(handlerStack, root, contexts', cached)
    BY <1>5, <1>11 DEF KindsApart, OneKind
  <1>13. Clean(contexts', cached)
    <2>1. ~InCaches(cached, d)
      BY <1>3, <1>5 DEF KindsApart, OneKind, None
    <2>2. \A e \in DOMAIN contexts : e # d => contexts'[e] = contexts[e]
      BY <1>6 DEF Rewrites
    <2>3. \A h \in Handled : cached[h] # None => cached[h] \in DOMAIN contexts /\ cached[h] # d
      BY <1>5, <2>1 DEF TypedWith, Pointer, None, InCaches
    <2>4. QED
      BY <1>5, <2>2, <2>3 DEF Clean
  <1>14. QED
    BY <1>1, <1>5, <1>8, <1>10, <1>12, <1>13 DEF HoldersInv, Apart

----------------------------------------------------------------------------
(* Selector: an alternative gets a branch of its own.                      *)
LEMMA BranchHolds ==
    ASSUME NEW n \in Nat, TypedWith(n), ThreadsInv, HoldersInv, NEW t \in Thread, SelectorBranch(t)
    PROVE  ThreadsInv' /\ HoldersInv'
  <1> DEFINE f == Top(t)
             o == OpenedBy(Front(frames[t]))
             S == handlerStack[t]
             h == contexts[Last(S)].handler
             e == Elements(f)[f.index + 1]
  <1>1. /\ InPhase(t, "feed") /\ Shape[f.rec].kind = "selector" /\ MoreElements(f)
        /\ FatalUnless(t, S # <<>>) /\ root' = root
    BY DEF SelectorBranch, Running
  <1>2. /\ f \in Frame(n) /\ f.phase = "feed" /\ GoodFrame(f) /\ o \in Seq(1..n)
        /\ S = o \o Opened(f) /\ S \in Seq(1..n) /\ S # <<>>
    BY <1>1, TopThread
  <1>3. PICK c \in 1..(Len(contexts) + 1) :
           /\ CreateContext(t, h, c)
           /\ handlerStack' = [handlerStack EXCEPT ![t] = Append(@, c)]
           /\ CallFeed(t, [f EXCEPT !.branch = c], e)
    BY <1>2 DEF SelectorBranch
  <1>4. h \in Handled
    BY <1>2, BackTyped, AssignmentsTyped DEF TypedWith
  <1>5. e \in Recognizer
    BY <1>1, <1>2, RecognizerTyped
  <1>6. status' = status
    BY <1>1, <1>2 DEF FatalUnless, TypedWith
  <1>7. PICK m \in Nat : /\ n <= m
                         /\ contexts' \in HeapOf(m)
                         /\ cached' \in [Handled -> Pointer(m)]
                         /\ c \in 1..m
    <2> HIDE DEF h
    <2> QED BY <1>3, <1>4, CreateContextTyped DEF TypedWith
  <1>8. /\ handlerStack'[t] = Append(S, c)
        /\ \A u \in Thread : u # t => handlerStack'[u] = handlerStack[u]
    BY <1>3 DEF TypedWith
  <1>9. f \in Frame(m) /\ o \in Seq(1..m) /\ c # None /\ c \in Pointer(m)
    <2>1. o \in Seq(1..m)
      BY <1>2, <1>7, SeqMonotonic
    <2>2. QED
      BY <1>2, <1>7, <2>1, PointersStayValid DEF None, Pointer
  <1>10. f.branch = None /\ (f.context # None <=> f.rec \in Handled)
    BY <1>2 DEF GoodFrame
  <1> DEFINE g == [f EXCEPT !.branch = c]
             fed == [g EXCEPT !.phase = "fed"]
  <1>11. CallFeed(t, g, e)
    BY <1>3
  <1> HIDE DEF f, o, S, h, e
  <1>12. /\ g \in Frame(m) /\ g.rec = f.rec /\ g.context = f.context /\ g.branch = c
         /\ g.bestBranch = f.bestBranch
    BY <1>9 DEF Frame
  <1>13. HoldsAs(g, fed) /\ fed.phase = "fed"
    <2> HIDE DEF g
    <2> QED BY <1>12 DEF Frame, HoldsAs
  <1> HIDE DEF g, fed
  <1>14. GoodFrame(fed)
    BY <1>1, <1>9, <1>10, <1>12, <1>13 DEF GoodFrame, HoldsAs
  <1>15. handlerStack'[t] = o \o Opened(g)
    <2>1. S = Onto(Onto(o, f.context), f.bestBranch)
      BY <1>2, <1>10, OpenedOnto DEF Onto
    <2>2. o \o Opened(g) = Onto(Onto(Onto(o, f.context), f.bestBranch), c)
      BY <1>9, <1>12, OpenedOnto
    <2>3. QED
      BY <1>8, <1>9, <2>1, <2>2 DEF Onto
  <1>16. ThreadsInv'
    BY <1>1, <1>5, <1>6, <1>7, <1>8, <1>11, <1>12, <1>14, <1>15, CalledThread DEF f, o, fed
  <1>17. HoldersInv'
    <2>1. /\ Apart(handlerStack, root, contexts', cached')
          /\ Clean(contexts', cached')
          /\ Unheld(handlerStack, root, contexts', cached', c)
      BY <1>3, <1>4, CreateApart
    <2>2. handlerStack \in Stacks /\ c \in Nat
      BY HeldTyped
    <2>3. handlerStack'[t] = Append(handlerStack[t], c)
      BY <1>8 DEF S
    <2>4. Apart(handlerStack', root, contexts', cached')
      BY <1>8, <2>1, <2>2, <2>3, PushApart
    <2>5. QED
      BY <1>1, <2>1, <2>4 DEF HoldersInv
  <1>18. QED
    BY <1>16, <1>17

(* The branch that loses is on the stack, the last or the one below it.    *)
LEMMA LoserOnStack ==
    ASSUME NEW n \in Nat, TypedWith(n), ThreadsInv, HoldersInv, NEW t \in Thread,
           Running(t, "fed", "selector"), Loser(Top(t)) # None
    PROVE  LET f == Top(t)
               o == OpenedBy(Front(frames[t]))
               s == RemoveFromStack(handlerStack[t], Loser(f))
           IN  /\ Loser(f) \in 1..n
               /\ \E i \in DOMAIN handlerStack[t] : handlerStack[t][i] = Loser(f)
               /\ s = o \o Opened(Elected(f)) /\ s \in Seq(1..n)
               /\ \A hs2 : Restacked(handlerStack, hs2, t, s)
                              => TakenOff(handlerStack, hs2, Loser(f))
  <1> DEFINE f == Top(t)
             o == OpenedBy(Front(frames[t]))
             S == handlerStack[t]
             g == Elected(f)
             c == Loser(f)
             base == Onto(o, f.context)
             s == RemoveFromStack(S, c)
  <1>1. InPhase(t, "fed") /\ Shape[f.rec].kind = "selector"
    BY DEF Running
  <1>2. /\ f \in Frame(n) /\ f.phase = "fed" /\ GoodFrame(f) /\ o \in Seq(1..n)
        /\ S = o \o Opened(f) /\ S \in Seq(1..n)
    BY <1>1, TopThread
  <1>3. f.branch # None
    BY <1>1, <1>2 DEF GoodFrame
  <1>4. f.branch \in 1..n /\ f.context \in Pointer(n) /\ f.bestBranch \in Pointer(n)
    BY <1>2, <1>3 DEF Frame, Pointer, None
  <1>5. /\ g \in Frame(n) /\ g.context = f.context /\ g.branch = None
        /\ g.bestBranch = IF Better(f) THEN f.branch ELSE f.bestBranch
    <2>1. g \in Frame(n)
      BY <1>2, NextFrameTyped
    <2> DEFINE index == f.index + 1
               won  == [f EXCEPT !.best = f.matched, !.bestBranch = f.branch, !.branch = None,
                                 !.index = index, !.phase = "feed"]
               lost == [f EXCEPT !.branch = None, !.index = index, !.phase = "feed"]
    <2>2. g = IF Better(f) THEN won ELSE lost
      BY DEF Elected
    <2> HIDE DEF index, g, f
    <2>3. /\ won.context = f.context /\ won.branch = None /\ won.bestBranch = f.branch
          /\ lost.context = f.context /\ lost.branch = None /\ lost.bestBranch = f.bestBranch
      BY <1>2 DEF Frame
    <2>4. QED
      BY <2>1, <2>2, <2>3
  <1>6. base \in Seq(1..n)
    BY <1>2, <1>4, OntoTyped
  <1>7. S = Append(Onto(base, f.bestBranch), f.branch)
    BY <1>2, <1>3, OpenedOnto DEF Onto
  <1>8. o \o Opened(g) = Onto(base, g.bestBranch)
    BY <1>2, <1>5, OpenedOnto DEF Onto
  <1>9. handlerStack \in [Thread -> Seq(1..n)] /\ StacksApart(handlerStack)
    BY DEF TypedWith, HoldersInv, Apart
  <1>10. c = IF Better(f) THEN f.bestBranch ELSE f.branch
    BY DEF Loser
  <1>11. c # None
    OBVIOUS
  <1>12. Onto(base, f.bestBranch) \in Seq(1..n)
    BY <1>4, <1>6, OntoTyped
  <1> DEFINE Goal == /\ c \in 1..n
                     /\ \E i \in DOMAIN S : S[i] = c
                     /\ s = o \o Opened(g) /\ s \in Seq(1..n)
                     /\ \A hs2 : Restacked(handlerStack, hs2, t, s)
                                    => TakenOff(handlerStack, hs2, c)
  <1> HIDE DEF f, o, g, c, base
  <1>13. CASE ~Better(f)
    <2> DEFINE p == Onto(base, f.bestBranch)
    <2>1. c = f.branch /\ c \in 1..n /\ S = Append(p, c) /\ p \in Seq(1..n)
      BY <1>4, <1>7, <1>10, <1>12, <1>13
    <2>2. o \o Opened(g) = p
      BY <1>5, <1>8, <1>13
    <2> HIDE DEF S, p
    <2>3. s = p /\ \E i \in DOMAIN S : S[i] = c
      BY <2>1, RemoveLast
    <2>4. handlerStack[t] = Append(p, c)
      BY <2>1 DEF S
    <2> HIDE DEF s
    <2>5. ASSUME NEW hs2, Restacked(handlerStack, hs2, t, s)
          PROVE  TakenOff(handlerStack, hs2, c)
      <3>1. Restacked(handlerStack, hs2, t, p)
        BY <2>3, <2>5
      <3>2. QED
        BY <1>9, <2>1, <2>4, <3>1, PopApart
    <2>6. Goal
      BY <2>1, <2>2, <2>3, <2>5
    <2>7. QED
      BY <2>6 DEF f, o, g, c, S, s
  <1>14. CASE Better(f)
    <2> DEFINE d == f.branch
               v == Append(base, c)
               w == Append(base, d)
               k == Len(base) + 1
    <2>1. /\ c = f.bestBranch /\ c \in 1..n /\ d \in 1..n
          /\ S = Append(v, d)
      BY <1>4, <1>7, <1>10, <1>11, <1>14 DEF Pointer, None, Onto
    <2>2. o \o Opened(g) = w
      BY <1>3, <1>5, <1>8, <1>14 DEF Onto
    <2>3. /\ v \in Seq(1..n) /\ Len(v) = k /\ v[k] = c /\ Len(base) \in Nat
          /\ \A i \in 1..Len(base) : v[i] = base[i]
      BY <1>6, <2>1, AppendProperties
    <2>4. /\ w \in Seq(1..n) /\ Len(w) = k /\ w[k] = d
          /\ \A i \in 1..Len(base) : w[i] = base[i]
      BY <1>6, <2>1, AppendProperties
    <2> HIDE DEF S, w, v, d
    <2>5. /\ Len(S) = k + 1 /\ S[k + 1] = d /\ \A i \in 1..k : S[i] = v[i]
          /\ S \in Seq(1..n) /\ k \in 1..k
      BY <2>1, <2>3, AppendProperties
    <2>6. DOMAIN S = 1..(k + 1)
      BY <2>3, <2>5, LenProperties
    <2>7. S[k] = c /\ \A i \in 1..Len(base) : S[i] = base[i]
      BY <2>3, <2>5
    <2> HIDE DEF k
    <2>8. k \in Nat /\ Len(base) = k - 1
      BY <2>3 DEF k
    <2>9. c # d
      <3>1. k \in DOMAIN handlerStack[t] /\ k + 1 \in DOMAIN handlerStack[t]
        BY <2>3, <2>6, <2>8 DEF S, k
      <3>2. handlerStack[t][k] = c /\ handlerStack[t][k + 1] = d
        BY <2>5, <2>7 DEF S
      <3>3. k # k + 1
        BY <2>8
      <3>4. QED
        BY <1>9, <3>1, <3>2, <3>3 DEF StacksApart
    <2>10. s = w
      <3>1. RemoveFromStack(Append(Append(base, c), d), c) = Append(base, d)
        BY <1>6, <2>1, <2>9, RemoveBelowLast
      <3>2. QED
        BY <2>1, <3>1 DEF v, w
    <2>11. k \in DOMAIN S
      BY <2>3, <2>6, <2>8 DEF k
    <2> HIDE DEF s
    <2>12. ASSUME NEW hs2, Restacked(handlerStack, hs2, t, s)
           PROVE  TakenOff(handlerStack, hs2, c)
      <3>1. handlerStack \in Stacks /\ w \in Seq(Nat)
        <4>1. Seq(1..n) \subseteq Seq(Nat)
          BY SeqMonotonic
        <4>2. QED
          BY <2>4, <4>1, HeldTyped
      <3>2. /\ k \in 1..Len(handlerStack[t]) /\ Len(w) = Len(handlerStack[t]) - 1
            /\ handlerStack[t][k] = c
        BY <2>3, <2>4, <2>5, <2>7, <2>8 DEF S, k
      <3>3. ASSUME NEW i \in 1..Len(w)
            PROVE  w[i] = IF i < k THEN handlerStack[t][i] ELSE handlerStack[t][i + 1]
        <4>1. i \in 1..k
          BY <2>4
        <4>2. CASE i < k
          <5>1. i \in 1..Len(base)
            BY <2>8, <4>1, <4>2
          <5>2. QED
            BY <2>4, <2>7, <4>2, <5>1 DEF S
        <4>3. CASE ~(i < k)
          <5>1. i = k
            BY <2>8, <4>1, <4>3
          <5>2. QED
            BY <2>4, <2>5, <4>3, <5>1 DEF S
        <4>4. QED
          BY <4>2, <4>3
      <3>4. Restacked(handlerStack, hs2, t, w)
        BY <2>10, <2>12
      <3>5. TakenOff(handlerStack, hs2, handlerStack[t][k])
        BY <1>9, <3>1, <3>2, <3>3, <3>4, RemovedApart
      <3>6. QED
        BY <3>2, <3>5
    <2>13. Goal
      BY <2>1, <2>2, <2>4, <2>7, <2>10, <2>11, <2>12
    <2>14. QED
      BY <2>13 DEF f, o, g, c, S, s
  <1>15. QED
    BY <1>13, <1>14

(* Selector: the alternative is better than the best, or is given up.      *)
LEMMA ElectHolds ==
    ASSUME NEW n \in Nat, TypedWith(n), ThreadsInv, HoldersInv, NEW t \in Thread, SelectorFed(t)
    PROVE  ThreadsInv' /\ HoldersInv'
  <1> DEFINE f == Top(t)
             o == OpenedBy(Front(frames[t]))
             S == handlerStack[t]
             g == Elected(f)
             c == Loser(f)
             s == RemoveFromStack(S, c)
  <1>1. /\ Running(t, "fed", "selector") /\ InPhase(t, "fed") /\ Shape[f.rec].kind = "selector"
        /\ Become(t, g) /\ root' = root
    BY DEF SelectorFed, Running
  <1>2. /\ f \in Frame(n) /\ f.phase = "fed" /\ GoodFrame(f) /\ o \in Seq(1..n)
        /\ S = o \o Opened(f)
    BY <1>1, TopThread
  <1>3. /\ g \in Frame(n) /\ g.rec = f.rec /\ g.context = f.context /\ g.branch = None
        /\ g.bestBranch = (IF Better(f) THEN f.branch ELSE f.bestBranch) /\ g.phase = "feed"
    <2>1. g \in Frame(n)
      BY <1>2, NextFrameTyped
    <2> DEFINE index == f.index + 1
               won  == [f EXCEPT !.best = f.matched, !.bestBranch = f.branch, !.branch = None,
                                 !.index = index, !.phase = "feed"]
               lost == [f EXCEPT !.branch = None, !.index = index, !.phase = "feed"]
    <2>2. g = IF Better(f) THEN won ELSE lost
      BY DEF Elected
    <2> HIDE DEF index, g, f
    <2>3. /\ won.context = f.context /\ won.branch = None /\ won.bestBranch = f.branch
          /\ lost.context = f.context /\ lost.branch = None /\ lost.bestBranch = f.bestBranch
          /\ won.rec = f.rec /\ lost.rec = f.rec /\ won.phase = "feed" /\ lost.phase = "feed"
      BY <1>2 DEF Frame
    <2>4. QED
      BY <2>1, <2>2, <2>3
  <1>4. CASE c = None
    <2>1. status' = status /\ handlerStack' = handlerStack /\ contexts' = contexts
          /\ cached' = cached
      BY <1>4 DEF SelectorFed, heapVars
    <2> HIDE DEF f, o, S, g
    <2>2. Better(f) /\ f.bestBranch = None /\ f.branch # None
      BY <1>1, <1>2, <1>4 DEF Loser, GoodFrame
    <2>3. GoodFrame(g)
      BY <1>1, <1>2, <1>3 DEF GoodFrame
    <2>4. o \o Opened(g) = o \o Opened(f)
      BY <1>2, <1>3, <2>2, OpenedOnto DEF Onto
    <2>5. handlerStack'[t] = o \o Opened(g)
      BY <1>2, <2>1, <2>4 DEF S
    <2>6. ThreadsInv'
      BY <1>1, <1>3, <2>1, <2>3, <2>5, BecomeThread DEF f, o
    <2>7. QED
      BY <1>1, <2>1, <2>6, HoldersUnchanged
  <1>5. CASE c # None
    <2>1. /\ FatalUnless(t, \E i \in DOMAIN S : S[i] = c)
          /\ handlerStack' = [handlerStack EXCEPT ![t] = s]
          /\ contexts' = Cleared(contexts, c)
          /\ ReleaseContext(t, c)
      BY <1>5 DEF SelectorFed
    <2>2. /\ c \in 1..n /\ \E i \in DOMAIN S : S[i] = c
          /\ s = o \o Opened(g) /\ s \in Seq(1..n)
          /\ \A hs2 : Restacked(handlerStack, hs2, t, s)
                         => TakenOff(handlerStack, hs2, c)
      BY <1>1, <1>5, LoserOnStack
    <2>3. status' = status
      BY <2>1, <2>2 DEF FatalUnless, TypedWith
    <2> HIDE DEF f, o, S, g, c, s
    <2>4. Restacked(handlerStack, handlerStack', t, s)
      BY <2>1 DEF TypedWith, Restacked
    <2>5. TakenOff(handlerStack, handlerStack', c)
      BY <2>2, <2>4
    <2>6. GoodFrame(g)
      BY <1>1, <1>2, <1>3 DEF GoodFrame
    <2>7. /\ handlerStack'[t] = o \o Opened(g)
          /\ \A u \in Thread : u # t => handlerStack'[u] = handlerStack[u]
      BY <2>2, <2>4 DEF Restacked
    <2>8. ThreadsInv'
      BY <1>1, <1>3, <2>3, <2>6, <2>7, BecomeThread DEF f, o
    <2> DEFINE heap2 == Cleared(contexts, c)
    <2>9. /\ HeapApart(heap2) /\ \A x : InHeap(heap2, x) => InHeap(contexts, x)
          /\ heap2[c] = NewContext(contexts[c].handler)
          /\ \A e \in 1..n : e # c => heap2[e] = contexts[e]
      BY <2>2, ClearedHeap
    <2>10. contexts' = heap2
      BY <2>1
    <2> HIDE DEF heap2
    <2>11. \A e \in 1..n : heap2[e] = contexts[e] \/ InStacks(handlerStack, e)
      BY <2>5, <2>9 DEF TakenOff
    <2>12. Apart(handlerStack', root, heap2, cached') /\ Clean(heap2, cached')
      BY <2>1, <2>2, <2>5, <2>9, <2>11, RecycleApart
    <2>13. QED
      BY <1>1, <2>8, <2>10, <2>12 DEF HoldersInv
  <1>6. QED
    BY <1>4, <1>5

(* Selector: the best branch is the last of the stack, and the context it  *)
(* was taken from the one below it.                                        *)
LEMMA MergeHolds ==
    ASSUME NEW n \in Nat, TypedWith(n), ThreadsInv, HoldersInv, NEW t \in Thread, SelectorMerge(t)
    PROVE  ThreadsInv' /\ HoldersInv'
  <1> DEFINE f == Top(t)
             o == OpenedBy(Front(frames[t]))
             S == handlerStack[t]
             g == [Answer(f, f.best) EXCEPT !.bestBranch = None]
             c == f.bestBranch
             base == Onto(o, f.context)
             d == Back(base)
  <1>1. /\ InPhase(t, "feed") /\ Shape[f.rec].kind = "selector"
        /\ Become(t, g) /\ root' = root
    BY DEF SelectorMerge, Running
  <1>2. /\ f \in Frame(n) /\ f.phase = "feed" /\ GoodFrame(f) /\ o \in Seq(1..n)
        /\ S = o \o Opened(f) /\ S \in Seq(1..n)
        /\ f.context = None => o # <<>>
    BY <1>1, TopThread
  <1>3. f.branch = None /\ f.context \in Pointer(n) /\ f.bestBranch \in Pointer(n)
    BY <1>2 DEF GoodFrame, Frame
  <1>4. base \in Seq(1..n) /\ base # <<>>
    <2>1. base \in Seq(1..n)
      BY <1>2, <1>3, OntoTyped
    <2>2. CASE f.context = None
      BY <1>2, <2>1, <2>2 DEF Onto
    <2>3. CASE f.context # None
      <3>1. f.context \in 1..n
        BY <1>3, <2>3 DEF Pointer, None
      <3>2. Append(o, f.context) # <<>>
        BY <1>2, <3>1, PopAppend
      <3>3. QED
        BY <2>1, <2>3, <3>2 DEF Onto
    <2>4. QED
      BY <2>2, <2>3
  <1>5. S = Onto(base, c)
    BY <1>2, <1>3, OpenedOnto DEF Onto
  <1>6. /\ g \in Frame(n) /\ g.rec = f.rec /\ g.context = f.context /\ g.branch = None
        /\ g.bestBranch = None /\ g.phase = "end"
    <2>1. g \in Frame(n)
      BY <1>2, NextFrameTyped
    <2> DEFINE a == Answer(f, f.best)
    <2>2. a \in Frame(n) /\ HoldsAs(f, a) /\ a.phase = "end"
      <3>1. f.best \in Matched
        BY <1>2 DEF Frame
      <3>2. QED
        BY <1>2, <3>1, NextFrameTyped, NextFrameHolds
    <2> HIDE DEF f, a
    <2>3. /\ g.rec = a.rec /\ g.context = a.context /\ g.branch = a.branch
          /\ g.bestBranch = None /\ g.phase = a.phase
      <3>1. g = [a EXCEPT !.bestBranch = None]
        BY DEF a
      <3>2. QED
        BY <2>2, <3>1 DEF Frame
    <2>4. QED
      BY <1>3, <2>1, <2>2, <2>3 DEF HoldsAs
  <1> HIDE DEF g
  <1>7. GoodFrame(g)
    BY <1>1, <1>2, <1>6 DEF GoodFrame
  <1>8. o \o Opened(g) = base
    BY <1>2, <1>6, OpenedOnto DEF Onto
  <1>9. CASE c = None
    <2>1. status' = status /\ handlerStack' = handlerStack /\ contexts' = contexts
          /\ cached' = cached
      BY <1>9 DEF SelectorMerge, heapVars
    <2> HIDE DEF f, o, S
    <2>2. handlerStack'[t] = o \o Opened(g)
      BY <1>5, <1>8, <1>9, <2>1 DEF Onto, S
    <2>3. ThreadsInv'
      BY <1>1, <1>6, <1>7, <2>1, <2>2, BecomeThread DEF f, o
    <2>4. QED
      BY <1>1, <2>1, <2>3, HoldersUnchanged
  <1>10. CASE c # None
    <2>1. c \in 1..n /\ S = Append(base, c)
      BY <1>3, <1>5, <1>10 DEF Pointer, None, Onto
    <2>2. Pop(S) = base /\ Back(S) = c
      BY <1>4, <2>1, PopAppend
    <2>3. /\ FatalUnless(t, Back(S) = c)
          /\ handlerStack' = [handlerStack EXCEPT ![t] = base]
          /\ contexts' = Cleared(Merged(contexts, d, c), c)
          /\ ReleaseContext(t, c)
      BY <1>10, <2>2 DEF SelectorMerge
    <2>4. status' = status
      BY <2>2, <2>3 DEF FatalUnless, TypedWith
    <2>5. handlerStack \in [Thread -> Seq(1..n)] /\ StacksApart(handlerStack)
      BY DEF TypedWith, HoldersInv, Apart
    <2> HIDE DEF f, o, S, c, base, d
    <2>6. handlerStack'[t] = base /\ handlerStack' \in [Thread -> Seq(1..n)]
      BY <1>4, <2>3, <2>5
    <2>7. Restacked(handlerStack, handlerStack', t, base)
      BY <2>3, <2>5 DEF Restacked
    <2>8. TakenOff(handlerStack, handlerStack', c)
      BY <1>4, <2>1, <2>5, <2>7, PopApart DEF S
    <2>9. d \in 1..n /\ InStacks(handlerStack', d)
      BY <1>4, <2>6, LastInStack DEF d
    <2>10. d # c /\ InStacks(handlerStack, d) /\ InStacks(handlerStack, c)
      BY <2>8, <2>9 DEF TakenOff
    <2>11. /\ handlerStack'[t] = o \o Opened(g)
           /\ \A u \in Thread : u # t => handlerStack'[u] = handlerStack[u]
      BY <1>8, <2>7 DEF Restacked
    <2>12. ThreadsInv'
      BY <1>1, <1>6, <1>7, <2>4, <2>11, BecomeThread DEF f, o
    <2> DEFINE heap2 == Cleared(Merged(contexts, d, c), c)
    <2>13. contexts \in Heap(n) /\ DOMAIN contexts = 1..n /\ HeapApart(contexts)
      BY HeldTyped DEF HoldersInv, Apart
    <2>14. /\ HeapApart(heap2) /\ \A x : InHeap(heap2, x) => InHeap(contexts, x)
           /\ heap2[c] = [contexts[c] EXCEPT !.assignments = <<>>]
           /\ \A e \in 1..n : e # d /\ e # c => heap2[e] = contexts[e]
      <3>1. Moved(contexts, heap2, d, c)
        BY <2>1, <2>9, <2>10, <2>13, MovedApart DEF heap2
      <3>2. QED
        BY <2>13, <3>1 DEF Moved
    <2>15. contexts' = heap2
      BY <2>3
    <2> HIDE DEF heap2
    <2>16. heap2[c] = NewContext(contexts[c].handler)
      <3>1. contexts[c] \in HandlerContext(n)
        BY <2>1, <2>13, HeapAt
      <3>2. QED
        BY <2>14, <3>1 DEF NewContext, HandlerContext
    <2>17. \A e \in 1..n : heap2[e] = contexts[e] \/ InStacks(handlerStack, e)
      BY <2>10, <2>14
    <2>18. Apart(handlerStack', root, heap2, cached') /\ Clean(heap2, cached')
      BY <2>1, <2>3, <2>8, <2>14, <2>16, <2>17, RecycleApart
    <2>19. QED
      BY <1>1, <2>12, <2>15, <2>18 DEF HoldersInv
  <1>11. QED
    BY <1>9, <1>10

----------------------------------------------------------------------------
(* The inductive invariant.                                                *)
IInv == TypeOK /\ ThreadsInv /\ HoldersInv

(* It holds before the first parse ...                                     *)
LEMMA InitHolds == Init => IInv
  <1> SUFFICES ASSUME Init PROVE ThreadsInv /\ HoldersInv
    BY InitTyped DEF IInv
  <1>1. ThreadsInv
    BY OpenedByEmpty DEF Init, ThreadsInv, GoodThread
  <1>2. /\ \A c : ~InStacks(handlerStack, c) /\ ~InHeap(contexts, c)
        /\ StacksApart(handlerStack) /\ HeapApart(contexts)
    <2>1. (\A t \in Thread : DOMAIN handlerStack[t] = {}) /\ DOMAIN contexts = {}
      BY DEF Init
    <2>2. QED
      BY <2>1 DEF InStacks, InHeap, StacksApart, HeapApart
  <1>3. \A c : c # None => ~InRoots(root, c) /\ ~InCaches(cached, c)
    BY DEF Init, InRoots, InCaches
  <1>4. RootsApart(root) /\ CachesApart(cached) /\ Clean(contexts, cached)
    BY DEF Init, RootsApart, CachesApart, Clean
  <1>5. KindsApart(handlerStack, root, contexts, cached)
    BY <1>2, <1>3 DEF KindsApart, OneKind
  <1>6. QED
    BY <1>1, <1>2, <1>4, <1>5 DEF HoldersInv, Apart

(* ... and every step of every thread keeps it ...                         *)
LEMMA NextHolds == IInv /\ [Next]_vars => IInv'
  <1> SUFFICES ASSUME IInv, [Next]_vars PROVE IInv'
    OBVIOUS
  <1>0. TypeOK'
    BY NextTyped DEF IInv
  <1>1. PICK n \in Nat : TypedWith(n)
    BY TypeOKIsTypedWith DEF IInv
  <1>2. ThreadsInv /\ HoldersInv
    BY DEF IInv
  <1>3. ASSUME NEW t \in Thread, StartParse(t) \/ Work(t)
        PROVE  ThreadsInv' /\ HoldersInv'
    <2>1. CASE StartParse(t) \/ FinishParse(t)
      BY <1>1, <1>2, <2>1, ParseHolds
    <2>2. CASE BeginParse(t)
      BY <1>1, <1>2, <2>2, BeginHandledHolds, BeginPlainHolds DEF BeginParse
    <2>3. CASE PlainFeed(t)
      BY <1>1, <1>2, <2>3, PlainFeedHolds
    <2>4. CASE SelectorStep(t)
      BY <1>1, <1>2, <2>4, BranchHolds, ElectHolds, MergeHolds DEF SelectorStep
    <2>5. CASE EndParse(t)
      BY <1>1, <1>2, <2>5, EndElementHolds, DropElementHolds, EndTextHolds, UndoTextHolds
         DEF EndParse
    <2>6. QED
      BY <1>3, <2>1, <2>2, <2>3, <2>4, <2>5 DEF Work, Feed, PlainFeed, SelectorStep
  <1>4. ASSUME UNCHANGED vars PROVE ThreadsInv' /\ HoldersInv'
    <2>1. UNCHANGED <<status, frames, handlerStack, root, contexts, cached>>
      BY <1>4 DEF vars, parseVars, heapVars
    <2>2. QED
      BY <1>2, <2>1 DEF ThreadsInv, HoldersInv
  <1>5. ThreadsInv' /\ HoldersInv'
    BY <1>3, <1>4 DEF Next, AllDone
  <1>6. QED
    BY <1>0, <1>5 DEF IInv

(* ... so it always holds.                                                 *)
LEMMA IInvHolds == Spec => []IInv
  <1>1. QED
    BY InitHolds, NextHolds, PTL DEF Spec

(* Places that are apart hold a context once.                              *)
LEMMA OneHolder == IInv => ContextHasOneHolder
  <1> SUFFICES ASSUME IInv, NEW c \in DOMAIN contexts PROVE Cardinality(Holders(c)) <= 1
    BY DEF ContextHasOneHolder
  <1>1. c # None
    <2>1. PICK n \in Nat : TypedWith(n)
      BY TypeOKIsTypedWith DEF IInv
    <2>2. QED
      BY <2>1, HeldTyped DEF None
  <1>2. /\ StacksApart(handlerStack) /\ RootsApart(root) /\ HeapApart(contexts)
        /\ CachesApart(cached) /\ OneKind(handlerStack, root, contexts, cached, c)
    BY <1>1 DEF IInv, HoldersInv, Apart, KindsApart
  <1> DEFINE onStack(x) == \E t \in Thread : \E i \in DOMAIN handlerStack[t] :
                              x = <<"stack", t, i>> /\ handlerStack[t][i] = c
             isRoot(x)  == \E t \in Thread : x = <<"root", t, 0>> /\ root[t] = c
             isChild(x) == \E d \in DOMAIN contexts : \E i \in DOMAIN contexts[d].assignments :
                              /\ x = <<"child", d, i>>
                              /\ contexts[d].assignments[i].child = c
             inCache(x) == \E h \in Handled : x = <<"cache", h, 0>> /\ cached[h] = c
  <1>3. ASSUME NEW x \in Holders(c)
        PROVE  onStack(x) \/ isRoot(x) \/ isChild(x) \/ inCache(x)
    <2> DEFINE stacks == UNION {{<<"stack", t, i>> : i \in {k \in DOMAIN handlerStack[t] :
                                                            handlerStack[t][k] = c}}
                                : t \in Thread}
               roots == {<<"root", t, 0>> : t \in {u \in Thread : root[u] = c}}
               children == UNION {{<<"child", d, i>> :
                                      i \in {k \in DOMAIN contexts[d].assignments :
                                                contexts[d].assignments[k].child = c}}
                                  : d \in DOMAIN contexts}
               caches == {<<"cache", h, 0>> : h \in {k \in Handled : cached[k] = c}}
    <2>1. x \in stacks => onStack(x)
      OBVIOUS
    <2>2. x \in roots => isRoot(x)
      OBVIOUS
    <2>3. x \in children => isChild(x)
      OBVIOUS
    <2>4. x \in caches => inCache(x)
      OBVIOUS
    <2>5. Holders(c) = stacks \cup roots \cup children \cup caches
      BY Zenon DEF Holders
    <2> HIDE DEF stacks, roots, children, caches, onStack, isRoot, isChild, inCache
    <2>6. QED
      BY <2>1, <2>2, <2>3, <2>4, <2>5
  <1>4. ASSUME NEW x \in Holders(c), NEW y \in Holders(c) PROVE x = y
    <2>1. /\ onStack(x) => InStacks(handlerStack, c)
          /\ onStack(y) => InStacks(handlerStack, c)
      BY DEF InStacks
    <2>2. /\ isRoot(x) => InRoots(root, c)
          /\ isRoot(y) => InRoots(root, c)
      BY DEF InRoots
    <2>3. /\ isChild(x) => InHeap(contexts, c)
          /\ isChild(y) => InHeap(contexts, c)
      BY DEF InHeap
    <2>4. /\ inCache(x) => InCaches(cached, c)
          /\ inCache(y) => InCaches(cached, c)
      BY DEF InCaches
    <2>5. onStack(x) /\ onStack(y) => x = y
      BY <1>2 DEF StacksApart
    <2>6. isRoot(x) /\ isRoot(y) => x = y
      BY <1>1, <1>2 DEF RootsApart
    <2>7. isChild(x) /\ isChild(y) => x = y
      BY <1>1, <1>2 DEF HeapApart
    <2>8. inCache(x) /\ inCache(y) => x = y
      BY <1>1, <1>2 DEF CachesApart
    <2>9. /\ onStack(x) \/ isRoot(x) \/ isChild(x) \/ inCache(x)
          /\ onStack(y) \/ isRoot(y) \/ isChild(y) \/ inCache(y)
      BY <1>3
    <2> HIDE DEF onStack, isRoot, isChild, inCache
    <2>10. QED
      BY <1>2, <2>1, <2>2, <2>3, <2>4, <2>5, <2>6, <2>7, <2>8, <2>9 DEF OneKind
  <1>5. CASE Holders(c) = {}
    BY <1>5, FS_EmptySet
  <1>6. CASE Holders(c) # {}
    <2>1. PICK x : x \in Holders(c)
      BY <1>6
    <2> DEFINE held == Holders(c)
    <2>2. \A y \in held : y = x
      BY <1>4, <2>1
    <2>3. x \in held
      BY <2>1
    <2> HIDE DEF held
    <2>4. held = {x}
      BY <2>2, <2>3
    <2>5. QED
      BY <2>4, FS_Singleton DEF held
  <1>7. QED
    BY <1>5, <1>6

(* The three fatal() tests of parser.h never stop the program, for every   *)
(* grammar, any number of threads and any texts: beginParse() finds an     *)
(* element, _removeBranch() finds the branch, _merge() finds the best      *)
(* branch last.                                                            *)
THEOREM ParserNeverAborts == Spec => []NeverAborts
  <1>1. IInv => NeverAborts
    BY DEF IInv, ThreadsInv, GoodThread, NeverAborts
  <1>2. QED
    BY <1>1, IInvHolds, PTL

(* The handler stack of every thread is exactly what its open activations  *)
(* have pushed, in the order they were called: branches that lose, win or  *)
(* fail leave nothing behind and take nothing of an outer activation.      *)
THEOREM StackIsExact == Spec => []StackIsOpenActivations
  <1>1. IInv => StackIsOpenActivations
    BY DEF IInv, ThreadsInv, GoodThread, StackIsOpenActivations, OpenedBy
  <1>2. QED
    BY <1>1, IInvHolds, PTL

(* A context is held in one place at a time, a stack, a root, an           *)
(* assignment or a cache, whatever the other threads do: createContext()   *)
(* never hands out a context that is still in use.                         *)
THEOREM HoldersAreUnique == Spec => []ContextHasOneHolder
  BY OneHolder, IInvHolds, PTL

(* The context that a handler caches is the handler's own and has no       *)
(* assignment left from the attempt it was used for.                       *)
THEOREM CacheIsClean == Spec => []CachedContextIsClean
  <1>1. IInv => CachedContextIsClean
    BY DEF IInv, HoldersInv, Clean, CachedContextIsClean
  <1>2. QED
    BY <1>1, IInvHolds, PTL

==============================================================================
