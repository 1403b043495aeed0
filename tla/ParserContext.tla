---------------------------- MODULE ParserContext ----------------------------
(***************************************************************************)
(* Parser::parseInput(): a thread walks the recognizer graph with the      *)
(* recursive Recognizer::feed(), and its ParserContext builds, tries and   *)
(* abandons HandlerContexts on the way.  One action is one step of one     *)
(* feed() activation.  Threads share the parser: its handlers, hence the   *)
(* context each handler caches; everything else of a parse is the          *)
(* thread's own.                                                           *)
(***************************************************************************)
EXTENDS ParsedObjects, FiniteSets

CONSTANTS
    Thread,     \* the threads that call parseInput() on one Parser
    Script      \* bound: which sequences of calls the threads may make

(* A call of parseInput(): the rule, the text, and full_match.             *)
Request == [rule : Handled, input : Seq(Char), full : BOOLEAN]

ASSUME ScriptAssumption == Script \subseteq [Thread -> Seq(Request)]

(* A null pointer, whatever it points to.  Contexts are numbered in the    *)
(* order of their creation, from 1: an identity is never used again.       *)
None == 0

VARIABLES
    status,        \* status[t]: what thread t is doing
    script,        \* script[t]: the calls of parseInput() that t makes
    parses,        \* parses[t]: how many of them t has started
    frames,        \* frames[t]: its activations of Recognizer::feed(), innermost last
    handlerStack,  \* handlerStack[t]: ParserContext::mHandlerStack
    root,          \* root[t]: ParserContext::mRoot
    parsed,        \* parsed[t]: what the outermost feed() answered
    outcome,       \* outcome[t]: what parseInput() gave back
    contexts,      \* contexts[c]: the HandlerContext c
    cached         \* cached[h]: ParserHandlerBase::mCachedContext

parseVars == <<status, script, parses, parsed, outcome>>
heapVars  == <<contexts, cached>>
vars      == <<parseVars, frames, handlerStack, root, heapVars>>

(* An activation of feed() and of the _feed() it calls.  begin, context    *)
(* and mark are feed()'s pos and its ParserLocalContext; the others are    *)
(* the local variables of the _feed() functions.                           *)
Phase == {"begin", "feed", "fed", "end"}

(* A pointer to one of n contexts, or None; and what holds such pointers.  *)
Pointer(n) == 0..n

Frame(n) == [rec : Recognizer, phase : Phase, begin : Nat, context : Pointer(n),
             mark : Nat, pos : Nat, index : Nat, total : Nat, matched : Matched,
             best : Matched, branch : Pointer(n), bestBranch : Pointer(n)]

Assignment(n) == [rule : Rule, begin : Nat, count : Nat, child : Pointer(n)]

HandlerContext(n) == [handler : Handled, assignments : Seq(Assignment(n))]

Activation(r, pos) ==
    [rec |-> r, phase |-> "begin", begin |-> pos, context |-> None, mark |-> 0,
     pos |-> pos, index |-> 0, total |-> 0, matched |-> 0,
     best |-> NPos, branch |-> None, bestBranch |-> None]

Init ==
    /\ status = [t \in Thread |-> "idle"]
    /\ parses = [t \in Thread |-> 0]
    /\ script \in Script
    /\ frames = [t \in Thread |-> <<>>]
    /\ handlerStack = [t \in Thread |-> <<>>]
    /\ root = [t \in Thread |-> None]
    /\ parsed = [t \in Thread |-> NPos]
    /\ outcome = [t \in Thread |-> NoOutcome]
    /\ contexts = <<>>
    /\ cached = [h \in Handled |-> None]

----------------------------------------------------------------------------
(* The contexts of a handler.                                              *)

NewContext(h) == [handler |-> h, assignments |-> <<>>]

(* The cache of a handler is found locked only while another thread is     *)
(* inside createContext() or releaseContext(): module ContextCache has     *)
(* their statements.                                                       *)
CacheMayBeLocked(t) == \E u \in Thread \ {t} : status[u] = "parsing"

(* Mutant: the cache still has the context that it gave.                   *)
CreateAndKeepCached(t, h, c) ==
    \/ /\ cached[h] # None
       /\ c = cached[h]
       /\ UNCHANGED heapVars
    \/ /\ cached[h] = None
       /\ c = Len(contexts) + 1
       /\ contexts' = Append(contexts, NewContext(h))
       /\ UNCHANGED cached

(* createContext(): the cached context if there is one and it can be had.  *)
CreateContext(t, h, c) ==
    \/ /\ cached[h] # None
       /\ c = cached[h]
       /\ cached' = [cached EXCEPT ![h] = None]
       /\ UNCHANGED contexts
    \/ /\ cached[h] = None \/ CacheMayBeLocked(t)
       /\ c = Len(contexts) + 1
       /\ contexts' = Append(contexts, NewContext(h))
       /\ UNCHANGED cached

(* Mutant: the context is recycled with its assignments.                   *)
NotCleared(heap, c) == heap

(* recycle(): clear the assignments, and cache the context unless the      *)
(* cache is locked.                                                        *)
Cleared(heap, c) == [heap EXCEPT ![c].assignments = <<>>]

ReleaseContext(t, c) ==
    \/ cached' = [cached EXCEPT ![contexts[c].handler] = c]
    \/ /\ CacheMayBeLocked(t)
       /\ UNCHANGED cached

(* setChild(): an assignment, if the handler of c collects the rule.       *)
SetChild(c, rule, begin, count, child) ==
    contexts' = IF rule \in Collected[contexts[c].handler]
                THEN [contexts EXCEPT ![c].assignments =
                         Append(@, [rule |-> rule, begin |-> begin,
                                    count |-> count, child |-> child])]
                ELSE contexts

(* Mutant: undoAssignments() is asked to drop everything.                  *)
FirstIterator(heap, c) == 0

(* getLastIterator(): where the assignments to come begin.                 *)
LastIterator(heap, c) == Len(heap[c].assignments)

----------------------------------------------------------------------------
(* The handler stack, and the innermost activation.                        *)

Take(s, n)  == SubSeq(s, 1, IF n < Len(s) THEN n ELSE Len(s))
Back(stack) == IF stack = <<>> THEN None ELSE Last(stack)
Pop(stack)  == IF stack = <<>> THEN <<>> ELSE Front(stack)

(* _removeBranch() looks for the branch from the back of the stack.        *)
IsLastPlace(stack, c, i) ==
    /\ i \in DOMAIN stack
    /\ stack[i] = c
    /\ \A j \in DOMAIN stack : j > i => stack[j] # c

(* Mutant: the branch is taken to be the last of the stack.                *)
PopFromStack(stack, c) == Pop(stack)

RemoveFromStack(stack, c) ==
    IF \E i \in DOMAIN stack : IsLastPlace(stack, c, i)
    THEN RemoveAt(stack, CHOOSE i \in DOMAIN stack : IsLastPlace(stack, c, i))
    ELSE stack

Top(t) == Last(frames[t])
Call(t) == script[t][parses[t]]

InPhase(t, phase) ==
    /\ status[t] = "parsing"
    /\ frames[t] # <<>>
    /\ Top(t).phase = phase

Running(t, phase, kind) ==
    /\ InPhase(t, phase)
    /\ Shape[Top(t).rec].kind = kind

Become(t, f) == frames' = [frames EXCEPT ![t] = Append(Front(@), f)]

(* Call feed() on an element, and come back in phase "fed".                *)
CallFeed(t, f, element) ==
    frames' = [frames EXCEPT ![t] =
                  Front(@) \o <<[f EXCEPT !.phase = "fed"],
                                Activation(element, f.pos)>>]

Answer(f, matched) == [f EXCEPT !.phase = "end", !.matched = matched]

(* fatal() stops the program: the thread takes no further step.            *)
FatalUnless(t, ok) == status' = [status EXCEPT ![t] = IF ok THEN @ ELSE "aborted"]

----------------------------------------------------------------------------
(* Recognizer::feed(), before and after _feed().                           *)

BeginHandled(t) ==
    /\ InPhase(t, "begin")
    /\ Top(t).rec \in Handled
    /\ \E c \in 1..(Len(contexts) + 1) :
          /\ CreateContext(t, Top(t).rec, c)
          /\ handlerStack' = [handlerStack EXCEPT ![t] = Append(@, c)]
          /\ Become(t, [Top(t) EXCEPT !.phase = "feed", !.context = c,
                           !.mark = LastIterator(contexts', c)])
    /\ UNCHANGED <<parseVars, root>>

BeginPlain(t) ==
    /\ InPhase(t, "begin")
    /\ Top(t).rec \notin Handled
    /\ FatalUnless(t, handlerStack[t] # <<>>)
    /\ handlerStack[t] # <<>> =>
          Become(t, [Top(t) EXCEPT !.phase = "feed",
                        !.mark = LastIterator(contexts, Back(handlerStack[t]))])
    /\ handlerStack[t] = <<>> => UNCHANGED frames
    /\ UNCHANGED <<parses, script, parsed, outcome, handlerStack, root, heapVars>>

(* feed() returns to the activation that called it, or to parseInput().    *)
Return(t) ==
    LET below == Front(frames[t])
    IN  IF below = <<>>
        THEN /\ frames' = [frames EXCEPT ![t] = <<>>]
             /\ parsed' = [parsed EXCEPT ![t] = Top(t).matched]
        ELSE /\ frames' = [frames EXCEPT ![t] =
                              Append(Front(below),
                                     [Last(below) EXCEPT !.matched = Top(t).matched])]
             /\ UNCHANGED parsed

(* Mutant: matching nothing is neither a success nor a failure.            *)
OnlyNPosFails(t) == InPhase(t, "end") /\ Top(t).matched = NPos

Matching(t) == InPhase(t, "end") /\ Top(t).matched > 0
Failing(t)  == InPhase(t, "end") /\ Top(t).matched <= 0

(* _endParse(), its four cases: an element to keep is the child of the     *)
(* element below it, or the root ...                                       *)
EndElement(t) ==
    LET f == Top(t)
        below == Pop(handlerStack[t])
    IN  /\ Matching(t)
        /\ f.context # None
        /\ handlerStack' = [handlerStack EXCEPT ![t] = below]
        /\ IF below # <<>>
           THEN /\ SetChild(Last(below), f.rec, f.begin, f.matched, f.context)
                /\ UNCHANGED root
           ELSE /\ root' = [root EXCEPT ![t] = f.context]
                /\ UNCHANGED contexts
        /\ Return(t)
        /\ UNCHANGED <<status, parses, script, outcome, cached>>

(* ... an element that matched nothing is recycled ...                     *)
DropElement(t) ==
    LET f == Top(t)
    IN  /\ Failing(t)
        /\ f.context # None
        /\ handlerStack' = [handlerStack EXCEPT ![t] = Pop(@)]
        /\ contexts' = Cleared(contexts, f.context)
        /\ ReleaseContext(t, f.context)
        /\ Return(t)
        /\ UNCHANGED <<status, parses, script, outcome, root>>

(* ... what a rule with no handler matched is a value of the element ...   *)
EndText(t) ==
    LET f == Top(t)
    IN  /\ Matching(t)
        /\ f.context = None
        /\ IF f.rec \in Rule
           THEN SetChild(Back(handlerStack[t]), f.rec, f.begin, f.matched, None)
           ELSE UNCHANGED contexts
        /\ Return(t)
        /\ UNCHANGED <<status, parses, script, outcome, handlerStack, root, cached>>

(* ... and when nothing matched, undoAssignments() drops what was assigned *)
(* to the element since beginParse().                                      *)
UndoText(t) ==
    LET f == Top(t)
    IN  /\ Failing(t)
        /\ f.context = None
        /\ contexts' = [contexts EXCEPT ![Back(handlerStack[t])].assignments =
                           Take(@, f.mark)]
        /\ Return(t)
        /\ UNCHANGED <<status, parses, script, outcome, handlerStack, root, cached>>

----------------------------------------------------------------------------
(* The _feed() of each kind of recognizer: what it does when it is entered *)
(* or comes round its loop (phase "feed"), and when an element it has fed  *)
(* answers (phase "fed").                                                  *)

Elements(f) == Shape[f.rec].elements
MoreElements(f) == f.index < Len(Elements(f))

FeedText(t) ==
    /\ Running(t, "feed", "text")
    /\ Become(t, Answer(Top(t), MatchText(Top(t).rec, Call(t).input, Top(t).pos)))
    /\ UNCHANGED <<parseVars, handlerStack, root, heapVars>>

FeedDelegate(t) ==
    /\ Running(t, "feed", "delegate")
    /\ CallFeed(t, Top(t), Elements(Top(t))[1])
    /\ UNCHANGED <<parseVars, handlerStack, root, heapVars>>

DelegateFed(t) ==
    /\ Running(t, "fed", "delegate")
    /\ Become(t, Answer(Top(t), Top(t).matched))
    /\ UNCHANGED <<parseVars, handlerStack, root, heapVars>>

(* Mutant: a sequence answers where it has arrived, not how much it took.  *)
AnswerPlace(t) ==
    LET f == Top(t)
    IN  /\ Running(t, "feed", "sequence")
        /\ IF MoreElements(f)
           THEN CallFeed(t, f, Elements(f)[f.index + 1])
           ELSE Become(t, Answer(f, f.pos))
        /\ UNCHANGED <<parseVars, handlerStack, root, heapVars>>

(* Sequence: all the elements, one after the other.                        *)
FeedSequence(t) ==
    LET f == Top(t)
    IN  /\ Running(t, "feed", "sequence")
        /\ IF MoreElements(f)
           THEN CallFeed(t, f, Elements(f)[f.index + 1])
           ELSE Become(t, Answer(f, f.total))
        /\ UNCHANGED <<parseVars, handlerStack, root, heapVars>>

Advance(f) == [f EXCEPT !.pos = @ + f.matched, !.total = @ + f.matched,
                        !.index = @ + 1, !.phase = "feed"]

(* Mutant: an element that does not match does not stop the sequence.      *)
SequenceGoesOn(t) ==
    /\ Running(t, "fed", "sequence")
    /\ Become(t, Advance(Top(t)))
    /\ UNCHANGED <<parseVars, handlerStack, root, heapVars>>

SequenceFed(t) ==
    LET f == Top(t)
    IN  /\ Running(t, "fed", "sequence")
        /\ Become(t, IF f.matched = NPos THEN Answer(f, NPos) ELSE Advance(f))
        /\ UNCHANGED <<parseVars, handlerStack, root, heapVars>>

(* Exclusive selector: the first alternative that matches something.       *)
FeedExclusive(t) ==
    LET f == Top(t)
    IN  /\ Running(t, "feed", "exclusive")
        /\ IF MoreElements(f)
           THEN CallFeed(t, f, Elements(f)[f.index + 1])
           ELSE Become(t, Answer(f, NPos))
        /\ UNCHANGED <<parseVars, handlerStack, root, heapVars>>

ExclusiveFed(t) ==
    LET f == Top(t)
    IN  /\ Running(t, "fed", "exclusive")
        /\ Become(t, IF f.matched > 0
                     THEN Answer(f, f.matched)
                     ELSE [f EXCEPT !.index = @ + 1, !.phase = "feed"])
        /\ UNCHANGED <<parseVars, handlerStack, root, heapVars>>

(* Loop.  The repetitions of an unbounded loop are counted up to mMin, the *)
(* only number they are compared with.                                     *)
LoopAnswer(f) == Answer(f, IF f.index < Shape[f.rec].min THEN NPos ELSE f.total)

Repeated(f) ==
    LET next == Advance(f)
    IN  IF Shape[f.rec].max = Unbounded /\ f.index >= Shape[f.rec].min
        THEN [next EXCEPT !.index = f.index]
        ELSE next

FeedLoop(t) ==
    LET f == Top(t)
    IN  /\ Running(t, "feed", "loop")
        /\ IF LoopGoesOn(f.rec, f.index, Call(t).input, f.pos)
           THEN CallFeed(t, f, Elements(f)[1])
           ELSE Become(t, LoopAnswer(f))
        /\ UNCHANGED <<parseVars, handlerStack, root, heapVars>>

LoopFed(t) ==
    LET f == Top(t)
    IN  /\ Running(t, "fed", "loop")
        /\ Become(t, IF f.matched = NPos THEN LoopAnswer(f) ELSE Repeated(f))
        /\ UNCHANGED <<parseVars, handlerStack, root, heapVars>>

(* Selector: every alternative is tried on a branch of its own, pushed on  *)
(* the handler stack above the best branch so far.                         *)
SelectorBranch(t) ==
    LET f == Top(t)
        stack == handlerStack[t]
    IN  /\ Running(t, "feed", "selector")
        /\ MoreElements(f)
        /\ FatalUnless(t, stack # <<>>)
        /\ IF stack = <<>>
           THEN UNCHANGED <<frames, handlerStack, heapVars>>
           ELSE \E c \in 1..(Len(contexts) + 1) :
                   /\ CreateContext(t, contexts[Last(stack)].handler, c)
                   /\ handlerStack' = [handlerStack EXCEPT ![t] = Append(@, c)]
                   /\ CallFeed(t, [f EXCEPT !.branch = c], Elements(f)[f.index + 1])
        /\ UNCHANGED <<parses, script, parsed, outcome, root>>

(* Mutant: the last of the longest alternatives.                           *)
AsLongIsBetter(f) == f.matched # NPos /\ (f.matched >= f.best \/ f.best = NPos)

(* The alternative is better when it is the first to match or longer; the  *)
(* branch that loses is removed and recycled.                              *)
Better(f) == f.matched # NPos /\ (f.matched > f.best \/ f.best = NPos)

Elected(f) ==
    IF Better(f)
    THEN [f EXCEPT !.best = f.matched, !.bestBranch = f.branch, !.branch = None,
                   !.index = @ + 1, !.phase = "feed"]
    ELSE [f EXCEPT !.branch = None, !.index = @ + 1, !.phase = "feed"]

(* Mutant: an alternative that fails leaves its branch on the stack.       *)
OnlyBestLoses(f) == IF Better(f) THEN f.bestBranch ELSE None

Loser(f) == IF Better(f) THEN f.bestBranch ELSE f.branch

SelectorFed(t) ==
    LET f == Top(t)
        loser == Loser(f)
        stack == handlerStack[t]
    IN  /\ Running(t, "fed", "selector")
        /\ Become(t, Elected(f))
        /\ IF loser = None
           THEN UNCHANGED <<status, handlerStack, heapVars>>
           ELSE /\ FatalUnless(t, \E i \in DOMAIN stack : stack[i] = loser)
                /\ handlerStack' = [handlerStack EXCEPT ![t] = RemoveFromStack(@, loser)]
                /\ contexts' = Cleared(contexts, loser)
                /\ ReleaseContext(t, loser)
        /\ UNCHANGED <<parses, script, parsed, outcome, root>>

(* The best branch gives its assignments to the context it was taken from. *)
Merged(heap, c, other) ==
    [heap EXCEPT ![c].assignments = @ \o heap[other].assignments]

SelectorMerge(t) ==
    LET f == Top(t)
        best == f.bestBranch
        below == Pop(handlerStack[t])
    IN  /\ Running(t, "feed", "selector")
        /\ ~MoreElements(f)
        /\ Become(t, [Answer(f, f.best) EXCEPT !.bestBranch = None])
        /\ IF best = None
           THEN UNCHANGED <<status, handlerStack, heapVars>>
           ELSE /\ FatalUnless(t, Back(handlerStack[t]) = best)
                /\ handlerStack' = [handlerStack EXCEPT ![t] = below]
                /\ contexts' = Cleared(Merged(contexts, Back(below), best), best)
                /\ ReleaseContext(t, best)
        /\ UNCHANGED <<parses, script, parsed, outcome, root>>

----------------------------------------------------------------------------
(* Parser::parseInput() around feed().                                     *)

(* What realize() builds of the assignments of each context, in order.     *)
Parts(heap) ==
    LET parts[c \in DOMAIN heap] ==
            [i \in DOMAIN heap[c].assignments |->
                LET a == heap[c].assignments[i]
                IN  IF a.child = None
                    THEN Value(a.rule, a.begin, a.count)
                    ELSE Object(heap[a.child].handler, a.begin, a.count, parts[a.child])]
    IN  parts

Realize(heap, c, count) ==
    IF c = None THEN <<>> ELSE <<Object(heap[c].handler, 0, count, Parts(heap)[c])>>

StartParse(t) ==
    /\ status[t] \in {"idle", "done"}
    /\ parses[t] < Len(script[t])
    /\ status' = [status EXCEPT ![t] = "parsing"]
    /\ parses' = [parses EXCEPT ![t] = @ + 1]
    /\ frames' = [frames EXCEPT ![t] = <<Activation(script[t][parses[t] + 1].rule, 0)>>]
    /\ UNCHANGED <<script, handlerStack, root, parsed, outcome, heapVars>>

(* full_match is tested, the objects are realized, and the ParserContext   *)
(* is destroyed.                                                           *)
ParseResult(t) ==
    [size |-> parsed[t],
     object |-> IF Call(t).full /\ parsed[t] # Len(Call(t).input)
                THEN <<>>
                ELSE Realize(contexts, root[t], parsed[t])]

FinishParse(t) ==
    /\ status[t] = "parsing"
    /\ frames[t] = <<>>
    /\ status' = [status EXCEPT ![t] = "done"]
    /\ outcome' = [outcome EXCEPT ![t] = ParseResult(t)]
    /\ root' = [root EXCEPT ![t] = None]
    /\ handlerStack' = [handlerStack EXCEPT ![t] = <<>>]
    /\ UNCHANGED <<script, parses, frames, parsed, heapVars>>

Feed(t) ==
    \/ FeedText(t)
    \/ FeedDelegate(t)   \/ DelegateFed(t)
    \/ FeedSequence(t)   \/ SequenceFed(t)
    \/ FeedExclusive(t)  \/ ExclusiveFed(t)
    \/ FeedLoop(t)       \/ LoopFed(t)
    \/ SelectorBranch(t) \/ SelectorFed(t) \/ SelectorMerge(t)

BeginParse(t) == BeginHandled(t) \/ BeginPlain(t)
EndParse(t)   == EndElement(t) \/ DropElement(t) \/ EndText(t) \/ UndoText(t)
Work(t)       == BeginParse(t) \/ Feed(t) \/ EndParse(t) \/ FinishParse(t)

(* Every thread has made its parses.                                       *)
AllDone ==
    /\ \A t \in Thread : status[t] # "parsing" /\ parses[t] = Len(script[t])
    /\ UNCHANGED vars

Next ==
    \/ \E t \in Thread : StartParse(t) \/ Work(t)
    \/ AllDone

Spec == Init /\ [][Next]_vars

(* A thread inside parseInput() waits for nothing, so it goes on.          *)
FairSpec == Spec /\ \A t \in Thread : WF_vars(Work(t))

----------------------------------------------------------------------------
Status == {"idle", "parsing", "done", "aborted"}

(* Every variable has its type, and nothing points to a context that was   *)
(* never created.                                                          *)
TypeOK ==
    /\ status \in [Thread -> Status]
    /\ script \in [Thread -> Seq(Request)]
    /\ parses \in [Thread -> Nat]
    /\ parsed \in [Thread -> Matched]
    /\ frames \in [Thread -> Seq(Frame(Len(contexts)))]
    /\ handlerStack \in [Thread -> Seq(1..Len(contexts))]
    /\ root \in [Thread -> Pointer(Len(contexts))]
    /\ contexts \in Seq(HandlerContext(Len(contexts)))
    /\ cached \in [Handled -> Pointer(Len(contexts))]

(* The three fatal() tests of parser.h never stop the program: there is an *)
(* element to parse for, a branch that is merged is the last of the stack, *)
(* and a branch that is removed is in the stack.                           *)
NeverAborts == \A t \in Thread : status[t] # "aborted"

(* The contexts an activation has pushed and not yet popped.               *)
Pushed(c) == IF c = None THEN <<>> ELSE <<c>>
Opened(f) == Pushed(f.context) \o Pushed(f.bestBranch) \o Pushed(f.branch)

(* The handler stack holds exactly what the open activations have pushed,  *)
(* in the order they were called: however the alternatives of nested       *)
(* selectors win, lose or fail half-way, nothing is left behind on it and  *)
(* nothing of an outer activation is taken off it.                         *)
StackIsOpenActivations ==
    \A t \in Thread :
        handlerStack[t] = FlattenSeq([i \in DOMAIN frames[t] |-> Opened(frames[t][i])])

(* The context an activation without handler assigns to.                   *)
Receiver(t, i) == Last(FlattenSeq([j \in 1..(i - 1) |-> Opened(frames[t][j])]))

(* undoAssignments() erases what the failing activation assigned and no    *)
(* more: below its mark are the assignments that end where it began or     *)
(* before, above the mark those of its own attempt.                        *)
UndoIsExact ==
    \A t \in Thread : \A i \in DOMAIN frames[t] :
        LET f == frames[t][i]
            assigned == contexts[Receiver(t, i)].assignments
        IN  f.phase # "begin" /\ f.context = None =>
                /\ f.mark <= Len(assigned)
                /\ \A j \in DOMAIN assigned :
                      IF j <= f.mark
                      THEN assigned[j].begin + assigned[j].count <= f.begin
                      ELSE assigned[j].begin >= f.begin

(* Where a context is held: on a stack, as a root, as the child in an      *)
(* assignment of another context, in a cache.                              *)
Holders(c) ==
    (UNION {{<<"stack", t, i>> : i \in {k \in DOMAIN handlerStack[t] : handlerStack[t][k] = c}}
               : t \in Thread})
    \cup {<<"root", t, 0>> : t \in {u \in Thread : root[u] = c}}
    \cup (UNION {{<<"child", d, i>> :
                     i \in {k \in DOMAIN contexts[d].assignments :
                               contexts[d].assignments[k].child = c}}
                   : d \in DOMAIN contexts})
    \cup {<<"cache", h, 0>> : h \in {k \in Handled : cached[k] = c}}

(* A context is held in one place at a time: the parser never hands out a  *)
(* context that a stack, an element or another thread still uses.          *)
ContextHasOneHolder == \A c \in DOMAIN contexts : Cardinality(Holders(c)) <= 1

(* A cached context is its handler's own and remembers nothing of the      *)
(* attempt it was used for.                                                *)
CachedContextIsClean ==
    \A h \in Handled :
        cached[h] # None => contexts[cached[h]] = NewContext(h)

(* endParse() "notifies the position and number of characters parsed"      *)
(* (parser.h:313): no more characters are parsed than the input has.       *)
ParsedWithinInput ==
    \A t \in Thread :
        status[t] = "done" /\ outcome[t].size # NPos => outcome[t].size <= Len(Call(t).input)

(* Every parse comes to an end.                                            *)
ParsesEnd == \A t \in Thread : (status[t] = "parsing") ~> (status[t] = "done")

==============================================================================
