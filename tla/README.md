# Formal verification of belr

TLA+ models of belr, the ABNF recognition library, the TLC configurations
that check them on small instances, and theorems about them that TLAPS checks
for every instance. The modules are translated from the C++ code; every
definition that stands for code is listed with its lines in `PROJECT.json`.

    tlc -config MCParserContext.cfg MCParserContext
    tlapm ParserSetup_proofs.tla

## 1. The system

belr turns an ABNF text into a graph of *recognizers*, walks that graph
recursively over an input, and on the way builds objects of the application
through handlers and collectors.

| component | state | operations | interacts with |
|---|---|---|---|
| recognizers (`belr.cpp`, `belr.h`) | the graph; names and ids | `feed()`, `_feed()` of each kind | calls `ParserContextBase` before and after each `_feed()`, and around each alternative of a selector |
| parser context (`parser.h`) | handler stack, root; per context the assignments | `beginParse`, `endParse`, `branch`, `merge`, `removeBranch`, `realize` | called back by the recognizers; asks handlers for contexts |
| context cache of a handler (`parser.h:568-601`) | `mCachedContext`, `mCacheLocked` | `createContext`, `releaseContext` | shared by all the threads that parse with one `Parser` |
| rule table (`belr.cpp:647-742`) | `mRules`, `mRecognizerPointers`, the id counter | `getRule`, `addRule`, `extendRule`, `include`, `isComplete`, destructor | called by the ABNF builder and by `load()`; grammars share recognizers |
| ABNF builder (`grammarbuilder.cpp`) | the tree of a parsed ABNF text | the setters and `buildRecognizer` of each node, `createFromAbnf` | is itself an application of the parser, with handlers and collectors |
| built-in grammars (`abnf.cpp`) | the rules of `CoreRules` and of ABNF itself | none once built | what the builder parses texts with |
| handlers of a `Parser` (`parser.h:548-566, 740-780`, `parser.cpp:79-93`) | `mHandlers`, `mCollectors`, by recognizer id | constructor, `installHandler`, `installCollector`, `setObservedRules` | refers to recognizers that the grammar may rename |
| optimizer (`belr.cpp:62-91, 223-254, 366-392, 744`) | `mIsExclusive` of each selector | `optimize`, `getTransitionMap` | feeds recognizers to find out what they begin with |
| binary grammars (`belr.cpp:100-194, 754-821`, `binarystream.cpp`) | a file | `save`, `load` | fills the rule table in the order of the file |
| `GrammarLoader`, `DebugElement`, tools | paths; an element tree | | clients of the above |

What is hard about it:

* **Backtracking over shared mutable state.** A selector tries each
  alternative in a context of its own, on one stack, from which the loser is
  taken out of the middle. What fails half-way has assigned already, and is
  undone by position. A context that lost is recycled for the next attempt.
  Correct: the stack holds what is open, undo is exact, no context is in two
  places, and the objects built are those of the winning path.
* **Threads.** Several threads may parse with one `Parser`. They meet in one
  plain pointer per handler, behind a flag that is tried and never waited for,
  with relaxed memory order. Correct: no context goes to two threads, no call
  depends on a preempted one, results do not depend on other threads.
* **Ends and limits.** `npos` is the largest `size_t`; matching nothing is
  different from not matching; recognizers read the terminator. Correct: every
  parse ends, and nothing beyond the input is counted.
* **Rules in any order.** A rule may be used before it is defined, be an alias
  of another, be extended, be shared with a grammar that is destroyed.
  Correct: a complete grammar has no undefined pointer, and every reference
  leads to the rule of its name.
* **A text is parsed by the parser it is for.** The builder learns what a text
  says from assignments that were tried, taken back and merged like any other,
  and it learns that the text is wrong only from how far the parse came.
  Correct: the tree has the rules that are written, all of them, and a text
  that is not ABNF to its end is refused.
* **Ids.** Handlers and collectors are found by the id of a recognizer, which
  `setName()` renews whenever it names it. Correct: what is installed stays
  with its rule while texts are added.
* **Optimization.** `optimize()` replaces "take the longest alternative" by
  "take the first one" where it believes that this makes no difference.

Operations are sequential except for the context cache; nothing is retried,
timed out or sent. The one persistent thing is the grammar file, written in
place: what `load()` makes of one that was cut is part of what can go wrong.

## 2. Modules

| module | models | abstracts |
|---|---|---|
| `Recognizers` | the recognizer graph, as a constant `Shape`, and what text recognizers and loops read of the input | characters to the set accepted at each place: `CharRecognizer`, `CharRange`, `Literal` are one kind; pointers and aliases of a complete grammar are one kind |
| `ParserContext` | `parseInput()`: a stack of `feed()` activations per thread, and all of `ParserContext`/`HandlerContext`; one action per step of a `_feed()` | objects to trees of rule and place; the cache of a handler to one pointer that may be found locked |
| `Matching` | the meaning of `feed()` as a function of recognizer and place | contexts and stack |
| `Judgements` | the same meaning, as the least set of answers closed under one rule for each kind of recognizer; and the language of the recognizers, without the order of attempts | how an answer is found; not code, as `Matching` is not: a reference for the proofs |
| `Objects` | the answer of `parseInput()` as a function: the size and object of the winning path | same |
| `Contents` | the same answer, as the least set of parts that are given, over `Judgements` | no context, no assignment; not code: a reference for the proofs |
| `ParsedObjects` | the objects that `realize()` builds | to trees of rule and place |
| `Recognition` | what `parseInput()` promises: a parse is one step, with an answer that the call may have (`Outcomes`) | same |
| `AbnfGrammar` | every rule of `abnf.cpp`, method by method, as a `Shape` over the characters of ASCII | the addition of a rule to the table |
| `AbnfReader` | `ABNFGrammarBuilder`: handlers, collectors, and the setters that make the tree of a text of what the parse assigned | the parse itself is that of `Objects`; a setter called twice keeps the last value, as a record does |
| `Builder` | `buildRecognizer()` of each kind of ABNF node and of the list of rules: from the tree of a text to a `Shape`; when it is fatal | a reference leads at once to the rule of its name (how, is in `Grammar`) |
| `Language` | the language that RFC 5234 gives to the same tree, as a relation | — (not code: a reference) |
| `FromAbnf` | an application: `createFromAbnf()` of the characters of a text, with each of its answers, then `parseInput()` | each is one step; `optimize()` is in `Optimizer` |
| `ContextCache` | `createContext()`/`releaseContext()` statement by statement, with pending stores | a parse to "take a context, give one back" |
| `ContextPool` | what the cache promises: one context to one thread, whole and at once | the flag, the statements |
| `Grammar` | the rule table while `ABNFRuleList::buildRecognizer()` fills it, `include()` of any grammar, a temporary or not, and destruction; `Careful`, how the repository calls `include()` | a rule's body to a text, a reference, a sequence or a selector of references |
| `ParserSetup` | a `Parser` made of a grammar while texts are added: its constructor, handlers and collectors by id, as `setObservedRules()` installs them, and `parseInput()` of a rule without a handler | the other parses, which leave the table alone |
| `GrammarFile` | `save()` rule by rule, a stop at any point, `load()` of what is left, `serialize()`/`build()` of each kind | a file is a sequence of tokens, one for each write; names and texts are short sequences of characters |
| `Optimizer` | `optimize()` selector by selector, transition maps, and `extendRule()` on an optimized grammar | as `Recognizers`; what is matched comes from `Matching` |

`ParserContext` implements `Recognition`: on the instance of the run with the
answers of `Objects` (`ImplementsRecognition`), and for every instance with
those of `Contents` (theorem `ParserKeepsPromise`). Likewise
`ContextCache` implements `ContextPool` (`ImplementsPool`); `ParserContext`
uses the cache at the granularity that `ContextPool` justifies.
`Recognition` (through `Objects`) and `Optimizer` share `Matching`. `FromAbnf`
composes all of it twice: `Objects` over `AbnfGrammar` reads a text, `AbnfReader`
makes its tree, `Builder` its recognizers, and `Objects` over these parses an
input; the tree is compared with what was written, the match with `Language`.
`ParserSetup` extends `Grammar`.

How state corresponds in `ParserContext`: `frames[t]` is the C++ call stack
(each record holds the locals of one `feed()` and of its `_feed()`; `phase`
says where it is), `handlerStack`, `root`, `contexts[c].assignments` and
`cached` are the members of the same name. The four cases of `_endParse()` are
`EndElement`, `DropElement`, `EndText`, `UndoText`. Contexts are numbered in
order of creation and never freed: the reference counts of the code are what
`ContextHasOneHolder` speaks of. In `Grammar`, `heap` holds recognizers;
`home` and `as` are history that the code does not keep, for the properties
only. Fatal errors are states (`aborted`) in which nothing more happens.

In `GrammarFile`, `file` is what reached the disk, `at` the reading position,
`rules` is `mRules` of the new grammar (`Awaited` is a `RecognizerPointer` that
is not set), and recognizers are named by their place in the file. Reading
follows `std::ifstream`: what is read past the end is zero or empty, except that
`readString()` looks at the character before it looks at the stream, so that a
string cut in the middle gets its last character twice, and one cut before its
first character gets whatever the variable held (`junk`). In `Builder` a
recognizer is called by the node that builds it, and the members of the
`ABNF...` classes are the fields of a node.

## 3. Runs

| run | question | result |
|---|---|---|
| `parser_grammar` | do branches, undo and recycled contexts come to the objects of the winning path, also when two threads share a parser? do parses end, within their input? | holds |
| `from_abnf` | is a text read as the rules written in it, and refused if it is not whole? is what a built grammar matches in the language that RFC 5234 gives to its text? is the object tree nested and in order? | holds |
| `comment_extension` | and with a slash in a comment after `=`? | violated |
| `context_cache` | does the flag protect the cached context, with nobody waiting? | holds if stores reach memory in order |
| `context_cache_weak` | and with the order that the code asks for? | violated |
| `grammar` | does a complete grammar have what it needs, whatever the order of its text? do handlers stay with their rules? | holds, if `include()` is called as the repository does |
| `grammar_extend` | do rules keep their names when a rule is an extension of another? | violated |
| `optimizer` | does `optimize()` change what is matched? | it does not, for rules defined before use, with no empty alternative, and extended by what begins like no other |
| `optimizer_forward` | and for rules used before they are defined? | violated |
| `grammar_file` | does `load()` give back what `save()` wrote? what if the file was cut? | holds; a cut file may be accepted, with the last rule damaged |
| `boundary_nullable` | does `*( [ "a" ] )` end? | violated |
| `boundary_octet` | is nothing beyond the input counted? | violated |

Four more configurations are there to be run by hand. Each is a case that a
property of the runs `grammar` and `optimizer` is not asked about, because it is
false there, and ends with its counterexample:

| configuration | case | false |
|---|---|---|
| `MCGrammarIncludeAwaiting.cfg` | `include()` of a rule that the other grammar awaits | `CompleteMeansDefined` |
| `MCGrammarIncludeForward.cfg` | `include()` of a temporary whose rules were used before they were defined | `CompleteMeansDefined` |
| `MCOptimizerExtended.cfg` | an extension, after `optimize()`, that begins like an alternative | `FirstBranchIsTheGoodOne` |
| `MCOptimizerEmpty.cfg` | an alternative that may be empty | `FirstBranchIsTheGoodOne` |

**Bounds.** `parser_grammar` uses one grammar with every kind of recognizer,
recursion, alternatives with a common prefix, of equal length and of length 0;
one thread parses all inputs of up to 4 of its 5 characters, those of up to 2
also with `full_match`, and 16 pairs of successive inputs of up to 5. Four
characters are enough for two levels of nesting, a failure after assignments at
each level, and a second repetition; pairs are needed for the second parse to
get contexts that the first recycled. In the same run two threads parse one
input each (four combinations), with every interleaving of their steps and 3
contexts at a time for one handler: a thread can take what the other has just
given back at every point.

`from_abnf` has twelve texts of nine lines: six rules, one of them extended,
with every construct of ABNF, blank lines, comments, continued lines and both
kinds of line ends, alternatives in three orders (shorter before longer and
after), two forms each of the rules that carry counts and numbers in all three
bases; two texts of blank and comment lines only, which give an empty grammar;
five that are not ABNF; the five things that the builder does not take (`stops`
of a text), and no others may stop the program; and every beginning of a text of
four lines, character by character, most of which stop inside a rule. Each text comes with the tree that is meant, written apart
from it. Every input of up to 4 of 4 characters is parsed from four entry rules
of the twelve: a pair of words needs 3 characters, a list of two items 3, an
item in a group 3. Texts are ASCII, and their numbers small: `strtol()` does not
overflow.

`context_cache` has two threads with up to 2 contexts each: with 6 contexts,
`make_shared()` always finds a fresh one.

`grammar` has three names and three rules of every form in any order, so that a
rule may be used before, while and after it is defined, directly and through an
alias, plus a grammar that is included, the destruction of either, and one parser, made
between any two rules, that observes one or two of the names: rules that alias,
extend or refer to an observed one come after it; names are symmetric.
`Include` itself has the guards of the code only. `CarefulSpec` and
`CarefulSetupSpec` restrict it to what both calls in the repository do
(`abnf.cpp:140`, `belr-parse.cc:92`): the included grammar is a temporary that
was made without a pointer, and it has no rule that the other has or awaits
(`Careful`). `MCGrammarIncludeAwaiting.cfg` and `MCGrammarIncludeForward.cfg` use
`SetupSpec`, without that restriction, and show that a grammar without pointers is
not enough, and that one without common rules is not either.

`grammar_file` has every grammar of three rules out of eight bodies (all kinds
of recognizers, nested two deep, with references to the rule itself and to the
others) whose rules are defined before or after use, named so that a name that
is cut becomes the name of another rule, and every beginning of their files:
three rules allow a whole one, a cut one and a missing one.

`optimizer` has every rule of 2 or 3 of 9 alternatives with 6 choices of inner
selectors, and inputs of up to 3 characters, the longest that tell two
alternatives apart. The extension is itself an alternation, so that a later
`optimize()` has a selector to stop at: `extendRule()` gives it an id, and
`Recognizer::optimize()` takes it for a rule of its own.

**Deadlock** is checked, except in `optimizer*`, which stops when all is
optimized and extended, and in the runs of `FromAbnf`, which stop
after one parse (or none, where `createFromAbnf()` has no grammar to answer);
the other modules have an explicit `AllDone` or `Finished` step for their end.

**Fairness.** `parser_grammar` and `boundary_nullable` assume weak fairness of
`Work(t)` for each thread: code inside `parseInput()` takes no lock and waits
for nothing, so that it goes on while the thread is scheduled. Nothing is
assumed of a thread to start a parse. `context_cache` assumes weak fairness of
the statements of one thread only, `t1`: `CallsReturn` says that its calls
return even if the other thread is never scheduled again.

### What was found

`PROJECT.json` quotes, for 1 to 9, the sentence of the repository that is
contradicted. 1 to 6 are counterexamples of runs; 7 to 9 are texts for which
`ReadAsWritten`, in `from_abnf`, says that the program stops; 10 to 13 are the
configurations above.

1. `*( [ "a" ] )`: a loop without maximum does not end when its element
   matches nothing (`belr.cpp:474`).
2. A range from `%x00` matches the terminator after the input, and it is
   counted (`belr.cpp:511`).
3. The flag of the context cache is relaxed, so that it does not order the
   pointer it protects (`parser.h:571-590`). On x86 the order of stores hides it.
4. `a =/ b` takes the name of the rule `b` away (`belr.cpp:675`).
5. Pointers and aliases have a transition map of single characters, so that
   `optimize()` makes exclusive a selector whose alternatives do begin alike:
   what a rule matches depends on whether the rules it uses come before or
   after it (`belr.cpp:236-245`).
6. A slash in a comment within `defined-as` makes a rule an extension, so that
   `a = ; one / two` with its alternation on the next line stops the program,
   or extends an earlier rule (`grammarbuilder.cpp:313`).
7. `a = "b"` cannot be extended by `a =/ "c"`: the program stops, as the
   recognizer of `a` is no selector (`belr.cpp:682`).
8. `a = ""` stops the program: the element is taken for an empty one
   (`grammarbuilder.cpp:145`).
9. `a = <b>` stops the program, before it is known whether the text can be parsed
   (`grammarbuilder.cpp:185`), where `createFromAbnf()` is said to return
   `nullptr`.
10. `include()` of a grammar with a rule that the other awaits replaces the entry
    of the pointer, which nothing sets any more: the grammar is complete and a
    parse may stop at an undefined pointer (`belr.cpp:728`).
11. So it may after `include()` of a temporary whose rules refer to each other
    through pointers: its destructor resets them (`belr.cpp:653`).
12. A selector that was made exclusive stays so when it is extended by an
    alternative that begins like one of its own (`belr.cpp:390`).
13. An exclusive selector fails where an alternative of 0 characters would match
    (`belr.cpp:311`).

Two behaviours that the models show and no sentence of the repository denies:
`save()` answers 0 whatever became of its writes, and `load()` answers 0 for
many files that were cut, since it takes a list that is shorter than its count,
and a loop without its element, for what was written. `OnlyLastRuleIsDamaged`
says how far that goes: a cut file that is accepted lacks rules at its end and
has at most its last rule wrong. A cut name may also be that of a rule that was
read before, which stops the program (`Abort`).

That a sequence or a loop never gives characters back is documented (README.md,
"Limitations") and part of `Matching`, not a finding: a match is always in the
language (`MatchIsInLanguage`), but some strings of it are not matched.

## 4. Theorems

Every theorem is about all values of the constants that satisfy the named
assumptions of the modules (`GrammarAssumption`, `ScriptAssumption`,
`CacheAssumption`, `ObservedAssumption`), which TLC also evaluates.

* `ParserContext_proofs!TypeCorrect`: `Spec => []TypeOK`. For any grammar,
  number of threads and inputs, no stack, activation, assignment, root or cache
  points to a context that was never created. `TypeOK` is inductive by
  itself because types are relative to the number of contexts, which only
  grows; lemmas show that types grow with it.
* `ParserSafety_proofs!ParserNeverAborts`, `StackIsExact`, `HoldersAreUnique` and
  `CacheIsClean`: `Spec => []P` for `NeverAborts`, `StackIsOpenActivations`,
  `ContextHasOneHolder` and `CachedContextIsClean`. None of the four is
  inductive alone. The invariant is `TypeOK /\ ThreadsInv /\ HoldersInv`:
  `ThreadsInv` says that the handler stack is exactly what the frames below have
  opened, joined together (`OpenedBy`) and that every frame but the
  last waits for a call in a phase that its recognizer has; `HoldersInv` that
  the places which hold a context (stacks, roots, children of assignments,
  caches) are apart from each other and within themselves, and that cached
  contexts are as new. The second is needed because one context held twice
  would let a recycled branch change a stack from outside. That nothing is
  ever aborted follows from the stack: its top is the context of the
  innermost open frame.
* `ParserUndo_proofs!UndoErasesTheAttempt`: `Spec => []UndoIsExact`. An attempt
  is undone by a position in a vector, noted before it began. What makes the
  position right is the input: each assignment carries where its match begins and
  its size, and `UndoInv` says that what the context holds below the mark of a
  frame ends where the frame began, and what is above begins there
  (`FrameMarks`). Between frames it says that those further up the stack began
  further in the input, and that the marks of two that assign to the same
  context ascend (`BelowMarks`, `AboveMarks`); of the innermost context, that
  what it was given ends where the activation has arrived (`TopReach`), so that a
  mark noted now splits it too. It needs `HoldersInv`: merging a branch
  changes one context and no other.
* `ParserAnswers_proofs!AnswersFollowTheGrammar`: `Spec => []AnswersAreMeant`,
  what a parse matches is what its grammar means, for every grammar and text.
  Meaning is `Meant(s)` of `Judgements`: the least set of answers `<<recognizer,
  place, size>>` to which `Follows`, one rule for each kind of recognizer, adds
  nothing. A least set takes the place of a recursive function, which could not
  be proved about, and is there for left recursive grammars too, where it has no
  answer. The invariant (`AnswersInv`) says of the innermost activation that it
  has come where it is by answers that are meant (`Goes`, `Arrived`: a trail of
  places for a sequence or a loop, the alternatives refused or compared so far
  for the two selectors), and of each one below that it has too and waits for
  just the recognizer and place of the next, down to the rule and place 0 that
  `parseInput()` was called for (`Chain`). The counter of a loop without maximum
  stops at its minimum, so `Counted` says which numbers of repetitions it stands
  for. That the contexts do not come into it is the point: no conjunct mentions
  them.
* `ParserAnswers_proofs!MeantOnce`: a recognizer has at most one answer at a
  place. The answers that are the only ones of their recognizer and place are a
  closed set themselves, hence all of `Meant`. With it, `ThreadsAgree`, `Spec =>
  []SameCallSameSize`: two calls for one rule and text give one size. A parse
  that ends has therefore found the only answer there is; that it ends is not
  part of either theorem.
* `ParserAnswers_proofs!ParsesStayWithinInput`: `TerminatorEnds => (Spec =>
  []ParsedWithinInput)`. If no recognizer of characters accepts the terminator, no
  parse counts it or what is after it. The answers within the text are a closed set
  (`WithinCloses`), so all that is meant is among them: at each end of a trail the
  match is either still empty or within the text. The grammar of `parser_grammar` is
  one that meets the hypothesis; `octet` of `boundary_octet` does not, which shows
  that it is needed.
* `ParserAnswers_proofs!MatchesAreInTheLanguage`: `Spec =>
  []MatchesAreDerivable`. `Derivable(s)` is the language of the recognizers: the
  least set of derivations under `Yields`, where a sequence or a loop goes on
  with *any* match of an element and both selectors take any alternative. What
  is meant is a part of it, as the answers that are derivations are closed under
  `Follows` (`DerivedAnswersClose`). The converse is false and no theorem, as
  belr never gives characters back. It is the general part of
  `MatchIsInLanguage`; what is left to the run is that the recognizers are those
  of the ABNF text.
* `ParserObjects_proofs!ParserKeepsPromise`: `Spec => Promise!Spec`, where
  `Promise` is `Recognition` with the answers `RightAnswers` of `Contents`: for
  every grammar, text and number of threads, starting a parse is a call, ending
  it gives a right answer, and all other steps are stutters. A right answer is
  the size that is meant and the object of what is inside the match: `Gifts(s)`,
  the least set of `<<handler, recognizer, place, parts>>` to which `Gives` adds
  nothing. An alternative that lost and an attempt that failed give nothing, so
  none of what they left in a context may reach the object. The proof has three
  parts. First, what is given is unique (`GivenOnce`, `MeantInsideOnce`): as the
  answer at a place is (`MeantOnce`), by induction over what is meant, which
  again is leastness: the answers that give one thing only are a closed set.
  Second, the invariant `ContentInv` says what the contexts stand for while
  threads parse: the assignments of a context between the mark of an activation
  and the next, read as parts with all their children, are what the elements fed
  so far have given, one after the other; for a selector, the best branch holds
  what the longest alternative so far has given. `UndoIsExact` and
  `ContextHasOneHolder` are what keeps this true when a mark is undone, a branch
  is merged or another thread takes a recycled context. It is proved of any
  *world*, a function from handlers, recognizers and places to what is given,
  that obeys the rules (`Gathering`); what `Gifts` has is such a function
  (`GiftsAreWorlds`). Third, the root of a parse that ends holds what is inside
  the match of the rule (`ResultIsRight`). `AnswersDependOnCalls`, `Spec =>
  []SameCallSameAnswer`, follows: two calls for one rule and one text give the
  same tree.
* `ParserObjects_proofs!ObjectsFollowTheText`: `Spec => []AnswersAreTrees`, the
  counterpart for every grammar of `ObjectIsNested`. The parts that an element
  gets have some characters, lie inside it, and come in the order of the text
  (`Laid`), and so do theirs, down to any depth (`Tidy`). Two of them overlap in
  one case only (`Succeeds`): a rule that is collected and has no handler gives
  what is inside it and then its own characters. The gifts that are so laid are
  a closed set (`GiftsAreTidy`), so nothing else is given; the step for a
  sequence and a loop goes along the trail of their elements (`TrailLaid`,
  `LaidConcat`). Since the parser's answers are right (`ParserKeepsPromise`),
  they are such trees.
* `ContextCache_proofs!ContextsAreNotShared`: `Spec => []NobodyShares`, and
  `CacheImplementsPool`: `Spec => ImplementsPool`, for any threads and
  contexts, if `StoreOrder = "program"`. The invariant adds to `NobodyShares`
  that the flag is held by exactly the thread between its test and its clear
  (`LockInv`), that only that thread has a pending store and reads a stable
  pointer (`LocalInv`), and that the cached context belongs to nobody but a
  thread about to reset it (`CacheInv`): without the last, a thread could be
  handed what another holds. `TypeCorrect`, `Spec => []TypeOK`, needs no order
  of stores.
* `ParserSetup_proofs!CompleteGrammarIsDefined`: `CarefulSpec =>
  []CompleteMeansDefined`, and `TablesTypeCorrect`: `CarefulSpec => []TypeOK`, for
  any texts, destruction of grammars at any time, and `include()` under the two
  conditions of `Careful`: what is included is a temporary that has no pointer,
  and the other grammar neither has nor awaits any of its rules. Of `Spec`, whose
  `Include` asks for neither, the first is false: `MCGrammarIncludeForward.cfg` and
  `MCGrammarIncludeAwaiting.cfg` refute it when the first or the second is dropped.
  `CompleteMeansDefined` quantifies
  over closed sets of recognizers and is not inductive. The invariant is about
  an owner `o`, which is not in the model: `o[g]` is the grammar that has what
  was built for `g`, `g` itself until it is included in another, which then is
  the owner of all that `g` owned (`HandedOver`). What a recognizer refers to
  has the same owner as the recognizer (`HomeInv`), a grammar lists exactly the
  pointers made for it, and none once it was included elsewhere (`PointersInv`),
  and an undefined pointer is always there under its name (`ListedInv`), from
  which the set of all recognizers of one owner is the closed set wanted.
  `Owned` is that there is such an `o`; each action names the next one.
* `ParserSetup_proofs!ReferencesLeadToTheirRule`, `RulesKeepTheirName` and
  `HandlersStayWithTheirRule`: `CarefulSetupSpec => []P` for `ReferencesMeanTheRule`,
  `RulesHaveTheirName` and `HandlersAreFound`, if `NoNamedExtension`: no
  extension is itself the name of a rule. Without it they are false, as the run
  `grammar_extend` shows; the run `grammar` keeps to it. The invariant
  `SetupInv` says that an entry of the table either has the name it is found by
  or is the undefined pointer of that name (`NamesInv`), that a reference stands
  for the entry of its name, also among the references that are being gathered
  for a rule (`MeaningInv`, `NowInv`), that no two recognizers have one id and
  none has an id yet to be given (`IdsInv`), and that what a parser has
  installed is for rules that are defined (`HandledInv`). The lemma that all of
  it hangs on is `RuleIsNew`: what `addRule()` names is always a recognizer made
  for that rule, so that `setName()` never renews the id of another.
  `SetupTypeCorrect` and `SetupCompleteIsDefined`, the first two theorems of
  `CarefulSetupSpec`, need no such hypothesis.

* `GrammarFile_proofs!FileIsDefined`: `Spec => []AcceptedIsDefined`, for any bytes
  and whatever `build()` makes of them: nothing is assumed of the recursive
  `Build`. Every reference that was ever built has an entry in the table
  (`AllKnown`), which is what `getRule()` is for: a damaged file cannot refer to a
  rule that the loop at the end of `load()` does not look at.

`ParserContext_proofs` has what these proofs share: facts about `FlattenSeq` and
slices of sequences, that a set of numbers has a least one, and that a set with
0 and all successors has every number. The last two are how a proof goes along a
sequence or a trail: the library's induction theorems cannot be used.

Only model-checked:

* that `Matching` and `Objects`, which TLC computes, give the answers of
  `Judgements` and `Contents`, for which the refinement is proved: what a
  recursive function computes for every input is an induction over data, and
  that it is defined at all is one too (for a left recursive grammar it is not).
  So `ImplementsRecognition`, as the run states it with `Objects`, is TLC's, and
  so is whatever else is stated with them. In turn TLC does not evaluate
  `Judgements` and `Contents`, whose places are all of `Nat`: what ties the two
  descriptions together is that the same `parseInput()` is checked to give the
  answers of the one and proved to give those of the other, which has one answer
  at most to a call;
* liveness (`ParsesEnd`, `CallsReturn`);
* the properties of `FromAbnf` and `Optimizer`, and of `GrammarFile` that a
  whole file is the grammar and that damage stays in the last rule: they compare
  recursive functions over trees, files and graphs.

## 5. Not modelled

* `GrammarLoader`: a search for a file in two lists of directories, which hands
  the first that exists to `load()`.
* `DebugElement`: its printing, and `findChildren()`, a plain recursion.
* The tools and the tests: clients of what is modelled, and formatting.
* The templates that convert values (`make_fn`, `make_sfn`,
  `property_injector`), except the integers and strings that the builder takes.
* `describe()` of the builder's nodes; `createFromAbnfFile()`, which reads a
  file and calls `createFromAbnf()`.
* `optimize()` within `FromAbnf`: what it changes is the subject of `Optimizer`.
* In files: characters above 255, of which `_serialize()` writes the lower 8
  bits (the model does so too, but no grammar of the run has any), and saving
  a grammar that is not complete.

## 6. Plan

Done: `Recognizers`, `ParserContext`, `Matching`, `Objects`, `Recognition`,
`Contents`, `AbnfGrammar`, `AbnfReader`, `Builder`, `Language`, `FromAbnf`,
`ContextCache`, `ContextPool`, `Grammar`, `ParserSetup`, `GrammarFile`,
`Optimizer`; theorems for every invariant of the runs `parser_grammar`,
`context_cache` and `grammar`.

Next, in this order:

1. That `Objects` gives the answers of `Contents` for a grammar without left
   recursion and without a repetition of what may be empty, with the recursions of
   `Matching` and `Objects` written over the number of an element, which makes
   their existence provable.
2. `Optimizer`: the conditions on a grammar under which `optimize()` is safe,
   as a definition, with the run `optimizer` over every grammar that meets them.
3. `Grammar`: the weakest discipline for `include()` that keeps a complete grammar
   defined, several owners of one pointer included.
4. `GrammarFile`: `load()` into a grammar that already has rules.
