----------------------------- MODULE ContextCache -----------------------------
(***************************************************************************)
(* createContext() and releaseContext() of one handler, statement by       *)
(* statement, called by threads that parse with the same Parser            *)
(* (parser.h:568-601).  mCachedContext is a plain shared_ptr guarded by a  *)
(* flag that is tried, never waited for, and whose operations are          *)
(* memory_order_relaxed: they order nothing else.  A write of a thread to  *)
(* mCachedContext is therefore pending until it reaches memory, where      *)
(* other threads see it.                                                   *)
(***************************************************************************)
EXTENDS FiniteSets, Naturals

CONSTANTS
    Thread,
    Context,     \* the HandlerContexts of the handler
    None,        \* the null shared_ptr
    NoWrite,     \* no write is pending: a pending write may be of None
    StoreOrder,  \* "program": a thread's writes reach memory in program order
                 \* "any": the flag may be cleared in memory before the write
    HeldBound    \* bound: the contexts a thread has at a time

ASSUME CacheAssumption ==
    /\ None \notin Context
    /\ NoWrite \notin Context \cup {None}
    /\ HeldBound \in Nat
    /\ StoreOrder \in {"program", "any"}

VARIABLES
    pc,       \* pc[t]: the statement thread t is at
    locked,   \* mCacheLocked
    slot,     \* mCachedContext, in memory
    pending,  \* pending[t]: t's write to mCachedContext that is not in memory yet
    ret,      \* ret[t]: the variable ret of createContext()
    given,    \* given[t]: the argument ctx of releaseContext()
    held      \* held[t]: the contexts the parse of t works with

vars == <<pc, locked, slot, pending, ret, given, held>>

Creating  == {"create", "read", "reset", "unlock_created", "make"}
Releasing == {"release", "store", "unlock_released"}
PC == {"parse"} \cup Creating \cup Releasing

Init ==
    /\ pc = [t \in Thread |-> "parse"]
    /\ locked = FALSE
    /\ slot = None
    /\ pending = [t \in Thread |-> NoWrite]
    /\ ret = [t \in Thread |-> None]
    /\ given = [t \in Thread |-> None]
    /\ held = [t \in Thread |-> {}]

GoTo(t, from, to) == pc[t] = from /\ pc' = [pc EXCEPT ![t] = to]

(* What t reads in mCachedContext: its own last write, even if pending.    *)
Seen(t) == IF pending[t] = NoWrite THEN slot ELSE pending[t]

Write(t, value) == pending' = [pending EXCEPT ![t] = value]

(* The write of t reaches memory, at any time from then on.                *)
Commit(t) ==
    /\ pending[t] # NoWrite
    /\ slot' = pending[t]
    /\ pending' = [pending EXCEPT ![t] = NoWrite]
    /\ UNCHANGED <<pc, locked, ret, given, held>>

(* The flag is cleared after the writes before it, if the order is kept.   *)
MayUnlock(t) == StoreOrder = "program" => pending[t] = NoWrite

(* A context in use: make_shared() gives an object that is none of them.   *)
InUse(c) ==
    \/ c = slot
    \/ \E t \in Thread : c \in held[t] \cup {ret[t], given[t], pending[t]}

----------------------------------------------------------------------------
(* createContext()                                                         *)

CallCreate(t) ==
    /\ GoTo(t, "parse", "create")
    /\ Cardinality(held[t]) < HeldBound
    /\ UNCHANGED <<locked, slot, pending, ret, given, held>>

(* Mutants: the flag is not tested, and the flag is waited for.            *)
CreateWithoutLock(t) ==
    /\ GoTo(t, "create", "read")
    /\ locked' = TRUE
    /\ UNCHANGED <<slot, pending, ret, given, held>>

LockToCreate(t) ==
    /\ ~locked
    /\ GoTo(t, "create", "read")
    /\ locked' = TRUE
    /\ UNCHANGED <<slot, pending, ret, given, held>>

TryLockToCreate(t) ==
    /\ GoTo(t, "create", IF locked THEN "make" ELSE "read")
    /\ locked' = TRUE
    /\ UNCHANGED <<slot, pending, ret, given, held>>

ReadCached(t) ==
    /\ GoTo(t, "read", IF Seen(t) # None THEN "reset" ELSE "unlock_created")
    /\ ret' = [ret EXCEPT ![t] = Seen(t)]
    /\ UNCHANGED <<locked, slot, pending, given, held>>

(* Mutant: the cached context is given and stays in the cache.             *)
CachedNotReset(t) ==
    /\ GoTo(t, "reset", "unlock_created")
    /\ UNCHANGED <<locked, slot, pending, ret, given, held>>

ResetCached(t) ==
    /\ GoTo(t, "reset", "unlock_created")
    /\ Write(t, None)
    /\ UNCHANGED <<locked, slot, ret, given, held>>

UnlockCreated(t) ==
    /\ GoTo(t, "unlock_created", "make")
    /\ MayUnlock(t)
    /\ locked' = FALSE
    /\ UNCHANGED <<slot, pending, ret, given, held>>

(* Mutant: nothing is made when the cache was empty.                       *)
ReturnUntested(t) ==
    /\ GoTo(t, "make", "parse")
    /\ held' = [held EXCEPT ![t] = @ \cup {ret[t]}]
    /\ ret' = [ret EXCEPT ![t] = None]
    /\ UNCHANGED <<locked, slot, pending, given>>

ReturnContext(t) ==
    /\ GoTo(t, "make", "parse")
    /\ \E c \in Context :
          /\ IF ret[t] # None THEN c = ret[t] ELSE ~InUse(c)
          /\ held' = [held EXCEPT ![t] = @ \cup {c}]
    /\ ret' = [ret EXCEPT ![t] = None]
    /\ UNCHANGED <<locked, slot, pending, given>>

----------------------------------------------------------------------------
(* releaseContext(), called on a context the parse has finished with.      *)

CallRelease(t) ==
    /\ GoTo(t, "parse", "release")
    /\ \E c \in held[t] :
          /\ given' = [given EXCEPT ![t] = c]
          /\ held' = [held EXCEPT ![t] = @ \ {c}]
    /\ UNCHANGED <<locked, slot, pending, ret>>

TryLockToRelease(t) ==
    /\ GoTo(t, "release", IF locked THEN "parse" ELSE "store")
    /\ given' = [given EXCEPT ![t] = IF locked THEN None ELSE @]
    /\ locked' = TRUE
    /\ UNCHANGED <<slot, pending, ret, held>>

StoreCached(t) ==
    /\ GoTo(t, "store", "unlock_released")
    /\ Write(t, given[t])
    /\ given' = [given EXCEPT ![t] = None]
    /\ UNCHANGED <<locked, slot, ret, held>>

UnlockReleased(t) ==
    /\ GoTo(t, "unlock_released", "parse")
    /\ MayUnlock(t)
    /\ locked' = FALSE
    /\ UNCHANGED <<slot, pending, ret, given, held>>

(* The statements of the two functions.                                    *)
Step(t) ==
    \/ TryLockToCreate(t)  \/ ReadCached(t)  \/ ResetCached(t)
    \/ UnlockCreated(t)    \/ ReturnContext(t)
    \/ TryLockToRelease(t) \/ StoreCached(t) \/ UnlockReleased(t)
    \/ Commit(t)

Next == \E t \in Thread : CallCreate(t) \/ CallRelease(t) \/ Step(t)

Spec == Init /\ [][Next]_vars

----------------------------------------------------------------------------
TypeOK ==
    /\ pc \in [Thread -> PC]
    /\ locked \in BOOLEAN
    /\ slot \in Context \cup {None}
    /\ pending \in [Thread -> Context \cup {None, NoWrite}]
    /\ ret \in [Thread -> Context \cup {None}]
    /\ given \in [Thread -> Context \cup {None}]
    /\ held \in [Thread -> SUBSET Context]

(* The contexts of t: those its parse works with, the one createContext()  *)
(* is about to return, and the one releaseContext() was given.             *)
Mine(t) == held[t] \cup ({ret[t], given[t]} \ {None})

(* The contexts of two threads are never the same, though neither waits    *)
(* for the other and the cache is one plain pointer.                       *)
NobodyShares == \A t, u \in Thread : t # u => Mine(t) \cap Mine(u) = {}

(* What the cache holds: a write that is on its way counts as made, and    *)
(* a context that was read to be taken as taken.                           *)
Cached ==
    IF \E t \in Thread : pc[t] = "reset" THEN None
    ELSE IF \E t \in Thread : pending[t] # NoWrite
    THEN pending[CHOOSE t \in Thread : pending[t] # NoWrite]
    ELSE slot

Pool == INSTANCE ContextPool WITH mine <- [t \in Thread |-> Mine(t)], cached <- Cached

(* The statements implement the pool of contexts: each call gives or takes *)
(* one context, whole and at once, for every interleaving of the callers.  *)
ImplementsPool == Pool!Spec
==============================================================================
