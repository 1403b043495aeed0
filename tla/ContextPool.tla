----------------------------- MODULE ContextPool -----------------------------
(***************************************************************************)
(* What a handler promises about its contexts: a thread that asks gets a   *)
(* context that no one else has, the cached one or a new one; a context    *)
(* that is given back is cached or forgotten.                              *)
(***************************************************************************)
CONSTANTS Thread, Context, None

VARIABLES
    mine,    \* mine[t]: the contexts thread t has
    cached   \* the context in the cache, or None

vars == <<mine, cached>>

Init ==
    /\ mine = [t \in Thread |-> {}]
    /\ cached = None

Free(c) == c # cached /\ \A t \in Thread : c \notin mine[t]

TakeCached(t) ==
    /\ cached # None
    /\ mine' = [mine EXCEPT ![t] = @ \cup {cached}]
    /\ cached' = None

TakeNew(t) ==
    /\ \E c \in Context :
          /\ Free(c)
          /\ mine' = [mine EXCEPT ![t] = @ \cup {c}]
    /\ UNCHANGED cached

Keep(t) ==
    \E c \in mine[t] :
        /\ mine' = [mine EXCEPT ![t] = @ \ {c}]
        /\ cached' = c

Forget(t) ==
    /\ \E c \in mine[t] : mine' = [mine EXCEPT ![t] = @ \ {c}]
    /\ UNCHANGED cached

Next == \E t \in Thread : TakeCached(t) \/ TakeNew(t) \/ Keep(t) \/ Forget(t)

Spec == Init /\ [][Next]_vars
==============================================================================
