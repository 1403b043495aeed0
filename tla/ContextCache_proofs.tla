------------------------- MODULE ContextCache_proofs -------------------------
(***************************************************************************)
(* The cache of a handler never gives one context to two threads, for any  *)
(* number of threads and contexts, as long as a thread's writes reach      *)
(* memory in program order.                                                *)
(***************************************************************************)
EXTENDS ContextCache, TLAPS

Holding == {"read", "reset", "unlock_created", "store", "unlock_released"}

(* The flag is a lock: one thread at a time is between trying it with      *)
(* success and clearing it, and only that thread has a write on its way.   *)
LockInv ==
    /\ \A t \in Thread : pc[t] \in Holding => locked
    /\ \A t, u \in Thread : pc[t] \in Holding /\ pc[u] \in Holding => t = u
    /\ \A t \in Thread :
          pending[t] # NoWrite => pc[t] \in {"unlock_created", "unlock_released"}

(* Where the variables of the two functions are in use.                    *)
LocalInv ==
    \A t \in Thread :
        /\ ret[t] # None => pc[t] \in {"reset", "unlock_created", "make"}
        /\ given[t] # None <=> pc[t] \in {"release", "store"}
        /\ ret[t] \notin held[t] /\ given[t] \notin held[t]
        /\ pc[t] = "reset" => slot # None

(* Nobody has what is in the cache or on its way to it, but for the thread *)
(* that has taken it and is about to empty the cache.                      *)
CacheInv ==
    /\ \A t \in Thread :
          slot \in Mine(t) =>
              \/ pc[t] = "reset"
              \/ pc[t] = "unlock_created" /\ pending[t] = None
    /\ \A t, u \in Thread : pending[t] \notin Mine(u)

IInv == TypeOK /\ LockInv /\ LocalInv /\ NobodyShares /\ CacheInv

LEMMA MineTyped ==
    ASSUME TypeOK, NEW t \in Thread
    PROVE  Mine(t) \subseteq Context /\ None \notin Mine(t) /\ NoWrite \notin Mine(t)
BY CacheAssumption DEF TypeOK, Mine

LEMMA InitInv == Init => IInv
<1> SUFFICES ASSUME Init PROVE IInv
    OBVIOUS
<1> USE CacheAssumption DEF Init
<1>1. TypeOK
    BY DEF TypeOK, PC, Creating, Releasing
<1>2. \A t \in Thread : Mine(t) = {}
    BY DEF Mine
<1>3. LockInv /\ LocalInv
    BY DEF LockInv, LocalInv, Holding
<1>4. NobodyShares /\ CacheInv
    BY <1>2 DEF NobodyShares, CacheInv
<1>. QED BY <1>1, <1>3, <1>4 DEF IInv

LEMMA NextTyped == TypeOK /\ [Next]_vars => TypeOK'
<1> SUFFICES ASSUME TypeOK, [Next]_vars PROVE TypeOK'
    OBVIOUS
<1> USE CacheAssumption DEF TypeOK, PC, Creating, Releasing, GoTo, Write, Seen
<1>1. ASSUME NEW t \in Thread, CallCreate(t) PROVE TypeOK'
    BY <1>1 DEF CallCreate
<1>2. ASSUME NEW t \in Thread, TryLockToCreate(t) PROVE TypeOK'
    BY <1>2 DEF TryLockToCreate
<1>3. ASSUME NEW t \in Thread, ReadCached(t) PROVE TypeOK'
    BY <1>3 DEF ReadCached
<1>4. ASSUME NEW t \in Thread, ResetCached(t) PROVE TypeOK'
    BY <1>4 DEF ResetCached
<1>5. ASSUME NEW t \in Thread, UnlockCreated(t) PROVE TypeOK'
    BY <1>5 DEF UnlockCreated
<1>6. ASSUME NEW t \in Thread, ReturnContext(t) PROVE TypeOK'
    BY <1>6 DEF ReturnContext
<1>7. ASSUME NEW t \in Thread, CallRelease(t) PROVE TypeOK'
    BY <1>7 DEF CallRelease
<1>8. ASSUME NEW t \in Thread, TryLockToRelease(t) PROVE TypeOK'
    BY <1>8 DEF TryLockToRelease
<1>9. ASSUME NEW t \in Thread, StoreCached(t) PROVE TypeOK'
    BY <1>9 DEF StoreCached
<1>10. ASSUME NEW t \in Thread, UnlockReleased(t) PROVE TypeOK'
    BY <1>10 DEF UnlockReleased
<1>11. ASSUME NEW t \in Thread, Commit(t) PROVE TypeOK'
    BY <1>11 DEF Commit
<1>12. CASE UNCHANGED vars
    BY <1>12 DEF vars
<1>. QED BY <1>1, <1>2, <1>3, <1>4, <1>5, <1>6, <1>7, <1>8, <1>9, <1>10, <1>11, <1>12
         DEF Next, Step

(* Whatever the interleaving of the calls, and in whatever order stores    *)
(* reach memory, the locals of createContext() and releaseContext() and    *)
(* the cache are contexts of the handler or null, and what a parse holds   *)
(* is never null: beginParse() and branch() use what createContext()       *)
(* returns without a test.                                                 *)
THEOREM TypeCorrect == Spec => []TypeOK
<1>1. Init => TypeOK
    BY InitInv DEF IInv
<1>2. TypeOK /\ [Next]_vars => TypeOK'
    BY NextTyped
<1>. QED BY <1>1, <1>2, PTL DEF Spec

(* One step of the two functions keeps the invariant.                      *)
LEMMA NextInv ==
    ASSUME StoreOrder = "program", IInv, [Next]_vars
    PROVE  IInv'
<1> USE CacheAssumption DEF IInv
<1>0. TypeOK'
    BY NextTyped
<1>a. \A t \in Thread : Mine(t) \subseteq Context /\ None \notin Mine(t) /\ NoWrite \notin Mine(t)
    BY MineTyped
<1>1. ASSUME NEW t \in Thread, CallCreate(t) PROVE IInv'
    <2>1. \A u \in Thread : Mine(u)' = Mine(u)
        BY <1>1 DEF CallCreate, Mine
    <2>2. LockInv' /\ LocalInv'
        BY <1>1 DEF CallCreate, GoTo, TypeOK, LockInv, LocalInv, Holding
    <2>3. NobodyShares' /\ CacheInv'
        BY <1>1, <2>1 DEF CallCreate, GoTo, TypeOK, NobodyShares, CacheInv
    <2>. QED BY <1>0, <2>2, <2>3
<1>2. ASSUME NEW t \in Thread, TryLockToCreate(t) PROVE IInv'
    <2>1. \A u \in Thread : Mine(u)' = Mine(u)
        BY <1>2 DEF TryLockToCreate, Mine
    <2>2. LockInv' /\ LocalInv'
        BY <1>2 DEF TryLockToCreate, GoTo, TypeOK, LockInv, LocalInv, Holding
    <2>3. NobodyShares' /\ CacheInv'
        BY <1>2, <2>1 DEF TryLockToCreate, GoTo, TypeOK, NobodyShares, CacheInv
    <2>. QED BY <1>0, <2>2, <2>3
<1>3. ASSUME NEW t \in Thread, ReadCached(t) PROVE IInv'
    <2>0. Seen(t) = slot
        BY <1>3 DEF ReadCached, GoTo, LockInv, Seen
    <2>1. \A u \in Thread : Mine(u)' = IF u = t THEN Mine(t) \cup ({slot} \ {None}) ELSE Mine(u)
        BY <1>3, <2>0 DEF ReadCached, GoTo, LocalInv, Mine, TypeOK
    <2>2. \A u \in Thread : slot \notin Mine(u) /\ (pending[u] = NoWrite)
        BY <1>3 DEF ReadCached, GoTo, LockInv, CacheInv, Holding
    <2>3. LockInv'
        BY <1>3 DEF ReadCached, GoTo, TypeOK, LockInv, Holding
    <2>4. LocalInv'
        BY <1>3, <2>0, <2>2 DEF ReadCached, GoTo, TypeOK, LocalInv, Mine
    <2>5. NobodyShares'
        BY <2>1, <2>2 DEF NobodyShares
    <2>6. CacheInv'
        <3>1. \A u \in Thread : slot' \in Mine(u)' => u = t /\ slot # None
            BY <1>3, <2>1, <2>2 DEF ReadCached
        <3>2. slot # None => pc'[t] = "reset"
            BY <1>3, <2>0 DEF ReadCached, GoTo, TypeOK
        <3>3. \A u, v \in Thread : pending'[u] \notin Mine(v)'
            BY <1>3, <2>1, <2>2, <1>a DEF ReadCached, TypeOK
        <3>. QED BY <3>1, <3>2, <3>3 DEF CacheInv
    <2>. QED BY <1>0, <2>3, <2>4, <2>5, <2>6
<1>4. ASSUME NEW t \in Thread, ResetCached(t) PROVE IInv'
    <2>1. \A u \in Thread : Mine(u)' = Mine(u)
        BY <1>4 DEF ResetCached, Mine
    <2>2. LockInv' /\ LocalInv'
        BY <1>4 DEF ResetCached, Write, GoTo, TypeOK, LockInv, LocalInv, Holding
    <2>3. NobodyShares' /\ CacheInv'
        BY <1>4, <2>1, <1>a DEF ResetCached, Write, GoTo, TypeOK, NobodyShares, CacheInv
    <2>. QED BY <1>0, <2>2, <2>3
<1>5. ASSUME NEW t \in Thread, UnlockCreated(t) PROVE IInv'
    <2>1. \A u \in Thread : Mine(u)' = Mine(u)
        BY <1>5 DEF UnlockCreated, Mine
    <2>2. LockInv' /\ LocalInv'
        BY <1>5 DEF UnlockCreated, MayUnlock, GoTo, TypeOK, LockInv, LocalInv, Holding
    <2>3. NobodyShares' /\ CacheInv'
        BY <1>5, <2>1 DEF UnlockCreated, MayUnlock, GoTo, TypeOK, NobodyShares, CacheInv
    <2>. QED BY <1>0, <2>2, <2>3
<1>6. ASSUME NEW t \in Thread, ReturnContext(t) PROVE IInv'
    <2>1. PICK c \in Context : /\ IF ret[t] # None THEN c = ret[t] ELSE ~InUse(c)
                               /\ held' = [held EXCEPT ![t] = @ \cup {c}]
        BY <1>6 DEF ReturnContext
    <2>2. given[t] = None
        BY <1>6 DEF ReturnContext, GoTo, LocalInv
    <2>3. \A u \in Thread : Mine(u)' = IF u = t THEN Mine(t) \cup {c} ELSE Mine(u)
        BY <1>6, <2>1, <2>2 DEF ReturnContext, Mine, TypeOK
    <2>4. LockInv' /\ LocalInv'
        BY <1>6, <2>1, <2>2 DEF ReturnContext, GoTo, TypeOK, LockInv, LocalInv, Holding
    <2>5. CASE ret[t] # None
        <3>1. \A u \in Thread : Mine(u)' = Mine(u)
            BY <2>1, <2>3, <2>5 DEF Mine
        <3>2. slot \notin Mine(t)
            BY <1>6 DEF ReturnContext, GoTo, CacheInv
        <3>3. NobodyShares' /\ CacheInv'
            BY <1>6, <3>1, <3>2 DEF ReturnContext, GoTo, TypeOK, NobodyShares, CacheInv
        <3>. QED BY <1>0, <2>4, <3>3
    <2>6. CASE ret[t] = None
        <3>1. c # slot /\ \A u \in Thread : c \notin Mine(u) /\ c # pending[u]
            BY <2>1, <2>6 DEF InUse, Mine
        <3>2. NobodyShares'
            BY <2>3, <3>1 DEF NobodyShares
        <3>3. CacheInv'
            <4>1. slot \notin Mine(t)
                BY <1>6 DEF ReturnContext, GoTo, CacheInv
            <4>. QED BY <1>6, <2>3, <3>1, <4>1 DEF ReturnContext, GoTo, TypeOK, CacheInv
        <3>. QED BY <1>0, <2>4, <3>2, <3>3
    <2>. QED BY <2>5, <2>6
<1>7. ASSUME NEW t \in Thread, CallRelease(t) PROVE IInv'
    <2>1. PICK c \in held[t] : /\ given' = [given EXCEPT ![t] = c]
                               /\ held' = [held EXCEPT ![t] = @ \ {c}]
        BY <1>7 DEF CallRelease
    <2>2. given[t] = None
        BY <1>7 DEF CallRelease, GoTo, LocalInv
    <2>3. \A u \in Thread : Mine(u)' = Mine(u)
        BY <1>7, <2>1, <2>2 DEF CallRelease, Mine, TypeOK
    <2>4. LockInv' /\ LocalInv'
        BY <1>7, <2>1 DEF CallRelease, GoTo, TypeOK, LockInv, LocalInv, Holding
    <2>5. NobodyShares' /\ CacheInv'
        BY <1>7, <2>3 DEF CallRelease, GoTo, TypeOK, NobodyShares, CacheInv
    <2>. QED BY <1>0, <2>4, <2>5
<1>8. ASSUME NEW t \in Thread, TryLockToRelease(t) PROVE IInv'
    <2>1. \A u \in Thread : Mine(u)' \subseteq Mine(u)
        BY <1>8 DEF TryLockToRelease, Mine, TypeOK
    <2>2. LockInv' /\ LocalInv'
        BY <1>8 DEF TryLockToRelease, GoTo, TypeOK, LockInv, LocalInv, Holding
    <2>3. NobodyShares' /\ CacheInv'
        BY <1>8, <2>1 DEF TryLockToRelease, GoTo, TypeOK, NobodyShares, CacheInv
    <2>. QED BY <1>0, <2>2, <2>3
<1>9. ASSUME NEW t \in Thread, StoreCached(t) PROVE IInv'
    <2>1. \A u \in Thread : Mine(u)' \subseteq Mine(u)
        BY <1>9 DEF StoreCached, Mine, TypeOK
    <2>2. LockInv' /\ LocalInv'
        BY <1>9 DEF StoreCached, Write, GoTo, TypeOK, LockInv, LocalInv, Holding
    <2>3. given[t] \in Mine(t) /\ given[t] \notin Mine(t)'
        BY <1>9 DEF StoreCached, GoTo, LocalInv, Mine, TypeOK
    <2>4. NobodyShares'
        BY <2>1 DEF NobodyShares
    <2>5. CacheInv'
        <3>1. \A u \in Thread : given[t] \notin Mine(u)'
            BY <2>1, <2>3 DEF NobodyShares
        <3>2. \A u \in Thread : slot \notin Mine(u)
            BY <1>9 DEF StoreCached, GoTo, LockInv, CacheInv, Holding
        <3>. QED BY <1>9, <2>1, <3>1, <3>2 DEF StoreCached, Write, TypeOK, CacheInv
    <2>. QED BY <1>0, <2>2, <2>4, <2>5
<1>10. ASSUME NEW t \in Thread, UnlockReleased(t) PROVE IInv'
    <2>1. \A u \in Thread : Mine(u)' = Mine(u)
        BY <1>10 DEF UnlockReleased, Mine
    <2>2. LockInv' /\ LocalInv'
        BY <1>10 DEF UnlockReleased, MayUnlock, GoTo, TypeOK, LockInv, LocalInv, Holding
    <2>3. NobodyShares' /\ CacheInv'
        BY <1>10, <2>1 DEF UnlockReleased, GoTo, TypeOK, NobodyShares, CacheInv
    <2>. QED BY <1>0, <2>2, <2>3
<1>11. ASSUME NEW t \in Thread, Commit(t) PROVE IInv'
    <2>1. \A u \in Thread : Mine(u)' = Mine(u)
        BY <1>11 DEF Commit, Mine
    <2>2. LockInv'
        BY <1>11 DEF Commit, TypeOK, LockInv
    <2>3. LocalInv'
        BY <1>11 DEF Commit, LockInv, LocalInv, Holding
    <2>4. NobodyShares' /\ CacheInv'
        BY <1>11, <2>1, <1>a DEF Commit, TypeOK, NobodyShares, CacheInv
    <2>. QED BY <1>0, <2>2, <2>3, <2>4
<1>12. CASE UNCHANGED vars
    BY <1>0, <1>12 DEF vars, LockInv, LocalInv, NobodyShares, CacheInv, Mine
<1>. QED BY <1>1, <1>2, <1>3, <1>4, <1>5, <1>6, <1>7, <1>8, <1>9, <1>10, <1>11, <1>12
         DEF Next, Step

(* No context of one thread is a context of another, however the calls of  *)
(* createContext() and releaseContext() interleave, while stores stay in   *)
(* order.                                                                  *)
THEOREM ContextsAreNotShared ==
    ASSUME StoreOrder = "program"
    PROVE  Spec => []NobodyShares
<1>1. Init => IInv
    BY InitInv
<1>2. IInv /\ [Next]_vars => IInv'
    BY NextInv
<1>3. IInv => NobodyShares
    BY DEF IInv
<1>. QED BY <1>1, <1>2, <1>3, PTL DEF Spec
----------------------------------------------------------------------------
(* The refinement.                                                         *)

(* Only one thread is inside the cache: what it is doing gives Cached.     *)
LEMMA CachedIs ==
    ASSUME LockInv, NEW t \in Thread, pc[t] \in Holding
    PROVE  Cached = IF pc[t] = "reset" THEN None
                    ELSE IF pending[t] # NoWrite THEN pending[t] ELSE slot
<1>1. \A u \in Thread : pending[u] # NoWrite => u = t
    BY DEF LockInv, Holding
<1>2. \A u \in Thread : pc[u] = "reset" => u = t
    BY DEF LockInv, Holding
<1>3. CASE pending[t] # NoWrite
    <2>1. pending[CHOOSE u \in Thread : pending[u] # NoWrite] = pending[t]
        BY <1>1, <1>3
    <2>. QED BY <1>2, <1>3, <2>1 DEF Cached
<1>4. CASE pending[t] = NoWrite
    BY <1>1, <1>2, <1>4 DEF Cached
<1>. QED BY <1>3, <1>4

LEMMA CachedKept ==
    ASSUME pending' = pending, slot' = slot,
           \A u \in Thread : pc'[u] = "reset" <=> pc[u] = "reset"
    PROVE  Cached' = Cached
BY DEF Cached

LEMMA InitImplements == Init => Pool!Init
BY CacheAssumption DEF Init, Pool!Init, Mine, Cached

LEMMA StepImplements ==
    ASSUME StoreOrder = "program", IInv, IInv', [Next]_vars
    PROVE  [Pool!Next]_Pool!vars
<1> DEFINE M == [t \in Thread |-> Mine(t)]
<1> USE CacheAssumption DEF IInv
<1>s. ASSUME Cached' = Cached, \A u \in Thread : Mine(u)' = Mine(u)
      PROVE  UNCHANGED Pool!vars
    BY <1>s DEF Pool!vars
<1>1. ASSUME NEW t \in Thread, CallCreate(t) PROVE UNCHANGED Pool!vars
    <2>1. \A u \in Thread : Mine(u)' = Mine(u)
        BY <1>1 DEF CallCreate, Mine
    <2>2. Cached' = Cached
        BY <1>1, CachedKept DEF CallCreate, GoTo, TypeOK
    <2>. QED BY <1>s, <2>1, <2>2
<1>2. ASSUME NEW t \in Thread, TryLockToCreate(t) PROVE UNCHANGED Pool!vars
    <2>1. \A u \in Thread : Mine(u)' = Mine(u)
        BY <1>2 DEF TryLockToCreate, Mine
    <2>2. Cached' = Cached
        BY <1>2, CachedKept DEF TryLockToCreate, GoTo, TypeOK
    <2>. QED BY <1>s, <2>1, <2>2
<1>3. ASSUME NEW t \in Thread, ReadCached(t)
      PROVE  Pool!TakeCached(t) \/ UNCHANGED Pool!vars
    <2>1. Seen(t) = slot /\ pending[t] = NoWrite
        BY <1>3 DEF ReadCached, GoTo, LockInv, Seen
    <2>2. \A u \in Thread : Mine(u)' = IF u = t THEN Mine(t) \cup ({slot} \ {None}) ELSE Mine(u)
        BY <1>3, <2>1 DEF ReadCached, GoTo, LocalInv, Mine, TypeOK
    <2>3. Cached = slot
        BY <1>3, <2>1, CachedIs DEF ReadCached, GoTo, Holding
    <2>4. CASE slot # None
        <3>1. pc'[t] = "reset"
            BY <1>3, <2>1, <2>4 DEF ReadCached, GoTo, TypeOK
        <3>2. Cached' = None
            BY <3>1 DEF Cached
        <3>3. M' = [M EXCEPT ![t] = @ \cup {Cached}]
            BY <2>2, <2>3, <2>4
        <3>. QED BY <2>3, <2>4, <3>2, <3>3 DEF Pool!TakeCached
    <2>5. CASE slot = None
        <3>1. Cached' = Cached
            BY <1>3, <2>1, <2>5, CachedKept DEF ReadCached, GoTo, TypeOK
        <3>. QED BY <1>s, <2>2, <2>5, <3>1
    <2>. QED BY <2>4, <2>5
<1>4. ASSUME NEW t \in Thread, ResetCached(t) PROVE UNCHANGED Pool!vars
    <2>1. \A u \in Thread : Mine(u)' = Mine(u)
        BY <1>4 DEF ResetCached, Mine
    <2>2. Cached = None
        BY <1>4, CachedIs DEF ResetCached, GoTo, Holding
    <2>3. pending'[t] = None /\ \A u \in Thread : pending'[u] # NoWrite => u = t
        BY <1>4 DEF ResetCached, Write, GoTo, TypeOK, LockInv, Holding
    <2>4. \A u \in Thread : pc'[u] # "reset"
        BY <1>4 DEF ResetCached, GoTo, TypeOK, LockInv, Holding
    <2>5. pending'[CHOOSE u \in Thread : pending'[u] # NoWrite] = None
        BY <2>3
    <2>6. Cached' = None
        BY <2>3, <2>4, <2>5 DEF Cached
    <2>. QED BY <1>s, <2>1, <2>2, <2>6
<1>5. ASSUME NEW t \in Thread, UnlockCreated(t) PROVE UNCHANGED Pool!vars
    <2>1. \A u \in Thread : Mine(u)' = Mine(u)
        BY <1>5 DEF UnlockCreated, Mine
    <2>2. Cached' = Cached
        BY <1>5, CachedKept DEF UnlockCreated, GoTo, TypeOK
    <2>. QED BY <1>s, <2>1, <2>2
<1>6. ASSUME NEW t \in Thread, ReturnContext(t)
      PROVE  Pool!TakeNew(t) \/ UNCHANGED Pool!vars
    <2>1. PICK c \in Context : /\ IF ret[t] # None THEN c = ret[t] ELSE ~InUse(c)
                               /\ held' = [held EXCEPT ![t] = @ \cup {c}]
        BY <1>6 DEF ReturnContext
    <2>2. \A u \in Thread : Mine(u)' = IF u = t THEN Mine(t) \cup {c} ELSE Mine(u)
        BY <1>6, <2>1 DEF ReturnContext, GoTo, LocalInv, Mine, TypeOK
    <2>3. Cached' = Cached
        BY <1>6, CachedKept DEF ReturnContext, GoTo, TypeOK
    <2>4. CASE ret[t] # None
        <3>1. c \in Mine(t)
            BY <2>1, <2>4 DEF Mine
        <3>. QED BY <1>s, <2>2, <2>3, <3>1
    <2>5. CASE ret[t] = None
        <3>1. c # slot /\ \A u \in Thread : c \notin Mine(u) /\ c # pending[u]
            BY <2>1, <2>5 DEF InUse, Mine
        <3>2. c # Cached
            <4>1. (\E u \in Thread : pending[u] # NoWrite)
                    => c # pending[CHOOSE u \in Thread : pending[u] # NoWrite]
                BY <3>1
            <4>. QED BY <3>1, <4>1 DEF Cached
        <3>3. Pool!Free(c)
            BY <3>1, <3>2 DEF Pool!Free
        <3>4. M' = [M EXCEPT ![t] = @ \cup {c}]
            BY <2>2
        <3>. QED BY <2>3, <3>3, <3>4 DEF Pool!TakeNew
    <2>. QED BY <2>4, <2>5
<1>7. ASSUME NEW t \in Thread, CallRelease(t) PROVE UNCHANGED Pool!vars
    <2>1. PICK c \in held[t] : /\ given' = [given EXCEPT ![t] = c]
                               /\ held' = [held EXCEPT ![t] = @ \ {c}]
        BY <1>7 DEF CallRelease
    <2>2. \A u \in Thread : Mine(u)' = Mine(u)
        BY <1>7, <2>1 DEF CallRelease, GoTo, LocalInv, Mine, TypeOK
    <2>3. Cached' = Cached
        BY <1>7, CachedKept DEF CallRelease, GoTo, TypeOK
    <2>. QED BY <1>s, <2>2, <2>3
<1>8. ASSUME NEW t \in Thread, TryLockToRelease(t)
      PROVE  Pool!Forget(t) \/ UNCHANGED Pool!vars
    <2>1. Cached' = Cached
        BY <1>8, CachedKept DEF TryLockToRelease, GoTo, TypeOK
    <2>2. CASE ~locked
        <3>1. \A u \in Thread : Mine(u)' = Mine(u)
            BY <1>8, <2>2 DEF TryLockToRelease, Mine, TypeOK
        <3>. QED BY <1>s, <2>1, <3>1
    <2>3. CASE locked
        <3>1. given[t] \in Mine(t) /\ ret[t] = None
            BY <1>8 DEF TryLockToRelease, GoTo, LocalInv, Mine
        <3>2. \A u \in Thread : Mine(u)' = IF u = t THEN Mine(t) \ {given[t]} ELSE Mine(u)
            BY <1>8, <2>3, <3>1 DEF TryLockToRelease, GoTo, LocalInv, Mine, TypeOK
        <3>3. M' = [M EXCEPT ![t] = @ \ {given[t]}]
            BY <3>2
        <3>. QED BY <2>1, <3>1, <3>3 DEF Pool!Forget
    <2>. QED BY <2>2, <2>3
<1>9. ASSUME NEW t \in Thread, StoreCached(t) PROVE Pool!Keep(t)
    <2>1. given[t] \in Mine(t) /\ ret[t] = None
        BY <1>9 DEF StoreCached, GoTo, LocalInv, Mine
    <2>2. \A u \in Thread : Mine(u)' = IF u = t THEN Mine(t) \ {given[t]} ELSE Mine(u)
        BY <1>9, <2>1 DEF StoreCached, GoTo, LocalInv, Mine, TypeOK
    <2>3. M' = [M EXCEPT ![t] = @ \ {given[t]}]
        BY <2>2
    <2>4. given[t] \in Context
        BY <2>1, MineTyped
    <2>5. pending'[t] = given[t] /\ \A u \in Thread : pending'[u] # NoWrite => u = t
        BY <1>9 DEF StoreCached, Write, GoTo, TypeOK, LockInv, Holding
    <2>6. \A u \in Thread : pc'[u] # "reset"
        BY <1>9 DEF StoreCached, GoTo, TypeOK, LockInv, Holding
    <2>7. pending'[CHOOSE u \in Thread : pending'[u] # NoWrite] = given[t]
        BY <2>4, <2>5
    <2>8. Cached' = given[t]
        BY <2>4, <2>5, <2>6, <2>7 DEF Cached
    <2>. QED BY <2>1, <2>3, <2>8 DEF Pool!Keep
<1>10. ASSUME NEW t \in Thread, UnlockReleased(t) PROVE UNCHANGED Pool!vars
    <2>1. \A u \in Thread : Mine(u)' = Mine(u)
        BY <1>10 DEF UnlockReleased, Mine
    <2>2. Cached' = Cached
        BY <1>10, CachedKept DEF UnlockReleased, GoTo, TypeOK
    <2>. QED BY <1>s, <2>1, <2>2
<1>11. ASSUME NEW t \in Thread, Commit(t) PROVE UNCHANGED Pool!vars
    <2>1. \A u \in Thread : Mine(u)' = Mine(u)
        BY <1>11 DEF Commit, Mine
    <2>2. pc[t] \in Holding /\ pc[t] # "reset"
        BY <1>11 DEF Commit, LockInv, Holding
    <2>3. Cached = pending[t]
        BY <1>11, <2>2, CachedIs DEF Commit
    <2>4. \A u \in Thread : pending'[u] = NoWrite /\ pc'[u] # "reset"
        BY <1>11, <2>2 DEF Commit, LockInv, Holding, TypeOK
    <2>5. Cached' = pending[t]
        BY <1>11, <2>4 DEF Commit, Cached
    <2>. QED BY <1>s, <2>1, <2>3, <2>5
<1>12. CASE UNCHANGED vars
    <2>1. \A u \in Thread : Mine(u)' = Mine(u)
        BY <1>12 DEF vars, Mine
    <2>2. Cached' = Cached
        BY <1>12, CachedKept DEF vars
    <2>. QED BY <1>s, <2>1, <2>2
<1>. QED BY <1>1, <1>2, <1>3, <1>4, <1>5, <1>6, <1>7, <1>8, <1>9, <1>10, <1>11, <1>12
         DEF Next, Step, Pool!Next

(* The statements of createContext() and releaseContext() implement the    *)
(* pool, in which a call gives or takes back one context at once.          *)
THEOREM CacheImplementsPool ==
    ASSUME StoreOrder = "program"
    PROVE  Spec => ImplementsPool
<1>1. Init => IInv /\ Pool!Init
    BY InitInv, InitImplements
<1>2. IInv /\ [Next]_vars => IInv'
    BY NextInv
<1>3. IInv /\ IInv' /\ [Next]_vars => [Pool!Next]_Pool!vars
    BY StepImplements
<1>. QED BY <1>1, <1>2, <1>3, PTL DEF Spec, ImplementsPool, Pool!Spec
==============================================================================
