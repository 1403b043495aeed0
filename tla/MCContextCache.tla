---------------------------- MODULE MCContextCache ----------------------------
(***************************************************************************)
(* Two threads create and release contexts of one handler.  Only t1 is     *)
(* sure to go on: t2 may be preempted for good at any statement.           *)
(***************************************************************************)
EXTENDS ContextCache

CONSTANTS t1, t2, c1, c2, c3, c4, c5, c6

MCThread  == {t1, t2}
MCContext == {c1, c2, c3, c4, c5, c6}

LoneSpec == Spec /\ WF_vars(Step(t1))

(* createContext() and releaseContext() wait for nobody: they return even  *)
(* when the thread that has the lock never runs again.                     *)
CallsReturn == (pc[t1] # "parse") ~> (pc[t1] = "parse")
===============================================================================
