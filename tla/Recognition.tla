------------------------------ MODULE Recognition ------------------------------
(***************************************************************************)
(* What parseInput() promises, without contexts, branches or stack: a      *)
(* parse is one step, and gives an answer that the call may have.  What    *)
(* the answers of a call are is left open: the objects of Objects, which   *)
(* TLC computes, or those of Contents, which are reasoned about.           *)
(***************************************************************************)
EXTENDS ParsedObjects

CONSTANTS Thread, Script, Outcomes(_)

VARIABLES status, script, parses, outcome

vars == <<status, script, parses, outcome>>

----------------------------------------------------------------------------
Init ==
    /\ status = [t \in Thread |-> "idle"]
    /\ parses = [t \in Thread |-> 0]
    /\ script \in Script
    /\ outcome = [t \in Thread |-> NoOutcome]

Call(t) ==
    /\ status[t] \in {"idle", "done"}
    /\ parses[t] < Len(script[t])
    /\ status' = [status EXCEPT ![t] = "parsing"]
    /\ parses' = [parses EXCEPT ![t] = @ + 1]
    /\ UNCHANGED <<script, outcome>>

Answer(t) ==
    /\ status[t] = "parsing"
    /\ status' = [status EXCEPT ![t] = "done"]
    /\ \E o \in Outcomes(script[t][parses[t]]) : outcome' = [outcome EXCEPT ![t] = o]
    /\ UNCHANGED <<parses, script>>

AllDone ==
    /\ \A t \in Thread : status[t] # "parsing" /\ parses[t] = Len(script[t])
    /\ UNCHANGED vars

Next ==
    \/ \E t \in Thread : Call(t) \/ Answer(t)
    \/ AllDone

Spec == Init /\ [][Next]_vars

==============================================================================
