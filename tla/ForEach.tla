------------------------------ MODULE ForEach -------------------------------
(***************************************************************************)
(* What a caller of parallel_execute relies on: every object is acted on   *)
(* once, in any order, and the call ends after the last of them.           *)
(***************************************************************************)
EXTENDS Naturals

CONSTANT N   \* the objects are 1 .. N

VARIABLES
    acted,   \* what became of each object: "waiting" until it was acted on
    answer   \* "none" until the call ends

Outcomes == {"ok", "error", "unexpected_exception"}

Init ==
    /\ acted = [o \in 1 .. N |-> "waiting"]
    /\ answer = "none"

Act(o) ==
    /\ acted[o] = "waiting"
    /\ \E result \in Outcomes : acted' = [acted EXCEPT ![o] = result]
    /\ UNCHANGED answer

\* an "error" is printed and forgotten
Return ==
    /\ answer = "none"
    /\ \A o \in 1 .. N : acted[o] \in {"ok", "error"}
    /\ answer' = "returned"
    /\ UNCHANGED acted

Raise ==
    /\ answer = "none"
    /\ \A o \in 1 .. N : acted[o] # "waiting"
    /\ \E o \in 1 .. N : acted[o] = "unexpected_exception"
    /\ answer' = "raised"
    /\ UNCHANGED acted

\* a thread cannot be started, or the user interrupts the call
Abort ==
    /\ answer = "none"
    /\ answer' = "aborted"
    /\ UNCHANGED acted

Next == (\E o \in 1 .. N : Act(o)) \/ Return \/ Raise \/ Abort

Spec == Init /\ [][Next]_<<acted, answer>>
=============================================================================
