-------------------------- MODULE ProjectLifecycle --------------------------
(***************************************************************************)
(* What the API promises to clients that take turns on a project: its      *)
(* state changes only while a request is at work on it, and the answer of  *)
(* the request tells what became of it.                                    *)
(***************************************************************************)
CONSTANTS Requests, Projects

VARIABLES
    state,   \* what there is of each project
    answer   \* what each request was told

Settled == {"absent", "up", "damaged"}
States == Settled \cup {"changing"}
Answers == {"none", "refused", "argv", "ok", "failed", "destroyed", "crashed"}

\* the states a project may be left in, by answer; a request that died tells
\* nothing
Outcome ==
    [ok |-> {"up"}, failed |-> {"absent"}, destroyed |-> {"absent"},
     crashed |-> Settled]

Init ==
    /\ state = [p \in Projects |-> "absent"]
    /\ answer = [r \in Requests |-> "none"]

\* a request has passed its checks and goes to work on the project
Take(p) ==
    /\ state[p] \in Settled
    /\ state' = [state EXCEPT ![p] = "changing"]
    /\ UNCHANGED answer

Finish(r, p) ==
    /\ answer[r] = "none"
    /\ state[p] = "changing"
    /\ \E a \in DOMAIN Outcome : \E s \in Outcome[a] :
          /\ answer' = [answer EXCEPT ![r] = a]
          /\ state' = [state EXCEPT ![p] = s]

\* a request that goes no further than its checks leaves everything alone
Decline(r) ==
    /\ answer[r] = "none"
    /\ \E a \in {"refused", "argv", "crashed"} :
          answer' = [answer EXCEPT ![r] = a]
    /\ UNCHANGED state

Next ==
    \/ \E p \in Projects : Take(p)
    \/ \E r \in Requests, p \in Projects : Finish(r, p)
    \/ \E r \in Requests : Decline(r)

Spec == Init /\ [][Next]_<<state, answer>>
=============================================================================
