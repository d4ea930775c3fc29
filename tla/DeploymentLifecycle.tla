------------------------ MODULE DeploymentLifecycle -------------------------
(***************************************************************************)
(* The deployment requests, with clients that take turns on a project,     *)
(* implement ProjectLifecycle.                                             *)
(***************************************************************************)
EXTENDS Deployment

\* a request is at work on a project from new_main or the first read of
\* roll_back and destroy_project on
Working(r) ==
    req[r].pc \in {"load", "place", "plan", "execute", "launch", "exec",
                   "list", "locate", "look", "stop", "remove", "rb_delete",
                   "del_project", "del_service"}

StateOf(p) ==
    IF \E r \in Requests : Working(r) /\ Project(r) = p THEN "changing"
    ELSE IF Gone(p) THEN "absent"
    ELSE IF Up(p) THEN "up"
    ELSE "damaged"

AnswerOf(r) ==
    IF req[r].result = "ok" /\ req[r].op = "destroy" THEN "destroyed"
    ELSE req[r].result

Lifecycle ==
    INSTANCE ProjectLifecycle
        WITH state <- [p \in Projects |-> StateOf(p)],
             answer <- [r \in Requests |-> AnswerOf(r)]

\* The answer a client gets tells the state of its project: "ok" that every
\* service runs where the database says, "failed" and "destroyed" that nothing
\* is left; and a project changes only while a request works on it.
ImplementsLifecycle == Lifecycle!Spec
=============================================================================
