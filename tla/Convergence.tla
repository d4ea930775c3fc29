---------------------------- MODULE Convergence -----------------------------
(***************************************************************************)
(* What up does for one service on its host (Service.remove_duplicate_     *)
(* containers, convergence_plan and execute_convergence_plan): create,     *)
(* start or recreate its containers so that they run the current image.    *)
(*                                                                         *)
(* Every call to the Docker daemon is one action.  A call may fail, and    *)
(* the server may die, before any of them: the up is then over and what it *)
(* did stays.  The service has a container_name, as nap_from_dicts gives   *)
(* every service.  Containers are named by their position in the sequence  *)
(* of all that were ever created.                                          *)
(***************************************************************************)
EXTENDS Integers, Sequences, FiniteSets

CONSTANTS
    Ups,         \* runs of up on this service
    Strategies,  \* the convergence strategies they are given
    Images,      \* what config_hash may say of the service: 1 .. n
    Exclusive,   \* TRUE if no two ups run at a time
    Faults       \* TRUE if calls may fail and the server may die

ASSUME ImagesAssumption == Images \in Nat \ {0}
ASSUME StrategiesAssumption == Strategies \subseteq {"changed", "always", "never"}
ASSUME UseAssumption == Exclusive \in BOOLEAN /\ Faults \in BOOLEAN

VARIABLES
    image,       \* its config_hash: the image of the tag, and the options
    containers,  \* all containers ever created, oldest first
    up           \* the state of each up

vars == <<image, containers, up>>

Container ==
    [status : {"created", "running", "paused", "exited", "removed"},
     own : BOOLEAN,   \* has the container_name, not a temporary name
     image : 1 .. Images,
     number : Nat,    \* of its label
     data : Nat]      \* the container whose volumes it has

PCs == {"idle", "duplicates", "stop_duplicate", "remove_duplicate", "plan",
        "create", "start_created", "start", "recreate", "rename", "renew",
        "start_renewed", "remove_old", "done"}

Up ==
    [pc : PCs,
     strategy : {"changed", "always", "never"},
     todo : SUBSET Nat,  \* containers the current loop has not come to
     at : Nat,           \* the one it is at
     new : Nat,          \* the one this up created
     seen : Nat,         \* image when it was last looked up
     result : {"none", "ok", "refused", "failed"}]

Existing == {k \in DOMAIN containers : containers[k].status # "removed"}
\* State.Running is true of a paused container as well
Running(k) == containers[k].status \in {"running", "paused"}
\* the daemon starts and stops a container it knows, unless it is paused
Operable(k) == k \in Existing /\ containers[k].status # "paused"
NameTaken == \E k \in Existing : containers[k].own
Active(r) == up[r].pc \notin {"idle", "done"}

Start(existing) ==
    /\ image = 1
    /\ containers = existing
    /\ up = [r \in Ups |->
               [pc |-> "idle", strategy |-> "changed", todo |-> {}, at |-> 0,
                new |-> 0, seen |-> 0, result |-> "none"]]
Init == Start(<<>>)

Set(k, field, value) ==
    containers' = [containers EXCEPT ![k] = [@ EXCEPT ![field] = value]]
Goto(r, pc) == up' = [up EXCEPT ![r].pc = pc]
End(r, result) == up' = [up EXCEPT ![r].pc = "done", ![r].result = result]

\* the daemon does not know the container, or refuses: an APIError
Refused(r) == End(r, "refused") /\ UNCHANGED containers
Oldest(S) == CHOOSE k \in S : \A l \in S : k <= l

\* the loop goes on, or the up is done
Loop(r, rest, pc) ==
    up' = [up EXCEPT ![r].todo = rest,
                     ![r].pc = IF rest = {} THEN "done" ELSE pc,
                     ![r].result = IF rest = {} THEN "ok" ELSE "none"]

Begin(r, strategy) ==
    /\ up[r].pc = "idle"
    /\ Exclusive => \A other \in Ups : ~Active(other)
    /\ up' = [up EXCEPT ![r].pc = "duplicates", ![r].strategy = strategy]
    /\ UNCHANGED <<image, containers>>

(***************************************************************************)
(* remove_duplicate_containers                                             *)
(***************************************************************************)
\* Mutants: no container is a duplicate; the one after each duplicate is.
DuplicatesMutant == {}
DuplicatesShifted ==
    {k + 1 : k \in {n \in Existing : \E l \in Existing :
                       l < n /\ containers[l].number = containers[n].number}}
\* of the containers of one number all but the oldest
Duplicates ==
    {k \in Existing :
        \E l \in Existing : l < k /\ containers[l].number = containers[k].number}

duplicate_containers(r) ==
    /\ up[r].pc = "duplicates"
    /\ up' = [up EXCEPT ![r].todo = Duplicates,
                        ![r].pc = IF Duplicates = {} THEN "plan"
                                  ELSE "stop_duplicate"]
    /\ UNCHANGED <<image, containers>>

stop_duplicate(r) ==
    LET k == Oldest(up[r].todo) IN
    /\ up[r].pc = "stop_duplicate"
    /\ IF ~Operable(k) THEN Refused(r)
       ELSE /\ IF Running(k) THEN Set(k, "status", "exited")
               ELSE UNCHANGED containers
            /\ Goto(r, "remove_duplicate")
    /\ UNCHANGED image

remove_duplicate(r) ==
    LET k == Oldest(up[r].todo)
        rest == up[r].todo \ {k}
    IN
    /\ up[r].pc = "remove_duplicate"
    /\ IF k \notin Existing \/ Running(k) THEN Refused(r)
       ELSE /\ Set(k, "status", "removed")
            /\ up' = [up EXCEPT ![r].todo = rest,
                                ![r].pc = IF rest = {} THEN "plan"
                                          ELSE "stop_duplicate"]
    /\ UNCHANGED image

(***************************************************************************)
(* convergence_plan                                                        *)
(***************************************************************************)
Stopped == {k \in Existing : ~Running(k)}
Diverged == \E k \in Existing : containers[k].image # image

Recreates(strategy) ==
    strategy = "always" \/ (strategy = "changed" /\ Diverged)

\* the action of the plan and the containers it is about; with nothing to
\* start the service is up to date
PlanFor(strategy) ==
    IF Existing = {} THEN <<"create", {}>>
    ELSE IF strategy = "never" THEN <<"start", Existing>>
    ELSE IF Recreates(strategy) THEN <<"recreate", Existing>>
    ELSE <<"start", Stopped>>

Execute(r, plan) ==
    LET noop == plan = <<"start", {}>> IN
    up' = [up EXCEPT ![r].pc = IF noop THEN "done" ELSE plan[1],
                     ![r].todo = plan[2],
                     ![r].seen = image,
                     ![r].result = IF noop THEN "ok" ELSE @]

\* Mutant: it is not looked whether the image has changed.
convergence_plan_mutant(r) ==
    /\ up[r].pc = "plan"
    /\ Execute(r, IF Existing = {} THEN <<"create", {}>> ELSE <<"start", Stopped>>)
    /\ UNCHANGED <<image, containers>>

convergence_plan(r) ==
    /\ up[r].pc = "plan"
    /\ Execute(r, PlanFor(up[r].strategy))
    /\ UNCHANGED <<image, containers>>

(***************************************************************************)
(* execute_convergence_plan                                                *)
(***************************************************************************)
NextNumber ==
    IF Existing = {} THEN 1
    ELSE 1 + containers[CHOOSE k \in Existing : \A l \in Existing :
                           containers[l].number <= containers[k].number].number

\* Mutant: the new container is not given the container_name.
Create_unnamed(r, number, data, pc) ==
    IF NameTaken THEN Refused(r)
    ELSE /\ containers' = Append(containers,
               [status |-> "created", own |-> FALSE, image |-> image,
                number |-> number, data |-> data])
         /\ up' = [up EXCEPT ![r].pc = pc, ![r].new = Len(containers) + 1,
                             ![r].seen = image]

\* create_container of up r, which looks the image up again; Docker refuses a
\* name that is taken
Create(r, number, data, pc) ==
    IF NameTaken THEN Refused(r)
    ELSE /\ containers' = Append(containers,
               [status |-> "created", own |-> TRUE, image |-> image,
                number |-> number, data |-> data])
         /\ up' = [up EXCEPT ![r].pc = pc, ![r].new = Len(containers) + 1,
                             ![r].seen = image]

create(r) ==
    /\ up[r].pc = "create"
    /\ Create(r, NextNumber, Len(containers) + 1, "start_created")
    /\ UNCHANGED image

start_created(r) ==
    /\ up[r].pc = "start_created"
    /\ IF ~Operable(up[r].new) THEN Refused(r)
       ELSE Set(up[r].new, "status", "running") /\ End(r, "ok")
    /\ UNCHANGED image

\* start_container_if_stopped
start(r) ==
    /\ up[r].pc = "start"
    /\ \E k \in up[r].todo :
          IF k \notin Existing THEN Refused(r)
          ELSE /\ IF Running(k) THEN UNCHANGED containers
                  ELSE Set(k, "status", "running")
               /\ Loop(r, up[r].todo \ {k}, "start")
    /\ UNCHANGED image

\* recreate_container, call by call
recreate(r) ==
    /\ up[r].pc = "recreate"
    /\ \E k \in up[r].todo :
          IF ~Operable(k) THEN Refused(r)
          ELSE /\ IF Running(k) THEN Set(k, "status", "exited")
                  ELSE UNCHANGED containers
               /\ up' = [up EXCEPT ![r].at = k, ![r].pc = "rename"]
    /\ UNCHANGED image

\* Mutant: the old container is removed to make room.
rename_by_removing(r) ==
    /\ up[r].pc = "rename"
    /\ IF up[r].at \notin Existing THEN Refused(r)
       ELSE Set(up[r].at, "status", "removed") /\ Goto(r, "renew")
    /\ UNCHANGED image

rename(r) ==
    /\ up[r].pc = "rename"
    /\ IF up[r].at \notin Existing THEN Refused(r)
       ELSE Set(up[r].at, "own", FALSE) /\ Goto(r, "renew")
    /\ UNCHANGED image

\* the new container gets the number and the volumes of the old one
renew(r) ==
    LET old == containers[up[r].at] IN
    /\ up[r].pc = "renew"
    /\ Create(r, old.number, old.data, "start_renewed")
    /\ UNCHANGED image

start_renewed(r) ==
    /\ up[r].pc = "start_renewed"
    /\ IF ~Operable(up[r].new) THEN Refused(r)
       ELSE Set(up[r].new, "status", "running") /\ Goto(r, "remove_old")
    /\ UNCHANGED image

remove_old(r) ==
    LET k == up[r].at IN
    /\ up[r].pc = "remove_old"
    /\ IF k \notin Existing \/ Running(k) THEN Refused(r)
       ELSE /\ Set(k, "status", "removed")
            /\ Loop(r, up[r].todo \ {k}, "recreate")
    /\ UNCHANGED image

(***************************************************************************)
(* What else happens                                                       *)
(***************************************************************************)
Fail(r) ==
    /\ Faults
    /\ Active(r)
    /\ End(r, "failed")
    /\ UNCHANGED <<image, containers>>

\* somebody builds or pulls an image for the tag or edits the file, or takes
\* that back: config_hash may return to what it was
Rebuild ==
    /\ image' \in (1 .. Images) \ {image}
    /\ UNCHANGED <<containers, up>>

\* the process of a container ends, but not while an up is at work: the answer
\* of an up can promise nothing about a container that ends behind its back
Exit(k) ==
    /\ containers[k].status = "running"
    /\ \A r \in Ups : ~Active(r)
    /\ Set(k, "status", "exited")
    /\ UNCHANGED <<image, up>>

Terminated == (\A r \in Ups : up[r].pc = "done") /\ UNCHANGED vars

Step(r) ==
    \/ duplicate_containers(r) \/ stop_duplicate(r) \/ remove_duplicate(r)
    \/ convergence_plan(r)
    \/ create(r) \/ start_created(r) \/ start(r)
    \/ recreate(r) \/ rename(r) \/ renew(r) \/ start_renewed(r) \/ remove_old(r)

Next ==
    \/ \E r \in Ups, strategy \in Strategies : Begin(r, strategy)
    \/ \E r \in Ups : Step(r) \/ Fail(r)
    \/ Rebuild
    \/ \E k \in DOMAIN containers : Exit(k)
    \/ Terminated

Spec == Init /\ [][Next]_vars

(***************************************************************************)
(* Properties                                                              *)
(***************************************************************************)
\* The containers and the locals of every up hold values of their types; what
\* an up is about to touch is a container that was created.
TypeOK ==
    /\ image \in 1 .. Images
    /\ containers \in Seq(Container)
    /\ up \in [Ups -> Up]
    /\ \A r \in Ups : up[r].todo \subseteq DOMAIN containers

Answers(r, result) == up[r].result = "none" /\ up'[r].result = result

\* An up that succeeds leaves the service with one container, running; unless
\* recreating was ruled out it runs what the up saw when it last looked.
Converged ==
    [][\A r \in Ups :
         Answers(r, "ok") =>
            \E k \in Existing' :
               /\ Existing' = {k}
               /\ containers'[k].status = "running"
               /\ up[r].strategy # "never" => containers'[k].image = up'[r].seen]_vars

\* Whatever earlier ups left half done when a call failed or the server died,
\* the next up meets no container in its way: the daemon refuses none of its
\* calls.
NeverRefused == \A r \in Ups : up[r].result # "refused"

\* Once the service has a container, some container of it holds the volumes
\* of the first one: recreating never loses data.
VolumesKept ==
    containers # <<>> => \E k \in Existing : containers[k].data = 1

\* An up that succeeds leaves the service's container under container_name,
\* where status, logs and destroy look for it.  What escapes that is a
\* container an earlier up has renamed and, broken off, not replaced: an up that
\* finds no reason to recreate it starts it under its temporary name.
NameKept ==
    [][\A r \in Ups :
         Answers(r, "ok") =>
            \/ \E k \in Existing' : containers'[k].own
            \/ up'[r].new = 0 /\ \E other \in Ups : up[other].result = "failed"]_vars
=============================================================================
