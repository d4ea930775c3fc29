------------------------------ MODULE Commands ------------------------------
(***************************************************************************)
(* The commands on one service, in any order and next to each other and to *)
(* up: scale, start, restart, pause, unpause, run, and those that ask the  *)
(* Project rather than the Service for its containers.                     *)
(*                                                                         *)
(* A command begins with its first call of the Docker daemon; every later  *)
(* call is an action.  What scale does to several containers, it does in   *)
(* parallel_execute: each of them once, in any order, and an APIError is   *)
(* printed and forgotten.  up and the containers are those of Convergence. *)
(***************************************************************************)
EXTENDS Convergence

CONSTANTS
    Clients,     \* processes that give one command each
    Desired,     \* the numbers they scale to
    AtATime,     \* commands and ups that may be in progress at a time
    CallErrors,  \* TRUE if a call of parallel_execute may be refused at random
    MaxOneOffs   \* one-off containers ever created

ASSUME DesiredAssumption == Desired \subseteq Nat
ASSUME CommandsAssumption ==
    AtATime \in Nat \ {0} /\ CallErrors \in BOOLEAN /\ MaxOneOffs \in Nat

VARIABLES
    overlap,  \* how many may be in progress: with 1 they are given in turns
    oneOffs,  \* containers of run, oldest first: their labels differ
    cmd       \* the state of each command

cvars == <<vars, overlap, oneOffs, cmd>>

Eachs == {"start", "restart", "pause", "unpause"}
Phases == {"starting", "creating", "stopping", "removing"}

Command ==
    [pc : {"idle", "list_stopped", "remove_stopped", "next_number", "run",
           "start_one_off", "done"} \cup Eachs \cup Phases,
     desired : Nat,
     todo : SUBSET Nat,     \* containers the loop has not come to
     numbers : SUBSET Nat,  \* numbers of containers not yet created
     made : SUBSET Nat,     \* containers created and not yet started
     running : Nat,         \* num_running
     errors : BOOLEAN,      \* whether the dictionary of errors has an entry
     result : {"none", "ok", "refused", "failed"}]

InProgress ==
    {c \in Clients : cmd[c].pc \notin {"idle", "done"}} \cup {r \in Ups : Active(r)}
Busy == InProgress # {}
MayBegin == Cardinality(InProgress) < overlap

\* nothing is deployed, or what an up has left
CommandsInit ==
    /\ \/ Start(<<>>)
       \/ Start(<<[status |-> "running", own |-> TRUE, image |-> 1,
                   number |-> 1, data |-> 1]>>)
    /\ overlap \in 1 .. AtATime
    /\ oneOffs = <<>>
    /\ cmd = [c \in Clients |->
                [pc |-> "idle", desired |-> 0, todo |-> {}, numbers |-> {},
                 made |-> {}, running |-> 0, errors |-> FALSE, result |-> "none"]]

\* Service.containers; when it lists none, it looks for containers without
\* labels, of which none has a name a service of this program is given
RunningOnes == {k \in Existing : Running(k)}

At(c, pc) == cmd' = [cmd EXCEPT ![c].pc = pc]
CmdEnd(c, result) ==
    cmd' = [cmd EXCEPT ![c].pc = "done", ![c].result = result,
                       ![c].todo = {}, ![c].numbers = {}, ![c].made = {},
                       ![c].desired = 0, ![c].running = 0]

(***************************************************************************)
(* start, restart, pause, unpause: one container after the other           *)
(***************************************************************************)
\* the containers the command asks for
Listed(kind) ==
    CASE kind = "start" -> Existing
      [] kind = "restart" -> RunningOnes
      [] kind = "pause" -> {k \in Existing : containers[k].status = "running"}
      [] kind = "unpause" -> {k \in Existing : containers[k].status = "paused"}

for_each(c, kind) ==
    /\ cmd[c].pc = "idle" /\ MayBegin
    /\ IF Listed(kind) = {} THEN CmdEnd(c, "ok")
       ELSE cmd' = [cmd EXCEPT ![c].pc = kind, ![c].todo = Listed(kind)]
    /\ UNCHANGED <<vars, overlap, oneOffs>>

\* what the daemon accepts: anything else is an APIError, which ends the command
Accepts(kind, k) ==
    /\ k \in Existing
    /\ CASE kind = "start" -> TRUE
         [] kind = "restart" -> Operable(k)
         [] kind = "pause" -> containers[k].status = "running"
         [] kind = "unpause" -> containers[k].status = "paused"

one_of_them(c) ==
    LET kind == cmd[c].pc IN
    /\ kind \in Eachs
    /\ \E k \in cmd[c].todo :
          IF ~Accepts(kind, k) THEN CmdEnd(c, "refused") /\ UNCHANGED containers
          ELSE /\ IF kind = "start" /\ Running(k) THEN UNCHANGED containers
                  ELSE Set(k, "status", IF kind = "pause" THEN "paused" ELSE "running")
               /\ IF cmd[c].todo = {k} THEN CmdEnd(c, "ok")
                  ELSE cmd' = [cmd EXCEPT ![c].todo = @ \ {k}]
    /\ UNCHANGED <<image, up, overlap, oneOffs>>

(***************************************************************************)
(* scale                                                                   *)
(***************************************************************************)
\* the n containers of S that come first, or last, in the order of numbers
First(n, S) ==
    {T \in SUBSET S : /\ Cardinality(T) = n
                      /\ \A k \in T, l \in S \ T :
                            containers[k].number <= containers[l].number}
Last(n, S) == {S \ T : T \in First(Cardinality(S) - n, S)}

\* Mutant: the containers with the lowest numbers are stopped.
scale_mutant(c, n) ==
    LET num == Cardinality(RunningOnes) IN
    /\ cmd[c].pc = "idle" /\ MayBegin
    /\ IF n = num THEN CmdEnd(c, "ok")
       ELSE IF n > num
       THEN cmd' = [cmd EXCEPT ![c].pc = "list_stopped", ![c].desired = n,
                               ![c].running = num]
       ELSE \E S \in First(num - n, RunningOnes) :
               cmd' = [cmd EXCEPT ![c].pc = "stopping", ![c].desired = n,
                                  ![c].todo = S]
    /\ UNCHANGED <<vars, overlap, oneOffs>>

scale(c, n) ==
    LET num == Cardinality(RunningOnes) IN
    /\ cmd[c].pc = "idle" /\ MayBegin
    /\ IF n = num THEN CmdEnd(c, "ok")
       ELSE IF n > num
       THEN cmd' = [cmd EXCEPT ![c].pc = "list_stopped", ![c].desired = n,
                               ![c].running = num]
       ELSE \E S \in Last(num - n, RunningOnes) :
               cmd' = [cmd EXCEPT ![c].pc = "stopping", ![c].desired = n,
                                  ![c].todo = S]
    /\ UNCHANGED <<vars, overlap, oneOffs>>

\* containers that are stopped are started before any is created
list_stopped(c) ==
    LET missing == cmd[c].desired - cmd[c].running
        stopped == {k \in Existing : ~Running(k)}
    IN
    /\ cmd[c].pc = "list_stopped"
    /\ IF Cardinality(Existing) = cmd[c].running THEN At(c, "next_number")
       ELSE \E S \in IF Cardinality(stopped) > missing THEN First(missing, stopped)
                     ELSE {stopped} :
               cmd' = [cmd EXCEPT ![c].pc = "starting", ![c].todo = S,
                                  ![c].running = @ + Cardinality(S)]
    /\ UNCHANGED <<vars, overlap, oneOffs>>

\* Mutant: create up to the number in use.
next_number_mutant(c) ==
    /\ cmd[c].pc = "next_number"
    /\ cmd' = [cmd EXCEPT ![c].pc = "creating",
                          ![c].numbers = NextNumber .. cmd[c].desired]
    /\ UNCHANGED <<vars, overlap, oneOffs>>

next_number(c) ==
    /\ cmd[c].pc = "next_number"
    /\ cmd' = [cmd EXCEPT ![c].pc = "creating",
                          ![c].numbers = NextNumber .. NextNumber + cmd[c].desired
                                                       - cmd[c].running - 1]
    /\ UNCHANGED <<vars, overlap, oneOffs>>

\* the thread of number i: create_container, which Docker refuses if the name
\* is taken, and then start
create_number(c) ==
    /\ cmd[c].pc = "creating"
    /\ \E i \in cmd[c].numbers :
          IF NameTaken
          THEN /\ cmd' = [cmd EXCEPT ![c].numbers = @ \ {i}, ![c].errors = TRUE]
               /\ UNCHANGED containers
          ELSE /\ containers' = Append(containers,
                      [status |-> "created", own |-> TRUE, image |-> image,
                       number |-> i, data |-> Len(containers) + 1])
               /\ cmd' = [cmd EXCEPT ![c].numbers = @ \ {i},
                                     ![c].made = @ \cup {Len(containers) + 1}]
    /\ UNCHANGED <<image, up, overlap, oneOffs>>

start_number(c) ==
    /\ cmd[c].pc = "creating"
    /\ \E k \in cmd[c].made :
          /\ IF Operable(k) THEN Set(k, "status", "running")
             ELSE UNCHANGED containers
          /\ cmd' = [cmd EXCEPT ![c].made = @ \ {k},
                                ![c].errors = @ \/ ~Operable(k)]
    /\ UNCHANGED <<image, up, overlap, oneOffs>>

\* what a phase makes of a container, and whether the daemon lets it
Target(phase) ==
    CASE phase = "starting" -> "running"
      [] phase = "stopping" -> "exited"
      [] phase = "removing" -> "removed"
Lets(phase, k) ==
    IF phase = "removing" THEN k \in Existing /\ ~Running(k) ELSE Operable(k)

\* Mutant: a refused call is tried again.
in_parallel_mutant(c) ==
    LET phase == cmd[c].pc IN
    /\ phase \in Phases \ {"creating"}
    /\ \E k \in cmd[c].todo :
          /\ IF Lets(phase, k)
             THEN /\ Set(k, "status", Target(phase))
                  /\ cmd' = [cmd EXCEPT ![c].todo = @ \ {k}]
             ELSE UNCHANGED <<containers, cmd>>
    /\ UNCHANGED <<image, up, overlap, oneOffs>>

in_parallel(c) ==
    LET phase == cmd[c].pc IN
    /\ phase \in Phases \ {"creating"}
    /\ \E k \in cmd[c].todo :
          \/ /\ Lets(phase, k)
             /\ Set(k, "status", Target(phase))
             /\ cmd' = [cmd EXCEPT ![c].todo = @ \ {k}]
          \/ /\ ~Lets(phase, k) \/ CallErrors
             /\ cmd' = [cmd EXCEPT ![c].todo = @ \ {k}, ![c].errors = TRUE]
             /\ UNCHANGED containers
    /\ UNCHANGED <<image, up, overlap, oneOffs>>

\* Mutant: only what is to be created is awaited.
join_mutant(c) ==
    /\ cmd[c].numbers = {}
    /\ \/ cmd[c].pc = "starting" /\ At(c, "next_number")
       \/ cmd[c].pc \in {"creating", "stopping"} /\ At(c, "remove_stopped")
       \/ cmd[c].pc = "removing" /\ CmdEnd(c, "ok")
    /\ UNCHANGED <<vars, overlap, oneOffs>>

\* parallel_execute returns when every thread has answered
join(c) ==
    /\ cmd[c].todo = {} /\ cmd[c].numbers = {} /\ cmd[c].made = {}
    /\ \/ cmd[c].pc = "starting" /\ At(c, "next_number")
       \/ cmd[c].pc \in {"creating", "stopping"} /\ At(c, "remove_stopped")
       \/ cmd[c].pc = "removing" /\ CmdEnd(c, "ok")
    /\ UNCHANGED <<vars, overlap, oneOffs>>

\* Mutant: the numbers of the containers are taken for their positions.
remove_stopped_mutant(c) ==
    /\ cmd[c].pc = "remove_stopped"
    /\ cmd' = [cmd EXCEPT ![c].pc = "removing",
                          ![c].todo = {containers[k].number :
                              k \in {l \in Existing : ~Running(l)}}]
    /\ UNCHANGED <<vars, overlap, oneOffs>>

\* whatever is not running goes, whoever stopped or has just created it
remove_stopped(c) ==
    /\ cmd[c].pc = "remove_stopped"
    /\ cmd' = [cmd EXCEPT ![c].pc = "removing",
                          ![c].todo = {k \in Existing : ~Running(k)}]
    /\ UNCHANGED <<vars, overlap, oneOffs>>

(***************************************************************************)
(* run, and the commands that end before they begin                        *)
(***************************************************************************)
NumbersOf(s) == {s[i].number : i \in DOMAIN s}
NextOneOff ==
    IF oneOffs = <<>> THEN 1
    ELSE 1 + CHOOSE n \in NumbersOf(oneOffs) : \A m \in NumbersOf(oneOffs) : m <= n

\* the number of the next one-off container
run(c) ==
    /\ cmd[c].pc = "idle" /\ MayBegin
    /\ cmd' = [cmd EXCEPT ![c].pc = "run", ![c].numbers = {NextOneOff}]
    /\ UNCHANGED <<vars, overlap, oneOffs>>

\* its name is its number, and it is linked to the running containers of its
\* service, which are listed for that: if the listing fails the command does
\* (Die).  A refusal ends in AttributeError, as the check for containers
\* without labels is then asked of a list of clients.
create_one_off(c) ==
    /\ cmd[c].pc = "run"
    /\ Len(oneOffs) < MaxOneOffs
    /\ IF cmd[c].numbers \subseteq NumbersOf(oneOffs)
       THEN CmdEnd(c, "failed") /\ UNCHANGED oneOffs
       ELSE /\ oneOffs' = Append(oneOffs, [number |-> CHOOSE n \in cmd[c].numbers : TRUE,
                                           started |-> FALSE])
            /\ cmd' = [cmd EXCEPT ![c].pc = "start_one_off",
                                  ![c].made = {Len(oneOffs) + 1}]
    /\ UNCHANGED <<vars, overlap>>

\* with -d; without it dockerpty is given the list of clients, and fails
start_one_off(c) ==
    /\ cmd[c].pc = "start_one_off"
    /\ \/ /\ oneOffs' = [i \in DOMAIN oneOffs |->
                            [oneOffs[i] EXCEPT !.started = @ \/ i \in cmd[c].made]]
          /\ CmdEnd(c, "ok")
       \/ UNCHANGED oneOffs /\ CmdEnd(c, "failed")
    /\ UNCHANGED <<vars, overlap>>

\* Project.containers and Project.client.containers: the project's client is a
\* list, which has no such method (stop, kill, rm, ps, logs, migrate-to-labels)
project_containers(c) ==
    /\ cmd[c].pc = "idle" /\ MayBegin
    /\ CmdEnd(c, "failed")
    /\ UNCHANGED <<vars, overlap, oneOffs>>

(***************************************************************************)
(* up, faults and the specification                                        *)
(***************************************************************************)
begin_up(r, strategy) ==
    /\ MayBegin
    /\ Begin(r, strategy)
    /\ UNCHANGED <<overlap, oneOffs, cmd>>

up_step(r) ==
    /\ Step(r)
    /\ UNCHANGED <<overlap, oneOffs, cmd>>

Die(c) ==
    /\ Faults
    /\ cmd[c].pc \notin {"idle", "done"}
    /\ CmdEnd(c, "failed")
    /\ UNCHANGED <<vars, overlap, oneOffs>>

Around ==
    /\ \/ \E r \in Ups : Fail(r)
       \/ Rebuild
       \/ ~Busy /\ \E k \in DOMAIN containers : Exit(k)
    /\ UNCHANGED <<overlap, oneOffs, cmd>>

CommandStep(c) ==
    \/ one_of_them(c)
    \/ list_stopped(c) \/ next_number(c) \/ create_number(c) \/ start_number(c)
    \/ in_parallel(c) \/ join(c) \/ remove_stopped(c)
    \/ create_one_off(c) \/ start_one_off(c)

CommandBegin(c) ==
    \/ \E kind \in Eachs : for_each(c, kind)
    \/ \E n \in Desired : scale(c, n)
    \/ run(c) \/ project_containers(c)

AllDone ==
    /\ ~Busy
    /\ UNCHANGED cvars

CommandsNext ==
    \/ \E c \in Clients : CommandBegin(c) \/ CommandStep(c) \/ Die(c)
    \/ \E r \in Ups, strategy \in Strategies : begin_up(r, strategy)
    \/ \E r \in Ups : up_step(r)
    \/ Around
    \/ AllDone

CommandsSpec == CommandsInit /\ [][CommandsNext]_cvars

\* every call of the daemon returns or times out
CommandsFairSpec ==
    /\ CommandsSpec
    /\ \A c \in Clients : WF_cvars(CommandStep(c))
    /\ \A r \in Ups : WF_cvars(up_step(r))

(***************************************************************************)
(* Properties                                                              *)
(***************************************************************************)
\* Containers, commands and ups hold values of their types, and a command
\* starts, stops and removes only containers that were created.
CommandsTypeOK ==
    /\ TypeOK
    /\ overlap \in 1 .. AtATime
    /\ oneOffs \in Seq([number : Nat, started : BOOLEAN])
    /\ cmd \in [Clients -> Command]
    /\ \A c \in Clients : cmd[c].pc # "start_one_off" =>
          cmd[c].todo \cup cmd[c].made \subseteq DOMAIN containers

\* A scale that nothing overlaps leaves as many containers running as it was
\* asked for, or fewer if one of its calls was refused or the container_name
\* was taken; and unless there was nothing to do, none that is stopped.
Scales ==
    [][\A c \in Clients :
         /\ overlap = 1
         /\ cmd[c].result = "none" /\ cmd'[c].result = "ok"
         /\ cmd[c].pc = "removing" /\ ~cmd[c].errors
         => /\ Cardinality(RunningOnes') = cmd[c].desired
            /\ Existing' = RunningOnes']_cvars

\* Given one after the other, no commands lose the volumes of the service: not
\* even a scale down after an up that failed half way, as long as no other up
\* fails, no call of a parallel phase is refused and nobody scales to zero.
FailedUps == {r \in Ups : up[r].result \in {"refused", "failed"}}
VolumesSurvive ==
    /\ overlap = 1
    /\ \A c \in Clients : ~cmd[c].errors
    /\ \A r, s \in FailedUps : r = s
    => VolumesKept

\* However commands overlap, none leaves a container behind that it created
\* and never started, unless one of them was refused, failed or died.
NothingHalfMade ==
    ~Busy /\ (\A c \in Clients : cmd[c].result \in {"none", "ok"} /\ ~cmd[c].errors)
          /\ (\A r \in Ups : up[r].result \in {"none", "ok"})
    => /\ \A k \in Existing : containers[k].status # "created"
       /\ \A i \in DOMAIN oneOffs : oneOffs[i].started

\* Every command ends, and so does every up, whatever they do to each other.
CommandsEnd ==
    /\ \A c \in Clients : (cmd[c].pc # "idle") ~> (cmd[c].pc = "done")
    /\ \A r \in Ups : (up[r].pc # "idle") ~> (up[r].pc = "done")
=============================================================================
