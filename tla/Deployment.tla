----------------------------- MODULE Deployment -----------------------------
(***************************************************************************)
(* The life of a project in nap-core: the requests of nap_api (create from *)
(* a URL or from the file browser, deploy, fill in arguments, destroy), the *)
(* user's MySQL tables, the project directories and the Docker hosts.      *)
(*                                                                         *)
(* Every request is a process.  The handlers hold no lock, so each call to *)
(* the database, the file system or a Docker daemon is one action.         *)
(*                                                                         *)
(* A member of Projects stands for a user together with a project name:    *)
(* every query runs in the user's own database.  A member of Services is a *)
(* container_name of a compose file.                                       *)
(***************************************************************************)
EXTENDS Integers, Sequences, FiniteSets

CONSTANTS
    Requests,      \* API requests, each served by a process of its own
    Projects,
    Services,
    Names,         \* names that Docker containers may have
    ServicesOf,    \* ServicesOf[p]: what sort_service_dicts returns for p
    FullName,      \* FullName[<<p, s>>]: user-project-service
    Templates,     \* projects whose compose file has ## placeholders
    MachineCount,  \* rows of the machine table
    Workload,      \* the <<operation, project>> pairs clients ask for
    Exclusive,     \* TRUE if clients never run two requests on one project
    Resubmit,      \* TRUE if clients may deploy what has service rows already
    Faults         \* kinds of failure that may occur

Operations == {"url", "filebrowser", "file", "replace", "destroy"}
FaultKinds == {"docker", "cleanup", "crash", "torn"}

\* random.randint(0,1), whatever the number of machines
RandomIndex == 0 .. 1
Hosts == 0 .. MachineCount - 1
NoHost == -1

ASSUME ServicesAssumption == ServicesOf \in [Projects -> Seq(Services)]
ASSUME NameAssumption == FullName \in [Projects \X Services -> Names]
ASSUME MachineAssumption == MachineCount \in Nat \ {0}
ASSUME ClientAssumption ==
    /\ Workload \subseteq Operations \X Projects
    /\ Templates \subseteq Projects
    /\ Exclusive \in BOOLEAN
    /\ Resubmit \in BOOLEAN
    /\ Faults \subseteq FaultKinds

VARIABLES
    projectRows,  \* number of rows of table project with this name
    rows,         \* rows of table service with this project, oldest first
    dirs,         \* the project directory and its docker-compose.yml
    containers,   \* the containers of all hosts
    req           \* the program counter and the locals of each request

vars == <<projectRows, rows, dirs, containers, req>>

Row == [name : Services, machine : Hosts]
Container ==
    [host : Hosts, name : Names, project : Projects, service : Services,
     by : Requests, status : {"created", "running", "exited"}]
DirStates == {"absent", "bare", "template", "ready"}
Plan == [action : {"create", "start", "noop"}, by : Requests]
PCs == {"idle", "exists", "path", "mkdir", "clone", "insert", "argv",
        "replace", "load", "place", "plan", "execute", "launch", "exec",
        "list", "locate", "look", "stop", "remove", "rb_delete",
        "del_project", "del_service", "done"}
Results == {"none", "refused", "argv", "ok", "failed", "crashed"}

Request ==
    [pc : PCs, op : Operations, project : Projects, result : Results,
     i : Nat,                \* position in the list of services
     place : Seq(Hosts),     \* the client each Service object was given
     plan : Seq(Plan),       \* the ConvergencePlan of each service
     todo : Seq(Services),   \* service names still to be cleaned up
     at : Hosts \cup {NoHost}]

(***************************************************************************)
(* Reading the database and the hosts                                      *)
(***************************************************************************)
Has(p, s) == {k \in DOMAIN rows[p] : rows[p][k].name = s}

\* fetchone: the machine of the oldest row with that name
machine_ip(p, s) ==
    IF Has(p, s) = {} THEN NoHost
    ELSE rows[p][CHOOSE k \in Has(p, s) : \A l \in Has(p, s) : k <= l].machine

service_list(p) == [k \in DOMAIN rows[p] |-> rows[p][k].name]

\* containers of host h that a daemon finds under this name
Named(h, n) == {c \in containers : c.host = h /\ c.name = n}

\* containers of host h that the labels of this service select
Labelled(h, p, s) ==
    {c \in containers : c.host = h /\ c.project = p /\ c.service = s}

(***************************************************************************)
(* The state of one request                                                *)
(***************************************************************************)
Active(r) == req[r].pc \notin {"idle", "done"}
Project(r) == req[r].project
CurrentService(r) == ServicesOf[Project(r)][req[r].i]
\* Mutant: every service is created by the first client.
CurrentHostMutant(r) == req[r].place[1]
CurrentHost(r) == req[r].place[req[r].i]
CurrentName(r) == FullName[<<Project(r), CurrentService(r)>>]
\* Mutant: the name is put together for another project.
CleanupNameMutant(r) ==
    FullName[<<CHOOSE p \in Projects : p # Project(r), Head(req[r].todo)>>]
CleanupName(r) == FullName[<<Project(r), Head(req[r].todo)>>]
\* Mutant: the loops over the services stop one short.
LastServiceMutant(r) == req[r].i + 1 >= Len(ServicesOf[Project(r)])
LastService(r) == req[r].i = Len(ServicesOf[Project(r)])

Idle(p) ==
    [pc |-> "idle", op |-> "destroy", project |-> p, result |-> "none",
     i |-> 1, place |-> <<>>, plan |-> <<>>, todo |-> <<>>, at |-> NoHost]

Goto(r, pc) == req' = [req EXCEPT ![r] = [@ EXCEPT !.pc = pc]]
\* the locals of a handler go when it returns or dies
Return(r, result) ==
    req' = [req EXCEPT ![r] =
        [@ EXCEPT !.pc = "done", !.result = result, !.i = 1, !.place = <<>>,
                  !.plan = <<>>, !.todo = <<>>, !.at = NoHost]]

\* the next service of a loop over project.services, or what follows the loop
NextService(r, again, after) ==
    req' = [req EXCEPT ![r] =
        [@ EXCEPT !.pc = IF LastService(r) THEN after ELSE again,
                  !.i = IF LastService(r) THEN 1 ELSE req[r].i + 1]]

Init ==
    /\ projectRows = [p \in Projects |-> 0]
    /\ rows = [p \in Projects |-> <<>>]
    /\ dirs = [p \in Projects |-> "absent"]
    /\ containers = {}
    /\ \E p \in Projects : req = [r \in Requests |-> Idle(p)]

\* a user uploads a project with the file browser
Upload(p) ==
    /\ \E op \in {"filebrowser", "file"} : <<op, p>> \in Workload
    /\ dirs[p] = "absent"
    /\ dirs' = [dirs EXCEPT ![p] = IF p \in Templates THEN "template"
                                   ELSE "ready"]
    /\ UNCHANGED <<projectRows, rows, containers, req>>

(***************************************************************************)
(* What clients ask for                                                    *)
(***************************************************************************)
\* Nothing in the handlers looks for the services of an earlier deployment:
\* "file" and "replace" look at no table, and "filebrowser" looks for the
\* project, which "file" does not list.
Redeploys(op, p) ==
    /\ rows[p] # <<>>
    /\ op \in {"file", "replace"} \/ (op = "filebrowser" /\ projectRows[p] = 0)

Admissible(op, p) ==
    /\ <<op, p>> \in Workload
    /\ Exclusive => \A q \in Requests : Active(q) => Project(q) # p
    /\ Resubmit \/ ~Redeploys(op, p)

FirstStep ==
    [url |-> "exists", filebrowser |-> "exists", file |-> "argv",
     replace |-> "replace", destroy |-> "list"]

Begin(r, op, p) ==
    /\ req[r].pc = "idle"
    /\ Admissible(op, p)
    /\ req' = [req EXCEPT ![r] =
                  [@ EXCEPT !.pc = FirstStep[op], !.op = op, !.project = p]]
    /\ UNCHANGED <<projectRows, rows, dirs, containers>>

(***************************************************************************)
(* Creating a project                                                      *)
(***************************************************************************)
project_exists(r) ==
    /\ req[r].pc = "exists"
    /\ IF projectRows[Project(r)] > 0 THEN Return(r, "refused")
       ELSE Goto(r, IF req[r].op = "url" THEN "path" ELSE "insert")
    /\ UNCHANGED <<projectRows, rows, dirs, containers>>

path_exists(r) ==
    /\ req[r].pc = "path"
    /\ IF dirs[Project(r)] # "absent" THEN Return(r, "refused")
       ELSE Goto(r, "mkdir")
    /\ UNCHANGED <<projectRows, rows, dirs, containers>>

\* os.mkdir raises OSError, which nobody handles, if the path exists by now
mkdir(r) ==
    LET p == Project(r) IN
    /\ req[r].pc = "mkdir"
    /\ IF dirs[p] = "absent"
       THEN dirs' = [dirs EXCEPT ![p] = "bare"] /\ Goto(r, "clone")
       ELSE UNCHANGED dirs /\ Return(r, "crashed")
    /\ UNCHANGED <<projectRows, rows, containers>>

\* a GitCommandError removes the directory, any other error leaves it
clone_from(r) ==
    LET p == Project(r) IN
    /\ req[r].pc = "clone"
    /\ \/ /\ dirs' = [dirs EXCEPT ![p] = IF p \in Templates THEN "template"
                                         ELSE "ready"]
          /\ Goto(r, "insert")
       \/ /\ dirs' = [dirs EXCEPT ![p] = "absent"]
          /\ Return(r, "refused")
       \/ /\ UNCHANGED dirs
          /\ Return(r, "refused")
    /\ UNCHANGED <<projectRows, rows, containers>>

create_project(r) ==
    /\ req[r].pc = "insert"
    /\ projectRows' = [projectRows EXCEPT ![Project(r)] = @ + 1]
    /\ Goto(r, "argv")
    /\ UNCHANGED <<rows, dirs, containers>>

\* open raises IOError, which nobody handles, if there is no compose file
get_argv(r) ==
    /\ req[r].pc = "argv"
    /\ CASE dirs[Project(r)] = "ready" -> Goto(r, "load")
         [] dirs[Project(r)] = "template" -> Return(r, "argv")
         [] OTHER -> Return(r, "crashed")
    /\ UNCHANGED <<projectRows, rows, dirs, containers>>

\* the client gives a value for every placeholder that get_argv returned
replace_argv(r) ==
    LET p == Project(r) IN
    /\ req[r].pc = "replace"
    /\ IF dirs[p] \in {"absent", "bare"}
       THEN Return(r, "crashed") /\ UNCHANGED dirs
       ELSE Goto(r, "load") /\ dirs' = [dirs EXCEPT ![p] = "ready"]
    /\ UNCHANGED <<projectRows, rows, containers>>

(***************************************************************************)
(* Deploying it: nap_get_project, then Project.up                          *)
(***************************************************************************)
config_load(r) ==
    /\ req[r].pc = "load"
    /\ req' = [req EXCEPT ![r] =
                  [@ EXCEPT !.pc = IF ServicesOf[Project(r)] = <<>> THEN "plan"
                                   ELSE "place",
                            !.i = 1, !.place = <<>>, !.plan = <<>>]]
    /\ UNCHANGED <<projectRows, rows, dirs, containers>>

\* one turn of the loop of nap_from_dicts: a random client, the row, the
\* Service.  client_list[index] raises IndexError when there is one machine.
nap_from_dicts(r) ==
    LET p == Project(r) IN
    /\ req[r].pc = "place"
    /\ \E index \in RandomIndex :
          IF index \in Hosts
          THEN /\ rows' = [rows EXCEPT ![p] =
                             Append(@, [name |-> CurrentService(r),
                                        machine |-> index])]
               /\ req' = [req EXCEPT ![r] =
                      [@ EXCEPT !.pc = IF LastService(r) THEN "plan" ELSE "place",
                                !.i = IF LastService(r) THEN 1 ELSE req[r].i + 1,
                                !.place = Append(req[r].place, index)]]
          ELSE UNCHANGED rows /\ Return(r, "crashed")
    /\ UNCHANGED <<projectRows, dirs, containers>>

\* Nothing has diverged: the compose file of a ready project stays as it is.
\* Without services get_services calls itself until Python gives up.
convergence_plan(r) ==
    /\ req[r].pc = "plan"
    /\ IF ServicesOf[Project(r)] = <<>> THEN Return(r, "crashed")
       ELSE LET found == Labelled(CurrentHost(r), Project(r), CurrentService(r))
                Choose(a, b) ==
                    req' = [req EXCEPT ![r] =
                        [@ EXCEPT !.pc = IF LastService(r) THEN "execute"
                                         ELSE "plan",
                                  !.i = IF LastService(r) THEN 1 ELSE req[r].i + 1,
                                  !.plan = Append(req[r].plan,
                                                [action |-> a, by |-> b])]]
            IN \/ found = {} /\ Choose("create", r)
               \/ \E c \in found :
                     Choose(IF c.status = "running" THEN "noop" ELSE "start",
                            c.by)
    /\ UNCHANGED <<projectRows, rows, dirs, containers>>

CurrentPlan(r) == req[r].plan[req[r].i]

\* Docker refuses a second container of that name on a host; the APIError
\* makes create_project_exceptions roll back
create_container(r) ==
    /\ req[r].pc = "execute"
    /\ CurrentPlan(r).action = "create"
    /\ IF Named(CurrentHost(r), CurrentName(r)) # {}
       THEN Goto(r, "list") /\ UNCHANGED containers
       ELSE /\ containers' = containers \cup
                 {[host |-> CurrentHost(r), name |-> CurrentName(r),
                   project |-> Project(r), service |-> CurrentService(r),
                   by |-> r, status |-> "created"]}
            /\ Goto(r, "launch")
    /\ UNCHANGED <<projectRows, rows, dirs>>

\* by identifier, of the container just created or the one the plan found
start_container(r) ==
    LET target == {c \in Labelled(CurrentHost(r), Project(r),
                                  CurrentService(r)) : c.by = CurrentPlan(r).by}
    IN
    /\ \/ req[r].pc = "launch"
       \/ req[r].pc = "execute" /\ CurrentPlan(r).action = "start"
    /\ IF target = {} THEN Goto(r, "list") /\ UNCHANGED containers
       ELSE /\ containers' = (containers \ target) \cup
                              {[c EXCEPT !.status = "running"] : c \in target}
            /\ NextService(r, "execute", "exec")
    /\ UNCHANGED <<projectRows, rows, dirs>>

up_to_date(r) ==
    /\ req[r].pc = "execute"
    /\ CurrentPlan(r).action = "noop"
    /\ NextService(r, "execute", "exec")
    /\ UNCHANGED <<projectRows, rows, dirs, containers>>

\* shellinabox and the admin account, by name; Docker refuses to exec in a
\* container that does not run
exec_create(r) ==
    /\ req[r].pc = "exec"
    /\ IF \E c \in Named(CurrentHost(r), CurrentName(r)) :
             c.status = "running"
       THEN IF LastService(r) THEN Return(r, "ok")
            ELSE NextService(r, "exec", "exec")
       ELSE Goto(r, "list")
    /\ UNCHANGED <<projectRows, rows, dirs, containers>>

(***************************************************************************)
(* roll_back and destroy_project                                           *)
(***************************************************************************)
AfterCleanup(r) ==
    IF req[r].op = "destroy" THEN "del_project" ELSE "rb_delete"

\* the next turn of the loop over service names, or what follows the loop
NextName(r) ==
    LET rest == Tail(req[r].todo) IN
    req' = [req EXCEPT ![r] =
        [@ EXCEPT !.pc = IF rest = <<>> THEN AfterCleanup(r) ELSE "locate",
                  !.todo = rest, !.at = NoHost]]

\* Mutant: destroy_project deletes the project row first.
read_service_list_unlists(r) ==
    LET p == Project(r) IN
    /\ req[r].pc = "list"
    /\ projectRows' = [projectRows EXCEPT ![p] = IF req[r].op = "destroy" THEN 0 ELSE @]
    /\ IF rows[p] # <<>>
       THEN req' = [req EXCEPT ![r] = [@ EXCEPT !.pc = "locate",
                                                !.todo = service_list(p)]]
       ELSE IF req[r].op = "destroy" THEN Goto(r, "del_project")
       ELSE Return(r, "failed")
    /\ UNCHANGED <<rows, dirs, containers>>

\* without a service row roll_back returns before it deletes the project row
read_service_list(r) ==
    LET p == Project(r) IN
    /\ req[r].pc = "list"
    /\ IF rows[p] # <<>>
       THEN req' = [req EXCEPT ![r] = [@ EXCEPT !.pc = "locate",
                                                !.todo = service_list(p)]]
       ELSE IF req[r].op = "destroy" THEN Goto(r, "del_project")
       ELSE Return(r, "failed")
    /\ UNCHANGED <<projectRows, rows, dirs, containers>>

locate(r) ==
    LET h == machine_ip(Project(r), Head(req[r].todo)) IN
    /\ req[r].pc = "locate"
    /\ IF h = NoHost THEN NextName(r)
       ELSE req' = [req EXCEPT ![r] = [@ EXCEPT !.pc = "look", !.at = h]]
    /\ UNCHANGED <<projectRows, rows, dirs, containers>>

\* Mutants: containers(all=False); a continue that does not move on.
container_exists_running(r) ==
    /\ req[r].pc = "look"
    /\ IF \A c \in Named(req[r].at, CleanupName(r)) : c.status # "running"
       THEN NextName(r)
       ELSE Goto(r, "stop")
    /\ UNCHANGED <<projectRows, rows, dirs, containers>>

container_exists_again(r) ==
    /\ req[r].pc = "look"
    /\ Goto(r, IF Named(req[r].at, CleanupName(r)) = {} THEN "locate"
               ELSE "stop")
    /\ UNCHANGED <<projectRows, rows, dirs, containers>>

container_exists(r) ==
    /\ req[r].pc = "look"
    /\ IF Named(req[r].at, CleanupName(r)) = {} THEN NextName(r)
       ELSE Goto(r, "stop")
    /\ UNCHANGED <<projectRows, rows, dirs, containers>>

\* the APIError for a container that is gone by now is not handled
stop_container(r) ==
    LET target == Named(req[r].at, CleanupName(r)) IN
    /\ req[r].pc = "stop"
    /\ IF target = {} THEN Return(r, "crashed") /\ UNCHANGED containers
       ELSE /\ containers' = (containers \ target) \cup
                  {[c EXCEPT !.status = IF @ = "running" THEN "exited" ELSE @] :
                     c \in target}
            /\ Goto(r, "remove")
    /\ UNCHANGED <<projectRows, rows, dirs>>

\* Docker refuses to remove a running container
remove_container(r) ==
    LET target == Named(req[r].at, CleanupName(r)) IN
    /\ req[r].pc = "remove"
    /\ IF target = {} \/ \E c \in target : c.status = "running"
       THEN Return(r, "crashed") /\ UNCHANGED containers
       ELSE containers' = containers \ target /\ NextName(r)
    /\ UNCHANGED <<projectRows, rows, dirs>>

\* Mutant: the service rows are left.
delete_rows_mutant(r) ==
    /\ req[r].pc = "rb_delete"
    /\ projectRows' = [projectRows EXCEPT ![Project(r)] = 0]
    /\ Return(r, "failed")
    /\ UNCHANGED <<rows, dirs, containers>>

\* both deletes are committed together
delete_rows(r) ==
    LET p == Project(r) IN
    /\ req[r].pc = "rb_delete"
    /\ rows' = [rows EXCEPT ![p] = <<>>]
    /\ projectRows' = [projectRows EXCEPT ![p] = 0]
    /\ Return(r, "failed")
    /\ UNCHANGED <<dirs, containers>>

\* Mutant: one row fewer, instead of none of that name.
delete_project_mutant(r) ==
    /\ req[r].pc = "del_project"
    /\ projectRows' = [projectRows EXCEPT ![Project(r)] = @ - 1]
    /\ Goto(r, "del_service")
    /\ UNCHANGED <<rows, dirs, containers>>

delete_project(r) ==
    /\ req[r].pc = "del_project"
    /\ projectRows' = [projectRows EXCEPT ![Project(r)] = 0]
    /\ Goto(r, "del_service")
    /\ UNCHANGED <<rows, dirs, containers>>

delete_service(r) ==
    /\ req[r].pc = "del_service"
    /\ rows' = [rows EXCEPT ![Project(r)] = <<>>]
    /\ Return(r, "ok")
    /\ UNCHANGED <<projectRows, dirs, containers>>

(***************************************************************************)
(* Failures                                                                *)
(***************************************************************************)
\* an exception create_project_exceptions handles: by rolling back
DeployError(r) ==
    /\ "docker" \in Faults
    /\ req[r].pc \in {"load", "place", "plan", "execute", "launch", "exec"}
    /\ Goto(r, "list")
    /\ UNCHANGED <<projectRows, rows, dirs, containers>>

\* a Docker error while rolling back or destroying is handled by nobody
CleanupError(r) ==
    /\ "cleanup" \in Faults
    /\ req[r].pc \in {"look", "stop", "remove"}
    /\ Return(r, "crashed")
    /\ UNCHANGED <<projectRows, rows, dirs, containers>>

\* any other exception, at any point, or the death of the server; "torn" is
\* the one between the two deletes of destroy_project
Crash(r) ==
    /\ Active(r)
    /\ (IF req[r].pc = "del_service" THEN "torn" ELSE "crash") \in Faults
    /\ Return(r, "crashed")
    /\ UNCHANGED <<projectRows, rows, dirs, containers>>

(***************************************************************************)
(* The specification                                                       *)
(***************************************************************************)
Create(r) ==
    \/ project_exists(r) \/ path_exists(r) \/ mkdir(r) \/ clone_from(r)
    \/ create_project(r) \/ get_argv(r) \/ replace_argv(r)

Deploy(r) ==
    \/ config_load(r) \/ nap_from_dicts(r) \/ convergence_plan(r)
    \/ create_container(r) \/ start_container(r) \/ up_to_date(r)
    \/ exec_create(r)

Cleanup(r) ==
    \/ read_service_list(r) \/ locate(r) \/ container_exists(r)
    \/ stop_container(r) \/ remove_container(r)
    \/ delete_rows(r) \/ delete_project(r) \/ delete_service(r)

Step(r) ==
    \/ Create(r) \/ Deploy(r) \/ Cleanup(r)
    \/ DeployError(r) \/ CleanupError(r) \/ Crash(r)

\* clients may leave it at that
Terminating == (\A r \in Requests : ~Active(r)) /\ UNCHANGED vars

Next ==
    \/ \E p \in Projects : Upload(p)
    \/ \E r \in Requests : Step(r)
    \/ \E r \in Requests, op \in Operations, p \in Projects : Begin(r, op, p)
    \/ Terminating

Spec == Init /\ [][Next]_vars

\* Every call a handler makes returns or raises: docker-py and MySQL time out.
\* Clients need not send anything.
FairSpec == Spec /\ \A r \in Requests : WF_vars(Step(r))

(***************************************************************************)
(* Properties                                                              *)
(***************************************************************************)
\* The tables, the directories, the hosts and the locals of every request
\* hold values of their types; a container is on a host that exists.
TypeOK ==
    /\ projectRows \in [Projects -> Nat]
    /\ rows \in [Projects -> Seq(Row)]
    /\ dirs \in [Projects -> DirStates]
    /\ containers \subseteq Container
    /\ req \in [Requests -> Request]

\* The indices of the loops over the services and over the names, for the proofs:
\* a Service that is planned, executed or given a shell has a client and a plan,
\* and a clean-up has a name left and a host to look for it.  (The one index
\* that may be out of range is the random one of nap_from_dicts.)
LocalOK(q) ==
    LET s == Len(ServicesOf[q.project]) IN
    /\ q.pc = "place" =>
          q.i \in 1 .. s /\ Len(q.place) = q.i - 1 /\ q.plan = <<>>
    /\ q.pc = "plan" =>
          \/ ServicesOf[q.project] = <<>>
          \/ q.i \in 1 .. s /\ Len(q.place) = s /\ Len(q.plan) = q.i - 1
    /\ q.pc \in {"execute", "launch", "exec"} =>
          q.i \in 1 .. s /\ Len(q.place) = s /\ Len(q.plan) = s
    /\ q.pc \in {"locate", "look", "stop", "remove"} => q.todo # <<>>
    /\ q.pc \in {"look", "stop", "remove"} => q.at \in Hosts
LocalsOK == \A r \in Requests : LocalOK(req[r])

\* While clients take turns on a project and destroy what they deployed before
\* they deploy it again, the machine that machine_ip reads for a container is the
\* one that runs it: status, logs, roll_back and destroy_project find every
\* container there is.
Reachable ==
    \A c \in containers : machine_ip(c.project, c.service) = c.host

OfProject(p) == {c \in containers : c.project = p}
Gone(p) == OfProject(p) = {} /\ rows[p] = <<>>
Up(p) ==
    \A k \in DOMAIN ServicesOf[p] : \E c \in OfProject(p) :
        /\ c.service = ServicesOf[p][k]
        /\ c.status = "running"
        /\ c.host = machine_ip(p, c.service)

Answers(r, result) == req[r].result = "none" /\ req'[r].result = result

\* A create request that answers "project create successfully" leaves every
\* service of the project running on the machine the database names.
SuccessMeansUp ==
    [][\A r \in Requests :
         Answers(r, "ok") /\ req[r].op # "destroy" => Up(Project(r))']_vars

\* A create request that answers False after roll_back leaves no container
\* and no service row of the project behind.
FailureMeansGone ==
    [][\A r \in Requests : Answers(r, "failed") => Gone(Project(r))']_vars

\* A destroy request that answers "success" leaves no container, no service
\* row and no project row behind.
DestroyMeansGone ==
    [][\A r \in Requests :
         Answers(r, "ok") /\ req[r].op = "destroy" =>
            Gone(Project(r))' /\ projectRows'[Project(r)] = 0]_vars

\* Under the same use a project is struck off table project, by roll_back or
\* destroy_project, only when no machine has a container of it left: however a
\* clean-up fails, no container of a listed project loses its listing.
StaysListed ==
    [][\A p \in Projects :
         projectRows[p] > 0 /\ projectRows'[p] = 0 => OfProject(p)' = {}]_vars

View(p) == <<projectRows[p], rows[p], OfProject(p)>>

\* The rows and the containers of a project change only in a step of a request
\* on that project, whatever the other requests do and however they fail.
Isolation ==
    [][\A p \in Projects :
         View(p)' # View(p) =>
            \E r \in Requests : req'[r] # req[r] /\ Project(r) = p]_vars

\* Once a project that was created has been destroyed its name is free: a
\* create request is refused only for a project that the database lists.
NameIsFreeAgain ==
    [][\A r, c, d \in Requests :
         /\ req[c].op = "url" /\ req[c].result = "ok"
         /\ req[d].op = "destroy" /\ req[d].result = "ok"
         /\ Project(r) = Project(c) /\ Project(r) = Project(d)
         /\ req[r].pc \in {"exists", "path"} /\ Answers(r, "refused")
         => projectRows[Project(r)] > 0]_vars

\* Every request that began is answered, or dies of an exception.
RequestsEnd ==
    \A r \in Requests : Active(r) ~> req[r].pc = "done"
=============================================================================
