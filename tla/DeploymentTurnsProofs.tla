------------------------ MODULE DeploymentTurnsProofs ------------------------
(***************************************************************************)
(* What Deployment promises to clients that take turns on a project and    *)
(* deploy it only when it has no service row, for every number of          *)
(* requests, projects, services and machines and every failure; and that   *)
(* they implement the life cycle of a project that the clients see.        *)
(***************************************************************************)
EXTENDS DeploymentProofs, DeploymentLifecycle

\* Clients keep to the use the API is made for.
TakeTurns == Exclusive /\ ~Resubmit

\* No two services of a project have one container_name.
DistinctServices ==
    \A p \in Projects : \A j, k \in DOMAIN ServicesOf[p] :
        ServicesOf[p][j] = ServicesOf[p][k] => j = k

OneAtATime ==
    \A q, r \in Requests :
        Active(q) /\ Active(r) /\ Project(q) = Project(r) => q = r

Deploying == {"place", "plan", "execute", "launch", "exec"}
CleaningUp == {"locate", "look", "stop", "remove"}
Forgetting == {"rb_delete", "del_project", "del_service"}

\* A project with service rows has a directory, which stops another create from
\* a URL where table project does not list the project.
Uploaded == \A p \in Projects : rows[p] = <<>> \/ dirs[p] # "absent"

\* What a request that is alone on its project relies on, step by step: there
\* are no service rows until it places the services; from then on the database
\* names the host of each Service it made; a clean-up still has to come to
\* every container there is, and looks for it where the database says; the rows
\* go after the containers.
NothingPlaced(r) ==
    req[r].pc \in {"mkdir", "clone", "insert", "argv", "replace", "load"} =>
        rows[Project(r)] = <<>>
MayDeploy(r) ==
    /\ req[r].pc = "exists" /\ req[r].op # "url" =>
          rows[Project(r)] = <<>> \/ projectRows[Project(r)] > 0
    /\ req[r].pc \in {"load", "place"} => dirs[Project(r)] # "absent"
PlacedInOrder(r) ==
    req[r].pc = "place" =>
        \A k \in DOMAIN rows[Project(r)] : \E j \in 1 .. req[r].i - 1 :
            rows[Project(r)][k].name = ServicesOf[Project(r)][j]
HostsKnown(r) ==
    req[r].pc \in Deploying =>
        \A j \in DOMAIN req[r].place :
            machine_ip(Project(r), ServicesOf[Project(r)][j]) = req[r].place[j]
NoneForgotten(r) ==
    req[r].pc \in CleaningUp =>
        \A c \in OfProject(Project(r)) : \E j \in DOMAIN req[r].todo :
            req[r].todo[j] = c.service
LooksThere(r) ==
    req[r].pc \in {"look", "stop", "remove"} =>
        req[r].at = machine_ip(Project(r), Head(req[r].todo))
RowsGoLast(r) ==
    req[r].pc \in Forgetting => OfProject(Project(r)) = {}
Unlisted(r) ==
    req[r].pc = "del_service" => projectRows[Project(r)] = 0
RightHandler(r) ==
    /\ req[r].pc \in Deploying \cup {"load", "rb_delete"} => req[r].op # "destroy"
    /\ req[r].pc \in {"exists", "path", "mkdir", "clone", "insert", "argv",
                      "replace"} => req[r].op # "destroy"
    /\ req[r].pc \in {"del_project", "del_service"} => req[r].op = "destroy"

InTurn(r) ==
    /\ NothingPlaced(r) /\ MayDeploy(r) /\ PlacedInOrder(r) /\ HostsKnown(r)
    /\ NoneForgotten(r) /\ LooksThere(r) /\ RowsGoLast(r) /\ Unlisted(r)
    /\ RightHandler(r)

TurnsInv ==
    /\ Inv
    /\ Reachable
    /\ Uploaded
    /\ OneAtATime
    /\ \A r \in Requests : InTurn(r)

(***************************************************************************)
(* One step and the others                                                 *)
(***************************************************************************)
LEMMA GotoFields ==
    ASSUME ReqOK, NEW r \in Requests, NEW pc, Goto(r, pc)
    PROVE  /\ req'[r] = [req[r] EXCEPT !.pc = pc]
           /\ req'[r].pc = pc
           /\ req'[r].op = req[r].op /\ req'[r].project = req[r].project
           /\ req'[r].i = req[r].i /\ req'[r].place = req[r].place
           /\ req'[r].todo = req[r].todo /\ req'[r].at = req[r].at
           /\ req'[r].result = req[r].result
           /\ \A q \in Requests \ {r} : req'[q] = req[q]
<1>1. req'[r] = [req[r] EXCEPT !.pc = pc] /\ req[r] \in Request
  BY DEF Goto, ReqOK
<1>2. \A q \in Requests \ {r} : req'[q] = req[q]
  BY DEF Goto, ReqOK
<1> QED  BY <1>1, <1>2 DEF Request

LEMMA NotGone ==
    ASSUME ReqOK, NEW r \in Requests, NEW pc, req'[r].pc # pc
    PROVE  ~Goto(r, pc)
<1> SUFFICES ASSUME Goto(r, pc)  PROVE FALSE
  OBVIOUS
<1>1. req'[r].pc = pc
  BY GotoFields
<1> QED  BY <1>1

LEMMA ReturnFields ==
    ASSUME ReqOK, NEW r \in Requests, NEW a, Return(r, a)
    PROVE  /\ req'[r].pc = "done" /\ req'[r].result = a
           /\ req'[r].op = req[r].op /\ req'[r].project = req[r].project
           /\ \A q \in Requests \ {r} : req'[q] = req[q]
<1> DEFINE q == [req[r] EXCEPT !.pc = "done", !.result = a, !.i = 1,
                               !.place = <<>>, !.plan = <<>>, !.todo = <<>>,
                               !.at = NoHost]
<1>1. req' = [req EXCEPT ![r] = q]
  BY Zenon DEF Return
<1>2. req[r] \in Request /\ req \in [Requests -> Request]
  BY DEF ReqOK
<1>3. /\ q.pc = "done" /\ q.result = a /\ q.op = req[r].op
      /\ q.project = req[r].project
  BY <1>2 DEF Request
<1> HIDE DEF q
<1>4. req'[r] = q /\ \A other \in Requests \ {r} : req'[other] = req[other]
  BY <1>1, <1>2
<1> QED  BY <1>3, <1>4

\* The position of a loop over the services after one more turn.
NextPosition(r) == IF LastService(r) THEN 1 ELSE req[r].i + 1

LEMMA ConfigLoadFields ==
    ASSUME ReqOK, NEW r \in Requests, config_load(r)
    PROVE  /\ req'[r].pc = (IF ServicesOf[Project(r)] = <<>> THEN "plan" ELSE "place")
           /\ req'[r].i = 1 /\ req'[r].place = <<>>
           /\ req'[r].op = req[r].op /\ req'[r].project = req[r].project
           /\ req'[r].result = req[r].result
           /\ \A q \in Requests \ {r} : req'[q] = req[q]
<1> DEFINE pc == IF ServicesOf[Project(r)] = <<>> THEN "plan" ELSE "place"
           q == [req[r] EXCEPT !.pc = pc, !.i = 1, !.place = <<>>, !.plan = <<>>]
<1>1. req' = [req EXCEPT ![r] = q]
  BY Zenon DEF config_load
<1>2. req[r] \in Request /\ req \in [Requests -> Request]
  BY DEF ReqOK
<1> HIDE DEF pc
<1>3. /\ q.pc = pc /\ q.i = 1 /\ q.place = <<>> /\ q.op = req[r].op
      /\ q.project = req[r].project /\ q.result = req[r].result
  BY <1>2 DEF Request
<1> HIDE DEF q
<1>4. req'[r] = q /\ \A other \in Requests \ {r} : req'[other] = req[other]
  BY <1>1, <1>2
<1> QED  BY <1>3, <1>4 DEF pc

LEMMA PlaceFields ==
    ASSUME ReqOK, NEW r \in Requests, NEW index \in Hosts,
           req' = [req EXCEPT ![r] =
                      [@ EXCEPT !.pc = IF LastService(r) THEN "plan" ELSE "place",
                                !.i = IF LastService(r) THEN 1 ELSE req[r].i + 1,
                                !.place = Append(req[r].place, index)]]
    PROVE  /\ req'[r].pc = (IF LastService(r) THEN "plan" ELSE "place")
           /\ req'[r].i = NextPosition(r)
           /\ req'[r].place = Append(req[r].place, index)
           /\ req'[r].op = req[r].op /\ req'[r].project = req[r].project
           /\ req'[r].result = req[r].result
           /\ \A q \in Requests \ {r} : req'[q] = req[q]
<1> DEFINE pc == IF LastService(r) THEN "plan" ELSE "place"
           i == NextPosition(r)
           place == Append(req[r].place, index)
           q == [req[r] EXCEPT !.pc = pc, !.i = i, !.place = place]
<1>1. req' = [req EXCEPT ![r] = q]
  BY Zenon DEF NextPosition
<1>2. req[r] \in Request /\ req \in [Requests -> Request]
  BY DEF ReqOK
<1> HIDE DEF pc, i, place
<1>3. /\ q.pc = pc /\ q.i = i /\ q.place = place /\ q.op = req[r].op
      /\ q.project = req[r].project /\ q.result = req[r].result
  BY <1>2 DEF Request
<1> HIDE DEF q
<1>4. req'[r] = q /\ \A other \in Requests \ {r} : req'[other] = req[other]
  BY <1>1, <1>2
<1> QED  BY <1>3, <1>4 DEF pc, i, place

LEMMA PlanFields ==
    ASSUME ReqOK, NEW r \in Requests, NEW step,
           req' = [req EXCEPT ![r] =
                      [@ EXCEPT !.pc = IF LastService(r) THEN "execute" ELSE "plan",
                                !.i = IF LastService(r) THEN 1 ELSE req[r].i + 1,
                                !.plan = Append(req[r].plan, step)]]
    PROVE  /\ req'[r].pc = (IF LastService(r) THEN "execute" ELSE "plan")
           /\ req'[r].place = req[r].place
           /\ req'[r].op = req[r].op /\ req'[r].project = req[r].project
           /\ req'[r].result = req[r].result
           /\ \A q \in Requests \ {r} : req'[q] = req[q]
<1> DEFINE pc == IF LastService(r) THEN "execute" ELSE "plan"
           i == IF LastService(r) THEN 1 ELSE req[r].i + 1
           plan == Append(req[r].plan, step)
           q == [req[r] EXCEPT !.pc = pc, !.i = i, !.plan = plan]
<1>1. req' = [req EXCEPT ![r] = q]
  BY Zenon
<1>2. req[r] \in Request /\ req \in [Requests -> Request]
  BY DEF ReqOK
<1> HIDE DEF pc, i, plan
<1>3. /\ q.pc = pc /\ q.place = req[r].place /\ q.op = req[r].op
      /\ q.project = req[r].project /\ q.result = req[r].result
  BY <1>2 DEF Request
<1> HIDE DEF q
<1>4. req'[r] = q /\ \A other \in Requests \ {r} : req'[other] = req[other]
  BY <1>1, <1>2
<1> QED  BY <1>3, <1>4 DEF pc

LEMMA NextServiceFields ==
    ASSUME ReqOK, NEW r \in Requests, NextService(r, "execute", "exec")
    PROVE  /\ req'[r].pc = (IF LastService(r) THEN "exec" ELSE "execute")
           /\ req'[r].i = NextPosition(r)
           /\ req'[r].place = req[r].place
           /\ req'[r].op = req[r].op /\ req'[r].project = req[r].project
           /\ req'[r].result = req[r].result
           /\ \A q \in Requests \ {r} : req'[q] = req[q]
<1> DEFINE pc == IF LastService(r) THEN "exec" ELSE "execute"
           i == NextPosition(r)
           q == [req[r] EXCEPT !.pc = pc, !.i = i]
<1>1. req' = [req EXCEPT ![r] = q]
  BY Zenon DEF NextService, NextPosition
<1>2. req[r] \in Request /\ req \in [Requests -> Request]
  BY DEF ReqOK
<1> HIDE DEF pc, i
<1>3. /\ q.pc = pc /\ q.i = i /\ q.place = req[r].place /\ q.op = req[r].op
      /\ q.project = req[r].project /\ q.result = req[r].result
  BY <1>2 DEF Request
<1> HIDE DEF q
<1>4. req'[r] = q /\ \A other \in Requests \ {r} : req'[other] = req[other]
  BY <1>1, <1>2
<1> QED  BY <1>3, <1>4 DEF pc, i

LEMMA ExecFields ==
    ASSUME ReqOK, NEW r \in Requests, ~LastService(r), NextService(r, "exec", "exec")
    PROVE  /\ req'[r].pc = "exec" /\ req'[r].i = req[r].i + 1
           /\ req'[r].place = req[r].place
           /\ req'[r].op = req[r].op /\ req'[r].project = req[r].project
           /\ req'[r].result = req[r].result
           /\ \A q \in Requests \ {r} : req'[q] = req[q]
<1> DEFINE i == req[r].i + 1
           q == [req[r] EXCEPT !.pc = "exec", !.i = i]
<1>1. req' = [req EXCEPT ![r] = q]
  BY Zenon DEF NextService
<1>2. req[r] \in Request /\ req \in [Requests -> Request]
  BY DEF ReqOK
<1> HIDE DEF i
<1>3. /\ q.pc = "exec" /\ q.i = i /\ q.place = req[r].place
      /\ q.op = req[r].op /\ q.project = req[r].project /\ q.result = req[r].result
  BY <1>2 DEF Request
<1> HIDE DEF q
<1>4. req'[r] = q /\ \A other \in Requests \ {r} : req'[other] = req[other]
  BY <1>1, <1>2
<1> QED  BY <1>3, <1>4 DEF i

LEMMA NextNameFields ==
    ASSUME ReqOK, NEW r \in Requests, NextName(r)
    PROVE  /\ req'[r].pc = (IF Tail(req[r].todo) = <<>> THEN AfterCleanup(r)
                            ELSE "locate")
           /\ req'[r].todo = Tail(req[r].todo)
           /\ req'[r].op = req[r].op /\ req'[r].project = req[r].project
           /\ req'[r].result = req[r].result
           /\ \A q \in Requests \ {r} : req'[q] = req[q]
<1> DEFINE rest == Tail(req[r].todo)
           pc == IF rest = <<>> THEN AfterCleanup(r) ELSE "locate"
           q == [req[r] EXCEPT !.pc = pc, !.todo = rest, !.at = NoHost]
<1>1. req' = [req EXCEPT ![r] = q]
  BY Zenon DEF NextName
<1>2. req[r] \in Request /\ req \in [Requests -> Request]
  BY DEF ReqOK
<1> HIDE DEF pc, rest
<1>3. /\ q.pc = pc /\ q.todo = rest /\ q.op = req[r].op
      /\ q.project = req[r].project /\ q.result = req[r].result
  BY <1>2 DEF Request
<1> HIDE DEF q
<1>4. req'[r] = q /\ \A other \in Requests \ {r} : req'[other] = req[other]
  BY <1>1, <1>2
<1> QED  BY <1>3, <1>4 DEF pc, rest

LEMMA ListFields ==
    ASSUME ReqOK, NEW r \in Requests, NEW todo,
           req' = [req EXCEPT ![r] = [@ EXCEPT !.pc = "locate", !.todo = todo]]
    PROVE  /\ req'[r].pc = "locate" /\ req'[r].todo = todo
           /\ req'[r].op = req[r].op /\ req'[r].project = req[r].project
           /\ req'[r].result = req[r].result
           /\ \A q \in Requests \ {r} : req'[q] = req[q]
<1>1. req'[r] = [req[r] EXCEPT !.pc = "locate", !.todo = todo]
  BY DEF ReqOK
<1>2. \A q \in Requests \ {r} : req'[q] = req[q]
  BY DEF ReqOK
<1> QED  BY <1>1, <1>2 DEF ReqOK, Request

LEMMA LocateFields ==
    ASSUME ReqOK, NEW r \in Requests, NEW h,
           req' = [req EXCEPT ![r] = [@ EXCEPT !.pc = "look", !.at = h]]
    PROVE  /\ req'[r].pc = "look" /\ req'[r].at = h
           /\ req'[r].todo = req[r].todo
           /\ req'[r].op = req[r].op /\ req'[r].project = req[r].project
           /\ req'[r].result = req[r].result
           /\ \A q \in Requests \ {r} : req'[q] = req[q]
<1>1. req'[r] = [req[r] EXCEPT !.pc = "look", !.at = h]
  BY DEF ReqOK
<1>2. \A q \in Requests \ {r} : req'[q] = req[q]
  BY DEF ReqOK
<1> QED  BY <1>1, <1>2 DEF ReqOK, Request

\* Only a request at work takes a step; the step is about its project and
\* leaves the locals of the others alone.
LEMMA StepIsOwn ==
    ASSUME ReqOK, NEW r \in Requests, Step(r)
    PROVE  /\ Active(r)
           /\ req'[r].project = req[r].project /\ req'[r].op = req[r].op
           /\ \A q \in Requests \ {r} : req'[q] = req[q]
<1>1. Active(r)
  BY DEF Step, Create, Deploy, Cleanup, Active,
     project_exists, path_exists, mkdir, clone_from, create_project, get_argv,
     replace_argv, config_load, nap_from_dicts, convergence_plan,
     create_container, start_container, up_to_date, exec_create,
     read_service_list, locate, container_exists, stop_container,
     remove_container, delete_rows, delete_project, delete_service,
     DeployError, CleanupError, Crash
<1> DEFINE Own == /\ req'[r].project = req[r].project /\ req'[r].op = req[r].op
                  /\ \A q \in Requests \ {r} : req'[q] = req[q]
<1>2. ASSUME NEW pc, Goto(r, pc)  PROVE Own
  BY <1>2, GotoFields
<1>3. ASSUME NEW a, Return(r, a)  PROVE Own
  BY <1>3, ReturnFields
<1>4. config_load(r) => Own
  BY ConfigLoadFields
<1>5. NextService(r, "execute", "exec") => Own
  BY NextServiceFields
<1>6. NextName(r) => Own
  BY NextNameFields
<1>7. nap_from_dicts(r) => Own
  BY <1>3, PlaceFields DEF nap_from_dicts
<1>8. convergence_plan(r) => Own
  BY <1>3, PlanFields DEF convergence_plan
<1>9. exec_create(r) => Own
  BY <1>2, <1>3, ExecFields DEF exec_create
<1>10. read_service_list(r) => Own
  BY <1>2, <1>3, ListFields DEF read_service_list
<1>11. locate(r) => Own
  BY <1>6, LocateFields DEF locate
<1> HIDE DEF Own
<1>12. Create(r) => Own
  BY <1>2, <1>3 DEF Create, project_exists, path_exists, mkdir,
     clone_from, create_project, get_argv, replace_argv
<1>13. create_container(r) \/ start_container(r) \/ up_to_date(r) => Own
  BY <1>2, <1>5 DEF create_container, start_container, up_to_date
<1>14. container_exists(r) \/ stop_container(r) \/ remove_container(r) => Own
  BY <1>2, <1>3, <1>6 DEF container_exists, stop_container, remove_container
<1>15. delete_rows(r) \/ delete_project(r) \/ delete_service(r) => Own
  BY <1>2, <1>3 DEF delete_rows, delete_project, delete_service
<1>16. DeployError(r) \/ CleanupError(r) \/ Crash(r) => Own
  BY <1>2, <1>3 DEF DeployError, CleanupError, Crash
<1>17. Own
  BY <1>4, <1>7, <1>8, <1>9, <1>10, <1>11, <1>12, <1>13, <1>14, <1>15, <1>16
     DEF Step, Deploy, Cleanup
<1> QED  BY <1>1, <1>17 DEF Own

\* No container appears but the one that create_container makes: every other
\* step starts, stops or removes what there is.
LEMMA OnlyCreateAdds ==
    ASSUME Inv, NEW r \in Requests, Step(r), ~create_container(r)
    PROVE  \A c \in containers' : \E d \in containers :
               d.host = c.host /\ d.project = c.project /\ d.service = c.service
<1>0. containers \subseteq Container
  BY DEF Inv, TypeInv, TypeOK
<1>1. CASE containers' \subseteq containers
  BY <1>1
<1>2. ASSUME NEW d \in containers, NEW x, NEW c, c = [d EXCEPT !.status = x]
      PROVE  d.host = c.host /\ d.project = c.project /\ d.service = c.service
  BY <1>0, <1>2 DEF Container
<1>3. CASE start_container(r)
  <2>1. \A c \in containers' : \/ c \in containers
                               \/ \E d \in containers : c = [d EXCEPT !.status = "running"]
    BY <1>3 DEF start_container, Labelled
  <2> QED  BY <1>2, <2>1
<1>4. CASE stop_container(r)
  <2>1. \A c \in containers' : \/ c \in containers
                               \/ \E d \in containers : \E x :
                                     c = [d EXCEPT !.status = x]
    BY <1>4 DEF stop_container, Named
  <2> QED  BY <1>2, <2>1
<1>5. CASE remove_container(r)
  BY <1>1, <1>5 DEF remove_container
<1> QED
  BY <1>1, <1>3, <1>4, <1>5 DEF Step, Create, Deploy, Cleanup,
     project_exists, path_exists, mkdir, clone_from, create_project, get_argv,
     replace_argv, config_load, nap_from_dicts, convergence_plan, up_to_date,
     exec_create, read_service_list, locate, container_exists, delete_rows,
     delete_project, delete_service, DeployError, CleanupError, Crash

\* A step leaves the rows of other projects alone and gives them no container,
\* even if names fail to tell projects apart.
LEMMA StepSparesOthers ==
    ASSUME Inv, NEW r \in Requests, Step(r), NEW p \in Projects, p # Project(r)
    PROVE  /\ projectRows'[p] = projectRows[p] /\ rows'[p] = rows[p]
           /\ dirs'[p] = dirs[p]
           /\ \A c \in OfProject(p)' : \E d \in OfProject(p) :
                  d.host = c.host /\ d.service = c.service
<1>0. /\ projectRows \in [Projects -> Nat] /\ rows \in [Projects -> Seq(Row)]
      /\ Project(r) \in Projects
  BY DEF Inv, TypeInv, TypeOK, Project, Request
<1>1. projectRows'[p] = projectRows[p] /\ rows'[p] = rows[p]
  <2>1. CASE UNCHANGED <<projectRows, rows>>
    BY <2>1
  <2>2. CASE create_project(r) \/ nap_from_dicts(r)
    BY <1>0, <2>2 DEF create_project, nap_from_dicts
  <2>3. CASE delete_rows(r) \/ delete_project(r) \/ delete_service(r)
    BY <1>0, <2>3 DEF delete_rows, delete_project, delete_service
  <2> QED
    BY <2>1, <2>2, <2>3 DEF Step, Create, Deploy, Cleanup,
       project_exists, path_exists, mkdir, clone_from, get_argv, replace_argv,
       config_load, convergence_plan, create_container, start_container,
       up_to_date, exec_create, read_service_list, locate, container_exists,
       stop_container, remove_container, DeployError, CleanupError, Crash
<1>3. dirs'[p] = dirs[p]
  <2>1. dirs \in [Projects -> DirStates]
    BY DEF Inv, TypeInv, TypeOK
  <2>2. CASE mkdir(r) \/ clone_from(r) \/ replace_argv(r)
    BY <1>0, <2>1, <2>2 DEF mkdir, clone_from, replace_argv
  <2>3. CASE UNCHANGED dirs
    BY <2>3
  <2> QED
    BY <2>2, <2>3 DEF Step, Create, Deploy, Cleanup, project_exists, path_exists,
       create_project, get_argv, config_load, nap_from_dicts, convergence_plan,
       create_container, start_container, up_to_date, exec_create,
       read_service_list, locate, container_exists, stop_container,
       remove_container, delete_rows, delete_project, delete_service,
       DeployError, CleanupError, Crash
<1>2. \A c \in OfProject(p)' : \E d \in OfProject(p) :
          d.host = c.host /\ d.service = c.service
  <2>1. CASE create_container(r)
    BY <2>1 DEF create_container, OfProject
  <2>2. CASE ~create_container(r)
    BY <2>2, OnlyCreateAdds DEF OfProject
  <2> QED  BY <2>1, <2>2
<1> QED  BY <1>1, <1>2, <1>3

LEMMA MachineKept ==
    ASSUME NEW p \in Projects, rows'[p] = rows[p]
    PROVE  \A s : machine_ip(p, s)' = machine_ip(p, s)
BY DEF machine_ip, Has

LEMMA InTurnKept ==
    ASSUME Inv, NEW q \in Requests, InTurn(q), req'[q] = req[q],
           projectRows'[Project(q)] = projectRows[Project(q)],
           rows'[Project(q)] = rows[Project(q)],
           dirs[Project(q)] # "absent" => dirs'[Project(q)] # "absent",
           \A c \in OfProject(Project(q))' : \E d \in OfProject(Project(q)) :
               d.service = c.service
    PROVE  InTurn(q)'
<1>1. Project(q)' = Project(q) /\ Project(q) \in Projects
  BY DEF Inv, TypeInv, TypeOK, Project, Request
<1>2. \A s : machine_ip(Project(q), s)' = machine_ip(Project(q), s)
  BY <1>1, MachineKept
<1>3. NothingPlaced(q)' /\ MayDeploy(q)' /\ PlacedInOrder(q)' /\ Unlisted(q)'
  BY <1>1 DEF InTurn, NothingPlaced, MayDeploy, PlacedInOrder, Unlisted
<1>4. HostsKnown(q)'
  BY <1>1, <1>2 DEF InTurn, HostsKnown
<1>5. NoneForgotten(q)' /\ RowsGoLast(q)'
  BY <1>1 DEF InTurn, NoneForgotten, RowsGoLast, OfProject
<1>6. LooksThere(q)'
  BY <1>1, <1>2 DEF InTurn, LooksThere
<1>7. RightHandler(q)'
  BY DEF InTurn, RightHandler
<1> QED  BY <1>3, <1>4, <1>5, <1>6, <1>7 DEF InTurn

(***************************************************************************)
(* One step and its own project                                            *)
(***************************************************************************)
\* Reachable and Uploaded, for the project of a request at work.
InOrder(r) ==
    /\ \A c \in OfProject(Project(r)) : machine_ip(Project(r), c.service) = c.host
    /\ rows[Project(r)] = <<>> \/ dirs[Project(r)] # "absent"

LEMMA OwnInOrder ==
    ASSUME TurnsInv, NEW r \in Requests, Active(r)
    PROVE  InOrder(r)
<1>1. Project(r) \in Projects
  BY DEF TurnsInv, Inv, TypeInv, TypeOK, Request, Project
<1>2. \A c \in OfProject(Project(r)) : machine_ip(Project(r), c.service) = c.host
  BY DEF TurnsInv, Reachable, OfProject
<1> QED  BY <1>1, <1>2 DEF InOrder, TurnsInv, Uploaded

\* Types, in the form the lemmas above ask for.
LEMMA TurnTypes ==
    ASSUME TurnsInv, NEW r \in Requests
    PROVE  /\ Inv /\ ReqOK /\ DataOK
           /\ req[r] \in Request /\ LocalOK(req[r]) /\ InTurn(r)
           /\ Project(r) \in Projects /\ Project(r) = req[r].project
BY DEF TurnsInv, Inv, TypeInv, TypeOK, LocalsOK, ReqOK, DataOK, Project, Request

\* A request that is done, or about to read the service rows, relies on nothing.
LEMMA AtRest ==
    ASSUME NEW r \in Requests, req'[r].pc \in {"list", "done"}
    PROVE  InTurn(r)'
BY DEF InTurn, NothingPlaced, MayDeploy, PlacedInOrder, HostsKnown, NoneForgotten,
   LooksThere, RowsGoLast, Unlisted, RightHandler, Deploying, CleaningUp, Forgetting

\* With the rows and the containers as they were a project stays in order.
LEMMA StaysInOrder ==
    ASSUME NEW r \in Requests, Project(r) \in Projects, InOrder(r),
           req'[r].project = req[r].project,
           rows'[Project(r)] = rows[Project(r)],
           dirs[Project(r)] # "absent" => dirs'[Project(r)] # "absent",
           \A c \in containers' : \E d \in containers :
               d.host = c.host /\ d.project = c.project /\ d.service = c.service
    PROVE  InOrder(r)'
<1>1. Project(r)' = Project(r)
  BY DEF Project
<1>2. \A s : machine_ip(Project(r), s)' = machine_ip(Project(r), s)
  BY <1>1, MachineKept
<1> QED  BY <1>1, <1>2 DEF InOrder, OfProject

\* Before the services are placed: there are no rows yet.
LEMMA BeforePlacing ==
    ASSUME NEW r \in Requests, Project(r)' = Project(r),
           req'[r].pc \in {"mkdir", "clone", "insert", "argv", "replace", "load"},
           rows'[Project(r)] = <<>>, req'[r].op # "destroy",
           req'[r].pc = "load" => dirs'[Project(r)] # "absent"
    PROVE  InTurn(r)'
BY DEF InTurn, NothingPlaced, MayDeploy, PlacedInOrder, HostsKnown, NoneForgotten,
   LooksThere, RowsGoLast, Unlisted, RightHandler, Deploying, CleaningUp, Forgetting

LEMMA CreateInTurn ==
    ASSUME TurnsInv, NEW r \in Requests, Create(r)
    PROVE  InTurn(r)' /\ InOrder(r)'
<1> DEFINE p == Project(r)
<1>1. /\ ReqOK /\ DataOK /\ InTurn(r) /\ p \in Projects /\ req[r] \in Request
      /\ Project(r)' = p /\ req'[r].project = req[r].project
      /\ req'[r].op = req[r].op /\ InOrder(r)
  BY TurnTypes, StepIsOwn, OwnInOrder DEF Step, Project
<1>2. /\ UNCHANGED <<rows, containers>> /\ projectRows[p] \in Nat
      /\ req[r].pc \in {"exists", "path", "mkdir", "clone", "insert", "argv", "replace"}
  BY <1>1 DEF Create, project_exists, path_exists, mkdir, clone_from,
     create_project, get_argv, replace_argv, DataOK
<1>3. req[r].op # "destroy"
  BY <1>1, <1>2 DEF InTurn, RightHandler
<1>4. req[r].pc # "clone" => (dirs[p] # "absent" => dirs'[p] # "absent")
  BY <1>1, <1>2 DEF Create, project_exists, path_exists, mkdir, clone_from,
     create_project, get_argv, replace_argv, DataOK
<1>5. CASE project_exists(r)
  <2>1. InOrder(r)'
    BY <1>1, <1>2, <1>4, <1>5, StaysInOrder DEF project_exists
  <2>2. CASE projectRows[p] > 0
    BY <1>1, <1>5, <2>1, <2>2, ReturnFields, AtRest DEF project_exists
  <2>3. CASE ~(projectRows[p] > 0) /\ req[r].op = "url"
    <3>1. req'[r].pc = "path"
      BY <1>1, <1>5, <2>3, GotoFields DEF project_exists
    <3>2. InTurn(r)'
      BY <1>1, <1>3, <3>1 DEF InTurn, NothingPlaced, MayDeploy, PlacedInOrder,
         HostsKnown, NoneForgotten, LooksThere, RowsGoLast, Unlisted, RightHandler,
         Deploying, CleaningUp, Forgetting
    <3> QED  BY <2>1, <3>2
  <2>4. CASE ~(projectRows[p] > 0) /\ req[r].op # "url"
    <3>1. req'[r].pc = "insert" /\ rows'[p] = <<>>
      BY <1>1, <1>2, <1>5, <2>4, GotoFields DEF project_exists, InTurn, MayDeploy
    <3> QED  BY <1>1, <1>3, <2>1, <3>1, BeforePlacing
  <2> QED  BY <2>2, <2>3, <2>4
<1>6. CASE path_exists(r)
  <2>1. InOrder(r)'
    BY <1>1, <1>2, <1>4, <1>6, StaysInOrder DEF path_exists
  <2>2. CASE dirs[p] # "absent"
    BY <1>1, <1>6, <2>1, <2>2, ReturnFields, AtRest DEF path_exists
  <2>3. CASE dirs[p] = "absent"
    <3>1. req'[r].pc = "mkdir" /\ rows'[p] = <<>>
      BY <1>1, <1>2, <1>6, <2>3, GotoFields DEF path_exists, InOrder
    <3> QED  BY <1>1, <1>3, <2>1, <3>1, BeforePlacing
  <2> QED  BY <2>2, <2>3
<1>7. CASE ~project_exists(r) /\ ~path_exists(r)
  <2>1. rows'[p] = <<>> /\ rows[p] = <<>>
    BY <1>1, <1>2, <1>7 DEF Create, mkdir, clone_from, create_project, get_argv,
       replace_argv, InTurn, NothingPlaced
  <2>2. InOrder(r)'
    <3>1. \A s : machine_ip(p, s)' = machine_ip(p, s)
      BY <1>1, <1>2, MachineKept
    <3> QED  BY <1>1, <1>2, <2>1, <3>1 DEF InOrder, OfProject
  <2>3. \/ req'[r].pc = "done"
        \/ req'[r].pc \in {"clone", "insert", "argv"}
        \/ req'[r].pc = "load" /\ (get_argv(r) \/ replace_argv(r))
    BY <1>1, <1>7, GotoFields, ReturnFields, ZenonT(30) DEF Create, mkdir, clone_from,
       create_project, get_argv, replace_argv
  <2>4. ASSUME get_argv(r), req'[r].pc = "load"  PROVE dirs'[p] # "absent"
    <3>1. dirs[p] = "absent" => Return(r, "crashed")
      BY <2>4 DEF get_argv
    <3> QED  BY <1>1, <2>4, <3>1, ReturnFields DEF get_argv
  <2>5. ASSUME replace_argv(r), req'[r].pc = "load"  PROVE dirs'[p] # "absent"
    <3>1. dirs[p] = "absent" => Return(r, "crashed")
      BY <2>5 DEF replace_argv
    <3> QED  BY <1>1, <2>5, <3>1, ReturnFields DEF replace_argv, DataOK
  <2> QED  BY <1>1, <1>3, <2>1, <2>2, <2>3, <2>4, <2>5, BeforePlacing, AtRest
<1> QED  BY <1>5, <1>6, <1>7

\* A row that is added is the oldest of its name only if there was none.
LEMMA RowAdded ==
    ASSUME rows \in [Projects -> Seq(Row)], NEW p \in Projects, NEW row \in Row,
           rows' = [rows EXCEPT ![p] = Append(@, row)]
    PROVE  /\ \A t : Has(p, t) # {} => machine_ip(p, t)' = machine_ip(p, t)
           /\ Has(p, row.name) = {} => machine_ip(p, row.name)' = row.machine
<1> DEFINE n == Len(rows[p])
<1>1. rows[p] \in Seq(Row) /\ n \in Nat /\ DOMAIN rows[p] = 1 .. n
  OBVIOUS
<1>2. rows'[p] = Append(rows[p], row)
  OBVIOUS
<1>3. /\ DOMAIN rows'[p] = 1 .. n + 1 /\ rows'[p][n + 1] = row
      /\ \A k \in 1 .. n : rows'[p][k] = rows[p][k]
  BY <1>1, <1>2
<1> HIDE DEF n
<1>4. ASSUME NEW t, Has(p, t) # {}  PROVE machine_ip(p, t)' = machine_ip(p, t)
  <2>1. Has(p, t) \subseteq 1 .. n /\ Has(p, t) \subseteq Has(p, t)'
        /\ \A k \in Has(p, t)' : k \in Has(p, t) \/ k = n + 1
    BY <1>1, <1>3 DEF Has
  <2>2. Has(p, t) \in SUBSET Nat
    BY <1>1, <2>1
  <2>3. PICK first \in Has(p, t) : \A l \in Has(p, t) : first <= l
    BY <1>4, <2>2, LeastPosition
  <2>4. first \in 1 .. n /\ \A l \in Has(p, t)' : first <= l
    BY <1>1, <2>1, <2>3
  <2>5. \A k \in Has(p, t) : (\A l \in Has(p, t) : k <= l) => k = first
    BY <2>2, <2>3
  <2>6. \A k \in Has(p, t)' : (\A l \in Has(p, t)' : k <= l) => k = first
    BY <1>1, <2>1, <2>3, <2>4
  <2>7. machine_ip(p, t) = rows[p][first].machine
    <3>1. (CHOOSE k \in Has(p, t) : \A l \in Has(p, t) : k <= l) = first
      BY <2>3, <2>5
    <3> QED  BY <1>4, <3>1 DEF machine_ip
  <2>8. machine_ip(p, t)' = rows'[p][first].machine
    <3>1. (CHOOSE k \in Has(p, t)' : \A l \in Has(p, t)' : k <= l) = first
      BY <2>1, <2>4, <2>6
    <3> QED  BY <2>1, <2>3, <3>1 DEF machine_ip
  <2> QED  BY <1>3, <2>4, <2>7, <2>8
<1>5. ASSUME Has(p, row.name) = {}  PROVE machine_ip(p, row.name)' = row.machine
  <2>1. Has(p, row.name)' = {n + 1}
    BY <1>1, <1>3, <1>5 DEF Has
  <2>2. (CHOOSE k \in Has(p, row.name)' : \A l \in Has(p, row.name)' : k <= l) = n + 1
    BY <1>1, <2>1
  <2> QED  BY <1>3, <2>1, <2>2 DEF machine_ip
<1> QED  BY <1>4, <1>5

\* A name for which machine_ip finds a machine has a row.
LEMMA MachineMeansRow ==
    ASSUME NEW p, NEW s, machine_ip(p, s) \in Hosts
    PROVE  Has(p, s) # {}
<1>1. NoHost \notin Hosts
  BY MachineAssumption DEF NoHost, Hosts
<1> QED  BY <1>1 DEF machine_ip

\* Steps of a deployment after the services were placed.
LEMMA StillDeploying ==
    ASSUME TurnsInv, NEW r \in Requests, Project(r)' = Project(r),
           req[r].pc \in Deploying, req'[r].pc \in Deploying \ {"place"},
           req'[r].place = req[r].place, req'[r].op = req[r].op,
           UNCHANGED rows
    PROVE  InTurn(r)'
<1>1. InTurn(r) /\ Project(r) \in Projects
  BY TurnTypes
<1>2. \A s : machine_ip(Project(r), s)' = machine_ip(Project(r), s)
  BY <1>1, MachineKept
<1>3. HostsKnown(r)'
  BY <1>1, <1>2 DEF InTurn, HostsKnown
<1>4. RightHandler(r)'
  BY <1>1 DEF InTurn, RightHandler, Deploying
<1> QED
  BY <1>3, <1>4 DEF InTurn, NothingPlaced, MayDeploy, PlacedInOrder, NoneForgotten,
     LooksThere, RowsGoLast, Unlisted, Deploying, CleaningUp, Forgetting

LEMMA ConfigLoadInTurn ==
    ASSUME TurnsInv, NEW r \in Requests, config_load(r)
    PROVE  InTurn(r)' /\ InOrder(r)'
<1> DEFINE p == Project(r)
<1>1. /\ ReqOK /\ DataOK /\ InTurn(r) /\ p \in Projects
      /\ Project(r)' = p /\ InOrder(r)
  BY TurnTypes, StepIsOwn, OwnInOrder DEF Step, Deploy, Project
<1>2. /\ req[r].pc = "load" /\ UNCHANGED <<projectRows, rows, dirs, containers>>
  BY DEF config_load
<1>3. /\ req'[r].pc \in {"plan", "place"} /\ req'[r].place = <<>>
      /\ req'[r].op = req[r].op /\ req'[r].project = req[r].project
  BY <1>1, ConfigLoadFields
<1>4. InOrder(r)'
  BY <1>1, <1>2, <1>3, StaysInOrder
<1>5. rows'[p] = <<>> /\ dirs'[p] # "absent" /\ req'[r].op # "destroy"
  BY <1>1, <1>2, <1>3 DEF InTurn, NothingPlaced, MayDeploy, RightHandler
<1>6. MayDeploy(r)' /\ RightHandler(r)'
  BY <1>1, <1>3, <1>5 DEF MayDeploy, RightHandler, Deploying
<1>7. PlacedInOrder(r)'
  <2>1. DOMAIN rows'[p] = {}
    BY <1>5
  <2> QED  BY <1>1, <2>1 DEF PlacedInOrder
<1>8. HostsKnown(r)'
  BY <1>3 DEF HostsKnown
<1> QED
  BY <1>3, <1>4, <1>6, <1>7, <1>8 DEF InTurn, NothingPlaced, NoneForgotten,
     LooksThere, RowsGoLast, Unlisted, CleaningUp, Forgetting

LEMMA NapFromDictsInTurn ==
    ASSUME TurnsInv, DistinctServices, NEW r \in Requests, nap_from_dicts(r)
    PROVE  InTurn(r)' /\ InOrder(r)'
<1>0. PICK p \in Projects : p = Project(r)
  BY TurnTypes
<1>00. PICK s : s = CurrentService(r)
  OBVIOUS
<1> DEFINE S == ServicesOf[p]
<1>1. /\ Inv /\ ReqOK /\ DataOK /\ InTurn(r) /\ p \in Projects
      /\ req[r] \in Request /\ LocalOK(req[r]) /\ p = req[r].project
      /\ Project(r)' = p /\ InOrder(r)
  BY <1>0, TurnTypes, StepIsOwn, OwnInOrder DEF Step, Deploy, Project
<1>2. /\ req[r].pc = "place" /\ UNCHANGED <<projectRows, dirs, containers>>
      /\ req[r].i \in 1 .. Len(S) /\ Len(req[r].place) = req[r].i - 1
      /\ req[r].place \in Seq(Hosts) /\ S \in Seq(Services) /\ s \in Services
      /\ s = S[req[r].i]
  <2>0. req[r].pc = "place" /\ UNCHANGED <<projectRows, dirs, containers>>
    BY DEF nap_from_dicts
  <2>1. req[r].i \in 1 .. Len(S) /\ Len(req[r].place) = req[r].i - 1
    BY <1>1, <2>0 DEF LocalOK
  <2>2. S \in Seq(Services) /\ s \in Services
    BY <1>0, <1>00, <1>1, <2>1, InRange
  <2> QED  BY <1>0, <1>00, <1>1, <2>0, <2>1, <2>2 DEF Request, CurrentService
<1>3. CASE UNCHANGED rows /\ Return(r, "crashed")
  <2>1. req'[r].pc = "done" /\ req'[r].project = req[r].project
    BY <1>1, <1>3, ReturnFields
  <2> QED  BY <1>0, <1>1, <1>2, <1>3, <2>1, AtRest, StaysInOrder
<1>4. ASSUME NEW index \in Hosts,
             rows' = [rows EXCEPT ![p] = Append(@, [name |-> s, machine |-> index])],
             req' = [req EXCEPT ![r] =
                 [@ EXCEPT !.pc = IF LastService(r) THEN "plan" ELSE "place",
                           !.i = IF LastService(r) THEN 1 ELSE req[r].i + 1,
                           !.place = Append(req[r].place, index)]]
      PROVE  InTurn(r)' /\ InOrder(r)'
  <2> DEFINE row == [name |-> s, machine |-> index]
             n == Len(rows[p])
  <2>1. /\ req'[r].pc \in {"plan", "place"}
        /\ req'[r].pc = "place" => req'[r].i = req[r].i + 1
        /\ req'[r].place = Append(req[r].place, index)
        /\ req'[r].op = req[r].op /\ req'[r].project = req[r].project
    <3>1. /\ req'[r].pc = (IF LastService(r) THEN "plan" ELSE "place")
          /\ req'[r].i = NextPosition(r)
          /\ req'[r].place = Append(req[r].place, index)
          /\ req'[r].op = req[r].op /\ req'[r].project = req[r].project
      BY <1>1, <1>4, PlaceFields
    <3> QED  BY <3>1 DEF NextPosition
  <2>2. row \in Row /\ row.name = s /\ row.machine = index
    BY <1>2 DEF Row
  <2>3. /\ rows[p] \in Seq(Row) /\ n \in Nat
        /\ rows'[p] = Append(rows[p], row)
    <3>1. rows \in [Projects -> Seq(Row)]
      BY <1>1 DEF DataOK
    <3>2. rows' = [rows EXCEPT ![p] = Append(rows[p], row)]
      BY <1>4
    <3> HIDE DEF row
    <3> QED  BY <1>1, <3>1, <3>2
  <2> HIDE DEF row, n
  <2>4. /\ DOMAIN rows[p] = 1 .. n /\ DOMAIN rows'[p] = 1 .. n + 1
        /\ rows'[p][n + 1] = row
        /\ \A k \in 1 .. n : rows'[p][k] = rows[p][k]
    BY <2>2, <2>3 DEF n
  <2>5. \A k \in DOMAIN rows[p] : \E j \in 1 .. req[r].i - 1 : rows[p][k].name = S[j]
    BY <1>0, <1>1, <1>2 DEF InTurn, PlacedInOrder
  <2>6. Has(p, s) = {}
    <3> SUFFICES ASSUME NEW k \in DOMAIN rows[p], rows[p][k].name = s  PROVE FALSE
      BY DEF Has
    <3>1. PICK j \in 1 .. req[r].i - 1 : rows[p][k].name = S[j]
      BY <2>5
    <3>2. S[j] = S[req[r].i] /\ j \in DOMAIN S /\ req[r].i \in DOMAIN S /\ j # req[r].i
      BY <1>2, <3>1
    <3> QED  BY <1>1, <3>2 DEF DistinctServices
  <2>7. /\ \A t : Has(p, t) # {} => machine_ip(p, t)' = machine_ip(p, t)
        /\ machine_ip(p, s)' = index
    BY <1>1, <1>4, <2>2, <2>6, RowAdded DEF DataOK, row
  <2>8. dirs'[p] # "absent"
    BY <1>0, <1>1, <1>2 DEF InTurn, MayDeploy
  <2>9. InOrder(r)'
    <3>1. ASSUME NEW c \in OfProject(p)  PROVE machine_ip(p, c.service)' = c.host
      <4>1. machine_ip(p, c.service) = c.host /\ c.host \in Hosts
        BY <1>0, <1>1 DEF InOrder, OfProject, DataOK, Container
      <4> QED  BY <2>7, <4>1, MachineMeansRow
    <3> QED  BY <1>0, <1>1, <1>2, <2>8, <3>1 DEF InOrder, OfProject
  <2>10. MayDeploy(r)' /\ RightHandler(r)'
    BY <1>0, <1>1, <1>2, <2>1, <2>8 DEF InTurn, MayDeploy, RightHandler, Deploying
  <2>11. PlacedInOrder(r)'
    <3> SUFFICES ASSUME req'[r].pc = "place", NEW k \in DOMAIN rows'[p]
                 PROVE  \E j \in 1 .. req'[r].i - 1 : rows'[p][k].name = S[j]
      BY <1>0, <1>1 DEF PlacedInOrder
    <3>1. req'[r].i - 1 = req[r].i
      BY <1>2, <2>1
    <3>2. CASE k = n + 1
      BY <1>2, <2>2, <2>4, <3>1, <3>2
    <3>3. CASE k \in 1 .. n
      <4>1. PICK j \in 1 .. req[r].i - 1 : rows[p][k].name = S[j]
        BY <2>4, <2>5, <3>3
      <4>2. j \in 1 .. req'[r].i - 1
        BY <1>2, <3>1, <4>1
      <4> QED  BY <2>4, <3>3, <4>1, <4>2
    <3> QED  BY <2>3, <2>4, <3>2, <3>3
  <2>12. HostsKnown(r)'
    <3>1. ASSUME NEW j \in 1 .. req[r].i
          PROVE  machine_ip(p, S[j])' = Append(req[r].place, index)[j]
      <4>1. CASE j = req[r].i
        BY <1>2, <2>7, <4>1
      <4>2. CASE j # req[r].i
        <5>1. j \in 1 .. Len(req[r].place) /\ j \in DOMAIN req[r].place
          BY <1>2, <4>2
        <5>2. machine_ip(p, S[j]) = req[r].place[j] /\ req[r].place[j] \in Hosts
          BY <1>0, <1>1, <1>2, <5>1 DEF InTurn, HostsKnown, Deploying
        <5>3. Append(req[r].place, index)[j] = req[r].place[j]
          BY <1>2, <5>1
        <5> QED  BY <2>7, <5>2, <5>3, MachineMeansRow
      <4> QED  BY <4>1, <4>2
    <3>2. DOMAIN Append(req[r].place, index) = 1 .. req[r].i
      BY <1>2
    <3>3. \A j \in DOMAIN req'[r].place : machine_ip(p, S[j])' = req'[r].place[j]
      BY <2>1, <3>1, <3>2
    <3> QED  BY <1>0, <1>1, <3>3 DEF HostsKnown
  <2> QED
    BY <2>1, <2>9, <2>10, <2>11, <2>12 DEF InTurn, NothingPlaced, NoneForgotten,
       LooksThere, RowsGoLast, Unlisted, CleaningUp, Forgetting
<1> QED  BY <1>0, <1>00, <1>3, <1>4 DEF nap_from_dicts

LEMMA CreateContainerInTurn ==
    ASSUME TurnsInv, NEW r \in Requests, create_container(r)
    PROVE  InTurn(r)' /\ InOrder(r)'
<1>1. /\ ReqOK /\ DataOK /\ InTurn(r) /\ Project(r) \in Projects
      /\ req[r] \in Request /\ LocalOK(req[r]) /\ Project(r) = req[r].project
      /\ Project(r)' = Project(r) /\ InOrder(r)
  BY TurnTypes, StepIsOwn, OwnInOrder DEF Step, Deploy, Project
<1>2. req[r].pc = "execute" /\ UNCHANGED <<projectRows, rows, dirs>>
  BY DEF create_container
<1>3. \A s : machine_ip(Project(r), s)' = machine_ip(Project(r), s)
  BY <1>1, <1>2, MachineKept
<1>4. CASE Goto(r, "list") /\ UNCHANGED containers
  <2>1. req'[r].pc = "list" /\ req'[r].project = req[r].project
    BY <1>1, <1>4, GotoFields
  <2> QED  BY <1>1, <1>2, <1>4, <2>1, AtRest, StaysInOrder
<1>5. CASE Goto(r, "launch") /\ ~(Goto(r, "list") /\ UNCHANGED containers)
  <2>1. /\ req'[r].pc = "launch" /\ req'[r].project = req[r].project
        /\ req'[r].place = req[r].place /\ req'[r].op = req[r].op
    BY <1>1, <1>5, GotoFields
  <2>2. InTurn(r)'
    BY <1>1, <1>2, <2>1, StillDeploying DEF Deploying
  <2>3. PICK new : /\ containers' = containers \cup {new}
                   /\ new.host = CurrentHost(r) /\ new.service = CurrentService(r)
    <3> DEFINE new == [host |-> CurrentHost(r), name |-> CurrentName(r),
                       project |-> Project(r), service |-> CurrentService(r),
                       by |-> r, status |-> "created"]
    <3>1. containers' = containers \cup {new}
      BY <1>5 DEF create_container
    <3>2. new.host = CurrentHost(r) /\ new.service = CurrentService(r)
      OBVIOUS
    <3> HIDE DEF new
    <3> QED  BY <3>1, <3>2
  <2>4. machine_ip(Project(r), CurrentService(r)) = CurrentHost(r)
    <3>1. req[r].i \in DOMAIN req[r].place
      BY <1>1, <1>2 DEF LocalOK, Request
    <3> QED  BY <1>1, <1>2, <3>1 DEF InTurn, HostsKnown, Deploying,
             CurrentService, CurrentHost
  <2>5. \A c \in OfProject(Project(r))' : machine_ip(Project(r), c.service) = c.host
    BY <1>1, <2>3, <2>4 DEF InOrder, OfProject
  <2>6. InOrder(r)'
    BY <1>1, <1>2, <1>3, <2>5 DEF InOrder
  <2> QED  BY <2>2, <2>6
<1> QED  BY <1>4, <1>5 DEF create_container

LEMMA DeployInTurn ==
    ASSUME TurnsInv, DistinctServices, NEW r \in Requests, Deploy(r)
    PROVE  InTurn(r)' /\ InOrder(r)'
<1>1. CASE config_load(r) \/ nap_from_dicts(r) \/ create_container(r)
  BY <1>1, ConfigLoadInTurn, NapFromDictsInTurn, CreateContainerInTurn
<1>2. CASE ~(config_load(r) \/ nap_from_dicts(r) \/ create_container(r))
  <2>1. /\ Inv /\ ReqOK /\ DataOK /\ InTurn(r) /\ Project(r) \in Projects
        /\ Project(r)' = Project(r) /\ InOrder(r) /\ Step(r)
        /\ req'[r].project = req[r].project /\ req'[r].op = req[r].op
    BY TurnTypes, StepIsOwn, OwnInOrder DEF Step, Project
  <2>2. /\ req[r].pc \in Deploying \ {"place"} /\ UNCHANGED <<projectRows, rows, dirs>>
    BY <1>2 DEF Deploy, Deploying, convergence_plan, start_container, up_to_date,
       exec_create
  <2>3. InOrder(r)'
    BY <1>2, <2>1, <2>2, OnlyCreateAdds, StaysInOrder DEF Deploying
  <2>4. \/ req'[r].pc \in {"list", "done"}
        \/ req'[r].pc \in Deploying \ {"place"} /\ req'[r].place = req[r].place
    <3>1. CASE convergence_plan(r)
      BY <2>1, <3>1, ReturnFields, PlanFields DEF convergence_plan, Deploying
    <3>2. CASE start_container(r) \/ up_to_date(r)
      BY <2>1, <3>2, GotoFields, NextServiceFields DEF start_container, up_to_date,
         Deploying
    <3>3. CASE exec_create(r)
      BY <2>1, <3>3, GotoFields, ReturnFields, ExecFields DEF exec_create, Deploying
    <3> QED  BY <1>2, <3>1, <3>2, <3>3 DEF Deploy
  <2>5. InTurn(r)'
    BY <2>1, <2>2, <2>4, AtRest, StillDeploying
  <2> QED  BY <2>3, <2>5
<1> QED  BY <1>1, <1>2

LEMMA FailuresInTurn ==
    ASSUME TurnsInv, NEW r \in Requests,
           DeployError(r) \/ CleanupError(r) \/ Crash(r)
    PROVE  InTurn(r)' /\ InOrder(r)'
<1>1. /\ ReqOK /\ Project(r) \in Projects /\ InOrder(r)
      /\ req'[r].project = req[r].project
  BY TurnTypes, StepIsOwn, OwnInOrder DEF Step
<1>2. UNCHANGED <<projectRows, rows, dirs, containers>>
  BY DEF DeployError, CleanupError, Crash
<1>3. req'[r].pc \in {"list", "done"}
  <2>1. Goto(r, "list") \/ Return(r, "crashed")
    BY DEF DeployError, CleanupError, Crash
  <2> QED  BY <1>1, <2>1, GotoFields, ReturnFields
<1> QED  BY <1>1, <1>2, <1>3, AtRest, StaysInOrder

(***************************************************************************)
(* Cleaning up                                                             *)
(***************************************************************************)
\* The next name: there is no container of this one, so those there are belong
\* to the rest.
LEMMA NextNameInTurn ==
    ASSUME TurnsInv, NEW r \in Requests, req[r].pc \in {"locate", "look", "remove"},
           NextName(r), UNCHANGED rows,
           \A c \in OfProject(Project(r))' :
               /\ c.service # Head(req[r].todo)
               /\ \E d \in OfProject(Project(r)) : d.service = c.service
    PROVE  InTurn(r)'
<1>1. /\ ReqOK /\ InTurn(r) /\ Project(r) \in Projects
      /\ req[r] \in Request /\ LocalOK(req[r])
  BY TurnTypes
<1>2. PICK todo : todo = req[r].todo /\ todo # <<>> /\ todo \in Seq(Services)
  BY <1>1 DEF LocalOK, Request
<1>3. /\ req'[r].pc = (IF Tail(todo) = <<>> THEN AfterCleanup(r) ELSE "locate")
      /\ req'[r].todo = Tail(todo)
      /\ req'[r].op = req[r].op /\ Project(r)' = Project(r)
  BY <1>1, <1>2, NextNameFields DEF Project
<1>4. \A c \in OfProject(Project(r))' : \E j \in DOMAIN Tail(todo) :
          Tail(todo)[j] = c.service
  <2> SUFFICES ASSUME NEW c \in OfProject(Project(r))'
               PROVE  \E j \in DOMAIN Tail(todo) : Tail(todo)[j] = c.service
    OBVIOUS
  <2>1. PICK j \in DOMAIN todo : todo[j] = c.service
    BY <1>1, <1>2 DEF InTurn, NoneForgotten, CleaningUp
  <2>2. j # 1
    BY <1>2, <2>1
  <2>3. j \in 2 .. Len(todo) /\ j - 1 \in DOMAIN Tail(todo)
        /\ Tail(todo)[j - 1] = todo[j]
    BY <1>2, <2>1, <2>2
  <2> QED  BY <2>1, <2>3
<1>5. CASE Tail(todo) = <<>>
  <2>1. OfProject(Project(r))' = {}
    BY <1>4, <1>5
  <2>2. \/ req'[r].pc = "rb_delete" /\ req'[r].op # "destroy"
        \/ req'[r].pc = "del_project" /\ req'[r].op = "destroy"
    BY <1>3, <1>5 DEF AfterCleanup
  <2> QED
    BY <1>3, <2>1, <2>2 DEF InTurn, NothingPlaced, MayDeploy, PlacedInOrder,
       HostsKnown, NoneForgotten, LooksThere, RowsGoLast, Unlisted, RightHandler,
       Deploying, CleaningUp, Forgetting
<1>6. CASE Tail(todo) # <<>>
  <2>1. req'[r].pc = "locate"
    BY <1>3, <1>6
  <2>2. NoneForgotten(r)'
    BY <1>3, <1>4 DEF NoneForgotten
  <2> QED
    BY <2>1, <2>2 DEF InTurn, NothingPlaced, MayDeploy, PlacedInOrder,
       HostsKnown, LooksThere, RowsGoLast, Unlisted, RightHandler,
       Deploying, CleaningUp, Forgetting
<1> QED  BY <1>5, <1>6

\* The name stays: the clean-up still has to come to every container, at the
\* machine it has looked up.
LEMMA SameNameInTurn ==
    ASSUME TurnsInv, NEW r \in Requests, req[r].pc \in {"look", "stop"},
           req'[r].pc \in {"stop", "remove"}, UNCHANGED rows,
           req'[r].project = req[r].project, req'[r].todo = req[r].todo,
           req'[r].at = req[r].at,
           \A c \in OfProject(Project(r))' :
               \E d \in OfProject(Project(r)) : d.service = c.service
    PROVE  InTurn(r)'
<1>1. /\ InTurn(r) /\ Project(r) \in Projects /\ Project(r)' = Project(r)
  BY TurnTypes DEF Project
<1>2. \A s : machine_ip(Project(r), s)' = machine_ip(Project(r), s)
  BY <1>1, MachineKept
<1>3. NoneForgotten(r)'
  BY <1>1 DEF InTurn, NoneForgotten, CleaningUp
<1>4. LooksThere(r)'
  BY <1>1, <1>2 DEF InTurn, LooksThere
<1> QED
  BY <1>3, <1>4 DEF InTurn, NothingPlaced, MayDeploy, PlacedInOrder, HostsKnown,
     RowsGoLast, Unlisted, RightHandler, Deploying, Forgetting

\* Every container of the project of r that the clean-up's current name stands
\* for is at the machine the database names, under the name it looks for.
LEMMA FoundThere ==
    ASSUME TurnsInv, NEW r \in Requests, InOrder(r), req[r].todo # <<>>,
           NEW c \in OfProject(Project(r)), c.service = Head(req[r].todo)
    PROVE  /\ machine_ip(Project(r), Head(req[r].todo)) = c.host
           /\ c.host \in Hosts
           /\ c \in Named(c.host, CleanupName(r))
<1>1. c \in containers /\ c \in Container /\ c.project = Project(r)
  BY DEF OfProject, TurnsInv, Inv, TypeInv, TypeOK
<1>2. c.name = FullName[<<c.project, c.service>>]
  BY <1>1 DEF TurnsInv, Inv, NamesOK
<1>3. c.name = CleanupName(r)
  BY <1>1, <1>2 DEF CleanupName
<1>4. c.host \in Hosts
  BY <1>1 DEF Container
<1>5. machine_ip(Project(r), Head(req[r].todo)) = c.host
  BY DEF InOrder
<1> QED  BY <1>1, <1>3, <1>4, <1>5 DEF Named

LEMMA ListInTurn ==
    ASSUME TurnsInv, NEW r \in Requests, read_service_list(r)
    PROVE  InTurn(r)'
<1>0. PICK p \in Projects : p = Project(r)
  BY TurnTypes
<1>1. /\ ReqOK /\ DataOK /\ InTurn(r) /\ Project(r)' = p /\ InOrder(r)
      /\ req[r].pc = "list" /\ UNCHANGED <<rows, containers>>
  BY <1>0, TurnTypes, StepIsOwn, OwnInOrder DEF Step, Cleanup, Project,
     read_service_list
<1>2. \A c \in OfProject(p) : \E k \in DOMAIN rows[p] : rows[p][k].name = c.service
  <2> SUFFICES ASSUME NEW c \in OfProject(p)
               PROVE  \E k \in DOMAIN rows[p] : rows[p][k].name = c.service
    OBVIOUS
  <2>1. machine_ip(p, c.service) \in Hosts
    BY <1>0, <1>1 DEF InOrder, OfProject, DataOK, Container
  <2> QED  BY <2>1, MachineMeansRow DEF Has
<1>3. CASE rows[p] # <<>>
  <2>1. req'[r].pc = "locate" /\ req'[r].todo = service_list(p)
    BY <1>0, <1>1, <1>3, ListFields, ZenonT(30) DEF read_service_list
  <2>2. NoneForgotten(r)'
    BY <1>0, <1>1, <1>2, <2>1 DEF NoneForgotten, OfProject, service_list
  <2> QED
    BY <2>1, <2>2 DEF InTurn, NothingPlaced, MayDeploy, PlacedInOrder, HostsKnown,
       LooksThere, RowsGoLast, Unlisted, RightHandler, Deploying, Forgetting
<1>4. CASE rows[p] = <<>> /\ req[r].op = "destroy"
  <2>1. req'[r].pc = "del_project" /\ req'[r].op = "destroy"
    BY <1>0, <1>1, <1>4, GotoFields DEF read_service_list
  <2>2. RowsGoLast(r)'
    BY <1>0, <1>1, <1>2, <1>4 DEF RowsGoLast, OfProject
  <2> QED
    BY <2>1, <2>2 DEF InTurn, NothingPlaced, MayDeploy, PlacedInOrder, HostsKnown,
       NoneForgotten, LooksThere, Unlisted, RightHandler, Deploying, CleaningUp
<1>5. CASE rows[p] = <<>> /\ req[r].op # "destroy"
  BY <1>0, <1>1, <1>5, ReturnFields, AtRest DEF read_service_list
<1> QED  BY <1>3, <1>4, <1>5

LEMMA LoopInTurn ==
    ASSUME TurnsInv, NEW r \in Requests,
           locate(r) \/ container_exists(r) \/ stop_container(r) \/ remove_container(r)
    PROVE  InTurn(r)'
<1> DEFINE name == Head(req[r].todo)
<1>1. /\ Inv /\ ReqOK /\ DataOK /\ InTurn(r) /\ Project(r) \in Projects
      /\ req[r] \in Request /\ LocalOK(req[r]) /\ InOrder(r)
      /\ Project(r)' = Project(r) /\ req'[r].project = req[r].project
  BY TurnTypes, StepIsOwn, OwnInOrder DEF Step, Cleanup, Project
<1>2. req[r].pc \in CleaningUp /\ UNCHANGED rows
  BY DEF locate, container_exists, stop_container, remove_container, CleaningUp
<1>3. req[r].todo # <<>>
  BY <1>1, <1>2 DEF LocalOK, CleaningUp
<1>4. \A c \in OfProject(Project(r))' :
          \E d \in OfProject(Project(r)) : d.service = c.service
  <2>1. ~create_container(r) /\ Step(r)
    BY <1>2 DEF CleaningUp, create_container, Step, Cleanup
  <2> QED  BY <1>1, <2>1, OnlyCreateAdds DEF OfProject
<1>5. ASSUME Return(r, "crashed")  PROVE InTurn(r)'
  BY <1>1, <1>5, ReturnFields, AtRest
<1>6. ASSUME NEW pc \in {"stop", "remove"}, Goto(r, pc), req[r].pc \in {"look", "stop"}
      PROVE  InTurn(r)'
  <2>1. /\ req'[r].pc = pc /\ req'[r].todo = req[r].todo /\ req'[r].at = req[r].at
    BY <1>1, <1>6, GotoFields
  <2> QED  BY <1>1, <1>2, <1>4, <1>6, <2>1, SameNameInTurn
<1>7. ASSUME NextName(r), req[r].pc \in {"locate", "look", "remove"},
             \A c \in OfProject(Project(r))' : c.service # name
      PROVE  InTurn(r)'
  BY <1>2, <1>4, <1>7, NextNameInTurn
<1>8. CASE locate(r)
  <2>1. CASE machine_ip(Project(r), name) = NoHost
    <3>1. NoHost \notin Hosts
      BY MachineAssumption DEF NoHost, Hosts
    <3>2. \A c \in OfProject(Project(r)) : c.service # name
      BY <1>1, <1>3, <2>1, <3>1, FoundThere
    <3>3. \A c \in OfProject(Project(r))' : c.service # name
      BY <1>4, <3>2
    <3> QED  BY <1>7, <1>8, <2>1, <3>3 DEF locate
  <2>2. CASE machine_ip(Project(r), name) # NoHost
    <3>1. /\ req'[r].pc = "look" /\ req'[r].at = machine_ip(Project(r), name)
          /\ req'[r].todo = req[r].todo
      BY <1>1, <1>8, <2>2, LocateFields DEF locate
    <3>2. \A s : machine_ip(Project(r), s)' = machine_ip(Project(r), s)
      BY <1>1, <1>2, MachineKept
    <3>3. LooksThere(r)'
      BY <1>1, <3>1, <3>2 DEF LooksThere
    <3>4. NoneForgotten(r)'
      BY <1>1, <1>2, <1>4, <3>1 DEF InTurn, NoneForgotten
    <3> QED
      BY <3>1, <3>3, <3>4 DEF InTurn, NothingPlaced, MayDeploy, PlacedInOrder,
         HostsKnown, RowsGoLast, Unlisted, RightHandler, Deploying, Forgetting
  <2> QED  BY <2>1, <2>2
<1>9. ASSUME req[r].pc \in {"look", "remove"}, NEW c \in OfProject(Project(r)),
             c.service = name
      PROVE  c \in Named(req[r].at, CleanupName(r))
  <2>1. req[r].at = machine_ip(Project(r), name)
    BY <1>1, <1>9 DEF InTurn, LooksThere
  <2> QED  BY <1>1, <1>3, <1>9, <2>1, FoundThere
<1>10. CASE container_exists(r)
  <2>1. CASE Named(req[r].at, CleanupName(r)) = {}
    <3>1. \A c \in OfProject(Project(r)) : c.service # name
      BY <1>9, <1>10, <2>1 DEF container_exists
    <3>2. \A c \in OfProject(Project(r))' : c.service # name
      BY <1>4, <3>1
    <3> QED  BY <1>7, <1>10, <2>1, <3>2 DEF container_exists
  <2>2. CASE Named(req[r].at, CleanupName(r)) # {}
    BY <1>6, <1>10, <2>2 DEF container_exists
  <2> QED  BY <2>1, <2>2
<1>11. CASE stop_container(r)
  BY <1>5, <1>6, <1>11 DEF stop_container
<1>12. CASE remove_container(r)
  <2>1. CASE Return(r, "crashed")
    BY <1>5, <2>1
  <2>2. CASE /\ containers' = containers \ Named(req[r].at, CleanupName(r))
             /\ NextName(r)
    <3>1. \A c \in OfProject(Project(r))' : c.service # name
      BY <1>1, <1>9, <1>12, <2>2 DEF remove_container, OfProject
    <3> QED  BY <1>7, <1>12, <2>2, <3>1 DEF remove_container
  <2> QED  BY <1>12, <2>1, <2>2 DEF remove_container
<1> QED  BY <1>8, <1>10, <1>11, <1>12

LEMMA ForgetInTurn ==
    ASSUME TurnsInv, NEW r \in Requests,
           delete_rows(r) \/ delete_project(r) \/ delete_service(r)
    PROVE  InTurn(r)' /\ InOrder(r)'
<1>1. /\ ReqOK /\ DataOK /\ InTurn(r) /\ Project(r) \in Projects
      /\ InOrder(r) /\ Project(r)' = Project(r)
  BY TurnTypes, StepIsOwn, OwnInOrder DEF Step, Cleanup, Project
<1>2. req[r].pc \in Forgetting /\ UNCHANGED <<dirs, containers>>
  BY DEF delete_rows, delete_project, delete_service, Forgetting
<1>3. OfProject(Project(r))' = {}
  BY <1>1, <1>2 DEF InTurn, RowsGoLast, OfProject
<1>4. CASE delete_rows(r) \/ delete_service(r)
  <2>1. req'[r].pc = "done" /\ rows'[Project(r)] = <<>>
    BY <1>1, <1>4, ReturnFields DEF delete_rows, delete_service, DataOK
  <2> QED  BY <1>1, <1>3, <2>1, AtRest DEF InOrder
<1>5. CASE delete_project(r)
  <2>1. /\ req'[r].pc = "del_service" /\ projectRows'[Project(r)] = 0
        /\ req'[r].op = req[r].op /\ req[r].pc = "del_project"
    BY <1>1, <1>5, GotoFields DEF delete_project, DataOK
  <2>2. RowsGoLast(r)' /\ Unlisted(r)' /\ RightHandler(r)'
    BY <1>1, <1>3, <2>1 DEF InTurn, RowsGoLast, Unlisted, RightHandler, Deploying
  <2>3. InTurn(r)'
    BY <2>1, <2>2 DEF InTurn, NothingPlaced, MayDeploy, PlacedInOrder, HostsKnown,
       NoneForgotten, LooksThere, Deploying, CleaningUp
  <2>4. UNCHANGED rows
    BY <1>5 DEF delete_project
  <2> QED  BY <1>1, <1>2, <1>3, <2>3, <2>4 DEF InOrder
<1> QED  BY <1>4, <1>5

LEMMA CleanupInTurn ==
    ASSUME TurnsInv, NEW r \in Requests, Cleanup(r)
    PROVE  InTurn(r)' /\ InOrder(r)'
<1>1. CASE delete_rows(r) \/ delete_project(r) \/ delete_service(r)
  BY <1>1, ForgetInTurn
<1>2. CASE ~(delete_rows(r) \/ delete_project(r) \/ delete_service(r))
  <2>1. /\ Inv /\ Project(r) \in Projects /\ InOrder(r)
        /\ Step(r) /\ req'[r].project = req[r].project
    BY TurnTypes, StepIsOwn, OwnInOrder DEF Step
  <2>2. UNCHANGED <<projectRows, rows, dirs>> /\ ~create_container(r)
    BY <1>2 DEF Cleanup, read_service_list, locate, container_exists,
       stop_container, remove_container, create_container
  <2>3. InOrder(r)'
    BY <2>1, <2>2, OnlyCreateAdds, StaysInOrder
  <2> QED  BY <1>2, <2>3, ListInTurn, LoopInTurn DEF Cleanup
<1> QED  BY <1>1, <1>2

LEMMA StepKeepsTurns ==
    ASSUME TurnsInv, TakeTurns, DistinctServices, NEW r \in Requests, Step(r)
    PROVE  TurnsInv'
<1>1. /\ Inv /\ ReqOK /\ Project(r) \in Projects /\ Active(r) /\ Project(r)' = Project(r)
      /\ \A q \in Requests \ {r} : req'[q] = req[q]
  BY TurnTypes, StepIsOwn DEF Project
<1>2. InTurn(r)' /\ InOrder(r)'
  BY CreateInTurn, DeployInTurn, CleanupInTurn, FailuresInTurn DEF Step
<1>3. Inv'
  <2>1. TypeInv'
    BY <1>1, NextKeepsTypes DEF Next, Inv
  <2> QED  BY <1>1, <2>1, StepKeepsNames DEF Inv
<1>4. OneAtATime'
  <2>1. \A q \in Requests : Active(q)' => Active(q)
    BY <1>1 DEF Active
  <2>2. \A q \in Requests : Project(q)' = Project(q)
    BY <1>1 DEF Project
  <2> QED  BY <2>1, <2>2 DEF TurnsInv, OneAtATime
<1>5. ASSUME NEW q \in Requests  PROVE InTurn(q)'
  <2>1. CASE q = r
    BY <1>2, <2>1
  <2>2. CASE q # r /\ Active(q)
    <3>1. Project(q) # Project(r) /\ Project(q) \in Projects /\ InTurn(q)
      BY <1>1, <2>2, TurnTypes DEF TurnsInv, OneAtATime
    <3>2. PICK p \in Projects : p = Project(q)
      BY <3>1
    <3>3. Project(q)' = p
      BY <1>1, <2>2, <3>2 DEF Project
    <3>4. /\ projectRows'[p] = projectRows[p] /\ rows'[p] = rows[p]
          /\ dirs'[p] = dirs[p]
          /\ \A c \in OfProject(p)' : \E d \in OfProject(p) : d.service = c.service
      BY <1>1, <3>1, <3>2, StepSparesOthers
    <3> QED  BY <1>1, <2>2, <3>1, <3>2, <3>3, <3>4, InTurnKept
  <2>3. CASE q # r /\ ~Active(q)
    <3>1. req'[q].pc \in {"idle", "done"}
      BY <1>1, <2>3 DEF Active
    <3> QED
      BY <3>1 DEF InTurn, NothingPlaced, MayDeploy, PlacedInOrder, HostsKnown,
         NoneForgotten, LooksThere, RowsGoLast, Unlisted, RightHandler,
         Deploying, CleaningUp, Forgetting
  <2> QED  BY <2>1, <2>2, <2>3
<1>6. Reachable'
  <2> SUFFICES ASSUME NEW c \in containers', NEW p \in Projects, p = c.project
               PROVE  machine_ip(p, c.service)' = c.host
    <3>1. \A c \in containers' : c.project \in Projects
      BY <1>3 DEF Inv, TypeInv, TypeOK, Container
    <3> QED  BY <3>1 DEF Reachable
  <2>1. CASE p = Project(r)
    BY <1>1, <1>2, <2>1 DEF InOrder, OfProject
  <2>2. CASE p # Project(r)
    <3>1. rows'[p] = rows[p] /\ c \in OfProject(p)'
      BY <2>2, <1>1, StepSparesOthers DEF OfProject
    <3>2. PICK d \in OfProject(p) : d.host = c.host /\ d.service = c.service
      BY <1>1, <2>2, <3>1, StepSparesOthers
    <3>3. machine_ip(p, d.service) = d.host
      BY DEF TurnsInv, Reachable, OfProject
    <3>4. \A s : machine_ip(p, s)' = machine_ip(p, s)
      BY <3>1, MachineKept
    <3> QED  BY <3>2, <3>3, <3>4
  <2> QED  BY <2>1, <2>2
<1>7. Uploaded'
  <2> SUFFICES ASSUME NEW p \in Projects
               PROVE  rows'[p] = <<>> \/ dirs'[p] # "absent"
    BY DEF Uploaded
  <2>1. CASE p = Project(r)
    BY <1>1, <1>2, <2>1 DEF InOrder
  <2>2. CASE p # Project(r)
    BY <1>1, <2>2, StepSparesOthers DEF TurnsInv, Uploaded
  <2> QED  BY <2>1, <2>2
<1> QED  BY <1>3, <1>4, <1>5, <1>6, <1>7 DEF TurnsInv

LEMMA BeginFields ==
    ASSUME ReqOK, NEW r \in Requests, NEW op, NEW p, Begin(r, op, p)
    PROVE  /\ req'[r].pc = FirstStep[op] /\ req'[r].op = op /\ req'[r].project = p
           /\ req'[r].result = req[r].result
           /\ \A q \in Requests \ {r} : req'[q] = req[q]
<1>1. req'[r] = [req[r] EXCEPT !.pc = FirstStep[op], !.op = op, !.project = p]
  BY DEF Begin, ReqOK
<1>2. \A q \in Requests \ {r} : req'[q] = req[q]
  BY DEF Begin, ReqOK
<1> QED  BY <1>1, <1>2 DEF ReqOK, Request

LEMMA BeginKeepsTurns ==
    ASSUME TurnsInv, TakeTurns, NEW r \in Requests, NEW op \in Operations,
           NEW p \in Projects, Begin(r, op, p)
    PROVE  TurnsInv'
<1>1. Inv /\ ReqOK /\ req[r] \in Request
  BY TurnTypes
<1>2. /\ req[r].pc = "idle" /\ Admissible(op, p)
      /\ UNCHANGED <<projectRows, rows, dirs, containers>>
  BY DEF Begin
<1>3. /\ req'[r].pc = FirstStep[op] /\ req'[r].op = op /\ req'[r].project = p
      /\ \A q \in Requests \ {r} : req'[q] = req[q]
  BY <1>1, BeginFields
<1>4. Inv'
  <2>1. TypeInv'
    BY <1>1, NextKeepsTypes DEF Next, Inv
  <2> QED  BY <1>1, <1>2, <2>1 DEF Inv, NamesOK
<1>5. OneAtATime'
  <2>1. \A q \in Requests : Active(q) => Project(q) # p
    BY <1>2 DEF Admissible, TakeTurns
  <2>2. \A q \in Requests \ {r} : /\ Active(q)' = Active(q)
                                  /\ Project(q)' = Project(q)
    BY <1>3 DEF Active, Project
  <2>3. Project(r)' = p
    BY <1>3 DEF Project
  <2> QED  BY <2>1, <2>2, <2>3 DEF TurnsInv, OneAtATime
<1>6. ASSUME NEW q \in Requests  PROVE InTurn(q)'
  <2>1. CASE q # r
    <3>1. PICK o \in Projects : o = Project(q)
      BY TurnTypes
    <3>2. Project(q)' = o /\ InTurn(q)
      BY <1>3, <2>1, <3>1, TurnTypes DEF Project
    <3>3. \A c \in OfProject(o)' : \E d \in OfProject(o) : d.service = c.service
      BY <1>2 DEF OfProject
    <3> QED  BY <1>1, <1>2, <1>3, <2>1, <3>1, <3>2, <3>3, InTurnKept
  <2>2. CASE q = r
    <3>1. CASE req'[r].pc = "list"
      BY <2>2, <3>1, AtRest
    <3>2. CASE req'[r].pc = "exists"
      <4>1. op \in {"url", "filebrowser"}
        BY <1>3, <3>2 DEF FirstStep, Operations
      <4>2. op = "filebrowser" => rows[p] = <<>> \/ projectRows[p] > 0
        <5>1. projectRows[p] \in Nat
          BY <1>1 DEF Inv, TypeInv, TypeOK
        <5> QED  BY <1>2, <5>1 DEF Admissible, Redeploys, TakeTurns
      <4>3. MayDeploy(r)'
        BY <1>2, <1>3, <3>2, <4>1, <4>2 DEF MayDeploy, Project
      <4> QED
        BY <1>3, <2>2, <3>2, <4>1, <4>3 DEF InTurn, NothingPlaced, MayDeploy, PlacedInOrder,
           HostsKnown, NoneForgotten, LooksThere, RowsGoLast, Unlisted,
           RightHandler, Deploying, CleaningUp, Forgetting
    <3>3. CASE req'[r].pc \in {"argv", "replace"}
      <4>1. op \in {"file", "replace"}
        BY <1>3, <3>3 DEF FirstStep, Operations
      <4>2. rows[p] = <<>>
        BY <1>2, <4>1 DEF Admissible, Redeploys, TakeTurns
      <4>3. \/ req'[r].pc = "argv" \/ req'[r].pc = "replace"
        BY <3>3
      <4> QED
        BY <1>2, <1>3, <2>2, <4>1, <4>2, <4>3 DEF InTurn, NothingPlaced, MayDeploy,
           PlacedInOrder, HostsKnown, NoneForgotten, LooksThere, RowsGoLast,
           Unlisted, RightHandler, Deploying, CleaningUp, Forgetting, Project
    <3>4. req'[r].pc \in {"exists", "argv", "replace", "list"}
      BY <1>3 DEF FirstStep, Operations
    <3> QED  BY <3>1, <3>2, <3>3, <3>4
  <2> QED  BY <2>1, <2>2
<1>7. Reachable'
  BY <1>2, ZenonT(30) DEF TurnsInv, Reachable, machine_ip, Has
<1>8. Uploaded'
  BY <1>2 DEF TurnsInv, Uploaded
<1> QED  BY <1>4, <1>5, <1>6, <1>7, <1>8 DEF TurnsInv

LEMMA NextKeepsTurns ==
    ASSUME TakeTurns, DistinctServices
    PROVE  TurnsInv /\ [Next]_vars => TurnsInv'
<1> SUFFICES ASSUME TurnsInv, [Next]_vars  PROVE TurnsInv'
  OBVIOUS
<1>1. ASSUME UNCHANGED <<projectRows, rows, containers, req>>, TypeInv',
             \A p \in Projects : dirs[p] # "absent" => dirs'[p] # "absent"
      PROVE  TurnsInv'
  <2>1. Inv'
    BY <1>1 DEF TurnsInv, Inv, NamesOK
  <2>2. Reachable' /\ Uploaded' /\ OneAtATime'
    <3>1. Reachable'
      BY <1>1, ZenonT(30) DEF TurnsInv, Reachable, machine_ip, Has
    <3>2. Uploaded'
      BY <1>1 DEF TurnsInv, Uploaded
    <3>3. OneAtATime'
      BY <1>1 DEF TurnsInv, OneAtATime, Active, Project
    <3> QED  BY <3>1, <3>2, <3>3
  <2>3. ASSUME NEW q \in Requests  PROVE InTurn(q)'
    <3>1. Project(q)' = Project(q)
      BY <1>1 DEF Project
    <3>2. \A c \in OfProject(Project(q))' : \E d \in OfProject(Project(q)) :
              d.service = c.service
      BY <1>1, <3>1 DEF OfProject
    <3> QED  BY <1>1, <3>1, <3>2, TurnTypes, InTurnKept
  <2> QED  BY <2>1, <2>2, <2>3 DEF TurnsInv
<1>2. TypeInv'
  BY NextKeepsTypes DEF TurnsInv, Inv
<1>3. CASE UNCHANGED vars \/ Terminating \/ \E p \in Projects : Upload(p)
  <2>1. \A p \in Projects : dirs[p] # "absent" => dirs'[p] # "absent"
    <3>1. dirs \in [Projects -> DirStates]
      BY DEF TurnsInv, Inv, TypeInv, TypeOK
    <3> QED  BY <1>3, <3>1 DEF vars, Terminating, Upload
  <2> QED  BY <1>1, <1>2, <1>3, <2>1 DEF vars, Terminating, Upload
<1> QED  BY <1>3, StepKeepsTurns, BeginKeepsTurns DEF Next

LEMMA TurnsInvHolds ==
    ASSUME TakeTurns, DistinctServices
    PROVE  Spec => []TurnsInv
<1>1. Init => TurnsInv
  <2> SUFFICES ASSUME Init  PROVE TurnsInv
    OBVIOUS
  <2>1. Inv
    BY InitHasTypes DEF Init, Inv, NamesOK
  <2>2. \A q \in Requests : req[q].pc = "idle"
    BY DEF Init, Idle
  <2>3. Reachable /\ Uploaded /\ OneAtATime
    BY <2>2 DEF Init, Reachable, Uploaded, OneAtATime, Active
  <2>4. ASSUME NEW q \in Requests  PROVE InTurn(q)
    BY <2>2 DEF InTurn, NothingPlaced, MayDeploy, PlacedInOrder, HostsKnown,
       NoneForgotten, LooksThere, RowsGoLast, Unlisted, RightHandler,
       Deploying, CleaningUp, Forgetting
  <2> QED  BY <2>1, <2>3, <2>4 DEF TurnsInv
<1> QED  BY <1>1, NextKeepsTurns, PTL DEF Spec

(***************************************************************************)
(* Answers                                                                 *)
(***************************************************************************)
\* Which steps answer "ok" and which answer "failed".
LEMMA WhoAnswers ==
    ASSUME ReqOK, NEW r \in Requests, Step(r)
    PROVE  /\ Answers(r, "ok") =>
                 delete_service(r) \/ (exec_create(r) /\ req'[r].pc = "done")
           /\ Answers(r, "failed") =>
                 delete_rows(r) \/ (read_service_list(r) /\ rows[Project(r)] = <<>>)
<1> DEFINE Silent == ~Answers(r, "ok") /\ ~Answers(r, "failed")
<1>1. ASSUME req'[r].result = req[r].result  PROVE Silent
  BY <1>1 DEF Answers
<1>2. ASSUME NEW pc, Goto(r, pc)  PROVE Silent
  BY <1>1, <1>2, GotoFields
<1>3. ASSUME NEW a, Return(r, a), a \in {"refused", "crashed", "argv"}  PROVE Silent
  BY <1>3, ReturnFields DEF Answers
<1>4. config_load(r) => Silent
  BY <1>1, ConfigLoadFields
<1>5. NextService(r, "execute", "exec") => Silent
  BY <1>1, NextServiceFields
<1>6. NextName(r) => Silent
  BY <1>1, NextNameFields
<1>7. nap_from_dicts(r) => Silent
  <2> HIDE DEF Silent
  <2> QED  BY <1>1, <1>3, PlaceFields DEF nap_from_dicts
<1>8. convergence_plan(r) => Silent
  <2> HIDE DEF Silent
  <2> QED  BY <1>1, <1>3, PlanFields DEF convergence_plan
<1>9. locate(r) => Silent
  <2> HIDE DEF Silent
  <2> QED  BY <1>1, <1>6, LocateFields DEF locate
<1> HIDE DEF Silent
<1>10. Create(r) => Silent
  BY <1>2, <1>3 DEF Create, project_exists, path_exists, mkdir,
     clone_from, create_project, get_argv, replace_argv
<1>11. create_container(r) \/ start_container(r) \/ up_to_date(r) => Silent
  BY <1>2, <1>5 DEF create_container, start_container, up_to_date
<1>12. container_exists(r) \/ stop_container(r) \/ remove_container(r) => Silent
  BY <1>2, <1>3, <1>6 DEF container_exists, stop_container, remove_container
<1>13. delete_project(r) => Silent
  BY <1>2 DEF delete_project
<1>14. DeployError(r) \/ CleanupError(r) \/ Crash(r) => Silent
  <2>1. DeployError(r) \/ CleanupError(r) \/ Crash(r) =>
            Goto(r, "list") \/ Return(r, "crashed")
    BY DEF DeployError, CleanupError, Crash
  <2> QED  BY <1>2, <1>3, <2>1
<1>15. ASSUME exec_create(r), req'[r].pc # "done"  PROVE Silent
  <2>1. CASE Goto(r, "list")
    BY <1>2, <2>1
  <2>2. CASE ~LastService(r) /\ NextService(r, "exec", "exec")
    BY <1>1, <2>2, ExecFields
  <2>3. Return(r, "ok") => req'[r].pc = "done"
    BY ReturnFields
  <2> HIDE DEF Silent
  <2> QED  BY <1>15, <2>1, <2>2, <2>3 DEF exec_create
<1>16. ASSUME NEW a, Return(r, a)  PROVE req'[r].result = a
  BY <1>16, ReturnFields
<1>17. CASE read_service_list(r)
  <2>1. CASE rows[Project(r)] # <<>>
    <3>1. req' = [req EXCEPT ![r] = [@ EXCEPT !.pc = "locate",
                                            !.todo = service_list(Project(r))]]
      BY <1>17, <2>1 DEF read_service_list
    <3>2. req'[r].result = req[r].result
      BY <3>1, ListFields
    <3> QED  BY <3>2 DEF Answers
  <2>2. CASE rows[Project(r)] = <<>>
    <3>1. Goto(r, "del_project") \/ Return(r, "failed")
      BY <1>17, <2>2 DEF read_service_list
    <3>2. Silent \/ req'[r].result = "failed"
      BY <1>2, <1>16, <3>1
    <3> QED  BY <1>17, <2>2, <3>2 DEF Silent, Answers
  <2> QED  BY <2>1, <2>2
<1>18. CASE delete_rows(r)
  BY <1>16, <1>18 DEF delete_rows, Answers
<1>19. CASE delete_service(r)
  BY <1>16, <1>19 DEF delete_service, Answers
<1>20. CASE exec_create(r) /\ req'[r].pc = "done"
  <2>0. req'[r].pc = "done"
    BY <1>20
  <2>1. req'[r].result = "ok"
    <3>1. CASE Goto(r, "list")
      <4>1. req'[r].pc = "list"
        BY <3>1, GotoFields
      <4> QED  BY <2>0, <4>1
    <3>2. CASE ~LastService(r) /\ NextService(r, "exec", "exec")
      <4>1. req'[r].pc = "exec"
        BY <3>2, ExecFields
      <4> QED  BY <2>0, <4>1
    <3>3. CASE Return(r, "ok")
      BY <1>16, <3>3
    <3> QED  BY <1>20, <3>1, <3>2, <3>3 DEF exec_create
  <2> QED  BY <1>20, <2>1 DEF Answers
<1>21. Silent \/ read_service_list(r) \/ delete_rows(r) \/ delete_service(r)
       \/ (exec_create(r) /\ req'[r].pc = "done")
  BY <1>4, <1>7, <1>8, <1>9, <1>10, <1>11, <1>12, <1>13, <1>14, <1>15
     DEF Step, Deploy, Cleanup
<1> QED  BY <1>17, <1>18, <1>19, <1>20, <1>21 DEF Silent

\* Only a step of the request itself answers it.
LEMMA AnswerIsAStep ==
    ASSUME ReqOK, NEW r \in Requests, NEW a, a # "none", Answers(r, a), Next
    PROVE  Step(r)
<1>1. req'[r] # req[r]
  BY DEF Answers
<1>2. ASSUME NEW q \in Requests, NEW op, NEW p, Begin(q, op, p)
      PROVE  req'[r].result = req[r].result
  BY <1>2, BeginFields
<1>3. ASSUME NEW q \in Requests, Step(q)  PROVE q = r
  BY <1>1, <1>3, StepIsOwn
<1> QED  BY <1>1, <1>2, <1>3 DEF Next, Upload, Terminating, vars, Answers

(***************************************************************************)
(* The theorems                                                            *)
(***************************************************************************)
\* Every container runs where the database says, so that status, logs,
\* roll_back and destroy_project find it: for clients that take turns on a
\* project and deploy it when it has no service row.
THEOREM EveryContainerIsReachable ==
    ASSUME TakeTurns, DistinctServices
    PROVE  Spec => []Reachable
<1>1. TurnsInv => Reachable
  BY DEF TurnsInv
<1> QED  BY <1>1, TurnsInvHolds, PTL

\* Under the same use a project is struck off table project only when no machine
\* has a container of it left, however clean-ups fail on the way.
THEOREM ListedUntilGone ==
    ASSUME TakeTurns, DistinctServices
    PROVE  Spec => StaysListed
<1>1. ASSUME TurnsInv, Next, NEW p \in Projects, projectRows[p] > 0, projectRows'[p] = 0
      PROVE  OfProject(p)' = {}
  <2>1. projectRows \in [Projects -> Nat]
    BY <1>1 DEF TurnsInv, Inv, TypeInv, TypeOK
  <2>0. ~UNCHANGED projectRows
    BY <1>1, <2>1
  <2>2. PICK r \in Requests : Step(r)
    BY <1>1, <2>0 DEF Next, Upload, Begin, Terminating, vars
  <2>3. p = Project(r)
    BY <1>1, <2>2, StepSparesOthers DEF TurnsInv
  <2>4. delete_rows(r) \/ delete_project(r)
    <3>1. ~create_project(r)
      BY <1>1, <2>1, <2>3 DEF create_project
    <3> QED
      BY <2>0, <2>2, <3>1 DEF Step, Create, Deploy, Cleanup, project_exists,
         path_exists, mkdir, clone_from, get_argv, replace_argv, config_load,
         nap_from_dicts, convergence_plan, create_container, start_container,
         up_to_date, exec_create, read_service_list, locate, container_exists,
         stop_container, remove_container, delete_service, DeployError,
         CleanupError, Crash
  <2>5. req[r].pc \in Forgetting /\ UNCHANGED containers
    BY <2>4 DEF delete_rows, delete_project, Forgetting
  <2> QED  BY <1>1, <2>3, <2>5, TurnTypes DEF InTurn, RowsGoLast, OfProject
<1>2. TurnsInv /\ [Next]_vars =>
        [\A p \in Projects :
           projectRows[p] > 0 /\ projectRows'[p] = 0 => OfProject(p)' = {}]_vars
  BY <1>1
<1> QED  BY <1>2, TurnsInvHolds, PTL DEF StaysListed, Spec

LEMMA FailedIsGone ==
    ASSUME TurnsInv, Next, NEW r \in Requests, Answers(r, "failed")
    PROVE  Gone(Project(r))'
<1>1. PICK p \in Projects : p = Project(r)
  BY TurnTypes
<1>2. /\ ReqOK /\ DataOK /\ Step(r) /\ InTurn(r) /\ Project(r)' = p /\ InOrder(r)
  BY <1>1, TurnTypes, AnswerIsAStep, StepIsOwn, OwnInOrder DEF Project
<1>3. CASE delete_rows(r)
  <2>1. OfProject(p) = {} /\ UNCHANGED containers /\ rows'[p] = <<>>
    BY <1>1, <1>2, <1>3 DEF delete_rows, InTurn, RowsGoLast, Forgetting, DataOK
  <2> QED  BY <1>2, <2>1 DEF Gone, OfProject
<1>4. CASE read_service_list(r) /\ rows[p] = <<>>
  <2>1. UNCHANGED <<rows, containers>>
    BY <1>4 DEF read_service_list
  <2>2. \A c \in OfProject(p) : machine_ip(p, c.service) \in Hosts
    BY <1>1, <1>2 DEF InOrder, OfProject, DataOK, Container
  <2>3. OfProject(p) = {}
    BY <1>4, <2>2, MachineMeansRow DEF Has
  <2> QED  BY <1>2, <1>4, <2>1, <2>3 DEF Gone, OfProject
<1> QED  BY <1>1, <1>2, <1>3, <1>4, WhoAnswers

\* A create request that answers False has left no container and no service
\* row of its project behind.
THEOREM FailureLeavesNothing ==
    ASSUME TakeTurns, DistinctServices
    PROVE  Spec => FailureMeansGone
<1>1. TurnsInv /\ [Next]_vars =>
        [\A r \in Requests : Answers(r, "failed") => Gone(Project(r))']_vars
  BY FailedIsGone
<1> QED  BY <1>1, TurnsInvHolds, PTL DEF FailureMeansGone, Spec

LEMMA DestroyedIsGone ==
    ASSUME TurnsInv, Next, NEW r \in Requests, Answers(r, "ok"), req[r].op = "destroy"
    PROVE  Gone(Project(r))' /\ projectRows'[Project(r)] = 0
<1>1. PICK p \in Projects : p = Project(r)
  BY TurnTypes
<1>2. /\ ReqOK /\ DataOK /\ Step(r) /\ InTurn(r) /\ Project(r)' = p
  BY <1>1, TurnTypes, AnswerIsAStep, StepIsOwn DEF Project
<1>3. delete_service(r)
  <2>1. ~exec_create(r)
    BY <1>2 DEF InTurn, RightHandler, Deploying, exec_create
  <2> QED  BY <1>2, <2>1, WhoAnswers
<1>4. OfProject(p) = {} /\ projectRows[p] = 0
  BY <1>1, <1>2, <1>3 DEF delete_service, InTurn, RowsGoLast, Unlisted, Forgetting
<1>5. rows'[p] = <<>> /\ UNCHANGED <<projectRows, containers>>
  BY <1>1, <1>2, <1>3 DEF delete_service, DataOK
<1> QED  BY <1>1, <1>2, <1>4, <1>5 DEF Gone, OfProject

\* A destroy request that answers "success" has left no container and no row of
\* its project behind.
THEOREM DestroyLeavesNothing ==
    ASSUME TakeTurns, DistinctServices
    PROVE  Spec => DestroyMeansGone
<1>1. TurnsInv /\ [Next]_vars =>
        [\A r \in Requests :
           Answers(r, "ok") /\ req[r].op = "destroy" =>
             Gone(Project(r))' /\ projectRows'[Project(r)] = 0]_vars
  BY DestroyedIsGone
<1> QED  BY <1>1, TurnsInvHolds, PTL DEF DestroyMeansGone, Spec

(***************************************************************************)
(* What a successful answer says                                           *)
(***************************************************************************)
\* No two services have one container name, in one project or in two.
NamesTellServices ==
    \A p, q \in Projects : \A s, t \in Services :
        FullName[<<p, s>>] = FullName[<<q, t>>] => p = q /\ s = t

\* Every service that has been given its shell has a running container at the
\* host of its Service.
Shelled(r) ==
    req[r].pc = "exec" =>
        \A j \in 1 .. req[r].i - 1 : \E c \in OfProject(Project(r)) :
            /\ c.service = ServicesOf[Project(r)][j]
            /\ c.status = "running"
            /\ c.host = req[r].place[j]
ShellInv == TurnsInv /\ \A r \in Requests : Shelled(r)

\* A turn of the loop that gives shells finds the container of this service.
LEMMA ShellFindsService ==
    ASSUME TurnsInv, NamesTellServices, NEW r \in Requests, req[r].pc = "exec",
           NEW c \in Named(CurrentHost(r), CurrentName(r))
    PROVE  /\ c \in OfProject(Project(r)) /\ c.service = CurrentService(r)
           /\ c.host = CurrentHost(r)
<1>1. req[r].i \in 1 .. Len(ServicesOf[Project(r)]) /\ Project(r) \in Projects
  BY TurnTypes DEF LocalOK
<1>2. CurrentService(r) \in Services
  BY <1>1, InRange, TurnTypes
<1>3. c \in containers /\ c.name = CurrentName(r) /\ c.host = CurrentHost(r)
  BY DEF Named
<1>4. /\ c.project \in Projects /\ c.service \in Services
      /\ c.name = FullName[<<c.project, c.service>>]
  BY <1>3 DEF TurnsInv, Inv, TypeInv, TypeOK, NamesOK, Container
<1>5. FullName[<<c.project, c.service>>] = FullName[<<Project(r), CurrentService(r)>>]
  BY <1>3, <1>4 DEF CurrentName
<1> QED  BY <1>1, <1>2, <1>3, <1>4, <1>5 DEF NamesTellServices, OfProject

\* The loop that gives shells is entered at the first service.
LEMMA ShellsFromTheFirst ==
    ASSUME ReqOK, NEW r \in Requests, Step(r), req'[r].pc = "exec"
    PROVE  exec_create(r) \/ req'[r].i = 1
<1>1. ASSUME NEW pc, Goto(r, pc)  PROVE pc = "exec"
  BY <1>1, GotoFields
<1>2. ASSUME NEW a, Return(r, a)  PROVE FALSE
  BY <1>2, ReturnFields
<1>3. ~config_load(r)
  <2> SUFFICES ASSUME config_load(r)  PROVE FALSE
    OBVIOUS
  <2> QED  BY ConfigLoadFields
<1>4. ~NextName(r)
  <2> SUFFICES ASSUME NextName(r)  PROVE FALSE
    OBVIOUS
  <2> QED  BY NextNameFields DEF AfterCleanup
<1>5. NextService(r, "execute", "exec") => req'[r].i = 1
  <2> SUFFICES ASSUME NextService(r, "execute", "exec")  PROVE req'[r].i = 1
    OBVIOUS
  <2> QED  BY NextServiceFields DEF NextPosition
<1>6. ~nap_from_dicts(r) /\ ~convergence_plan(r)
  BY <1>2, PlaceFields, PlanFields DEF nap_from_dicts, convergence_plan
<1>7. ~locate(r)
  BY <1>4, LocateFields DEF locate
<1>8. ~read_service_list(r)
  BY <1>1, <1>2, ListFields DEF read_service_list
<1>9. ~Create(r)
  BY <1>1, <1>2 DEF Create, project_exists, path_exists, mkdir,
     clone_from, create_project, get_argv, replace_argv
<1>10. create_container(r) \/ start_container(r) \/ up_to_date(r) => req'[r].i = 1
  BY <1>1, <1>5 DEF create_container, start_container, up_to_date
<1>11. ~(container_exists(r) \/ stop_container(r) \/ remove_container(r))
  BY <1>1, <1>2, <1>4 DEF container_exists, stop_container, remove_container
<1>12. ~(delete_rows(r) \/ delete_project(r) \/ delete_service(r))
  BY <1>1, <1>2 DEF delete_rows, delete_project, delete_service
<1>13. ~(DeployError(r) \/ CleanupError(r) \/ Crash(r))
  <2>1. DeployError(r) \/ CleanupError(r) \/ Crash(r) =>
            Goto(r, "list") \/ Return(r, "crashed")
    BY DEF DeployError, CleanupError, Crash
  <2> QED  BY <1>1, <1>2, <2>1
<1> QED
  BY <1>3, <1>6, <1>7, <1>8, <1>9, <1>10, <1>11, <1>12, <1>13
     DEF Step, Deploy, Cleanup

LEMMA StepKeepsShelled ==
    ASSUME ShellInv, NamesTellServices, NEW r \in Requests, Step(r), NEW q \in Requests
    PROVE  Shelled(q)'
<1>1. TurnsInv /\ Inv /\ ReqOK /\ NamesTellProjects
  BY TurnTypes DEF ShellInv, NamesTellServices, NamesTellProjects
<1>2. PICK p \in Projects : p = Project(q)
  BY <1>1, TurnTypes
<1>3. Project(q)' = p
  BY <1>1, <1>2, StepIsOwn DEF Project
<1>4. CASE q # r
  <2> SUFFICES ASSUME req[q].pc = "exec"  PROVE Shelled(q)'
    BY <1>1, <1>4, StepIsOwn DEF Shelled
  <2>1. p # Project(r)
    BY <1>1, <1>2, <1>4, StepIsOwn DEF TurnsInv, OneAtATime, Active
  <2>2. View(p)' = View(p)
    BY <1>1, <2>1, StepIsLocal
  <2>3. OfProject(p)' = OfProject(p)
    BY <2>2 DEF View
  <2>4. req'[q] = req[q]
    BY <1>1, <1>4, StepIsOwn
  <2> QED  BY <1>2, <1>3, <2>3, <2>4 DEF ShellInv, Shelled
<1>5. CASE q = r /\ ~exec_create(r)
  <2> SUFFICES ASSUME req'[r].pc = "exec"  PROVE req'[r].i = 1
    BY <1>5 DEF Shelled
  <2> QED  BY <1>1, <1>5, ShellsFromTheFirst
<1>6. CASE q = r /\ exec_create(r)
  <2> SUFFICES ASSUME req'[r].pc = "exec"  PROVE Shelled(r)'
    BY <1>6 DEF Shelled
  <2>1. /\ req[r].pc = "exec" /\ UNCHANGED containers
    BY <1>6 DEF exec_create
  <2>2. /\ req[r].i \in Nat /\ req[r] \in Request
    BY <1>1, TurnTypes DEF Request
  <2>3. PICK c \in Named(CurrentHost(r), CurrentName(r)) : c.status = "running"
    <3>1. ~Goto(r, "list")
      BY <1>1, NotGone
    <3> QED  BY <1>6, <3>1 DEF exec_create
  <2>4. req'[r].i = req[r].i + 1 /\ req'[r].place = req[r].place
    <3>1. ~Return(r, "ok")
      BY <1>1, ReturnFields
    <3>2. ~LastService(r) /\ NextService(r, "exec", "exec")
      BY <1>6, <2>3, <3>1 DEF exec_create
    <3> QED  BY <1>1, <3>2, ExecFields
  <2>5. /\ c \in OfProject(p) /\ c.service = ServicesOf[p][req[r].i]
        /\ c.host = req[r].place[req[r].i]
    BY <1>1, <1>2, <1>6, <2>1, <2>3, ShellFindsService DEF CurrentService, CurrentHost
  <2>6. \A j \in 1 .. req[r].i - 1 : \E d \in OfProject(p) :
            d.service = ServicesOf[p][j] /\ d.status = "running" /\ d.host = req[r].place[j]
    BY <1>2, <1>6, <2>1 DEF ShellInv, Shelled
  <2>7. \A j \in 1 .. req[r].i : \E d \in OfProject(p) :
            d.service = ServicesOf[p][j] /\ d.status = "running" /\ d.host = req[r].place[j]
    <3> TAKE j \in 1 .. req[r].i
    <3>1. CASE j = req[r].i
      BY <2>3, <2>5, <3>1
    <3>2. CASE j # req[r].i
      BY <2>2, <2>6, <3>2
    <3> QED  BY <3>1, <3>2
  <2>8. req'[r].i - 1 = req[r].i
    BY <2>2, <2>4
  <2> QED  BY <1>3, <1>6, <2>1, <2>4, <2>7, <2>8 DEF Shelled, OfProject
<1> QED  BY <1>4, <1>5, <1>6

LEMMA ShellInvHolds ==
    ASSUME TakeTurns, DistinctServices, NamesTellServices
    PROVE  Spec => []ShellInv
<1>1. Init => \A r \in Requests : Shelled(r)
  BY DEF Init, Idle, Shelled
<1>2. ShellInv /\ TurnsInv /\ [Next]_vars => \A r \in Requests : Shelled(r)'
  <2> SUFFICES ASSUME ShellInv, TurnsInv, [Next]_vars, NEW r \in Requests
               PROVE  Shelled(r)'
    OBVIOUS
  <2>1. CASE UNCHANGED <<containers, req>>
    BY <2>1 DEF ShellInv, Shelled, OfProject, Project
  <2>2. ASSUME NEW q \in Requests, Step(q)  PROVE Shelled(r)'
    BY <2>2, StepKeepsShelled
  <2>3. ASSUME NEW q \in Requests, NEW op \in Operations, NEW p \in Projects,
               Begin(q, op, p)
        PROVE  Shelled(r)'
    <3>1. CASE q = r
      <4>1. req'[r].pc \in {"exists", "argv", "replace", "list"}
        <5>1. req'[r].pc = FirstStep[op]
          BY <2>3, <3>1, TurnTypes, BeginFields
        <5> QED  BY <5>1 DEF FirstStep, Operations
      <4> QED  BY <4>1 DEF Shelled
    <3>2. CASE q # r
      <4>1. req'[r] = req[r] /\ UNCHANGED containers
        BY <2>3, <3>2, TurnTypes, BeginFields DEF Begin
      <4> QED  BY <4>1 DEF ShellInv, Shelled, OfProject, Project
    <3> QED  BY <3>1, <3>2
  <2> QED  BY <2>1, <2>2, <2>3 DEF Next, Upload, Terminating, vars
<1>3. TurnsInv /\ (\A r \in Requests : Shelled(r)) => ShellInv
  BY DEF ShellInv
<1>4. ShellInv /\ [Next]_vars => ShellInv'
  BY <1>2, NextKeepsTurns DEF ShellInv
<1> QED  BY <1>1, <1>3, <1>4, TurnsInvHolds, PTL DEF Spec

LEMMA SucceededIsUp ==
    ASSUME NamesTellServices, ShellInv, Next, NEW r \in Requests, Answers(r, "ok"),
           req[r].op # "destroy"
    PROVE  Up(Project(r))'
<1>1. TurnsInv
  BY DEF ShellInv
<1>2. PICK p \in Projects : p = Project(r)
  BY <1>1, TurnTypes
<1>3. /\ ReqOK /\ Step(r) /\ InTurn(r) /\ Project(r)' = p
      /\ req[r] \in Request /\ LocalOK(req[r])
  BY <1>1, <1>2, TurnTypes, AnswerIsAStep, StepIsOwn DEF Project
<1>4. exec_create(r) /\ req'[r].pc = "done"
  <2>1. ~delete_service(r)
    BY <1>3 DEF InTurn, RightHandler, delete_service
  <2> QED  BY <1>3, <2>1, WhoAnswers
<1>5. req[r].pc = "exec" /\ UNCHANGED <<rows, containers>>
  BY <1>4 DEF exec_create
<1>6. ~Goto(r, "list")
  BY <1>3, <1>4, NotGone
<1>7. PICK c \in Named(CurrentHost(r), CurrentName(r)) : c.status = "running"
  BY <1>4, <1>6 DEF exec_create
<1>8. LastService(r)
  <2> SUFFICES ASSUME ~LastService(r)  PROVE FALSE
    OBVIOUS
  <2>1. NextService(r, "exec", "exec")
    BY <1>4, <1>7 DEF exec_create
  <2> QED  BY <1>3, <1>4, <2>1, ExecFields
<1>9. DOMAIN ServicesOf[p] = 1 .. req[r].i /\ DOMAIN req[r].place = 1 .. req[r].i
  <2>1. /\ Len(req[r].place) = Len(ServicesOf[p]) /\ req[r].place \in Seq(Hosts)
        /\ req[r].i = Len(ServicesOf[p]) /\ ServicesOf[p] \in Seq(Services)
    BY <1>2, <1>3, <1>5, <1>8, ServicesAssumption DEF LocalOK, LastService, Request,
       Project
  <2> QED  BY <2>1
<1>10. ASSUME NEW j \in DOMAIN ServicesOf[p]
       PROVE  \E d \in OfProject(p) : /\ d.service = ServicesOf[p][j]
                                      /\ d.status = "running"
                                      /\ d.host = machine_ip(p, d.service)
  <2>1. machine_ip(p, ServicesOf[p][j]) = req[r].place[j]
    BY <1>2, <1>3, <1>5, <1>9 DEF InTurn, HostsKnown, Deploying
  <2>2. CASE j = req[r].i
    <3>1. /\ c \in OfProject(p) /\ c.service = ServicesOf[p][j]
          /\ c.host = req[r].place[j]
      BY <1>1, <1>2, <1>5, <1>7, <2>2, ShellFindsService DEF CurrentService, CurrentHost
    <3> QED  BY <1>7, <2>1, <3>1
  <2>3. CASE j # req[r].i
    <3>1. j \in 1 .. req[r].i - 1
      BY <1>3, <1>9, <2>3 DEF Request
    <3>2. PICK d \in OfProject(p) : /\ d.service = ServicesOf[p][j]
                                    /\ d.status = "running"
                                    /\ d.host = req[r].place[j]
      BY <1>2, <1>5, <3>1 DEF ShellInv, Shelled
    <3> QED  BY <2>1, <3>2
  <2> QED  BY <2>2, <2>3
<1>11. \A s : machine_ip(p, s)' = machine_ip(p, s)
  BY <1>5, MachineKept
<1>12. Up(p)'
  <2> SUFFICES ASSUME NEW j \in DOMAIN ServicesOf[p]
               PROVE  \E d \in OfProject(p)' : /\ d.service = ServicesOf[p][j]
                                              /\ d.status = "running"
                                              /\ d.host = machine_ip(p, d.service)'
    BY DEF Up
  <2>1. PICK d \in OfProject(p) : /\ d.service = ServicesOf[p][j]
                                  /\ d.status = "running"
                                  /\ d.host = machine_ip(p, d.service)
    BY <1>10
  <2>2. d \in OfProject(p)' /\ machine_ip(p, d.service)' = machine_ip(p, d.service)
    BY <1>5, <1>11 DEF OfProject
  <2> QED  BY <2>1, <2>2
<1> QED  BY <1>3, <1>12

\* A create request that answers "project create successfully" leaves every
\* service running on the machine the database names, if no two services share
\* a container name.
THEOREM SuccessLeavesAllRunning ==
    ASSUME TakeTurns, DistinctServices, NamesTellServices
    PROVE  Spec => SuccessMeansUp
<1>1. ShellInv /\ [Next]_vars =>
        [\A r \in Requests :
           Answers(r, "ok") /\ req[r].op # "destroy" => Up(Project(r))']_vars
  BY SucceededIsUp
<1> QED  BY <1>1, ShellInvHolds, PTL DEF SuccessMeansUp, Spec

(***************************************************************************)
(* The life cycle that clients see                                         *)
(***************************************************************************)
\* Who has not ended has not been answered.
NotYetAnswered == \A r \in Requests : req[r].pc # "done" => req[r].result = "none"

GoesOn(r) == req'[r].pc # "done" /\ req'[r].result = req[r].result
EndsWith(r, A) == req'[r].pc = "done" /\ req'[r].result \in A

\* A request that is not at work on its project touches neither rows nor
\* containers, and is refused or dies if it ends; one that is at work stays so
\* until it is answered.
LEMMA HowItMoves ==
    ASSUME ReqOK, NEW r \in Requests, Step(r)
    PROVE  \/ /\ Working(r)
              /\ \/ GoesOn(r) /\ Working(r)'
                 \/ EndsWith(r, {"ok", "failed", "crashed"})
           \/ /\ ~Working(r) /\ UNCHANGED <<rows, containers>>
              /\ GoesOn(r) \/ EndsWith(r, {"refused", "argv", "crashed"})
<1> DEFINE Stays == GoesOn(r) /\ Working(r)'
           Ends == EndsWith(r, {"ok", "failed", "crashed"})
           WorkPCs == {"load", "place", "plan", "execute", "launch", "exec",
                       "list", "locate", "look", "stop", "remove", "rb_delete",
                       "del_project", "del_service"}
<1>1. ASSUME req'[r].pc \in WorkPCs, req'[r].result = req[r].result  PROVE Stays
  BY <1>1 DEF GoesOn, Working
<1>2. ASSUME NEW pc \in WorkPCs, Goto(r, pc)  PROVE Stays
  BY <1>1, <1>2, GotoFields
<1>3. ASSUME NEW a \in {"ok", "failed", "crashed"}, Return(r, a)  PROVE Ends
  BY <1>3, ReturnFields DEF EndsWith
<1>4. config_load(r) => Stays
  BY <1>1, ConfigLoadFields
<1>5. NextService(r, "execute", "exec") => Stays
  BY <1>1, NextServiceFields
<1>6. NextName(r) => Stays
  BY <1>1, NextNameFields DEF AfterCleanup
<1>7. ASSUME NEW index \in Hosts,
             req' = [req EXCEPT ![r] =
                      [@ EXCEPT !.pc = IF LastService(r) THEN "plan" ELSE "place",
                                !.i = IF LastService(r) THEN 1 ELSE req[r].i + 1,
                                !.place = Append(req[r].place, index)]]
      PROVE  Stays
  BY <1>1, <1>7, PlaceFields
<1>8. ASSUME NEW step,
             req' = [req EXCEPT ![r] =
                      [@ EXCEPT !.pc = IF LastService(r) THEN "execute" ELSE "plan",
                                !.i = IF LastService(r) THEN 1 ELSE req[r].i + 1,
                                !.plan = Append(req[r].plan, step)]]
      PROVE  Stays
  BY <1>1, <1>8, PlanFields
<1>9. ASSUME ~LastService(r), NextService(r, "exec", "exec")  PROVE Stays
  BY <1>1, <1>9, ExecFields
<1>10. ASSUME NEW todo,
              req' = [req EXCEPT ![r] = [@ EXCEPT !.pc = "locate", !.todo = todo]]
       PROVE  Stays
  BY <1>1, <1>10, ListFields
<1>11. ASSUME NEW h, req' = [req EXCEPT ![r] = [@ EXCEPT !.pc = "look", !.at = h]]
       PROVE  Stays
  BY <1>1, <1>11, LocateFields
<1>12. ASSUME Create(r)
       PROVE  /\ ~Working(r) /\ UNCHANGED <<rows, containers>>
              /\ GoesOn(r) \/ EndsWith(r, {"refused", "argv", "crashed"})
  <2>1. ~Working(r) /\ UNCHANGED <<rows, containers>>
    BY <1>12 DEF Create, project_exists, path_exists, mkdir, clone_from, create_project,
       get_argv, replace_argv, Working
  <2>2. \/ \E pc \in {"path", "insert", "mkdir", "clone", "argv", "load"} : Goto(r, pc)
        \/ \E a \in {"refused", "argv", "crashed"} : Return(r, a)
    BY <1>12 DEF Create, project_exists, path_exists, mkdir, clone_from, create_project,
       get_argv, replace_argv
  <2> QED  BY <2>1, <2>2, GotoFields, ReturnFields DEF GoesOn, EndsWith
<1> HIDE DEF Stays, Ends
<1>13. ASSUME Deploy(r)  PROVE Working(r) /\ (Stays \/ Ends)
  <2>1. Working(r)
    BY <1>13 DEF Deploy, config_load, nap_from_dicts, convergence_plan, create_container,
       start_container, up_to_date, exec_create, Working
  <2>2. CASE nap_from_dicts(r)
    BY <1>3, <1>7, <2>1, <2>2 DEF nap_from_dicts
  <2>3. CASE convergence_plan(r)
    BY <1>3, <1>8, <2>1, <2>3 DEF convergence_plan
  <2>4. CASE create_container(r) \/ start_container(r) \/ up_to_date(r)
    BY <1>2, <1>5, <2>1, <2>4 DEF create_container, start_container, up_to_date
  <2>5. CASE exec_create(r)
    BY <1>2, <1>3, <1>9, <2>1, <2>5 DEF exec_create
  <2> QED  BY <1>4, <1>13, <2>1, <2>2, <2>3, <2>4, <2>5 DEF Deploy
<1>14. ASSUME Cleanup(r)  PROVE Working(r) /\ (Stays \/ Ends)
  <2>1. Working(r)
    BY <1>14 DEF Cleanup, read_service_list, locate, container_exists, stop_container,
       remove_container, delete_rows, delete_project, delete_service, Working
  <2>2. CASE read_service_list(r)
    BY <1>2, <1>3, <1>10, <2>1, <2>2 DEF read_service_list
  <2>3. CASE locate(r)
    BY <1>6, <1>11, <2>1, <2>3 DEF locate
  <2>4. CASE container_exists(r) \/ stop_container(r) \/ remove_container(r)
    BY <1>2, <1>3, <1>6, <2>1, <2>4 DEF container_exists, stop_container, remove_container
  <2>5. CASE delete_rows(r) \/ delete_project(r) \/ delete_service(r)
    BY <1>2, <1>3, <2>1, <2>5 DEF delete_rows, delete_project, delete_service
  <2> QED  BY <1>14, <2>1, <2>2, <2>3, <2>4, <2>5 DEF Cleanup
<1>15. ASSUME DeployError(r) \/ CleanupError(r)  PROVE Working(r) /\ (Stays \/ Ends)
  BY <1>2, <1>3, <1>15 DEF DeployError, CleanupError, Working
<1>16. ASSUME Crash(r)
       PROVE  UNCHANGED <<rows, containers>> /\ EndsWith(r, {"crashed"})
  BY <1>16, ReturnFields DEF Crash, EndsWith
<1> QED  BY <1>12, <1>13, <1>14, <1>15, <1>16 DEF Step, Stays, Ends, EndsWith

\* The state of a project is that of its rows and its containers.
LEMMA SameState ==
    ASSUME NEW p, rows'[p] = rows[p], OfProject(p)' = OfProject(p),
           (\E q \in Requests : Working(q) /\ Project(q) = p)'
              <=> \E q \in Requests : Working(q) /\ Project(q) = p
    PROVE  StateOf(p)' = StateOf(p)
<1>1. Gone(p)' <=> Gone(p)
  BY DEF Gone
<1>2. \A s : machine_ip(p, s)' = machine_ip(p, s)
  BY DEF machine_ip, Has
<1>3. Up(p)' <=> Up(p)
  BY <1>2 DEF Up
<1> QED  BY <1>1, <1>3 DEF StateOf

LEMMA TellServices ==
    ASSUME NamesTellServices  PROVE NamesTellProjects
BY DEF NamesTellServices, NamesTellProjects

\* A step of a request does not change the state of other projects.
LEMMA StepKeepsStates ==
    ASSUME TurnsInv, NamesTellServices, NEW r \in Requests, Step(r),
           NEW p \in Projects, p # Project(r)
    PROVE  StateOf(p)' = StateOf(p)
<1>1. ReqOK /\ Inv /\ Project(r) = req[r].project
  BY TurnTypes
<1>2. View(p)' = View(p)
  BY <1>1, StepIsLocal, TellServices
<1>3. /\ req'[r].project = req[r].project
      /\ \A q \in Requests \ {r} : req'[q] = req[q]
  BY <1>1, StepIsOwn
<1>4. \A q \in Requests : (Working(q) /\ Project(q) = p)' <=> (Working(q) /\ Project(q) = p)
  BY <1>3 DEF Working, Project
<1> QED  BY <1>2, <1>4, SameState DEF View

\* Who is at work on a project is alone there.
\* Clients take turns: who is at work on a project is alone there.
LEMMA NobodyElse ==
    ASSUME TurnsInv, NEW r \in Requests, Active(r), NEW q \in Requests, Working(q),
           Project(q) = Project(r)
    PROVE  q = r
BY DEF TurnsInv, OneAtATime, Working, Active

\* No answer changes while the request goes on.
LEMMA AnswersStay ==
    ASSUME ReqOK, NEW r \in Requests, Step(r), GoesOn(r)
    PROVE  \A q \in Requests : AnswerOf(q)' = AnswerOf(q)
<1>1. req'[r].op = req[r].op /\ \A q \in Requests \ {r} : req'[q] = req[q]
  BY StepIsOwn
<1> QED  BY <1>1 DEF AnswerOf, GoesOn

LEMMA NobodyAtWork ==
    ASSUME NEW p, ~ \E q \in Requests : Working(q) /\ Project(q) = p
    PROVE  /\ StateOf(p) \in Lifecycle!Settled
           /\ Gone(p) => StateOf(p) = "absent"
           /\ Up(p) /\ ~Gone(p) => StateOf(p) = "up"
BY DEF StateOf, Lifecycle!Settled

\* The actions of ProjectLifecycle, project by project.
LEMMA TakeIs ==
    ASSUME NEW p \in Projects, StateOf(p) \in Lifecycle!Settled, StateOf(p)' = "changing",
           \A q \in Projects : q # p => StateOf(q)' = StateOf(q),
           \A q \in Requests : AnswerOf(q)' = AnswerOf(q)
    PROVE  Lifecycle!Next
<1>1. Lifecycle!Take(p)
  BY DEF Lifecycle!Take
<1> QED  BY <1>1 DEF Lifecycle!Next

LEMMA FinishIs ==
    ASSUME NEW r \in Requests, NEW p \in Projects, AnswerOf(r) = "none",
           StateOf(p) = "changing", AnswerOf(r)' \in DOMAIN Lifecycle!Outcome,
           StateOf(p)' \in Lifecycle!Outcome[AnswerOf(r)'],
           \A q \in Projects : q # p => StateOf(q)' = StateOf(q),
           \A q \in Requests : q # r => AnswerOf(q)' = AnswerOf(q)
    PROVE  Lifecycle!Next
<1>1. PICK a \in DOMAIN Lifecycle!Outcome : a = AnswerOf(r)'
  OBVIOUS
<1>2. PICK s \in Lifecycle!Outcome[a] : s = StateOf(p)'
  BY <1>1
<1>3. /\ [q \in Requests |-> AnswerOf(q)]' = [[q \in Requests |-> AnswerOf(q)] EXCEPT ![r] = a]
      /\ [q \in Projects |-> StateOf(q)]' = [[q \in Projects |-> StateOf(q)] EXCEPT ![p] = s]
  BY <1>1, <1>2
<1>4. Lifecycle!Finish(r, p)
  BY <1>1, <1>2, <1>3 DEF Lifecycle!Finish
<1> QED  BY <1>4 DEF Lifecycle!Next

LEMMA DeclineIs ==
    ASSUME NEW r \in Requests, AnswerOf(r) = "none",
           AnswerOf(r)' \in {"refused", "argv", "crashed"},
           \A p \in Projects : StateOf(p)' = StateOf(p),
           \A q \in Requests : q # r => AnswerOf(q)' = AnswerOf(q)
    PROVE  Lifecycle!Next
<1>1. PICK a \in {"refused", "argv", "crashed"} : a = AnswerOf(r)'
  OBVIOUS
<1>2. /\ [q \in Requests |-> AnswerOf(q)]' = [[q \in Requests |-> AnswerOf(q)] EXCEPT ![r] = a]
      /\ [q \in Projects |-> StateOf(q)]' = [q \in Projects |-> StateOf(q)]
  BY <1>1
<1>3. Lifecycle!Decline(r)
  BY <1>1, <1>2 DEF Lifecycle!Decline
<1> QED  BY <1>3 DEF Lifecycle!Next

\* A step of ProjectLifecycle or a stutter.
LifeStep ==
    [Lifecycle!Next]_<<[p \in Projects |-> StateOf(p)], [r \in Requests |-> AnswerOf(r)]>>

LEMMA StutterIs ==
    ASSUME \A p \in Projects : StateOf(p)' = StateOf(p),
           \A r \in Requests : AnswerOf(r)' = AnswerOf(r)
    PROVE  LifeStep
<1>1. [p \in Projects |-> StateOf(p)]' = [p \in Projects |-> StateOf(p)]
  OBVIOUS
<1>2. [r \in Requests |-> AnswerOf(r)]' = [r \in Requests |-> AnswerOf(r)]
  OBVIOUS
<1> QED  BY <1>1, <1>2 DEF LifeStep

\* A request goes to work, or is declined, or goes on with its checks.
LEMMA OutsideStep ==
    ASSUME TurnsInv, NamesTellServices, NotYetAnswered, NEW r \in Requests, Step(r),
           ~Working(r), UNCHANGED <<rows, containers>>,
           GoesOn(r) \/ EndsWith(r, {"refused", "argv", "crashed"})
    PROVE  LifeStep
<1>1. ReqOK /\ Project(r) \in Projects /\ Project(r) = req[r].project
  BY TurnTypes
<1>2. PICK p \in Projects : p = Project(r)
  BY <1>1
<1>3. /\ Active(r) /\ req'[r].project = req[r].project /\ req'[r].op = req[r].op
      /\ \A q \in Requests \ {r} : req'[q] = req[q]
  BY <1>1, StepIsOwn
<1>4. \A q \in Projects : q # p => StateOf(q)' = StateOf(q)
  BY <1>2, StepKeepsStates
<1>5. ~ \E q \in Requests : Working(q) /\ Project(q) = p
  BY <1>2, <1>3, NobodyElse
<1>6. \A q \in Requests : q # r => ~(Working(q) /\ Project(q) = p)'
  BY <1>3, <1>5 DEF Working, Project
<1>7. CASE Working(r)'
  <2>1. GoesOn(r)
    BY <1>7 DEF EndsWith, Working
  <2>2. \A q \in Requests : AnswerOf(q)' = AnswerOf(q)
    BY <1>1, <2>1, AnswersStay
  <2>3. Project(r)' = p
    BY <1>1, <1>2, <1>3 DEF Project
  <2>4. StateOf(p)' = "changing"
    BY <1>7, <2>3 DEF StateOf
  <2>5. Lifecycle!Next
    BY <1>4, <1>5, <2>2, <2>4, TakeIs, NobodyAtWork
  <2> QED  BY <2>5 DEF LifeStep
<1>8. CASE ~Working(r)'
  <2>1. ~ (\E q \in Requests : Working(q) /\ Project(q) = p)'
    BY <1>6, <1>8
  <2>2. StateOf(p)' = StateOf(p)
    BY <1>5, <2>1, SameState DEF OfProject
  <2>3. \A q \in Projects : StateOf(q)' = StateOf(q)
    BY <1>4, <2>2
  <2>4. CASE GoesOn(r)
    BY <1>1, <2>3, <2>4, AnswersStay, StutterIs
  <2>5. CASE EndsWith(r, {"refused", "argv", "crashed"})
    <3>1. AnswerOf(r) = "none"
      BY <1>3 DEF NotYetAnswered, Active, AnswerOf
    <3>2. AnswerOf(r)' \in {"refused", "argv", "crashed"}
      BY <2>5 DEF EndsWith, AnswerOf
    <3>3. \A q \in Requests : q # r => AnswerOf(q)' = AnswerOf(q)
      BY <1>3 DEF AnswerOf
    <3>4. Lifecycle!Next
      BY <2>3, <3>1, <3>2, <3>3, DeclineIs
    <3> QED  BY <3>4 DEF LifeStep
  <2> QED  BY <2>4, <2>5
<1> QED  BY <1>7, <1>8

\* A request at work goes on, or its answer tells what became of its project.
LEMMA InsideStep ==
    ASSUME ShellInv, NamesTellServices, NotYetAnswered, Next, NEW r \in Requests, Step(r),
           Working(r),
           (GoesOn(r) /\ Working(r)') \/ EndsWith(r, {"ok", "failed", "crashed"})
    PROVE  LifeStep
<1>0. TurnsInv
  BY DEF ShellInv
<1>1. /\ ReqOK /\ Project(r) \in Projects /\ Project(r) = req[r].project
      /\ LocalOK(req[r])
  BY <1>0, TurnTypes
<1>2. PICK p \in Projects : p = Project(r)
  BY <1>1
<1>3. /\ Active(r) /\ req'[r].project = req[r].project /\ req'[r].op = req[r].op
      /\ \A q \in Requests \ {r} : req'[q] = req[q]
  BY <1>1, StepIsOwn
<1>4. \A q \in Projects : q # p => StateOf(q)' = StateOf(q)
  BY <1>0, <1>2, StepKeepsStates
<1>5. StateOf(p) = "changing" /\ Project(r)' = p
  BY <1>1, <1>2, <1>3 DEF StateOf, Project
<1>6. CASE GoesOn(r) /\ Working(r)'
  <2>1. StateOf(p)' = "changing"
    BY <1>5, <1>6 DEF StateOf
  <2> QED  BY <1>1, <1>4, <1>5, <1>6, <2>1, AnswersStay, StutterIs
<1>7. CASE EndsWith(r, {"ok", "failed", "crashed"})
  <2>1. ~ (\E q \in Requests : Working(q) /\ Project(q) = p)'
    <3>1. ~Working(r)'
      BY <1>7 DEF EndsWith, Working
    <3>2. \A q \in Requests : q # r => ~(Working(q) /\ Project(q) = p)
      BY <1>0, <1>2, <1>3, NobodyElse
    <3> QED  BY <1>3, <3>1, <3>2 DEF Working, Project
  <2>2. /\ StateOf(p)' \in Lifecycle!Settled
        /\ Gone(p)' => StateOf(p)' = "absent"
        /\ Up(p)' /\ ~Gone(p)' => StateOf(p)' = "up"
    BY <2>1 DEF StateOf, Lifecycle!Settled
  <2>3. AnswerOf(r) = "none" /\ req[r].result = "none"
    BY <1>3 DEF NotYetAnswered, Active, AnswerOf
  <2>4. \A q \in Requests : q # r => AnswerOf(q)' = AnswerOf(q)
    BY <1>3 DEF AnswerOf
  <2>5. /\ AnswerOf(r)' \in DOMAIN Lifecycle!Outcome
        /\ StateOf(p)' \in Lifecycle!Outcome[AnswerOf(r)']
    <3>1. CASE req'[r].result = "crashed"
      BY <2>2, <3>1 DEF AnswerOf, Lifecycle!Outcome
    <3>2. CASE req'[r].result = "failed"
      <4>1. Gone(p)'
        BY <1>0, <1>2, <1>5, <2>3, <3>2, FailedIsGone DEF Answers
      <4> QED  BY <2>2, <3>2, <4>1 DEF AnswerOf, Lifecycle!Outcome
    <3>3. CASE req'[r].result = "ok" /\ req[r].op = "destroy"
      <4>1. Gone(p)'
        BY <1>0, <1>2, <1>5, <2>3, <3>3, DestroyedIsGone DEF Answers
      <4> QED  BY <1>3, <2>2, <3>3, <4>1 DEF AnswerOf, Lifecycle!Outcome
    <3>4. CASE req'[r].result = "ok" /\ req[r].op # "destroy"
      <4>1. Up(p)'
        BY <1>2, <1>5, <2>3, <3>4, SucceededIsUp DEF Answers
      <4>2. DOMAIN ServicesOf[p] # {}
        <5>1. ~delete_service(r)
          BY <1>0, <3>4, TurnTypes DEF InTurn, RightHandler, delete_service
        <5>2. exec_create(r)
          BY <1>1, <2>3, <3>4, <5>1, WhoAnswers DEF Answers
        <5>3. req[r].i \in 1 .. Len(ServicesOf[p])
          BY <1>1, <1>2, <5>2 DEF exec_create, LocalOK
        <5>4. ServicesOf[p] \in Seq(Services)
          BY ServicesAssumption
        <5>5. Len(ServicesOf[p]) \in Nat /\ DOMAIN ServicesOf[p] = 1 .. Len(ServicesOf[p])
          BY <5>4
        <5> QED  BY <5>3, <5>5
      <4>3. OfProject(p)' # {}
        BY <4>1, <4>2 DEF Up
      <4>4. StateOf(p)' = "up"
        BY <2>2, <4>1, <4>3 DEF Gone
      <4> QED  BY <1>3, <3>4, <4>4 DEF AnswerOf, Lifecycle!Outcome
    <3> QED  BY <1>7, <3>1, <3>2, <3>3, <3>4 DEF EndsWith
  <2>6. Lifecycle!Next
    BY <1>4, <1>5, <2>3, <2>4, <2>5, FinishIs
  <2> QED  BY <2>6 DEF LifeStep
<1> QED  BY <1>6, <1>7

\* A request begins: a destroy request goes to work at once.
LEMMA BeginStep ==
    ASSUME TurnsInv, TakeTurns, NotYetAnswered, NEW r \in Requests, NEW op \in Operations,
           NEW p \in Projects, Begin(r, op, p)
    PROVE  LifeStep
<1>1. ReqOK
  BY TurnTypes
<1>2. /\ req'[r].pc = FirstStep[op] /\ req'[r].op = op /\ req'[r].project = p
      /\ req'[r].result = req[r].result
      /\ \A q \in Requests \ {r} : req'[q] = req[q]
  BY <1>1, BeginFields
<1>3. /\ UNCHANGED <<rows, containers>> /\ req[r].pc = "idle"
      /\ \A q \in Requests : Active(q) => Project(q) # p
  BY DEF Begin, Admissible, TakeTurns
<1>4. ~ \E q \in Requests : Working(q) /\ Project(q) = p
  BY <1>3 DEF Working, Active
<1>5. \A q \in Projects : OfProject(q)' = OfProject(q) /\ rows'[q] = rows[q]
  BY <1>3 DEF OfProject
<1>6. \A s \in Projects : s # p => StateOf(s)' = StateOf(s)
  <2> SUFFICES ASSUME NEW s \in Projects, s # p  PROVE StateOf(s)' = StateOf(s)
    OBVIOUS
  <2>1. \A q \in Requests : (Working(q) /\ Project(q) = s)' <=> (Working(q) /\ Project(q) = s)
    BY <1>2, <1>3 DEF Working, Project
  <2> QED  BY <1>5, <2>1, SameState
<1>7. \A q \in Requests : AnswerOf(q)' = AnswerOf(q)
  BY <1>2, <1>3 DEF AnswerOf, NotYetAnswered
<1>8. CASE Working(r)'
  <2>1. StateOf(p)' = "changing"
    BY <1>2, <1>8 DEF StateOf, Project
  <2>2. Lifecycle!Next
    BY <1>4, <1>6, <1>7, <2>1, TakeIs, NobodyAtWork
  <2> QED  BY <2>2 DEF LifeStep
<1>9. CASE ~Working(r)'
  <2>1. ~ (\E q \in Requests : Working(q) /\ Project(q) = p)'
    BY <1>2, <1>4, <1>9 DEF Working, Project
  <2>2. StateOf(p)' = StateOf(p)
    BY <1>4, <1>5, <2>1, SameState
  <2> QED  BY <1>6, <1>7, <2>2, StutterIs
<1> QED  BY <1>8, <1>9

\* Every step of a run implements a step of ProjectLifecycle.
LEMMA LifeNext ==
    ASSUME TakeTurns, NamesTellServices, ShellInv, NotYetAnswered, [Next]_vars
    PROVE  LifeStep /\ NotYetAnswered'
<1>1. TurnsInv /\ \A r \in Requests : ReqOK
  BY TurnTypes DEF ShellInv
<1>2. CASE UNCHANGED <<rows, containers, req>>
  <2>1. /\ \A p \in Projects : StateOf(p)' = StateOf(p)
        /\ \A r \in Requests : AnswerOf(r)' = AnswerOf(r)
    <3>1. \A r \in Requests : (Working(r)' <=> Working(r)) /\ Project(r)' = Project(r)
      BY <1>2 DEF Working, Project
    <3>2. ASSUME NEW p \in Projects PROVE StateOf(p)' = StateOf(p)
      BY <1>2, <3>1, SameState DEF OfProject
    <3> QED  BY <1>2, <3>2 DEF AnswerOf
  <2> QED  BY <1>2, <2>1, StutterIs DEF NotYetAnswered
<1>3. ASSUME Next, NEW r \in Requests, Step(r)  PROVE LifeStep /\ NotYetAnswered'
  <2>1. \/ /\ Working(r)
           /\ \/ GoesOn(r) /\ Working(r)'
              \/ EndsWith(r, {"ok", "failed", "crashed"})
        \/ /\ ~Working(r) /\ UNCHANGED <<rows, containers>>
           /\ GoesOn(r) \/ EndsWith(r, {"refused", "argv", "crashed"})
    BY <1>1, <1>3, HowItMoves
  <2>2. LifeStep
    BY <1>1, <1>3, <2>1, OutsideStep, InsideStep
  <2>3. NotYetAnswered'
    <3>1. Active(r) /\ \A q \in Requests \ {r} : req'[q] = req[q]
      BY <1>1, <1>3, StepIsOwn
    <3> QED  BY <2>1, <3>1 DEF NotYetAnswered, GoesOn, EndsWith, Active
  <2> QED  BY <2>2, <2>3
<1>4. ASSUME NEW r \in Requests, NEW op \in Operations, NEW p \in Projects, Begin(r, op, p)
      PROVE  LifeStep /\ NotYetAnswered'
  <2>1. NotYetAnswered'
    <3>1. /\ req'[r].result = req[r].result /\ req[r].pc = "idle"
          /\ \A q \in Requests \ {r} : req'[q] = req[q]
      BY <1>1, <1>4, BeginFields DEF Begin
    <3> QED  BY <3>1 DEF NotYetAnswered
  <2> QED  BY <1>1, <1>4, <2>1, BeginStep
<1> QED  BY <1>2, <1>3, <1>4 DEF Next, Upload, Terminating, vars

\* The requests of clients that take turns implement ProjectLifecycle: a project
\* changes only while a request is at work on it, and what the client is told
\* is what has become of the project.
THEOREM Implements ==
    ASSUME TakeTurns, DistinctServices, NamesTellServices
    PROVE  Spec => ImplementsLifecycle
<1>1. Init => Lifecycle!Init /\ NotYetAnswered
  <2> SUFFICES ASSUME Init PROVE Lifecycle!Init /\ NotYetAnswered
    OBVIOUS
  <2>1. \A r \in Requests : req[r].pc = "idle" /\ req[r].result = "none"
    BY DEF Init, Idle
  <2>2. \A p \in Projects : StateOf(p) = "absent"
    BY <2>1 DEF Init, StateOf, Working, Gone, OfProject
  <2>3. \A r \in Requests : AnswerOf(r) = "none"
    BY <2>1 DEF AnswerOf
  <2> QED  BY <2>1, <2>2, <2>3 DEF Lifecycle!Init, NotYetAnswered
<1>2. ShellInv /\ NotYetAnswered /\ [Next]_vars => LifeStep /\ NotYetAnswered'
  BY LifeNext
<1> QED  BY <1>1, <1>2, ShellInvHolds, PTL
         DEF Spec, ImplementsLifecycle, Lifecycle!Spec, LifeStep
=============================================================================
