-------------------------- MODULE DeploymentProofs --------------------------
(***************************************************************************)
(* Theorems about Deployment, for every number of requests, projects,      *)
(* services and machines, and every order of steps and failures.           *)
(***************************************************************************)
EXTENDS Deployment, TLAPS, WellFoundedInduction

\* A set of positions that is not empty has a least one.
LEMMA LeastPosition ==
    ASSUME NEW S \in SUBSET Nat, S # {}
    PROVE  \E k \in S : \A l \in S : k <= l
<1> DEFINE less == {ss \in Nat \X Nat : ss[1] < ss[2]}
<1>1. IsWellFoundedOn(less, Nat)
  BY NatLessThanWellFounded DEF OpToRel
<1>2. PICK k \in S : \A l \in S : ~ (<<l, k>> \in less)
  <2> HIDE DEF less
  <2> QED  BY <1>1, WFMin
<1>3. ASSUME NEW l \in S  PROVE k <= l
  <2>1. k \in Nat /\ l \in Nat
    OBVIOUS
  <2>2. ~ (l < k)
    BY <1>2, <2>1
  <2> QED  BY <2>1, <2>2
<1> QED  BY <1>3

\* machine_ip finds nothing, or the machine of a row of that name.
LEMMA MachineIsOfARow ==
    ASSUME NEW p \in Projects, NEW s \in Services, rows \in [Projects -> Seq(Row)]
    PROVE  \/ machine_ip(p, s) = NoHost /\ Has(p, s) = {}
           \/ \E k \in Has(p, s) : /\ machine_ip(p, s) = rows[p][k].machine
                                   /\ machine_ip(p, s) \in Hosts
<1>1. CASE Has(p, s) = {}
  BY <1>1 DEF machine_ip
<1>2. CASE Has(p, s) # {}
  <2>1. Has(p, s) \in SUBSET Nat
    BY DEF Has
  <2>2. \E k \in Has(p, s) : \A l \in Has(p, s) : k <= l
    BY <1>2, <2>1, LeastPosition
  <2> DEFINE first == CHOOSE k \in Has(p, s) : \A l \in Has(p, s) : k <= l
  <2>3. first \in Has(p, s)
    BY <2>2
  <2>4. machine_ip(p, s) = rows[p][first].machine
    BY <1>2 DEF machine_ip
  <2>5. rows[p][first] \in Row
    BY <2>3 DEF Has
  <2> QED  BY <2>3, <2>4, <2>5 DEF Row
<1> QED  BY <1>1, <1>2

TypeInv == TypeOK /\ LocalsOK

ReqOK == req \in [Requests -> Request] /\ LocalsOK

LEMMA OneRequest ==
    ASSUME ReqOK, NEW r \in Requests, NEW q,
           req' = [req EXCEPT ![r] = q], q \in Request, LocalOK(q)
    PROVE  ReqOK'
BY DEF ReqOK, LocalsOK

LEMMA GotoOK ==
    ASSUME ReqOK, NEW r \in Requests, NEW pc \in PCs, Goto(r, pc),
           LocalOK([req[r] EXCEPT !.pc = pc])
    PROVE  ReqOK'
<1>1. [req[r] EXCEPT !.pc = pc] \in Request
  BY DEF ReqOK, Request
<1>2. req' = [req EXCEPT ![r] = [req[r] EXCEPT !.pc = pc]]
  BY DEF Goto
<1> QED  BY <1>1, <1>2, OneRequest

LEMMA ReturnOK ==
    ASSUME ReqOK, NEW r \in Requests, NEW a \in Results, Return(r, a)
    PROVE  ReqOK'
<1> DEFINE q == [req[r] EXCEPT !.pc = "done", !.result = a, !.i = 1,
                               !.place = <<>>, !.plan = <<>>, !.todo = <<>>,
                               !.at = NoHost]
<1>1. q \in Request /\ q.pc = "done"
  <2>1. "done" \in PCs
    BY DEF PCs
  <2>2. req[r] \in Request
    BY DEF ReqOK
  <2>3. /\ <<>> \in Seq(Hosts) /\ <<>> \in Seq(Plan) /\ <<>> \in Seq(Services)
        /\ 1 \in Nat /\ NoHost \in Hosts \cup {NoHost}
    OBVIOUS
  <2> HIDE DEF NoHost
  <2> QED  BY <2>1, <2>2, <2>3 DEF Request
<1>2. req' = [req EXCEPT ![r] = q]
  BY Zenon DEF Return
<1> HIDE DEF q
<1>3. LocalOK(q)
  BY <1>1 DEF LocalOK
<1> QED  BY <1>1, <1>2, <1>3, OneRequest

\* the program counters that say nothing about the other locals
Plain ==
    PCs \ {"place", "plan", "execute", "launch", "exec", "locate", "look",
           "stop", "remove"}

LEMMA GotoPlain ==
    ASSUME ReqOK, NEW r \in Requests, NEW pc \in Plain, Goto(r, pc)
    PROVE  ReqOK'
<1>1. pc \in PCs /\ [req[r] EXCEPT !.pc = pc].pc = pc
  BY DEF Plain, ReqOK, Request
<1>2. LocalOK([req[r] EXCEPT !.pc = pc])
  BY <1>1 DEF Plain, LocalOK
<1> QED  BY <1>1, <1>2, GotoOK

\* The values of the database, the file system and the hosts.
DataOK ==
    /\ projectRows \in [Projects -> Nat]
    /\ rows \in [Projects -> Seq(Row)]
    /\ dirs \in [Projects -> DirStates]
    /\ containers \subseteq Container

LEMMA CreateKeepsTypes ==
    ASSUME DataOK, ReqOK, NEW r \in Requests, Create(r)
    PROVE  DataOK' /\ ReqOK'
<1> USE DEF Plain, PCs, Results
<1>0. Project(r) \in Projects
  BY DEF ReqOK, Request, Project
<1>1. CASE project_exists(r)
  <2>1. Return(r, "refused") \/ Goto(r, "path") \/ Goto(r, "insert")
    BY <1>1 DEF project_exists
  <2>2. ReqOK'
    BY <2>1, GotoPlain, ReturnOK
  <2> QED  BY <1>1, <2>2 DEF project_exists, DataOK
<1>2. CASE path_exists(r)
  <2>1. Return(r, "refused") \/ Goto(r, "mkdir")
    BY <1>2 DEF path_exists
  <2>2. ReqOK'
    BY <2>1, GotoPlain, ReturnOK
  <2> QED  BY <1>2, <2>2 DEF path_exists, DataOK
<1>3. CASE mkdir(r)
  <2>1. Return(r, "crashed") \/ Goto(r, "clone")
    BY <1>3 DEF mkdir
  <2>2. ReqOK'
    BY <2>1, GotoPlain, ReturnOK
  <2> QED  BY <1>3, <2>2 DEF mkdir, DataOK, DirStates
<1>4. CASE clone_from(r)
  <2>1. Return(r, "refused") \/ Goto(r, "insert")
    BY <1>4 DEF clone_from
  <2>2. ReqOK'
    BY <2>1, GotoPlain, ReturnOK
  <2> QED  BY <1>4, <2>2 DEF clone_from, DataOK, DirStates
<1>5. CASE create_project(r)
  <2>1. Goto(r, "argv")
    BY <1>5 DEF create_project
  <2>2. ReqOK'
    BY <2>1, GotoPlain
  <2> QED  BY <1>0, <1>5, <2>2 DEF create_project, DataOK
<1>6. CASE get_argv(r)
  <2>1. Return(r, "argv") \/ Return(r, "crashed") \/ Goto(r, "load")
    BY <1>6 DEF get_argv
  <2>2. ReqOK'
    BY <2>1, GotoPlain, ReturnOK
  <2> QED  BY <1>6, <2>2 DEF get_argv, DataOK
<1>7. CASE replace_argv(r)
  <2>1. Return(r, "crashed") \/ Goto(r, "load")
    BY <1>7 DEF replace_argv
  <2>2. ReqOK'
    BY <2>1, GotoPlain, ReturnOK
  <2> QED  BY <1>7, <2>2 DEF replace_argv, DataOK, DirStates
<1> QED
  BY <1>1, <1>2, <1>3, <1>4, <1>5, <1>6, <1>7 DEF Create

\* Steps in the loops over the services: where the position is in range, the
\* service, its client and its container name are what they should be.
LEMMA InRange ==
    ASSUME ReqOK, NEW r \in Requests, req[r].i \in 1 .. Len(ServicesOf[Project(r)])
    PROVE  /\ Project(r) \in Projects
           /\ ServicesOf[Project(r)] \in Seq(Services)
           /\ CurrentService(r) \in Services
           /\ CurrentName(r) \in Names
           /\ Len(req[r].place) = Len(ServicesOf[Project(r)]) =>
                CurrentHost(r) \in Hosts
<1>1. Project(r) \in Projects /\ req[r].place \in Seq(Hosts)
  BY DEF ReqOK, Request, Project
<1>2. ServicesOf[Project(r)] \in Seq(Services)
  BY <1>1, ServicesAssumption
<1>3. CurrentService(r) \in Services
  BY <1>2 DEF CurrentService
<1>4. CurrentName(r) \in Names
  BY <1>1, <1>3, NameAssumption DEF CurrentName
<1>5. Len(req[r].place) = Len(ServicesOf[Project(r)]) => CurrentHost(r) \in Hosts
  BY <1>1, <1>2 DEF CurrentHost
<1> QED  BY <1>1, <1>2, <1>3, <1>4, <1>5

LEMMA NextServiceOK ==
    ASSUME ReqOK, NEW r \in Requests, req[r].pc \in {"execute", "launch"},
           NextService(r, "execute", "exec")
    PROVE  ReqOK'
<1> DEFINE s == Len(ServicesOf[Project(r)])
           pc == IF LastService(r) THEN "exec" ELSE "execute"
           i == IF LastService(r) THEN 1 ELSE req[r].i + 1
           q == [req[r] EXCEPT !.pc = pc, !.i = i]
<1>1. /\ req[r] \in Request
      /\ req[r].i \in 1 .. s /\ Len(req[r].place) = s /\ Len(req[r].plan) = s
  BY DEF ReqOK, LocalsOK, LocalOK, Project
<1>2. s \in Nat
  BY <1>1, InRange
<1>3. pc \in PCs /\ pc \in {"exec", "execute"}
  BY DEF PCs
<1>7. i \in Nat /\ i \in 1 .. s
  BY <1>1, <1>2 DEF LastService
<1>5. req' = [req EXCEPT ![r] = q]
  BY Zenon DEF NextService
<1> HIDE DEF pc, i
<1>6. /\ q \in Request /\ q.project = Project(r) /\ q.pc = pc /\ q.i = i
      /\ q.place = req[r].place /\ q.plan = req[r].plan
  BY <1>1, <1>3, <1>7 DEF Project, Request
<1> HIDE DEF q
<1>4. LocalOK(q)
  BY <1>1, <1>3, <1>7, <1>6 DEF LocalOK
<1> QED  BY <1>4, <1>5, <1>6, OneRequest

LEMMA ConfigLoadOK ==
    ASSUME ReqOK, NEW r \in Requests, config_load(r)
    PROVE  ReqOK'
<1> DEFINE S == ServicesOf[Project(r)]
           pc == IF S = <<>> THEN "plan" ELSE "place"
           q == [req[r] EXCEPT !.pc = pc, !.i = 1, !.place = <<>>, !.plan = <<>>]
<1>1. req[r] \in Request /\ S \in Seq(Services)
  BY ServicesAssumption DEF ReqOK, Request, Project
<1>2. req' = [req EXCEPT ![r] = q]
  BY Zenon DEF config_load
<1>3. pc \in PCs
  BY DEF PCs
<1>4. \/ S = <<>> /\ pc = "plan"
      \/ Len(S) \in Nat /\ 1 \in 1 .. Len(S) /\ pc = "place"
  BY <1>1
<1> HIDE DEF pc
<1>5. <<>> \in Seq(Hosts) /\ <<>> \in Seq(Plan) /\ Len(<<>>) = 0 /\ 1 \in Nat
  OBVIOUS
<1>6. /\ q \in Request /\ q.project = Project(r) /\ q.pc = pc
      /\ q.i = 1 /\ q.place = <<>> /\ q.plan = <<>>
  BY <1>1, <1>3, <1>5 DEF Project, Request
<1> HIDE DEF q
<1>7. LocalOK(q)
  BY <1>4, <1>6 DEF LocalOK
<1> QED  BY <1>2, <1>6, <1>7, OneRequest

LEMMA NapFromDictsOK ==
    ASSUME ReqOK, NEW r \in Requests, req[r].pc = "place", NEW index \in Hosts,
           req' = [req EXCEPT ![r] =
                      [@ EXCEPT !.pc = IF LastService(r) THEN "plan" ELSE "place",
                                !.i = IF LastService(r) THEN 1 ELSE req[r].i + 1,
                                !.place = Append(req[r].place, index)]]
    PROVE  ReqOK'
<1> DEFINE s == Len(ServicesOf[Project(r)])
           pc == IF LastService(r) THEN "plan" ELSE "place"
           i == IF LastService(r) THEN 1 ELSE req[r].i + 1
           place == Append(req[r].place, index)
           q == [req[r] EXCEPT !.pc = pc, !.i = i, !.place = place]
<1>1. /\ req[r] \in Request /\ req[r].place \in Seq(Hosts)
      /\ req[r].i \in 1 .. s /\ Len(req[r].place) = req[r].i - 1
      /\ req[r].plan = <<>>
  BY DEF ReqOK, LocalsOK, LocalOK, Project, Request
<1>2. s \in Nat
  BY <1>1, InRange
<1>3. pc \in PCs
  BY DEF PCs
<1>4. place \in Seq(Hosts) /\ Len(place) = req[r].i
  BY <1>1
<1>5. i \in Nat /\ i \in 1 .. s
  BY <1>1, <1>2 DEF LastService
<1>6. \/ pc = "plan" /\ req[r].i = s /\ i = 1
      \/ pc = "place" /\ i = req[r].i + 1
  BY DEF LastService
<1>7. req' = [req EXCEPT ![r] = q]
  BY Zenon
<1> HIDE DEF pc, i, place
<1>8. /\ q \in Request /\ q.project = Project(r) /\ q.pc = pc /\ q.i = i
      /\ q.place = place /\ q.plan = <<>>
  BY <1>1, <1>3, <1>4, <1>5 DEF Project, Request
<1> HIDE DEF q
<1>9. LocalOK(q)
  BY <1>1, <1>2, <1>4, <1>5, <1>6, <1>8 DEF LocalOK
<1> QED  BY <1>7, <1>8, <1>9, OneRequest

LEMMA ConvergencePlanOK ==
    ASSUME ReqOK, NEW r \in Requests, req[r].pc = "plan",
           ServicesOf[Project(r)] # <<>>, NEW step \in Plan,
           req' = [req EXCEPT ![r] =
                      [@ EXCEPT !.pc = IF LastService(r) THEN "execute" ELSE "plan",
                                !.i = IF LastService(r) THEN 1 ELSE req[r].i + 1,
                                !.plan = Append(req[r].plan, step)]]
    PROVE  ReqOK'
<1> DEFINE s == Len(ServicesOf[Project(r)])
           pc == IF LastService(r) THEN "execute" ELSE "plan"
           i == IF LastService(r) THEN 1 ELSE req[r].i + 1
           plan == Append(req[r].plan, step)
           q == [req[r] EXCEPT !.pc = pc, !.i = i, !.plan = plan]
<1>1. /\ req[r] \in Request /\ req[r].plan \in Seq(Plan)
      /\ req[r].i \in 1 .. s /\ Len(req[r].place) = s
      /\ Len(req[r].plan) = req[r].i - 1
  BY DEF ReqOK, LocalsOK, LocalOK, Project, Request
<1>2. s \in Nat
  BY <1>1, InRange
<1>3. pc \in PCs
  BY DEF PCs
<1>4. plan \in Seq(Plan) /\ Len(plan) = req[r].i
  BY <1>1
<1>5. i \in Nat /\ i \in 1 .. s
  BY <1>1, <1>2 DEF LastService
<1>6. \/ pc = "execute" /\ req[r].i = s /\ i = 1
      \/ pc = "plan" /\ i = req[r].i + 1
  BY DEF LastService
<1>7. req' = [req EXCEPT ![r] = q]
  BY Zenon
<1> HIDE DEF pc, i, plan
<1>8. /\ q \in Request /\ q.project = Project(r) /\ q.pc = pc /\ q.i = i
      /\ q.place = req[r].place /\ q.plan = plan
  BY <1>1, <1>3, <1>4, <1>5 DEF Project, Request
<1> HIDE DEF q
<1>9. LocalOK(q)
  BY <1>1, <1>2, <1>4, <1>5, <1>6, <1>8 DEF LocalOK
<1> QED  BY <1>7, <1>8, <1>9, OneRequest

LEMMA ExecCreateOK ==
    ASSUME ReqOK, NEW r \in Requests, req[r].pc = "exec", ~LastService(r),
           NextService(r, "exec", "exec")
    PROVE  ReqOK'
<1> DEFINE s == Len(ServicesOf[Project(r)])
           i == req[r].i + 1
           q == [req[r] EXCEPT !.pc = "exec", !.i = i]
<1>1. /\ req[r] \in Request
      /\ req[r].i \in 1 .. s /\ Len(req[r].place) = s /\ Len(req[r].plan) = s
  BY DEF ReqOK, LocalsOK, LocalOK, Project, Request
<1>2. s \in Nat
  BY <1>1, InRange
<1>3. i \in Nat /\ i \in 1 .. s
  BY <1>1, <1>2 DEF LastService
<1>4. req' = [req EXCEPT ![r] = q]
  BY Zenon DEF NextService
<1> HIDE DEF i
<1>5. /\ q \in Request /\ q.project = Project(r) /\ q.pc = "exec" /\ q.i = i
      /\ q.place = req[r].place /\ q.plan = req[r].plan
  BY <1>1, <1>3 DEF Project, Request, PCs
<1> HIDE DEF q
<1>6. LocalOK(q)
  BY <1>1, <1>3, <1>5 DEF LocalOK
<1> QED  BY <1>4, <1>5, <1>6, OneRequest

LEMMA DeployKeepsTypes ==
    ASSUME DataOK, ReqOK, NEW r \in Requests, Deploy(r)
    PROVE  DataOK' /\ ReqOK'
<1> USE DEF Plain, PCs, Results
<1>0. Project(r) \in Projects
  BY DEF ReqOK, Request, Project
<1>1. CASE config_load(r)
  BY <1>1, ConfigLoadOK DEF config_load, DataOK
<1>2. CASE nap_from_dicts(r)
  <2>1. req[r].pc = "place" /\ UNCHANGED <<projectRows, dirs, containers>>
    BY <1>2 DEF nap_from_dicts
  <2>2. CurrentService(r) \in Services
    BY <2>1, InRange DEF ReqOK, LocalsOK, LocalOK, Project
  <2>3. CASE UNCHANGED rows /\ Return(r, "crashed")
    BY <2>1, <2>3, ReturnOK DEF DataOK
  <2>4. ASSUME NEW index \in Hosts,
               rows' = [rows EXCEPT ![Project(r)] =
                   Append(@, [name |-> CurrentService(r), machine |-> index])],
               req' = [req EXCEPT ![r] =
                   [@ EXCEPT !.pc = IF LastService(r) THEN "plan" ELSE "place",
                             !.i = IF LastService(r) THEN 1 ELSE req[r].i + 1,
                             !.place = Append(req[r].place, index)]]
        PROVE  DataOK' /\ ReqOK'
    <3>1. ReqOK'
      BY <2>1, <2>4, NapFromDictsOK
    <3>2. [name |-> CurrentService(r), machine |-> index] \in Row
      BY <2>2 DEF Row
    <3>3. rows' \in [Projects -> Seq(Row)]
      BY <1>0, <2>4, <3>2 DEF DataOK
    <3> QED  BY <2>1, <3>1, <3>3 DEF DataOK
  <2> QED  BY <1>2, <2>3, <2>4 DEF nap_from_dicts
<1>3. CASE convergence_plan(r)
  <2>1. req[r].pc = "plan" /\ UNCHANGED <<projectRows, rows, dirs, containers>>
    BY <1>3 DEF convergence_plan
  <2>2. CASE Return(r, "crashed")
    BY <2>1, <2>2, ReturnOK DEF DataOK
  <2>3. ASSUME ServicesOf[Project(r)] # <<>>,
               NEW a \in {"create", "start", "noop"}, NEW b \in Requests,
               req' = [req EXCEPT ![r] =
                   [@ EXCEPT !.pc = IF LastService(r) THEN "execute" ELSE "plan",
                             !.i = IF LastService(r) THEN 1 ELSE req[r].i + 1,
                             !.plan = Append(req[r].plan,
                                             [action |-> a, by |-> b])]]
        PROVE  DataOK' /\ ReqOK'
    <3>1. [action |-> a, by |-> b] \in Plan
      BY DEF Plan
    <3>2. ReqOK'
      BY <2>1, <2>3, <3>1, ConvergencePlanOK
    <3> QED  BY <2>1, <3>2 DEF DataOK
  <2>4. \A c \in Labelled(CurrentHost(r), Project(r), CurrentService(r)) :
          c.by \in Requests
    BY DEF Labelled, DataOK, Container
  <2> QED  BY <1>3, <2>2, <2>3, <2>4 DEF convergence_plan
<1>4. CASE create_container(r)
  <2>1. req[r].pc = "execute"
    BY <1>4 DEF create_container
  <2>2. Goto(r, "list") \/ Goto(r, "launch")
    BY <1>4 DEF create_container
  <2>3. LocalOK([req[r] EXCEPT !.pc = "launch"])
    BY <2>1 DEF ReqOK, LocalsOK, LocalOK, Request
  <2>4. ReqOK'
    BY <2>2, <2>3, GotoPlain, GotoOK, ZenonT(30)
  <2>5. /\ CurrentService(r) \in Services /\ CurrentName(r) \in Names
        /\ CurrentHost(r) \in Hosts
    BY <2>1, InRange DEF ReqOK, LocalsOK, LocalOK, Project
  <2>6. [host |-> CurrentHost(r), name |-> CurrentName(r), project |-> Project(r),
         service |-> CurrentService(r), by |-> r, status |-> "created"] \in Container
    BY <1>0, <2>5 DEF Container
  <2>7. containers' \subseteq Container
    BY <1>4, <2>6 DEF create_container, DataOK
  <2> QED  BY <1>4, <2>4, <2>7 DEF create_container, DataOK
<1>5. CASE start_container(r)
  <2>1. req[r].pc \in {"execute", "launch"}
    BY <1>5 DEF start_container
  <2>2. Goto(r, "list") \/ NextService(r, "execute", "exec")
    BY <1>5 DEF start_container
  <2>3. ReqOK'
    BY <2>1, <2>2, GotoPlain, NextServiceOK
  <2>4. containers' \subseteq Container
    <3>1. \A c \in containers : c \in Container /\ [c EXCEPT !.status = "running"] \in Container
      BY DEF DataOK, Container
    <3>2. \/ containers' = containers
          \/ \E T \in SUBSET containers :
                containers' = (containers \ T) \cup
                                {[c EXCEPT !.status = "running"] : c \in T}
      <4> DEFINE T == {c \in Labelled(CurrentHost(r), Project(r),
                                      CurrentService(r)) : c.by = CurrentPlan(r).by}
      <4>1. T \in SUBSET containers
        BY DEF Labelled
      <4>2. \/ containers' = containers
            \/ containers' = (containers \ T) \cup
                                {[c EXCEPT !.status = "running"] : c \in T}
        BY <1>5 DEF start_container
      <4> HIDE DEF T
      <4> QED  BY <4>1, <4>2
    <3> QED  BY <3>1, <3>2 DEF DataOK
  <2> QED  BY <1>5, <2>3, <2>4 DEF start_container, DataOK
<1>6. CASE up_to_date(r)
  BY <1>6, NextServiceOK DEF up_to_date, DataOK
<1>7. CASE exec_create(r)
  BY <1>7, ExecCreateOK, ReturnOK, GotoPlain DEF exec_create, DataOK
<1> QED
  BY <1>1, <1>2, <1>3, <1>4, <1>5, <1>6, <1>7 DEF Deploy

LEMMA NextNameOK ==
    ASSUME ReqOK, NEW r \in Requests, NextName(r), req[r].todo # <<>>
    PROVE  ReqOK'
<1> DEFINE rest == Tail(req[r].todo)
           pc == IF rest = <<>> THEN AfterCleanup(r) ELSE "locate"
           q == [req[r] EXCEPT !.pc = pc, !.todo = rest, !.at = NoHost]
<1>1. req[r] \in Request /\ rest \in Seq(Services)
  BY DEF ReqOK, Request
<1>2. pc \in PCs /\ (pc = "locate" => rest # <<>>)
      /\ pc \in {"locate", "del_project", "rb_delete"}
  BY DEF PCs, AfterCleanup
<1>3. req' = [req EXCEPT ![r] = q]
  BY Zenon DEF NextName
<1> HIDE DEF pc, rest
<1>4. q \in Request /\ q.pc = pc /\ q.todo = rest
  BY <1>1, <1>2 DEF Request
<1> HIDE DEF q
<1>5. LocalOK(q)
  BY <1>2, <1>4 DEF LocalOK
<1> QED  BY <1>3, <1>4, <1>5, OneRequest

LEMMA CleanupKeepsTypes ==
    ASSUME DataOK, ReqOK, NEW r \in Requests, Cleanup(r)
    PROVE  DataOK' /\ ReqOK'
<1> USE DEF Plain, PCs, Results
<1>0. req[r] \in Request /\ Project(r) \in Projects /\ LocalOK(req[r])
  BY DEF ReqOK, LocalsOK, Request, Project
<1>1. CASE read_service_list(r)
  <2> DEFINE todo == service_list(Project(r))
             q == [req[r] EXCEPT !.pc = "locate", !.todo = todo]
  <2>1. CASE Goto(r, "del_project") \/ Return(r, "failed")
    BY <1>1, <2>1, GotoPlain, ReturnOK DEF read_service_list, DataOK
  <2>2. CASE rows[Project(r)] # <<>> /\ req' = [req EXCEPT ![r] = q]
    <3>1. rows[Project(r)] \in Seq(Row)
      BY <1>0 DEF DataOK
    <3>2. todo \in Seq(Services) /\ Len(todo) = Len(rows[Project(r)])
      <4> DEFINE n == Len(rows[Project(r)])
      <4>1. n \in Nat /\ DOMAIN rows[Project(r)] = 1 .. n
        BY <3>1
      <4>2. ASSUME NEW k \in 1 .. n
            PROVE  rows[Project(r)][k].name \in Services
        <5>1. rows[Project(r)][k] \in Row
          BY <3>1
        <5> QED  BY <5>1 DEF Row
      <4>3. todo = [k \in 1 .. n |-> rows[Project(r)][k].name]
        BY <4>1 DEF service_list
      <4> HIDE DEF todo, n
      <4> QED  BY <4>1, <4>2, <4>3
    <3>7. Len(rows[Project(r)]) # 0
      BY <3>1, <2>2
    <3>3. todo # <<>>
      BY <3>2, <3>7
    <3> HIDE DEF todo
    <3>4. q \in Request /\ q.pc = "locate" /\ q.todo = todo
      BY <1>0, <3>2 DEF Request
    <3>5. LocalOK(q)
      BY <3>3, <3>4 DEF LocalOK
    <3>6. ReqOK'
      BY <2>2, <3>4, <3>5, OneRequest
    <3> QED  BY <1>1, <3>6 DEF read_service_list, DataOK
  <2> QED  BY <1>1, <2>1, <2>2 DEF read_service_list
<1>2. CASE locate(r)
  <2> DEFINE h == machine_ip(Project(r), Head(req[r].todo))
             q == [req[r] EXCEPT !.pc = "look", !.at = h]
  <2>1. req[r].pc = "locate" /\ UNCHANGED <<projectRows, rows, dirs, containers>>
    BY <1>2 DEF locate
  <2>2. req[r].todo # <<>> /\ req[r].todo \in Seq(Services)
    BY <1>0, <2>1 DEF LocalOK, Request
  <2>3. CASE NextName(r)
    BY <2>1, <2>2, <2>3, NextNameOK DEF DataOK
  <2>4. CASE h # NoHost /\ req' = [req EXCEPT ![r] = q]
    <3>1. Head(req[r].todo) \in Services
      BY <2>2
    <3>2. h \in Hosts
      BY <1>0, <2>4, <3>1, MachineIsOfARow DEF DataOK
    <3> HIDE DEF h
    <3>3. q \in Request /\ q.pc = "look" /\ q.todo = req[r].todo /\ q.at = h
      BY <1>0, <3>2 DEF Request
    <3> HIDE DEF q
    <3>4. LocalOK(q)
      BY <2>2, <3>2, <3>3 DEF LocalOK
    <3>5. ReqOK'
      BY <2>4, <3>3, <3>4, OneRequest
    <3> QED  BY <2>1, <3>5 DEF DataOK
  <2> QED  BY <1>2, <2>3, <2>4 DEF locate
<1>3. CASE container_exists(r)
  <2>1. req[r].pc = "look"
    BY <1>3 DEF container_exists
  <2>2. LocalOK([req[r] EXCEPT !.pc = "stop"]) /\ req[r].todo # <<>>
    BY <1>0, <2>1 DEF LocalOK, Request
  <2>3. ReqOK'
    BY <1>3, <2>2, GotoOK, NextNameOK DEF container_exists
  <2> QED  BY <1>3, <2>3 DEF container_exists, DataOK
<1>4. CASE stop_container(r)
  <2> DEFINE T == Named(req[r].at, CleanupName(r))
             stopped(c) == [c EXCEPT !.status = IF @ = "running" THEN "exited" ELSE @]
  <2>1. req[r].pc = "stop"
    BY <1>4 DEF stop_container
  <2>2. LocalOK([req[r] EXCEPT !.pc = "remove"])
    BY <1>0, <2>1 DEF LocalOK, Request
  <2>3. ReqOK'
    BY <1>4, <2>2, GotoOK, ReturnOK DEF stop_container
  <2>4. \A c \in containers : c \in Container /\ stopped(c) \in Container
    BY DEF DataOK, Container
  <2>5. T \subseteq containers
    BY DEF Named
  <2>6. \/ containers' = containers
        \/ containers' = (containers \ T) \cup {stopped(c) : c \in T}
    BY <1>4 DEF stop_container
  <2> HIDE DEF T, stopped
  <2>7. containers' \subseteq Container
    BY <2>4, <2>5, <2>6 DEF DataOK
  <2> QED  BY <1>4, <2>3, <2>7 DEF stop_container, DataOK
<1>5. CASE remove_container(r)
  <2>1. req[r].pc = "remove"
    BY <1>5 DEF remove_container
  <2>2. req[r].todo # <<>>
    BY <1>0, <2>1 DEF LocalOK
  <2>3. ReqOK'
    BY <1>5, <2>2, NextNameOK, ReturnOK DEF remove_container
  <2> QED  BY <1>5, <2>3 DEF remove_container, DataOK
<1>6. CASE delete_rows(r)
  BY <1>0, <1>6, ReturnOK DEF delete_rows, DataOK
<1>7. CASE delete_project(r)
  BY <1>0, <1>7, GotoPlain DEF delete_project, DataOK
<1>8. CASE delete_service(r)
  BY <1>0, <1>8, ReturnOK DEF delete_service, DataOK
<1> QED
  BY <1>1, <1>2, <1>3, <1>4, <1>5, <1>6, <1>7, <1>8 DEF Cleanup

LEMMA FailuresKeepTypes ==
    ASSUME DataOK, ReqOK, NEW r \in Requests,
           DeployError(r) \/ CleanupError(r) \/ Crash(r)
    PROVE  DataOK' /\ ReqOK'
<1>1. Goto(r, "list") \/ Return(r, "crashed")
  BY DEF DeployError, CleanupError, Crash
<1>2. ReqOK'
  BY <1>1, GotoPlain, ReturnOK DEF Plain, PCs, Results
<1> QED  BY <1>2 DEF DeployError, CleanupError, Crash, DataOK

LEMMA BeginKeepsTypes ==
    ASSUME DataOK, ReqOK, NEW r \in Requests, NEW op \in Operations,
           NEW p \in Projects, Begin(r, op, p)
    PROVE  DataOK' /\ ReqOK'
<1> DEFINE pc == FirstStep[op]
           q == [req[r] EXCEPT !.pc = pc, !.op = op, !.project = p]
<1>1. req[r] \in Request
  BY DEF ReqOK
<1>2. pc \in PCs /\ pc \in {"exists", "argv", "replace", "list"}
  BY DEF FirstStep, Operations, PCs
<1>3. req' = [req EXCEPT ![r] = q]
  BY DEF Begin
<1> HIDE DEF pc
<1>4. q \in Request /\ q.pc = pc
  BY <1>1, <1>2 DEF Request
<1> HIDE DEF q
<1>5. LocalOK(q)
  BY <1>2, <1>4 DEF LocalOK
<1> QED  BY <1>3, <1>4, <1>5, OneRequest DEF Begin, DataOK

LEMMA InitHasTypes == Init => TypeInv
<1> SUFFICES ASSUME Init  PROVE TypeInv
  OBVIOUS
<1>1. PICK p \in Projects : req = [r \in Requests |-> Idle(p)]
  BY DEF Init
<1>2. Idle(p) \in Request /\ Idle(p).pc = "idle"
  BY DEF Idle, Request, PCs, Operations, Results
<1>3. ReqOK
  BY <1>1, <1>2 DEF ReqOK, LocalsOK, LocalOK
<1>4. DataOK
  BY DEF Init, DataOK, DirStates
<1> QED  BY <1>3, <1>4 DEF TypeInv, TypeOK, DataOK, ReqOK

LEMMA NextKeepsTypes == TypeInv /\ [Next]_vars => TypeInv'
<1> SUFFICES ASSUME DataOK, ReqOK, [Next]_vars  PROVE DataOK' /\ ReqOK'
  BY DEF TypeInv, TypeOK, DataOK, ReqOK
<1>1. CASE UNCHANGED vars
  BY <1>1 DEF vars, DataOK, ReqOK, LocalsOK
<1>2. ASSUME NEW p \in Projects, Upload(p)  PROVE DataOK' /\ ReqOK'
  BY <1>2 DEF Upload, DataOK, DirStates, ReqOK, LocalsOK
<1>3. ASSUME NEW r \in Requests, Step(r)  PROVE DataOK' /\ ReqOK'
  BY <1>3, CreateKeepsTypes, DeployKeepsTypes, CleanupKeepsTypes,
     FailuresKeepTypes DEF Step
<1>4. CASE Terminating
  BY <1>1, <1>4 DEF Terminating
<1> QED
  BY <1>1, <1>2, <1>3, <1>4, BeginKeepsTypes DEF Next

\* Whatever the clients do and whatever fails, the tables, the hosts and the
\* locals of every request hold values of their types.
THEOREM TypeCorrect == Spec => []TypeOK
<1>1. TypeInv => TypeOK
  BY DEF TypeInv
<1> QED  BY <1>1, InitHasTypes, NextKeepsTypes, PTL DEF Spec

(***************************************************************************)
(* Isolation of projects                                                   *)
(***************************************************************************)
\* No container name stands for services of two projects.  Nothing in the code
\* sees to this: user, project and service are joined with a dash, which each
\* of them may contain.
NamesTellProjects ==
    \A p, q \in Projects : \A s, t \in Services :
        FullName[<<p, s>>] = FullName[<<q, t>>] => p = q

\* A container has the full name of the service its labels name.
NamesOK ==
    \A c \in containers : c.name = FullName[<<c.project, c.service>>]

Inv == TypeInv /\ NamesOK

LEMMA StepKeepsNames ==
    ASSUME Inv, NEW r \in Requests, Step(r)
    PROVE  NamesOK'
<1>0. /\ containers \subseteq Container
      /\ \A c \in containers : c.name = FullName[<<c.project, c.service>>]
  BY DEF Inv, TypeInv, TypeOK, NamesOK
<1>1. CASE UNCHANGED containers
  BY <1>0, <1>1 DEF NamesOK
<1>2. CASE create_container(r)
  <2> DEFINE new == [host |-> CurrentHost(r), name |-> CurrentName(r),
                     project |-> Project(r), service |-> CurrentService(r),
                     by |-> r, status |-> "created"]
  <2>1. containers' \subseteq containers \cup {new}
    BY <1>2 DEF create_container
  <2>2. new.name = FullName[<<new.project, new.service>>]
    BY DEF CurrentName
  <2> QED  BY <1>0, <2>1, <2>2 DEF NamesOK
<1>3. CASE start_container(r)
  <2>1. \A c \in containers' : \/ c \in containers
                               \/ \E d \in containers : c = [d EXCEPT !.status = "running"]
    BY <1>3 DEF start_container, Labelled
  <2>2. ASSUME NEW d \in containers
        PROVE  LET c == [d EXCEPT !.status = "running"]
               IN  c.name = FullName[<<c.project, c.service>>]
    BY <1>0, <2>2 DEF Container
  <2> QED  BY <1>0, <2>1, <2>2 DEF NamesOK
<1>4. CASE stop_container(r)
  <2>1. \A c \in containers' : \/ c \in containers
                               \/ \E d \in containers : \E x :
                                     c = [d EXCEPT !.status = x]
    BY <1>4 DEF stop_container, Named
  <2>2. ASSUME NEW d \in containers, NEW x
        PROVE  LET c == [d EXCEPT !.status = x]
               IN  c.name = FullName[<<c.project, c.service>>]
    BY <1>0, <2>2 DEF Container
  <2> QED  BY <1>0, <2>1, <2>2, ZenonT(30) DEF NamesOK
<1>5. CASE remove_container(r)
  BY <1>0, <1>5 DEF remove_container, NamesOK
<1> QED
  BY <1>1, <1>2, <1>3, <1>4, <1>5 DEF Step, Create, Deploy, Cleanup,
     project_exists, path_exists, mkdir, clone_from, create_project, get_argv,
     replace_argv, config_load, nap_from_dicts, convergence_plan, up_to_date,
     exec_create, read_service_list, locate, container_exists, delete_rows,
     delete_project, delete_service, DeployError, CleanupError, Crash

LEMMA InvIsInvariant == Spec => []Inv
<1>1. Init => Inv
  BY InitHasTypes DEF Init, Inv, NamesOK
<1>2. Inv /\ [Next]_vars => Inv'
  <2> SUFFICES ASSUME Inv, [Next]_vars  PROVE Inv'
    OBVIOUS
  <2>1. TypeInv'
    BY NextKeepsTypes DEF Inv
  <2>2. CASE UNCHANGED containers
    BY <2>1, <2>2 DEF Inv, NamesOK
  <2>3. CASE \E r \in Requests : Step(r)
    BY <2>1, <2>3, StepKeepsNames DEF Inv
  <2> QED  BY <2>2, <2>3 DEF Next, Upload, Begin, Terminating, vars
<1> QED  BY <1>1, <1>2, PTL DEF Spec

\* What a step does to the rows and the containers it does to its own project.
LEMMA StepIsLocal ==
    ASSUME Inv, NamesTellProjects, NEW r \in Requests, Step(r),
           NEW p \in Projects, p # Project(r)
    PROVE  View(p)' = View(p)
<1>0. /\ containers \subseteq Container
      /\ \A c \in containers : c.name = FullName[<<c.project, c.service>>]
      /\ req[r] \in Request /\ Project(r) \in Projects /\ LocalOK(req[r])
      /\ projectRows \in [Projects -> Nat] /\ rows \in [Projects -> Seq(Row)]
  BY DEF Inv, TypeInv, TypeOK, NamesOK, LocalsOK, Project, Request
<1>1. ASSUME UNCHANGED <<projectRows, rows, containers>>  PROVE View(p)' = View(p)
  BY <1>1 DEF View, OfProject
<1>2. ASSUME UNCHANGED <<projectRows, rows>>, OfProject(p)' = OfProject(p)
      PROVE  View(p)' = View(p)
  BY <1>2 DEF View
\* a container with a name of the project of r belongs to that project
<1>3. ASSUME NEW h, NEW s \in Services, NEW c \in Named(h, FullName[<<Project(r), s>>])
      PROVE  c \in containers /\ c.project = Project(r)
  <2>1. c \in containers /\ c \in Container /\ c.name = FullName[<<Project(r), s>>]
    BY <1>0, <1>3 DEF Named
  <2>2. c.project \in Projects /\ c.service \in Services
    BY <2>1 DEF Container
  <2>3. FullName[<<c.project, c.service>>] = FullName[<<Project(r), s>>]
    BY <1>0, <2>1
  <2> QED  BY <1>0, <2>1, <2>2, <2>3 DEF NamesTellProjects
<1>4. CASE create_project(r)
  <2>1. projectRows'[p] = projectRows[p] /\ UNCHANGED <<rows, containers>>
    BY <1>0, <1>4 DEF create_project
  <2> QED  BY <2>1 DEF View, OfProject
<1>5. CASE nap_from_dicts(r)
  <2>1. rows'[p] = rows[p] /\ UNCHANGED <<projectRows, containers>>
    BY <1>0, <1>5 DEF nap_from_dicts
  <2> QED  BY <2>1 DEF View, OfProject
<1>6. CASE create_container(r)
  <2>1. OfProject(p)' = OfProject(p)
    BY <1>6 DEF create_container, OfProject
  <2> QED  BY <1>2, <1>6, <2>1 DEF create_container
<1>7. CASE start_container(r)
  <2> DEFINE T == {c \in Labelled(CurrentHost(r), Project(r), CurrentService(r)) :
                     c.by = CurrentPlan(r).by}
             U == {[c EXCEPT !.status = "running"] : c \in T}
  <2>1. \A c \in T : c \in containers /\ c.project = Project(r)
    BY DEF Labelled
  <2>2. \A c \in U : c.project = Project(r)
    BY <1>0, <2>1 DEF Container
  <2>3. containers' = containers \/ containers' = (containers \ T) \cup U
    BY <1>7 DEF start_container
  <2> HIDE DEF T, U
  <2>4. OfProject(p)' = OfProject(p)
    BY <2>1, <2>2, <2>3 DEF OfProject
  <2> QED  BY <1>2, <1>7, <2>4 DEF start_container
<1>8. CASE stop_container(r) \/ remove_container(r)
  <2> DEFINE T == Named(req[r].at, CleanupName(r))
             stopped(c) == [c EXCEPT !.status = IF @ = "running" THEN "exited" ELSE @]
             U == {stopped(c) : c \in T}
  <2>1. req[r].todo # <<>> /\ req[r].todo \in Seq(Services)
    BY <1>0, <1>8 DEF stop_container, remove_container, LocalOK, Request
  <2>2. Head(req[r].todo) \in Services
    BY <2>1
  <2>3. \A c \in T : c \in containers /\ c.project = Project(r)
    BY <1>3, <2>2 DEF CleanupName
  <2>4. \A c \in U : c.project = Project(r)
    BY <1>0, <2>3 DEF Container
  <2>5. \/ containers' = containers
        \/ containers' = (containers \ T) \cup U
        \/ containers' = containers \ T
    BY <1>8 DEF stop_container, remove_container
  <2> HIDE DEF T, U
  <2>6. OfProject(p)' = OfProject(p)
    BY <2>3, <2>4, <2>5 DEF OfProject
  <2> QED  BY <1>2, <1>8, <2>6 DEF stop_container, remove_container
<1>9. CASE delete_rows(r) \/ delete_project(r) \/ delete_service(r)
  <2>1. /\ projectRows'[p] = projectRows[p] /\ rows'[p] = rows[p]
        /\ UNCHANGED containers
    BY <1>0, <1>9 DEF delete_rows, delete_project, delete_service
  <2> QED  BY <2>1 DEF View, OfProject
<1> QED
  BY <1>1, <1>4, <1>5, <1>6, <1>7, <1>8, <1>9 DEF Step, Create, Deploy, Cleanup,
     project_exists, path_exists, mkdir, clone_from, get_argv, replace_argv,
     config_load, convergence_plan, up_to_date, exec_create, read_service_list,
     locate, container_exists, DeployError, CleanupError, Crash

\* A step that changes a row or a container also moves its request on.
LEMMA StepIsSeen ==
    ASSUME Inv, NEW r \in Requests, Step(r), req'[r] = req[r]
    PROVE  UNCHANGED <<projectRows, rows, containers>>
<1>0. /\ req \in [Requests -> Request] /\ req[r] \in Request
      /\ Project(r) \in Projects /\ LocalOK(req[r])
  BY DEF Inv, TypeInv, TypeOK, LocalsOK, Project, Request
<1>1. ASSUME NEW pc, Goto(r, pc)  PROVE req[r].pc = pc
  <2>1. req'[r] = [req[r] EXCEPT !.pc = pc]
    BY <1>0, <1>1 DEF Goto
  <2> QED  BY <1>0, <2>1 DEF Request
<1>2. ASSUME NEW a, Return(r, a)  PROVE req[r].pc = "done"
  <2> DEFINE q == [req[r] EXCEPT !.pc = "done", !.result = a, !.i = 1,
                                 !.place = <<>>, !.plan = <<>>, !.todo = <<>>,
                                 !.at = NoHost]
  <2>1. req' = [req EXCEPT ![r] = q]
    BY Zenon, <1>2 DEF Return
  <2>2. q.pc = "done"
    BY <1>0 DEF Request
  <2> HIDE DEF q
  <2> QED  BY <1>0, <2>1, <2>2
<1>3. CASE create_project(r) \/ delete_rows(r) \/ delete_project(r) \/ delete_service(r)
  BY <1>1, <1>2, <1>3 DEF create_project, delete_rows, delete_project, delete_service
<1>4. CASE nap_from_dicts(r)
  <2>1. ASSUME NEW index,
               req' = [req EXCEPT ![r] =
                   [@ EXCEPT !.pc = IF LastService(r) THEN "plan" ELSE "place",
                             !.i = IF LastService(r) THEN 1 ELSE req[r].i + 1,
                             !.place = Append(req[r].place, index)]]
        PROVE  FALSE
    <3>1. req[r].pc = "place" /\ req[r].i \in Nat
      BY <1>0, <1>4 DEF nap_from_dicts, Request
    <3>2. /\ req'[r].pc = (IF LastService(r) THEN "plan" ELSE "place")
          /\ req'[r].i = (IF LastService(r) THEN 1 ELSE req[r].i + 1)
      BY <1>0, <2>1 DEF Request
    <3> QED  BY <3>1, <3>2
  <2> QED  BY <1>2, <1>4, <2>1 DEF nap_from_dicts
<1>5. CASE create_container(r)
  BY <1>1, <1>5 DEF create_container
<1>6. CASE start_container(r)
  <2>1. req[r].pc \in {"execute", "launch"}
    BY <1>6 DEF start_container
  <2>2. ~ NextService(r, "execute", "exec")
    <3> SUFFICES ASSUME NextService(r, "execute", "exec")  PROVE FALSE
      OBVIOUS
    <3>1. req[r].i \in Nat
      BY <1>0 DEF Request
    <3>2. /\ req'[r].pc = (IF LastService(r) THEN "exec" ELSE "execute")
          /\ req'[r].i = (IF LastService(r) THEN 1 ELSE req[r].i + 1)
      BY <1>0 DEF Request, NextService
    <3> QED  BY <2>1, <3>1, <3>2
  <2> QED  BY <1>1, <1>6, <2>2 DEF start_container
<1>7. CASE stop_container(r)
  BY <1>1, <1>2, <1>7 DEF stop_container
<1>8. CASE remove_container(r)
  <2>1. ~ NextName(r)
    <3> SUFFICES ASSUME NextName(r)  PROVE FALSE
      OBVIOUS
    <3>1. req'[r].pc \in {"rb_delete", "del_project", "locate"}
      BY <1>0 DEF NextName, AfterCleanup, Request
    <3> QED  BY <1>8, <3>1 DEF remove_container
  <2> QED  BY <1>2, <1>8, <2>1 DEF remove_container
<1> QED
  BY <1>3, <1>4, <1>5, <1>6, <1>7, <1>8 DEF Step, Create, Deploy, Cleanup,
     project_exists, path_exists, mkdir, clone_from, get_argv, replace_argv,
     config_load, convergence_plan, up_to_date, exec_create, read_service_list,
     locate, container_exists, DeployError, CleanupError, Crash

\* If names tell the projects apart, a project changes only in a step of a
\* request on that project: for any number of requests, in any interleaving
\* and with any failure.
THEOREM ProjectsAreIsolated ==
    ASSUME NamesTellProjects
    PROVE  Spec => Isolation
<1>1. Inv /\ [Next]_vars =>
        [\A p \in Projects :
           View(p)' # View(p) =>
             \E r \in Requests : req'[r] # req[r] /\ Project(r) = p]_vars
  <2> SUFFICES ASSUME Inv, Next, NEW p \in Projects, View(p)' # View(p)
               PROVE  \E r \in Requests : req'[r] # req[r] /\ Project(r) = p
    OBVIOUS
  <2>1. ~ UNCHANGED <<projectRows, rows, containers>>
    BY DEF View, OfProject
  <2>2. PICK r \in Requests : Step(r)
    BY <2>1 DEF Next, Upload, Begin, Terminating, vars
  <2> QED  BY <2>1, <2>2, StepIsLocal, StepIsSeen
<1> QED  BY <1>1, InvIsInvariant, PTL DEF Isolation, Spec
=============================================================================
