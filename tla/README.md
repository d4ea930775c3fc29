# Verification of nap-core

nap-core deploys multi-container applications ("projects") on a cluster of
Docker hosts. It is a rewrite of Docker Compose 1.5: a Python API (`nap_api`)
stands in front of it, each user's projects are recorded in a MySQL database of
that user, and the containers of one project may be spread over several hosts.

This directory holds TLA+ models of the parts of nap-core that keep state, the
TLC configurations that check them, and proofs for TLAPS. `PROJECT.json` maps
every definition to the lines it models and lists the hazards, the runs, the
mutants and the theorems. Paths below are relative to `src/orchestration/`
unless they say otherwise.

## 1. Inventory

| component | state it keeps | operations | model |
|---|---|---|---|
| `nap_api/project_create.py`, `nap_api/app_info.py`: requests on projects | the project directory and its compose file; the locals of a request | create from a URL, from the file browser, from a file; replace arguments; destroy; status, port, logs | `Deployment`, `ComposeFile` |
| `nap_api/app_info.py`: users | a volume container on each machine, a network, a directory | `create_user`, `delete_user` | `Accounts` |
| `database/database_update.py`: the user's tables | `project`, `service`, `machine`, `info`; the database and its account | inserts, deletes, `machine_ip`, `roll_back`; create and drop | `Deployment`, `Accounts` |
| `project.py`: Project | the list of Service objects, each with the client of one host | `nap_from_dicts`, `up`, `get_services`, `sort_service_dicts`, start, stop, ... | `Deployment`, `Dependencies`, `Commands` |
| `service.py`: Service | the containers with their labels | plans and their execution, recreation, duplicates, `scale`, `start`, `restart`, `pause`, `unpause`, one-off containers; names, labels, volumes | `Convergence`, `Commands`, `CreateContainer`, and in part `Deployment` |
| `container.py`: Container | one container as docker-py returns it | start, stop, rename, remove | records in all of these |
| `utils.py` | threads, a queue, counters; a stream and its rest | `parallel_execute`; `split_buffer` | `ParallelExecute`; `Multiplexer` |
| `cli/new_main.py`, `cli/command.py`: commands | none | parse options, call one method of Project | `Commands`; `config_load` of `Deployment` |
| `cli/multiplexer.py`, `cli/log_printer.py` | threads and a queue | merge the logs of containers | `Multiplexer` |
| `config/`: compose files | a stack of files while `extends` is resolved | load, extend, merge, validate; find, interpolate | `Loader` (the first four) |
| `legacy.py` | none | look for containers of Compose 1.2, which it never finds (section 5) | not modelled |
| `src/health_check/` | none | copy the status of containers to consul, for ever | not modelled |
| `volume.py`, `network.py`, `log/`, formatting | none, or read only | names, reading a file | not modelled |
| `dashboard/`, `create_from_table.py` | | neither parses as Python | not modelled |
| `src/moosefs`, `src/security_certificate`, `src/log`, `src/database` | | Dockerfiles and notes | not modelled |

How they interact. A request handler runs from its first line to its answer in
the thread or process that serves it. It calls the user's database (a new
connection for each call), the file system, and, through a Project and its
Services, one Docker daemon per service. **No lock is taken anywhere**: what one
request read may be stale when it acts, and two requests on one project
interleave call by call. `create_project_exceptions` turns seven kinds of
exception into `roll_back` and the answer False; any other exception leaves the
handler with everything half done. `destroy_project` has no handler at all.

What is hard, and what makes each part correct:

* **nap_api and the tables.** Four places must agree: table `project`, table
  `service`, the directory and the hosts. A service row is inserted *before* its
  container exists and names a host chosen at random; deploying again appends a
  second row while `machine_ip` reads the oldest. Correct means: the database
  finds every container (`Reachable`), a listed project is struck off only when its
  containers are gone (`StaysListed`), the answer tells the truth (`SuccessMeansUp`,
  `FailureMeansGone`, `DestroyMeansGone`), nobody touches another project
  (`Isolation`), and every request ends (`RequestsEnd`).
* **Service.** Recreating a container takes six calls; a failure between two of
  them leaves a container under a temporary name. Correct means: the next `up`
  gets through whatever was left (`NeverRefused`), data is never lost
  (`VolumesKept`), and a successful `up` ends with one running container of the
  right image (`Converged`), under its own name unless an earlier one failed (`NameKept`).
* **Commands on a service.** Any command may meet a container that another has
  created and not yet started, or stopped in order to recreate it. Correct means:
  a scale that nothing overlaps gives what was asked for (`Scales`) and loses no
  data (`VolumesSurvive`), no overlap leaves something half made
  (`NothingHalfMade`), and every command ends (`CommandsEnd`).
* **Compose files.** A service is put together from a chain of definitions in
  several files, then sorted, made, created and recreated. Correct means: every
  value comes from where a reader of the files expects (`LoadedAsWritten`), circles
  are refused (`CyclesRefused`), dependencies come first (`SortedByDependency`), a
  container is found again (`FoundByLabels`) and keeps its volumes
  (`VolumesCopied`).
* **Logs.** One thread per container, one queue, chunks cut anywhere. Correct
  means: each line once, whole and in order (`PrintedInOrder`), the exit last
  (`NothingLost`), and an end (`LoopEnds`).
* **Users and their files.** A dozen commands with no look at how they went; a
  file rewritten by way of a second one. Correct means: an answer is true and
  nobody is half made but by an error or a kill (`AccountsWhole`), no text is lost (`TextKept`), nothing is started with
  placeholders in it (`FilledIn`).
* **parallel_execute.** Threads answer in any order, some with exceptions.
  Correct means: no answer is lost (`Conserved`), the call ends (`CallEnds`), and
  it amounts to a loop over the objects (`ImplementsForEach`).

## 2. Modules

```
ProjectLifecycle <--- implemented by --- DeploymentLifecycle --EXTENDS--> Deployment
                                                                            ^
        MCDeployment --EXTENDS--> DeploymentLifecycle                       |
        DeploymentTurnsProofs --EXTENDS--> DeploymentProofs --EXTENDS-------+
        DeploymentTurnsProofs --EXTENDS--> DeploymentLifecycle
ForEach <--- implemented by --- ParallelExecute <-- MCParallelExecute, ParallelExecuteProofs
Convergence <-- MCConvergence, ConvergenceProofs
     ^                              ^
     +-- Commands <-- MCCommands    |
            ^                       |
            +------------- CommandsProofs
Loader <-- Dependencies <--+-- Compose <-- MCCompose, ComposeProofs
        CreateContainer <--+
Accounts    <--+-- UserSpace <-- MCUserSpace, UserSpaceProofs
ComposeFile <--+
Multiplexer <-- MCMultiplexer, MultiplexerProofs
```

### Deployment

One process per API request, one action per call that the handler makes to the
database, the file system or a Docker daemon; actions carry the names of the
functions they model. A member of `Projects` is a user together with a project
name, for every query runs in the user's own database. A member of `Services` is
a `container_name`: that is what the rows and the clean-up use.

| variable | in the code |
|---|---|
| `projectRows[p]` | the number of rows of table `project` with that name (nothing makes it unique) |
| `rows[p]` | the rows of table `service` for that project, oldest first, with the machine |
| `dirs[p]` | the directory: absent, without a compose file, with placeholders, ready |
| `containers` | what all daemons list, with name, labels and status |
| `req[r]` | program counter and locals of the handler: position in the service list, the client of each Service, plans, names still to clean up, the host looked at, the answer |

| actions | code |
|---|---|
| `project_exists`, `path_exists`, `mkdir`, `clone_from`, `create_project` | `project_create.py` 35-72 |
| `get_argv`, `replace_argv` | `project_create.py` 75-127 |
| `config_load`, `nap_from_dicts` | `cli/command.py` 141-178, `project.py` 110-189 |
| `convergence_plan`, `create_container`, `start_container`, `up_to_date`, `exec_create` | `project.py` 342-421, `service.py` 296-477 |
| `read_service_list`, `locate`, `container_exists`, `stop_container`, `remove_container` | `roll_back` and `destroy_project`, whose loops are alike |
| `delete_rows` | the one transaction at the end of `roll_back` |
| `delete_project`, `delete_service` | the two transactions at the end of `destroy_project` |
| `DeployError`, `CleanupError`, `Crash` | an exception that rolls back; one that nobody handles; any other exception or the death of the server |

How the code's own surprises are modelled:

* `random.randint(0,1)` picks the client whatever the number of machines: with
  one machine the index 1 raises IndexError, which no handler names.
* With an empty list of services `get_services` calls itself until Python
  raises RuntimeError, which no handler names either.
* `roll_back` deletes rows only if it found a service row.
* Docker refuses a second container of one name on one host, so the two
  deployments of one project may end in the roll-back of one of them.

Abstractions: rewriting a compose file is one action (`ComposeFile` takes it apart);
the compose file and image of a ready project do not change, so a plan is create,
start or noop here, and recreation is the subject of `Convergence`; the read-only
requests (status, port, logs, lists) change nothing and are left out.
What clients do is a set of constants: `Workload` (what they ask for),
`Exclusive` (never two requests on one project at a time), `Resubmit` (they may
deploy what is deployed), `Faults` (what may fail; `"torn"` is the death of the
server between the two deletes of `destroy_project`). Without `Resubmit` a client
does not ask for what `Redeploys` says would add second rows: `file` and `replace`, which
look at no table, and `filebrowser` for a project that is not listed, are held back
while the project still has service rows. Everything else the code allows is
allowed: a fresh upload is deployed by `create_project_from_file` and never listed,
and `replace_argv` follows a roll-back.

`ProjectLifecycle` is what a client may rely on: a project is absent, up, damaged
or changing; only a request at work changes it, and the answer tells its state.
`DeploymentLifecycle` gives the refinement mapping.

### Convergence

What `up` does to the containers of one service on one host: duplicates, plan,
execution, one action per call to the daemon, with a failure possible before each
of them. `containers` is the sequence of all containers ever created, so that
"older" is a smaller index, and `data` says whose volumes a container carries.
A rename gives up `own`, the `container_name`. Listing and inspecting is one
step; a container's process may end (`Exit`) only while no `up` is at work;
`image` stands for what the label config_hash covers, the options and the image
(`service.py` 503-510), and `Rebuild` may change it to any other value, an earlier one
included; the shell of `exec_create` is left out; `VolumesKept` takes
docker's inspect to return the volumes in the form `merge_volume_bindings` reads.

### Commands

The commands of `cli/new_main.py` on one service, next to each other and to the
`up` of `Convergence`, whose variables and actions it takes over. `cmd[c]` is one
command: where it is, what its loop has still to come to, what it found, whether a
call of a parallel phase was refused. A command lists the containers in its first
step, as the code does before it acts; each later call is an action.

| actions | code |
|---|---|
| `for_each`, `one_of_them` | `start`, `restart`, `pause`, `unpause`: `service.py` 164-196, `container.py` |
| `scale`, `list_stopped`, `in_parallel`, `join`, `next_number`, `create_number`, `start_number`, `remove_stopped` | `service.py` 198-294, 528-541 |
| `run`, `create_one_off`, `start_one_off` | `run` of `cli/new_main.py` with `create_container(one_off=True)` |
| `project_containers` | `stop`, `kill`, `rm`, ...: `self.client` of a nap project is a list, so they fail at their first call |

`parallel_execute` stands for what the run `parallel` and the theorem `Refines` say
of it: each object once, in any order, errors swallowed. What a reader of
`service.py` may not expect, and the module says: `scale` returns early when as many
run as desired, and then removes no stopped container, which its docstring
promises; a container it was refused to start is removed with the stopped ones;
after a recreation that failed between rename and create, `scale 2` followed by
`up` is refused, for two containers would take one name.

### Loader, Dependencies, CreateContainer, Compose

From a compose file to the options of a container. `conf` is what the files say: a
definition for each pair of file and service, one of them an override file, which
may have services that the main file has not (`Nothing` is the empty dictionary
`merge_services` then starts from).
Strings are left out: a value is known by the definition that wrote it, a path by
that and by the directory it was resolved against, so "which value wins" can be
compared with what a reader expects.

* `Loader` is `config.load`: `load_service`, `resolve_extends` and `return_dict` are
  the call and the return of one ServiceLoader, `calls` is the stack of files
  (`already_seen` with the waiting callers), `merge_service_dicts`,
  `resolve_environment`, `process_container_options` and `SchemaAllows` are the
  functions of the same names or what they check about image and build.
* `Dependencies` is `sort_service_dicts` with its recursion made a stack
  (`visiting`), then the loop of `nap_from_dicts` that makes the Services. The
  services come from a dictionary, whose order is Python's to choose: `unloaded`,
  `unmarked` and the dependents still to visit are sets, and any of them may be next.
* `CreateContainer` is what a service gives to Docker, and gets back: names,
  labels, `get_container_data_volumes`, `merge_volume_bindings`, numbers; Docker's
  part (which volume is mounted where) is as `service.py` counts on it. `edit`
  changes file and image between recreations.
* `Compose` puts them together: files that load and sort go on to be made, and a
  service that is alone in its file to be created and recreated.

What the code does here that its documentation does not lead one to expect:

* `detect_cycle` pairs every file of the chain with the *first* service's name. A
  circle that does not come back to that service ends in Python's RuntimeError,
  and a chain that does not repeat anything may be refused (run `circular`).
* When a service extends another, what was read from its own `env_file` is dropped
  (`config.py:241-249`, 299): the environment is resolved into a dictionary that
  is not the one merged.
* An image that replaces a build keeps the `dockerfile` next to it, which the
  schema then refuses.
* A service with any `net` dies in `nap_from_dicts` of a TypeError, as
  Service is called with `net` twice. `nap_from_dicts` gives every Service
  no links and no Service in volumes_from, so the dependencies by which
  `up` and `get_services` (`project.py` 423-444, 494-506) would order or refuse are
  always empty: only the order in which services are made depends on them.
* The override file is applied to the services of the main file and not to those
  read through `extends`.
* The volumes to copy are looked up in the image of the *old* container, so a host
  path the file now gives loses against a volume the old image declared.

### Multiplexer

`write` and `exit` are the containers; a reader gets any number of pieces of lines
at a time (`more_data`), cuts them (`put_line`, `end_of_stream`, from
`split_buffer`), waits for the exit and puts STOP; the loop takes one item at a
time and raises what a reader raised. A container whose log driver Docker cannot
read gives a warning instead. Readers are daemon threads: what they still hold
when the loop has raised is dropped, as in the code. Left out: colours and
prefixes, and KeyboardInterrupt, which ends the loop where it stands.

### Accounts, ComposeFile, UserSpace

`Accounts` is `create_user` and `delete_user`: one action per ssh command, which may
fail unseen, and per statement, whose failure ends the request. `docker run -v`
creates the directory it mounts; `drop user` of a user MySQL does not know is an
OperationalError. Two things follow that are the code's and not the model's: a
user whose creation died between `create database` and `create user` can neither
be created (he exists) nor deleted; and `rm -r` goes to the machine the loop
over machines ended with, so without shared directories the others keep theirs.
`torn` is history and no step reads it: an error or a kill between the first and the last statement
that makes or drops the user. With it `AccountsWhole` says exactly when a user may be half made.

`ComposeFile` is `get_argv` and `replace_string` of `project_create.py`, line by
line: tmp.yml is opened, lines are copied, docker-compose.yml is removed, tmp.yml
renamed. A line is its place in the text and the placeholders left in it.
`UserSpace` lets one server serve both in turn and die anywhere. There is no lock
here either, and two requests at a time on one compose file do mix their
tmp.yml: that is a limit of the model, stated in section 5.

### ParallelExecute

`parallel_execute` with a thread per object: the thread's call and its put, the
caller's starts, gets and end. `ThreadLimit` bounds the threads a process may have;
`Thread.start` raises above it. A get that times out is a stuttering step. An
APIError is printed and not raised: that is what the code says it does.
`ForEach` is the loop it stands for.

## 3. Runs

| run | what it asks | instance |
|---|---|---|
| `turns` | do the four places agree, and do the answers tell the truth, for clients that take turns? | 3 requests; `shop` with two services and placeholders, every operation, listed or not; `blog` with no services; 2 machines; Docker errors, failing clean-ups, kills anywhere (254 000 states) |
| `interleaved` | does every request end, and does no request touch another project, with no rules for clients at all? | 2 requests on the same or different projects, redeployment, all failures (84 000 states) |
| `names` | **violation** of `Isolation` when names collide | `shop` + `db-web`, `shop-db` + `web` |
| `again` | **violation** of `NameIsFreeAgain` | create, destroy, create from a URL |
| `parallel` | are answers conserved; is it a loop over the objects? | 4 objects, 3 threads at most, interrupts (30 000 states) |
| `converge` | does `up` repair what an earlier one left? | 3 ups in turn, 3 strategies, 3 values of config_hash, back and forth, failures (260 000 states) |
| `volumes` | **violation** of `VolumesKept` by two ups at a time | 3 ups, no failures |
| `commands` | do scales give what they promise, and does every command end, next to others and to an up? | 2 commands and an up on a service that is new or deployed; calls refused, deaths (201 000 states) |
| `compose` | do values come from where a reader expects, are circles refused and dependencies first, is no container or volume lost? | 4075 sets of files with 3 files and 3 services, one of them created 4 times (195 000 states) |
| `circular` | **violation** of `CircularIffRefused` | two services of two files |
| `logs` | is each line printed once, whole, in order, and does the loop end? | 2 containers, 2 pieces each, streams that fail (123 000 states) |
| `userspace` | is an answer true, who is left half made, and is no text lost, through failures, retries and deaths? | 2 machines with shared directories; a text of 4 lines with 2 arguments and the path (342 000 states) |

Why the bounds are enough for the cases that matter:

* `turns`: three requests allow create, a second create or replace, destroy; two
  services are needed for a failure *between* services and for two rows on two
  machines; two machines make the random choice matter. `blog` brings in the
  empty compose file. One machine, where the index is out of range, is not an
  instance; the theorems cover it.
* `interleaved`: two requests already give every pair of handlers in every order;
  one service per project keeps that in reach. `Resubmit` brings in the second
  row of a service.
* `converge`: the second up meets what the first left and the third what the
  repair left; with three images the configuration may change under a recreation that
  failed, to a third one or back to the first.
* `commands`: two commands and an up give every pair in every order and a third
  step after a failed one; scaling to 1 and 2 goes up, down and nowhere; `overlap`
  is chosen at the start, so that the same run covers commands in turn. One image
  and forced recreation: what depends on the image is the subject of `converge`.
* `compose`: two files with two services each that extend each other in every way
  (chains through both files, circles that come back to the first service and
  that do not), every mix of three bodies along a chain of three with an
  override file, and three services that require each other in every way, which
  has all circles of three; services that only the override file has, alone, extended
  and extending; both kinds of `net`. `RecursionLimit` (Python's is 1000) is above the length
  of any chain that repeats nothing. One path suffices for volumes, since paths do
  not influence each other; two host directories tell the old from the new.
* `logs`: two pieces give a line in one piece, in two, two lines in one chunk and a
  rest without an end.
* `userspace`: two machines tell "one of them" from "all"; two arguments need two
  rounds of rewriting; the text has a line with everything, one with an argument
  again, one with nothing.
* `parallel`: four objects and three threads make the limit bite with an answer
  on the queue, a thread calling and one putting at the same time.

Every property of a passing run has a mutant in `PROJECT.json`: a plausible bug in
one mapped definition, with which the run reports the property violated.

Symmetry is used for requests and ups in runs without liveness. `turns` checks a
refinement under symmetry of `Requests`; the abstract specification treats all
requests alike and has no fairness, so that is sound. Deadlock is checked
everywhere; `Terminating` and `Terminated` are the states where clients leave it
at that.

### What the violations mean

* `names`: user, project and service names are joined with `-` and may contain it
  (`project.py:165`). Two services of different projects then share a container name, Docker
  refuses the second, and the roll-back that follows removes the *first*, of
  another project. docs/index.md:76 promises isolation by project name.
* `again`: `destroy_project` keeps the directory (the rmtree is commented out,
  `app_info.py:102`), and a create from a URL refuses a name whose directory exists.
* `volumes`: the container that one `up` has just recreated carries the number of
  the old one, so another `up` removes it as a duplicate; the first then removes
  the old one. docs/index.md:93-96 promises that volumes are kept.
* `circular`: f1.a extends f2.b, which extends f2.a, which extends nothing. The chain
  comes to `a` of a second file, the cycle check takes it for the first
  service, and the file is refused. docs/compose-file.md:188-190 allows it.

Two differences from the documentation have no run, for they can be read off one line
or one comparison. `create_project_from_file` inserts no row into table `project`
(orchestration/README.md lists it as a way to create a project). And after a
recreation that failed between rename and create, an `up` that finds no reason to
recreate starts the container under its temporary name and reports success: when
recreating is ruled out, and also in a plain `up` after the file or the tag has been
put back, for the config_hash then matches again. `NameKept` names this exception.

### Fairness

`FairSpec` of `Deployment` assumes weak fairness of the steps of each request: a
handler is a sequential program whose every call returns or raises, since docker-py
and MySQLdb time out. Nothing is assumed of clients, of uploads or of any
particular failure. `FairSpec` of `ParallelExecute` assumes that each thread and
the caller are scheduled; nothing is assumed of interrupts. `Convergence` states no
liveness. `CommandsFairSpec` assumes weak fairness of the steps of each command and
each up, for the same reason as `Deployment`. `FairSpec` of `Compose` is about one
thread that waits for nothing; `FairSpec` of `Multiplexer` about the loop and each
reader thread. Nothing makes a container write or exit, so `LoopEnds` speaks of
containers that have exited. `UserSpace` states no liveness.

## 4. Proofs

TLAPS checks these for every value of the constants that satisfies the ASSUMEs of
the module, which say no more than the types of the constants and that there is
at least one machine, one image or one thread.
(`ClientListAssumption` of `Accounts` says that `client_list` is a list that is not
empty; it is written down in `config/__init__.py`. `ConfigurationsAssumption` of
`Compose` says that a set of compose files is finite and that the one that is loaded
has a service, and that the main file has an entry, `Nothing` if it is not written, for
what the override file has; `MainAssumption` of `Loader` that `None` is not the name of
a file, and `NamesAssumption` that `host`, which stands for a `net` of its own, is not
the name of a service.)

| theorem | under | shows |
|---|---|---|
| `DeploymentProofs!TypeCorrect` | nothing more | types of tables, directories, containers and locals |
| `DeploymentProofs!ProjectsAreIsolated` | `NamesTellProjects`: services of different projects have different full names | `Isolation`, with any interleaving and failure |
| `DeploymentTurnsProofs!EveryContainerIsReachable`, `ListedUntilGone`, `FailureLeavesNothing`, `DestroyLeavesNothing` | `TakeTurns`, `DistinctServices` | `Reachable`, `StaysListed`, `FailureMeansGone`, `DestroyMeansGone` |
| `DeploymentTurnsProofs!SuccessLeavesAllRunning` | those and `NamesTellServices`: full names are distinct | `SuccessMeansUp` |
| `DeploymentTurnsProofs!Implements` | the same three | `ImplementsLifecycle`: the requests implement `ProjectLifecycle` |
| `ConvergenceProofs!TypeCorrect` | nothing more | types, with ups that overlap |
| `ConvergenceProofs!UpsAreNeverRefused`, `VolumesAreKept`, `UpConverges`, `NameIsKept` | `Exclusive` | `NeverRefused`, `VolumesKept`, `Converged`, `NameKept` |
| `CommandsProofs!CommandsTypeCorrect`, `NothingIsHalfMade` | nothing more | types, `NothingHalfMade`, with any overlap |
| `CommandsProofs!ScalesAreExact` | nothing more; the property is about scales that nothing overlaps | `Scales`, whatever ups and other commands have left, for any number |
| `CommandsProofs!NoVolumesAreLost` | `0 \notin Desired`: nobody scales to zero, which removes all containers by request | `VolumesSurvive`, for any sequence of commands and ups, any containers |
| `UserSpaceProofs!TextIsKept`, `NothingLeftToFill` (and `FilesTyped`) | `TextAssumption` only: the path is no argument | `TextKept`, `FilledIn` (and the types) for every text and every set of arguments |
| `UserSpaceProofs!UserTypeCorrect`, `AccountsAreWhole` | nothing more | types, `AccountsWhole`, for any list of machines, with shared directories or not |
| `UserSpaceProofs!ImplementsFiles` | nothing more | `UserSpace` implements `FileSpec` of `ComposeFile`; hence `UserTextIsKept` and `UserNothingLeftToFill`: `TextKept` and `FilledIn` with the account's requests around them |
| `MultiplexerProofs!TypeCorrect`, `LinesInOrder`, `NothingIsLost` | nothing more | types, `PrintedInOrder`, `NothingLost`, for any containers and streams of any length |
| `ComposeProofs!TypeCorrect` | nothing more | types of what is loaded, sorted and created |
| `ComposeProofs!ReadAsItIsWritten` | nothing more | `LoadedAsWritten`, for any files, services and chains of `extends` of any length |
| `ComposeProofs!CircularNeverLoaded` | `EnoughStack`: the files have no more definitions than calls Python lets wait; only what is said of "crashed" needs it | `CyclesRefused` |
| `ComposeProofs!DependenciesFirst` | nothing more | `SortedByDependency`, for any services that require each other in any way, in any order of the dictionary |
| `ComposeProofs!ContainersAreFound`, `VolumesAreCopied` | nothing more | `FoundByLabels`, `VolumesCopied`, for any labels, paths, images and edits |
| `ParallelExecuteProofs!TypeCorrect`, `AnswersAreConserved`, `Refines` | nothing more | types, `Conserved`, and that it implements `ForEach` |

**Deployment, any clients.** `Inv` is `TypeOK`, `LocalsOK` and `NamesOK`, the last
saying that a container carries the full name of its project and service. `LocalsOK`
(positions within the lists they point into) is a part of the induction and no
property by itself; `Isolation` needs `NamesOK`, because a clean-up removes
by name and a plan selects by label, and only together do they say that what is
removed belongs to the project. `names` shows that `NamesTellProjects` cannot be dropped.

**Deployment, clients in turn.** `TakeTurns` is `Exclusive` and not `Resubmit`; every
failure is allowed, and projects need not be listed. `Reachable` is far from
inductive: whether the row that a handler inserts is the oldest of its name
depends on what the table held when the handler began. `TurnsInv` therefore adds
that a project with rows has a directory (`Uploaded`) and, for each request (`InTurn`):
no service row until it places services (`NothingPlaced`), which for each entry
point follows from another look at the tables or the directory (`MayDeploy`); the
rows are those of the services it has placed (`PlacedInOrder`); the database names the host of every
Service it made (`HostsKnown`); a clean-up still has to come to every container
there is (`NoneForgotten`) and looks where the database says (`LooksThere`); the
rows go after the containers (`RowsGoLast`); and the handlers do not mix
(`RightHandler`, `Unlisted`). The proof first shows that a step changes only the state of its own
request (`StepIsOwn`) and leaves the rows of other projects alone and adds no
container there (`StepSparesOthers`; with colliding names it may *remove* one,
which these theorems survive), then takes the actions one by one: `RowAdded` for the
insert, `FoundThere` for the clean-up. Full names need not be distinct for
the first four theorems, only `container_name`s within a project.
`SuccessMeansUp` needs the shell invariant `ShellInv` besides: when the handler
gives the services their shells (`exec_create`), every service up to the present
one runs where the database says.

`Implements` takes the steps of the code to those of `ProjectLifecycle`. A request
that is not at work touches neither rows nor containers and can only be refused or
die; one at work stays so until it is answered (`HowItMoves`). Nobody else is at work
on the project (`NobodyElse`), and its own steps leave the state of the other projects
alone (`StepKeepsStates`, by isolation). So going to work is `Take`, being refused
`Decline`, and being answered `Finish`, with the state that `FailedIsGone`,
`DestroyedIsGone` and `SucceededIsUp` say; all other steps stutter.

**ParallelExecute.** `IInv` adds to the types that threads start in order and that
the answers add up: a queued answer's thread has ended, and the dictionary of
errors holds exactly the failures whose answers were counted. From these the end
of the loop, `done = N`, means that every object was acted on, which is the
refinement step.

**ComposeFile.** `FileInv` is the types and three parts. `FilesOK`: tmp.yml always
holds a beginning of the text, the whole of it once docker-compose.yml is gone,
and only a request at work has both. `HandlerOK` relates the request to its step.
`Bounded` bounds the placeholders of every line of each file by what was found, what
the user was asked for and what is still to be filled in; without the conjunct
that follows an argument from `given` by way of `key` into the file, `FilledIn` is
not inductive. `CopyKeepsInv`, `RenameKeepsInv` and `OpenKeepsInv` are the steps that
write; `TextKept` follows from the invariant before and after a step.

**Convergence, ups in turn.** `NeverRefused` is no invariant by itself: what an up
meets depends on where the last one broke off. `InTurn` says, step by step, what there is
(`WhereItIs`): when an up replaces a container there are exactly the two, when it
removes duplicates all but one of the containers are still to go. Between ups,
all containers are copies of the first (`AllAlike`: number and data 1), so that two
of them are duplicates of each other and the next up takes one away; it is this
that makes it safe to leave both. `StepInTurn` shows for every step that the
invariant holds again, that the daemon refused nothing, and, if the step answers
"ok", that one container runs, of the image seen (`Delivered`). `Named`, for
`NameKept`: as long as no up has failed (`NoneFailed`), every container has the name
but the one the up at work is replacing (`Replaced`). An up that has created a container has
given it the name, so only one that created none, after a failure, is left to `NameKept`'s exception.

**Commands.** `HalfMadeInv` gives each container that was created and not started
somebody who starts it with his next call (`SomebodyStarts`, `SomebodyStartsOneOffs`).
Another command may remove or start it in between, which does no harm; the
invariant only speaks as long as nothing has gone wrong, and `CommandStaysWrong` and
`UpStaysWrong` say that this cannot be forgotten.

**Commands, in turn.** Two invariants speak of commands and ups given one after the
other (`OneAtATime`). `ScalesInv` keeps the account of a scale (`Counts`): the
containers that run, with those still to be started, created or stopped, are as
many as it was asked for, and when it removes, what does not run is what it still
has to remove. `VolumesInv` says which containers have the volumes of the first one
(`Firsts`): those with the least number, so a command that chooses by number, and
starts from the lowest or stops from the highest, leaves one of them (`LowestIsFirst`).
There is a container without the volumes only when an up failed after it had given
the old one a temporary name, for only then is the name free to create another
(`OneOther`). `UpKeeps` and `CommandKeeps` say for each step that what is about to be
removed is not the last of the first. The proof attempt corrected the property:
beyond the bounds of the run, two ups that fail lose the volumes. The first fails
after renaming; `scale 2` creates number 2 under the free name; the second renames
number 2 and fails; container 1 exits; `scale 1` then removes container 1, since the one
that runs is enough. Hence `VolumesSurvive` now speaks of at most one failed up.

**Accounts and UserSpace.** `AccountInv` has a line for every step of `create_user`
(`Creating`) and `delete_user` (`Deleting`): what the steps before it have made or
removed *if none of their commands failed*, and whether the
database knows him. `TornIs` adds that only a torn user is half made outside the
three steps. The loops over machines keep that a machine is done or left.
`ImplementsFiles` is a refinement by projection: a step of `UserSpace` is a step of
`ComposeFile`, or of the account alone, or removes the directory with the files, which
`ComposeFile` allows as the client's own doing when no request is at work.

**Multiplexer.** `MInv` says of each container that what is printed, what is queued
and what its reader still holds are, in this order, one run of consecutive lines
(`Order`), that all lines up to the reader's position are somewhere in that run
(`Covered`), and that an exit is put and printed once and last (`Announced`, `ItemOK`).
`PrintedInOrder` compares what was printed of a container with `UpTo`, the lines up to
some position, so neither statement needs a recursive definition.

**Compose, loading.** `LoadOK` is the types, with the stack: the calls that wait are
definitions of the files, the first one Main's. `ChainOK` says that each of them
extends the next, and that no service is loaded from a circular chain. Since the
cycle check looks at names it is no help in the proof that what is loaded is not
circular: a call returns only after the last one extends nothing, and from there the
chain is not circular going back. That a crash means a circle is the
pigeonhole principle: a chain with more calls than there are definitions repeats
one (`TooDeep`).

**Compose, meaning.** `LoadedAsWritten` compares the result of nested merging with a
definition that knows nothing of it, over the chain as a sequence (`Writers`). The
bridge is `Means`: a dictionary says what a sequence of definitions, nearest first,
says, if each value is that of the first definition that has one and the ports are
all of theirs from the far end. `WrittenMeans` gives it for one definition,
`MergeMeans` for a merge: merging a dictionary that means V over one that means
W gives one that means V followed by W. `WrittenOK` carries this through the stack: the
dictionary that is returned means the rest of the chain from the call that waits, so
when the first call returns, it means all of it. The sequence that `Chain`
computes is the one on the stack (`ChainIs`). `MergeMeans` holds only because
`merge_service_dicts` drops an image under a build and a build under an image
together; for `dockerfile` and `env_file`, which it does not treat alike, no such
statement is made (section 2 says what happens to them).

**Compose, sorting.** `SortOK` has four parts. `SortedOnce`: no service is in the list
twice, and what is in it is unmarked no longer. `InOrder`: whatever requires a sorted
service is sorted too, and stands after it. `WaitingOK`: each call of `visit` that waits
is for a service that requires the one of the call before it, and those of its
dependents it has already visited are sorted or waiting. `MadeOK`: the services
made are the beginning of the list. `CircleFound` takes the waiting calls from the one
that is met again to be the circle.

**Compose, creating.** `CreateOK` is that every container has the labels of its kind:
`LabelsAreOurs` shows that Compose's labels win over the user's, so `Matches` can tell
the two kinds apart. `VolumesCopied` is an action property, proved from the same
invariant: `Recreated` and `FirstCreated` compute what the one new container of a step
mounts.

**Least elements.** The provers take no induction rule with an operator as its
parameter, but the library also states well-foundedness of `Nat` for *relations*.
From it `ConvergenceProofs` proves `LeastNat` (a set of numbers has a least one),
`Successors` (the induction rule for a set) and `GreatestValue` (a function on 1..n to
Nat has a greatest value), which is what the CHOOSE in `Oldest` and `NextNumber` needs.

Only model-checked: `RequestsEnd`, `CallEnds`, `CommandsEnd`, `LoopEnds` and `ComposeEnds`
(liveness is out of the prover's reach). Every other property of a passing run is a
theorem.

## 5. What is not covered

* The death of the server between the two deletes of `destroy_project` leaves the
  service rows of a project that is not listed. No container is left by then, so all
  properties of `turns` hold, but the client, who sees no such project, has to
  destroy it once more before he deploys it again: a deployment over the old rows
  (`Resubmit`) is looked for on their machines.
* A project deployed by `create_project_from_file` is never in table `project`. No
  property asks that a project with services be listed, since that is not what the code does.
* Commands reach this code only from hand-written calls: `cli/new_main.py`
  dispatches nothing but `up -d` through `docopt_command.py`. So all of `Commands`, the
  merging of attached logs and most uses of `parallel_execute` are the library's side
  of nap-core. Every nap command would besides run `nap_from_dicts` again, which
  inserts new rows and chooses new hosts at random; `Commands` and `Convergence` stay on
  one host, where the containers of the service are.
* `RequestsEnd` takes every call to return or raise. `git clone` in
  `create_project_from_url` has no timeout, so a server that never answers it is not
  covered; and a request that dies of an exception nobody handles counts as ended.
* `legacy.py`: `check_for_legacy_containers` looks for `<project>_<service>_N`, but a
  service is already called user-project-service when it is made (`project.py:165`),
  so containers of Compose 1.2 are never recognised and the check changes nothing. An
  upgraded project therefore gets a second set of containers.
* Clients that run two requests on one project at a time get no promise about
  answers: each property of `turns` about rows, containers and answers fails without `Exclusive`, because
  the code takes no lock. That is why they are stated for clients that take turns.
* `Project.client` is a list here, so the inherited `Project.containers`, `stop`,
  `kill` and `remove_stopped` fail at their first call: they are
  `project_containers` of `Commands`. An attached `up` dies there too when it ends,
  and its containers go on running, though its docstring says they are stopped.
  `cli/main.py` is the older copy of `cli/new_main.py`: its `get_project` uses a name
  that is not defined, so it is not modelled.
* Properties of `Commands` about numbers and data hold of commands in turn
  (`overlap = 1`); when they overlap, a scale may remove the container whose volumes
  are being copied, and two scales may give two containers one number (Docker
  then refuses the second, as they have one `container_name`).
* `UserSpace` serves one request at a time. With two on one compose file, one may
  remove what the other is about to rename. It takes the machines to share the
  users' directories, as `client_list` is used with MooseFS.
* Of `config/`: the search for the file, interpolation and the bulk of the schema
  compute a value from a value and keep no state. `LoadedAsWritten` says nothing of
  `env_file` and `dockerfile`, whose values the code loses or keeps as section 2 tells. The values of `environment`,
  `ports` and `volumes` are one item each.
* `migrate_project_to_labels` asks the Project for its containers and fails at
  once. `volume.py` and `network.py` compute names; `log/` reads a file;
  formatting is layout.
* `src/health_check`: `update_status.py` copies statuses to consul for ever and keeps
  nothing; `heart_beat.py` uses an undefined name and dies when it is imported.
  `dashboard/mpi.py` and `create_from_table.py` do not parse. `set_net` and `set_volume` of
  the database module are never called.

## 6. Plan

Done: all modules above, their runs, and the theorems of section 4. What is worth
proving next needs no new property of a run:

* the theorems under `TakeTurns` and `Exclusive` for requests that overlap on
  *different* services (`Deployment` has them for different projects; `Convergence` has
  one service);
* the composition of `Commands` with `ParallelExecute`, which now rests on reading
  `Refines` and the phases of `Commands` side by side.
