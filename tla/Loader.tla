------------------------------- MODULE Loader -------------------------------
(***************************************************************************)
(* config.load: the services of a compose file, each with what it extends  *)
(* merged in (ServiceLoader).                                              *)
(*                                                                         *)
(* A definition is named by the file and the name it is under.  Of a value *)
(* only its origin is kept: the definition that wrote it, and for a path   *)
(* the file it was made absolute against.  The calls of make_service_dict  *)
(* that wait for one another are the stack.                                *)
(***************************************************************************)
EXTENDS Naturals, Sequences, FiniteSets

CONSTANTS
    Files,           \* compose files
    Main,            \* the one that is loaded
    Override,        \* docker-compose.override.yml, in the directory of Main
    Names,           \* of services
    RecursionLimit   \* calls of make_service_dict Python lets wait

ASSUME MainAssumption == {Main, Override} \subseteq Files /\ <<>> \notin Files
ASSUME NamesAssumption == "host" \notin Names
ASSUME LimitAssumption == RecursionLimit \in Nat \ {0}

VARIABLES
    stage,     \* what is being done, or how it ended
    conf,      \* the definitions that are written in the files
    unloaded,  \* the services of Main still to load, in no order
    calls,     \* the definitions that extend one another, Main's first
    dict,      \* what the last call that ended returned
    loaded     \* the services loaded so far

lvars == <<stage, conf, unloaded, calls, dict, loaded>>

Nodes == Files \X Names
None == <<>>

\* what a definition may say; requires are links and volumes_from, net is the
\* service of net: container or another mode.  One that is not written stands
\* for the empty dictionary merge_services takes for a service that only the
\* override file has.
OtherMode == "host"
Modes == Names \cup {OtherMode}
Definition ==
    [written : BOOLEAN, extends : Nodes \cup {None},
     requires : SUBSET Names, net : SUBSET Modes,
     image : BOOLEAN, build : BOOLEAN, dockerfile : BOOLEAN,
     environment : BOOLEAN, env_file : BOOLEAN, volumes : BOOLEAN, ports : BOOLEAN]

Nothing ==
    [written |-> FALSE, extends |-> None, requires |-> {}, net |-> {},
     image |-> FALSE, build |-> FALSE, dockerfile |-> FALSE,
     environment |-> FALSE, env_file |-> FALSE, volumes |-> FALSE, ports |-> FALSE]

Path == [by : Nodes \cup {None}, against : Files \cup {None}]
Dict ==
    [requires : SUBSET Names, net : SUBSET Modes,
     image : Nodes \cup {None}, dockerfile : Nodes \cup {None},
     environment : Nodes \cup {None}, env_file : Nodes \cup {None},
     build : Path, volumes : Path, ports : Seq(Nodes)]

NoPath == [by |-> None, against |-> None]

\* the service_dict of the definition at n
Written(n) ==
    LET d == conf[n]
        By(has) == IF has THEN n ELSE None
        PathBy(has) == [by |-> By(has), against |-> None]
    IN
    [requires |-> d.requires, net |-> d.net,
     image |-> By(d.image), dockerfile |-> By(d.dockerfile),
     environment |-> By(d.environment), env_file |-> By(d.env_file),
     build |-> PathBy(d.build), volumes |-> PathBy(d.volumes),
     ports |-> IF d.ports THEN <<n>> ELSE <<>>]

(***************************************************************************)
(* Merging                                                                 *)
(***************************************************************************)
Prefer(override_value, base_value, absent) ==
    IF override_value # absent THEN override_value ELSE base_value

\* Mutant: the lists are joined the other way round.
merge_service_dicts_mutant(base, over) ==
    [requires |-> Prefer(over.requires, base.requires, {}),
     net |-> Prefer(over.net, base.net, {}),
     image |-> IF over.build.by # None THEN over.image
               ELSE Prefer(over.image, base.image, None),
     dockerfile |-> Prefer(over.dockerfile, base.dockerfile, None),
     environment |-> Prefer(over.environment, base.environment, None),
     env_file |-> Prefer(over.env_file, base.env_file, None),
     build |-> IF over.image # None THEN over.build
               ELSE Prefer(over.build, base.build, NoPath),
     volumes |-> Prefer(over.volumes, base.volumes, NoPath),
     ports |-> over.ports \o base.ports]

\* an image replaces what was to be built, and the other way round
merge_service_dicts(base, over) ==
    [requires |-> Prefer(over.requires, base.requires, {}),
     net |-> Prefer(over.net, base.net, {}),
     image |-> IF over.build.by # None THEN over.image
               ELSE Prefer(over.image, base.image, None),
     dockerfile |-> Prefer(over.dockerfile, base.dockerfile, None),
     environment |-> Prefer(over.environment, base.environment, None),
     env_file |-> Prefer(over.env_file, base.env_file, None),
     build |-> IF over.image # None THEN over.build
               ELSE Prefer(over.build, base.build, NoPath),
     volumes |-> Prefer(over.volumes, base.volumes, NoPath),
     ports |-> base.ports \o over.ports]

\* environment and env_file become one
resolve_environment(d) ==
    [d EXCEPT !.environment = Prefer(d.environment, d.env_file, None),
              !.env_file = None]

\* relative paths become absolute; an absolute one stays what it is
process_container_options(d, file) ==
    LET Resolve(path) == IF path.by # None /\ path.against = None
                         THEN [path EXCEPT !.against = file] ELSE path
    IN [d EXCEPT !.build = Resolve(@), !.volumes = Resolve(@)]

\* service_schema.json: an image or a build, and no dockerfile with an image
SchemaAllows(d) ==
    \/ d.build.by # None /\ d.image = None
    \/ d.image # None /\ d.build.by = None /\ d.dockerfile = None

\* validate_extended_service_dict
Extendable(d) == d.requires = {} /\ d.net \cap Names = {}

(***************************************************************************)
(* ServiceLoader                                                           *)
(***************************************************************************)
Top == calls[Len(calls)]

\* merge_services: only the service that is loaded meets the override file, the
\* ones it extends are read from their files again
Overrides(waiting) ==
    IF Len(waiting) = 1 THEN {<<Override, waiting[1][2]>>} \cap DOMAIN conf ELSE {}
ExtendsOf(waiting) ==
    LET n == waiting[Len(waiting)]
        overriding == {o \in Overrides(waiting) : conf[o].extends # None}
    IN IF overriding = {} THEN conf[n].extends
       ELSE conf[CHOOSE o \in overriding : TRUE].extends
service_dict(waiting) ==
    LET n == waiting[Len(waiting)] IN
    IF Overrides(waiting) = {} THEN Written(n)
    ELSE merge_service_dicts(Written(n),
                             Written(CHOOSE o \in Overrides(waiting) : TRUE))

\* signature() pairs each file with the name of the first service: the loader
\* of an extended service is given that name
AlreadySeen == {<<calls[i][1], calls[1][2]>> : i \in DOMAIN calls}

LoadEnds(how) == stage' = how /\ UNCHANGED <<unloaded, calls, dict, loaded>>

load_service ==
    /\ stage = "load" /\ calls = <<>>
    /\ \/ unloaded = {} /\ stage' = "sort" /\ UNCHANGED <<unloaded, calls>>
       \/ \E name \in unloaded :
            /\ calls' = <<<<Main, name>>>>
            /\ unloaded' = unloaded \ {name}
            /\ UNCHANGED stage
    /\ UNCHANGED <<conf, dict, loaded>>

\* validate_extended_service_exists reads the file of the target alone
IsWritten(target) == target \in DOMAIN conf /\ conf[target].written

\* Mutant: the signatures are not looked at.
resolve_extends_mutant ==
    LET target == ExtendsOf(calls) IN
    /\ stage = "load" /\ calls # <<>> /\ dict = None
    /\ target # None
    /\ IF ~IsWritten(target) THEN LoadEnds("refused")
       ELSE IF Len(calls) = RecursionLimit THEN LoadEnds("crashed")
       ELSE calls' = Append(calls, target) /\ UNCHANGED <<stage, unloaded, dict, loaded>>
    /\ UNCHANGED conf

\* go on to the service the last one extends
resolve_extends ==
    LET target == ExtendsOf(calls) IN
    /\ stage = "load" /\ calls # <<>> /\ dict = None
    /\ target # None
    /\ IF ~IsWritten(target) THEN LoadEnds("refused")
       ELSE IF target \in AlreadySeen THEN LoadEnds("circular")
       ELSE IF Len(calls) = RecursionLimit THEN LoadEnds("crashed")
       ELSE calls' = Append(calls, target) /\ UNCHANGED <<stage, unloaded, dict, loaded>>
    /\ UNCHANGED conf

\* one that extends nothing
make_service_dict ==
    /\ stage = "load" /\ calls # <<>> /\ dict = None
    /\ ExtendsOf(calls) = None
    /\ dict' = process_container_options(resolve_environment(service_dict(calls)), Top[1])
    /\ UNCHANGED <<stage, conf, unloaded, calls, loaded>>

\* back to the service that extends it, whose own dictionary is merged as it
\* was written; the last result is validated
return_dict ==
    /\ stage = "load" /\ calls # <<>> /\ dict # None
    /\ IF Len(calls) = 1
       THEN IF SchemaAllows(dict)
            THEN /\ loaded' = [n \in DOMAIN loaded \cup {Top[2]} |->
                                 IF n = Top[2] THEN dict ELSE loaded[n]]
                 /\ calls' = <<>> /\ dict' = None
                 /\ UNCHANGED <<stage, unloaded>>
            ELSE LoadEnds("refused")
       ELSE IF ~Extendable(dict) THEN LoadEnds("refused")
       ELSE LET below == SubSeq(calls, 1, Len(calls) - 1) IN
            /\ calls' = below
            /\ dict' = process_container_options(
                          merge_service_dicts(dict, service_dict(below)),
                          below[Len(below)][1])
            /\ UNCHANGED <<stage, unloaded, loaded>>
    /\ UNCHANGED conf

Load == load_service \/ resolve_extends \/ make_service_dict \/ return_dict
=============================================================================
