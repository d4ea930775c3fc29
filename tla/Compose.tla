------------------------------ MODULE Compose -------------------------------
(***************************************************************************)
(* From a compose file to containers: the file is loaded (Loader), its     *)
(* services are sorted and made (Dependencies), and a service creates its  *)
(* containers (CreateContainer).                                           *)
(***************************************************************************)
EXTENDS Dependencies, CreateContainer

CONSTANT Configurations  \* what may be written in the files

ASSUME HostsAssumption == Main \in Hosts /\ Paths # {}
ASSUME ConfigurationsAssumption ==
    \A c \in Configurations :
       /\ DOMAIN c \subseteq Nodes /\ IsFiniteSet(DOMAIN c)
       /\ \E name \in Names : <<Main, name>> \in DOMAIN c
       /\ \A n \in DOMAIN c : c[n] \in Definition
       \* merge_services: a service of the override file has one in Main, which
       \* says nothing if it is not written there
       /\ \A name \in Names :
             <<Override, name>> \in DOMAIN c => <<Main, name>> \in DOMAIN c
       /\ \A n \in DOMAIN c : ~c[n].written =>
             c[n] = Nothing /\ n[1] = Main /\ <<Override, n[2]>> \in DOMAIN c

pvars == <<lvars, dvars, ccvars>>

Init ==
    /\ stage = "load"
    /\ conf \in Configurations
    /\ unloaded = {name \in Names : <<Main, name>> \in DOMAIN conf}
    /\ calls = <<>> /\ dict = None /\ loaded = <<>>
    /\ unmarked = {} /\ visiting = <<>> /\ sorted = <<>> /\ made = <<>>
    /\ options = [volumes |-> [p \in Paths |-> Absent], labels |-> {}]
    /\ image_volumes = {} /\ created = <<>> /\ made_volumes = 0

\* A service that is alone in its file goes on to be created: what it wrote of
\* volumes is one path, bound to the directory it was resolved against
Alone == Cardinality(DOMAIN conf) = 1
up ==
    /\ stage = "done" /\ Alone
    /\ stage' = "up"
    /\ options' = [options EXCEPT !.volumes =
                     [p \in Paths |->
                        IF p = (CHOOSE q \in Paths : TRUE)
                           /\ loaded[Head(made)].volumes.by # None
                        THEN HostVolume(loaded[Head(made)].volumes.against)
                        ELSE Absent]]
    /\ UNCHANGED <<conf, unloaded, calls, dict, loaded, dvars,
                   image_volumes, created, made_volumes>>

Terminated ==
    /\ stage \notin {"load", "sort", "sorting", "making"}
    /\ UNCHANGED pvars

Next ==
    \/ Load /\ UNCHANGED <<dvars, ccvars>>
    \/ Sort /\ UNCHANGED ccvars
    \/ up
    \/ stage = "up" /\ ContainerStep /\ UNCHANGED <<lvars, dvars>>
    \/ Terminated

Spec == Init /\ [][Next]_pvars

\* one thread that nothing waits for
FairSpec == Spec /\ WF_pvars(Load /\ UNCHANGED <<dvars, ccvars>>)
                 /\ WF_pvars(Sort /\ UNCHANGED ccvars)

(***************************************************************************)
(* What the services of a file mean, without the loader                    *)
(***************************************************************************)
\* the definition that the service name of Main extends: the override file has
\* the first word
FirstExtends(name) ==
    IF <<Override, name>> \in DOMAIN conf /\ conf[<<Override, name>>].extends # None
    THEN conf[<<Override, name>>].extends ELSE conf[<<Main, name>>].extends

\* following extends from name one never comes to an end: there are definitions
\* that all extend one another
IsCyclic(name) ==
    \E S \in SUBSET DOMAIN conf :
       FirstExtends(name) \in S /\ \A n \in S : conf[n].extends \in S

\* the definitions one comes to by following extends from name, nearest first
Further(s) ==
    LET next == IF Len(s) = 1 THEN FirstExtends(s[1][2]) ELSE conf[Last(s)].extends
    IN IF next \in DOMAIN conf THEN Append(s, next) ELSE s
Chain(name) ==
    LET Follow[k \in 0 .. RecursionLimit] ==
            IF k = 0 THEN <<<<Main, name>>>> ELSE Further(Follow[k - 1])
    IN Follow[RecursionLimit]

\* the chain with the override file in its place
Writers(name) ==
    IF <<Override, name>> \in DOMAIN conf
    THEN <<<<Override, name>>>> \o Chain(name) ELSE Chain(name)
Where(W, S) == {i \in DOMAIN W : W[i] \in S}
Nearest(W, S) == IF Where(W, S) = {} THEN None ELSE W[Min(Where(W, S))]

\* the directory of a file
Directory(file) == IF file = Override THEN Main ELSE file

\* services that cannot be put in an order: each requires another of them
InCircle(S) == S # {} /\ \A n \in S : Requires(n) \cap S # {}

(***************************************************************************)
(* Properties                                                              *)
(***************************************************************************)
\* What is loaded, sorted and created has its type; while services are sorted
\* each is either sorted or unmarked.
TypeOK ==
    /\ stage \in {"load", "refused", "circular", "crashed", "sort", "sorting",
                  "dependency_error", "making", "done", "up"}
    /\ DOMAIN conf \subseteq Nodes
    /\ calls \in Seq(Nodes)
    /\ dict = None \/ dict \in Dict
    /\ \A n \in DOMAIN loaded : loaded[n] \in Dict
    /\ unmarked \cap ToSet(sorted) = {} /\ ToSet(made) \subseteq ToSet(sorted)
    /\ stage = "sorting" => unmarked \cup ToSet(sorted) = DOMAIN loaded
    /\ options \in Options

\* A loaded service is what a reader of the files expects: a value is the
\* nearest definition's along the chain of extends, an image or a build
\* whichever is nearer, a list all of theirs from the far end, and a path is
\* relative to the file it is written in.
LoadedAsWritten ==
    LET ImageOrBuild == {n \in DOMAIN conf : conf[n].image \/ conf[n].build}
        Volumes == {n \in DOMAIN conf : conf[n].volumes}
        Environment == {n \in DOMAIN conf : conf[n].environment}
        Ports == {n \in DOMAIN conf : conf[n].ports}
        Relative(path) == path.by # None =>
                            Directory(path.against) = Directory(path.by[1])
    IN \A name \in DOMAIN loaded :
       LET d == loaded[name]
           W == Writers(name)
           ports == Where(W, Ports)
       IN /\ d.image # None => d.image = Nearest(W, ImageOrBuild)
          /\ d.build.by # None => d.build.by = Nearest(W, ImageOrBuild)
          /\ d.image # None \/ d.build.by # None
          /\ d.volumes.by = Nearest(W, Volumes)
          /\ Relative(d.build) /\ Relative(d.volumes)
          /\ Nearest(W, Environment) # None =>
                d.environment = Nearest(W, Environment)
          /\ Len(d.ports) = Cardinality(ports)
          /\ \A i \in ports :
                d.ports[Cardinality({j \in ports : i <= j})] = W[i]

\* A service is never loaded from a circular chain of extends; a chain that
\* comes back to the service itself is always reported as circular, and Python
\* gives up only on a circular one.
CyclesRefused ==
    /\ \A name \in DOMAIN loaded : ~IsCyclic(name)
    /\ stage = "crashed" /\ calls # <<>> =>
          /\ IsCyclic(calls[1][2])
          /\ \A i \in 2 .. Len(calls) : calls[i] # calls[1]

\* docs/compose-file.md: extending as often as one likes is allowed, circular
\* references are an error.
CircularIffRefused ==
    /\ stage = "circular" => IsCyclic(calls[1][2])
    /\ stage = "crashed" => calls = <<>>

\* Services are made after all they require; the sort ends in an error exactly
\* if some services require each other in a circle.
SortedByDependency ==
    /\ \A i, j \in DOMAIN sorted : sorted[j] \in Requires(sorted[i]) => j < i
    /\ stage = "dependency_error" => \E S \in SUBSET DOMAIN loaded : InCircle(S)
    /\ stage = "making" => /\ ToSet(sorted) = DOMAIN loaded
                           /\ Len(sorted) = Cardinality(DOMAIN loaded)

\* Whatever labels the user writes, the service finds all containers it
\* created, one-off containers apart from the others, and each once.
FoundByLabels ==
    \A i \in DOMAIN created :
       Matches(created[i], created[i].name[1] = "project")
       /\ ~Matches(created[i], created[i].name[1] # "project")

\* A container keeps a volume Docker made for the one it replaces as long as the
\* file gives its path as a volume without a host path; and a path with a host
\* path is mounted from there, unless the image of the container that is
\* replaced declares it a volume.
Replaced == {created[i] : i \in {Latest : j \in Found(FALSE)}}
KeepsVolumes(new) ==
    \A p \in Paths :
       /\ options.volumes[p].kind = "host"
          /\ (\A old \in Replaced : p \notin old.image_volumes)
          => new.volumes[p] = options.volumes[p]
       /\ \A old \in Replaced :
             old.volumes[p].kind = "made" /\ options.volumes[p] = DataVolume
             => new.volumes[p] = old.volumes[p]

\* No data is lost however the compose file and the image are edited between
\* recreations: every container that is not a one-off keeps the volumes.
VolumesCopied ==
    [][\A i \in (DOMAIN created') \ DOMAIN created :
          Matches(created'[i], FALSE) => KeepsVolumes(created'[i])]_pvars

\* Loading and sorting end.
ComposeEnds == <>(stage \notin {"load", "sort", "sorting", "making"})
=============================================================================
