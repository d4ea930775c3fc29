-------------------------- MODULE CreateContainer ---------------------------
(***************************************************************************)
(* What a service gives Docker when it creates a container: its name,      *)
(* labels and volumes (Service._get_container_create_options), through     *)
(* recreations between which the user edits the compose file.              *)
(*                                                                         *)
(* A volume option is a path alone (Docker makes a volume for it), a path  *)
(* with a host path, or absent.  Volumes Docker makes are numbered.        *)
(***************************************************************************)
EXTENDS Naturals, Sequences

CONSTANTS
    Paths,          \* paths of volumes in containers
    Hosts,          \* paths of the host
    UserLabels,     \* the labels a user may write, of LabelKeys
    MaxContainers   \* containers ever created

LabelKeys == {"project", "service", "one_off", "number", "version", "config_hash", "other"}

ASSUME UserLabelsAssumption == UserLabels \subseteq LabelKeys
ASSUME MaxContainersAssumption == MaxContainers \in Nat

VARIABLES
    options,        \* of the service: its volumes and labels
    image_volumes,  \* paths the image declares as volumes
    created,        \* the containers, oldest first
    made_volumes    \* how many volumes Docker has made

ccvars == <<options, image_volumes, created, made_volumes>>

Absent == [kind |-> "absent"]
DataVolume == [kind |-> "data"]
HostVolume(h) == [kind |-> "host", path |-> h]
Made(i) == [kind |-> "made", volume |-> i]

VolumeOptions == {Absent, DataVolume} \cup {HostVolume(h) : h \in Hosts}
Options == [volumes : [Paths -> VolumeOptions], labels : SUBSET UserLabels]

(***************************************************************************)
(* Names and labels                                                        *)
(***************************************************************************)
\* build_container_name, unless there is a container_name; a one-off container
\* never has that
container_name(number, one_off) ==
    IF one_off THEN <<"project", "service", "run", number>> ELSE <<"container_name">>

\* the filter of Service.containers
labels(one_off) ==
    [project |-> "ours", service |-> "ours",
     one_off |-> IF one_off THEN "True" ELSE "False"]

Over(f, g) == [k \in DOMAIN f \cup DOMAIN g |-> IF k \in DOMAIN g THEN g[k] ELSE f[k]]

\* Mutant: the labels of the user win.
build_container_labels_mutant(label_options, service_labels, number, hashed) ==
    Over(Over(service_labels, [number |-> number, version |-> "ours"]),
         [k \in label_options |-> "user"])

build_container_labels(label_options, service_labels, number, hashed) ==
    Over(Over(Over([k \in label_options |-> "user"], service_labels),
              [number |-> number, version |-> "ours"]),
         IF hashed THEN [config_hash |-> "ours"] ELSE <<>>)

Matches(c, one_off) ==
    \A k \in DOMAIN labels(one_off) : c.labels[k] = labels(one_off)[k]

\* the containers the service finds, and of those the one recreated last
Found(one_off) == {i \in DOMAIN created : Matches(created[i], one_off)}
Latest == CHOOSE i \in Found(FALSE) : \A j \in Found(FALSE) : j <= i
_next_container_number(one_off) ==
    IF Found(one_off) = {} THEN 1
    ELSE 1 + created[CHOOSE i \in Found(one_off) :
                        \A j \in Found(one_off) :
                            created[j].labels.number <= created[i].labels.number
                    ].labels.number

(***************************************************************************)
(* Volumes                                                                 *)
(***************************************************************************)
\* Mutant: only what the image declares is looked for.
get_container_data_volumes_mutant(previous) ==
    [p \in {q \in Paths : /\ q \in previous.image_volumes
                          /\ previous.volumes[q] # Absent}
        |-> previous.volumes[p]]

\* paths that are volumes without a host path, here or in the image of the
\* previous container, that it had mounted, whatever it had mounted there
get_container_data_volumes(previous) ==
    [p \in {q \in Paths : /\ \/ options.volumes[q] = DataVolume
                             \/ q \in previous.image_volumes
                          /\ previous.volumes[q] # Absent}
        |-> previous.volumes[p]]

\* previous is empty or holds the previous container
merge_volume_bindings(previous) ==
    LET bound == {p \in Paths : options.volumes[p].kind = "host"}
    IN Over([p \in bound |-> options.volumes[p]],
            IF previous = <<>> THEN <<>>
            ELSE get_container_data_volumes(Head(previous)))

\* what Docker mounts: the binds, and a new volume wherever there is none
Mounted(binds) ==
    [p \in Paths |->
        IF p \in DOMAIN binds THEN binds[p]
        ELSE IF options.volumes[p] = DataVolume \/ p \in image_volumes
        THEN Made(made_volumes + 1) ELSE Absent]

\* _get_container_create_options and what Docker makes of it
Container(number, one_off, previous) ==
    [name |-> container_name(number, one_off),
     labels |-> build_container_labels(options.labels, labels(one_off), number,
                                       ~one_off),
     volumes |-> Mounted(merge_volume_bindings(previous)),
     image_volumes |-> image_volumes]

(***************************************************************************)
(* Actions                                                                 *)
(***************************************************************************)
Create(number, one_off, previous) ==
    /\ Len(created) < MaxContainers
    /\ created' = Append(created, Container(number, one_off, previous))
    /\ made_volumes' = made_volumes + 1
    /\ UNCHANGED <<options, image_volumes>>

\* up: recreated if there is one
create_container ==
    /\ Found(FALSE) = {}
    /\ Create(_next_container_number(FALSE), FALSE, <<>>)

recreate_container ==
    /\ Found(FALSE) # {}
    /\ Create(created[Latest].labels.number, FALSE, <<created[Latest]>>)

\* run
create_one_off == Create(_next_container_number(TRUE), TRUE, <<>>)

\* the user edits the compose file, or builds another image
edit ==
    /\ Len(created) \in 1 .. MaxContainers - 1
    /\ options' \in Options
    /\ image_volumes' \in SUBSET Paths
    /\ UNCHANGED <<created, made_volumes>>

ContainerStep == create_container \/ recreate_container \/ create_one_off \/ edit
=============================================================================
